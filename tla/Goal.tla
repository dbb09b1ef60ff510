-------------------------------- MODULE Goal --------------------------------
(***************************************************************************)
(* How tdnf turns a command into a change of the installed packages:       *)
(* TDNFResolve (client/api.c) with TDNFPrepareAllPackages                  *)
(* (client/resolve.c), TDNFGoal, TDNFHistoryGoal and TDNFSolv              *)
(* (client/goal.c), and the queries they ask (solv/tdnfpackage.c,          *)
(* client/packageutils.c, solv/tdnfquery.c).                               *)
(*                                                                         *)
(* The arguments become a queue of packages (Prepare), the queue and the   *)
(* configuration become jobs for libsolv (MakeJobs, Rules), libsolv        *)
(* answers with the packages installed afterwards (Solve), and the answer  *)
(* is checked, perhaps with jobs added and libsolv asked a second time     *)
(* (Check).  What is left is confirmed by the user and committed; module   *)
(* RpmTrans is what then happens, module History what is written down.     *)
(*                                                                         *)
(* libsolv itself is external: Answers is what its jobs and rules promise, *)
(* every answer they allow is explored.                                    *)
(***************************************************************************)
EXTENDS Queries

CONSTANTS InstallOnly, InstallOnlyLimit,   \* installonlypkgs, installonly_limit
          Protected,      \* protected.d
          Locks,          \* locks.d
          MinVersion,     \* [Names -> Nat], minversions.d
          CleanRequirements,               \* clean_requirements_on_remove
          FirstInstalled, FirstAuto,       \* what the first command finds
          Specs,          \* the arguments a user may give
          Options,        \* the options a user may give
          Filters,        \* --security, --sec-severity, --reboot-required
          MaxArguments    \* bound: the number of arguments

ASSUME GoalConstants ==
    /\ FirstInstalled \subseteq Ids
    /\ Options # {} /\ CleanRequirements \in BOOLEAN
    /\ \A o \in Options : o.erasing \in BOOLEAN /\ o.noauto \in BOOLEAN
    /\ InstallOnlyLimit \in Nat /\ MinVersion \in [Names -> Nat]
    /\ FirstAuto \subseteq Names /\ MaxArguments \in Nat
    /\ \A s \in Specs : s.version \in Nat

VARIABLES
    pc,         \* where the command is
    cmd,        \* the command: its type, arguments and options
    todo,       \* the arguments TDNFPrepareAllPackages has not seen yet
    goal,       \* queueGoal
    jobs,       \* queueJobs, and pPool->considered
    answer,     \* the packages installed if the transaction is run
    retries,    \* the local variable of TDNFSolv
    err         \* dwError

vars == <<installed, auto, pc, cmd, todo, goal, jobs, answer, retries, err>>

(***************************************************************************)
(* TDNF_ALTERTYPE: what a command asks for.  "undo" stands for the         *)
(* commands of the history, which arrive with two queues of their own.     *)
(***************************************************************************)
Singles == {"install", "reinstall", "erase", "autoerase", "upgrade", "downgrade"}
Alls == {"upgradeall", "distrosync", "downgradeall", "autoeraseall"}
Erasing == {"erase", "autoerase", "autoeraseall"}

NoCommand == [type |-> None, specs |-> {}, filter |-> {}, opt |-> CHOOSE o \in Options : TRUE]
NoJobs == [install |-> {}, erase |-> {}, update |-> None, clean |-> FALSE, multi |-> {},
           lock |-> {}, uninstall |-> {}, user |-> {}, disabled |-> {}]

-----------------------------------------------------------------------------
(***************************************************************************)
(* The command line: TDNFResolve up to TDNFPrepareAllPackages.             *)
(***************************************************************************)
Init ==
    /\ installed = FirstInstalled /\ auto = FirstAuto
    /\ pc = "idle" /\ todo = {} /\ goal = {}
    /\ cmd = NoCommand /\ jobs = NoJobs /\ answer = {} /\ retries = 0 /\ err = None

\* the command fails; only the history keeps what was written into it
Fail(e) == err' = e /\ pc' = "done"

\* a command with arguments
Ask ==
    /\ pc = "idle"
    /\ \E t \in Singles, s \in SUBSET Specs, o \in Options :
         /\ Cardinality(s) \in 1..MaxArguments
         /\ cmd' = [NoCommand EXCEPT !.type = t, !.specs = s, !.opt = o]
         /\ todo' = s
    /\ pc' = "prepare"
    /\ UNCHANGED <<installed, auto, goal, jobs, answer, retries, err>>

(***************************************************************************)
(* A command for everything: TDNFFilterPackages prepares every installed   *)
(* name for a downgrade, TDNFGetAutoInstalledOrphans fills the queue.      *)
(***************************************************************************)
AskAll ==
    /\ pc = "idle"
    /\ \E t \in Alls, o \in Options :
         /\ cmd' = [NoCommand EXCEPT !.type = t, !.opt = o]
         /\ todo' = IF t # "downgradeall" THEN {}
                    ELSE {[name |-> Name[p], version |-> 0] : p \in installed}
         /\ IF t = "autoeraseall" /\ ~o.history
            THEN Fail("history") /\ goal' = {}
            ELSE /\ err' = err /\ pc' = "prepare"
                 /\ goal' = IF t = "autoeraseall" THEN AutoInstalledOrphans ELSE {}
    /\ UNCHANGED <<installed, auto, jobs, answer, retries>>

\* upgrade with a filter for advisories: what they name takes the place of the arguments
AskAdvised ==
    /\ pc = "idle"
    /\ \E f \in Filters, o \in Options :
         /\ cmd' = [NoCommand EXCEPT !.type = "upgrade", !.filter = {f}, !.opt = o]
         /\ todo' = {[name |-> n, version |-> 0] : n \in UpdatePackages(f)}
         /\ IF Updates({}, f) = {} THEN Fail("no data") ELSE pc' = "prepare" /\ err' = err
    /\ UNCHANGED <<installed, auto, goal, jobs, answer, retries>>

Queue(S) == goal' = goal \cup S /\ UNCHANGED <<auto, err, pc>>

(***************************************************************************)
(* TDNFPrepareSinglePkg, by type.  An error it does not clear ends the     *)
(* whole command; what earlier arguments wrote into the history stays.     *)
(***************************************************************************)
PrepareUnknown(spec) ==
    /\ Matching(spec, installed \cup Available) = {}
    /\ UNCHANGED <<goal, auto>>
    /\ IF cmd.opt.skip THEN UNCHANGED <<err, pc>> ELSE Fail("no match")

\* TDNFMatchForReinstall
PrepareReinstall(spec) ==
    LET here == Matching(spec, installed) IN
    /\ cmd.type = "reinstall"
    /\ IF here \cap Available = {} THEN Fail("no match") /\ UNCHANGED <<goal, auto>>
       ELSE \E p \in here : IF p \in Available THEN Queue({p})
                            ELSE Fail("no match") /\ UNCHANGED <<goal, auto>>

\* TDNFAddPackagesForErase; a package that is not installed is no error
PrepareErase(spec) ==
    /\ cmd.type \in {"erase", "autoerase"}
    /\ Queue(Matching(spec, installed))

(***************************************************************************)
(* TDNFAddPackagesForInstall: any version but the highest installed one is *)
(* queued.  The package may be there already, as a dependency: then        *)
(* TDNFMarkAutoInstalledSinglePkg clears the flag of the argument as it is *)
(* written, which is the flag of a package only if it is a plain name.     *)
(***************************************************************************)
PrepareInstall(spec) ==
    LET best == HighestAvailable(spec)
        new == {p \in best : \/ Named(Name[p], installed) = {}
                             \/ Version[p] # Version[Highest(Named(Name[p], installed))]
                             \/ spec.version = 0 /\ spec.name \in InstallOnly}
    IN /\ cmd.type = "install"
       /\ IF best = {} THEN Fail("no match") /\ UNCHANGED <<goal, auto>>
          ELSE IF new # {} THEN Queue(new)
          ELSE /\ UNCHANGED goal
               /\ IF ~cmd.opt.history THEN Fail("history") /\ UNCHANGED auto
                  ELSE /\ auto' = IF spec.version = 0 THEN auto \ {spec.name} ELSE auto
                       /\ UNCHANGED <<err, pc>>

\* TDNFAddPackagesForUpgrade: there must be an installed package to compare with
PrepareUpgrade(spec) ==
    LET best == HighestAvailable(spec) IN
    /\ cmd.type = "upgrade"
    /\ IF \A p \in best : Named(Name[p], installed) = {}
       THEN Fail("no match") /\ UNCHANGED <<goal, auto>>
       ELSE Queue({p \in best : Higher(p, Highest(Named(Name[p], installed)))})

\* TDNFAddPackagesForDowngrade: below the lowest installed version
PrepareDowngrade(spec) ==
    LET found == Matching(spec, Available)
        here == Named(spec.name, installed)
    IN /\ cmd.type \in {"downgrade", "downgradeall"}
       /\ IF found = {} \/ here = {} THEN Fail("no match") /\ UNCHANGED <<goal, auto>>
          ELSE Queue(Downgrades(Lowest(here), found))

PrepareSingle(spec) ==
    \/ PrepareReinstall(spec) \/ PrepareErase(spec) \/ PrepareInstall(spec)
    \/ PrepareUpgrade(spec) \/ PrepareDowngrade(spec)

\* TDNFPrepareAllPackages: the arguments one after the other, in any order
Prepare ==
    /\ pc = "prepare"
    /\ \E spec \in todo :
         /\ todo' = todo \ {spec}
         /\ \/ PrepareUnknown(spec)
            \/ /\ Matching(spec, installed \cup Available) # {}
               /\ PrepareSingle(spec)
    /\ UNCHANGED <<installed, cmd, jobs, answer, retries>>

-----------------------------------------------------------------------------
(***************************************************************************)
(* TDNFGoal: the queue becomes jobs, except for excluded names             *)
(* (TDNFAddGoal).  Where packages may be erased, every installed package   *)
(* that is not flagged is declared user installed; the result of that      *)
(* call is not looked at, so if the history cannot be read there are no    *)
(* such jobs.  nAutoErase puts CLEANDEPS on the jobs made so far.          *)
(***************************************************************************)
AllowErasing(c) == c.opt.erasing \/ c.type \in Erasing
Wanted(S) == {p \in S : Name[p] \notin cmd.opt.excludes}
UserInstalled_Inverted == {p \in installed : Name[p] \in auto}    \* mutated: the other ones
UserInstalled == IF cmd.opt.history THEN {p \in installed : Name[p] \notin auto} ELSE {}

MakeJobs ==
    /\ pc = "prepare" /\ todo = {}
    /\ IF cmd.type \in {"upgradeall", "distrosync"}
       THEN /\ jobs' = [NoJobs EXCEPT !.update = cmd.type,
                            !.clean = CleanRequirements /\ ~cmd.opt.noauto,
                            !.user = IF AllowErasing(cmd) THEN UserInstalled ELSE {}]
            /\ pc' = "rules" /\ err' = err
       ELSE IF goal = {} THEN Fail("already installed") /\ UNCHANGED jobs
       ELSE /\ jobs' = [NoJobs EXCEPT
                 !.erase = IF cmd.type \in Erasing THEN Wanted(goal) ELSE {},
                 !.install = IF cmd.type \in Erasing THEN {} ELSE Wanted(goal),
                 !.clean = (CleanRequirements /\ ~cmd.opt.noauto) \/ cmd.type = "autoerase",
                 !.user = IF AllowErasing(cmd) THEN UserInstalled ELSE {}]
            /\ pc' = "rules" /\ err' = err
    /\ UNCHANGED <<installed, auto, cmd, todo, goal, answer, retries>>

(***************************************************************************)
(* TDNFHistoryGoal: the queues TDNFHistoryResolve found, to install and to *)
(* erase, erasing allowed and no CLEANDEPS.                                *)
(***************************************************************************)
Undo ==
    /\ pc = "idle"
    /\ \E o \in Options, i \in SUBSET (Available \ installed), e \in SUBSET installed :
         /\ Cardinality(i) + Cardinality(e) \in 1..2
         /\ cmd' = [NoCommand EXCEPT !.type = "undo", !.opt = o]
         /\ goal' = i
         /\ jobs' = [NoJobs EXCEPT !.install = {p \in i : Name[p] \notin o.excludes},
                                   !.erase = {p \in e : Name[p] \notin o.excludes}]
    /\ pc' = "rules"
    /\ UNCHANGED <<installed, auto, todo, answer, retries, err>>

(***************************************************************************)
(* TDNFSolv before the solver runs: excludes and minimal versions disable  *)
(* packages; installed installonly names may have several versions; locked *)
(* installed names are locked; where erasing is allowed                    *)
(* TDNFSolvAddProtectPkgs refuses to erase a protected package unless the  *)
(* jobs install another one of the name, and allows all other installed    *)
(* packages to go.                                                         *)
(***************************************************************************)
TooLow == {p \in Ids : Version[p] < MinVersion[Name[p]]}
Excluded == {p \in Ids : Name[p] \in cmd.opt.excludes}
MayErase == AllowErasing(cmd) \/ cmd.type = "undo"
Locked_Later == {n \in Locks : Named(n, installed) = {}}    \* mutated: swapped condition
Locked == {n \in Locks : Named(n, installed) # {}}
MultiInstalled == {n \in InstallOnly : Named(n, installed) # {}}
Readded(p) == \E q \in jobs.install : Name[q] = Name[p]

Rules ==
    /\ pc = "rules"
    /\ LET kept == {p \in installed : Name[p] \in Protected}
           allowed == IF MayErase THEN installed \ kept ELSE {}
       IN IF MayErase /\ \E p \in jobs.erase : Name[p] \in Protected /\ ~Readded(p)
          THEN Fail("protected") /\ UNCHANGED jobs
          ELSE /\ jobs' = [jobs EXCEPT !.disabled = TooLow \cup Excluded,
                               !.multi = MultiInstalled, !.lock = Locked,
                               !.uninstall = allowed,
                               !.user = IF MayErase THEN @ \cup kept ELSE @]
               /\ pc' = "solve" /\ err' = err
    /\ UNCHANGED <<installed, auto, cmd, todo, goal, answer, retries>>

-----------------------------------------------------------------------------
(***************************************************************************)
(* libsolv.  An answer fulfils every job and lock, leaves no requirement   *)
(* open, keeps one version of a name unless it may have several, takes no  *)
(* disabled package, and changes nothing without a reason: a package comes *)
(* because a job, a requirement or an update brings it; it goes because a  *)
(* job erases it, another version or an obsoleting package replaces it, it *)
(* cannot stay and may go, or CLEANDEPS finds that nothing needs it.  That *)
(* is never why a user installed package goes, nor what such a one needs.  *)
(***************************************************************************)
Needs(p, q) == Requires[p] \cap Provides(q) # {}
Replaces(J, q, p) ==
    \/ Name[q] = Name[p] /\ Name[p] \notin J.multi
    \/ Name[p] \in Obsoletes[q]

\* reasons that do not lead around in a circle: one outside the group U for some package of U
Comes(J, new, U) == \E p \in U :
    \/ p \in J.install
    \/ \E q \in new \ U : /\ Needs(q, p)
                         /\ \A r \in installed : Needs(q, r) =>
                              r \notin new /\ \A u \in U : ~Replaces(J, u, r)
    \/ /\ J.update # None
       /\ \E q \in installed :
            \/ Name[q] \in Obsoletes[p]
            \/ Name[q] = Name[p] /\ (J.update = "distrosync" \/ Higher(p, q))

Goes(J, new, U) == \E p \in U :
    \/ p \in J.erase
    \/ \E q \in new \ installed : Replaces(J, q, p)
    \/ p \in J.uninstall /\ \E n \in Requires[p] : \A q \in new \cup U : n \notin Provides(q)
    \/ /\ J.clean /\ J.user \cap U = {}
       /\ \A q \in new : ~Needs(q, p)
       /\ \E q \in installed \ (new \cup U) : Needs(q, p)

IsAnswer(J, new) ==
    /\ \A p \in new, q \in new : p # q /\ Name[p] = Name[q] => Name[p] \in J.multi
    /\ \A p \in new : \A n \in Requires[p] : \E q \in new : n \in Provides(q)
    /\ \A p \in new \ installed, q \in new : Name[q] \notin Obsoletes[p]
    /\ \A U \in (SUBSET (new \ installed)) \ {{}} : Comes(J, new, U)
    /\ \A U \in (SUBSET (installed \ new)) \ {{}} : Goes(J, new, U)

Answers(J) ==
    LET kept == J.install \cup {p \in installed : Name[p] \in J.lock}
        possible == {p \in installed \cup (Available \ J.disabled) :
                        p \notin J.erase /\ (Name[p] \in J.lock => p \in installed)}
    IN IF kept \subseteq possible
       THEN {new \in {kept \cup S : S \in SUBSET (possible \ kept)} : IsAnswer(J, new)}
       ELSE {}

(***************************************************************************)
(* If there is no answer libsolv reports problems and gives up some of the *)
(* jobs.  SolvReportProblems makes that an error, unless --skip-broken is  *)
(* given and every problem is one of a rule of packages: then tdnf goes on *)
(* with what is left.                                                      *)
(***************************************************************************)
OnlyJobs(i, e) == [jobs EXCEPT !.install = i, !.erase = e]

Problems ==
    \/ Fail("problems") /\ UNCHANGED answer
    \/ /\ cmd.opt.skip
       /\ \E i \in SUBSET jobs.install, e \in SUBSET jobs.erase :
            answer' \in Answers(OnlyJobs(i, e))
       /\ pc' = "check" /\ err' = err

Solve ==
    /\ pc = "solve"
    /\ LET answers == Answers(jobs)
       IN IF answers = {} THEN Problems ELSE answer' \in answers /\ pc' = "check" /\ err' = err
    /\ UNCHANGED <<installed, auto, cmd, todo, goal, jobs, retries>>

-----------------------------------------------------------------------------
(***************************************************************************)
(* TDNFSolvCheckProtectPkgsInTrans: a protected package that the answer    *)
(* erases or obsoletes is an error, whatever the jobs.  One that another   *)
(* version replaces is neither.                                            *)
(***************************************************************************)
Replaced(p) == Name[p] \notin jobs.multi /\ Named(Name[p], answer \ installed) # {}
LosesProtected_Erased ==    \* mutated: obsoleted packages are not looked for
    \E p \in installed \ answer :
        Name[p] \in Protected /\ \A q \in answer : Name[p] \notin Provides(q)
LosesProtected == \E p \in installed \ answer : Name[p] \in Protected /\ ~Replaced(p)

CheckProtected ==
    /\ pc = "check" /\ LosesProtected
    /\ Fail("protected")
    /\ UNCHANGED <<installed, auto, cmd, todo, goal, jobs, answer, retries>>

(***************************************************************************)
(* TDNFSolvCheckInstallOnlyLimitInTrans counts what will be installed of   *)
(* an installonly name.  A name that is not installed yet is not counted:  *)
(* its first version is not a multi-install.                               *)
(***************************************************************************)
Count(n) == IF n \in jobs.multi THEN Cardinality(Named(n, answer)) ELSE 0
Exceeding_More == {n \in InstallOnly : Count(n) > InstallOnlyLimit + 1}    \* mutated: off by one
Exceeding == {n \in InstallOnly : Count(n) > InstallOnlyLimit}
Surplus(n) == Count(n) - InstallOnlyLimit
Removable(n) == Named(n, installed \cap answer)

\* retries++ and the condition of the loop
Tries == retries + 1
LastTry_Late == Tries >= 3    \* mutated: off by one
LastTry == Tries >= 2

\* above the limit: jobs erase installed versions, in the order of the rpm database
CheckLimit ==
    /\ pc = "check" /\ ~LosesProtected /\ Exceeding # {}
    /\ retries' = Tries
    /\ \E erased \in SUBSET installed :
         /\ \A p \in erased : Name[p] \in Exceeding
         /\ \A n \in Exceeding :
              /\ Named(n, erased) \subseteq Removable(n)
              /\ \/ Cardinality(Named(n, erased)) = Surplus(n)
                 \/ Named(n, erased) = Removable(n) /\ Cardinality(Removable(n)) < Surplus(n)
         /\ jobs' = [jobs EXCEPT !.erase = @ \cup erased]
    /\ IF LastTry THEN Fail("limit exceeded") ELSE pc' = "solve" /\ err' = err
    /\ UNCHANGED <<installed, auto, cmd, todo, goal, answer>>

\* nothing to complain about: the packages are shown to the user
Present ==
    /\ pc = "check" /\ ~LosesProtected /\ Exceeding = {}
    /\ pc' = "confirm"
    /\ UNCHANGED <<installed, auto, cmd, todo, goal, jobs, answer, retries, err>>

(***************************************************************************)
(* The transaction is run, and TDNFMarkAutoInstalled flags what it         *)
(* installed: user installed if TDNFAddUserInstall put the name on the     *)
(* list (for an install or an undo, and only if it was in the queue).      *)
(* Upgraded and downgraded packages are not on pPkgsToInstall and keep     *)
(* their flags; so do the packages an undo brings back.                    *)
(***************************************************************************)
Installs == {p \in answer \ installed : Named(Name[p], installed) = {} \/ Name[p] \in jobs.multi}
AskedNames == IF cmd.type \in {"install", "undo"} THEN {Name[p] : p \in goal} ELSE {}

Commit ==
    /\ pc = "confirm"
    /\ installed' = answer
    /\ LET new == {Name[p] : p \in Installs} IN
       auto' = IF cmd.type = "undo" THEN auto \cup (new \ AskedNames)
               ELSE (auto \ new) \cup (new \ AskedNames)
    /\ pc' = "done"
    /\ UNCHANGED <<cmd, todo, goal, jobs, answer, retries, err>>

\* the user says no (or the transaction fails): nothing is installed or erased
Decline ==
    /\ pc = "confirm"
    /\ Fail("declined")
    /\ UNCHANGED <<installed, auto, cmd, todo, goal, jobs, answer, retries>>

\* the end of the command (the cleanup of TDNFResolve and the end of the process)
Finish ==
    /\ pc = "done"
    /\ pc' = "idle" /\ cmd' = NoCommand /\ todo' = {} /\ goal' = {} /\ jobs' = NoJobs
    /\ answer' = {} /\ retries' = 0 /\ err' = None
    /\ UNCHANGED <<installed, auto>>

-----------------------------------------------------------------------------
Step == \/ Prepare \/ MakeJobs \/ Rules \/ Solve
        \/ CheckProtected \/ CheckLimit \/ Present
        \/ Commit \/ Decline \/ Finish
Next == Ask \/ AskAll \/ AskAdvised \/ Undo \/ Step

\* tdnf works on a command until it is done; no user has to give one
Spec == Init /\ [][Next]_vars /\ WF_vars(Step)
=============================================================================
