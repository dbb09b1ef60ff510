----------------------------- MODULE GoalProofs ------------------------------
(***************************************************************************)
(* What is proved about Goal, for any pool, configuration and options, and *)
(* whatever libsolv answers within its rules.                              *)
(*                                                                         *)
(* The invariant keeps what the checks of an answer rely on: from Rules on *)
(* the jobs hold the rules of the configuration, and an answer is one that *)
(* these rules allow, although the jobs change between two tries.  Two     *)
(* more invariants follow what goes from its reasons (GoingInv) and what   *)
(* comes from the queue (ComingInv); the queries are compared as they are. *)
(***************************************************************************)
EXTENDS GoalProps, QueryProps, FiniteSetTheorems, WellFoundedInduction, TLAPS

\* the jobs have the rules of the configuration
HaveRules ==
    /\ jobs.disabled = TooLow \cup Excluded
    /\ jobs.multi = MultiInstalled /\ jobs.lock = Locked

\* what the rules say of the packages that are installed afterwards
Allowed(J, new) ==
    /\ new \subseteq installed \cup (Available \ J.disabled)
    /\ \A p \in installed : Name[p] \in J.lock => p \in new
    /\ \A p \in new : Name[p] \in J.lock => p \in installed
    /\ \A p, q \in new : p # q /\ Name[p] = Name[q] => Name[p] \in J.multi

RulesInv == pc \in {"solve", "check", "confirm"} => HaveRules
AnswerInv == pc \in {"check", "confirm"} => Allowed(jobs, answer)
TriesInv == /\ pc \in {"solve", "check"} => retries <= 1
            /\ pc \in {"idle", "prepare", "rules"} => retries = 0
CheckedInv == pc = "confirm" => ~LosesProtected /\ Exceeding = {}

Inv == TypeOK /\ RulesInv /\ AnswerInv /\ TriesInv /\ CheckedInv

USE PoolConstants, GoalConstants DEF None
-----------------------------------------------------------------------------
(***************************************************************************)
(* The pool.                                                               *)
(***************************************************************************)
LEMMA MatchingType == ASSUME TypeOK, NEW spec, NEW S PROVE Matching(spec, S) \subseteq Ids
<1>1. installed \cup Available \subseteq Ids
  BY DEF TypeOK
<1>2. Selected(spec) \subseteq Ids
  BY <1>1 DEF Selected
<1>3. QED
  BY <1>2 DEF Matching

LEMMA HighestAvailableType == ASSUME TypeOK, NEW spec PROVE HighestAvailable(spec) \subseteq Ids
<1>1. installed \cup Available \subseteq Ids
  BY DEF TypeOK
<1>2. \A S : Top(S) \subseteq S
  BY DEF Top
<1>3. BestAvailable(spec) \subseteq Ids
  BY <1>1, <1>2 DEF BestAvailable, Named
<1>4. QED
  BY <1>2, <1>3, MatchingType DEF HighestAvailable

\* what libsolv may answer is what the rules of its jobs allow
LEMMA AnswerAllowed ==
  ASSUME NEW J, NEW new \in Answers(J)
  PROVE  Allowed(J, new)
<1> DEFINE kept == J.install \cup {p \in installed : Name[p] \in J.lock}
           possible == {p \in installed \cup (Available \ J.disabled) :
                          p \notin J.erase /\ (Name[p] \in J.lock => p \in installed)}
<1>1. kept \subseteq possible /\ IsAnswer(J, new) /\ \E S \in SUBSET (possible \ kept) : new = kept \cup S
  BY DEF Answers
<1>2. new \subseteq possible /\ kept \subseteq new
  BY <1>1
<1>3. \A p, q \in new : p # q /\ Name[p] = Name[q] => Name[p] \in J.multi
  BY <1>1 DEF IsAnswer
<1>4. QED
  BY <1>2, <1>3 DEF Allowed

LEMMA AllowedType == ASSUME TypeOK, NEW J, NEW new, Allowed(J, new) PROVE new \subseteq Ids
  BY DEF TypeOK, Allowed

-----------------------------------------------------------------------------
(***************************************************************************)
(* Types: the initial state, and each action.                              *)
(***************************************************************************)
LEMMA ConstantTypes == NoCommand \in Command /\ NoJobs \in JobSet
  BY DEF NoCommand, Command, NoJobs, JobSet

LEMMA InitInv == Init => Inv
<1> SUFFICES ASSUME Init PROVE Inv
  OBVIOUS
<1>1. TypeOK
  BY ConstantTypes DEF Init, TypeOK
<1>2. QED
  BY <1>1 DEF Init, Inv, RulesInv, AnswerInv, TriesInv, CheckedInv

-----------------------------------------------------------------------------
(***************************************************************************)
(* The command line.                                                       *)
(***************************************************************************)
\* the steps before the jobs have their rules
Quiet == pc' \in {"idle", "prepare", "rules", "done"}

LEMMA QuietInv ==
  ASSUME Inv, Quiet, TypeOK', pc' # "done" => retries' = 0
  PROVE  Inv'
BY DEF Inv, Quiet, RulesInv, AnswerInv, TriesInv, CheckedInv

LEMMA AskInv == Inv /\ (Ask \/ AskAll \/ AskAdvised \/ Undo) => Inv'
<1> SUFFICES ASSUME Inv PROVE Ask \/ AskAll \/ AskAdvised \/ Undo => Inv'
  OBVIOUS
<1> USE DEF Inv, TypeOK, Command
<1>1. retries = 0 \/ pc # "idle"
  BY DEF TriesInv
<1>2. AutoInstalledOrphans \subseteq Ids
  BY DEF AutoInstalledOrphans
<1>4. ASSUME Ask PROVE Inv'
  <2>1. cmd' \in Command
    BY <1>4, ConstantTypes DEF Ask
  <2>2. QED
    BY <1>1, <1>4, <2>1, QuietInv DEF Ask, Quiet
<1>5. ASSUME AskAll PROVE Inv'
  <2>1. cmd' \in Command
    BY <1>5, ConstantTypes DEF AskAll
  <2>2. goal' \subseteq Ids
    BY <1>2, <1>5 DEF AskAll
  <2>3. QED
    BY <1>1, <1>5, <2>1, <2>2, QuietInv DEF AskAll, Fail, Quiet
<1>6. ASSUME AskAdvised PROVE Inv'
  <2>1. cmd' \in Command
    <3>1. PICK f \in Filters, o \in Options :
            cmd' = [NoCommand EXCEPT !.type = "upgrade", !.filter = {f}, !.opt = o]
      BY <1>6, Zenon DEF AskAdvised
    <3>2. "upgrade" \in Singles /\ {f} \in SUBSET Filters
      BY DEF Singles
    <3>3. QED
      BY <3>1, <3>2, ConstantTypes
  <2>2. QED
    BY <1>1, <1>6, <2>1, QuietInv DEF AskAdvised, Fail, Quiet
<1>7. ASSUME Undo PROVE Inv'
  <2>1. PICK o \in Options, i \in SUBSET (Available \ installed), e \in SUBSET installed :
          /\ Cardinality(i) + Cardinality(e) \in 1..2
          /\ cmd' = [NoCommand EXCEPT !.type = "undo", !.opt = o]
          /\ goal' = i
          /\ jobs' = [NoJobs EXCEPT !.install = {p \in i : Name[p] \notin o.excludes},
                                    !.erase = {p \in e : Name[p] \notin o.excludes}]
    BY <1>7, Zenon DEF Undo
  <2>2. cmd' \in Command
    BY <2>1, ConstantTypes
  <2>3. jobs' \in JobSet
    <3> DEFINE in == {p \in i : Name[p] \notin o.excludes}
               out == {p \in e : Name[p] \notin o.excludes}
    <3>1. in \subseteq Ids /\ out \subseteq Ids
      OBVIOUS
    <3>2. jobs' = [NoJobs EXCEPT !.install = in, !.erase = out]
      BY <2>1
    <3> HIDE DEF in, out
    <3> QED
      BY <3>1, <3>2, ConstantTypes DEF JobSet
  <2>4. goal' \subseteq Ids
    BY <2>1
  <2>5. QED
    BY <1>1, <1>7, <2>2, <2>3, <2>4, QuietInv DEF Undo, Quiet
<1>8. QED
  BY <1>4, <1>5, <1>6, <1>7

(***************************************************************************)
(* Preparing the arguments: whatever its type, one argument queues ids of  *)
(* the pool, takes flags away, or ends the command.                        *)
(***************************************************************************)
LEMMA PrepareType ==
  ASSUME TypeOK, pc = "prepare", NEW spec, PrepareUnknown(spec) \/ PrepareSingle(spec)
  PROVE  goal' \subseteq Ids /\ auto' \subseteq Names /\ pc' \in {"prepare", "done"}
<1> USE DEF TypeOK, Queue, Fail
<1>1. \A S : Matching(spec, S) \subseteq Ids
  BY MatchingType
<1>2. HighestAvailable(spec) \subseteq Ids
  BY HighestAvailableType
<1>3. CASE PrepareUnknown(spec)
  BY <1>3 DEF PrepareUnknown
<1>4. CASE PrepareReinstall(spec)
  BY <1>1, <1>4 DEF PrepareReinstall
<1>5. CASE PrepareErase(spec)
  BY <1>1, <1>5 DEF PrepareErase
<1>6. CASE PrepareInstall(spec)
  <2> DEFINE best == HighestAvailable(spec)
             new == {p \in best : \/ Named(Name[p], installed) = {}
                                  \/ Version[p] # Version[Highest(Named(Name[p], installed))]
                                  \/ spec.version = 0 /\ spec.name \in InstallOnly}
  <2>1. new \subseteq Ids
    BY <1>2
  <2>2. \/ Queue(new)
        \/ goal' = goal /\ auto' \in {auto, auto \ {spec.name}} /\ pc' \in {"prepare", "done"}
    <3> HIDE DEF best, new
    <3>1. CASE best = {}
      BY <1>6, <3>1 DEF PrepareInstall, best
    <3>2. CASE best # {} /\ new # {}
      BY <1>6, <3>2 DEF PrepareInstall, best, new
    <3>3. CASE best # {} /\ new = {}
      BY <1>6, <3>3 DEF PrepareInstall, best, new
    <3>4. QED
      BY <3>1, <3>2, <3>3
  <2>3. QED
    BY <2>1, <2>2
<1>7. CASE PrepareUpgrade(spec)
  BY <1>2, <1>7 DEF PrepareUpgrade
<1>8. CASE PrepareDowngrade(spec)
  <2>1. \A p : Downgrades(p, Matching(spec, Available)) \subseteq Ids
    BY <1>1 DEF Downgrades, Top
  <2>2. QED
    BY <1>8, <2>1 DEF PrepareDowngrade
<1>9. QED
  BY <1>3, <1>4, <1>5, <1>6, <1>7, <1>8 DEF PrepareSingle

LEMMA PrepareInv == Inv /\ Prepare => Inv'
<1> SUFFICES ASSUME Inv, Prepare PROVE Inv'
  OBVIOUS
<1>1. PICK spec \in todo : PrepareUnknown(spec) \/ PrepareSingle(spec)
  BY DEF Prepare
<1>2. goal' \subseteq Ids /\ auto' \subseteq Names /\ pc' \in {"prepare", "done"}
  BY <1>1, PrepareType DEF Prepare, Inv
<1>3. TypeOK'
  BY <1>2 DEF Prepare, Inv, TypeOK
<1>4. QED
  BY <1>2, <1>3, QuietInv DEF Prepare, Quiet, Inv, TriesInv

-----------------------------------------------------------------------------
(***************************************************************************)
(* The jobs and their rules.                                               *)
(***************************************************************************)
LEMMA MakeJobsInv == Inv /\ MakeJobs => Inv'
<1> SUFFICES ASSUME Inv, MakeJobs PROVE Inv'
  OBVIOUS
<1>1. UserInstalled \subseteq Ids /\ Wanted(goal) \subseteq Ids
  BY DEF UserInstalled, Wanted, Inv, TypeOK
<1>2. cmd.opt.noauto \in BOOLEAN
  BY DEF Inv, TypeOK, Command
<1> DEFINE user == IF AllowErasing(cmd) THEN UserInstalled ELSE {}
           all == CleanRequirements /\ ~cmd.opt.noauto
           clean == all \/ cmd.type = "autoerase"
           erase == IF cmd.type \in Erasing THEN Wanted(goal) ELSE {}
           install == IF cmd.type \in Erasing THEN {} ELSE Wanted(goal)
<1>a. \/ jobs' = jobs
      \/ /\ cmd.type \in {"upgradeall", "distrosync"}
         /\ jobs' = [NoJobs EXCEPT !.update = cmd.type, !.clean = all, !.user = user]
      \/ jobs' = [NoJobs EXCEPT !.erase = erase, !.install = install, !.clean = clean,
                                !.user = user]
  BY DEF MakeJobs
<1>b. /\ user \subseteq Ids /\ erase \subseteq Ids /\ install \subseteq Ids
      /\ all \in BOOLEAN /\ clean \in BOOLEAN
  BY <1>1, <1>2
<1>3. jobs' \in JobSet
  <2> HIDE DEF user, all, clean, erase, install
  <2>1. CASE jobs' = jobs
    BY <2>1 DEF Inv, TypeOK
  <2>2. CASE /\ cmd.type \in {"upgradeall", "distrosync"}
             /\ jobs' = [NoJobs EXCEPT !.update = cmd.type, !.clean = all, !.user = user]
    BY <1>b, <2>2, ConstantTypes DEF JobSet
  <2>3. CASE jobs' = [NoJobs EXCEPT !.erase = erase, !.install = install, !.clean = clean,
                                    !.user = user]
    BY <1>b, <2>3, ConstantTypes DEF JobSet
  <2>4. QED
    BY <1>a, <2>1, <2>2, <2>3
<1>4. TypeOK' /\ Quiet
  BY <1>3 DEF MakeJobs, Quiet, Fail, Inv, TypeOK
<1>5. QED
  BY <1>4, QuietInv DEF MakeJobs, Inv, TriesInv

LEMMA RulesStepInv == Inv /\ Rules => Inv'
<1> SUFFICES ASSUME Inv, Rules PROVE Inv'
  OBVIOUS
<1>1. /\ TooLow \cup Excluded \subseteq Ids
      /\ MultiInstalled \subseteq InstallOnly /\ Locked \subseteq Locks
  BY DEF TooLow, Excluded, MultiInstalled, Locked
<1>2. CASE pc' = "done"
  <2>1. TypeOK'
    BY <1>2 DEF Rules, Fail, Inv, TypeOK
  <2>2. QED
    BY <1>2, <2>1, QuietInv DEF Quiet
<1>3. CASE pc' # "done"
  <2> DEFINE kept == {p \in installed : Name[p] \in Protected}
             allowed == IF MayErase THEN installed \ kept ELSE {}
  <2>1. /\ pc' = "solve"
        /\ jobs' = [jobs EXCEPT !.disabled = TooLow \cup Excluded,
                               !.multi = MultiInstalled, !.lock = Locked,
                               !.uninstall = allowed,
                               !.user = IF MayErase THEN @ \cup kept ELSE @]
    BY <1>3 DEF Rules, Fail
  <2>2. kept \subseteq Ids /\ allowed \subseteq Ids
    BY DEF Inv, TypeOK
  <2>3. jobs' \in JobSet
    <3> HIDE DEF kept, allowed
    <3> QED
      BY <1>1, <2>1, <2>2 DEF JobSet, Inv, TypeOK
  <2>4. TypeOK'
    BY <2>1, <2>3 DEF Rules, Inv, TypeOK
  <2>5. HaveRules'
    BY <2>1 DEF Rules, HaveRules, TooLow, Excluded, MultiInstalled, Locked, Inv, TypeOK, JobSet, Named
  <2>6. QED
    BY <2>1, <2>4, <2>5 DEF Rules, Inv, RulesInv, AnswerInv, TriesInv, CheckedInv
<1>4. QED
  BY <1>2, <1>3

-----------------------------------------------------------------------------
(***************************************************************************)
(* libsolv and the checks of its answer.  When jobs are given up, or erase *)
(* jobs are added for the second try, the rules stay.                      *)
(***************************************************************************)
LEMMA AllowedByRules ==
  ASSUME NEW J, NEW K, NEW new, Allowed(J, new),
         K.disabled = J.disabled, K.lock = J.lock, K.multi = J.multi
  PROVE  Allowed(K, new)
BY DEF Allowed

LEMMA OnlyJobsRules ==
  ASSUME jobs \in JobSet, NEW i, NEW e
  PROVE  /\ OnlyJobs(i, e).disabled = jobs.disabled
         /\ OnlyJobs(i, e).lock = jobs.lock /\ OnlyJobs(i, e).multi = jobs.multi
BY DEF OnlyJobs, JobSet

LEMMA SolveInv == Inv /\ Solve => Inv'
<1> SUFFICES ASSUME Inv, Solve PROVE Inv'
  OBVIOUS
<1>1. TypeOK /\ jobs \in JobSet /\ HaveRules /\ retries <= 1
  BY DEF Inv, TypeOK, RulesInv, TriesInv, Solve
<1>2. CASE pc' = "done" /\ answer' = answer
  BY <1>1, <1>2, QuietInv DEF Solve, TypeOK, Quiet
<1>3. CASE /\ pc' = "check"
           /\ answer' \in Answers(jobs) \/ \E i, e : answer' \in Answers(OnlyJobs(i, e))
  <2>1. Allowed(jobs, answer')
    <3>1. CASE answer' \in Answers(jobs)
      BY <3>1, AnswerAllowed
    <3>2. CASE \E i, e : answer' \in Answers(OnlyJobs(i, e))
      <4>1. PICK i, e : answer' \in Answers(OnlyJobs(i, e))
        BY <3>2
      <4>2. Allowed(OnlyJobs(i, e), answer')
        BY <4>1, AnswerAllowed
      <4>3. QED
        BY <1>1, <4>2, OnlyJobsRules, AllowedByRules
    <3>3. QED
      BY <1>3, <3>1, <3>2
  <2>2. TypeOK'
    BY <1>1, <1>3, <2>1, AllowedType DEF Solve, TypeOK
  <2>3. HaveRules' /\ Allowed(jobs, answer)'
    BY <1>1, <2>1 DEF Solve, HaveRules, Allowed, TooLow, Excluded, MultiInstalled, Locked, Named
  <2>4. QED
    BY <1>1, <1>3, <2>2, <2>3 DEF Solve, Inv, RulesInv, AnswerInv, TriesInv, CheckedInv
<1>4. QED
  BY <1>2, <1>3 DEF Solve, Problems, Fail

LEMMA CheckLimitInv == Inv /\ CheckLimit => Inv'
<1> SUFFICES ASSUME Inv, CheckLimit PROVE Inv'
  OBVIOUS
<1>0. pc = "check" /\ TypeOK /\ HaveRules /\ retries <= 1
  BY DEF Inv, RulesInv, TriesInv, CheckLimit
<1>1. TypeOK /\ jobs \in JobSet /\ HaveRules /\ retries \in 0..1
  BY <1>0 DEF TypeOK
<1>2. PICK erased \in SUBSET installed : jobs' = [jobs EXCEPT !.erase = jobs.erase \cup erased]
  BY DEF CheckLimit
<1>3. /\ jobs' \in JobSet /\ jobs'.disabled = jobs.disabled
      /\ jobs'.multi = jobs.multi /\ jobs'.lock = jobs.lock
  <2>1. jobs.erase \cup erased \subseteq Ids
    BY <1>1 DEF TypeOK, JobSet
  <2> DEFINE more == jobs.erase \cup erased
  <2> HIDE DEF more
  <2>2. jobs' = [jobs EXCEPT !.erase = more] /\ more \subseteq Ids
    BY <1>2, <2>1 DEF more
  <2>3. QED
    BY <1>1, <2>2 DEF JobSet
<1>4. retries' = retries + 1 /\ retries' \in 0..2
  <2>1. retries' = retries + 1
    BY DEF CheckLimit, Tries
  <2>2. QED
    BY <1>1, <2>1
<1>5. pc' \in {"solve", "done"} /\ (pc' = "solve" => retries' <= 1)
  <2>1. IF LastTry THEN pc' = "done" ELSE pc' = "solve"
    BY DEF CheckLimit, Fail
  <2>2. QED
    BY <1>1, <1>4, <2>1 DEF LastTry, Tries
<1>6. TypeOK'
  <2>1. UNCHANGED <<installed, auto, cmd, goal, answer>>
    BY DEF CheckLimit
  <2>2. QED
    BY <1>1, <1>3, <1>4, <1>5, <2>1 DEF TypeOK
<1>7. HaveRules'
  <2>1. UNCHANGED <<installed, auto, cmd, goal, answer>>
    BY DEF CheckLimit
  <2>2. QED
    BY <1>1, <1>3, <2>1 DEF HaveRules, TooLow, Excluded, MultiInstalled, Locked, Named
<1>8. QED
  BY <1>5, <1>6, <1>7 DEF Inv, RulesInv, AnswerInv, TriesInv, CheckedInv

LEMMA PresentInv == Inv /\ Present => Inv'
<1> SUFFICES ASSUME Inv, Present PROVE Inv'
  OBVIOUS
<1>1. HaveRules /\ Allowed(jobs, answer)
  BY DEF Inv, RulesInv, AnswerInv, Present
<1>2. HaveRules' /\ Allowed(jobs, answer)'
  BY <1>1 DEF Present, HaveRules, Allowed, TooLow, Excluded, MultiInstalled, Locked, Named
<1>3. (~LosesProtected /\ Exceeding = {})'
  BY DEF Present, LosesProtected, Replaced, Exceeding, Count, Named
<1>4. QED
  BY <1>2, <1>3 DEF Present, Inv, TypeOK, RulesInv, AnswerInv, TriesInv, CheckedInv

\* the steps that end the command, and the one that makes the next possible
LEMMA EndInv == Inv /\ (CheckProtected \/ Commit \/ Decline \/ Finish) => Inv'
<1> SUFFICES ASSUME Inv, CheckProtected \/ Commit \/ Decline \/ Finish PROVE Inv'
  OBVIOUS
<1>1. CASE CheckProtected \/ Decline
  <2>1. TypeOK' /\ pc' = "done"
    BY <1>1 DEF CheckProtected, Decline, Fail, Inv, TypeOK
  <2>2. QED
    BY <2>1, QuietInv DEF Quiet
<1>2. CASE Commit
  <2>1. {Name[p] : p \in Installs} \subseteq Names
    BY DEF Installs, Names, Inv, TypeOK
  <2>2. auto' \subseteq Names
    BY <1>2, <2>1 DEF Commit, Inv, TypeOK
  <2>3. TypeOK' /\ pc' = "done"
    BY <1>2, <2>2 DEF Commit, Inv, TypeOK
  <2>4. QED
    BY <2>3, QuietInv DEF Quiet
<1>3. CASE Finish
  <2>1. TypeOK'
    BY <1>3, ConstantTypes DEF Finish, Inv, TypeOK
  <2>2. QED
    BY <1>3, <2>1, QuietInv DEF Finish, Quiet
<1>4. QED
  BY <1>1, <1>2, <1>3

-----------------------------------------------------------------------------
(***************************************************************************)
(* The theorems.                                                           *)
(***************************************************************************)
LEMMA NextInv == Inv /\ [Next]_vars => Inv'
<1> SUFFICES ASSUME Inv, [Next]_vars PROVE Inv'
  OBVIOUS
<1>1. CASE UNCHANGED vars
  BY <1>1 DEF vars, Inv, TypeOK, RulesInv, AnswerInv, TriesInv, CheckedInv, HaveRules, Allowed,
              TooLow, Excluded, MultiInstalled, Locked, LosesProtected, Replaced, Exceeding,
              Count, Named
<1>2. CASE Ask \/ AskAll \/ AskAdvised \/ Undo
  BY <1>2, AskInv
<1>3. CASE Prepare \/ MakeJobs \/ Rules
  BY <1>3, PrepareInv, MakeJobsInv, RulesStepInv
<1>4. CASE Solve \/ CheckLimit \/ Present
  BY <1>4, SolveInv, CheckLimitInv, PresentInv
<1>5. CASE CheckProtected \/ Commit \/ Decline \/ Finish
  BY <1>5, EndInv
<1>6. QED
  BY <1>1, <1>2, <1>3, <1>4, <1>5 DEF Next, Step

\* The rules reach libsolv, its answer keeps to them, and it is asked twice at most: the
\* inductive invariant (TDNFResolve, TDNFSolv).
THEOREM Invariant == Spec => []Inv
<1>1. Init => Inv
  BY InitInv
<1>2. Inv /\ [Next]_vars => Inv'
  BY NextInv
<1>3. QED
  BY <1>1, <1>2, PTL DEF Spec

\* Every variable keeps its type (the queues and jobs of TDNFResolve).
THEOREM Types == Spec => []TypeOK
<1>1. Inv => TypeOK
  BY DEF Inv
<1>2. QED
  BY <1>1, Invariant, PTL

\* A transaction that is shown to the user leaves every protected name that was installed
\* (TDNFSolvCheckProtectPkgsInTrans).
THEOREM ProtectedTheorem == Spec => []ProtectedStay
<1>1. Inv => ProtectedStay
  <2> SUFFICES ASSUME Inv, pc = "confirm", NEW p \in installed, Name[p] \in Protected
               PROVE  Named(Name[p], answer) # {}
    BY DEF ProtectedStay
  <2>1. p \in answer \/ Replaced(p)
    BY DEF Inv, CheckedInv, LosesProtected
  <2>2. QED
    BY <2>1 DEF Replaced, Named
<1>2. QED
  BY <1>1, Invariant, PTL

\* With a limit of at least one, a transaction that is shown to the user leaves no more
\* versions of an installonly name (TDNFSolvCheckInstallOnlyLimitInTrans).
THEOREM LimitTheorem == InstallOnlyLimit > 0 => (Spec => []LimitKept)
<1> SUFFICES ASSUME InstallOnlyLimit > 0 PROVE Spec => []LimitKept
  OBVIOUS
<1>1. Inv => LimitKept
  <2> SUFFICES ASSUME Inv, pc = "confirm", NEW n \in InstallOnly
               PROVE  Cardinality(Named(n, answer)) <= InstallOnlyLimit
    BY DEF LimitKept
  <2>1. CASE n \in jobs.multi
    <3>1. ~(Cardinality(Named(n, answer)) > InstallOnlyLimit)
      BY <2>1 DEF Inv, CheckedInv, Exceeding, Count
    <3>2. Cardinality(Named(n, answer)) \in Nat
      <4>1. Named(n, answer) \subseteq Ids /\ IsFiniteSet(Ids)
        BY DEF Named, Inv, TypeOK
      <4>2. QED
        BY <4>1, FS_Subset, FS_CardinalityType
    <3>3. QED
      BY <3>1, <3>2
  <2>2. CASE n \notin jobs.multi
    <3>1. \A p, q \in Named(n, answer) : p = q
      BY <2>2 DEF Inv, AnswerInv, Allowed, Named
    <3>2. CASE Named(n, answer) = {}
      BY <3>2, FS_EmptySet
    <3>3. CASE Named(n, answer) # {}
      <4> DEFINE N == Named(n, answer)
      <4> HIDE DEF N
      <4>1. \E p : N = {p}
        <5>1. \A p, q \in N : p = q
          BY <3>1 DEF N
        <5>2. PICK p : p \in N
          BY <3>3 DEF N
        <5>3. N = {p}
          BY <5>1, <5>2
        <5>4. QED
          BY <5>3
      <4>2. Cardinality(N) = 1
        BY <4>1, FS_Singleton
      <4>3. QED
        BY <4>2 DEF N
    <3>4. QED
      BY <3>2, <3>3
  <2>3. QED
    BY <2>1, <2>2
<1>2. QED
  BY <1>1, Invariant, PTL

\* Locked names stay as they are, and nothing comes that is excluded or below its minimal
\* version (TDNFSolvAddPkgLocks, SolvAddExcludes, TDNFSolvAddMinVersions).
THEOREM RulesTheorem == Spec => []RulesKept
<1>1. Inv => LockedStay
  <2> SUFFICES ASSUME Inv, pc = "confirm", NEW p \in installed, Name[p] \in Locks
               PROVE  Named(Name[p], answer) = Named(Name[p], installed)
    BY DEF LockedStay
  <2>1. Name[p] \in jobs.lock
    BY DEF Inv, RulesInv, HaveRules, Locked, Named
  <2>2. QED
    BY <2>1 DEF Inv, AnswerInv, Allowed, Named
<1>2. Inv => NothingForbidden
  <2> SUFFICES ASSUME Inv, pc = "confirm", NEW p \in answer \ installed
               PROVE  /\ p \in Available /\ Version[p] >= MinVersion[Name[p]]
                      /\ Name[p] \notin cmd.opt.excludes
    BY DEF NothingForbidden
  <2>1. p \in Available \ jobs.disabled /\ p \in Ids
    BY DEF Inv, AnswerInv, Allowed
  <2>2. p \notin TooLow /\ p \notin Excluded
    BY <2>1 DEF Inv, RulesInv, HaveRules
  <2>3. Version[p] \in Nat /\ MinVersion[Name[p]] \in Nat
    BY <2>1 DEF Names
  <2>4. QED
    BY <2>1, <2>2, <2>3 DEF TooLow, Excluded
<1>3. QED
  BY <1>1, <1>2, Invariant, PTL DEF RulesKept

-----------------------------------------------------------------------------
(***************************************************************************)
(* What goes.  Every set of packages that leave has one with a reason that *)
(* is not in the set (libsolv); a reason of that kind is an argument, an   *)
(* orphan, a full installonly name or what took its place, for CLEANDEPS   *)
(* is none where the user installed a member.  That nothing is missing to  *)
(* begin with is needed: libsolv may remove what cannot stay.              *)
(***************************************************************************)
Complete(S) == \A p \in S : \A n \in Requires[p] : \E q \in S : n \in Provides(q)

ReasonInv ==
    pc \in {"check", "confirm"} =>
      Complete(answer) /\ \A U \in SUBSET (installed \ answer) : U # {} => Goes(jobs, answer, U)

\* what an erasing command is about
Targets ==
    IF cmd.type = "autoeraseall" THEN AutoInstalledOrphans
    ELSE UNION {Matching(s, installed) : s \in cmd.specs}

Underway == pc \in {"prepare", "rules", "solve", "check", "confirm"}
QueueInv ==
    /\ pc = "idle" => goal = {}
    /\ Underway /\ cmd.type \in Erasing =>
         /\ goal \subseteq Targets /\ todo \subseteq cmd.specs
         /\ cmd.type = "autoeraseall" => todo = {}
EraseInv ==
    Underway /\ pc # "prepare" /\ cmd.type \in Erasing =>
      /\ \A p \in jobs.erase : p \in Targets \/ Name[p] \in InstallOnly
      /\ cmd.opt.history => UserInstalled \subseteq jobs.user

GoingInv == Complete(installed) /\ ReasonInv /\ QueueInv /\ EraseInv

\* fewer jobs give fewer reasons
LEMMA GoesOnlyJobs ==
  ASSUME jobs \in JobSet, NEW i, NEW e, e \subseteq jobs.erase, NEW new, NEW U, Goes(OnlyJobs(i, e), new, U)
  PROVE  Goes(jobs, new, U)
<1> DEFINE J == OnlyJobs(i, e)
<1>1. /\ J.erase = e /\ J.multi = jobs.multi /\ J.uninstall = jobs.uninstall
      /\ J.clean = jobs.clean /\ J.user = jobs.user
  BY DEF OnlyJobs, JobSet
<1>2. \A q, p : Replaces(J, q, p) <=> Replaces(jobs, q, p)
  BY <1>1 DEF Replaces
<1> HIDE DEF J
<1>3. Goes(J, new, U)
  BY DEF J
<1>4. PICK p \in U :
        \/ p \in J.erase
        \/ \E q \in new \ installed : Replaces(J, q, p)
        \/ p \in J.uninstall /\ \E n \in Requires[p] : \A q \in new \cup U : n \notin Provides(q)
        \/ /\ J.clean /\ J.user \cap U = {}
           /\ \A q \in new : ~Needs(q, p)
           /\ \E q \in installed \ (new \cup U) : Needs(q, p)
  BY <1>3 DEF Goes
<1>5. \/ p \in jobs.erase
      \/ \E q \in new \ installed : Replaces(jobs, q, p)
      \/ p \in jobs.uninstall /\ \E n \in Requires[p] : \A q \in new \cup U : n \notin Provides(q)
      \/ /\ jobs.clean /\ jobs.user \cap U = {}
         /\ \A q \in new : ~Needs(q, p)
         /\ \E q \in installed \ (new \cup U) : Needs(q, p)
  BY <1>1, <1>2, <1>4
<1>6. QED
  BY <1>5 DEF Goes

LEMMA AnswerReasons ==
  ASSUME NEW J, NEW new \in Answers(J)
  PROVE  Complete(new) /\ \A U \in SUBSET (installed \ new) : U # {} => Goes(J, new, U)
<1>1. IsAnswer(J, new)
  BY DEF Answers
<1>2. QED
  BY <1>1 DEF IsAnswer, Complete

\* the steps of a command that leave the packages and the flags alone
LEMMA TargetsSame ==
  ASSUME installed' = installed, auto' = auto, cmd' = cmd
  PROVE  Targets' = Targets /\ UserInstalled' = UserInstalled
BY DEF Targets, AutoInstalledOrphans, Orphaned, Matching, Selected, UserInstalled

LEMMA GoesSame ==
  ASSUME installed' = installed, answer' = answer, jobs' = jobs
  PROVE  \A U : Goes(jobs, answer, U)' <=> Goes(jobs, answer, U)
BY DEF Goes

LEMMA GoingInit == ASSUME Complete(FirstInstalled), Init PROVE GoingInv
BY DEF Init, GoingInv, ReasonInv, QueueInv, EraseInv, Underway

LEMMA AskGoing == Inv /\ GoingInv /\ (Ask \/ AskAll \/ AskAdvised \/ Undo) => GoingInv'
<1> SUFFICES ASSUME Inv, GoingInv, Ask \/ AskAll \/ AskAdvised \/ Undo PROVE GoingInv'
  OBVIOUS
<1>1. pc = "idle" /\ goal = {} /\ installed' = installed /\ auto' = auto
  BY DEF GoingInv, QueueInv, Ask, AskAll, AskAdvised, Undo
<1>2. Complete(installed)' /\ NoCommand \in Command
  BY <1>1, ConstantTypes DEF GoingInv, Complete
<1>3. CASE Ask
  <2>1. PICK t \in Singles, s \in SUBSET Specs, o \in Options :
          cmd' = [NoCommand EXCEPT !.type = t, !.specs = s, !.opt = o] /\ todo' = s
    BY <1>3, Zenon DEF Ask
  <2>2. pc' = "prepare" /\ goal' = {} /\ cmd'.type # "autoeraseall" /\ todo' \subseteq cmd'.specs
    BY <1>1, <1>2, <1>3, <2>1 DEF Ask, Singles, Command
  <2>3. QED
    BY <1>2, <2>2 DEF GoingInv, ReasonInv, QueueInv, EraseInv
<1>4. CASE AskAll
  <2>1. pc' \in {"prepare", "done"}
    BY <1>4 DEF AskAll, Fail
  <2>2. CASE pc' = "prepare"
    <3>1. PICK t \in Alls, o \in Options :
            /\ cmd' = [NoCommand EXCEPT !.type = t, !.opt = o]
            /\ t # "downgradeall" => todo' = {}
            /\ goal' = IF t = "autoeraseall" THEN AutoInstalledOrphans ELSE {}
      BY <1>4, <2>2, Zenon DEF AskAll, Fail
    <3>2. cmd'.type = t
      BY <1>2, <3>1 DEF Command
    <3>3. AutoInstalledOrphans' = AutoInstalledOrphans
      BY <1>1 DEF AutoInstalledOrphans, Orphaned
    <3>4. cmd'.type \in Erasing => cmd'.type = "autoeraseall" /\ todo' = {}
                                   /\ goal' = AutoInstalledOrphans'
      BY <3>1, <3>2, <3>3 DEF Alls, Erasing
    <3>5. QED
      BY <1>2, <2>2, <3>4 DEF GoingInv, ReasonInv, QueueInv, EraseInv, Targets
  <2>3. QED
    BY <1>2, <2>1, <2>2 DEF GoingInv, ReasonInv, QueueInv, EraseInv, Underway
<1>5. CASE AskAdvised
  <2>1. PICK f \in Filters, o \in Options :
          cmd' = [NoCommand EXCEPT !.type = "upgrade", !.filter = {f}, !.opt = o]
    BY <1>5, Zenon DEF AskAdvised
  <2>2. cmd'.type \notin Erasing /\ pc' \in {"prepare", "done"}
    BY <1>2, <1>5, <2>1 DEF AskAdvised, Fail, Erasing, Command
  <2>3. QED
    BY <1>2, <2>2 DEF GoingInv, ReasonInv, QueueInv, EraseInv
<1>6. CASE Undo
  <2>1. PICK o \in Options : cmd' = [NoCommand EXCEPT !.type = "undo", !.opt = o]
    BY <1>6, Zenon DEF Undo
  <2>2. cmd'.type \notin Erasing /\ pc' = "rules"
    BY <1>2, <1>6, <2>1 DEF Undo, Erasing, Command
  <2>3. QED
    BY <1>2, <2>2 DEF GoingInv, ReasonInv, QueueInv, EraseInv
<1>7. QED
  BY <1>3, <1>4, <1>5, <1>6

LEMMA PrepareGoing == Inv /\ GoingInv /\ Prepare => GoingInv'
<1> SUFFICES ASSUME Inv, GoingInv, Prepare PROVE GoingInv'
  OBVIOUS
<1>1. PICK spec \in todo : todo' = todo \ {spec} /\ (PrepareUnknown(spec) \/ PrepareSingle(spec))
  BY DEF Prepare
<1>2. pc = "prepare" /\ installed' = installed /\ cmd' = cmd /\ pc' \in {"prepare", "done"}
  BY <1>1, PrepareType DEF Prepare, Inv
<1>3. Complete(installed)'
  BY <1>2 DEF GoingInv, Complete
<1>4. ASSUME pc' = "prepare", cmd.type \in Erasing
      PROVE  goal' \subseteq Targets' /\ todo' \subseteq cmd.specs /\ cmd.type # "autoeraseall"
  <2>1. spec \in cmd.specs /\ cmd.type # "autoeraseall" /\ goal \subseteq Targets
        /\ todo' \subseteq cmd.specs
    BY <1>1, <1>2, <1>4 DEF GoingInv, QueueInv, Underway
  <2>2. auto' = auto /\ (goal' = goal \/ goal' = goal \cup Matching(spec, installed))
    BY <1>1, <1>4 DEF PrepareUnknown, PrepareSingle, PrepareReinstall, PrepareErase, PrepareInstall,
       PrepareUpgrade, PrepareDowngrade, Erasing, Queue
  <2>3. Matching(spec, installed) \subseteq Targets
    BY <2>1 DEF Targets
  <2>4. Targets' = Targets
    BY <1>2, <2>2, TargetsSame
  <2>5. QED
    BY <2>1, <2>2, <2>3, <2>4
<1>5. QED
  BY <1>2, <1>3, <1>4 DEF GoingInv, ReasonInv, QueueInv, EraseInv, Underway

LEMMA JobsGoing == Inv /\ GoingInv /\ (MakeJobs \/ Rules) => GoingInv'
<1> SUFFICES ASSUME Inv, GoingInv, MakeJobs \/ Rules PROVE GoingInv'
  OBVIOUS
<1>1. /\ installed' = installed /\ auto' = auto /\ cmd' = cmd /\ goal' = goal /\ todo' = todo
      /\ pc \in {"prepare", "rules"} /\ pc' \in {"rules", "solve", "done"}
  BY DEF MakeJobs, Rules, Fail
<1>2. Complete(installed)' /\ Targets' = Targets /\ UserInstalled' = UserInstalled
  BY <1>1, TargetsSame DEF GoingInv, Complete
<1>3. ASSUME pc' # "done", cmd.type \in Erasing
      PROVE  /\ \A p \in jobs'.erase : p \in Targets \/ Name[p] \in InstallOnly
             /\ cmd.opt.history => UserInstalled \subseteq jobs'.user
  <2>1. CASE MakeJobs
    <3> DEFINE erase == Wanted(goal)
               clean == (CleanRequirements /\ ~cmd.opt.noauto) \/ cmd.type = "autoerase"
    <3>1. jobs' = [NoJobs EXCEPT !.erase = erase, !.install = {}, !.clean = clean,
                                 !.user = UserInstalled]
      BY <1>3, <2>1 DEF MakeJobs, Fail, Erasing, AllowErasing
    <3>2. erase \subseteq Targets
      BY <1>1, <1>3 DEF Wanted, GoingInv, QueueInv, Underway
    <3> HIDE DEF erase, clean
    <3>3. jobs'.erase = erase /\ jobs'.user = UserInstalled
      BY <3>1 DEF NoJobs
    <3>4. QED
      BY <3>2, <3>3
  <2>2. CASE Rules
    <3> DEFINE kept == {p \in installed : Name[p] \in Protected}
               allowed == IF MayErase THEN installed \ kept ELSE {}
               user == IF MayErase THEN jobs.user \cup kept ELSE jobs.user
    <3>1. jobs' = [jobs EXCEPT !.disabled = TooLow \cup Excluded, !.multi = MultiInstalled,
                               !.lock = Locked, !.uninstall = allowed, !.user = user]
      BY <1>3, <2>2 DEF Rules, Fail
    <3>2. jobs.user \subseteq user
      OBVIOUS
    <3> HIDE DEF allowed, user
    <3>3. jobs'.erase = jobs.erase /\ jobs'.user = user
      BY <3>1 DEF Inv, TypeOK, JobSet
    <3>4. pc = "rules"
      BY <2>2 DEF Rules
    <3>5. QED
      BY <1>3, <3>2, <3>3, <3>4 DEF GoingInv, EraseInv, Underway
  <2>3. QED
    BY <2>1, <2>2
<1>4. goal' = goal /\ todo' = todo /\ Underway
  BY <1>1 DEF Underway
<1>5. QED
  BY <1>1, <1>2, <1>3, <1>4 DEF GoingInv, ReasonInv, QueueInv, EraseInv, Underway

LEMMA SolveGoing == Inv /\ GoingInv /\ Solve => GoingInv'
<1> SUFFICES ASSUME Inv, GoingInv, Solve PROVE GoingInv'
  OBVIOUS
<1>1. /\ installed' = installed /\ auto' = auto /\ cmd' = cmd /\ goal' = goal /\ todo' = todo
      /\ jobs' = jobs /\ pc = "solve" /\ pc' \in {"check", "done"}
  BY DEF Solve, Problems, Fail
<1>2. Complete(installed)' /\ Targets' = Targets /\ UserInstalled' = UserInstalled
  BY <1>1, TargetsSame DEF GoingInv, Complete
<1>3. ASSUME pc' = "check"
      PROVE  /\ Complete(answer')
             /\ \A U \in SUBSET (installed \ answer') : U # {} => Goes(jobs, answer', U)
  <2>1. \/ answer' \in Answers(jobs)
        \/ \E i \in SUBSET jobs.install, e \in SUBSET jobs.erase : answer' \in Answers(OnlyJobs(i, e))
    BY <1>3 DEF Solve, Problems, Fail
  <2>2. CASE answer' \in Answers(jobs)
    BY <2>2, AnswerReasons
  <2>3. CASE \E i \in SUBSET jobs.install, e \in SUBSET jobs.erase : answer' \in Answers(OnlyJobs(i, e))
    <3>1. PICK i \in SUBSET jobs.install, e \in SUBSET jobs.erase : answer' \in Answers(OnlyJobs(i, e))
      BY <2>3
    <3>2. /\ Complete(answer')
          /\ \A U \in SUBSET (installed \ answer') : U # {} => Goes(OnlyJobs(i, e), answer', U)
      BY <3>1, AnswerReasons
    <3>3. jobs \in JobSet
      BY DEF Inv, TypeOK
    <3>4. QED
      BY <3>2, <3>3, GoesOnlyJobs
  <2>4. QED
    BY <2>1, <2>2, <2>3
<1>4. ReasonInv'
  <2>1. \A U : Goes(jobs, answer, U)' <=> Goes(jobs, answer', U)
    BY <1>1 DEF Goes
  <2>2. QED
    BY <1>1, <1>3, <2>1 DEF ReasonInv, Complete
<1>5. QED
  BY <1>1, <1>2, <1>4 DEF GoingInv, QueueInv, EraseInv, Underway

LEMMA CheckLimitGoing == Inv /\ GoingInv /\ CheckLimit => GoingInv'
<1> SUFFICES ASSUME Inv, GoingInv, CheckLimit PROVE GoingInv'
  OBVIOUS
<1>1. /\ installed' = installed /\ auto' = auto /\ cmd' = cmd /\ goal' = goal /\ todo' = todo
      /\ pc = "check" /\ pc' \in {"solve", "done"}
  BY DEF CheckLimit, Fail
<1>2. Complete(installed)' /\ Targets' = Targets /\ UserInstalled' = UserInstalled
  BY <1>1, TargetsSame DEF GoingInv, Complete
<1>3. PICK erased \in SUBSET installed : /\ \A p \in erased : Name[p] \in Exceeding
                                         /\ jobs' = [jobs EXCEPT !.erase = jobs.erase \cup erased]
  BY DEF CheckLimit
<1>4. jobs'.erase = jobs.erase \cup erased /\ jobs'.user = jobs.user
  BY <1>3 DEF Inv, TypeOK, JobSet
<1>5. \A p \in erased : Name[p] \in InstallOnly
  BY <1>3 DEF Exceeding
<1>6. QED
  BY <1>1, <1>2, <1>4, <1>5 DEF GoingInv, ReasonInv, QueueInv, EraseInv, Underway

LEMMA EndGoing ==
  ASSUME Inv, GoingInv, Present \/ CheckProtected \/ Commit \/ Decline \/ Finish \/ UNCHANGED vars
  PROVE  GoingInv'
<1>1. CASE CheckProtected \/ Decline
  BY <1>1 DEF CheckProtected, Decline, Fail, GoingInv, Complete, ReasonInv, QueueInv, EraseInv, Underway
<1>2. CASE Finish
  BY <1>2 DEF Finish, GoingInv, Complete, ReasonInv, QueueInv, EraseInv, Underway
<1>3. CASE Commit
  <2>1. Complete(answer) /\ installed' = answer /\ pc' = "done"
    BY <1>3 DEF Commit, GoingInv, ReasonInv
  <2>2. QED
    BY <2>1 DEF GoingInv, Complete, ReasonInv, QueueInv, EraseInv, Underway
<1>4. CASE Present \/ UNCHANGED vars
  <2>1. /\ UNCHANGED <<installed, auto, cmd, todo, goal, jobs, answer>>
        /\ pc' = pc \/ (pc = "check" /\ pc' = "confirm")
    <3>1. CASE Present
      BY <3>1 DEF Present
    <3>2. CASE UNCHANGED vars
      BY <3>2 DEF vars
    <3>3. QED
      BY <1>4, <3>1, <3>2
  <2>2. Targets' = Targets /\ UserInstalled' = UserInstalled
    BY <2>1, TargetsSame
  <2>3. \A U : Goes(jobs, answer, U)' <=> Goes(jobs, answer, U)
    BY <2>1, GoesSame
  <2>4. ReasonInv' /\ Complete(installed)'
    BY <2>1, <2>3 DEF GoingInv, ReasonInv, Complete
  <2>5. QED
    BY <2>1, <2>2, <2>4 DEF GoingInv, QueueInv, EraseInv, Underway
<1>5. QED
  BY <1>1, <1>2, <1>3, <1>4

\* the packages that leave and do not depend on a doomed one have no reason to, unless the user
\* installed none of them
LEMMA NoReason ==
  ASSUME Inv, GoingInv, pc = "confirm", cmd.type \in Erasing, cmd.opt.history,
         NEW x \in installed \ answer, x \notin Dependents(Doomed)
  PROVE  Name[x] \in auto
<1> SUFFICES ASSUME Name[x] \notin auto PROVE FALSE
  OBVIOUS
<1> DEFINE D == Dependents(Doomed)
           U == {p \in installed \ answer : p \notin D /\ p \notin AutoInstalledOrphans}
           named == UNION {Matching(s, installed) : s \in cmd.specs}
           gone == {q \in installed \ answer : \/ Name[q] \in InstallOnly
                                              \/ \E r \in answer \ installed : Replaces(jobs, r, q)}
<1>a. Doomed = named \cup gone
  BY Zenon DEF Doomed
<1>0. Doomed \subseteq installed
  <2>1. \A s : Matching(s, installed) \subseteq installed
    BY DEF Matching
  <2>2. named \subseteq installed
    BY <2>1
  <2> HIDE DEF named
  <2>3. QED
    BY <1>a, <2>2
<1>1. Doomed \subseteq D
  BY <1>0 DEF Dependents
<1>2. \A r \in installed, q \in D : Needs(r, q) => r \in D
  <2> SUFFICES ASSUME NEW r \in installed, NEW q \in D, Needs(r, q),
                      NEW C \in SUBSET installed, Doomed \subseteq C,
                      \A s \in installed : (\E t \in C : Needs(s, t)) => s \in C
               PROVE  r \in C
    BY DEF Dependents
  <2>1. q \in C
    BY DEF Dependents
  <2>2. QED
    BY <2>1
<1> HIDE DEF D
<1>3. x \in U /\ x \in UserInstalled
  BY DEF D, AutoInstalledOrphans, UserInstalled
<1>4. jobs.user \cap U # {}
  BY <1>3 DEF GoingInv, EraseInv, Underway
<1>5. Goes(jobs, answer, U)
  BY <1>3 DEF GoingInv, ReasonInv
<1>6. PICK p \in U :
        \/ p \in jobs.erase
        \/ \E q \in answer \ installed : Replaces(jobs, q, p)
        \/ \E n \in Requires[p] : \A q \in answer \cup U : n \notin Provides(q)
  BY <1>4, <1>5 DEF Goes
<1>7. p \in installed \ answer /\ p \notin D /\ p \notin AutoInstalledOrphans
  OBVIOUS
<1>8. Name[p] \notin InstallOnly /\ ~ \E q \in answer \ installed : Replaces(jobs, q, p)
  <2>1. p \notin Doomed
    BY <1>1, <1>7
  <2>2. p \notin gone
    <3> HIDE DEF gone, named
    <3> QED
      BY <1>a, <2>1
  <2>3. QED
    BY <1>7, <2>2
<1>9. CASE p \in jobs.erase
  <2>1. p \in Targets
    BY <1>8, <1>9 DEF GoingInv, EraseInv, Underway
  <2>2. CASE cmd.type = "autoeraseall"
    BY <1>7, <2>1, <2>2 DEF Targets
  <2>3. CASE cmd.type # "autoeraseall"
    BY <1>1, <1>7, <2>1, <2>3 DEF Targets, Doomed
  <2>4. QED
    BY <2>2, <2>3
<1>10. CASE \E n \in Requires[p] : \A q \in answer \cup U : n \notin Provides(q)
  <2>1. PICK n \in Requires[p] : \A q \in answer \cup U : n \notin Provides(q)
    BY <1>10
  <2>2. PICK r \in installed : n \in Provides(r)
    BY <1>7 DEF GoingInv, Complete
  <2>3. Needs(p, r) /\ r \notin answer \cup U /\ r # p
    BY <2>1, <2>2 DEF Needs
  <2>4. r \in D \/ r \in AutoInstalledOrphans
    BY <2>2, <2>3
  <2>5. r \notin AutoInstalledOrphans
    BY <1>7, <2>2, <2>3 DEF AutoInstalledOrphans, Orphaned, Needs
  <2>6. QED
    BY <1>2, <1>7, <2>3, <2>4, <2>5
<1>11. QED
  BY <1>6, <1>8, <1>9, <1>10

\* If nothing is missing to begin with, removing packages takes of those the user installed only
\* what depends on a doomed one (SolvAddUserInstalledToJobs, TDNFGoal, TDNFAddGoal).
THEOREM UserStaysTheorem == Complete(FirstInstalled) => (Spec => []UserStays)
<1> SUFFICES ASSUME Complete(FirstInstalled) PROVE Spec => []UserStays
  OBVIOUS
<1>1. Init => GoingInv
  BY GoingInit
<1>2. Inv /\ GoingInv /\ [Next]_vars => GoingInv'
  BY AskGoing, PrepareGoing, JobsGoing, SolveGoing, CheckLimitGoing, EndGoing DEF Next, Step
<1>3. Inv /\ GoingInv => UserStays
  BY NoReason DEF UserStays
<1>4. QED
  BY <1>1, <1>2, <1>3, Invariant, PTL DEF Spec

-----------------------------------------------------------------------------
(***************************************************************************)
(* The highest of a set of packages.  It exists: in a finite set there is  *)
(* one with the fewest others above it, and these are none.                *)
(***************************************************************************)
LEMMA LeastNumber ==
  ASSUME NEW T, T \subseteq Nat, T # {}
  PROVE  \E x \in T : \A y \in T : x <= y
<1> DEFINE R == OpToRel(<, Nat)
<1>1. IsWellFoundedOn(R, Nat)
  BY NatLessThanWellFounded
<1>2. \A x, y \in Nat : y < x => <<y, x>> \in R
  BY DEF OpToRel
<1> HIDE DEF R
<1>3. PICK x \in T : \A y \in T : ~ (<<y, x>> \in R)
  BY <1>1, WFMin
<1>4. \A y \in T : x \in Nat /\ y \in Nat /\ ~(y < x)
  BY <1>2, <1>3
<1>5. \A y \in T : x <= y
  BY <1>4
<1>6. QED
  BY <1>5

LEMMA HighestExists ==
  ASSUME NEW S, S \subseteq Ids, S # {}
  PROVE  Highest(S) \in S /\ \A q \in S : ~Higher(q, Highest(S))
<1> DEFINE Above(p) == {q \in S : Version[q] > Version[p]}
           Counts == {Cardinality(Above(p)) : p \in S}
<1>0. IsFiniteSet(S) /\ \A p \in S : Version[p] \in Nat
  BY FS_Subset
<1>1. \A p \in S : IsFiniteSet(Above(p)) /\ Cardinality(Above(p)) \in Nat
  BY <1>0, FS_Subset, FS_CardinalityType
<1>2. \A p \in S, q \in S : q \in Above(p) => Cardinality(Above(q)) < Cardinality(Above(p))
  <2> SUFFICES ASSUME NEW p \in S, NEW q \in S, q \in Above(p)
               PROVE  Cardinality(Above(q)) < Cardinality(Above(p))
    OBVIOUS
  <2>1. Above(q) \in SUBSET Above(p) /\ q \notin Above(q)
    BY <1>0
  <2>2. Above(p) # Above(q)
    BY <2>1
  <2> HIDE DEF Above
  <2>3. Cardinality(Above(q)) <= Cardinality(Above(p)) /\ Cardinality(Above(q)) # Cardinality(Above(p))
    BY <1>1, <2>1, <2>2, FS_Subset
  <2>4. QED
    BY <1>1, <2>3
<1> HIDE DEF Above
<1>3. PICK p \in S : \A q \in S : Cardinality(Above(p)) <= Cardinality(Above(q))
  <2>1. Counts \subseteq Nat /\ Counts # {}
    BY <1>1
  <2>2. \E x \in Counts : \A y \in Counts : x <= y
    BY <2>1, LeastNumber
  <2>3. QED
    BY <2>2
<1>4. \A q \in S : q \notin Above(p)
  BY <1>1, <1>2, <1>3
<1>5. \E x \in S : \A q \in S : ~Higher(q, x)
  BY <1>4 DEF Above, Higher
<1>6. QED
  BY <1>5 DEF Highest

\* what SolvFindHighestAvailable finds is one package of the pool, or none
LEMMA BestIsOne ==
  ASSUME NEW spec, NEW p \in HighestAvailable(spec)
  PROVE  p \in installed \cup Available /\ \A q \in HighestAvailable(spec) : q = p
<1>1. \A S : Top(S) \subseteq S /\ \A x, y \in Top(S) : x = y
  BY DEF Top
<1>2. BestAvailable(spec) \subseteq installed \cup Available /\ \A x, y \in BestAvailable(spec) : x = y
  <2> DEFINE found == Named(spec.name, installed \cup Available)
             instead == {o \in installed \cup Available : \E best \in Top(found) : Name[best] \in Obsoletes[o]}
  <2>1. BestAvailable(spec) = IF instead = {} THEN Top(found) ELSE Top(instead)
    BY DEF BestAvailable
  <2>2. found \subseteq installed \cup Available /\ instead \subseteq installed \cup Available
    BY DEF Named
  <2> HIDE DEF found, instead
  <2>3. QED
    BY <1>1, <2>1, <2>2
<1>3. /\ Top(Matching(spec, Available)) \subseteq Available
      /\ \A x, y \in Top(Matching(spec, Available)) : x = y
  BY <1>1 DEF Matching
<1>4. QED
  BY <1>2, <1>3 DEF HighestAvailable

-----------------------------------------------------------------------------
(***************************************************************************)
(* What is upgraded.  An argument that has been prepared has put a higher  *)
(* version of what it names into the queue, the queue becomes jobs, and an *)
(* answer that gives up none holds them.  With one version of each name to *)
(* begin with, "the highest installed one" is the one that is installed.   *)
(***************************************************************************)
Single(S) == \A p, q \in S : Name[p] = Name[q] /\ p # q => Name[p] \in InstallOnly

\* the arguments, or what takes their place
AskedFor ==
    cmd.specs \cup {[name |-> n, version |-> 0] : n \in UNION {UpdatePackages(f) : f \in cmd.filter}}

\* higher versions that the argument is about are answered by the queue
Served(s) ==
    s.version = 0 =>
      \A p \in installed \cap Selected(s), q \in Available :
        Name[q] = Name[p] /\ Higher(q, p) =>
          \/ Name[p] \in InstallOnly \/ Obsoleted(Name[p])
          \/ \E h \in goal : Name[h] = Name[p] /\ Higher(h, p)

UpgradeInv ==
    Underway /\ cmd.type = "upgrade" =>
      /\ \A p \in goal : p \in Available /\ \E q \in installed : Name[q] = Name[p] /\ Higher(p, q)
      /\ todo \subseteq AskedFor /\ \A s \in AskedFor : s \in todo \/ Served(s)
      /\ pc # "prepare" => todo = {} /\ Wanted(goal) \subseteq jobs.install
FilterInv == Underway /\ cmd.filter # {} => cmd.type = "upgrade"
TakenInv == pc \in {"check", "confirm"} /\ ~cmd.opt.skip => jobs.install \subseteq answer

ComingInv == Single(installed) /\ (pc = "idle" => goal = {}) /\ UpgradeInv /\ FilterInv /\ TakenInv

LEMMA ComingInit == ASSUME Single(FirstInstalled), Init PROVE ComingInv
BY DEF Init, ComingInv, UpgradeInv, FilterInv, TakenInv, Underway

LEMMA AskedForSame ==
  ASSUME installed' = installed, cmd' = cmd
  PROVE  AskedFor' = AskedFor
<1>1. \A f : UpdatePackages(f)' = UpdatePackages(f)
  BY DEF UpdatePackages, Updates, InstalledOf, Asked, In, Solvables
<1>2. QED
  BY <1>1 DEF AskedFor

\* what is served stays so while the queue grows
LEMMA ServedGrows ==
  ASSUME installed' = installed, goal \subseteq goal', NEW s, Served(s)
  PROVE  Served(s)'
BY DEF Served, Selected, Obsoleted

\* TDNFAddPackagesForUpgrade
LEMMA UpgradeQueues ==
  ASSUME TypeOK, Single(installed), installed' = installed, NEW spec, spec.version \in Nat,
         PrepareUpgrade(spec), pc = "prepare", pc' = "prepare"
  PROVE  /\ goal \subseteq goal' /\ Served(spec)'
         /\ \A p \in goal' \ goal : p \in Available /\ \E q \in installed : Name[q] = Name[p] /\ Higher(p, q)
<1> DEFINE best == HighestAvailable(spec)
           highest(p) == Highest(Named(Name[p], installed))
<1>0. installed \cup Available \subseteq Ids /\ \A n, S : S \subseteq Ids => Named(n, S) \subseteq Ids
  BY DEF TypeOK, Named
<1>1. /\ goal' = goal \cup {p \in best : Higher(p, highest(p))}
      /\ \E p \in best : Named(Name[p], installed) # {}
  BY DEF PrepareUpgrade, Fail, Queue
<1>2. PICK b \in best : Named(Name[b], installed) # {}
  BY <1>1
<1>3. b \in installed \cup Available /\ \A p \in best : p = b
  BY BestIsOne
<1> HIDE DEF best
<1>4. /\ highest(b) \in installed /\ Name[highest(b)] = Name[b]
      /\ \A q \in Named(Name[b], installed) : ~Higher(q, highest(b))
  BY <1>0, <1>2, HighestExists DEF Named
<1>5. \A p \in goal' \ goal : p \in Available /\ \E q \in installed : Name[q] = Name[p] /\ Higher(p, q)
  <2> SUFFICES ASSUME NEW p \in goal' \ goal
               PROVE  p \in Available /\ \E q \in installed : Name[q] = Name[p] /\ Higher(p, q)
    OBVIOUS
  <2>1. p = b /\ Higher(b, highest(b))
    BY <1>1, <1>3
  <2>2. b \notin installed
    BY <1>4, <2>1 DEF Named
  <2>3. QED
    BY <1>3, <1>4, <2>1, <2>2
<1>6. Served(spec)'
  <2> SUFFICES ASSUME spec.version = 0, NEW p \in installed \cap Selected(spec), NEW q \in Available,
                      Name[q] = Name[p], Higher(q, p), Name[p] \notin InstallOnly, ~Obsoleted(Name[p])
               PROVE  \E h \in goal' : Name[h] = Name[p] /\ Higher(h, p)
    BY DEF Served, Selected, Obsoleted
  <2> DEFINE pool == installed \cup Available
             found == Named(spec.name, pool)
             instead == {o \in pool : \E x \in Top(found) : Name[x] \in Obsoletes[o]}
  <2>1. best = IF instead = {} THEN Top(found) ELSE Top(instead)
    BY DEF best, HighestAvailable, BestAvailable
  <2>2. found # {}
    <3>1. \A S : Top(S) \subseteq S
      BY DEF Top
    <3>2. found = {} => instead = {}
      BY <3>1
    <3>3. QED
      BY <1>2, <2>1, <3>1, <3>2
  <2>3. Name[p] = spec.name /\ p \in found /\ q \in found
    <3>1. Selected(spec) = IF found = {} THEN {x \in pool : spec.name \in Provides(x)} ELSE found
      BY DEF Selected, Named
    <3>2. QED
      BY <2>2, <3>1 DEF Named
  <2>4. /\ Highest(found) \in found /\ ~Higher(q, Highest(found)) /\ Top(found) = {Highest(found)}
        /\ found \subseteq Ids
    <3>1. found \subseteq Ids
      BY <1>0 DEF Named
    <3> HIDE DEF found
    <3>2. Highest(found) \in found /\ \A x \in found : ~Higher(x, Highest(found))
      BY <2>2, <3>1, HighestExists
    <3>3. Top(found) = {Highest(found)}
      BY <3>2 DEF Top
    <3>4. QED
      BY <2>3, <3>1, <3>2, <3>3
  <2>5. Name[Highest(found)] = Name[p]
    BY <2>3, <2>4 DEF Named
  <2>6. instead = {}
    BY <2>4, <2>5 DEF Obsoleted
  <2> HIDE DEF found, instead, pool
  <2>7. b = Highest(found)
    BY <1>3, <2>1, <2>4, <2>6
  <2>8. Higher(b, p)
    <3>1. Version[p] \in Nat /\ Version[q] \in Nat /\ Version[b] \in Nat
      BY <2>3, <2>4, <2>7
    <3>2. QED
      BY <2>4, <2>7, <3>1 DEF Higher
  <2>9. highest(b) = p
    BY <1>4, <2>5, <2>7 DEF Single
  <2>10. b \in goal'
    BY <1>1, <2>8, <2>9
  <2>11. QED
    BY <2>5, <2>7, <2>8, <2>10
<1>7. QED
  BY <1>1, <1>5, <1>6

LEMMA AskComing == Inv /\ ComingInv /\ (Ask \/ AskAll \/ AskAdvised \/ Undo) => ComingInv'
<1> SUFFICES ASSUME Inv, ComingInv, Ask \/ AskAll \/ AskAdvised \/ Undo PROVE ComingInv'
  OBVIOUS
<1>1. pc = "idle" /\ goal = {} /\ installed' = installed /\ auto' = auto
  BY DEF ComingInv, Ask, AskAll, AskAdvised, Undo
<1>2. Single(installed)' /\ NoCommand \in Command /\ NoCommand.filter = {}
  BY <1>1, ConstantTypes DEF ComingInv, Single, NoCommand
<1>3. CASE Ask
  <2>1. PICK t \in Singles, s \in SUBSET Specs, o \in Options :
          cmd' = [NoCommand EXCEPT !.type = t, !.specs = s, !.opt = o] /\ todo' = s
    BY <1>3, Zenon DEF Ask
  <2>2. pc' = "prepare" /\ goal' = {} /\ cmd'.filter = {} /\ cmd'.specs = todo'
    BY <1>1, <1>2, <1>3, <2>1 DEF Ask, Command
  <2>3. AskedFor' = todo'
    BY <2>2 DEF AskedFor
  <2>4. QED
    BY <1>2, <2>2, <2>3 DEF ComingInv, UpgradeInv, FilterInv, TakenInv
<1>4. CASE AskAll \/ Undo
  <2>1. PICK t \in Alls \cup {"undo"}, o \in Options : cmd' = [NoCommand EXCEPT !.type = t, !.opt = o]
    <3>1. CASE AskAll
      BY <3>1, Zenon DEF AskAll
    <3>2. CASE Undo
      BY <3>2, Zenon DEF Undo
    <3>3. QED
      BY <1>4, <3>1, <3>2
  <2>2. cmd'.type # "upgrade" /\ cmd'.filter = {} /\ pc' \in {"prepare", "rules", "done"}
    BY <1>2, <1>4, <2>1 DEF AskAll, Undo, Fail, Alls, Command
  <2>3. QED
    BY <1>2, <2>2 DEF ComingInv, UpgradeInv, FilterInv, TakenInv
<1>5. CASE AskAdvised
  <2>1. PICK f \in Filters, o \in Options :
          /\ cmd' = [NoCommand EXCEPT !.type = "upgrade", !.filter = {f}, !.opt = o]
          /\ todo' = {[name |-> n, version |-> 0] : n \in UpdatePackages(f)}
    BY <1>5, Zenon DEF AskAdvised
  <2>2. /\ cmd'.type = "upgrade" /\ cmd'.filter = {f} /\ cmd'.specs = {} /\ goal' = {}
        /\ pc' \in {"prepare", "done"}
    BY <1>1, <1>2, <1>5, <2>1 DEF AskAdvised, Fail, Command, NoCommand
  <2>3. AskedFor' = todo'
    <3>1. \A g : UpdatePackages(g)' = UpdatePackages(g)
      BY <1>1 DEF UpdatePackages, Updates, InstalledOf, Asked, In, Solvables
    <3>2. UNION {UpdatePackages(g)' : g \in cmd'.filter} = UpdatePackages(f)
      BY <2>2, <3>1
    <3>3. AskedFor' = cmd'.specs \cup {[name |-> n, version |-> 0] :
                                         n \in UNION {UpdatePackages(g)' : g \in cmd'.filter}}
      BY DEF AskedFor
    <3>4. QED
      BY <2>1, <2>2, <3>2, <3>3
  <2>4. QED
    BY <1>2, <2>2, <2>3 DEF ComingInv, UpgradeInv, FilterInv, TakenInv, Underway
<1>6. QED
  BY <1>3, <1>4, <1>5

LEMMA PrepareComing == Inv /\ ComingInv /\ Prepare => ComingInv'
<1> SUFFICES ASSUME Inv, ComingInv, Prepare PROVE ComingInv'
  OBVIOUS
<1>1. PICK spec \in todo : /\ todo' = todo \ {spec}
                           /\ \/ PrepareUnknown(spec)
                              \/ /\ Matching(spec, installed \cup Available) # {}
                                 /\ PrepareSingle(spec)
  BY DEF Prepare
<1>2. pc = "prepare" /\ installed' = installed /\ cmd' = cmd /\ pc' \in {"prepare", "done"}
  BY <1>1, PrepareType DEF Prepare, Inv
<1>3. Single(installed)'
  BY <1>2 DEF ComingInv, Single
<1>4. ASSUME pc' = "prepare", cmd.type = "upgrade"
      PROVE  /\ \A p \in goal' : p \in Available /\ \E q \in installed : Name[q] = Name[p] /\ Higher(p, q)
             /\ todo' \subseteq AskedFor /\ \A s \in AskedFor : s \in todo' \/ Served(s)'
  <2>1. /\ \A p \in goal : p \in Available /\ \E q \in installed : Name[q] = Name[p] /\ Higher(p, q)
        /\ todo \subseteq AskedFor /\ \A s \in AskedFor : s \in todo \/ Served(s)
    BY <1>2, <1>4 DEF ComingInv, UpgradeInv, Underway
  <2>2. CASE PrepareUnknown(spec)
    <3>1. goal' = goal /\ Matching(spec, installed \cup Available) = {}
      BY <2>2 DEF PrepareUnknown
    <3>2. Selected(spec) = {}
      <4>1. Selected(spec) \subseteq installed \cup Available
        BY DEF Selected
      <4>2. QED
        BY <3>1, <4>1 DEF Matching
    <3>3. Served(spec)
      BY <3>2 DEF Served
    <3>4. QED
      BY <1>1, <1>2, <2>1, <3>1, <3>3, ServedGrows
  <2>3. CASE PrepareSingle(spec)
    <3>1. PrepareUpgrade(spec)
      BY <1>4, <2>3 DEF PrepareSingle, PrepareReinstall, PrepareErase, PrepareInstall, PrepareDowngrade
    <3>2. spec.version \in Nat
      BY <2>1 DEF AskedFor, Inv, TypeOK, Command
    <3>3. /\ goal \subseteq goal' /\ Served(spec)'
          /\ \A p \in goal' \ goal : p \in Available /\ \E q \in installed : Name[q] = Name[p] /\ Higher(p, q)
      BY <1>2, <1>4, <3>1, <3>2, UpgradeQueues DEF Inv, ComingInv
    <3>4. QED
      BY <1>1, <1>2, <2>1, <3>3, ServedGrows
  <2>4. QED
    BY <1>1, <2>2, <2>3
<1>5. QED
  BY <1>2, <1>3, <1>4, AskedForSame DEF ComingInv, UpgradeInv, FilterInv, TakenInv, Underway

LEMMA JobsComing == Inv /\ ComingInv /\ (MakeJobs \/ Rules) => ComingInv'
<1> SUFFICES ASSUME Inv, ComingInv, MakeJobs \/ Rules PROVE ComingInv'
  OBVIOUS
<1>1. /\ installed' = installed /\ auto' = auto /\ cmd' = cmd /\ goal' = goal /\ todo' = todo
      /\ pc \in {"prepare", "rules"} /\ pc' \in {"rules", "solve", "done"}
  BY DEF MakeJobs, Rules, Fail
<1>2. Single(installed)' /\ AskedFor' = AskedFor /\ \A s : Served(s) => Served(s)'
  BY <1>1, AskedForSame, ServedGrows DEF ComingInv, Single
<1>3. ASSUME pc' # "done", cmd.type = "upgrade"
      PROVE  todo = {} /\ Wanted(goal)' \subseteq jobs'.install
  <2>1. Wanted(goal)' = Wanted(goal)
    BY <1>1 DEF Wanted
  <2>2. CASE MakeJobs
    <3> DEFINE install == Wanted(goal)
               clean == (CleanRequirements /\ ~cmd.opt.noauto) \/ cmd.type = "autoerase"
               user == IF AllowErasing(cmd) THEN UserInstalled ELSE {}
    <3>1. jobs' = [NoJobs EXCEPT !.erase = {}, !.install = install, !.clean = clean, !.user = user]
      BY <1>3, <2>2 DEF MakeJobs, Fail, Erasing
    <3> HIDE DEF install, clean, user
    <3>2. jobs'.install = install
      BY <3>1 DEF NoJobs
    <3>3. QED
      BY <2>1, <2>2, <3>2 DEF MakeJobs, install
  <2>3. CASE Rules
    <3> DEFINE kept == {p \in installed : Name[p] \in Protected}
               allowed == IF MayErase THEN installed \ kept ELSE {}
               user == IF MayErase THEN jobs.user \cup kept ELSE jobs.user
    <3>1. jobs' = [jobs EXCEPT !.disabled = TooLow \cup Excluded, !.multi = MultiInstalled,
                               !.lock = Locked, !.uninstall = allowed, !.user = user]
      BY <1>3, <2>3 DEF Rules, Fail
    <3> HIDE DEF allowed, user
    <3>2. jobs'.install = jobs.install
      BY <3>1 DEF Inv, TypeOK, JobSet
    <3>3. pc = "rules"
      BY <2>3 DEF Rules
    <3>4. QED
      BY <1>3, <2>1, <3>2, <3>3 DEF ComingInv, UpgradeInv, Underway
  <2>4. QED
    BY <2>2, <2>3
<1>4. Underway
  BY <1>1 DEF Underway
<1>5. QED
  BY <1>1, <1>2, <1>3, <1>4 DEF ComingInv, UpgradeInv, FilterInv, TakenInv, Underway

\* an answer fulfils the jobs; only --skip-broken gives some of them up
LEMMA SolveComing == Inv /\ ComingInv /\ Solve => ComingInv'
<1> SUFFICES ASSUME Inv, ComingInv, Solve PROVE ComingInv'
  OBVIOUS
<1>1. /\ installed' = installed /\ auto' = auto /\ cmd' = cmd /\ goal' = goal /\ todo' = todo
      /\ jobs' = jobs /\ pc = "solve" /\ pc' \in {"check", "done"}
  BY DEF Solve, Problems, Fail
<1>2. Single(installed)' /\ AskedFor' = AskedFor /\ \A s : Served(s) => Served(s)'
  BY <1>1, AskedForSame, ServedGrows DEF ComingInv, Single
<1>3. ASSUME pc' = "check", ~cmd.opt.skip PROVE jobs.install \subseteq answer'
  <2>1. answer' \in Answers(jobs)
    BY <1>3 DEF Solve, Problems, Fail
  <2>2. QED
    BY <2>1 DEF Answers
<1>4. UpgradeInv' /\ FilterInv' /\ TakenInv'
  BY <1>1, <1>2, <1>3 DEF ComingInv, UpgradeInv, FilterInv, TakenInv, Underway, Wanted
<1>5. QED
  BY <1>1, <1>2, <1>4 DEF ComingInv

LEMMA CheckComing ==
  ASSUME Inv, ComingInv, CheckLimit \/ Present \/ UNCHANGED vars
  PROVE  ComingInv'
<1>1. /\ installed' = installed /\ auto' = auto /\ cmd' = cmd /\ goal' = goal /\ todo' = todo
      /\ answer' = answer /\ jobs'.install = jobs.install
      /\ \/ pc' = pc
         \/ pc = "check" /\ pc' \in {"solve", "confirm", "done"}
  <2>1. CASE CheckLimit
    <3>1. PICK erased \in SUBSET installed : jobs' = [jobs EXCEPT !.erase = jobs.erase \cup erased]
      BY <2>1 DEF CheckLimit
    <3>2. jobs'.install = jobs.install
      BY <3>1 DEF Inv, TypeOK, JobSet
    <3>3. QED
      BY <2>1, <3>2 DEF CheckLimit, Fail
  <2>2. CASE Present
    BY <2>2 DEF Present
  <2>3. CASE UNCHANGED vars
    BY <2>3 DEF vars
  <2>4. QED
    BY <2>1, <2>2, <2>3
<1>2. Single(installed)' /\ AskedFor' = AskedFor /\ \A s : Served(s) => Served(s)'
  BY <1>1, AskedForSame, ServedGrows DEF ComingInv, Single
<1>3. UpgradeInv' /\ FilterInv' /\ TakenInv'
  BY <1>1, <1>2 DEF ComingInv, UpgradeInv, FilterInv, TakenInv, Underway, Wanted
<1>4. QED
  BY <1>1, <1>2, <1>3 DEF ComingInv

LEMMA AnswerSingle ==
  ASSUME Inv, pc \in {"check", "confirm"}
  PROVE  Single(answer)
<1>1. jobs.multi \subseteq InstallOnly
  BY DEF Inv, TypeOK, JobSet
<1>2. QED
  BY <1>1 DEF Inv, AnswerInv, Allowed, Single

LEMMA EndComing == Inv /\ ComingInv /\ (CheckProtected \/ Commit \/ Decline \/ Finish) => ComingInv'
<1> SUFFICES ASSUME Inv, ComingInv, CheckProtected \/ Commit \/ Decline \/ Finish PROVE ComingInv'
  OBVIOUS
<1>1. /\ pc' \in {"done", "idle"} /\ (pc' = "idle" => goal' = {})
      /\ installed' = installed \/ (installed' = answer /\ pc = "confirm")
  BY DEF CheckProtected, Commit, Decline, Finish, Fail
<1>2. Single(installed)'
  BY <1>1, AnswerSingle DEF ComingInv, Single
<1>3. QED
  BY <1>1, <1>2 DEF ComingInv, UpgradeInv, FilterInv, TakenInv, Underway

\* what the queries of updates start from
LEMMA InstalledFacts == InstalledOf({}) = installed /\ \A s : InstalledOf({s}) = installed \cap Selected(s)
<1>1. In("system") = {Solvable(p, "system") : p \in installed} /\ In("system") \subseteq Solvables
  BY DEF In, Solvables, Solvable
<1>2. /\ \A p \in installed : \E q \in In("system") : q.pkg = p
      /\ \A q \in In("system") : q.pkg \in installed
  <2>1. \A p : Solvable(p, "system").pkg = p
    BY DEF Solvable
  <2>2. \A p \in installed : Solvable(p, "system") \in In("system")
    BY <1>1
  <2>3. QED
    BY <1>1, <2>1, <2>2
<1>3. InstalledOf({}) = installed
  <2>1. InstalledOf({}) = {q.pkg : q \in In("system")}
    BY DEF InstalledOf, Asked
  <2>2. \A p : p \in InstalledOf({}) <=> p \in installed
    BY <1>2, <2>1
  <2>3. QED
    BY <2>2
<1>4. ASSUME NEW s PROVE InstalledOf({s}) = installed \cap Selected(s)
  <2>1. UNION {Selected(t) : t \in {s}} = Selected(s)
    OBVIOUS
  <2>2. Asked({s}, In("system")) = In("system") \cap Of(Selected(s))
    BY <2>1 DEF Asked
  <2>3. \A q : q \in Asked({s}, In("system")) <=> q \in In("system") /\ q.pkg \in Selected(s)
    BY <1>1, <2>2 DEF Of
  <2>4. \A p : p \in InstalledOf({s}) <=> \E q \in Asked({s}, In("system")) : p = q.pkg
    BY DEF InstalledOf
  <2>5. \A p : p \in InstalledOf({s}) <=> p \in installed /\ p \in Selected(s)
    <3>1. ASSUME NEW p \in InstalledOf({s}) PROVE p \in installed /\ p \in Selected(s)
      <4>1. PICK q \in Asked({s}, In("system")) : p = q.pkg
        BY <2>4, <3>1
      <4>2. QED
        BY <1>2, <2>3, <4>1
    <3>2. ASSUME NEW p, p \in installed, p \in Selected(s) PROVE p \in InstalledOf({s})
      <4>1. PICK q \in In("system") : q.pkg = p
        BY <1>2, <3>2
      <4>2. QED
        BY <2>3, <2>4, <3>2, <4>1
    <3>3. QED
      BY <3>1, <3>2
  <2>6. QED
    BY <2>5
<1>5. QED
  BY <1>3, <1>4

LEMMA UpdateRows ==
  ASSUME NEW specs
  PROVE  \A r : r \in CheckUpdates(specs).rows <=>
           \E p \in InstalledOf(specs) : \E q \in Candidates(p, TRUE) : r = Row(Solvable(q, "repos"))
<1>1. ListQuery("upgrades", specs) = UpDown(specs, TRUE)
  BY DEF ListQuery
<1>2. CheckUpdates(specs).rows = {Row(x) : x \in UpDown(specs, TRUE)}
  BY <1>1 DEF CheckUpdates, Shown
<1>3. \A x : x \in UpDown(specs, TRUE) <=>
        \E p \in InstalledOf(specs) : \E q \in Candidates(p, TRUE) : x = Solvable(q, "repos")
  <2> DEFINE C == UNION {Candidates(p, TRUE) : p \in InstalledOf(specs)}
  <2>1. \A q : q \in C <=> \E p \in InstalledOf(specs) : q \in Candidates(p, TRUE)
    OBVIOUS
  <2>2. UpDown(specs, TRUE) = {Solvable(q, "repos") : q \in C}
    BY DEF UpDown, AllCandidates
  <2> HIDE DEF C
  <2>3. \A x : x \in UpDown(specs, TRUE) <=> \E q \in C : x = Solvable(q, "repos")
    BY <2>2
  <2>4. QED
    BY <2>1, <2>3
<1>4. \A r : r \in CheckUpdates(specs).rows <=> \E x \in UpDown(specs, TRUE) : r = Row(x)
  BY <1>2
<1>5. ASSUME NEW p \in InstalledOf(specs), NEW q \in Candidates(p, TRUE)
      PROVE  Row(Solvable(q, "repos")) \in CheckUpdates(specs).rows
  BY <1>3, <1>4
<1>6. ASSUME NEW r \in CheckUpdates(specs).rows
      PROVE  \E p \in InstalledOf(specs) : \E q \in Candidates(p, TRUE) : r = Row(Solvable(q, "repos"))
  <2>1. PICK x \in UpDown(specs, TRUE) : r = Row(x)
    BY <1>4
  <2>2. QED
    BY <1>3, <2>1
<1>7. ASSUME NEW r,
             \E p \in InstalledOf(specs) : \E q \in Candidates(p, TRUE) : r = Row(Solvable(q, "repos"))
      PROVE  r \in CheckUpdates(specs).rows
  <2>1. PICK p \in InstalledOf(specs) : \E q \in Candidates(p, TRUE) : r = Row(Solvable(q, "repos"))
    BY <1>7
  <2>2. PICK q \in Candidates(p, TRUE) : r = Row(Solvable(q, "repos"))
    BY <2>1
  <2>3. QED
    BY <1>5, <2>2
<1>8. QED
  BY <1>6, <1>7, Zenon

LEMMA ComingUpgradesAgree == Inv /\ ComingInv => UpgradesAgree
<1> SUFFICES ASSUME Inv, ComingInv, pc = "rules", cmd.type = "upgrade"
             PROVE  /\ {Row(Solvable(p, "repos")) : p \in goal} \subseteq CheckUpdates({}).rows
                    /\ \A s \in cmd.specs : \A r \in CheckUpdates({s}).rows :
                         s.version > 0 \/ r.name \in InstallOnly \/ Obsoleted(r.name)
                           \/ Named(r.name, goal) # {}
  BY DEF UpgradesAgree
<1>0. /\ \A p \in goal : p \in Available /\ \E q \in installed : Name[q] = Name[p] /\ Higher(p, q)
      /\ \A s \in cmd.specs : Served(s)
  BY DEF ComingInv, UpgradeInv, Underway, AskedFor
<1>1. ASSUME NEW p \in goal PROVE Row(Solvable(p, "repos")) \in CheckUpdates({}).rows
  <2>1. PICK q \in installed : Name[q] = Name[p] /\ Higher(p, q)
    BY <1>0
  <2>2. p \in Candidates(q, TRUE)
    BY <1>0, <2>1 DEF Candidates, Named
  <2>3. q \in InstalledOf({})
    BY InstalledFacts
  <2>4. QED
    BY <2>2, <2>3, UpdateRows
<1>2. ASSUME NEW s \in cmd.specs, NEW r \in CheckUpdates({s}).rows, ~(s.version > 0)
      PROVE  r.name \in InstallOnly \/ Obsoleted(r.name) \/ Named(r.name, goal) # {}
  <2>1. PICK p \in InstalledOf({s}) : \E x \in Candidates(p, TRUE) : r = Row(Solvable(x, "repos"))
    BY UpdateRows
  <2>2. PICK q \in Candidates(p, TRUE) : r = Row(Solvable(q, "repos"))
    BY <2>1
  <2>3. p \in installed \cap Selected(s)
    BY InstalledFacts
  <2>4. r.name = Name[q]
    BY <2>2 DEF Row, Solvable
  <2>5. q \in Available /\ Name[q] = Name[p] /\ Higher(q, p)
    BY <2>2 DEF Candidates, Named
  <2>6. s.version = 0
    <3>1. s.version \in Nat
      BY DEF Inv, TypeOK, Command
    <3>2. QED
      BY <1>2, <3>1
  <2>7. \/ Name[p] \in InstallOnly \/ Obsoleted(Name[p])
        \/ \E h \in goal : Name[h] = Name[p] /\ Higher(h, p)
    BY <1>0, <2>3, <2>5, <2>6 DEF Served
  <2>8. QED
    BY <2>4, <2>5, <2>7 DEF Named
<1>3. QED
  BY <1>1, <1>2

LEMMA ComingAdvisedIsClosed == Inv /\ ComingInv => AdvisedIsClosed
<1> SUFFICES ASSUME Inv, ComingInv, pc = "confirm", ~cmd.opt.skip,
                    NEW f \in cmd.filter, NEW u \in Updates({}, f),
                    u[1] \in answer, Name[u[1]] \notin InstallOnly \cup cmd.opt.excludes,
                    ~Obsoleted(Name[u[1]]), Candidates(u[1], TRUE) \cap u[2].packages # {}
             PROVE  FALSE
  BY DEF AdvisedIsClosed
<1> DEFINE p == u[1]
           s == [name |-> Name[p], version |-> 0]
<1>1. p \in installed
  BY InstalledFacts DEF Updates
<1>2. PICK c \in Candidates(p, TRUE) : c \in u[2].packages
  OBVIOUS
<1>3. c \in Available /\ Name[c] = Name[p] /\ Higher(c, p)
  BY <1>2 DEF Candidates, Named
<1>4. Name[p] \in UpdatePackages(f)
  <2>1. Name[c] \in NamesOf(u[2])
    BY <1>2 DEF NamesOf
  <2>2. QED
    BY <1>3, <2>1 DEF UpdatePackages
<1>5. s \in AskedFor
  <2>1. Name[p] \in UNION {UpdatePackages(g) : g \in cmd.filter}
    BY <1>4
  <2>2. QED
    BY <2>1 DEF AskedFor
<1>6. Served(s) /\ Wanted(goal) \subseteq jobs.install /\ jobs.install \subseteq answer
  BY <1>5 DEF ComingInv, UpgradeInv, FilterInv, TakenInv, Underway
<1>7. p \in Selected(s)
  BY <1>1 DEF Selected
<1>8. PICK h \in goal : Name[h] = Name[p] /\ Higher(h, p)
  BY <1>1, <1>3, <1>6, <1>7 DEF Served
<1>9. h \in answer
  BY <1>6, <1>8 DEF Wanted
<1>10. h = p
  BY <1>8, <1>9, AnswerSingle DEF Single
<1>11. Version[p] \in Nat
  BY <1>1 DEF Inv, TypeOK
<1>12. QED
  BY <1>8, <1>10, <1>11 DEF Higher

\* With one version of each name to begin with, "upgrade" queues what check-update lists
\* (TDNFAddPackagesForUpgrade, SolvFindAllUpDownCandidates).
THEOREM UpgradesAgreeTheorem == Single(FirstInstalled) => (Spec => []UpgradesAgree)
<1> SUFFICES ASSUME Single(FirstInstalled) PROVE Spec => []UpgradesAgree
  OBVIOUS
<1>1. Init => ComingInv
  BY ComingInit
<1>2. Inv /\ ComingInv /\ [Next]_vars => ComingInv'
  BY AskComing, PrepareComing, JobsComing, SolveComing, CheckComing, EndComing DEF Next, Step
<1>3. QED
  BY <1>1, <1>2, ComingUpgradesAgree, Invariant, PTL DEF Spec

\* With one version of each name to begin with, "upgrade --security" and its like leave no
\* package as it is that an advisory they were asked for is about
\* (TDNFGetUpdatePkgs, TDNFPrepareAllPackages, TDNFSolv).
THEOREM AdvisedIsClosedTheorem == Single(FirstInstalled) => (Spec => []AdvisedIsClosed)
<1> SUFFICES ASSUME Single(FirstInstalled) PROVE Spec => []AdvisedIsClosed
  OBVIOUS
<1>1. Init => ComingInv
  BY ComingInit
<1>2. Inv /\ ComingInv /\ [Next]_vars => ComingInv'
  BY AskComing, PrepareComing, JobsComing, SolveComing, CheckComing, EndComing DEF Next, Step
<1>3. QED
  BY <1>1, <1>2, ComingAdvisedIsClosed, Invariant, PTL DEF Spec

-----------------------------------------------------------------------------
(***************************************************************************)
(* The lists.  Each answer is a set of packages, shown by name and         *)
(* version.                                                                *)
(***************************************************************************)
Key(p) == [name |-> Name[p], version |-> Version[p]]
Keys(a) == {[name |-> r.name, version |-> r.version] : r \in a.rows}

LEMMA KeysShown ==
  ASSUME NEW R
  PROVE  \A k : k \in Keys(Shown(R)) <=> \E q \in R : k = Key(q.pkg)
<1>1. \A q : Row(q).name = Name[q.pkg] /\ Row(q).version = Version[q.pkg]
  BY DEF Row
<1>2. Shown(R).rows = {Row(q) : q \in R}
  BY DEF Shown
<1>3. ASSUME NEW k \in Keys(Shown(R)) PROVE \E q \in R : k = Key(q.pkg)
  <2>1. PICK r \in Shown(R).rows : k = [name |-> r.name, version |-> r.version]
    BY DEF Keys
  <2>2. PICK q \in R : r = Row(q)
    BY <1>2
  <2>3. QED
    BY <1>1, <2>1, <2>2 DEF Key
<1>4. ASSUME NEW q \in R PROVE Key(q.pkg) \in Keys(Shown(R))
  <2>1. Row(q) \in Shown(R).rows
    BY <1>2
  <2>2. Key(q.pkg) = [name |-> Row(q).name, version |-> Row(q).version]
    BY <1>1 DEF Key
  <2>3. QED
    BY <2>1, <2>2 DEF Keys
<1>5. QED
  BY <1>3, <1>4

LEMMA KeysShownOr == ASSUME NEW R, NEW e PROVE Keys(ShownOr(R, e)) = Keys(Shown(R))
<1>1. CASE R # {}
  BY <1>1 DEF ShownOr
<1>2. CASE R = {}
  <2>1. Shown(R).rows = {} /\ Refused(e).rows = {} /\ ShownOr(R, e) = Refused(e)
    BY <1>2 DEF Shown, Refused, ShownOr
  <2>2. QED
    BY <2>1 DEF Keys
<1>3. QED
  BY <1>1, <1>2

LEMMA SolvableFacts ==
  /\ \A q : q \in In("system") <=> \E p \in installed : q = Solvable(p, "system")
  /\ \A q : q \in In("repos") <=> \E p \in Available : q = Solvable(p, "repos")
  /\ \A q : q \in Solvables <=> q \in In("system") \/ q \in In("repos")
  /\ \A p, r : Solvable(p, r).pkg = p /\ Solvable(p, r).repo = r
BY DEF In, Solvables, Solvable

\* the rows of a query whose packages are S
LEMMA KeysOf ==
  ASSUME NEW R, NEW S, \A q \in R : q.pkg \in S, \A p \in S : \E q \in R : q.pkg = p
  PROVE  Keys(Shown(R)) = {Key(p) : p \in S}
<1>1. \A k : (\E q \in R : k = Key(q.pkg)) <=> k \in {Key(p) : p \in S}
  <2>1. ASSUME NEW q \in R PROVE Key(q.pkg) \in {Key(p) : p \in S}
    OBVIOUS
  <2>2. ASSUME NEW p \in S PROVE \E q \in R : Key(p) = Key(q.pkg)
    OBVIOUS
  <2>3. QED
    BY <2>1, <2>2
<1>2. \A k : k \in Keys(Shown(R)) <=> \E q \in R : k = Key(q.pkg)
  BY KeysShown
<1>3. QED
  BY <1>1, <1>2

LEMMA ScopeFacts ==
  /\ \A q \in In("system") : q.pkg \in installed /\ q.repo = "system"
  /\ \A p \in installed : Solvable(p, "system") \in In("system")
  /\ \A q \in In("repos") : q.pkg \in Available /\ q.repo = "repos"
  /\ \A p \in Available : Solvable(p, "repos") \in In("repos")
  /\ Solvables = In("system") \cup In("repos")
BY SolvableFacts

LEMMA ListFacts ==
  /\ Keys(List("installed", {})) = {Key(p) : p \in installed}
  /\ Keys(List("available", {})) = {Key(p) : p \in Available}
  /\ Keys(List("all", {})) = {Key(p) : p \in installed \cup Available}
<1>1. /\ List("installed", {}) = Shown(In("system")) /\ List("available", {}) = Shown(In("repos"))
      /\ List("all", {}) = Shown(Solvables)
  BY DEF List, ListQuery, Asked, Scope
<1>2. \A p, r : Solvable(p, r).pkg = p
  BY SolvableFacts
<1>3. Keys(Shown(In("system"))) = {Key(p) : p \in installed}
  <2>1. /\ \A q \in In("system") : q.pkg \in installed
        /\ \A p \in installed : \E q \in In("system") : q.pkg = p
    BY <1>2, ScopeFacts
  <2>2. QED
    BY <2>1, KeysOf
<1>4. Keys(Shown(In("repos"))) = {Key(p) : p \in Available}
  <2>1. /\ \A q \in In("repos") : q.pkg \in Available
        /\ \A p \in Available : \E q \in In("repos") : q.pkg = p
    BY <1>2, ScopeFacts
  <2>2. QED
    BY <2>1, KeysOf
<1>5. Keys(Shown(Solvables)) = {Key(p) : p \in installed \cup Available}
  <2>1. /\ \A q \in Solvables : q.pkg \in installed \cup Available
        /\ \A p \in installed \cup Available : \E q \in Solvables : q.pkg = p
    BY <1>2, ScopeFacts
  <2>2. QED
    BY <2>1, KeysOf
<1>6. QED
  BY <1>1, <1>3, <1>4, <1>5

LEMMA NoKeys ==
  ASSUME NEW o, NEW K, DOMAIN K = {}, ~Contradicts(o)
  PROVE  RepoQuery(o, {}, K, TRUE) = ShownOr(Kept(ListQuery(QueryScope(o), {}), o), "no data")
<1> DEFINE R == Kept(ListQuery(QueryScope(o), {}), o)
           S == {q \in R : \A k \in DOMAIN K : q \in DependsOn(R, k, K[k])}
<1>1. S = R
  OBVIOUS
<1>2. RepoQuery(o, {}, K, TRUE) = ShownOr(S, "no data")
  BY DEF RepoQuery
<1>3. QED
  BY <1>1, <1>2

LEMMA RepoQueryFacts ==
  /\ Keys(RepoQuery({"extras"}, {}, <<>>, TRUE)) = {Key(p) : p \in installed \ Available}
  /\ Keys(RepoQuery({"userinstalled"}, {}, <<>>, TRUE)) = {Key(p) : p \in {x \in installed : Name[x] \notin auto}}
  /\ \A n : Keys(RepoQuery({"available"}, {}, [provides |-> {n}], TRUE)) =
              {Key(p) : p \in {x \in Available : n \in Provides(x)}}
<1>0. /\ \A p, r : Solvable(p, r).pkg = p /\ Solvable(p, r).repo = r
      /\ ListQuery("all", {}) = Solvables /\ ListQuery("installed", {}) = In("system")
      /\ ListQuery("available", {}) = In("repos") /\ DOMAIN <<>> = {}
  BY SolvableFacts DEF ListQuery, Asked, Scope
<1>1. Keys(RepoQuery({"extras"}, {}, <<>>, TRUE)) = {Key(p) : p \in installed \ Available}
  <2>1. Kept(ListQuery(QueryScope({"extras"}), {}), {"extras"}) = Extras(Solvables)
    BY <1>0 DEF QueryScope, Kept
  <2> DEFINE R == Extras(Solvables)
  <2>3. RepoQuery({"extras"}, {}, <<>>, TRUE) = ShownOr(R, "no data")
    <3> DEFINE o == {"extras"}
               K == <<>>
    <3>1. ~Contradicts(o) /\ DOMAIN K = {}
      BY <1>0 DEF Contradicts
    <3>2. Kept(ListQuery(QueryScope(o), {}), o) = R
      BY <2>1
    <3> HIDE DEF o, K, R
    <3>3. RepoQuery(o, {}, K, TRUE) = ShownOr(R, "no data")
      BY <3>1, <3>2, NoKeys
    <3>4. QED
      BY <3>3 DEF o, K
  <2>4. \A q \in R : q.pkg \in installed \ Available
    BY ScopeFacts DEF Extras
  <2>5. \A p \in installed \ Available : Solvable(p, "system") \in R
    <3> SUFFICES ASSUME NEW p \in installed \ Available PROVE Solvable(p, "system") \in R
      OBVIOUS
    <3>1. Solvable(p, "repos") \notin Solvables
      BY <1>0, ScopeFacts
    <3>2. QED
      BY <1>0, <3>1, ScopeFacts DEF Extras
  <2>6. \A p \in installed \ Available : \E q \in R : q.pkg = p
    BY <1>0, <2>5
  <2> HIDE DEF R
  <2>7. QED
    <3>1. Keys(Shown(R)) = {Key(p) : p \in installed \ Available}
      BY <2>4, <2>6, KeysOf
    <3>2. QED
      BY <2>3, <3>1, KeysShownOr
<1>2. Keys(RepoQuery({"userinstalled"}, {}, <<>>, TRUE)) = {Key(p) : p \in {x \in installed : Name[x] \notin auto}}
  <2>1. Kept(ListQuery(QueryScope({"userinstalled"}), {}), {"userinstalled"}) = UserInstalledOnly(In("system"))
    BY <1>0 DEF QueryScope, Kept
  <2> DEFINE R == UserInstalledOnly(In("system"))
             S == {x \in installed : Name[x] \notin auto}
  <2>3. RepoQuery({"userinstalled"}, {}, <<>>, TRUE) = ShownOr(R, "no data")
    <3> DEFINE o == {"userinstalled"}
               K == <<>>
    <3>1. ~Contradicts(o) /\ DOMAIN K = {}
      BY <1>0 DEF Contradicts
    <3>2. Kept(ListQuery(QueryScope(o), {}), o) = R
      BY <2>1
    <3> HIDE DEF o, K, R
    <3>3. RepoQuery(o, {}, K, TRUE) = ShownOr(R, "no data")
      BY <3>1, <3>2, NoKeys
    <3>4. QED
      BY <3>3 DEF o, K
  <2>4. \A q \in R : q.pkg \in S
    BY ScopeFacts DEF UserInstalledOnly
  <2>5. \A p \in S : Solvable(p, "system") \in R
    BY <1>0, ScopeFacts DEF UserInstalledOnly
  <2> HIDE DEF R, S
  <2>6. Keys(ShownOr(R, "no data")) = {Key(p) : p \in S}
    <3>1. \A p \in S : \E q \in R : q.pkg = p
      BY <1>0, <2>5
    <3>2. Keys(Shown(R)) = {Key(p) : p \in S}
      BY <2>4, <3>1, KeysOf
    <3>3. QED
      BY <3>2, KeysShownOr
  <2>7. QED
    BY <2>3, <2>6 DEF S
<1>3. ASSUME NEW n
      PROVE  Keys(RepoQuery({"available"}, {}, [provides |-> {n}], TRUE)) =
               {Key(p) : p \in {x \in Available : n \in Provides(x)}}
  <2>1. Kept(ListQuery(QueryScope({"available"}), {}), {"available"}) = In("repos")
    BY <1>0 DEF QueryScope, Kept
  <2> DEFINE K == [provides |-> {n}]
             R == {q \in In("repos") : \A k \in DOMAIN K : q \in DependsOn(In("repos"), k, K[k])}
             S == {x \in Available : n \in Provides(x)}
  <2>2. RepoQuery({"available"}, {}, K, TRUE) = ShownOr(R, "no data")
    <3>1. ~Contradicts({"available"})
      BY DEF Contradicts
    <3> HIDE DEF K
    <3>2. QED
      BY <2>1, <3>1 DEF RepoQuery
  <2>3. DOMAIN K = {"provides"} /\ K["provides"] = {n}
    OBVIOUS
  <2> HIDE DEF K
  <2>4. \A q \in In("repos") : q \in R <=> n \in Provides(q.pkg)
    BY <2>3 DEF DependsOn, Dependencies
  <2>5. \A q \in R : q.pkg \in S
    BY <2>4, ScopeFacts
  <2>6. \A p \in S : Solvable(p, "repos") \in R
    BY <1>0, <2>4, ScopeFacts
  <2> HIDE DEF R, S
  <2>7. Keys(ShownOr(R, "no data")) = {Key(p) : p \in S}
    <3>1. \A p \in S : \E q \in R : q.pkg = p
      BY <1>0, <2>6
    <3>2. Keys(Shown(R)) = {Key(p) : p \in S}
      BY <2>5, <3>1, KeysOf
    <3>3. QED
      BY <3>2, KeysShownOr
  <2>8. QED
    BY <2>2, <2>7 DEF S, K
<1>4. QED
  BY <1>1, <1>2, <1>3

\* a package found by a name provides it
LEMMA ProvideFacts ==
  ASSUME NEW n
  PROVE  Keys(Provide([name |-> n, version |-> 0])) \subseteq
           {Key(p) : p \in {x \in Available : n \in Provides(x)}} \cup {Key(p) : p \in installed}
<1> DEFINE s == [name |-> n, version |-> 0]
           R == Of(Selected(s))
           S == {q.pkg : q \in R}
<1>1. Selected(s) \subseteq {p \in installed \cup Available : n \in Provides(p)}
  <2> DEFINE pool == installed \cup Available
             found == {p \in pool : Name[p] = s.name /\ s.version \in {0, Version[p]}}
  <2>1. Selected(s) \in {found, {p \in pool : s.name \in Provides(p)}}
    BY DEF Selected
  <2>2. s.name = n
    OBVIOUS
  <2>3. QED
    BY <2>1, <2>2 DEF Provides
<1>2. S \subseteq {p \in installed \cup Available : n \in Provides(p)}
  BY <1>1 DEF Of
<1>3. Keys(Provide(s)) = Keys(Shown(R))
  BY KeysShownOr DEF Provide, ProvidesQuery
<1> HIDE DEF R
<1>a. \A q \in R : q.pkg \in S
  OBVIOUS
<1>b. \A p \in S : \E q \in R : q.pkg = p
  OBVIOUS
<1> HIDE DEF S
<1>4. Keys(Shown(R)) = {Key(p) : p \in S}
  BY <1>a, <1>b, KeysOf
<1>5. QED
  BY <1>2, <1>3, <1>4

LEMMA SummaryFacts == SummaryAgrees
<1> SUFFICES ASSUME NEW f \in {g \in Filters : ~g.reboot}, NEW k \in {a.kind : a \in Advisories}
             PROVE  Summary({}, f)[k] = Cardinality({u \in Updates({}, f) : u[2].kind = k})
  BY DEF SummaryAgrees
<1> DEFINE counted == {u \in InstalledOf({}) \X Advisories :
                         u[2] \in UpdateAdvisories(u[1]) /\ InSummary(u[2], f)}
<1>1. \A a : OneAdvisory(a, f) <=> InSummary(a, f)
  BY DEF OneAdvisory, InSummary
<1>2. Updates({}, f) = counted
  BY <1>1 DEF Updates
<1>3. Summary({}, f) = [j \in {a.kind : a \in Advisories} |-> Cardinality({u \in counted : u[2].kind = j})]
  BY DEF Summary
<1> HIDE DEF counted
<1>4. QED
  BY <1>2, <1>3

\* The answers of the queries fit together, whatever is installed, available and flagged
\* (TDNFList, TDNFRepoQuery, TDNFProvides, TDNFUpdateInfoSummary, TDNFUpdateInfo).
THEOREM ListsAgreeTheorem == Spec => []ListsAgree
<1>1. TypeOK => ListsAgree
  <2> SUFFICES ASSUME TypeOK PROVE ListsAgree
    OBVIOUS
  <2> DEFINE here == Keys(List("installed", {}))
             there == Keys(List("available", {}))
             all == Keys(List("all", {}))
             extras == Keys(RepoQuery({"extras"}, {}, <<>>, TRUE))
             mine == Keys(RepoQuery({"userinstalled"}, {}, <<>>, TRUE))
             provided(n) == Keys(Provide([name |-> n, version |-> 0]))
             providing(n) == Keys(RepoQuery({"available"}, {}, [provides |-> {n}], TRUE))
  <2>1. here = {Key(p) : p \in installed} /\ there = {Key(p) : p \in Available}
        /\ all = {Key(p) : p \in installed \cup Available}
    BY ListFacts
  <2>2. extras = here \ there
    <3>1. extras = {Key(p) : p \in installed \ Available}
      BY RepoQueryFacts
    <3>2. \A p, q \in Ids : Key(p) = Key(q) => p = q
      BY DEF Key
    <3>3. installed \subseteq Ids /\ Available \subseteq Ids
      BY DEF TypeOK
    <3> HIDE DEF extras, here, there
    <3>4. QED
      BY <2>1, <3>1, <3>2, <3>3
  <2>3. all = here \cup there
    <3> HIDE DEF all, here, there
    <3> QED
      BY <2>1
  <2>4. \A p \in AutoInstalledOrphans : Key(p) \notin mine
    <3>1. mine = {Key(p) : p \in {x \in installed : Name[x] \notin auto}}
      BY RepoQueryFacts
    <3>2. \A p, q : Key(p) = Key(q) => Name[p] = Name[q]
      BY DEF Key
    <3> HIDE DEF mine
    <3>3. QED
      BY <3>1, <3>2 DEF AutoInstalledOrphans
  <2>5. \A n \in Names : provided(n) \subseteq providing(n) \cup here
    <3> SUFFICES ASSUME NEW n \in Names PROVE provided(n) \subseteq providing(n) \cup here
      OBVIOUS
    <3>1. providing(n) = {Key(p) : p \in {x \in Available : n \in Provides(x)}}
      BY RepoQueryFacts
    <3>2. QED
      BY <2>1, <3>1, ProvideFacts
  <2>6. QED
    BY <2>2, <2>3, <2>4, <2>5, SummaryFacts DEF ListsAgree, Key, Keys
<1>2. QED
  BY <1>1, Types, PTL
=============================================================================
