------------------------------ MODULE GoalProps ------------------------------
(***************************************************************************)
(* What the user may rely on when tdnf shows what it is going to do.       *)
(***************************************************************************)
EXTENDS Goal

Command == [type : Singles \cup Alls \cup {"undo", None}, specs : SUBSET Specs,
            filter : SUBSET Filters, opt : Options]
JobSet == [install : SUBSET Ids, erase : SUBSET Ids, update : {None, "upgradeall", "distrosync"},
           clean : BOOLEAN, multi : SUBSET InstallOnly, lock : SUBSET Locks,
           uninstall : SUBSET Ids, user : SUBSET Ids, disabled : SUBSET Ids]

\* Every variable has a value of its type: the queues, jobs and answers hold ids of the pool,
\* and libsolv is asked at most twice (the retries of TDNFSolv).
TypeOK ==
    /\ installed \subseteq Ids /\ auto \subseteq Names
    /\ pc \in {"idle", "prepare", "rules", "solve", "check", "confirm", "done"}
    /\ cmd \in Command /\ goal \subseteq Ids /\ jobs \in JobSet /\ answer \subseteq Ids
    /\ retries \in 0..2

\* A protected name that is installed is still installed after any transaction the user is
\* asked to confirm, whether it would be erased by name, as a dependent, by CLEANDEPS, by an
\* obsoleting package, to meet the installonly limit, or by an undo (TDNFSolvAddProtectPkgs
\* before the solver runs, TDNFSolvCheckProtectPkgsInTrans after it).
ProtectedStay ==
    pc = "confirm" => \A p \in installed : Name[p] \in Protected => Named(Name[p], answer) # {}

\* No transaction leaves more than installonly_limit versions of an installonly name, not even
\* after the one retry for which TDNFSolvCheckInstallOnlyLimitInTrans added erase jobs.
LimitKept ==
    pc = "confirm" => \A n \in InstallOnly : Cardinality(Named(n, answer)) <= InstallOnlyLimit

\* What depends, over any number of steps, on a package of S: it is in every set that has S
\* and what depends on its own members.
Dependents(S) ==
    {p \in installed : \A C \in SUBSET installed :
        S \subseteq C /\ (\A r \in installed : (\E q \in C : Needs(r, q)) => r \in C) => p \in C}

\* What goes because the user named it, because its installonly name is full, or because a
\* package that comes takes its place.
Doomed ==
    (UNION {Matching(s, installed) : s \in cmd.specs})
      \cup {p \in installed \ answer : \/ Name[p] \in InstallOnly
                                       \/ \E q \in answer \ installed : Replaces(jobs, q, p)}

\* Removing packages, with or without their dependencies, never takes one that the user
\* installed, unless it is doomed or depends on one that is: SolvAddUserInstalledToJobs names
\* them all.  This needs a history that can be read.
UserStays ==
    pc = "confirm" /\ cmd.type \in Erasing /\ cmd.opt.history =>
      \A p \in installed \ answer : Name[p] \in auto \/ p \in Dependents(Doomed)

\* The versions of a locked name that is installed stay as they are.
LockedStay ==
    pc = "confirm" =>
      \A p \in installed : Name[p] \in Locks => Named(Name[p], answer) = Named(Name[p], installed)

\* Nothing new is below its minimal version, excluded, or from nowhere.
NothingForbidden ==
    pc = "confirm" =>
      \A p \in answer \ installed :
        /\ p \in Available /\ Version[p] >= MinVersion[Name[p]]
        /\ Name[p] \notin cmd.opt.excludes

\* Locks, excludes and minimal versions are rules that libsolv is given (TDNFSolvAddPkgLocks,
\* TDNFSolvAddMinVersions, SolvAddExcludes); nothing looks at its answer again.  They hold for
\* every command: not even to make room under the installonly limit or for something that
\* obsoletes it is a locked package touched, and no argument, dependency, update or retry
\* brings in what is excluded.
RulesKept == LockedStay /\ NothingForbidden
=============================================================================
