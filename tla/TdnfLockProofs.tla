--------------------------- MODULE TdnfLockProofs ---------------------------
(***************************************************************************)
(* What is proved about TdnfLock, for every set of processes, any number   *)
(* of commands and every failure.                                          *)
(***************************************************************************)
EXTENDS TdnfLock, TLAPS

(* The locks and the files of the processes: the inductive invariant.      *)
LockInv ==
  /\ TypeOK
  /\ fresh > 0 /\ path < fresh
  /\ \A p \in Procs : fd[p] < fresh
  /\ \A p \in locked : pc[p] = "run" /\ fd[p] # 0
  /\ \A p \in Procs : pc[p] \in {"try", "wait"} => p \in Root /\ fd[p] # 0
  /\ LockExclusion

(* A privileged command that runs and has a file has locked it.            *)
RunsLocked == \A p \in Procs : Running(p) /\ fd[p] # 0 => p \in locked

LEMMA LockInit == Init => LockInv /\ RunsLocked
  BY DEF Init, LockInv, RunsLocked, TypeOK, LockExclusion, Running

LEMMA LockStep == LockInv /\ [Next]_vars => LockInv'
<1> SUFFICES ASSUME LockInv, [Next]_vars PROVE LockInv'
  OBVIOUS
<1> USE DEF LockInv, TypeOK, LockExclusion, Goto, Begin, Free
<1>1. CASE UNCHANGED vars
  BY <1>1 DEF vars
<1>2. ASSUME NEW p \in Procs, Start(p) PROVE LockInv'
  <2>1. CASE Unprivileged(p)
    BY <2>1 DEF Unprivileged
  <2>2. CASE Open(p)
    BY <2>2 DEF Open
  <2>3. QED
    BY <1>2, <2>1, <2>2 DEF Start
<1>3. ASSUME NEW p \in Procs, Step(p) PROVE LockInv'
  <2>1. CASE TryLock(p)
    BY <2>1 DEF TryLock
  <2>2. CASE Granted(p)
    BY <2>2 DEF Granted
  <2>3. CASE GiveUp(p)
    BY <2>3 DEF GiveUp
  <2>4. CASE Release(p)
    BY <2>4 DEF Release
  <2>5. CASE Remove(p)
    BY <2>5 DEF Remove
  <2>6. QED
    BY <1>3, <2>1, <2>2, <2>3, <2>4, <2>5 DEF Step
<1>4. ASSUME NEW p \in Procs, Failure(p) PROVE LockInv'
  <2>1. CASE OpenFails(p)
    BY <2>1 DEF OpenFails
  <2>2. CASE LockFails(p)
    BY <2>2 DEF LockFails
  <2>3. CASE Crash(p)
    BY <2>3 DEF Crash
  <2>4. QED
    BY <1>4, <2>1, <2>2, <2>3 DEF Failure
<1>5. QED
  BY <1>1, <1>2, <1>3, <1>4 DEF Next

LEMMA RunsLockedStep == LockInv /\ RunsLocked /\ [Next]_vars => RunsLocked'
<1> SUFFICES ASSUME LockInv, RunsLocked, [Next]_vars PROVE RunsLocked'
  OBVIOUS
<1> USE DEF LockInv, TypeOK, RunsLocked, Running, Goto, Begin
<1>1. CASE UNCHANGED vars
  BY <1>1 DEF vars
<1>2. ASSUME NEW p \in Procs, Start(p) PROVE RunsLocked'
  BY <1>2 DEF Start, Unprivileged, Open
<1>3. ASSUME NEW p \in Procs, Step(p) PROVE RunsLocked'
  BY <1>3 DEF Step, TryLock, Granted, GiveUp, Release, Remove
<1>4. ASSUME NEW p \in Procs, Failure(p) PROVE RunsLocked'
  BY <1>4 DEF Failure, OpenFails, LockFails, Crash
<1>5. QED
  BY <1>1, <1>2, <1>3, <1>4 DEF Next

(* The variables of the lock have their types, whatever fails.             *)
THEOREM LockTypeCorrect == Spec => []TypeOK
<1>1. LockInv => TypeOK
  BY DEF LockInv
<1>2. QED
  BY LockInit, LockStep, <1>1, PTL DEF Spec

(* Two commands that run with the lock have locked different files,        *)
(* whatever fails and however often the lock file is removed and created   *)
(* again (tdnflock_acquire, tdnflockFree).                                 *)
THEOREM LocksExclude == Spec => []LockExclusion
<1>1. LockInv => LockExclusion
  BY DEF LockInv
<1>2. QED
  BY LockInit, LockStep, <1>1, PTL DEF Spec

(* Commands that could open and lock the file overlap only after it was    *)
(* created a second time: a removal is the only way to lose the exclusion, *)
(* crashes and failures of other commands included.                        *)
THEOREM OnlyRemovalBreaksExclusion == Spec => []ExclusiveUntilRecreated
<1>1. LockInv /\ RunsLocked => ExclusiveUntilRecreated
  <2> SUFFICES ASSUME LockInv, RunsLocked, fresh <= 2,
                      NEW p \in Procs, NEW q \in Procs,
                      Running(p), Running(q), fd[p] # 0, fd[q] # 0
               PROVE  p = q
    BY DEF ExclusiveUntilRecreated
  <2>1. p \in locked /\ q \in locked
    BY DEF RunsLocked
  <2>2. fd[p] = 1 /\ fd[q] = 1
    BY <2>1 DEF LockInv, TypeOK
  <2>3. QED
    BY <2>1, <2>2 DEF LockInv, LockExclusion
<1>2. QED
  BY LockInit, LockStep, RunsLockedStep, <1>1, PTL DEF Spec
=============================================================================
