------------------------------ MODULE TdnfLock ------------------------------
(***************************************************************************)
(* The instance lock: common/lock.c as TDNFOpenHandle and TDNFCloseHandle  *)
(* use it (client/api.c).  A process opens the lock file, creating it when *)
(* it is not there, locks the file it has opened with fcntl, and at the    *)
(* end unlocks, closes and removes whatever file then has that name.       *)
(*                                                                         *)
(* Files are inodes: a removed file keeps existing for those who have it   *)
(* open.  The record lock of a file belongs to a process and goes away     *)
(* when the process closes the file or dies.  Inodes are numbered in the   *)
(* order of their creation; 0 stands for none.                             *)
(***************************************************************************)
EXTENDS Integers, FiniteSets

CONSTANTS
  Procs,      \* processes that run tdnf
  Root,       \* those with effective user id 0: the others take no lock
  Failures,   \* what may go wrong, a subset of {"open", "fcntl", "crash"}
  MaxRuns     \* bound: commands that each process runs

ASSUME LockAssumption ==
  /\ Root \subseteq Procs
  /\ MaxRuns \in Nat

VARIABLES
  path,       \* the inode that has the name TDNF_INSTANCE_LOCK_FILE
  fresh,      \* the next inode
  fd,         \* the inode that each process has open
  locked,     \* the processes that hold the lock of the inode they have open
  pc, runs    \* where each process is, and the commands it has begun

vars == <<path, fresh, fd, locked, pc, runs>>

Init ==
  /\ path = 0 /\ fresh = 1
  /\ fd = [p \in Procs |-> 0]
  /\ locked = {}
  /\ pc = [p \in Procs |-> "idle"]
  /\ runs = [p \in Procs |-> 0]

Goto(p, step) == pc' = [pc EXCEPT ![p] = step]

Begin(p) ==
  /\ pc[p] = "idle" /\ runs[p] < MaxRuns
  /\ runs' = [runs EXCEPT ![p] = @ + 1]

(* What fcntl finds: a lock of another process on the same inode.          *)
Free(p) == \A q \in locked : q # p => fd[q] # fd[p]

(* A process without the privilege skips the lock and runs its command.    *)
Unprivileged(p) ==
  /\ p \notin Root
  /\ Begin(p)
  /\ Goto(p, "run")
  /\ UNCHANGED <<path, fresh, fd, locked>>

(* tdnflock_new: open with O_CREAT.                                        *)
Open(p) ==
  /\ p \in Root
  /\ Begin(p)
  /\ fd' = [fd EXCEPT ![p] = IF path = 0 THEN fresh ELSE path]
  /\ path' = fd'[p]
  /\ fresh' = IF path = 0 THEN fresh + 1 ELSE fresh
  /\ Goto(p, "try")
  /\ UNCHANGED locked

(* tdnflock_new gives no lock, and tdnflockNewAcquire frees it all the     *)
(* same.                                                                   *)
OpenFails(p) ==
  /\ "open" \in Failures
  /\ p \in Root
  /\ Begin(p)
  /\ Goto(p, "giveup")
  /\ UNCHANGED <<path, fresh, fd, locked>>

TryLock_Unchecked(p) ==    \* mutated: the result of F_SETLK is not looked at
  /\ pc[p] = "try"
  /\ locked' = locked \cup {p} /\ Goto(p, "run")
  /\ UNCHANGED <<path, fresh, fd, runs>>

(* tdnflockAcquire: F_SETLK, then F_SETLKW, which waits.                   *)
TryLock(p) ==
  /\ pc[p] = "try"
  /\ IF Free(p) THEN locked' = locked \cup {p} /\ Goto(p, "run")
                ELSE locked' = locked /\ Goto(p, "wait")
  /\ UNCHANGED <<path, fresh, fd, runs>>

Granted_Interrupted(p) ==    \* mutated: a wait that is interrupted counts as granted
  /\ pc[p] = "wait"
  /\ locked' = locked \cup {p}
  /\ Goto(p, "run")
  /\ UNCHANGED <<path, fresh, fd, runs>>

Granted(p) ==
  /\ pc[p] = "wait" /\ Free(p)
  /\ locked' = locked \cup {p}
  /\ Goto(p, "run")
  /\ UNCHANGED <<path, fresh, fd, runs>>

(* fcntl ends without the lock, at once or after a wait.                   *)
LockFails(p) ==
  /\ "fcntl" \in Failures
  /\ pc[p] \in {"try", "wait"}
  /\ Goto(p, "giveup")
  /\ UNCHANGED <<path, fresh, fd, locked, runs>>

(* tdnflockFree closes the file if there is one, and removes the name      *)
(* whether it had a lock or not; IsTdnfAlreadyRunning goes on without one. *)
GiveUp(p) ==
  /\ pc[p] = "giveup"
  /\ fd' = [fd EXCEPT ![p] = 0]
  /\ path' = 0
  /\ Goto(p, "run")
  /\ UNCHANGED <<fresh, locked, runs>>

Release_NoUnlock(p) ==    \* mutated: the reference count is not 1, nothing is unlocked
  /\ pc[p] = "run"
  /\ Goto(p, IF p \in Root THEN "remove" ELSE "idle")
  /\ UNCHANGED <<path, fresh, fd, locked, runs>>

(* TDNFCloseHandle: tdnflock_release and tdnflock_free ...                 *)
Release(p) ==
  /\ pc[p] = "run"
  /\ locked' = locked \ {p}
  /\ fd' = [fd EXCEPT ![p] = 0]
  /\ Goto(p, IF p \in Root THEN "remove" ELSE "idle")
  /\ UNCHANGED <<path, fresh, runs>>

(* ... and then tdnflockFree removes the name.                             *)
Remove(p) ==
  /\ pc[p] = "remove"
  /\ path' = 0
  /\ Goto(p, "idle")
  /\ UNCHANGED <<fresh, fd, locked, runs>>

(* The process dies, and the kernel closes its file.                       *)
Crash(p) ==
  /\ "crash" \in Failures
  /\ pc[p] # "idle"
  /\ locked' = locked \ {p}
  /\ fd' = [fd EXCEPT ![p] = 0]
  /\ Goto(p, "idle")
  /\ UNCHANGED <<path, fresh, runs>>

Step(p) == TryLock(p) \/ Granted(p) \/ GiveUp(p) \/ Release(p) \/ Remove(p)
Start(p) == Unprivileged(p) \/ Open(p)
Failure(p) == OpenFails(p) \/ LockFails(p) \/ Crash(p)

Next == \E p \in Procs : Start(p) \/ Step(p) \/ Failure(p)

Spec == Init /\ [][Next]_vars

(* Commands end, and the kernel wakes who waits for a lock that is free.   *)
Fairness == \A p \in Procs : WF_vars(Step(p))
FairSpec == Spec /\ Fairness
-----------------------------------------------------------------------------
(* Types.                                                                  *)
TypeOK ==
  /\ path \in Nat /\ fresh \in Nat
  /\ fd \in [Procs -> Nat]
  /\ locked \subseteq Procs
  /\ pc \in [Procs -> {"idle", "try", "wait", "run", "giveup", "remove"}]
  /\ runs \in [Procs -> Nat]

Running(p) == p \in Root /\ pc[p] = "run"

(* What fcntl guarantees, and all that it does: two commands that run with *)
(* the lock have locked different files (tdnflock_acquire).                *)
LockExclusion ==
  \A p, q \in locked : fd[p] = fd[q] => p = q

(* A command takes a lock that does not exclude the others only after the  *)
(* lock file was removed and created again: as long as there was a single  *)
(* file, two commands that could open and lock it never overlapped         *)
(* (tdnflock_new, tdnflock_acquire).                                       *)
ExclusiveUntilRecreated ==
  fresh <= 2 =>
    \A p, q \in Procs : Running(p) /\ Running(q) /\ fd[p] # 0 /\ fd[q] # 0 => p = q

(* A command that waits does so because another one holds its file: nobody *)
(* waits for a file that nobody will ever unlock, even after a crash or    *)
(* after the name was removed (F_SETLKW).                                  *)
WaitersServed == \A p \in Procs : pc[p] = "wait" ~> pc[p] \in {"run", "idle"}
=============================================================================
