------------------------------ MODULE Journal ------------------------------
(***************************************************************************)
(* What the history database promises to its users: a journal of states of *)
(* the system.  A state is the set of installed packages and the set of    *)
(* names that are marked as auto installed.  A state that is not the last  *)
(* one never changes, a new state starts with the marks of the state       *)
(* before it, and only the marks of the last state can be amended, one     *)
(* name at a time.                                                         *)
(***************************************************************************)
EXTENDS Integers, Sequences

CONSTANTS Pkgs, Names

VARIABLE log

TypeOK == log \in Seq([pkgs : SUBSET Pkgs, auto : SUBSET Names])

Init == log = <<>>

LastAuto == IF log = <<>> THEN {} ELSE log[Len(log)].auto

Record ==
  \E S \in SUBSET Pkgs : log' = Append(log, [pkgs |-> S, auto |-> LastAuto])

Amend(n) ==
  /\ log # <<>>
  /\ \E A \in {LastAuto \cup {n}, LastAuto \ {n}} :
       log' = [log EXCEPT ![Len(log)].auto = A]

Next == Record \/ \E n \in Names : Amend(n)

Spec == Init /\ [][Next]_log
=============================================================================
