---------------------------- MODULE MCTdnfLock ----------------------------
(***************************************************************************)
(* Small instances of TdnfLock.                                            *)
(***************************************************************************)
EXTENDS TdnfLock

CONSTANTS p1, p2, p3, u1

ThreeRoots == {p1, p2, p3}
AllFour    == {p1, p2, p3, u1}

NoFailures  == {}
AllFailures == {"open", "fcntl", "crash"}
=============================================================================
