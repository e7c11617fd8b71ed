------------------------------ MODULE MCAddress ------------------------------
(***************************************************************************)
(* Small instances of Address: two processes, one spawned while the actor  *)
(* runs, one caller and two addresses.                                     *)
(***************************************************************************)
EXTENDS Address

CONSTANTS p1, p2, c1, a1, a2

AllThreads == {p1, p2, c1, a1, a2}
TwoProcesses == {p1, p2}
OneProcess == {p1}
OneCaller == {c1}
TwoAddresses == {a1, a2}

Messages == {"send_now", "close", "spawn"}
=============================================================================
