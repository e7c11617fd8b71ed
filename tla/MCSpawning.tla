------------------------------ MODULE MCSpawning ------------------------------
(***************************************************************************)
(* Small instances of Spawning: up to three processes and one caller.      *)
(***************************************************************************)
EXTENDS Spawning

CONSTANTS p1, p2, p3, c1

ThreeProcesses == {p1, p2, p3}
OneCaller == {c1}
AllThreads == {p1, p2, p3, c1}
OnlyFirst == {p1}
Later == {"send_now", "spawn"}
=============================================================================
