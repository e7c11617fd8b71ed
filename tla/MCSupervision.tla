---------------------------- MODULE MCSupervision ----------------------------
(***************************************************************************)
(* A small instance of Supervision: a child or a pool with p2, a process   *)
(* or a task, and a process p1 to spawn, which may panic.                  *)
(***************************************************************************)
EXTENDS SupervisionRefinement

CONSTANTS p1, p2, sup

TwoProcesses == {p1, p2}
OnlyFirst == {p1}
OnlySecond == {p2}
NoCaller == {}
AllThreads == {p1, p2, sup}
SecondHandle == <<p2>>

AllLinks == {"detached", "zero", "timer"}
=============================================================================
