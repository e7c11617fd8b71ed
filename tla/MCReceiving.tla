----------------------------- MODULE MCReceiving -----------------------------
(***************************************************************************)
(* Small instances of Receiving: one or two processes and a caller.        *)
(***************************************************************************)
EXTENDS ReceivingRefinement

CONSTANTS p1, p2, c1

TwoProcesses == {p1, p2}
OneProcess == {p1}
NoProcess == {}
OneCaller == {c1}
ProcessAndCaller == {p1, c1}
ProcessesAndCaller == {p1, p2, c1}

AllOps == MethodNames
SendAndHaltSome == {"send_now", "halt_some"}
=============================================================================
