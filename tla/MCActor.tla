------------------------------- MODULE MCActor -------------------------------
(***************************************************************************)
(* A small instance of Actor: a process or a task, and two addresses, one  *)
(* of which is awaited.                                                    *)
(***************************************************************************)
EXTENDS ActorRefinement

CONSTANTS p1, sup, a1, a2

OneProcess == {p1}
OneHandle == <<p1>>
NoCaller == {}
OneAddress == {a1}
TwoAddresses == {a1, a2}
AllThreads == {p1, sup, a1, a2}
=============================================================================
