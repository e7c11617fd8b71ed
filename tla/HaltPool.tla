------------------------------- MODULE HaltPool -------------------------------
(***************************************************************************)
(* What halting promises: halts are permits, of which each process takes   *)
(* at most one, and every permit is taken by at most one process.          *)
(***************************************************************************)
EXTENDS Integers

CONSTANTS Member, MaxPermits

VARIABLES permits, halted

Init == permits = 0 /\ halted = {}

\* Some processes are to be halted; more than MaxPermits cannot be counted.
Request ==
    /\ permits' \in permits .. MaxPermits
    /\ UNCHANGED halted

Take(p) ==
    /\ permits > 0 /\ p \notin halted
    /\ permits' = permits - 1
    /\ halted' = halted \cup {p}

Next == Request \/ \E p \in Member : Take(p)

Spec == Init /\ [][Next]_<<permits, halted>>
=============================================================================
