--------------------------- MODULE MCDefaultTimer ---------------------------
(***************************************************************************)
(* Small instances of DefaultTimer: three timers whose parts differ.       *)
(***************************************************************************)
EXTENDS DefaultTimer

CONSTANTS s1, g1

OneSetter == {s1}
OneGetter == {g1}

\* Half a second, two seconds, and three seconds and a bit.
ThreeTimers == {[secs |-> 0, nanos |-> 5], [secs |-> 2, nanos |-> 0],
                [secs |-> 3, nanos |-> 7]}
=============================================================================
