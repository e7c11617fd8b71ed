------------------------------ MODULE MCSending ------------------------------
(***************************************************************************)
(* Small instances of Sending: one process and up to three senders, on a   *)
(* bounded and on an unbounded channel.  In the second one timeouts        *)
(* saturate at 40.                                                         *)
(***************************************************************************)
EXTENDS Sending, ReceivingRefinement

CONSTANTS p1, s1, s2, s3

OneProcess == {p1}
NoProcess == {}
NoCaller == {}
NoOps == {}
OneSender == {s1}
TwoSenders == {s1, s2}
ThreeSenders == {s1, s2, s3}
WithOneSender == {p1, s1}
WithTwoSenders == {p1, s1, s2}
WithThreeSenders == {p1, s1, s2, s3}

Futures == [s \in TwoSenders |-> {"send"}]
Blocking == [s \in OneSender |-> {"send_blocking"}]
TriesAndBlocking ==
    [s \in ThreeSenders |-> IF s = s3 THEN {"send_blocking"} ELSE {"try_send"}]

Disabled == {B!disabled}
LimitsAndFactors ==
    {B!linear(1, 25), B!exponential(0, 7, [num |-> 13, den |-> 10]),
     B!exponential(1, 25, [num |-> 2, den |-> 1]),
     B!exponential(0, 25, [num |-> 1, den |-> 2])}
=============================================================================
