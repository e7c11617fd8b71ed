----------------------------- MODULE BackPressure -----------------------------
(***************************************************************************)
(* The backpressure of an unbounded channel, src/src/config/mod.rs: how    *)
(* long a sender has to wait, given the number of messages in the queue.   *)
(*                                                                         *)
(* The integers of the machine are bounded by constants.  The growth       *)
(* factor, an f32, is a ratio of integers, and its powers are exact.       *)
(***************************************************************************)
EXTENDS Integers

CONSTANTS
    UsizeMax,  \* usize::MAX
    U64Max,    \* u64::MAX
    I32Max     \* i32::MAX

\* The growth of a backpressure that is not exponential, and no timeout.
None == [num |-> 0, den |-> 0]
NoTimeout == -1

\* The backpressures that the constructors below can make.
BackPressureType ==
    [starts_at : 0 .. UsizeMax, base_ns : 0 .. U64Max,
     exp_growth : {None} \cup [num : Nat, den : Nat \ {0}]]

linear(starts_at, ns) ==
    [starts_at |-> starts_at, base_ns |-> ns, exp_growth |-> None]

exponential(starts_at, ns, factor) ==
    [starts_at |-> starts_at, base_ns |-> ns, exp_growth |-> factor]

disabled == linear(UsizeMax, 0)

AtMost(n, bound) == IF n > bound THEN bound ELSE n

\* Fault variant: the multiplication wraps around instead of saturating.
LinearTimeout_wraps(bp, count) ==
    (bp.base_ns * (count - bp.starts_at + 1)) % (U64Max + 1)

\* base_ns.saturating_mul(msg_count - starts_at + 1).
LinearTimeout(bp, count) ==
    AtMost(bp.base_ns * (count - bp.starts_at + 1), U64Max)

\* The powers of a natural number, as a function of the exponent.
Powers(base) == LET f[n \in Nat] == IF n = 0 THEN 1 ELSE base * f[n - 1] IN f

\* base_ns * factor.powi(msg_count - starts_at), as a u64: the exponent is capped,
\* and the conversion from a float saturates.
ExponentialTimeout(bp, count) ==
    LET diff == AtMost(count - bp.starts_at, I32Max)
    IN  AtMost((bp.base_ns * Powers(bp.exp_growth.num)[diff])
                   \div Powers(bp.exp_growth.den)[diff], U64Max)

\* get_timeout is Some.
HasTimeout(bp, count) == count >= bp.starts_at

get_timeout(bp, count) ==
    IF ~HasTimeout(bp, count) THEN NoTimeout
    ELSE IF bp.exp_growth = None THEN LinearTimeout(bp, count)
    ELSE ExponentialTimeout(bp, count)
=============================================================================
