----------------------------- MODULE DefaultTimer -----------------------------
(***************************************************************************)
(* The default abort-timer of src/src/config/mod.rs: a Duration kept in    *)
(* two atomics, one for the seconds and one for the nanoseconds, which     *)
(* set_default_abort_timer and get_default_abort_timer access one after    *)
(* the other while other threads call the same functions.                  *)
(***************************************************************************)
EXTENDS Naturals, Sequences

CONSTANTS
    Setter,    \* the threads that set the timer
    Getter,    \* the threads that get it
    Timers,    \* the durations that are set, as pairs of seconds and nanoseconds
    NanosPerSec,
    MaxSets    \* bound on the number of sets

Duration == [secs : Nat, nanos : 0 .. NanosPerSec - 1]

ASSUME TimerAssumption ==
    /\ Setter \cap Getter = {}
    /\ NanosPerSec \in Nat \ {0}
    /\ Timers \subseteq Duration
    /\ MaxSets \in Nat

\* The timer a program starts with.
FirstTimer == [secs |-> 1, nanos |-> 0]

VARIABLES
    DEFAULT_ABORT_TIMER_SECS,
    DEFAULT_ABORT_TIMER_NANOS,
    setting,   \* the set each setter is in, an index of sets; 0 if it is in none
    sets,      \* history: the timers set so far, the first one included
    pc,        \* where each thread is
    secs_read, \* what a getter loaded first
    timer,     \* what its last get returned
    first,     \* history: the number of the last set when its get began
    quiet      \* history: whether no set was in progress since its get began

statics == <<DEFAULT_ABORT_TIMER_SECS, DEFAULT_ABORT_TIMER_NANOS>>
setVars == <<setting, sets>>
getVars == <<secs_read, timer, first, quiet>>
timerVars == <<statics, setVars, pc, getVars>>

TimerInit ==
    /\ DEFAULT_ABORT_TIMER_SECS = FirstTimer.secs
    /\ DEFAULT_ABORT_TIMER_NANOS = FirstTimer.nanos
    /\ setting = [s \in Setter |-> 0]
    /\ sets = <<FirstTimer>>
    /\ pc = [t \in Setter \cup Getter |-> "idle"]
    /\ secs_read = [g \in Getter |-> 0]
    /\ timer = [g \in Getter |-> FirstTimer]
    /\ first = [g \in Getter |-> 1]
    /\ quiet = [g \in Getter |-> TRUE]

Goto(t, place) == pc' = [pc EXCEPT ![t] = place]

\* Fault variant: as_nanos in the place of subsec_nanos.
BeginSet_as_nanos(s) ==
    /\ pc[s] = "idle" /\ Len(sets) <= MaxSets
    /\ \E d \in Timers :
           /\ sets' = Append(sets, d)
           /\ DEFAULT_ABORT_TIMER_NANOS' = d.secs * NanosPerSec + d.nanos
    /\ setting' = [setting EXCEPT ![s] = Len(sets')]
    /\ quiet' = [g \in Getter |-> FALSE]
    /\ Goto(s, "second")
    /\ UNCHANGED <<DEFAULT_ABORT_TIMER_SECS, secs_read, timer, first>>

\* set_default_abort_timer, first store.
BeginSet(s) ==
    /\ pc[s] = "idle" /\ Len(sets) <= MaxSets
    /\ \E d \in Timers :
           /\ sets' = Append(sets, d)
           /\ DEFAULT_ABORT_TIMER_NANOS' = d.nanos
    /\ setting' = [setting EXCEPT ![s] = Len(sets')]
    /\ quiet' = [g \in Getter |-> FALSE]
    /\ Goto(s, "second")
    /\ UNCHANGED <<DEFAULT_ABORT_TIMER_SECS, secs_read, timer, first>>

\* Fault variant: only a part of the duration is stored.
EndSet_nanos_only(s) ==
    /\ pc[s] = "second"
    /\ setting' = [setting EXCEPT ![s] = 0]
    /\ Goto(s, "idle")
    /\ UNCHANGED <<statics, sets, getVars>>

\* set_default_abort_timer, second store.
EndSet(s) ==
    /\ pc[s] = "second"
    /\ DEFAULT_ABORT_TIMER_SECS' = sets[setting[s]].secs
    /\ setting' = [setting EXCEPT ![s] = 0]
    /\ Goto(s, "idle")
    /\ UNCHANGED <<DEFAULT_ABORT_TIMER_NANOS, sets, getVars>>

\* get_default_abort_timer, first load.
BeginGet(g) ==
    /\ pc[g] = "idle"
    /\ secs_read' = [secs_read EXCEPT ![g] = DEFAULT_ABORT_TIMER_SECS]
    /\ first' = [first EXCEPT ![g] = Len(sets)]
    /\ quiet' = [quiet EXCEPT ![g] = \A s \in Setter : pc[s] = "idle"]
    /\ Goto(g, "second")
    /\ UNCHANGED <<statics, setVars, timer>>

\* get_default_abort_timer, second load.
EndGet(g) ==
    /\ pc[g] = "second"
    /\ timer' = [timer EXCEPT ![g] = [secs  |-> secs_read[g],
                                      nanos |-> DEFAULT_ABORT_TIMER_NANOS]]
    /\ Goto(g, "idle")
    /\ UNCHANGED <<statics, setVars, secs_read, first, quiet>>

TimerNext ==
    \/ \E s \in Setter : BeginSet(s) \/ EndSet(s)
    \/ \E g \in Getter : BeginGet(g) \/ EndGet(g)

TimerSpec == TimerInit /\ [][TimerNext]_timerVars
-----------------------------------------------------------------------------
(***************************************************************************)
(* Properties.                                                             *)
(***************************************************************************)
\* A get that overlaps no set returns the timer that was set last, where one thread
\* sets it.
QuietGetIsCurrent ==
    \A g \in Getter :
        pc[g] = "idle" /\ quiet[g] => timer[g] = sets[first[g]]

\* A get that overlaps sets can mix two timers, but only the seconds of one with the
\* nanoseconds of a later one, never the other way round, however many threads set.
NanosNotOlder ==
    \A g \in Getter :
        \E i \in 1 .. Len(sets) : \E j \in i .. Len(sets) :
            timer[g] = [secs |-> sets[i].secs, nanos |-> sets[j].nanos]

\* A get returns a timer that was set, or the first one.
GetReturnsASet ==
    \A g \in Getter : \E i \in 1 .. Len(sets) : timer[g] = sets[i]
-----------------------------------------------------------------------------
(***************************************************************************)
(* The inductive invariants behind the first two.                          *)
(***************************************************************************)
TimerTypes ==
    /\ sets \in Seq(Duration) /\ Len(sets) >= 1
    /\ pc \in [Setter \cup Getter -> {"idle", "second"}]
    /\ setting \in [Setter -> Nat]
    /\ secs_read \in [Getter -> Nat]
    /\ timer \in [Getter -> [secs : Nat, nanos : Nat]]
    /\ first \in [Getter -> Nat]
    /\ quiet \in [Getter -> BOOLEAN]
    /\ DEFAULT_ABORT_TIMER_SECS \in Nat
    /\ DEFAULT_ABORT_TIMER_NANOS \in Nat

\* The nanoseconds, which are stored first, are those of the last timer; the seconds
\* are those of some timer.
StoresInv ==
    /\ DEFAULT_ABORT_TIMER_NANOS = sets[Len(sets)].nanos
    /\ \E i \in 1 .. Len(sets) : DEFAULT_ABORT_TIMER_SECS = sets[i].secs
    /\ \A s \in Setter : pc[s] = "second" => setting[s] \in 1 .. Len(sets)

\* What a getter has read so far.
GetsInv ==
    /\ \A g \in Getter :
           pc[g] # "idle" => \E i \in 1 .. Len(sets) : secs_read[g] = sets[i].secs
    /\ NanosNotOlder

TimerInv == TimerTypes /\ StoresInv /\ GetsInv

\* Where one thread sets: between two sets the seconds are those of the last timer as
\* well, and a get that overlapped no set so far has read them.
CurrentInv ==
    /\ \A s \in Setter :
           IF pc[s] = "idle" THEN DEFAULT_ABORT_TIMER_SECS = sets[Len(sets)].secs
           ELSE setting[s] = Len(sets)
    /\ \A g \in Getter :
           quiet[g] =>
               /\ \A s \in Setter : pc[s] = "idle"
               /\ first[g] = Len(sets)
               /\ pc[g] = "idle" => timer[g] = sets[Len(sets)]
               /\ pc[g] # "idle" => secs_read[g] = sets[Len(sets)].secs
=============================================================================
