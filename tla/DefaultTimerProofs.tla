-------------------------- MODULE DefaultTimerProofs --------------------------
(***************************************************************************)
(* A get of the default abort-timer mixes two timers in one order only, for*)
(* any number of setters and getters, any timers and any number of sets;   *)
(* where a single thread sets the timer, a get that overlaps no set is     *)
(* current.                                                                *)
(***************************************************************************)
EXTENDS DefaultTimer, SequenceTheorems, TLAPS

\* A timer that is set last: the older ones keep their numbers.
LEMMA AppendKeeps ==
    ASSUME NEW S, NEW q \in Seq(S), NEW d \in S
    PROVE  /\ Append(q, d) \in Seq(S) /\ Len(Append(q, d)) = Len(q) + 1
           /\ Append(q, d)[Len(q) + 1] = d
           /\ \A i \in 1 .. Len(q) : Append(q, d)[i] = q[i]
BY AppendProperties

\* A set begins: a new timer, whose nanoseconds are there already.
LEMMA BeginSetFacts ==
    ASSUME TimerInv, NEW s \in Setter, BeginSet(s)
    PROVE  /\ TimerTypes'
           /\ Len(sets') = Len(sets) + 1
           /\ \A i \in 1 .. Len(sets) : sets'[i] = sets[i]
           /\ DEFAULT_ABORT_TIMER_NANOS' = sets'[Len(sets')].nanos
           /\ pc' = [pc EXCEPT ![s] = "second"] /\ pc[s] = "idle"
           /\ setting' = [setting EXCEPT ![s] = Len(sets')]
           /\ quiet' = [g \in Getter |-> FALSE]
           /\ UNCHANGED <<DEFAULT_ABORT_TIMER_SECS, secs_read, timer, first>>
<1> USE DEF TimerInv, TimerTypes
<1>1. PICK d \in Timers : /\ sets' = Append(sets, d)
                          /\ DEFAULT_ABORT_TIMER_NANOS' = d.nanos
    BY DEF BeginSet
<1>2. Len(sets) \in Nat /\ d \in Duration /\ NanosPerSec \in Nat
    BY TimerAssumption
<1>3. /\ sets' \in Seq(Duration) /\ Len(sets') = Len(sets) + 1
      /\ sets'[Len(sets')] = d
      /\ \A i \in 1 .. Len(sets) : sets'[i] = sets[i]
    BY <1>1, <1>2, AppendKeeps
<1>4. /\ pc' = [pc EXCEPT ![s] = "second"] /\ pc[s] = "idle"
      /\ setting' = [setting EXCEPT ![s] = Len(sets')]
      /\ quiet' = [g \in Getter |-> FALSE]
      /\ UNCHANGED <<DEFAULT_ABORT_TIMER_SECS, secs_read, timer, first>>
    BY DEF BeginSet, Goto
<1>5. DEFAULT_ABORT_TIMER_NANOS' \in Nat
    BY <1>1, <1>2 DEF Duration
<1>6. /\ pc' \in [Setter \cup Getter -> {"idle", "second"}]
      /\ setting' \in [Setter -> Nat] /\ quiet' \in [Getter -> BOOLEAN]
    BY <1>2, <1>3, <1>4
<1> QED BY <1>1, <1>2, <1>3, <1>4, <1>5, <1>6

\* The other steps add no timer.
LEMMA OtherStepFacts ==
    ASSUME TimerInv, NEW t \in Setter \cup Getter,
           \/ t \in Setter /\ EndSet(t)
           \/ t \in Getter /\ (BeginGet(t) \/ EndGet(t))
    PROVE  TimerTypes' /\ sets' = sets /\ Len(sets) \in Nat
<1> USE TimerAssumption DEF TimerInv, TimerTypes, Goto
<1>1. Len(sets) \in Nat /\ \A i \in 1 .. Len(sets) : sets[i] \in Duration
    OBVIOUS
<1>2. CASE t \in Setter /\ EndSet(t)
    <2>1. setting[t] \in 1 .. Len(sets)
        BY <1>2 DEF EndSet, StoresInv
    <2>2. sets[setting[t]].secs \in Nat
        BY <1>1, <2>1 DEF Duration
    <2> QED BY <1>1, <1>2, <2>2 DEF EndSet, getVars
<1>3. CASE t \in Getter /\ BeginGet(t)
    BY <1>1, <1>3 DEF BeginGet, statics, setVars
<1>4. CASE t \in Getter /\ EndGet(t)
    BY <1>1, <1>4 DEF EndGet, statics, setVars
<1> QED BY <1>2, <1>3, <1>4

\* The invariant is inductive, with any number of setters.
LEMMA TimerInvStep ==
    ASSUME TimerInv, [TimerNext]_timerVars
    PROVE  TimerInv'
<1>0. Setter \cap Getter = {} /\ Len(sets) \in Nat /\ Len(sets) >= 1
    BY TimerAssumption DEF TimerInv, TimerTypes
<1>1. ASSUME NEW s \in Setter, BeginSet(s)
      PROVE  TimerInv'
    <2>1. /\ TimerTypes' /\ Len(sets') = Len(sets) + 1
          /\ \A i \in 1 .. Len(sets) : sets'[i] = sets[i] /\ i \in 1 .. Len(sets')
          /\ DEFAULT_ABORT_TIMER_NANOS' = sets'[Len(sets')].nanos
          /\ \A t \in Setter \cup Getter : t # s => pc'[t] = pc[t]
          /\ \A t \in Setter :
                 setting'[t] = IF t = s THEN Len(sets') ELSE setting[t]
          /\ UNCHANGED <<DEFAULT_ABORT_TIMER_SECS, secs_read, timer>>
        BY <1>0, <1>1, BeginSetFacts DEF TimerInv, TimerTypes
    <2>2. StoresInv'
        <3>1. \E i \in 1 .. Len(sets') : DEFAULT_ABORT_TIMER_SECS' = sets'[i].secs
            BY <2>1 DEF TimerInv, StoresInv
        <3>2. ASSUME NEW t \in Setter, pc'[t] = "second"
              PROVE  setting'[t] \in 1 .. Len(sets')
            <4>1. CASE t = s
                BY <1>0, <2>1, <4>1
            <4>2. CASE t # s
                BY <2>1, <3>2, <4>2 DEF TimerInv, StoresInv
            <4> QED BY <4>1, <4>2
        <3> QED BY <2>1, <3>1, <3>2 DEF StoresInv
    <2>3. ASSUME NEW g \in Getter, pc'[g] # "idle"
          PROVE  \E i \in 1 .. Len(sets') : secs_read'[g] = sets'[i].secs
        <3>1. pc[g] # "idle"
            BY <1>0, <2>1, <2>3
        <3> QED BY <2>1, <3>1 DEF TimerInv, GetsInv
    <2>4. ASSUME NEW g \in Getter
          PROVE  \E i \in 1 .. Len(sets') : \E j \in i .. Len(sets') :
                     timer'[g] = [secs |-> sets'[i].secs, nanos |-> sets'[j].nanos]
        <3>1. PICK i \in 1 .. Len(sets) : \E j \in i .. Len(sets) :
                  timer[g] = [secs |-> sets[i].secs, nanos |-> sets[j].nanos]
            BY DEF TimerInv, GetsInv, NanosNotOlder
        <3>2. PICK j \in i .. Len(sets) :
                  timer[g] = [secs |-> sets[i].secs, nanos |-> sets[j].nanos]
            BY <3>1
        <3>3. j \in 1 .. Len(sets) /\ j \in i .. Len(sets')
            BY <1>0, <2>1
        <3> QED BY <2>1, <3>2, <3>3
    <2> QED BY <2>1, <2>2, <2>3, <2>4 DEF TimerInv, GetsInv, NanosNotOlder
<1>2. ASSUME NEW s \in Setter, EndSet(s)
      PROVE  TimerInv'
    <2>1. TimerTypes' /\ sets' = sets
        BY <1>2, OtherStepFacts
    <2>2. /\ DEFAULT_ABORT_TIMER_SECS' = sets[setting[s]].secs /\ pc[s] = "second"
          /\ UNCHANGED <<DEFAULT_ABORT_TIMER_NANOS, secs_read, timer>>
          /\ \A t \in Setter \cup Getter : pc'[t] = IF t = s THEN "idle" ELSE pc[t]
          /\ \A t \in Setter : t # s => setting'[t] = setting[t]
        BY <1>2 DEF EndSet, Goto, getVars, TimerInv, TimerTypes
    <2>3. setting[s] \in 1 .. Len(sets)
        BY <2>2 DEF TimerInv, StoresInv
    <2>4. StoresInv'
        BY <2>1, <2>2, <2>3 DEF TimerInv, StoresInv
    <2>5. GetsInv'
        BY <1>0, <2>1, <2>2 DEF TimerInv, GetsInv, NanosNotOlder
    <2> QED BY <2>1, <2>4, <2>5 DEF TimerInv
<1>3. ASSUME NEW g \in Getter, BeginGet(g)
      PROVE  TimerInv'
    <2>1. TimerTypes' /\ sets' = sets
        BY <1>3, OtherStepFacts
    <2>2. /\ UNCHANGED <<DEFAULT_ABORT_TIMER_SECS, DEFAULT_ABORT_TIMER_NANOS, setting,
                         timer>>
          /\ \A t \in Setter \cup Getter : t # g => pc'[t] = pc[t]
          /\ \A h \in Getter : secs_read'[h] = IF h = g THEN DEFAULT_ABORT_TIMER_SECS
                                               ELSE secs_read[h]
        BY <1>3 DEF BeginGet, Goto, statics, setVars, TimerInv, TimerTypes
    <2>3. StoresInv'
        BY <1>0, <2>1, <2>2 DEF TimerInv, StoresInv
    <2>4. ASSUME NEW h \in Getter, pc'[h] # "idle"
          PROVE  \E i \in 1 .. Len(sets) : secs_read'[h] = sets[i].secs
        <3>1. CASE h = g
            BY <2>2, <3>1 DEF TimerInv, StoresInv
        <3>2. CASE h # g
            BY <2>2, <2>4, <3>2 DEF TimerInv, GetsInv
        <3> QED BY <3>1, <3>2
    <2>5. GetsInv'
        BY <2>1, <2>2, <2>4 DEF TimerInv, GetsInv, NanosNotOlder
    <2> QED BY <2>1, <2>3, <2>5 DEF TimerInv
<1>4. ASSUME NEW g \in Getter, EndGet(g)
      PROVE  TimerInv'
    <2>1. TimerTypes' /\ sets' = sets
        BY <1>4, OtherStepFacts
    <2>2. /\ UNCHANGED <<DEFAULT_ABORT_TIMER_SECS, DEFAULT_ABORT_TIMER_NANOS, setting,
                         secs_read>>
          /\ pc[g] = "second"
          /\ \A t \in Setter \cup Getter : pc'[t] = IF t = g THEN "idle" ELSE pc[t]
          /\ \A h \in Getter :
                 timer'[h] = IF h = g THEN [secs  |-> secs_read[g],
                                            nanos |-> DEFAULT_ABORT_TIMER_NANOS]
                             ELSE timer[h]
        BY <1>4 DEF EndGet, Goto, statics, setVars, TimerInv, TimerTypes
    <2>3. StoresInv'
        BY <1>0, <2>1, <2>2 DEF TimerInv, StoresInv
    <2>4. ASSUME NEW h \in Getter
          PROVE  \E i \in 1 .. Len(sets) : \E j \in i .. Len(sets) :
                     timer'[h] = [secs |-> sets[i].secs, nanos |-> sets[j].nanos]
        <3>1. CASE h = g
            <4>1. PICK i \in 1 .. Len(sets) : secs_read[g] = sets[i].secs
                BY <2>2 DEF TimerInv, GetsInv
            <4>2. Len(sets) \in i .. Len(sets)
                BY <1>0
            <4>3. timer'[g] = [secs |-> sets[i].secs, nanos |-> sets[Len(sets)].nanos]
                BY <2>2, <4>1 DEF TimerInv, StoresInv
            <4> QED BY <3>1, <4>2, <4>3
        <3>2. CASE h # g
            BY <2>2, <3>2 DEF TimerInv, GetsInv, NanosNotOlder
        <3> QED BY <3>1, <3>2
    <2>5. GetsInv'
        BY <2>1, <2>2, <2>4 DEF TimerInv, GetsInv, NanosNotOlder
    <2> QED BY <2>1, <2>3, <2>5 DEF TimerInv
<1>5. CASE UNCHANGED timerVars
    BY <1>5 DEF timerVars, statics, setVars, getVars, TimerInv, TimerTypes, StoresInv,
                GetsInv, NanosNotOlder
<1> QED BY <1>1, <1>2, <1>3, <1>4, <1>5 DEF TimerNext

\* With one setter, so is what it says of the last timer.
LEMMA CurrentInvStep ==
    ASSUME NEW s, Setter = {s}, TimerInv, CurrentInv, [TimerNext]_timerVars
    PROVE  CurrentInv'
<1>0. s \in Setter /\ s \notin Getter /\ pc[s] \in {"idle", "second"}
    BY TimerAssumption DEF TimerInv, TimerTypes
<1>1. CASE BeginSet(s)
    <2>1. /\ pc'[s] = "second" /\ setting'[s] = Len(sets')
          /\ \A g \in Getter : ~quiet'[g]
        BY <1>0, <1>1, BeginSetFacts DEF TimerInv, TimerTypes
    <2> QED BY <2>1 DEF CurrentInv
<1>2. CASE EndSet(s)
    <2>1. /\ sets' = sets /\ quiet' = quiet /\ pc[s] = "second"
          /\ DEFAULT_ABORT_TIMER_SECS' = sets[setting[s]].secs
        BY <1>2 DEF EndSet, getVars
    <2>2. \A g \in Getter : ~quiet[g]
        BY <1>0, <2>1 DEF CurrentInv
    <2>3. setting[s] = Len(sets)
        BY <1>0, <2>1 DEF CurrentInv
    <2>4. pc'[s] = "idle"
        BY <1>0, <1>2 DEF EndSet, Goto, TimerInv, TimerTypes
    <2> QED BY <2>1, <2>2, <2>3, <2>4 DEF CurrentInv
<1>3. ASSUME NEW g \in Getter, BeginGet(g)
      PROVE  CurrentInv'
    <2>1. /\ UNCHANGED <<DEFAULT_ABORT_TIMER_SECS, setting, sets, timer>>
          /\ \A t \in Setter \cup Getter : pc'[t] = IF t = g THEN "second" ELSE pc[t]
          /\ \A h \in Getter \ {g} : /\ secs_read'[h] = secs_read[h]
                                     /\ first'[h] = first[h] /\ quiet'[h] = quiet[h]
          /\ secs_read'[g] = DEFAULT_ABORT_TIMER_SECS /\ first'[g] = Len(sets)
          /\ quiet'[g] => pc[s] = "idle"
        BY <1>0, <1>3 DEF BeginGet, Goto, statics, setVars, TimerInv, TimerTypes
    <2>2. pc'[s] = pc[s]
        BY <1>0, <2>1
    <2> QED BY <1>0, <2>1, <2>2 DEF CurrentInv
<1>4. ASSUME NEW g \in Getter, EndGet(g)
      PROVE  CurrentInv'
    <2>1. /\ UNCHANGED <<DEFAULT_ABORT_TIMER_SECS, setting, sets, secs_read, first, quiet>>
          /\ pc[g] = "second"
          /\ \A t \in Setter \cup Getter : pc'[t] = IF t = g THEN "idle" ELSE pc[t]
          /\ \A h \in Getter \ {g} : timer'[h] = timer[h]
          /\ timer'[g] = [secs |-> secs_read[g], nanos |-> DEFAULT_ABORT_TIMER_NANOS]
        BY <1>0, <1>4 DEF EndGet, Goto, statics, setVars, TimerInv, TimerTypes
    <2>2. pc'[s] = pc[s]
        BY <1>0, <2>1
    <2>3. quiet[g] => timer'[g] = sets[Len(sets)]
        <3>1. sets[Len(sets)] \in Duration
            BY DEF TimerInv, TimerTypes
        <3>2. quiet[g] => timer'[g] = [secs  |-> sets[Len(sets)].secs,
                                       nanos |-> sets[Len(sets)].nanos]
            BY <2>1 DEF CurrentInv, TimerInv, StoresInv
        <3> QED BY <3>1, <3>2 DEF Duration
    <2> QED BY <1>0, <2>1, <2>2, <2>3 DEF CurrentInv
<1>5. CASE UNCHANGED timerVars
    BY <1>5 DEF timerVars, statics, setVars, getVars, CurrentInv
<1> QED BY <1>1, <1>2, <1>3, <1>4, <1>5 DEF TimerNext

\* The timer a program starts with, before the first set and the first get.
LEMMA TimerInit_TimerInv ==
    ASSUME TimerInit
    PROVE  TimerInv /\ CurrentInv
<1>1. FirstTimer \in Duration
    BY TimerAssumption DEF FirstTimer, Duration
<1>2. /\ sets \in Seq(Duration) /\ Len(sets) = 1 /\ sets[1] = FirstTimer
    BY <1>1 DEF TimerInit
<1>3. StoresInv /\ GetsInv /\ CurrentInv
    BY <1>2, TimerAssumption
       DEF TimerInit, StoresInv, CurrentInv, GetsInv, NanosNotOlder, FirstTimer
<1> QED BY <1>2, <1>3, TimerAssumption DEF TimerInit, TimerInv, TimerTypes, FirstTimer

\* The invariant holds in every run.
LEMMA TimerInvariant == TimerSpec => []TimerInv
<1>1. TimerInit => TimerInv
    BY TimerInit_TimerInv
<1>2. TimerInv /\ [TimerNext]_timerVars => TimerInv'
    BY TimerInvStep
<1> QED BY <1>1, <1>2, PTL DEF TimerSpec

\* get_default_abort_timer never returns nanoseconds that are older than its seconds,
\* however many threads call set_default_abort_timer.
THEOREM MixedInOneOrder == TimerSpec => []NanosNotOlder
<1>1. TimerInv => NanosNotOlder
    BY DEF TimerInv, GetsInv
<1> QED BY <1>1, TimerInvariant, PTL

\* With one setter, a get_default_abort_timer that overlaps no
\* set_default_abort_timer returns what was set last.
THEOREM QuietGetCurrent ==
    ASSUME NEW CONSTANT s, Setter = {s}
    PROVE  TimerSpec => []QuietGetIsCurrent
<1>1. TimerInit => CurrentInv
    BY TimerInit_TimerInv
<1>2. TimerInv /\ CurrentInv /\ [TimerNext]_timerVars => CurrentInv'
    BY CurrentInvStep
<1>3. CurrentInv => QuietGetIsCurrent
    BY DEF CurrentInv, QuietGetIsCurrent
<1> QED BY <1>1, <1>2, <1>3, TimerInvariant, PTL DEF TimerSpec
=============================================================================
