---------------------------- MODULE SpawningProofs ----------------------------
(***************************************************************************)
(* Where no task runs before spawn_many_processes returns, inbox_count is  *)
(* the number of inboxes from then on, for any number of processes, items, *)
(* callers and calls.  Where tasks do run, it is not: see the run          *)
(* spawning_multithreaded.                                                 *)
(***************************************************************************)
EXTENDS Spawning, ChannelProofs

\* With one thread a process ends after the store, and then it is counted.
LEMMA EndProcessRemoves ==
    ASSUME ~Multithreaded, ManyInv, NEW p \in Process, EndProcess(p)
    PROVE  stored /\ remove_inbox(p) /\ UNCHANGED panicked
<1>1. stored /\ inbox[p] = "live" /\ inbox_count = Cardinality(Live)
    BY DEF EndProcess, ManyInv, SpawnCountExact
<1>2. Cardinality(Live) \in Nat \ {0}
    <2>1. p \in Live /\ Live # {}
        BY <1>1 DEF Live
    <2> QED BY <2>1, LiveFinite, FS_EmptySet
<1> QED BY <1>1, <1>2 DEF EndProcess

\* With one thread the invariant is inductive.
LEMMA ManyInvStep ==
    ASSUME ~Multithreaded, ManyInv, [ManyNext]_manyVars
    PROVE  ManyInv'
<1> USE DEF ManyInv, SpawnCountExact
<1>1. CASE UNCHANGED <<inboxVars, stored, panicked>>
    BY <1>1 DEF inboxVars, Live
<1>2. ASSUME NEW t \in Thread, CallStep(t), UNCHANGED spawnVars
      PROVE  UNCHANGED <<inboxVars, stored, panicked>>
    BY <1>2, CallStepInboxes DEF spawnVars
<1>3. ASSUME NEW c \in Caller, stored, CallerStep(c), UNCHANGED spawnVars
      PROVE  ManyInv'
    <2>1. CASE CallSpawn(c)
        <3>1. PICK p \in Process : inbox[p] = "none" /\ try_add_inbox(p)
            BY <2>1 DEF CallSpawn
        <3>2. Cardinality(Live') = Cardinality(Live) + 1
            BY <3>1, LiveAdded DEF try_add_inbox
        <3> QED BY <1>3, <3>1, <3>2 DEF try_add_inbox, spawnVars
    <2>2. CASE ~CallSpawn(c)
        <3>1. UNCHANGED <<inboxVars, stored, panicked>>
            BY <1>3, <2>2
               DEF CallerStep, CallSendNow, CallClose, CallHaltSome, CallHalt, spawnVars
        <3> QED BY <1>1, <3>1
    <2> QED BY <2>1, <2>2
<1>4. ASSUME NEW p \in Process, SpawnItem(p)
      PROVE  ManyInv'
    BY <1>4 DEF SpawnItem
<1>5. CASE StoreCount
    <2>1. Spawned = Live /\ Live' = Live
        BY <1>5 DEF StoreCount, Spawned, Live
    <2> QED BY <1>5, <2>1 DEF StoreCount
<1>6. ASSUME NEW p \in Process, EndProcess(p)
      PROVE  ManyInv'
    <2>1. /\ stored /\ stored' = stored /\ inbox[p] = "live"
          /\ remove_inbox(p) /\ UNCHANGED panicked
        BY <1>6, EndProcessRemoves DEF EndProcess
    <2>2. Cardinality(Live') = Cardinality(Live) - 1
        BY <2>1, LiveRemoved DEF remove_inbox
    <2> QED BY <2>1, <2>2 DEF remove_inbox
<1>7. CASE UNCHANGED manyVars
    BY <1>1, <1>7 DEF manyVars, spawnVars, channelVars
<1> QED BY <1>1, <1>2, <1>3, <1>4, <1>5, <1>6, <1>7 DEF ManyNext

\* Once spawn_many_processes has returned on a runtime with one thread, inbox_count is
\* exact and no destructor of an inbox fails its assertion.
THEOREM SpawnCounting ==
    ASSUME ~Multithreaded
    PROVE  ManySpec => []SpawnCountExact
<1>1. ManyInit => ManyInv
    BY DEF ManyInit, ManyInv, SpawnCountExact
<1>2. ManyInv /\ [ManyNext]_manyVars => ManyInv'
    BY ManyInvStep
<1>3. ManyInv => SpawnCountExact
    BY DEF ManyInv
<1> QED BY <1>1, <1>2, <1>3, PTL DEF ManySpec
-----------------------------------------------------------------------------
\* Before the store there are inboxes and no calls; from the store on an actor that has
\* processes goes on, and exits, as any other.
LEMMA ManyExitInvStep ==
    ASSUME ~Multithreaded, ManyInv, ManyExitInv, [ManyNext]_manyVars
    PROVE  ManyExitInv'
<1> USE DEF ManyExitInv
<1>1. ASSUME NEW t \in Thread, CallStep(t), UNCHANGED spawnVars
      PROVE  ManyExitInv'
    <2>1. stored /\ stored' = stored
        BY <1>1
           DEF spawnVars, CallStep, RecvNotifyOne, RecvNotifyAll, SendNotifyOne,
               SendNotifyAll, ExitNotifyAll, Close, HaltSomeMax, Drain, Pending
    <2>2. Spawned' = Spawned
        BY <1>1, CallStepInboxes DEF Spawned, inboxVars
    <2> QED BY <1>1, <2>1, <2>2, CallStepTypes, ExitInvCallStep
<1>2. ASSUME NEW c \in Caller, stored, CallerStep(c), UNCHANGED spawnVars
      PROVE  ManyExitInv'
    <2>1. stored' = stored /\ ChannelTypeOK'
        BY <1>2, CallerStepTypes DEF spawnVars
    <2>2. CASE Spawned = {}
        <3>1. Live = {} /\ inbox_count = 0
            BY <1>2, <2>2, FS_EmptySet DEF Spawned, Live, ManyInv, SpawnCountExact
        <3>2. UNCHANGED inboxVars
            <4>1. ~CallSpawn(c)
                BY <3>1 DEF CallSpawn, try_add_inbox
            <4> QED BY <1>2, <4>1
                    DEF CallerStep, CallSendNow, CallClose, CallHaltSome, CallHalt
        <3>3. Spawned' = Spawned
            BY <3>2 DEF Spawned, inboxVars
        <3> QED BY <1>2, <2>1, <2>2, <3>3
    <2>3. CASE Spawned # {}
        BY <1>2, <2>1, <2>3, ExitInvCallerStep
    <2> QED BY <2>2, <2>3
<1>3. ASSUME NEW p \in Process, SpawnItem(p)
      PROVE  ManyExitInv'
    BY <1>3 DEF SpawnItem, ChannelTypeOK, queueVars, haltVars, eventVars
<1>4. CASE StoreCount
    <2>1. Spawned = Live /\ Spawned' = Spawned /\ Live' = Live
        BY <1>4 DEF StoreCount, Spawned, Live, ManyInv
    <2>2. ChannelTypeOK'
        <3>1. Cardinality(Spawned) \in Nat
            BY <2>1, LiveFinite
        <3> QED BY <1>4, <3>1
                DEF StoreCount, ChannelTypeOK, queueVars, haltVars, eventVars
    <2>3. \A t \in Thread : ~Remaining(t, "drain")'
        BY <1>4, ContainsNone DEF StoreCount, Remaining
    <2> QED BY <1>4, <2>1, <2>2, <2>3 DEF StoreCount, ExitInv
<1>5. ASSUME NEW p \in Process, EndProcess(p)
      PROVE  ManyExitInv'
    <2>1. /\ stored /\ stored' = stored /\ inbox[p] = "live" /\ todo[p] = <<>>
          /\ remove_inbox(p) /\ UNCHANGED <<queueVars, haltVars, eventVars, calls>>
        BY <1>5, EndProcessRemoves DEF EndProcess
    <2>2. p \in Spawned /\ inbox_count = Cardinality(Live)
        BY <2>1 DEF Spawned, ManyInv, SpawnCountExact
    <2>3. ChannelTypeOK'
        <3>1. /\ inbox_count' \in Nat /\ todo' \in [Thread -> Seq(Op)]
              /\ inbox' \in [Process -> {"none", "live", "dropped"}]
            BY <2>1, <2>2, RemoveInboxFacts
        <3> QED BY <2>1, <3>1 DEF queueVars, haltVars, eventVars, ChannelTypeOK
    <2> QED BY <2>1, <2>2, <2>3, ExitInvRemove
<1>6. CASE UNCHANGED manyVars
    <2>1. UNCHANGED <<channelVars, stored>> /\ Spawned' = Spawned
        BY <1>6 DEF manyVars, spawnVars, channelVars, inboxVars, Spawned
    <2>2. Live' = Live /\ UNCHANGED <<queueVars, todo>>
        BY <2>1 DEF channelVars, inboxVars, Live
    <2>3. ChannelTypeOK'
        BY <2>1 DEF channelVars, queueVars, inboxVars, haltVars, eventVars, ChannelTypeOK
    <2> QED BY <2>1, <2>2, <2>3, ExitInvFrame
<1> QED BY <1>1, <1>2, <1>3, <1>4, <1>5, <1>6 DEF ManyNext

\* An actor that spawn_many_processes made of at least one item leaves a closed and empty
\* channel when it exits, however many items there were and whoever spawns onto it.
THEOREM SpawnedExit ==
    ASSUME ~Multithreaded
    PROVE  ManySpec => []SpawnedLeavesNothing
<1>1. ManyInit => ManyInv /\ ManyExitInv
    <2> SUFFICES ASSUME ManyInit PROVE ManyInv /\ ManyExitInv
        OBVIOUS
    <2>1. 0 \in -I32Max .. I32Max /\ MaxCalls \in Nat
        BY ChannelAssumption
    <2>2. NewEvent \in EventType(Thread)
        BY DEF NewEvent, EventType
    <2>3. ManyInv /\ ~stored /\ \A t \in Thread : todo[t] = <<>>
        BY DEF ManyInit, ChannelNew, ManyInv, SpawnCountExact
    <2>4. queue \in Seq(Thread) /\ todo \in [Thread -> Seq(Op)]
        BY DEF ManyInit, ChannelNew
    <2>5. /\ inbox \in [Process -> {"none", "live", "dropped"}]
          /\ calls \in [Caller -> 0 .. MaxCalls]
        BY <2>1 DEF ManyInit, ChannelNew
    <2>6. ChannelTypeOK
        BY <2>1, <2>2, <2>4, <2>5 DEF ManyInit, ChannelNew, ChannelTypeOK
    <2> QED BY <2>3, <2>6 DEF ManyExitInv
<1>2. ManyInv /\ ManyExitInv /\ [ManyNext]_manyVars => ManyInv' /\ ManyExitInv'
    BY ManyInvStep, ManyExitInvStep
<1>3. ManyExitInv => SpawnedLeavesNothing
    BY ExitInvClean DEF ManyExitInv, SpawnedLeavesNothing
<1> QED BY <1>1, <1>2, <1>3, PTL DEF ManySpec
=============================================================================
