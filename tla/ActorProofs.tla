----------------------------- MODULE ActorProofs -----------------------------
(***************************************************************************)
(* ActorIInv is an inductive invariant of Actor, for any number of         *)
(* processes, join handles and addresses, and with it the safety           *)
(* invariants of the composition.                                          *)
(***************************************************************************)
EXTENDS ActorRefinement, SupervisionProofs

(***************************************************************************)
(* Each of the two components, seen from the other.                        *)
(***************************************************************************)
\* No address is a process or the supervisor.
LEMMA AddressThreads ==
    /\ Addresses \subseteq Thread
    /\ \A a \in Addresses : a \notin Process /\ a # Supervisor
    /\ <<"drop_exit_listener">> \in Seq(Op)
BY AddressAssumption, ActorAssumption DEF Op

\* A step of the child and its tasks is one of module Supervision.
LEMMA ActorStepIsSuper ==
    ASSUME [ActorNext]_actorVars
    PROVE  [SuperNext]_superVars \/ (AddressStep /\ UNCHANGED superOnly)
BY DEF ActorNext, SuperNext, actorVars, superVars, superOnly

\* A step of the addresses: on the channel it touches exit_event and the calls of
\* the addresses only.
LEMMA AddressStepFrame ==
    ASSUME ActorIInv, AddressStep
    PROVE  /\ UNCHANGED <<queueVars, inboxVars, haltVars, recv_event, send_event, calls>>
           /\ todo' \in [Thread -> Seq(Op)]
           /\ exit_event' \in EventType(Thread)
           /\ \/ UNCHANGED todo
              \/ \E a \in Addresses, ops \in Seq(Op) :
                     /\ Continue(a, ops)
                     /\ \A op : Seqs!Contains(ops, op)
                                    => op = "drop_exit_listener" \/ Remaining(a, op)
<1>a. /\ todo \in [Thread -> Seq(Op)] /\ exit_event \in EventType(Thread)
    BY DEF ActorIInv, AddressTypeOK, ChannelTypeOK
<1> DEFINE CallsGoOn == \E a \in Addresses, ops \in Seq(Op) :
               /\ Continue(a, ops)
               /\ \A op : Seqs!Contains(ops, op)
                              => op = "drop_exit_listener" \/ Remaining(a, op)
<1>1. CASE GetAddressOf
    BY <1>a, <1>1 DEF GetAddressOf, GetAddress, channelVars, eventVars
<1>2. ASSUME NEW a \in Addresses, CloneAddress(a) \/ PollAddress(a)
                 \/ HasExited(a, "load", "listen") \/ HasExited(a, "recheck", "poll")
      PROVE  UNCHANGED channelVars
    BY <1>2 DEF CloneAddress, PollAddress, HasExited
<1>3. ASSUME NEW a \in Addresses, DropAddress(a)
      PROVE  /\ UNCHANGED <<queueVars, inboxVars, haltVars, eventVars, calls>>
             /\ todo' \in [Thread -> Seq(Op)] /\ CallsGoOn
    <2>1. /\ a \in Thread /\ <<>> \in Seq(Op) /\ <<"drop_exit_listener">> \in Seq(Op)
        BY AddressThreads
    <2>2. /\ \A op : ~Seqs!Contains(<<>>, op)
          /\ \A op : Seqs!Contains(<<"drop_exit_listener">>, op) => op = "drop_exit_listener"
        BY ContainsNone, ContainsOne
    <2>3. PICK ops \in Seq(Op) :
              /\ Continue(a, ops)
              /\ \A op : Seqs!Contains(ops, op) => op = "drop_exit_listener"
        BY <1>3, <2>1, <2>2 DEF DropAddress
    <2> QED BY <1>a, <1>3, <2>1, <2>3, ContinueFacts DEF DropAddress
<1>4. ASSUME NEW a \in Addresses, DropExitListener(a)
      PROVE  /\ UNCHANGED <<queueVars, inboxVars, haltVars, recv_event, send_event, calls>>
             /\ todo' \in [Thread -> Seq(Op)] /\ exit_event' \in EventType(Thread)
             /\ CallsGoOn
    <2>1. /\ a \in Thread /\ Pending(a, "drop_exit_listener") /\ Finish(a)
        BY <1>4, AddressThreads DEF DropExitListener
    <2>2. /\ Tail(todo[a]) \in Seq(Op) /\ Continue(a, Tail(todo[a]))
          /\ \A op : Seqs!Contains(Tail(todo[a]), op) => Remaining(a, op)
        BY <1>a, <2>1, ContainsTail DEF Pending, Finish, Remaining
    <2> QED BY <1>a, <1>4, <2>1, <2>2, FinishFacts, DropListenerFacts DEF DropExitListener
<1>5. ASSUME NEW a \in Addresses, AcquireExitListener(a)
      PROVE  exit_event' \in EventType(Thread)
    BY <1>a, <1>5, AddressThreads, ListenFacts DEF AcquireExitListener
<1>6. ASSUME NEW a \in Addresses, PollExitListener(a)
      PROVE  exit_event' \in EventType(Thread)
    BY <1>a, <1>6, RemoveFacts DEF PollExitListener
<1>7. ASSUME NEW a \in Addresses, AcquireExitListener(a) \/ PollExitListener(a)
      PROVE  UNCHANGED <<queueVars, inboxVars, haltVars, recv_event, send_event, todo, calls>>
    BY <1>7 DEF AcquireExitListener, PollExitListener
<1> QED BY <1>a, <1>1, <1>2, <1>3, <1>4, <1>5, <1>6, <1>7
        DEF AddressStep, AwaitStep, channelVars, eventVars

\* Every step of the actor keeps the invariant of the child and its tasks.
LEMMA SuperIInvKept ==
    ASSUME ActorIInv, [ActorNext]_actorVars
    PROVE  SuperIInv'
<1>a. SuperIInv
    BY DEF ActorIInv
<1>1. CASE AddressStep /\ UNCHANGED superOnly
    <2>1. /\ UNCHANGED <<queueVars, inboxVars, haltVars, recv_event, send_event, calls>>
          /\ todo' \in [Thread -> Seq(Op)]
          /\ exit_event' \in EventType(Thread)
        BY <1>1, AddressStepFrame
    <2>2. ChannelTypeOK'
        BY <1>a, <2>1
           DEF SuperIInv, SuperTypeOK, ChannelTypeOK, queueVars, inboxVars, haltVars
    <2>3. UNCHANGED <<childVars, taskVars>>
        BY <1>1 DEF superOnly
    <2>4. SuperTypeOK'
        BY <1>a, <2>2, <2>3
           DEF SuperIInv, SuperTypeOK, childVars, taskVars, formVars, linkVars,
               handleVars, shutdownVars
    <2>5. InboxesHaveTasks'
        BY <1>a, <2>1, <2>3
           DEF SuperIInv, InboxesHaveTasks, Live, inboxVars, taskVars
    <2>6. HandlesInv'
        BY <1>a, <2>3
           DEF SuperIInv, HandlesInv, HandlesHeld, Handles, Finished, childVars, taskVars,
               formVars, handleVars
    <2>7. AbortsInv'
        BY <1>a, <2>3
           DEF SuperIInv, AbortsInv, childVars, taskVars, formVars, linkVars, handleVars,
               shutdownVars
    <2>10. AbortsOrdered'
        <3>1. todo \in [Thread -> Seq(Op)]
            BY <1>a DEF SuperIInv, SuperTypeOK, ChannelTypeOK
        <3>2. todo'[Supervisor] = todo[Supervisor]
            BY <1>1, <3>1, AddressStepFrame, AddressThreads, Threads DEF Continue
        <3> QED BY <1>a, <2>1, <2>3, <3>2
                DEF SuperIInv, AbortsOrdered, Remaining, childVars, taskVars, linkVars,
                    shutdownVars, queueVars
    <2>8. NotifierDebtBounded'
        BY <1>a, <2>1, <2>3
           DEF SuperIInv, NotifierDebtBounded, DecidingTasks, haltVars, taskVars
    <2>9. ExitInv'
        <3>1. ExitInv /\ ChannelTypeOK /\ Live' = Live
            BY <1>a, <2>1 DEF SuperIInv, SuperTypeOK, inboxVars, Live
        <3>2. CASE UNCHANGED todo
            BY <2>1, <3>1, <3>2, ExitInvFrame
        <3>3. ASSUME NEW a \in Addresses, NEW ops \in Seq(Op), Continue(a, ops),
                     \A op : Seqs!Contains(ops, op)
                                => op = "drop_exit_listener" \/ Remaining(a, op)
              PROVE  ExitInv'
            <4>1. a \in Thread /\ ~Remaining(a, "drain")
                BY <3>1, AddressThreads DEF ExitInv
            <4>2. ~Seqs!Contains(ops, "drain")
                BY <3>3, <4>1
            <4> QED BY <2>1, <3>1, <3>3, <4>1, <4>2, ExitInvOther DEF queueVars
        <3> QED BY <1>1, <3>2, <3>3, AddressStepFrame
    <2> QED BY <2>4, <2>5, <2>6, <2>7, <2>8, <2>9, <2>10 DEF SuperIInv
<1>2. CASE [SuperNext]_superVars
    BY <1>a, <1>2, SuperIInvStep
<1> QED BY <1>1, <1>2, ActorStepIsSuper
-----------------------------------------------------------------------------
(***************************************************************************)
(* What the child and its tasks do to the addresses.                       *)
(***************************************************************************)
\* A step of the supervisor or of a task begins a call of its own, if any, and
\* notifies nobody by itself.  One that removes the last inbox has the exit to notify,
\* and no other has; none adds an inbox where there is none.
LEMMA SuperStepExit ==
    ASSUME ActorIInv, ChildStep \/ AbortStep \/ Reap \/ \E p \in Process : TaskStep(p)
    PROVE  /\ UNCHANGED exit_event
           /\ \A a \in Addresses : todo'[a] = todo[a]
           /\ StillToDo("exit_notify_all") => StillToDo("exit_notify_all")'
           /\ inbox_count' = 0 => inbox_count = 0 \/ StillToDo("exit_notify_all")'
           /\ inbox_count = 0 => inbox_count' = 0
           /\ StillToDo("exit_notify_all")'
                  => StillToDo("exit_notify_all") \/ inbox_count' = 0
<1>a. /\ todo \in [Thread -> Seq(Op)] /\ inbox_count \in Nat
      /\ inbox_count = Cardinality(Live) /\ InboxesHaveTasks
      /\ inbox \in [Process -> {"none", "live", "dropped"}]
    BY DEF ActorIInv, SuperIInv, SuperTypeOK, ChannelTypeOK, InboxesHaveTasks
<1>b. /\ Supervisor \in Thread /\ Process \subseteq Thread /\ Addresses \subseteq Thread
      /\ \A a \in Addresses : a \notin Process /\ a # Supervisor
    BY Threads, AddressThreads
<1> DEFINE Kept == /\ UNCHANGED exit_event
                   /\ \A a \in Addresses : todo'[a] = todo[a]
                   /\ StillToDo("exit_notify_all") => StillToDo("exit_notify_all")'
                   /\ inbox_count' = 0
                          => inbox_count = 0 \/ StillToDo("exit_notify_all")'
                   /\ inbox_count = 0 => inbox_count' = 0
                   /\ StillToDo("exit_notify_all")'
                          => StillToDo("exit_notify_all") \/ inbox_count' = 0
<1>1. ASSUME UNCHANGED <<exit_event, todo>>,
             \/ inbox_count' = inbox_count
             \/ inbox_count >= 1 /\ inbox_count' = inbox_count + 1
      PROVE  Kept
    BY <1>1, <1>a DEF StillToDo, Remaining
<1>2. ASSUME NEW rest \in {<<"record_abort">>, <<"halt_some_max">>},
             close(Supervisor, rest), todo[Supervisor] = <<>>,
             UNCHANGED <<exit_event, inbox_count>>
      PROVE  Kept
    <2>1. rest \in Seq(Op) /\ ~Seqs!Contains(rest, "exit_notify_all")
        <3>1. /\ ~Seqs!Contains(<<"record_abort">>, "exit_notify_all")
              /\ ~Seqs!Contains(<<"halt_some_max">>, "exit_notify_all")
            BY ContainsOne
        <3> QED BY <1>2, <3>1, Threads
    <2>2. /\ <<"recv_notify_all", "send_notify_all">> \o rest \in Seq(Op)
          /\ ~Seqs!Contains(<<"recv_notify_all", "send_notify_all">> \o rest,
                            "exit_notify_all")
        BY <2>1, ContainsCons2 DEF Op
    <2>3. PICK ops \in Seq(Op) : /\ Continue(Supervisor, ops)
                                 /\ ~Seqs!Contains(ops, "exit_notify_all")
        BY <1>2, <2>1, <2>2 DEF close
    <2>4. /\ \A u \in Thread \ {Supervisor} : todo'[u] = todo[u]
          /\ StillToDo("exit_notify_all") => StillToDo("exit_notify_all")'
          /\ ~Remaining(Supervisor, "exit_notify_all")'
        BY <1>a, <1>b, <1>2, <2>3, ContinueFacts, StartKeeps
    <2>5. StillToDo("exit_notify_all")' => StillToDo("exit_notify_all")
        BY <2>4 DEF StillToDo, Remaining
    <2> QED BY <1>b, <1>2, <2>4, <2>5
<1>3. ASSUME NEW p \in Process, remove_inbox(p), inbox[p] = "live", todo[p] = <<>>,
             UNCHANGED exit_event
      PROVE  Kept
    <2>1. <<"close", "exit_notify_all", "drain">> \in Seq(Op) /\ <<>> \in Seq(Op)
        BY DEF Op
    <2>2. /\ inbox_count' = inbox_count - 1 /\ inbox_count >= 1
          /\ Continue(p, IF inbox_count = 1 THEN <<"close", "exit_notify_all", "drain">>
                         ELSE <<>>)
        BY <1>a, <1>3, LiveRemoved DEF remove_inbox
    <2>3. PICK ops \in Seq(Op) :
              /\ Continue(p, ops)
              /\ inbox_count = 1 => ops = <<"close", "exit_notify_all", "drain">>
              /\ inbox_count # 1 => ops = <<>>
        BY <2>1, <2>2
    <2>4. /\ \A u \in Thread \ {p} : todo'[u] = todo[u]
          /\ StillToDo("exit_notify_all") => StillToDo("exit_notify_all")'
          /\ Seqs!Contains(ops, "exit_notify_all") <=> Remaining(p, "exit_notify_all")'
        BY <1>a, <1>b, <1>3, <2>3, ContinueFacts, StartKeeps
    <2>5. /\ Seqs!Contains(<<"close", "exit_notify_all", "drain">>, "exit_notify_all")
          /\ ~Seqs!Contains(<<>>, "exit_notify_all")
        <3> DEFINE call == <<"close", "exit_notify_all", "drain">>
        <3>1. 2 \in 1 .. Len(call) /\ call[2] = "exit_notify_all"
            OBVIOUS
        <3> QED BY <3>1, ContainsNone DEF Seqs!Contains
    <2>6. inbox_count = 1 => StillToDo("exit_notify_all")'
        BY <1>b, <2>3, <2>4, <2>5 DEF StillToDo
    <2>7. inbox_count # 1 => ~Remaining(p, "exit_notify_all")'
        BY <2>3, <2>4, <2>5
    <2>8. StillToDo("exit_notify_all")'
              => StillToDo("exit_notify_all") \/ inbox_count = 1
        BY <2>4, <2>7 DEF StillToDo, Remaining
    <2> QED BY <1>a, <1>b, <1>3, <2>2, <2>4, <2>6, <2>8
<1>4. ASSUME NEW p \in Process, TakeHalt(p) \/ PollNotifier(p)
      PROVE  UNCHANGED <<exit_event, todo, inbox_count>>
    BY <1>4 DEF TakeHalt, PollNotifier, channelVars, eventVars, inboxVars
<1>5. ASSUME NEW ops \in Seq(Op), Continue(Supervisor, ops),
             \A op : op \notin AbortOps => (Seqs!Contains(ops, op) <=> Remaining(Supervisor, op)),
             UNCHANGED <<exit_event, inbox_count>>
      PROVE  Kept
    <2>1. /\ \A u \in Thread \ {Supervisor} : todo'[u] = todo[u]
          /\ Remaining(Supervisor, "exit_notify_all")'
                 <=> Seqs!Contains(ops, "exit_notify_all")
        BY <1>a, <1>b, <1>5, ContinueFacts
    <2>2. Seqs!Contains(ops, "exit_notify_all") <=> Remaining(Supervisor, "exit_notify_all")
        BY <1>5 DEF AbortOps
    <2>3. StillToDo("exit_notify_all")' <=> StillToDo("exit_notify_all")
        BY <2>1, <2>2 DEF StillToDo, Remaining
    <2> QED BY <1>b, <1>5, <2>1, <2>3
<1> QED BY <1>a, <1>1, <1>2, <1>3, <1>4, <1>5, ChildOnChannel
        DEF try_add_inbox, eventVars, inboxVars, channelVars
-----------------------------------------------------------------------------
(***************************************************************************)
(* The addresses.                                                          *)
(***************************************************************************)
\* A live address is counted.
LEMMA AddressCounted ==
    ASSUME AddressesInv, address_count \in Nat, NEW a \in Addresses, address[a] = "live"
    PROVE  address_count - 1 \in Nat
<1>1. a \in LiveAddresses /\ IsFiniteSet(LiveAddresses)
    BY DEF LiveAddresses, AddressesInv
<1>2. Cardinality(LiveAddresses) # 0
    BY <1>1, FS_EmptySet
<1> QED BY <1>2 DEF AddressesInv, AddressCountExact

\* Every step preserves the types of the addresses.
LEMMA AddressTypeStep ==
    ASSUME ActorIInv, [ActorNext]_actorVars
    PROVE  AddressTypeOK'
<1>a. ChannelTypeOK' /\ AddressTypeOK /\ AddressesInv
    BY SuperIInvKept DEF ActorIInv, SuperIInv, SuperTypeOK
<1> USE DEF AddressTypeOK
<1>1. ASSUME UNCHANGED addressOnly
      PROVE  AddressTypeOK'
    BY <1>1, <1>a DEF addressOnly, addressVars, awaitVars
<1>2. ASSUME NEW b \in Addresses, NewAddress(b), UNCHANGED awaitVars
      PROVE  AddressTypeOK'
    BY <1>2, <1>a DEF NewAddress, awaitVars
<1>3. ASSUME NEW a \in Addresses, DropAddress(a)
      PROVE  AddressTypeOK'
    <2>1. address_count' \in Nat
        BY <1>3, <1>a, AddressCounted DEF DropAddress
    <2> QED BY <1>3, <1>a, <2>1 DEF DropAddress, GoAwait, AwaitPlaces
<1>4. ASSUME NEW a \in Addresses, AwaitStep(a) \/ PollAddress(a)
      PROVE  AddressTypeOK'
    <2>1. /\ UNCHANGED addressVars
          /\ apc' = apc \/ \E place \in AwaitPlaces : GoAwait(a, place)
          /\ seen_exit' = seen_exit \/ seen_exit' = [seen_exit EXCEPT ![a] = TRUE]
        BY <1>4
           DEF AwaitStep, PollAddress, HasExited, AcquireExitListener, PollExitListener,
               DropExitListener, SeeExit, GoAwait, AwaitPlaces, awaitVars
    <2>2. apc' \in [Addresses -> AwaitPlaces]
        BY <1>a, <2>1 DEF GoAwait
    <2>3. seen_exit' \in [Addresses -> BOOLEAN]
        BY <1>a, <2>1
    <2> QED BY <1>a, <2>1, <2>2, <2>3 DEF addressVars
<1>5. ASSUME AddressStep
      PROVE  AddressTypeOK'
    BY <1>2, <1>3, <1>4, <1>5
       DEF AddressStep, GetAddressOf, GetAddress, CloneAddress
<1> QED BY <1>1, <1>5 DEF ActorNext, actorVars

\* Every step keeps address_count exact, and the calls of the addresses to those
\* that were dropped.
LEMMA AddressesInvStep ==
    ASSUME ActorIInv, [ActorNext]_actorVars
    PROVE  AddressesInv'
<1>a. /\ AddressesInv /\ address \in [Addresses -> {"none", "live", "dropped"}]
      /\ address_count \in Nat /\ todo \in [Thread -> Seq(Op)]
      /\ IsFiniteSet(LiveAddresses) /\ address_count = Cardinality(LiveAddresses)
    BY DEF ActorIInv, AddressTypeOK, AddressesInv, AddressCountExact, ChannelTypeOK
<1>1. ASSUME UNCHANGED addressVars,
             \A a \in Addresses : address[a] # "dropped" => todo'[a] = todo[a]
      PROVE  AddressesInv'
    BY <1>1, <1>a DEF AddressesInv, AddressCountExact, LiveAddresses, addressVars
<1>2. ASSUME NEW b \in Addresses, NewAddress(b), UNCHANGED channelVars
      PROVE  AddressesInv'
    <2>1. /\ address_count' = address_count + 1 /\ address[b] = "none"
          /\ address' = [address EXCEPT ![b] = "live"]
        BY <1>2 DEF NewAddress
    <2>2. LiveAddresses' = LiveAddresses \cup {b} /\ b \notin LiveAddresses
        BY <1>a, <2>1 DEF LiveAddresses
    <2>3. /\ IsFiniteSet(LiveAddresses')
          /\ Cardinality(LiveAddresses') = Cardinality(LiveAddresses) + 1
        BY <1>a, <2>2, FS_AddElement
    <2>4. \A a \in Addresses : address'[a] # "dropped" => todo'[a] = <<>>
        BY <1>2, <1>a, <2>1 DEF AddressesInv, channelVars
    <2> QED BY <1>a, <2>1, <2>3, <2>4 DEF AddressesInv, AddressCountExact
<1>3. ASSUME NEW b \in Addresses, DropAddress(b)
      PROVE  AddressesInv'
    <2>1. /\ address_count' = address_count - 1 /\ address[b] = "live"
          /\ address' = [address EXCEPT ![b] = "dropped"]
          /\ \A a \in Addresses \ {b} : todo'[a] = todo[a]
        BY <1>3, <1>a, AddressThreads DEF DropAddress, Continue
    <2>2. LiveAddresses' = LiveAddresses \ {b} /\ b \in LiveAddresses
        BY <1>a, <2>1 DEF LiveAddresses
    <2>3. /\ IsFiniteSet(LiveAddresses')
          /\ Cardinality(LiveAddresses') = Cardinality(LiveAddresses) - 1
        BY <1>a, <2>2, FS_RemoveElement
    <2>4. \A a \in Addresses : address'[a] # "dropped" => todo'[a] = <<>>
        BY <1>a, <2>1 DEF AddressesInv
    <2> QED BY <1>a, <2>1, <2>3, <2>4 DEF AddressesInv, AddressCountExact
<1>4. ASSUME NEW b \in Addresses, AwaitStep(b) \/ PollAddress(b)
      PROVE  AddressesInv'
    <2>1. CASE DropExitListener(b)
        <3>1. todo[b] # <<>> /\ UNCHANGED addressVars
              /\ \A a \in Addresses \ {b} : todo'[a] = todo[a]
            BY <1>a, <2>1, AddressThreads DEF DropExitListener, Pending, Finish, Continue
        <3>2. address[b] = "dropped"
            BY <1>a, <3>1 DEF AddressesInv
        <3> QED BY <1>1, <3>1, <3>2
    <2>2. CASE ~DropExitListener(b)
        <3>1. UNCHANGED <<addressVars, todo>>
            BY <1>4, <2>2
               DEF AwaitStep, PollAddress, HasExited, AcquireExitListener,
                   PollExitListener, channelVars
        <3> QED BY <1>1, <3>1
    <2> QED BY <2>1, <2>2
<1>5. ASSUME AddressStep
      PROVE  AddressesInv'
    BY <1>2, <1>3, <1>4, <1>5
       DEF AddressStep, GetAddressOf, GetAddress, CloneAddress
<1>6. ASSUME NEW t \in Thread, CallStep(t), UNCHANGED addressOnly
      PROVE  AddressesInv'
    <2>1. \A a \in Addresses : address[a] # "dropped" => a # t
        BY <1>6, <1>a, CallStepOthers DEF AddressesInv
    <2>2. \A a \in Addresses : address[a] # "dropped" => todo'[a] = todo[a]
        BY <1>6, <1>a, <2>1, CallStepOthers, AddressThreads
    <2> QED BY <1>1, <1>6, <2>2 DEF addressOnly
<1>7. ASSUME ChildStep \/ AbortStep \/ Reap \/ \E p \in Process : TaskStep(p),
             UNCHANGED addressOnly
      PROVE  AddressesInv'
    BY <1>1, <1>7, SuperStepExit DEF addressOnly
<1>8. CASE UNCHANGED actorVars
    BY <1>1, <1>8 DEF actorVars, addressOnly, channelVars
<1> QED BY <1>5, <1>6, <1>7, <1>8 DEF ActorNext

\* Every step keeps the exit to be noticed.
LEMMA ExitNoticedStep ==
    ASSUME ActorIInv, [ActorNext]_actorVars
    PROVE  ExitNoticed'
<1>a. /\ ExitNoticed /\ AddressesInv
      /\ apc \in [Addresses -> AwaitPlaces] /\ todo \in [Thread -> Seq(Op)]
      /\ exit_event \in EventType(Thread) /\ inbox_count \in Nat
    BY DEF ActorIInv, AddressTypeOK, ChannelTypeOK
<1> DEFINE Asleep(a) == apc[a] \in {"poll", "parked"} /\ a \in exit_event.waiting
           Promised == StillToDo("exit_notify_all")
<1>1. ASSUME \A a \in Addresses : Asleep(a)' /\ inbox_count' = 0 /\ inbox_count = 0
                                      => Asleep(a),
             inbox_count' = 0 => inbox_count = 0 \/ Promised',
             Promised => Promised'
      PROVE  ExitNoticed'
    BY <1>1, <1>a DEF ExitNoticed
<1>2. ASSUME NEW t \in Thread, CallStep(t), UNCHANGED addressOnly
      PROVE  ExitNoticed'
    <2>0. inbox_count' = inbox_count /\ apc' = apc
        BY <1>2, CallStepInboxes DEF inboxVars, addressOnly, awaitVars
    <2>1. CASE ExitNotifyAll(t)
        <3>1. exit_event'.waiting = {}
            BY <1>a, <2>1, NotifyAllFacts DEF ExitNotifyAll
        <3> QED BY <3>1 DEF ExitNoticed
    <2>2. CASE ~ExitNotifyAll(t)
        <3>1. exit_event' = exit_event /\ Head(todo[t]) # "exit_notify_all"
            BY <1>2, <2>2
               DEF CallStep, RecvNotifyOne, RecvNotifyAll, SendNotifyOne, SendNotifyAll,
                   Close, HaltSomeMax, Drain, Pending, eventVars
        <3>2. Promised => Promised'
            BY <1>2, <1>a, <3>1, CallStepKeeps
        <3> QED BY <1>1, <2>0, <3>1, <3>2
    <2> QED BY <2>1, <2>2
<1>3. ASSUME ChildStep \/ AbortStep \/ Reap \/ \E p \in Process : TaskStep(p),
             UNCHANGED addressOnly
      PROVE  ExitNoticed'
    <2>1. apc' = apc
        BY <1>3 DEF addressOnly, awaitVars
    <2> QED BY <1>1, <1>3, <2>1, SuperStepExit
<1>4. ASSUME NEW a \in Addresses, PollAddress(a) \/ HasExited(a, "load", "listen")
                                      \/ HasExited(a, "recheck", "poll")
      PROVE  ExitNoticed'
    <2>1. UNCHANGED channelVars /\ \A b \in Addresses \ {a} : apc'[b] = apc[b]
        BY <1>4, <1>a DEF PollAddress, HasExited, SeeExit, GoAwait
    <2>2. apc'[a] \in {"poll", "parked"} => inbox_count # 0
        BY <1>4, <1>a DEF PollAddress, HasExited, SeeExit, GoAwait
    <2>3. UNCHANGED <<exit_event, inbox_count, todo>>
        BY <2>1 DEF channelVars, eventVars, inboxVars
    <2> QED BY <1>1, <2>1, <2>2, <2>3 DEF StillToDo, Remaining
<1>5. ASSUME NEW a \in Addresses, AcquireExitListener(a)
      PROVE  ExitNoticed'
    <2>1. /\ \A b \in Addresses \ {a} : apc'[b] = apc[b]
          /\ apc'[a] = "recheck" /\ UNCHANGED <<inbox_count, todo>>
        BY <1>5, <1>a DEF AcquireExitListener, GoAwait, inboxVars
    <2>2. exit_event'.waiting \subseteq exit_event.waiting \cup {a}
        BY <1>5, <1>a, AddressThreads, ListenFacts DEF AcquireExitListener
    <2> QED BY <1>1, <2>1, <2>2 DEF StillToDo, Remaining
<1>6. ASSUME NEW a \in Addresses, PollExitListener(a)
      PROVE  ExitNoticed'
    <2>1. /\ \A b \in Addresses \ {a} : apc'[b] = apc[b]
          /\ apc[a] = "poll" /\ UNCHANGED <<inbox_count, todo>>
        BY <1>6, <1>a DEF PollExitListener, SeeExit, GoAwait, inboxVars
    <2>2. exit_event'.waiting \subseteq exit_event.waiting
        BY <1>6, <1>a, RemoveFacts DEF PollExitListener
    <2> QED BY <1>1, <2>1, <2>2 DEF StillToDo, Remaining
<1>7. ASSUME NEW a \in Addresses, DropExitListener(a)
      PROVE  ExitNoticed'
    <2>1. /\ a \in Thread /\ Pending(a, "drop_exit_listener") /\ Finish(a)
          /\ UNCHANGED <<inbox_count, apc>>
          /\ exit_event' \in DropListener(exit_event, a)
        BY <1>7, AddressThreads DEF DropExitListener, inboxVars, awaitVars
    <2>2. exit_event'.waiting \subseteq exit_event.waiting
        BY <1>a, <2>1, DropListenerFacts
    <2>3. Promised => Promised'
        BY <1>a, <2>1, FinishFacts
    <2> QED BY <1>1, <2>1, <2>2, <2>3
<1>8. ASSUME NEW a \in Addresses, DropAddress(a)
      PROVE  ExitNoticed'
    <2>1. /\ \A b \in Addresses \ {a} : apc'[b] = apc[b]
          /\ apc'[a] = "idle" /\ UNCHANGED <<inbox_count, exit_event>>
          /\ todo[a] = <<>> /\ a \in Thread
          /\ \E ops \in Seq(Op) : Continue(a, ops)
        BY <1>8, <1>a, AddressThreads, Threads
           DEF DropAddress, GoAwait, AddressesInv, inboxVars, eventVars
    <2>2. Promised => Promised'
        BY <1>a, <2>1, StartKeeps
    <2> QED BY <1>1, <2>1, <2>2
<1>9. ASSUME UNCHANGED <<channelVars, awaitVars>>
      PROVE  ExitNoticed'
    BY <1>1, <1>9
       DEF channelVars, eventVars, inboxVars, awaitVars, StillToDo, Remaining
<1>10. ASSUME AddressStep
       PROVE  ExitNoticed'
    BY <1>4, <1>5, <1>6, <1>7, <1>8, <1>9, <1>10
       DEF AddressStep, AwaitStep, GetAddressOf, GetAddress, CloneAddress
<1> QED BY <1>2, <1>3, <1>9, <1>10 DEF ActorNext, actorVars, addressOnly

\* Every step keeps what is taken for the exit from being early.
LEMMA ExitNotEarlyStep ==
    ASSUME ActorIInv, [ActorNext]_actorVars
    PROVE  ExitNotEarly'
<1>a. /\ ExitNotEarly /\ todo \in [Thread -> Seq(Op)]
      /\ exit_event \in EventType(Thread)
      /\ seen_exit \in [Addresses -> BOOLEAN]
    BY DEF ActorIInv, AddressTypeOK, ChannelTypeOK
<1> DEFINE Promised == StillToDo("exit_notify_all")
<1>1. ASSUME inbox_count = 0 => inbox_count' = 0,
             exit_event'.notified # {} => exit_event.notified # {} \/ inbox_count' = 0,
             Promised' => Promised \/ inbox_count' = 0,
             \A a \in Addresses : seen_exit'[a] => seen_exit[a] \/ inbox_count' = 0
      PROVE  ExitNotEarly'
    BY <1>1, <1>a DEF ExitNotEarly
<1>2. ASSUME NEW t \in Thread, CallStep(t), UNCHANGED addressOnly
      PROVE  ExitNotEarly'
    <2>1. inbox_count' = inbox_count /\ seen_exit' = seen_exit
        BY <1>2, CallStepInboxes DEF inboxVars, addressOnly, awaitVars
    <2>2. Promised' => Promised
        BY <1>2, <1>a, CallStepAdds
    <2>3. CASE ExitNotifyAll(t)
        <3>1. Promised
            BY <1>a, <2>3, ContainsTail DEF ExitNotifyAll, Pending, StillToDo, Remaining
        <3> QED BY <1>1, <1>a, <2>1, <2>2, <3>1 DEF ExitNotEarly
    <2>4. CASE ~ExitNotifyAll(t)
        <3>1. exit_event' = exit_event
            BY <1>2, <2>4
               DEF CallStep, RecvNotifyOne, RecvNotifyAll, SendNotifyOne, SendNotifyAll,
                   Close, HaltSomeMax, Drain, eventVars
        <3> QED BY <1>1, <2>1, <2>2, <3>1
    <2> QED BY <2>3, <2>4
<1>3. ASSUME ChildStep \/ AbortStep \/ Reap \/ \E p \in Process : TaskStep(p),
             UNCHANGED addressOnly
      PROVE  ExitNotEarly'
    <2>1. seen_exit' = seen_exit
        BY <1>3 DEF addressOnly, awaitVars
    <2> QED BY <1>1, <1>3, <2>1, SuperStepExit
<1>4. ASSUME AddressStep
      PROVE  ExitNotEarly'
    <2>1. inbox_count' = inbox_count
        BY <1>4, AddressStepFrame DEF inboxVars
    <2>2. Promised' => Promised
        <3>1. CASE UNCHANGED todo
            BY <3>1 DEF StillToDo, Remaining
        <3>2. ASSUME NEW a \in Addresses, NEW ops \in Seq(Op), Continue(a, ops),
                     \A op : Seqs!Contains(ops, op)
                                => op = "drop_exit_listener" \/ Remaining(a, op)
              PROVE  Promised' => Promised
            BY <1>a, <3>2, AddressThreads, ContinueFacts DEF StillToDo
        <3> QED BY <1>4, <3>1, <3>2, AddressStepFrame
    <2>3. exit_event'.notified # {} => exit_event.notified # {}
        <3>1. CASE UNCHANGED exit_event
            BY <3>1
        <3>2. ASSUME NEW a \in Addresses,
                     AcquireExitListener(a) \/ PollExitListener(a) \/ DropExitListener(a)
              PROVE  exit_event'.notified # {} => exit_event.notified # {}
            <4>1. CASE exit_event' = Listen(exit_event, a)
                <5>1. Listen(exit_event, a).notified = exit_event.notified
                    BY DEF Listen
                <5> QED BY <4>1, <5>1
            <4>2. CASE exit_event' = Remove(exit_event, a)
                BY <1>a, <4>2, RemoveFacts
            <4>3. CASE exit_event' \in DropListener(exit_event, a)
                BY <1>a, <4>3, DropListenerFacts
            <4> QED BY <3>1, <3>2, <4>1, <4>2, <4>3
                    DEF AcquireExitListener, PollExitListener, DropExitListener
        <3>3. ASSUME NEW a \in Addresses,
                     \/ CloneAddress(a) \/ PollAddress(a) \/ DropAddress(a)
                     \/ HasExited(a, "load", "listen") \/ HasExited(a, "recheck", "poll")
              PROVE  UNCHANGED exit_event
            BY <3>3
               DEF CloneAddress, PollAddress, DropAddress, HasExited, channelVars, eventVars
        <3>4. GetAddressOf => UNCHANGED exit_event
            BY DEF GetAddressOf, GetAddress, channelVars, eventVars
        <3> QED BY <1>4, <3>1, <3>2, <3>3, <3>4 DEF AddressStep, AwaitStep
    <2>4. \A b \in Addresses : seen_exit'[b] => seen_exit[b] \/ inbox_count' = 0
        <3>1. CASE UNCHANGED seen_exit
            BY <3>1
        <3>2. ASSUME NEW a \in Addresses, SeeExit(a), inbox_count = 0
              PROVE  \A b \in Addresses : seen_exit'[b] => seen_exit[b] \/ inbox_count' = 0
            BY <2>1, <3>2
        <3>3. ASSUME NEW a \in Addresses, AwaitStep(a)
              PROVE  UNCHANGED seen_exit \/ (SeeExit(a) /\ inbox_count = 0)
            <4>1. a \in exit_event.notified => inbox_count = 0
                BY <1>a DEF ExitNotEarly
            <4> QED BY <3>3, <4>1
                    DEF AwaitStep, HasExited, AcquireExitListener, PollExitListener,
                        DropExitListener, awaitVars
        <3>4. ASSUME NEW a \in Addresses, CloneAddress(a) \/ PollAddress(a) \/ DropAddress(a)
              PROVE  UNCHANGED seen_exit
            BY <3>4 DEF CloneAddress, PollAddress, DropAddress, awaitVars
        <3>5. GetAddressOf => UNCHANGED seen_exit
            BY DEF GetAddressOf, GetAddress, awaitVars
        <3> QED BY <1>4, <3>1, <3>2, <3>3, <3>4, <3>5 DEF AddressStep
    <2> QED BY <1>1, <2>1, <2>2, <2>3, <2>4
<1>5. CASE UNCHANGED actorVars
    BY <1>1, <1>5
       DEF actorVars, addressOnly, channelVars, eventVars, inboxVars, awaitVars, StillToDo,
           Remaining
<1> QED BY <1>2, <1>3, <1>4, <1>5 DEF ActorNext
-----------------------------------------------------------------------------
(***************************************************************************)
(* The theorems.                                                           *)
(***************************************************************************)
LEMMA ActorInit_ActorIInv == ActorInit => ActorIInv
<1> SUFFICES ASSUME ActorInit PROVE ActorIInv
    OBVIOUS
<1>1. SuperIInv /\ ChannelTypeOK
    BY SuperInit_SuperIInv DEF ActorInit, SuperIInv, SuperTypeOK
<1>2. /\ address_count \in Nat
      /\ address \in [Addresses -> {"none", "live", "dropped"}]
      /\ apc \in [Addresses -> AwaitPlaces] /\ seen_exit \in [Addresses -> BOOLEAN]
      /\ \A a \in Addresses : apc[a] = "idle"
    BY DEF ActorInit, AwaitPlaces
<1>3. \A a \in Addresses : todo[a] = <<>>
    BY AddressThreads DEF ActorInit, SuperInit, ChannelInit, ChannelNew
<1>4. IsFiniteSet(LiveAddresses) /\ address_count = Cardinality(LiveAddresses)
    <2>1. CASE kind = "task"
        <3>1. LiveAddresses = {}
            BY <2>1 DEF ActorInit, LiveAddresses
        <3> QED BY <2>1, <3>1, FS_EmptySet DEF ActorInit
    <2>2. CASE kind # "task"
        <3>1. LiveAddresses = {FirstAddress}
            BY <2>2, AddressAssumption DEF ActorInit, LiveAddresses
        <3> QED BY <2>2, <3>1, FS_Singleton DEF ActorInit
    <2> QED BY <2>1, <2>2
<1>5. ExitNoticed
    BY <1>2 DEF ExitNoticed
<1>6. ExitNotEarly
    <2>1. exit_event = NewEvent /\ \A u \in Thread : todo[u] = <<>>
        BY DEF ActorInit, SuperInit, ChannelInit, ChannelNew
    <2>2. ~StillToDo("exit_notify_all")
        BY <2>1, ContainsNone DEF StillToDo, Remaining
    <2> QED BY <2>1, <2>2 DEF ActorInit, ExitNotEarly, NewEvent
<1> QED BY <1>1, <1>2, <1>3, <1>4, <1>5, <1>6
        DEF ActorIInv, AddressTypeOK, AddressesInv, AddressCountExact

\* ActorIInv is inductive.
THEOREM ActorInductiveInvariant == ActorSpec => []ActorIInv
<1>1. ActorInit => ActorIInv
    BY ActorInit_ActorIInv
<1>2. ActorIInv /\ [ActorNext]_actorVars => ActorIInv'
    BY SuperIInvKept, AddressTypeStep, AddressesInvStep, ExitNoticedStep, ExitNotEarlyStep
       DEF ActorIInv
<1> QED BY <1>1, <1>2, PTL DEF ActorSpec

\* Every variable of the addresses has its type; address_count is never negative.
THEOREM AddressTypeCorrect == ActorSpec => []AddressTypeOK
<1>1. ActorIInv => AddressTypeOK
    BY DEF ActorIInv
<1> QED BY <1>1, ActorInductiveInvariant, PTL

\* address_count is the number of addresses that exist, also of an actor made of
\* tasks, whose first address is gone before it starts.
THEOREM AddressCounting == ActorSpec => []AddressCountExact
<1>1. ActorIInv => AddressCountExact
    BY DEF ActorIInv, AddressesInv
<1> QED BY <1>1, ActorInductiveInvariant, PTL

\* However the child is halted, aborted or dropped and its tasks end, no await of an
\* address sleeps through the exit.
THEOREM ExitReachesAddresses == ActorSpec => []ExitNotMissed
<1>1. ActorIInv => ExitNotMissed
    BY DEF ActorIInv, ExitNoticed, ExitNotMissed
<1> QED BY <1>1, ActorInductiveInvariant, PTL

\* Once every exit was reported, inbox_count is 0.
THEOREM ReportedExits == ActorSpec => []ReportedMeansExited
<1>1. ActorIInv => ReportedMeansExited
    <2> SUFFICES ASSUME ActorIInv,
                        \A p \in Process : task[p] # "none" => reports[p] # "None"
                 PROVE  inbox_count = 0
        BY DEF ReportedMeansExited
    <2>1. HandlesInv /\ InboxesHaveTasks
        BY DEF ActorIInv, SuperIInv
    <2>2. Live = {}
        BY <2>1 DEF Live, InboxesHaveTasks, HandlesInv, Finished
    <2> QED BY <2>1, <2>2, FS_EmptySet DEF InboxesHaveTasks
<1> QED BY <1>1, ActorInductiveInvariant, PTL

\* An await that returned is right for good.
THEOREM SeenExitTrue == ActorSpec => []SeenExitIsTrue
<1>1. ActorIInv => SeenExitIsTrue
    <2> SUFFICES ASSUME ActorIInv, \E a \in Addresses : seen_exit[a]
                 PROVE  Live = {}
        BY DEF SeenExitIsTrue
    <2>1. Cardinality(Live) = 0
        BY DEF ActorIInv, ExitNotEarly, SuperIInv, InboxesHaveTasks
    <2> QED BY <2>1, LiveFinite, FS_EmptySet
<1> QED BY <1>1, ActorInductiveInvariant, PTL

\* However its tasks end, the actor leaves nothing in a channel that it leaves closed.
THEOREM ActorCleanExit == ActorSpec => []ExitLeavesNothing
<1>1. ActorIInv => ExitLeavesNothing
    BY ExitInvClean DEF ActorIInv, SuperIInv
<1> QED BY <1>1, ActorInductiveInvariant, PTL
-----------------------------------------------------------------------------
(***************************************************************************)
(* The abstract specifications.                                            *)
(***************************************************************************)
\* A step of an address is that of a watcher who sees the exit, or changes nothing.
LEMMA WatcherStep ==
    ASSUME ActorIInv, AddressStep, UNCHANGED superOnly
    PROVE  [W!Next]_<<Started, Live, cancel, Outcomes, reports,
                      {a \in Addresses : seen_exit[a]}>>
<1>1. UNCHANGED <<Started, Live, cancel, Outcomes, reports>>
    <2>1. UNCHANGED <<inbox, task, cancel, reports>>
        BY AddressStepFrame DEF superOnly, inboxVars, childVars, handleVars, taskVars
    <2> QED BY <2>1 DEF Started, Live, Outcomes, Finished, ExitResult
<1>2. CASE UNCHANGED seen_exit
    BY <1>1, <1>2
<1>3. ASSUME NEW a \in Addresses, SeeExit(a)
      PROVE  W!See(a)
    <2>1. /\ seen_exit \in [Addresses -> BOOLEAN]
          /\ seen_exit' = [seen_exit EXCEPT ![a] = TRUE]
        BY <1>3 DEF SeeExit, ActorIInv, AddressTypeOK
    <2>2. {b \in Addresses : seen_exit[b]}' = {b \in Addresses : seen_exit[b]} \cup {a}
        BY <2>1
    <2>3. Live' = {}
        <3>1. ActorIInv' /\ seen_exit'[a]
            <4>1. [ActorNext]_actorVars
                BY DEF ActorNext
            <4> QED BY <2>1, <4>1, SuperIInvKept, AddressTypeStep, AddressesInvStep,
                       ExitNoticedStep, ExitNotEarlyStep
                    DEF ActorIInv
        <3>2. inbox_count' = 0 /\ inbox_count' = Cardinality(Live')
            BY <3>1 DEF ActorIInv, ExitNotEarly, SuperIInv, InboxesHaveTasks
        <3>3. Live' = Live
            BY <1>1
        <3> QED BY <3>2, <3>3, LiveFinite, FS_EmptySet
    <2> QED BY <1>1, <2>2, <2>3 DEF W!See
<1>4. ASSUME NEW a \in Addresses, AwaitStep(a)
      PROVE  UNCHANGED seen_exit \/ SeeExit(a)
    BY <1>4
       DEF AwaitStep, HasExited, AcquireExitListener, PollExitListener, DropExitListener,
           awaitVars
<1>5. ASSUME NEW a \in Addresses, CloneAddress(a) \/ PollAddress(a) \/ DropAddress(a)
      PROVE  UNCHANGED seen_exit
    BY <1>5 DEF CloneAddress, PollAddress, DropAddress, awaitVars
<1>6. GetAddressOf => UNCHANGED seen_exit
    BY DEF GetAddressOf, GetAddress, awaitVars
<1> QED BY <1>2, <1>3, <1>4, <1>5, <1>6 DEF AddressStep, W!Next

\* Every step of the actor is one of the life cycle, its watchers included.
LEMMA WatchedStep ==
    ASSUME ActorIInv, [ActorNext]_actorVars
    PROVE  [W!Next]_<<Started, Live, cancel, Outcomes, reports,
                      {a \in Addresses : seen_exit[a]}>>
<1>1. CASE AddressStep /\ UNCHANGED superOnly
    BY <1>1, WatcherStep
<1>2. CASE ~(AddressStep /\ UNCHANGED superOnly)
    <2>1. [L!Next]_<<Started, Live, cancel, Outcomes, reports, {}>>
        BY <1>2, ActorStepIsSuper, LifecycleStep DEF ActorIInv
    <2>2. UNCHANGED seen_exit
        BY <1>2 DEF ActorNext, actorVars, addressOnly, awaitVars
    <2> QED BY <2>1, <2>2
            DEF L!Next, L!Join, L!Leave, L!Tell, L!End, L!Condemn, L!See,
                W!Next, W!Join, W!Leave, W!Tell, W!End, W!Condemn
<1> QED BY <1>1, <1>2

\* A whole actor implements the life cycle as those who await its addresses see it.
THEOREM WatchedLifecycleImplemented == ActorSpec => ImplementsWatchedLifecycle
<1>1. ActorInit => W!Init
    <2> SUFFICES ASSUME ActorInit PROVE W!Init
        OBVIOUS
    <2>1. L!Init /\ {a \in Addresses : seen_exit[a]} = {}
        BY LifecycleInit DEF ActorInit
    <2> QED BY <2>1 DEF L!Init, W!Init
<1>2. ActorIInv /\ [ActorNext]_actorVars
          => [W!Next]_<<Started, Live, cancel, Outcomes, reports,
                        {a \in Addresses : seen_exit[a]}>>
    BY WatchedStep
<1> QED BY <1>1, <1>2, ActorInductiveInvariant, PTL
        DEF ActorSpec, ImplementsWatchedLifecycle, W!Spec, W!lifeVars

\* The addresses take no message and no halt from the processes and tasks.
LEMMA AddressesAside ==
    ASSUME ActorIInv, AddressStep, UNCHANGED superOnly
    PROVE  UNCHANGED <<queue, ~closed, Live, Permits, ReadyTasks>>
BY AddressStepFrame
   DEF superOnly, taskVars, queueVars, inboxVars, haltVars, Live, Permits, ReadyTasks

\* A whole actor implements a mailbox.
THEOREM ActorMailboxImplemented == ActorSpec => ImplementsMailbox
<1>1. ActorInit => M!Init
    <2> SUFFICES ASSUME ActorInit PROVE M!Init
        OBVIOUS
    <2> QED BY SuperMailboxInit DEF ActorInit
<1>2. ActorIInv /\ [ActorNext]_actorVars => [M!Next]_<<queue, ~closed, Live>>
    BY ActorStepIsSuper, SuperMailboxStep, AddressesAside DEF ActorIInv
<1> QED BY <1>1, <1>2, ActorInductiveInvariant, PTL
        DEF ActorSpec, ImplementsMailbox, M!Spec, M!mailboxVars

\* A whole actor implements a pool of halts.
THEOREM ActorHaltPoolImplemented == ActorSpec => ImplementsHaltPool
<1>1. ActorInit => H!Init
    BY DEF ActorInit, SuperInit, ChannelInit, ChannelNew, Permits, ReadyTasks, H!Init
<1>2. ActorIInv /\ [ActorNext]_actorVars => [H!Next]_<<Permits, ReadyTasks>>
    BY ActorStepIsSuper, SuperHaltPoolStep, AddressesAside DEF ActorIInv
<1> QED BY <1>1, <1>2, ActorInductiveInvariant, PTL
        DEF ActorSpec, ImplementsHaltPool, H!Spec
=============================================================================
