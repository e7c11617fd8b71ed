--------------------------- MODULE ReceivingProofs ---------------------------
(***************************************************************************)
(* IInv is an inductive invariant of Receiving, for any number of          *)
(* processes, callers and calls, any capacity and any I32Max, and with it  *)
(* the safety properties of the module.                                    *)
(*                                                                         *)
(* One lemma per conjunct of IInv shows that a step preserves it; each has *)
(* one case per action of Next.                                            *)
(***************************************************************************)
EXTENDS Receiving, ChannelProofs, FiniteSetTheorems

\* The sets whose sizes the invariants relate are finite.
LEMMA FiniteSets ==
    /\ IsFiniteSet(Process) /\ Cardinality(Process) \in Nat
    /\ IsFiniteSet(Live) /\ Cardinality(Live) \in Nat
    /\ IsFiniteSet(Halted) /\ Cardinality(Halted) \in Nat
    /\ IsFiniteSet(Deciding) /\ Cardinality(Deciding) \in Nat
    /\ Cardinality(Deciding) <= Cardinality(Process)
<1>1. IsFiniteSet(Process)
    BY ChannelAssumption
<1>2. Live \subseteq Process /\ Halted \subseteq Process /\ Deciding \subseteq Process
    BY DEF Live, Halted, Deciding
<1> QED BY <1>1, <1>2, FS_Subset, FS_CardinalityType

\* A process that is about to decrement halt_count finds it far above -I32Max.
LEMMA FetchSubInRange ==
    ASSUME IInv, NEW p \in Process, pc[p] = "sub"
    PROVE  halt_count \in 2 - I32Max .. I32Max /\ Decrement(halt_count) = halt_count - 1
<1>1. p \in Deciding
    BY DEF Deciding
<1>2. Cardinality(Deciding) >= 1
    BY <1>1, FiniteSets, FS_EmptySet
<1>3. /\ halt_count \in -I32Max .. I32Max /\ I32Max \in Nat \ {0}
      /\ halt_count - Cardinality(Deciding) >= 1 - Cardinality(Process)
      /\ Cardinality(Process) <= I32Max
    BY ChannelAssumption DEF IInv, TypeOK, ChannelTypeOK, HaltDebtBounded
<1>4. halt_count \in 2 - I32Max .. I32Max
    BY <1>2, <1>3, FiniteSets
<1>5. halt_count # -I32Max - 1
    BY <1>3, <1>4
<1> QED BY <1>4, <1>5 DEF Decrement

\* The end of a receive leaves at most its listener to drop.
LEMMA AfterReceiveFacts ==
    ASSUME NEW p
    PROVE  /\ AfterReceive(p) \in Seq(Op)
           /\ \A op : Seqs!Contains(AfterReceive(p), op)
                          <=> attempt[p] # 0 /\ op = "drop_recv_listener"
<1>1. "drop_recv_listener" \in Op
    BY DEF Op
<1> QED BY <1>1, ContainsOne, ContainsNone DEF AfterReceive

-----------------------------------------------------------------------------
(***************************************************************************)
(* The type invariant.                                                     *)
(***************************************************************************)
\* Every step leaves every thread with a sequence of operations.
LEMMA TodoType ==
    ASSUME IInv, [Next]_vars
    PROVE  todo' \in [Thread -> Seq(Op)]
<1> USE DEF IInv, TypeOK, ChannelTypeOK
<1>0. /\ Caller \subseteq Thread /\ Process \subseteq Thread
      /\ <<>> \in Seq(Op)
    BY ChannelAssumption
<1>1. ASSUME NEW t \in Thread, CallStep(t)
      PROVE  todo' \in [Thread -> Seq(Op)]
    BY <1>1, CallStepTypes
<1>2. ASSUME NEW c \in Caller, CallerStep(c)
      PROVE  todo' \in [Thread -> Seq(Op)]
    BY <1>2, CallerStepTypes
<1>3. ASSUME NEW p \in Process, ReceiveStep(p)
      PROVE  todo' \in [Thread -> Seq(Op)]
    <2>1. CASE LoadHaltCount(p) \/ PopEmpty(p) \/ AcquireListener(p) \/ ListenerReady(p)
        BY <2>1 DEF LoadHaltCount, PopEmpty, AcquireListener, ListenerReady, channelVars
    <2>2. CASE SubHaltCount(p) \/ PopClosed(p)
        BY <1>0, <2>2, AfterReceiveFacts, ContinueFacts DEF SubHaltCount, PopClosed
    <2>3. CASE PopOk(p)
        <3>1. <<"send_notify_one", "recv_notify_one">> \o AfterReceive(p) \in Seq(Op)
            BY AfterReceiveFacts, ContainsCons2 DEF Op
        <3> QED BY <1>0, <2>3, <3>1, ContinueFacts DEF PopOk, pop_msg
    <2>4. CASE ListenerPending(p)
        <3>1. <<"drop_recv_listener">> \in Seq(Op)
            BY DEF Op
        <3> QED BY <1>0, <2>4, <3>1, ContinueFacts DEF ListenerPending
    <2>5. CASE DropRecvListener(p)
        BY <1>0, <2>5, FinishFacts DEF DropRecvListener
    <2> QED BY <1>3, <2>1, <2>2, <2>3, <2>4, <2>5 DEF ReceiveStep
<1>4. ASSUME NEW p \in Process, UserStep(p)
      PROVE  todo' \in [Thread -> Seq(Op)]
    <2>1. CASE TryRecv(p) \/ Recv(p) \/ Poll(p)
        BY <2>1 DEF TryRecv, Recv, Poll, channelVars
    <2>2. CASE Cancel(p)
        <3>1. <<"drop_recv_listener">> \in Seq(Op)
            BY DEF Op
        <3> QED BY <1>0, <2>2, <3>1, ContinueFacts DEF Cancel
    <2>3. CASE DropInbox(p)
        <3>1. <<"close", "exit_notify_all", "drain">> \in Seq(Op)
            BY DEF Op
        <3> QED BY <1>0, <2>3, <3>1, ContinueFacts DEF DropInbox, remove_inbox
    <2> QED BY <1>4, <2>1, <2>2, <2>3 DEF UserStep
<1>5. CASE UNCHANGED vars
    BY <1>5 DEF vars, channelVars
<1> QED BY <1>1, <1>2, <1>3, <1>4, <1>5 DEF Next

\* A live inbox counts.
LEMMA LiveCounted ==
    ASSUME IInv, NEW p \in Process, inbox[p] = "live"
    PROVE  inbox_count >= 1 /\ inbox_count - 1 \in Nat
<1>1. Live # {} /\ inbox_count \in Nat /\ inbox_count = Cardinality(Live)
    BY DEF Live, IInv, InboxCountExact, TypeOK, ChannelTypeOK
<1> QED BY <1>1, FiniteSets, FS_EmptySet

\* Every step preserves the types.
LEMMA TypeOKStep ==
    ASSUME IInv, [Next]_vars
    PROVE  TypeOK'
<1>0. /\ Caller \subseteq Thread /\ Process \subseteq Thread
      /\ MaxCalls \in Nat /\ I32Max \in Nat \ {0} /\ HaltSizes \subseteq Nat
      /\ I32Max \in HaltSizes \cup {I32Max}
    BY ChannelAssumption
<1> USE DEF TypeOK, ChannelTypeOK
<1>t. TypeOK /\ todo' \in [Thread -> Seq(Op)]
    BY TodoType DEF IInv
<1>1. ASSUME NEW t \in Thread, CallStep(t), UNCHANGED procVars
      PROVE  TypeOK'
    BY <1>1, <1>t, CallStepTypes DEF procVars
<1>2. ASSUME NEW c \in Caller, CallerStep(c), UNCHANGED procVars
      PROVE  TypeOK'
    BY <1>2, <1>t, CallerStepTypes DEF procVars
<1> USE DEF Places, Results, Go, Try, Return
<1>3. ASSUME NEW p \in Process, ReceiveStep(p)
      PROVE  TypeOK'
    <2>1. CASE LoadHaltCount(p)
        BY <1>t, <2>1 DEF LoadHaltCount, channelVars, queueVars, inboxVars, haltVars, eventVars
    <2>2. CASE SubHaltCount(p)
        <3>1. halt_count' \in -I32Max .. I32Max
            BY <1>0, <2>2, FetchSubInRange DEF SubHaltCount
        <3>2. CASE Return(p, "Halted") /\ signaled_halt' = [signaled_halt EXCEPT ![p] = TRUE]
            BY <1>t, <2>2, <3>1, <3>2
               DEF SubHaltCount, queueVars, inboxVars, eventVars
        <3>3. CASE Go(p, "pop") /\ UNCHANGED <<attempt, signaled_halt, result>>
            BY <1>t, <2>2, <3>1, <3>3
               DEF SubHaltCount, queueVars, inboxVars, eventVars
        <3> QED BY <2>2, <3>2, <3>3 DEF SubHaltCount
    <2>3. CASE PopOk(p)
        <3>1. queue' \in Seq(Thread)
            BY <1>t, <2>3, HeadTailProperties DEF PopOk, pop_msg
        <3> QED BY <1>t, <2>3, <3>1 DEF PopOk, inboxVars, haltVars, eventVars
    <2>4. CASE PopClosed(p)
        BY <1>t, <2>4 DEF PopClosed, queueVars, inboxVars, haltVars, eventVars
    <2>5. CASE PopEmpty(p)
        <3>1. /\ pc' \in [Process -> Places]
              /\ attempt' \in [Process -> 0 .. 3]
              /\ result' \in [Process -> Results]
            <4>1. CASE attempt[p] = 0 /\ Return(p, "Empty")
                BY <1>t, <4>1
            <4>2. CASE UNCHANGED <<attempt, result>> /\ (Go(p, "listen") \/ Go(p, "poll"))
                BY <1>t, <4>2
            <4> QED BY <2>5, <4>1, <4>2 DEF PopEmpty
        <3> QED BY <1>t, <2>5, <3>1
                DEF PopEmpty, channelVars, queueVars, inboxVars, haltVars, eventVars
    <2>6. CASE AcquireListener(p)
        BY <1>0, <1>t, <2>6, ListenFacts
           DEF AcquireListener, queueVars, inboxVars, haltVars
    <2>7. CASE ListenerReady(p)
        BY <1>t, <2>7, RemoveFacts DEF ListenerReady, queueVars, inboxVars, haltVars
    <2>8. CASE ListenerPending(p)
        BY <1>t, <2>8 DEF ListenerPending, queueVars, inboxVars, haltVars, eventVars
    <2>9. CASE DropRecvListener(p)
        BY <1>t, <2>9, DropListenerFacts
           DEF DropRecvListener, queueVars, inboxVars, haltVars, procVars
    <2> QED BY <1>3, <2>1, <2>2, <2>3, <2>4, <2>5, <2>6, <2>7, <2>8, <2>9 DEF ReceiveStep
<1>4. ASSUME NEW p \in Process, UserStep(p)
      PROVE  TypeOK'
    <2>1. CASE TryRecv(p) \/ Recv(p) \/ Poll(p)
        <3>1. /\ result' = result \/ result' = [result EXCEPT ![p] = "None"]
              /\ Try(p, 0) \/ Try(p, 1)
            BY <2>1 DEF TryRecv, Recv, Poll
        <3>2. pc' \in [Process -> Places] /\ attempt' \in [Process -> 0 .. 3]
            <4>1. ASSUME NEW k \in 0 .. 3, Try(p, k)
                  PROVE  pc' \in [Process -> Places] /\ attempt' \in [Process -> 0 .. 3]
                BY <1>t, <4>1
            <4> QED BY <3>1, <4>1
        <3>3. result' \in [Process -> Results]
            BY <1>t, <3>1
        <3> QED BY <1>t, <2>1, <3>2, <3>3
                DEF TryRecv, Recv, Poll, channelVars, queueVars, inboxVars, haltVars, eventVars
    <2>2. CASE Cancel(p)
        BY <1>t, <2>2 DEF Cancel, queueVars, inboxVars, haltVars, eventVars
    <2>3. CASE DropInbox(p)
        BY <1>t, <2>3, LiveCounted
           DEF DropInbox, Idle, remove_inbox, queueVars, haltVars, eventVars, procVars
    <2> QED BY <1>4, <2>1, <2>2, <2>3 DEF UserStep
<1>5. CASE UNCHANGED vars
    BY <1>t, <1>5
       DEF vars, channelVars, queueVars, inboxVars, haltVars, eventVars, procVars
<1> QED BY <1>1, <1>2, <1>3, <1>4, <1>5 DEF Next
-----------------------------------------------------------------------------
(***************************************************************************)
(* What a step leaves alone.                                               *)
(***************************************************************************)
\* A step of a call in progress: it touches the receivers only by notifying
\* them, and the rest of no other call.
LEMMA CallStepFrame ==
    ASSUME IInv, NEW t \in Thread, CallStep(t)
    PROVE  /\ UNCHANGED inboxVars
           /\ Listeners(recv_event)' = Listeners(recv_event)
           /\ recv_event'.waiting \subseteq recv_event.waiting
           /\ todo[t] # <<>>
           /\ \A u \in Thread \ {t} : todo'[u] = todo[u]
           /\ Remaining(t, "drop_recv_listener") => Remaining(t, "drop_recv_listener")'
<1> USE DEF IInv, TypeOK, ChannelTypeOK
<1>a. /\ "recv_notify_all" \in Op /\ "send_notify_all" \in Op
      /\ "recv_notify_one" \in Op /\ "send_notify_one" \in Op
    BY DEF Op
<1>0. todo[t] # <<>> /\ \A u \in Thread \ {t} : todo'[u] = todo[u]
    BY DEF CallStep, RecvNotifyOne, RecvNotifyAll, SendNotifyOne, SendNotifyAll,
           ExitNotifyAll, Close, HaltSomeMax, Drain, Pending, Finish, Continue,
           close, halt_some, pop_msg
<1>1. CASE RecvNotifyOne(t) \/ RecvNotifyAll(t)
    BY <1>0, <1>1, NotifyOneFacts, NotifyAllFacts, FinishFacts
       DEF RecvNotifyOne, RecvNotifyAll
<1>2. CASE SendNotifyOne(t) \/ SendNotifyAll(t) \/ ExitNotifyAll(t)
    BY <1>0, <1>2, FinishFacts DEF SendNotifyOne, SendNotifyAll, ExitNotifyAll
<1>3. CASE Close(t)
    <2>1. /\ Tail(todo[t]) \in Seq(Op) /\ todo[t] # <<>>
          /\ Remaining(t, "drop_recv_listener")
                 => Seqs!Contains(Tail(todo[t]), "drop_recv_listener")
        BY <1>3, ContainsTail DEF Close, Pending, Remaining
    <2>2. /\ <<"recv_notify_all", "send_notify_all">> \o Tail(todo[t]) \in Seq(Op)
          /\ Seqs!Contains(Tail(todo[t]), "drop_recv_listener")
                 => Seqs!Contains(<<"recv_notify_all", "send_notify_all">>
                                      \o Tail(todo[t]), "drop_recv_listener")
        BY <1>a, <2>1, ContainsCons2
    <2>3. Remaining(t, "drop_recv_listener") => Remaining(t, "drop_recv_listener")'
        BY <1>3, <2>1, <2>2, ContinueFacts DEF Close, close
    <2> QED BY <1>0, <1>3, <2>3 DEF Close, eventVars
<1>4. CASE HaltSomeMax(t)
    <2>1. /\ Tail(todo[t]) \in Seq(Op) /\ todo[t] # <<>>
          /\ Remaining(t, "drop_recv_listener")
                 => Seqs!Contains(Tail(todo[t]), "drop_recv_listener")
        BY <1>4, ContainsTail DEF HaltSomeMax, Pending, Remaining
    <2>2. /\ <<"recv_notify_all">> \o Tail(todo[t]) \in Seq(Op)
          /\ Seqs!Contains(Tail(todo[t]), "drop_recv_listener")
                 => Seqs!Contains(<<"recv_notify_all">> \o Tail(todo[t]),
                                  "drop_recv_listener")
        BY <1>a, <2>1, ContainsCons
    <2>3. Remaining(t, "drop_recv_listener") => Remaining(t, "drop_recv_listener")'
        BY <1>4, <2>1, <2>2, ContinueFacts DEF HaltSomeMax, halt_some
    <2> QED BY <1>0, <1>4, <2>3 DEF HaltSomeMax, eventVars
<1>5. CASE Drain(t)
    <2>1. /\ <<"send_notify_one", "recv_notify_one">> \o todo[t] \in Seq(Op)
          /\ Seqs!Contains(todo[t], "drop_recv_listener")
                 => Seqs!Contains(<<"send_notify_one", "recv_notify_one">> \o todo[t],
                                  "drop_recv_listener")
        BY <1>a, ContainsCons2
    <2>2. CASE pop_msg(t, todo[t])
        BY <1>0, <1>5, <2>1, <2>2, ContinueFacts
           DEF Drain, pop_msg, Remaining, eventVars
    <2>3. CASE Finish(t)
        BY <1>0, <1>5, <2>3, FinishFacts DEF Drain, eventVars
    <2> QED BY <1>5, <2>2, <2>3 DEF Drain
<1> QED BY <1>1, <1>2, <1>3, <1>4, <1>5 DEF CallStep

\* A process leaves the receives of the others alone.
LEMMA ProcessStepFrame ==
    ASSUME IInv, NEW p \in Process, ReceiveStep(p) \/ UserStep(p),
           NEW q \in Process \ {p}
    PROVE  /\ pc'[q] = pc[q] /\ attempt'[q] = attempt[q]
           /\ signaled_halt'[q] = signaled_halt[q]
           /\ inbox'[q] = inbox[q] /\ todo'[q] = todo[q]
           /\ q \in Listeners(recv_event)' <=> q \in Listeners(recv_event)
           /\ q \in recv_event'.waiting => q \in recv_event.waiting
<1> USE DEF IInv, TypeOK, ChannelTypeOK
<1>0. p \in Thread /\ q \in Thread
    BY ChannelAssumption
<1> USE DEF Go, Try, Return, Continue
<1>1. /\ pc'[q] = pc[q] /\ attempt'[q] = attempt[q]
      /\ signaled_halt'[q] = signaled_halt[q]
    BY DEF ReceiveStep, UserStep, LoadHaltCount, SubHaltCount, PopOk, PopClosed, PopEmpty,
           AcquireListener, ListenerReady, ListenerPending, DropRecvListener, TryRecv,
           Recv, Poll, Cancel, DropInbox, procVars
<1>2. inbox'[q] = inbox[q] /\ todo'[q] = todo[q]
    BY <1>0 DEF ReceiveStep, UserStep, LoadHaltCount, SubHaltCount, PopOk, PopClosed,
           PopEmpty, AcquireListener, ListenerReady, ListenerPending, DropRecvListener,
           TryRecv, Recv, Poll, Cancel, DropInbox, Finish, pop_msg, remove_inbox,
           channelVars, inboxVars
<1>3. /\ q \in Listeners(recv_event)' <=> q \in Listeners(recv_event)
      /\ q \in recv_event'.waiting => q \in recv_event.waiting
    <2>1. CASE AcquireListener(p)
        BY <1>0, <2>1, ListenFacts DEF AcquireListener
    <2>2. CASE ListenerReady(p)
        BY <2>2, RemoveFacts DEF ListenerReady
    <2>3. CASE DropRecvListener(p)
        BY <2>3, DropListenerFacts DEF DropRecvListener
    <2>4. CASE UNCHANGED recv_event
        BY <2>4
    <2> QED BY <2>1, <2>2, <2>3, <2>4
            DEF ReceiveStep, UserStep, LoadHaltCount, SubHaltCount, PopOk, PopClosed,
                PopEmpty, ListenerPending, TryRecv, Recv, Poll, Cancel, DropInbox,
                channelVars, eventVars
<1> QED BY <1>1, <1>2, <1>3
-----------------------------------------------------------------------------
(***************************************************************************)
(* Receives in progress, and their listeners.                              *)
(***************************************************************************)
\* Every step preserves what the place of a receive says about its inbox.
LEMMA ReceiveInvStep ==
    ASSUME IInv, [Next]_vars
    PROVE  ReceiveInv'
<1> USE DEF IInv, TypeOK, ChannelTypeOK, ReceiveInv
<1>0. Process \subseteq Thread
    BY ChannelAssumption
<1>1. ASSUME NEW t \in Thread, CallStep(t), UNCHANGED procVars
      PROVE  ReceiveInv'
    BY <1>0, <1>1, CallStepFrame DEF procVars, inboxVars
<1>2. ASSUME NEW c \in Caller, CallerStep(c), UNCHANGED procVars
      PROVE  ReceiveInv'
    BY <1>0, <1>2, CallerStepOthers DEF procVars
<1>3. ASSUME NEW p \in Process, ReceiveStep(p) \/ UserStep(p)
      PROVE  ReceiveInv'
    <2> DEFINE Mine == /\ pc[p] \notin {"running", "parked"} => todo[p] = <<>>
                       /\ pc[p] # "running" => inbox[p] = "live"
                       /\ pc[p] \in {"load", "sub"} => ~signaled_halt[p]
                       /\ pc[p] = "listen" => attempt[p] \in {1, 3}
                       /\ pc[p] \in {"poll", "parked"} => attempt[p] = 2
                       /\ pc[p] # "running" /\ attempt[p] = 0
                              => p \notin Listeners(recv_event)
    <2> SUFFICES Mine'
        BY <1>3, ProcessStepFrame
    <2>0. Mine /\ (pc[p] = "running" /\ todo[p] = <<>> => p \notin Listeners(recv_event))
        BY <1>0, ContainsNone DEF ListenersInUse, Remaining
    <2>1. CASE LoadHaltCount(p)
        BY <2>0, <2>1 DEF LoadHaltCount, Go, channelVars, inboxVars, eventVars
    <2>2. CASE SubHaltCount(p)
        BY <2>0, <2>2 DEF SubHaltCount, Return, Go, inboxVars, eventVars
    <2>3. CASE PopOk(p) \/ PopClosed(p)
        BY <2>3 DEF PopOk, PopClosed, Return, Go
    <2>4. CASE PopEmpty(p)
        BY <2>0, <2>4 DEF PopEmpty, Return, Go, channelVars, inboxVars, eventVars
    <2>5. CASE AcquireListener(p)
        BY <2>0, <2>5 DEF AcquireListener, Try, Go, inboxVars
    <2>6. CASE ListenerReady(p)
        BY <2>0, <2>6 DEF ListenerReady, Try, Go, inboxVars
    <2>7. CASE ListenerPending(p)
        BY <2>0, <2>7 DEF ListenerPending, Go, inboxVars
    <2>8. CASE DropRecvListener(p)
        BY <2>0, <2>8, DropListenerFacts
           DEF DropRecvListener, Pending, procVars, inboxVars
    <2>9. CASE TryRecv(p)
        BY <2>0, <2>9 DEF TryRecv, Idle, Try, Go, channelVars, inboxVars, eventVars
    <2>10. CASE Recv(p)
        BY <2>10 DEF Recv, Idle, Try, Go, channelVars, inboxVars, eventVars
    <2>11. CASE Poll(p)
        BY <2>0, <2>11 DEF Poll, Try, Go, channelVars, inboxVars, eventVars
    <2>12. CASE Cancel(p)
        BY <2>12 DEF Cancel, Go
    <2>13. CASE DropInbox(p)
        BY <2>13 DEF DropInbox, Idle, procVars
    <2> QED
        BY <1>3, <2>1, <2>2, <2>3, <2>4, <2>5, <2>6, <2>7, <2>8, <2>9, <2>10, <2>11, <2>12,
           <2>13 DEF ReceiveStep, UserStep
<1>4. CASE UNCHANGED vars
    BY <1>4 DEF vars, channelVars, procVars, inboxVars, eventVars
<1> QED BY <1>1, <1>2, <1>3, <1>4 DEF Next

\* Every step preserves that a listener belongs to a receive.
LEMMA ListenersInUseStep ==
    ASSUME IInv, [Next]_vars
    PROVE  ListenersInUse'
<1> USE DEF IInv, TypeOK, ChannelTypeOK, ListenersInUse
<1>0. Process \subseteq Thread
    BY ChannelAssumption
<1>1. ASSUME NEW t \in Thread, CallStep(t), UNCHANGED procVars
      PROVE  ListenersInUse'
    BY <1>0, <1>1, CallStepFrame DEF procVars, Remaining
<1>2. ASSUME NEW c \in Caller, CallerStep(c), UNCHANGED procVars
      PROVE  ListenersInUse'
    BY <1>0, <1>2, CallerStepOthers DEF procVars, Remaining
<1>3. ASSUME NEW p \in Process, ReceiveStep(p) \/ UserStep(p)
      PROVE  ListenersInUse'
    <2> DEFINE Mine == p \in Listeners(recv_event) /\ pc[p] = "running"
                           => Remaining(p, "drop_recv_listener")
    <2> SUFFICES Mine'
        BY <1>3, ProcessStepFrame DEF Remaining
    <2>0. Mine /\ (attempt[p] = 0 /\ pc[p] # "running" => p \notin Listeners(recv_event))
        BY DEF ReceiveInv
    <2>1. CASE SubHaltCount(p) \/ PopOk(p) \/ PopClosed(p)
        <3>1. pc[p] # "running" /\ UNCHANGED recv_event
            BY <2>1 DEF SubHaltCount, PopOk, PopClosed, eventVars
        <3>2. CASE SubHaltCount(p) /\ halt_count <= 0
            BY <3>2 DEF SubHaltCount, Go
        <3>3. CASE Continue(p, AfterReceive(p))
            BY <1>0, <2>0, <3>1, <3>3, AfterReceiveFacts, ContinueFacts
        <3>4. CASE pop_msg(p, AfterReceive(p))
            <4>1. "send_notify_one" \in Op /\ "recv_notify_one" \in Op
                BY DEF Op
            <4>2. /\ <<"send_notify_one", "recv_notify_one">> \o AfterReceive(p) \in Seq(Op)
                  /\ attempt[p] # 0
                         => Seqs!Contains(<<"send_notify_one", "recv_notify_one">>
                                              \o AfterReceive(p), "drop_recv_listener")
                BY <4>1, AfterReceiveFacts, ContainsCons2
            <4> QED BY <1>0, <2>0, <3>1, <3>4, <4>2, ContinueFacts DEF pop_msg
        <3> QED BY <2>1, <3>2, <3>3, <3>4 DEF SubHaltCount, PopOk, PopClosed
    <2>2. CASE PopEmpty(p)
        BY <2>0, <2>2 DEF PopEmpty, Return, Go, channelVars, eventVars
    <2>3. CASE LoadHaltCount(p) \/ AcquireListener(p) \/ ListenerReady(p)
               \/ ListenerPending(p) \/ TryRecv(p) \/ Recv(p) \/ Poll(p)
        BY <2>3 DEF LoadHaltCount, AcquireListener, ListenerReady, ListenerPending, TryRecv,
                    Recv, Poll, Try, Go
    <2>4. CASE DropRecvListener(p)
        BY <2>4, DropListenerFacts DEF DropRecvListener
    <2>5. CASE Cancel(p)
        <3>1. /\ <<"drop_recv_listener">> \in Seq(Op)
              /\ Seqs!Contains(<<"drop_recv_listener">>, "drop_recv_listener")
            BY ContainsOne DEF Op
        <3> QED BY <1>0, <2>5, <3>1, ContinueFacts DEF Cancel
    <2>6. CASE DropInbox(p)
        BY <2>0, <2>6, ContainsNone DEF DropInbox, Idle, Remaining, procVars, eventVars
    <2> QED
        BY <1>3, <2>1, <2>2, <2>3, <2>4, <2>5, <2>6 DEF ReceiveStep, UserStep
<1>4. CASE UNCHANGED vars
    BY <1>4 DEF vars, channelVars, procVars, eventVars, Remaining
<1> QED BY <1>1, <1>2, <1>3, <1>4 DEF Next
-----------------------------------------------------------------------------
(***************************************************************************)
(* The number of inboxes.                                                  *)
(***************************************************************************)
\* Every step keeps inbox_count equal to the number of inboxes.
LEMMA InboxCountStep ==
    ASSUME IInv, [Next]_vars
    PROVE  InboxCountExact'
<1> USE DEF IInv, TypeOK, ChannelTypeOK, InboxCountExact
<1>1. CASE UNCHANGED inboxVars
    BY <1>1 DEF inboxVars, Live
<1>2. ASSUME NEW p \in Process, inbox[p] = "none", try_add_inbox(p)
      PROVE  InboxCountExact'
    <2>1. Live' = Live \cup {p} /\ p \notin Live
        BY <1>2 DEF try_add_inbox, Live
    <2>2. Cardinality(Live') = Cardinality(Live) + 1
        BY <2>1, FiniteSets, FS_AddElement
    <2> QED BY <1>2, <2>2 DEF try_add_inbox
<1>3. ASSUME NEW p \in Process, inbox[p] = "live", remove_inbox(p)
      PROVE  InboxCountExact'
    <2>1. Live' = Live \ {p} /\ p \in Live
        BY <1>3 DEF remove_inbox, Live
    <2>2. Cardinality(Live') = Cardinality(Live) - 1
        BY <2>1, FiniteSets, FS_RemoveElement
    <2> QED BY <1>3, <2>2 DEF remove_inbox
<1>4. ASSUME NEW t \in Thread, CallStep(t)
      PROVE  UNCHANGED inboxVars
    BY <1>4, CallStepFrame
<1>5. ASSUME NEW c \in Caller, CallerStep(c), ~CallSpawn(c)
      PROVE  UNCHANGED inboxVars
    BY <1>5 DEF CallerStep, CallSendNow, CallClose, CallHaltSome, CallHalt
<1>6. ASSUME NEW p \in Process, ReceiveStep(p) \/ UserStep(p), ~DropInbox(p)
      PROVE  UNCHANGED inboxVars
    BY <1>6
       DEF ReceiveStep, UserStep, LoadHaltCount, SubHaltCount, PopOk, PopClosed, PopEmpty,
           AcquireListener, ListenerReady, ListenerPending, DropRecvListener, TryRecv,
           Recv, Poll, Cancel, channelVars
<1>7. UNCHANGED vars => UNCHANGED inboxVars
    BY DEF vars, channelVars
<1> QED BY <1>1, <1>2, <1>3, <1>4, <1>5, <1>6, <1>7 DEF Next, CallSpawn, DropInbox, Idle
-----------------------------------------------------------------------------
(***************************************************************************)
(* Halting.                                                                *)
(***************************************************************************)
\* The state that the halt counter is about changes in three ways: halts are
\* requested, a process reads a positive counter, and a process decrements it.
LEMMA HaltSteps ==
    ASSUME IInv, [Next]_vars
    PROVE  \/ UNCHANGED <<haltVars, Halted, Deciding>>
           \/ /\ UNCHANGED <<Halted, Deciding>>
              /\ \E t \in Thread, k \in Nat, rest \in Seq(Op) : halt_some(t, k, rest)
           \/ \E p \in Process : LoadHaltCount(p) /\ halt_count > 0
           \/ \E p \in Process : SubHaltCount(p)
<1> USE DEF IInv, TypeOK, ChannelTypeOK
<1>0. Caller \subseteq Thread /\ I32Max \in Nat /\ HaltSizes \subseteq Nat
    BY ChannelAssumption
<1>1. ASSUME NEW t \in Thread, CallStep(t), UNCHANGED procVars
      PROVE  \/ UNCHANGED <<haltVars, Halted, Deciding>>
             \/ /\ UNCHANGED <<Halted, Deciding>>
                /\ \E k \in Nat, rest \in Seq(Op) : halt_some(t, k, rest)
    <2>1. UNCHANGED <<Halted, Deciding>>
        BY <1>1 DEF procVars, Halted, Deciding
    <2>2. CASE HaltSomeMax(t)
        <3>1. Tail(todo[t]) \in Seq(Op)
            BY <2>2, ContainsTail DEF HaltSomeMax, Pending
        <3> QED BY <1>0, <2>1, <2>2, <3>1 DEF HaltSomeMax
    <2>3. CASE ~HaltSomeMax(t)
        BY <1>1, <2>1, <2>3
           DEF CallStep, RecvNotifyOne, RecvNotifyAll, SendNotifyOne, SendNotifyAll,
               ExitNotifyAll, Close, Drain
    <2> QED BY <2>2, <2>3
<1>2. ASSUME NEW c \in Caller, CallerStep(c), UNCHANGED procVars
      PROVE  \/ UNCHANGED <<haltVars, Halted, Deciding>>
             \/ /\ UNCHANGED <<Halted, Deciding>>
                /\ \E k \in Nat, rest \in Seq(Op) : halt_some(c, k, rest)
    <2>1. UNCHANGED <<Halted, Deciding>>
        BY <1>2 DEF procVars, Halted, Deciding
    <2>2. CASE CallHaltSome(c)
        BY <1>0, <2>1, <2>2, EmptySeq DEF CallHaltSome
    <2>3. CASE ~CallHaltSome(c)
        BY <1>2, <2>1, <2>3 DEF CallerStep, CallSendNow, CallClose, CallHalt, CallSpawn
    <2> QED BY <2>2, <2>3
<1>3. ASSUME NEW p \in Process, ReceiveStep(p) \/ UserStep(p),
             ~SubHaltCount(p), ~(LoadHaltCount(p) /\ halt_count > 0)
      PROVE  UNCHANGED <<haltVars, Halted, Deciding>>
    <2>1. UNCHANGED haltVars
        BY <1>3
           DEF ReceiveStep, UserStep, LoadHaltCount, PopOk, PopClosed, PopEmpty,
               AcquireListener, ListenerReady, ListenerPending, DropRecvListener, TryRecv,
               Recv, Poll, Cancel, DropInbox, channelVars
    <2>2. signaled_halt' = signaled_halt
        BY <1>3
           DEF ReceiveStep, UserStep, LoadHaltCount, PopOk, PopClosed, PopEmpty,
               AcquireListener, ListenerReady, ListenerPending, DropRecvListener, TryRecv,
               Recv, Poll, Cancel, DropInbox, procVars
    <2>3. pc[p] # "sub" /\ pc'[p] # "sub"
        BY <1>3
           DEF ReceiveStep, UserStep, LoadHaltCount, PopOk, PopClosed, PopEmpty,
               AcquireListener, ListenerReady, ListenerPending, DropRecvListener, TryRecv,
               Recv, Poll, Cancel, DropInbox, procVars, Idle, Try, Return, Go, ReceiveInv,
               Pending
    <2>4. \A q \in Process \ {p} : pc'[q] = pc[q]
        BY <1>3, ProcessStepFrame
    <2> QED BY <2>1, <2>2, <2>3, <2>4 DEF Halted, Deciding
<1>4. CASE UNCHANGED vars
    BY <1>4 DEF vars, channelVars, procVars, Halted, Deciding
<1> QED BY <1>0, <1>1, <1>2, <1>3, <1>4 DEF Next

\* A counter that grows by at most k, and by k where it does not saturate, stays
\* with h what was granted.
LEMMA SaturatingAddition ==
    ASSUME NEW h \in Nat, NEW have \in Nat, NEW next \in Int, NEW k \in Nat,
           NEW given \in Nat, NEW max \in Nat,
           h + have <= given, given <= max => h + have = given,
           next <= have + k, have + k <= max => next = have + k
    PROVE  /\ h + next <= given + k
           /\ given + k <= max => h + next = given + k
<1>1. given + k <= max => given <= max /\ have + k <= max
    OBVIOUS
<1> QED BY <1>1

\* What each of them does to the counter, its history and the two sets.
LEMMA HaltInvariantsStep ==
    ASSUME IInv, [Next]_vars
    PROVE  HaltDebtBounded' /\ HaltsConserved'
<1> DEFINE h == Cardinality(Halted)
           d == Cardinality(Deciding)
           n == Cardinality(Process)
<1>0. /\ h \in Nat /\ d \in Nat /\ n \in Nat /\ d <= n
      /\ I32Max \in Nat /\ granted \in Nat /\ halt_count \in -I32Max .. I32Max
      /\ halt_count - d >= 1 - n
      /\ h + Permits <= granted
      /\ granted <= I32Max => h + Permits = granted
    BY FiniteSets, ChannelAssumption
       DEF IInv, TypeOK, ChannelTypeOK, HaltDebtBounded, HaltsConserved
<1>1. CASE UNCHANGED <<haltVars, Halted, Deciding>>
    BY <1>0, <1>1 DEF HaltDebtBounded, HaltsConserved, haltVars, Permits
<1>2. ASSUME UNCHANGED <<Halted, Deciding>>,
             NEW t \in Thread, NEW k \in Nat, NEW rest \in Seq(Op), halt_some(t, k, rest)
      PROVE  HaltDebtBounded' /\ HaltsConserved'
    <2>1. /\ halt_count' = halted_count(ToI32(k)) /\ granted' = granted + ToI32(k)
          /\ h' = h /\ d' = d
        BY <1>2 DEF halt_some
    <2>2. /\ ToI32(k) \in 0 .. I32Max /\ halt_count' \in 0 .. I32Max
          /\ halt_count' >= halt_count
          /\ halt_count' <= Permits + ToI32(k)
          /\ Permits + ToI32(k) <= I32Max => halt_count' = Permits + ToI32(k)
        BY <1>0, <2>1, HaltedCountFacts
    <2>3. Permits' = halt_count' /\ Permits \in Nat
        BY <1>0, <2>2 DEF Permits
    <2>a. /\ h \in Nat /\ d \in Nat /\ n \in Nat /\ d' = d
          /\ halt_count \in Int /\ halt_count' \in Int /\ halt_count' >= halt_count
          /\ halt_count - d >= 1 - n
        BY <1>0, <2>1, <2>2
    <2>4. halt_count' - d' >= 1 - n
        BY ONLY <2>a
    <2>b. /\ h \in Nat /\ Permits \in Nat /\ halt_count' \in Int
          /\ ToI32(k) \in Nat /\ granted \in Nat /\ I32Max \in Nat
        BY <1>0, <2>2, <2>3
    <2>c. /\ h + Permits <= granted
          /\ granted <= I32Max => h + Permits = granted
          /\ halt_count' <= Permits + ToI32(k)
          /\ Permits + ToI32(k) <= I32Max => halt_count' = Permits + ToI32(k)
        BY <1>0, <2>2
    <2>5. /\ h + halt_count' <= granted + ToI32(k)
          /\ granted + ToI32(k) <= I32Max => h + halt_count' = granted + ToI32(k)
        <3> HIDE DEF h
        <3> QED BY ONLY <2>b, <2>c, SaturatingAddition
    <2>6. /\ h' + Permits' <= granted'
          /\ granted' <= I32Max => h' + Permits' = granted'
        BY ONLY <2>1, <2>3, <2>5
    <2> QED BY <2>4, <2>6 DEF HaltDebtBounded, HaltsConserved
<1>3. ASSUME NEW p \in Process, LoadHaltCount(p), halt_count > 0
      PROVE  HaltDebtBounded' /\ HaltsConserved'
    <2>1. UNCHANGED <<haltVars, signaled_halt>>
        BY <1>3 DEF LoadHaltCount, channelVars
    <2>2. d' \in Nat /\ d' <= n
        <3>1. Deciding' \subseteq Process
            BY DEF Deciding
        <3> QED BY <3>1, FiniteSets, FS_Subset, FS_CardinalityType
    <2> QED BY <1>0, <1>3, <2>1, <2>2
            DEF HaltDebtBounded, HaltsConserved, Halted, haltVars, Permits
<1>4. ASSUME NEW p \in Process, SubHaltCount(p)
      PROVE  HaltDebtBounded' /\ HaltsConserved'
    <2>1. /\ halt_count' = halt_count - 1 /\ granted' = granted
          /\ p \in Deciding /\ p \notin Halted
        BY <1>4, FetchSubInRange DEF SubHaltCount, Deciding, Halted, IInv, ReceiveInv
    <2>2. Deciding' = Deciding \ {p}
        BY <1>4, <2>1
           DEF SubHaltCount, Deciding, Return, Go, IInv, TypeOK
    <2>3. d' = d - 1
        BY <2>1, <2>2, FiniteSets, FS_RemoveElement
    <2>4. CASE halt_count > 0
        <3>1. Halted' = Halted \cup {p}
            BY <1>0, <1>4, <2>4 DEF SubHaltCount, Halted, IInv, TypeOK
        <3>2. h' = h + 1
            BY <2>1, <3>1, FiniteSets, FS_AddElement
        <3> QED BY <1>0, <2>1, <2>3, <2>4, <3>2
                DEF HaltDebtBounded, HaltsConserved, Permits
    <2>5. CASE halt_count <= 0
        <3>1. Halted' = Halted
            BY <1>0, <1>4, <2>5 DEF SubHaltCount, Halted
        <3> QED BY <1>0, <2>1, <2>3, <2>5, <3>1
                DEF HaltDebtBounded, HaltsConserved, Permits
    <2> QED BY <1>0, <2>4, <2>5
<1> QED BY <1>1, <1>2, <1>3, <1>4, HaltSteps
-----------------------------------------------------------------------------
(***************************************************************************)
(* Wake-ups.                                                               *)
(***************************************************************************)
\* A process step only performs operations of its own call, and it never adds a
\* message, closes the queue or requests a halt.
LEMMA ProcessStepEffects ==
    ASSUME IInv, NEW p \in Process, ReceiveStep(p) \/ UserStep(p)
    PROVE  /\ \A op : op # "drop_recv_listener" /\ StillToDo(op) => StillToDo(op)'
           /\ closed' = closed
           /\ queue' # <<>> => queue # <<>>
           /\ halt_count' > 0 => halt_count > 0
<1> USE DEF IInv, TypeOK, ChannelTypeOK
<1>0. p \in Thread /\ Process \subseteq Thread
    BY ChannelAssumption
<1>1. closed' = closed
    BY DEF ReceiveStep, UserStep, LoadHaltCount, SubHaltCount, PopOk, PopClosed, PopEmpty,
           AcquireListener, ListenerReady, ListenerPending, DropRecvListener, TryRecv,
           Recv, Poll, Cancel, DropInbox, channelVars, queueVars
<1>2. queue' # <<>> => queue # <<>>
    BY DEF ReceiveStep, UserStep, LoadHaltCount, SubHaltCount, PopOk, PopClosed, PopEmpty,
           AcquireListener, ListenerReady, ListenerPending, DropRecvListener, TryRecv,
           Recv, Poll, Cancel, DropInbox, channelVars, queueVars
<1>3. halt_count' > 0 => halt_count > 0
    <2>1. CASE SubHaltCount(p)
        BY <2>1, FetchSubInRange DEF SubHaltCount
    <2>2. CASE halt_count' = halt_count
        BY <2>2
    <2> QED BY <2>1, <2>2
            DEF ReceiveStep, UserStep, LoadHaltCount, PopOk, PopClosed, PopEmpty,
                AcquireListener, ListenerReady, ListenerPending, DropRecvListener, TryRecv,
                Recv, Poll, Cancel, DropInbox, channelVars, haltVars
<1>4. ASSUME NEW op, op # "drop_recv_listener", StillToDo(op)
      PROVE  StillToDo(op)'
    <2>1. CASE DropRecvListener(p)
        BY <1>0, <1>4, <2>1, FinishFacts DEF DropRecvListener
    <2>2. CASE todo[p] = <<>>
        <3>1. ~Remaining(p, op)
            BY <2>2, ContainsNone DEF Remaining
        <3>2. PICK t \in Thread : Remaining(t, op)
            BY <1>4 DEF StillToDo
        <3>3. todo'[t] = todo[t]
            BY <1>0, <3>1, <3>2
               DEF ReceiveStep, UserStep, LoadHaltCount, SubHaltCount, PopOk, PopClosed,
                   PopEmpty, AcquireListener, ListenerReady, ListenerPending,
                   DropRecvListener, TryRecv, Recv, Poll, Cancel, DropInbox, Continue,
                   Finish, pop_msg, remove_inbox, channelVars
        <3> QED BY <3>2, <3>3 DEF StillToDo, Remaining
    <2>3. CASE todo' = todo
        BY <1>4, <2>3 DEF StillToDo, Remaining
    <2> QED BY <2>1, <2>2, <2>3
            DEF ReceiveStep, UserStep, LoadHaltCount, SubHaltCount, PopOk, PopClosed,
                PopEmpty, AcquireListener, ListenerReady, ListenerPending, TryRecv, Recv,
                Poll, Cancel, DropInbox, Idle, ReceiveInv, channelVars
<1> QED BY <1>1, <1>2, <1>3, <1>4

\* A pop leaves its call with receivers to notify.
LEMMA PopNotifies ==
    ASSUME todo \in [Thread -> Seq(Op)], NEW t \in Thread, NEW rest \in Seq(Op),
           pop_msg(t, rest)
    PROVE  StillToDo("recv_notify_one")'
<1>1. "send_notify_one" \in Op /\ "recv_notify_one" \in Op
    BY DEF Op
<1> DEFINE ops == <<"send_notify_one", "recv_notify_one">> \o rest
<1>2. ops \in Seq(Op) /\ Seqs!Contains(ops, "recv_notify_one")
    BY <1>1, ContainsCons2
<1>3. Continue(t, ops)
    BY DEF pop_msg
<1> HIDE DEF ops
<1>4. Remaining(t, "recv_notify_one")'
    BY <1>2, <1>3, ContinueFacts
<1> QED BY <1>4 DEF StillToDo

\* The wake-ups of the process that takes the step.
LEMMA OwnWakeup ==
    ASSUME IInv, NEW p \in Process, ReceiveStep(p) \/ UserStep(p)
    PROVE  /\ PassedHalt(p)' /\ ~signaled_halt'[p]
                  => PassedHalt(p) \/ halt_count' <= 0
           /\ PassedQueue(p)' => PassedQueue(p) \/ (~closed /\ queue = <<>>)
           /\ PassedQueue(p)' => signaled_halt'[p] = signaled_halt[p]
<1> USE DEF IInv, TypeOK, ChannelTypeOK, PassedHalt, PassedQueue
<1>1. CASE LoadHaltCount(p)
    BY <1>1 DEF LoadHaltCount, Go, channelVars, eventVars, haltVars
<1>2. CASE SubHaltCount(p)
    BY <1>2, FetchSubInRange DEF SubHaltCount, Return, Go, eventVars
<1>3. CASE PopOk(p) \/ PopClosed(p)
    BY <1>3 DEF PopOk, PopClosed, Return, Go
<1>4. CASE PopEmpty(p)
    BY <1>4 DEF PopEmpty, Return, Go, channelVars, eventVars
<1>5. CASE AcquireListener(p)
    BY <1>5 DEF AcquireListener, Try, Go
<1>6. CASE ListenerReady(p)
    BY <1>6, RemoveFacts DEF ListenerReady
<1>7. CASE ListenerPending(p)
    BY <1>7 DEF ListenerPending, Go, eventVars, ReceiveInv
<1>8. CASE DropRecvListener(p)
    <2>1. p \notin Listeners(recv_event)'
        BY <1>8, DropListenerFacts DEF DropRecvListener
    <2> QED BY <2>1 DEF Listeners
<1>9. CASE TryRecv(p) \/ Recv(p) \/ Poll(p)
    BY <1>9 DEF TryRecv, Recv, Poll, Try, Go
<1>10. CASE Cancel(p)
    BY <1>10 DEF Cancel, Go
<1>11. CASE DropInbox(p)
    BY <1>11 DEF DropInbox, Idle, procVars
<1> QED BY <1>1, <1>2, <1>3, <1>4, <1>5, <1>6, <1>7, <1>8, <1>9, <1>10, <1>11
        DEF ReceiveStep, UserStep

\* A process step does not end the way of somebody to a queue that still has a
\* message, while another process sleeps that was not halted.
LEMMA OnTheWayKept ==
    ASSUME IInv, NEW p \in Process, ReceiveStep(p) \/ UserStep(p),
           NEW q \in Process, PassedQueue(q), PassedQueue(q)', ~signaled_halt[q],
           queue # <<>>, OnTheWay
    PROVE  OnTheWay'
<1> USE DEF IInv, TypeOK, ChannelTypeOK
<1>0. p \in Thread /\ todo \in [Thread -> Seq(Op)]
    BY ChannelAssumption
<1>1. CASE StillToDo("recv_notify_one") \/ StillToDo("recv_notify_all")
    BY <1>1, ProcessStepEffects DEF OnTheWay
<1>2. CASE recv_event.notified # {}
    <2>1. CASE ListenerReady(p)
        <3>1. TookNotification(p)'
            BY <2>1 DEF ListenerReady, TookNotification, Try, Go
        <3> QED BY <3>1 DEF OnTheWay
    <2>2. CASE DropRecvListener(p)
        <3>1. recv_event'.waiting # {}
            BY DEF PassedQueue
        <3>2. /\ recv_event \in EventType(Thread)
              /\ recv_event' \in DropListener(recv_event, p)
            BY <2>2 DEF DropRecvListener
        <3>3. ASSUME NEW e \in EventType(Thread), NEW f \in DropListener(e, p),
                     e.notified # {}, f.waiting # {}
              PROVE  f.notified # {}
            BY ONLY <3>3, DropListenerFacts
        <3>4. recv_event'.notified # {}
            BY <1>2, <3>1, <3>2, <3>3
        <3> QED BY <3>4 DEF OnTheWay
    <2>3. CASE AcquireListener(p)
        <3>1. recv_event \in EventType(Thread)
            OBVIOUS
        <3>2. Listen(recv_event, p).notified = recv_event.notified
            BY <1>0, <3>1, ListenFacts
        <3>3. recv_event'.notified = recv_event.notified
            BY <2>3, <3>2 DEF AcquireListener
        <3> QED BY <1>2, <3>3 DEF OnTheWay
    <2>4. CASE UNCHANGED recv_event
        BY <1>2, <2>4 DEF OnTheWay
    <2> QED BY <2>1, <2>2, <2>3, <2>4
            DEF ReceiveStep, UserStep, LoadHaltCount, SubHaltCount, PopOk, PopClosed,
                PopEmpty, ListenerPending, TryRecv, Recv, Poll, Cancel, DropInbox,
                channelVars, eventVars
<1>3. ASSUME NEW r \in Process, TookNotification(r)
      PROVE  OnTheWay'
    <2>1. CASE r # p
        <3>1. TookNotification(r)'
            BY <1>3, <2>1, ProcessStepFrame DEF TookNotification
        <3> QED BY <3>1 DEF OnTheWay
    <2>2. CASE r = p
        <3>0. pc[p] \in {"load", "sub", "pop"} /\ attempt[p] = 3
            BY <1>3, <2>2 DEF TookNotification
        <3>1. CASE LoadHaltCount(p)
            <4>1. TookNotification(p)'
                BY <3>0, <3>1 DEF LoadHaltCount, TookNotification, Go
            <4> QED BY <4>1 DEF OnTheWay
        <3>2. CASE SubHaltCount(p)
            <4>1. CASE halt_count > 0
                <5>1. PassedHalt(q)
                    BY DEF PassedHalt, PassedQueue, ReceiveInv
                <5>2. StillToDo("recv_notify_all")
                    BY <4>1, <5>1 DEF WakeupInv
                <5> QED BY <5>2, ProcessStepEffects DEF OnTheWay
            <4>2. CASE halt_count <= 0
                <5>1. TookNotification(p)'
                    BY <3>0, <3>2, <4>2 DEF SubHaltCount, TookNotification, Go
                <5> QED BY <5>1 DEF OnTheWay
            <4> QED BY <4>1, <4>2
        <3>3. CASE PopOk(p)
            BY <1>0, <3>3, AfterReceiveFacts, PopNotifies DEF PopOk, OnTheWay
        <3>4. ~DropRecvListener(p)
            <4>1. todo[p] = <<>>
                BY <3>0 DEF ReceiveInv
            <4> QED BY <4>1 DEF DropRecvListener, Pending
        <3> QED BY <3>0, <3>1, <3>2, <3>3, <3>4
                DEF ReceiveStep, UserStep, PopClosed, PopEmpty, AcquireListener,
                    ListenerReady, ListenerPending, TryRecv, Recv, Poll, Cancel,
                    DropInbox, Idle
    <2> QED BY <2>1, <2>2
<1> QED BY <1>1, <1>2, <1>3 DEF OnTheWay

\* A call in progress that does not notify the receivers keeps what is still to be
\* done, and somebody on the way.
LEMMA WakeupKept ==
    ASSUME IInv, UNCHANGED <<procVars, recv_event, halt_count>>,
           StillToDo("recv_notify_one") => StillToDo("recv_notify_one")',
           StillToDo("recv_notify_all") => StillToDo("recv_notify_all")',
           closed' => closed \/ StillToDo("recv_notify_all")',
           queue' # <<>> => queue # <<>> \/ StillToDo("recv_notify_one")'
    PROVE  WakeupInv'
BY DEF IInv, WakeupInv, PassedHalt, PassedQueue, OnTheWay, TookNotification, procVars

\* Every step preserves the wake-ups.
LEMMA WakeupInvStep ==
    ASSUME IInv, [Next]_vars
    PROVE  WakeupInv'
<1> USE DEF IInv, TypeOK, ChannelTypeOK
<1>0. Process \subseteq Thread /\ Caller \subseteq Thread /\ <<>> \in Seq(Op)
    BY ChannelAssumption
<1>a. /\ "recv_notify_all" \in Op /\ "send_notify_all" \in Op
      /\ "recv_notify_one" \in Op /\ "halt_some_max" \in Op
    BY DEF Op
<1>b. ASSUME NEW t \in Thread, NEW rest \in Seq(Op), NEW k, halt_some(t, k, rest)
      PROVE  StillToDo("recv_notify_all")'
    <2>1. /\ <<"recv_notify_all">> \o rest \in Seq(Op)
          /\ Seqs!Contains(<<"recv_notify_all">> \o rest, "recv_notify_all")
        BY <1>a, ContainsCons
    <2> QED BY <1>b, <2>1, ContinueFacts DEF halt_some, StillToDo
<1>c. ASSUME NEW t \in Thread, NEW rest \in Seq(Op), close(t, rest), ~closed
      PROVE  StillToDo("recv_notify_all")'
    <2>1. /\ <<"recv_notify_all", "send_notify_all">> \o rest \in Seq(Op)
          /\ Seqs!Contains(<<"recv_notify_all", "send_notify_all">> \o rest,
                           "recv_notify_all")
        BY <1>a, ContainsCons2
    <2>2. Continue(t, <<"recv_notify_all", "send_notify_all">> \o rest)
        BY <1>c DEF close
    <2>3. Remaining(t, "recv_notify_all")'
        BY <2>1, <2>2, ContinueFacts
    <2> QED BY <2>3 DEF StillToDo
<1>d. ASSUME UNCHANGED procVars, StillToDo("recv_notify_all")'
      PROVE  WakeupInv'
    BY <1>d DEF WakeupInv, OnTheWay
<1>1. ASSUME NEW t \in Thread, CallStep(t), UNCHANGED procVars
      PROVE  WakeupInv'
    <2>1. CASE RecvNotifyOne(t)
        <3>1. \A op : op # "recv_notify_one" /\ StillToDo(op) => StillToDo(op)'
            BY <2>1, FinishFacts DEF RecvNotifyOne
        <3>2. /\ recv_event'.waiting \subseteq recv_event.waiting
              /\ recv_event'.waiting # {} => recv_event'.notified # {}
            BY <2>1, NotifyOneFacts DEF RecvNotifyOne
        <3> QED BY <1>1, <2>1, <3>1, <3>2
                DEF RecvNotifyOne, WakeupInv, PassedHalt, PassedQueue, OnTheWay, procVars,
                    queueVars, haltVars
    <2>2. CASE RecvNotifyAll(t)
        BY <2>2, NotifyAllFacts DEF RecvNotifyAll, WakeupInv, PassedHalt, PassedQueue
    <2>3. CASE SendNotifyOne(t) \/ SendNotifyAll(t) \/ ExitNotifyAll(t)
        <3>1. /\ StillToDo("recv_notify_one") => StillToDo("recv_notify_one")'
              /\ StillToDo("recv_notify_all") => StillToDo("recv_notify_all")'
            BY <2>3, FinishFacts DEF SendNotifyOne, SendNotifyAll, ExitNotifyAll
        <3> QED BY <1>1, <2>3, <3>1, WakeupKept
                DEF SendNotifyOne, SendNotifyAll, ExitNotifyAll, queueVars, haltVars
    <2>4. CASE Close(t)
        <3>1. Tail(todo[t]) \in Seq(Op)
            BY <2>4, ContainsTail DEF Close, Pending
        <3>2. CASE closed
            <4>1. Finish(t) /\ closed'
                BY <2>4, <3>2 DEF Close, close, Finish
            <4>2. /\ StillToDo("recv_notify_one") => StillToDo("recv_notify_one")'
                  /\ StillToDo("recv_notify_all") => StillToDo("recv_notify_all")'
                BY <2>4, <4>1, FinishFacts DEF Close
            <4> QED BY <1>1, <2>4, <3>2, <4>2, WakeupKept DEF Close, haltVars, eventVars
        <3>3. CASE ~closed
            BY <1>1, <1>c, <1>d, <2>4, <3>1, <3>3 DEF Close
        <3> QED BY <3>2, <3>3
    <2>5. CASE HaltSomeMax(t)
        <3>1. Tail(todo[t]) \in Seq(Op)
            BY <2>5, ContainsTail DEF HaltSomeMax, Pending
        <3> QED BY <1>1, <1>b, <1>d, <2>5, <3>1 DEF HaltSomeMax
    <2>6. CASE Drain(t)
        <3>1. CASE pop_msg(t, todo[t])
            <4>1. StillToDo("recv_notify_one")'
                BY <3>1, PopNotifies
            <4>2. "send_notify_one" \in Op
                BY DEF Op
            <4>3. /\ <<"send_notify_one", "recv_notify_one">> \o todo[t] \in Seq(Op)
                  /\ Remaining(t, "recv_notify_all")
                         => Seqs!Contains(<<"send_notify_one", "recv_notify_one">>
                                              \o todo[t], "recv_notify_all")
                BY <1>a, <4>2, ContainsCons2 DEF Remaining
            <4>4. StillToDo("recv_notify_all") => StillToDo("recv_notify_all")'
                BY <3>1, <4>3, ContinueFacts DEF pop_msg
            <4> QED BY <1>1, <2>6, <4>1, <4>4, WakeupKept DEF Drain, haltVars, eventVars
        <3>2. CASE Finish(t) /\ UNCHANGED queue
            <4>1. /\ StillToDo("recv_notify_one") => StillToDo("recv_notify_one")'
                  /\ StillToDo("recv_notify_all") => StillToDo("recv_notify_all")'
                BY <2>6, <3>2, FinishFacts DEF Drain
            <4> QED BY <1>1, <2>6, <3>2, <4>1, WakeupKept DEF Drain, haltVars, eventVars
        <3> QED BY <2>6, <3>1, <3>2 DEF Drain
    <2> QED BY <1>1, <2>1, <2>2, <2>3, <2>4, <2>5, <2>6 DEF CallStep
<1>2. ASSUME NEW c \in Caller, CallerStep(c), UNCHANGED procVars
      PROVE  WakeupInv'
    <2>0. c \in Thread /\ \A op : ~Remaining(c, op)
        BY <1>0, <1>2, CallerStepOthers, ContainsNone DEF Remaining
    <2>1. CASE CallSendNow(c)
        <3>1. /\ <<"recv_notify_one">> \o <<>> \in Seq(Op)
              /\ Seqs!Contains(<<"recv_notify_one">> \o <<>>, "recv_notify_one")
            BY <1>0, <1>a, ContainsCons
        <3>2. /\ StillToDo("recv_notify_one")'
              /\ StillToDo("recv_notify_all") => StillToDo("recv_notify_all")'
            BY <2>0, <2>1, <3>1, ContinueFacts DEF CallSendNow, push_msg, StillToDo
        <3> QED BY <1>2, <2>1, <3>2, WakeupKept DEF CallSendNow, haltVars, eventVars
    <2>2. ASSUME NEW rest \in Seq(Op), close(c, rest), UNCHANGED <<queue, haltVars, eventVars>>
          PROVE  WakeupInv'
        <3>1. CASE closed
            <4>1. /\ StillToDo("recv_notify_one") => StillToDo("recv_notify_one")'
                  /\ StillToDo("recv_notify_all") => StillToDo("recv_notify_all")'
                BY <2>0, <2>2, <3>1, ContinueFacts DEF close
            <4> QED BY <1>2, <2>2, <3>1, <4>1, WakeupKept DEF haltVars, eventVars
        <3>2. CASE ~closed
            BY <1>2, <1>c, <1>d, <2>0, <2>2, <3>2
        <3> QED BY <3>1, <3>2
    <2>3. CASE CallClose(c) \/ CallHalt(c)
        <3>1. <<"halt_some_max">> \in Seq(Op)
            BY <1>a
        <3> QED BY <1>0, <2>2, <2>3, <3>1 DEF CallClose, CallHalt
    <2>4. CASE CallHaltSome(c)
        BY <1>0, <1>2, <1>b, <1>d, <2>0, <2>4 DEF CallHaltSome
    <2>5. CASE CallSpawn(c)
        BY <1>2, <2>5, WakeupKept
           DEF CallSpawn, queueVars, haltVars, eventVars, StillToDo, Remaining
    <2> QED BY <1>2, <2>1, <2>3, <2>4, <2>5 DEF CallerStep
<1>3. ASSUME NEW p \in Process, ReceiveStep(p) \/ UserStep(p), NEW q \in Process
      PROVE  /\ PassedHalt(q)' /\ ~signaled_halt'[q] /\ halt_count' > 0
                    => StillToDo("recv_notify_all")'
             /\ PassedQueue(q)' /\ closed' => StillToDo("recv_notify_all")'
             /\ PassedQueue(q)' /\ ~signaled_halt'[q] /\ queue' # <<>> => OnTheWay'
    <2>1. ASSUME PassedHalt(q)', ~signaled_halt'[q], halt_count' > 0
          PROVE  StillToDo("recv_notify_all")'
        <3>1. PassedHalt(q) /\ ~signaled_halt[q]
            <4>1. CASE q = p
                <5>1. PassedHalt(p) /\ halt_count' \in Int
                    BY <1>3, <2>1, <4>1, OwnWakeup, TypeOKStep
                <5>2. signaled_halt[p] => signaled_halt'[p]
                    BY <1>3
                       DEF ReceiveStep, UserStep, LoadHaltCount, SubHaltCount, PopOk,
                           PopClosed, PopEmpty, AcquireListener, ListenerReady,
                           ListenerPending, DropRecvListener, TryRecv, Recv, Poll, Cancel,
                           DropInbox, procVars
                <5> QED BY <2>1, <4>1, <5>1, <5>2
            <4>2. CASE q # p
                BY <1>3, <2>1, <4>2, ProcessStepFrame DEF PassedHalt
            <4> QED BY <4>1, <4>2
        <3> QED BY <1>3, <2>1, <3>1, ProcessStepEffects DEF WakeupInv
    <2>2. ASSUME PassedQueue(q)', closed' PROVE StillToDo("recv_notify_all")'
        <3>1. closed
            BY <1>3, <2>2, ProcessStepEffects
        <3>2. PassedQueue(q)
            BY <1>3, <2>2, <3>1, OwnWakeup, ProcessStepFrame DEF PassedQueue
        <3> QED BY <1>3, <3>1, <3>2, ProcessStepEffects DEF WakeupInv
    <2>3. ASSUME PassedQueue(q)', ~signaled_halt'[q], queue' # <<>> PROVE OnTheWay'
        <3>1. queue # <<>>
            BY <1>3, <2>3, ProcessStepEffects
        <3>2. PassedQueue(q) /\ ~signaled_halt[q]
            BY <1>3, <2>3, <3>1, OwnWakeup, ProcessStepFrame DEF PassedQueue
        <3>3. OnTheWay
            BY <3>1, <3>2 DEF WakeupInv
        <3> QED BY <1>3, <2>3, <3>1, <3>2, <3>3, OnTheWayKept
    <2> QED BY <2>1, <2>2, <2>3
<1>4. CASE UNCHANGED vars
    BY <1>4, WakeupKept
       DEF vars, channelVars, queueVars, haltVars, eventVars, StillToDo, Remaining
<1> QED BY <1>1, <1>2, <1>3, <1>4 DEF Next, WakeupInv
-----------------------------------------------------------------------------
(***************************************************************************)
(* The exit.                                                               *)
(***************************************************************************)
\* Only the destructor of the last inbox of a process drains.
LEMMA ProcessStepDrain ==
    ASSUME IInv, NEW p \in Process, ReceiveStep(p) \/ UserStep(p)
    PROVE  /\ Remaining(p, "drain")' /\ ~closed
                  => todo'[p] = <<"close", "exit_notify_all", "drain">>
           /\ Live' = {} /\ Live # {} => StillToDo("drain")'
<1> USE DEF IInv, TypeOK, ChannelTypeOK
<1>0. p \in Thread /\ <<>> \in Seq(Op) /\ ~Seqs!Contains(<<>>, "drain")
    BY ChannelAssumption, ContainsNone
<1>a. /\ "send_notify_one" \in Op /\ "recv_notify_one" \in Op
      /\ "drop_recv_listener" \in Op
    BY DEF Op
<1>1. CASE DropInbox(p)
    <2>1. /\ <<"close", "exit_notify_all", "drain">> \in Seq(Op)
          /\ Seqs!Contains(<<"close", "exit_notify_all", "drain">>, "drain")
        <3>1. <<"close", "exit_notify_all", "drain">>[3] = "drain"
            OBVIOUS
        <3> QED BY <3>1 DEF Op, Seqs!Contains
    <2>2. Live' = Live \ {p} /\ p \in Live
        BY <1>1 DEF DropInbox, Idle, remove_inbox, Live
    <2>3. CASE inbox_count = 1
        <3>1. Continue(p, <<"close", "exit_notify_all", "drain">>)
            BY <1>1, <2>3 DEF DropInbox, remove_inbox
        <3>2. /\ todo'[p] = <<"close", "exit_notify_all", "drain">>
              /\ Remaining(p, "drain")'
            BY <1>0, <2>1, <3>1, ContinueFacts
        <3> QED BY <1>0, <3>2 DEF StillToDo
    <2>4. CASE inbox_count # 1
        <3>1. Continue(p, <<>>)
            BY <1>1, <2>4 DEF DropInbox, remove_inbox
        <3>2. ~Remaining(p, "drain")'
            BY <1>0, <3>1, ContinueFacts
        <3>3. Live' # {}
            <4>1. Cardinality(Live') = Cardinality(Live) - 1
                BY <2>2, FiniteSets, FS_RemoveElement
            <4>2. Cardinality(Live') # 0
                BY <2>4, <4>1, FiniteSets DEF InboxCountExact
            <4> QED BY <4>2, FS_EmptySet
        <3> QED BY <3>2, <3>3
    <2> QED BY <2>3, <2>4
<1>2. CASE ~DropInbox(p)
    <2>1. UNCHANGED inboxVars
        BY <1>2
           DEF ReceiveStep, UserStep, LoadHaltCount, SubHaltCount, PopOk, PopClosed,
               PopEmpty, AcquireListener, ListenerReady, ListenerPending, DropRecvListener,
               TryRecv, Recv, Poll, Cancel, channelVars
    <2>2. Live' = Live
        BY <2>1 DEF inboxVars, Live
    <2>3. ASSUME Remaining(p, "drain")', ~closed
          PROVE  todo'[p] = <<"close", "exit_notify_all", "drain">>
        <3>1. CASE UNCHANGED todo
            <4>1. Remaining(p, "drain")
                BY <2>3, <3>1 DEF Remaining
            <4> QED BY <1>0, <2>3, <3>1, <4>1 DEF ExitInv
        <3>2. CASE DropRecvListener(p)
            <4>1. Remaining(p, "drain") /\ Head(todo[p]) = "drop_recv_listener"
                BY <1>0, <2>3, <3>2, FinishFacts DEF DropRecvListener, Pending
            <4>2. Head(<<"close", "exit_notify_all", "drain">>) = "close"
                OBVIOUS
            <4> QED BY <1>0, <2>3, <4>1, <4>2 DEF ExitInv
        <3>3. ASSUME NEW ops \in Seq(Op), Continue(p, ops), ~Seqs!Contains(ops, "drain")
              PROVE  FALSE
            BY <1>0, <2>3, <3>3, ContinueFacts
        <3>4. /\ AfterReceive(p) \in Seq(Op) /\ ~Seqs!Contains(AfterReceive(p), "drain")
            BY AfterReceiveFacts
        <3>5. /\ <<"send_notify_one", "recv_notify_one">> \o AfterReceive(p) \in Seq(Op)
              /\ ~Seqs!Contains(<<"send_notify_one", "recv_notify_one">>
                                    \o AfterReceive(p), "drain")
            BY <1>a, <3>4, ContainsCons2
        <3>6. /\ <<"drop_recv_listener">> \in Seq(Op)
              /\ ~Seqs!Contains(<<"drop_recv_listener">>, "drain")
            BY <1>a, ContainsOne
        <3> QED BY <1>0, <1>2, <3>1, <3>2, <3>3, <3>4, <3>5, <3>6
                DEF ReceiveStep, UserStep, LoadHaltCount, SubHaltCount, PopOk, PopClosed,
                    PopEmpty, AcquireListener, ListenerReady, ListenerPending, TryRecv,
                    Recv, Poll, Cancel, pop_msg, channelVars
    <2> QED BY <2>2, <2>3
<1> QED BY <1>1, <1>2

\* Every step preserves what the exit relies on.
LEMMA ExitInvStep ==
    ASSUME IInv, [Next]_vars
    PROVE  ExitInv'
<1> USE DEF IInv, TypeOK, ChannelTypeOK
<1>0. Process \subseteq Thread /\ Caller \subseteq Thread
    BY ChannelAssumption
<1>e. /\ \A t \in Thread \ Process : ~Remaining(t, "drain")
      /\ \A t \in Thread :
             Remaining(t, "drain") /\ ~closed
                 => todo[t] = <<"close", "exit_notify_all", "drain">>
      /\ Live = {} => (closed /\ queue = <<>>) \/ StillToDo("drain")
    BY DEF ExitInv
<1>3. ASSUME NEW p \in Process, ReceiveStep(p) \/ UserStep(p)
      PROVE  ExitInv'
    <2>0. \A u \in Thread \ {p} : todo'[u] = todo[u]
        BY <1>0, <1>3
           DEF ReceiveStep, UserStep, LoadHaltCount, SubHaltCount, PopOk, PopClosed,
               PopEmpty, AcquireListener, ListenerReady, ListenerPending,
               DropRecvListener, TryRecv, Recv, Poll, Cancel, DropInbox, Finish,
               pop_msg, remove_inbox, Continue, channelVars
    <2>1. closed' = closed /\ (queue' # <<>> => queue # <<>>)
          /\ (StillToDo("drain") => StillToDo("drain")')
        BY <1>3, ProcessStepEffects
    <2>2. Live' = {} => (closed' /\ queue' = <<>>) \/ StillToDo("drain")'
        BY <1>3, <1>e, <2>1, ProcessStepDrain
    <2>3. ASSUME NEW u \in Thread, Remaining(u, "drain")', ~closed'
          PROVE  todo'[u] = <<"close", "exit_notify_all", "drain">>
        <3>1. CASE u = p
            BY <1>3, <2>1, <2>3, <3>1, ProcessStepDrain
        <3>2. CASE u # p
            BY <1>e, <2>0, <2>1, <2>3, <3>2 DEF Remaining
        <3> QED BY <3>1, <3>2
    <2>4. ASSUME NEW u \in Thread \ Process PROVE ~Remaining(u, "drain")'
        BY <1>e, <2>0 DEF Remaining
    <2> QED BY <2>2, <2>3, <2>4 DEF ExitInv
<1>4. CASE UNCHANGED vars
    BY <1>4 DEF vars, channelVars, queueVars, inboxVars, ExitInv, Live, StillToDo, Remaining
<1> QED BY <1>3, <1>4, ExitInvCallStep, ExitInvCallerStep DEF Next
-----------------------------------------------------------------------------
(***************************************************************************)
(* The theorems.                                                           *)
(***************************************************************************)
\* A channel that was just spawned satisfies the inductive invariant.
LEMMA InitIInv == Init => IInv
<1> SUFFICES ASSUME Init PROVE IInv
    OBVIOUS
<1> USE DEF Init, ChannelInit, ChannelNew
<1>0. /\ Process \subseteq Thread /\ InitialProcess \subseteq Process
      /\ InitialProcess # {} /\ I32Max \in Nat \ {0} /\ MaxCalls \in Nat
      /\ NewEvent \in EventType(Thread) /\ Listeners(NewEvent) = {}
      /\ NewEvent.waiting = {}
    BY ChannelAssumption DEF NewEvent, EventType, Listeners
<1>1. Live = InitialProcess /\ Halted = {} /\ Deciding = {}
    BY <1>0 DEF Live, Halted, Deciding
<1>2. /\ inbox_count = Cardinality(Live) /\ Cardinality(Live) \in Nat
      /\ Cardinality(Halted) = 0 /\ Cardinality(Deciding) = 0
    BY <1>1, FiniteSets, FS_EmptySet
<1>3. \A t \in Thread : \A op : ~Remaining(t, op)
    BY ContainsNone DEF Remaining
<1>4. TypeOK
    <2>1. queue \in Seq(Thread) /\ todo \in [Thread -> Seq(Op)]
        OBVIOUS
    <2>2. inbox \in [Process -> {"none", "live", "dropped"}]
        OBVIOUS
    <2>3. /\ inbox_count \in Nat /\ halt_count \in -I32Max .. I32Max /\ granted \in Nat
          /\ calls \in [Caller -> 0 .. MaxCalls]
        BY <1>0, <1>2
    <2>4. /\ pc \in [Process -> Places] /\ attempt \in [Process -> 0 .. 3]
          /\ signaled_halt \in [Process -> BOOLEAN] /\ result \in [Process -> Results]
        BY DEF Places, Results
    <2> QED BY <1>0, <2>1, <2>2, <2>3, <2>4 DEF TypeOK, ChannelTypeOK
<1>5. ReceiveInv /\ ListenersInUse /\ WakeupInv
    BY <1>0 DEF ReceiveInv, ListenersInUse, WakeupInv, PassedHalt, PassedQueue
<1>6. InboxCountExact
    BY <1>2 DEF InboxCountExact
<1>7. HaltDebtBounded
    <2>1. Process # {}
        BY <1>0
    <2>2. Cardinality(Process) >= 1
        BY <2>1, FiniteSets, FS_EmptySet
    <2> QED BY <1>2, <2>2, FiniteSets DEF HaltDebtBounded
<1>8. HaltsConserved
    BY <1>2 DEF HaltsConserved, Permits
<1>9. ExitInv
    BY <1>0, <1>1, <1>3 DEF ExitInv
<1> QED BY <1>4, <1>5, <1>6, <1>7, <1>8, <1>9 DEF IInv

\* Every step preserves IInv.
LEMMA IInvStep == ASSUME IInv, [Next]_vars PROVE IInv'
BY TypeOKStep, ReceiveInvStep, ListenersInUseStep, InboxCountStep,
   HaltInvariantsStep, WakeupInvStep, ExitInvStep
   DEF IInv

\* IInv is inductive.
THEOREM InductiveInvariant == Spec => []IInv
<1>1. IInv /\ [Next]_vars => IInv'
    BY IInvStep
<1> QED BY InitIInv, <1>1, PTL DEF Spec

\* Every variable keeps the values its type in channel/mod.rs and
\* channel/receiving.rs allows; halt_count stays within an i32.
THEOREM TypeCorrect == Spec => []TypeOK
<1>1. IInv => TypeOK
    BY DEF IInv
<1> QED BY <1>1, InductiveInvariant, PTL

\* The halts that halt_some requests are taken once each (inbox_should_halt).
THEOREM HaltConservation == Spec => []HaltsConserved
<1>1. IInv => HaltsConserved
    BY DEF IInv
<1> QED BY <1>1, InductiveInvariant, PTL

\* The fetch_sub of inbox_should_halt cannot wrap around.
THEOREM NoHaltUnderflow == Spec => []HaltDebtBounded
<1>1. IInv => HaltDebtBounded
    BY DEF IInv
<1> QED BY <1>1, InductiveInvariant, PTL

\* inbox_count is the number of inboxes (try_add_inbox, remove_inbox).
THEOREM InboxCounting == Spec => []InboxCountExact
<1>1. IInv => InboxCountExact
    BY DEF IInv
<1> QED BY <1>1, InductiveInvariant, PTL

\* The destructor of the last inbox leaves a closed and empty channel
\* (remove_inbox).
THEOREM CleanExit == Spec => []ExitLeavesNothing
<1>1. IInv => ExitLeavesNothing
    BY ExitInvClean DEF IInv
<1> QED BY <1>1, InductiveInvariant, PTL

\* An actor that has exited never has a process again (try_add_inbox).
THEOREM ExitFinal == Spec => ExitIsFinal
<1>1. ASSUME IInv, [Next]_vars, inbox_count = 0
      PROVE  inbox_count' = 0
    <2>1. Live = {}
        BY <1>1, FiniteSets, FS_EmptySet DEF IInv, InboxCountExact
    <2>2. ASSUME NEW t \in Thread, CallStep(t)
          PROVE  inbox_count' = inbox_count
        BY <1>1, <2>2, CallStepFrame DEF inboxVars
    <2>3. ASSUME NEW c \in Caller, CallerStep(c)
          PROVE  inbox_count' = inbox_count
        BY <1>1, <2>3
           DEF CallerStep, CallSendNow, CallClose, CallHaltSome, CallHalt, CallSpawn,
               try_add_inbox, inboxVars
    <2>4. ASSUME NEW p \in Process, ReceiveStep(p) \/ UserStep(p)
          PROVE  inbox_count' = inbox_count
        <3>1. ~DropInbox(p)
            BY <2>1 DEF DropInbox, Idle, Live
        <3> QED BY <2>4, <3>1
                DEF ReceiveStep, UserStep, LoadHaltCount, SubHaltCount, PopOk, PopClosed,
                    PopEmpty, AcquireListener, ListenerReady, ListenerPending,
                    DropRecvListener, TryRecv, Recv, Poll, Cancel, channelVars, inboxVars
    <2>5. CASE UNCHANGED vars
        BY <1>1, <2>5 DEF vars, channelVars, inboxVars
    <2> QED BY <1>1, <2>2, <2>3, <2>4, <2>5 DEF Next
<1>2. IInv /\ [Next]_vars => [inbox_count = 0 => inbox_count' = 0]_vars
    BY <1>1
<1> QED BY <1>2, InductiveInvariant, PTL DEF Spec, ExitIsFinal

\* What a process that sleeps can rely on follows from the invariant: WakeupInv says it
\* from the moment the process passed its attempts.
LEMMA Wakeups ==
    ASSUME IInv
    PROVE  HaltNotLost /\ CloseNotLost /\ MessageNotLost
<1>1. \A p \in Process : Asleep(p) => PassedQueue(p)
    BY DEF Asleep, Parked, PassedQueue
<1>2. \A p \in Process : Asleep(p) => PassedHalt(p)
    BY DEF Asleep, Parked, PassedHalt
<1> QED BY <1>1, <1>2 DEF IInv, WakeupInv, HaltNotLost, CloseNotLost, MessageNotLost

\* No process that could take a halt sleeps through it: RecvFut looks at
\* halt_count again after it acquired its listener.
THEOREM HaltWakeup == Spec => []HaltNotLost
<1>1. IInv => HaltNotLost
    BY Wakeups
<1> QED BY <1>1, InductiveInvariant, PTL

\* No process sleeps through the closing of the channel.
THEOREM CloseWakeup == Spec => []CloseNotLost
<1>1. IInv => CloseNotLost
    BY Wakeups
<1> QED BY <1>1, InductiveInvariant, PTL

\* No process sleeps while a message waits, unless somebody is on the way to it:
\* push_msg notifies one receiver, and a receiver that pops notifies the next.
THEOREM MessageWakeup == Spec => []MessageNotLost
<1>1. IInv => MessageNotLost
    BY Wakeups
<1> QED BY <1>1, InductiveInvariant, PTL

\* No listener outlives its receive (RecvFut::drop).
THEOREM ListenerUse == Spec => []ListenersInUse
<1>1. IInv => ListenersInUse
    BY DEF IInv
<1> QED BY <1>1, InductiveInvariant, PTL
=============================================================================
