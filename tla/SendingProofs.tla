---------------------------- MODULE SendingProofs ----------------------------
(***************************************************************************)
(* SendIInv is an inductive invariant of Sending, for any number of        *)
(* processes, callers and senders, any capacity and any backpressure, and  *)
(* with it the safety properties of the module.                            *)
(*                                                                         *)
(* A step of Sending is one of a sender or one of module Receiving.  For   *)
(* each kind a frame lemma states what it does to the state of the other   *)
(* kind; the invariant follows from the frames, and from what a step of a  *)
(* sender does to that sender.                                             *)
(***************************************************************************)
EXTENDS Sending, RefinementProofs, WellFoundedInduction

SenderAction(s) == SendStep(s) \/ StartSend(s) \/ PollSend(s) \/ CancelSend(s)

\* A sender is a thread with neither an inbox nor the calls of a caller.
LEMMA SenderIsThread ==
    ASSUME NEW s \in Sender
    PROVE  s \in Thread /\ s \notin Process /\ s \notin Caller
BY SendingAssumption

\* The end of a send leaves at most its listener to drop.
LEMMA AfterSendFacts ==
    ASSUME NEW s
    PROVE  /\ AfterSend(s) \in Seq(Op)
           /\ \A op : Seqs!Contains(AfterSend(s), op)
                          <=> /\ Bounded /\ method[s] = "send"
                              /\ op = "drop_send_listener"
<1>1. "drop_send_listener" \in Op
    BY DEF Op
<1> QED BY <1>1, ContainsOne, ContainsNone DEF AfterSend

\* A full queue is not empty.
LEMMA FullIsNotEmpty ==
    ASSUME ~HasRoom
    PROVE  Bounded /\ queue # <<>>
BY ChannelAssumption DEF HasRoom, Bounded

\* A queue with a message more is not empty.
LEMMA AppendNotEmpty ==
    ASSUME NEW S, NEW q \in Seq(S), NEW m \in S
    PROVE  Append(q, m) # <<>>
<1>1. Len(Append(q, m)) = Len(q) + 1 /\ Len(q) \in Nat /\ Len(<<>>) = 0
    BY AppendProperties
<1> QED BY <1>1

\* A notification leaves an event with a notified listener, where it had one.
LEMMA NotifiedKept ==
    ASSUME NEW S, NEW e \in EventType(S), e.notified # {}
    PROVE  /\ \A f \in NotifyOne(e) : f.notified # {}
           /\ NotifyAll(e).notified # {}
BY DEF NotifyOne, NotifyAll, Listeners, EventType
-----------------------------------------------------------------------------
(***************************************************************************)
(* What a sender leaves alone.                                             *)
(***************************************************************************)
\* A sender adds at most its own message, to an open queue, and then has a
\* receiver to notify; of the calls of the others it changes nothing.
LEMMA SenderFrame ==
    ASSUME SendIInv, NEW s \in Sender, SenderAction(s)
    PROVE  /\ UNCHANGED <<closed, inboxVars, haltVars, recv_event, exit_event, calls,
                          procVars>>
           /\ todo' \in [Thread -> Seq(Op)]
           /\ \A t \in Thread \ {s} : todo'[t] = todo[t]
           /\ \A op : op # "drop_send_listener" /\ StillToDo(op) => StillToDo(op)'
           /\ ~Remaining(s, "drain")'
           /\ \/ queue' = queue
              \/ /\ ~closed /\ queue' = Append(queue, s)
                 /\ StillToDo("recv_notify_one")'
<1> USE DEF SendIInv, IInv, TypeOK, ChannelTypeOK
<1>0. s \in Thread /\ ~Remaining(s, "drain")
    BY SenderIsThread DEF ExitInv
<1>1. UNCHANGED <<closed, inboxVars, haltVars, recv_event, exit_event, calls, procVars>>
    BY DEF SenderAction, SendStep, SleepOver, PushOk, PushClosed, PushFull,
           AcquireSendListener, SendListenerReady, SendListenerPending, DropSendListener,
           StartSend, PollSend, CancelSend, vars, channelVars, queueVars, eventVars
<1>2. CASE UNCHANGED <<queue, todo>>
    BY <1>0, <1>1, <1>2 DEF StillToDo, Remaining
<1>3. ASSUME spc[s] # "idle", NEW ops \in Seq(Op), Continue(s, ops)
      PROVE  /\ todo' \in [Thread -> Seq(Op)]
             /\ \A t \in Thread \ {s} : todo'[t] = todo[t]
             /\ \A op : StillToDo(op) => StillToDo(op)'
             /\ \A op : Remaining(s, op)' <=> Seqs!Contains(ops, op)
    <2>1. \A op : ~Remaining(s, op)
        BY <1>3, ContainsNone DEF SenderInv, Remaining
    <2> QED BY <1>0, <1>3, <2>1, ContinueFacts
<1>4. CASE PushOk(s)
    <2> DEFINE ops == <<"recv_notify_one">> \o AfterSend(s)
    <2>1. "recv_notify_one" \in Op /\ "recv_notify_one" # "drain"
        BY DEF Op
    <2>2. /\ ops \in Seq(Op) /\ Seqs!Contains(ops, "recv_notify_one")
          /\ ~Seqs!Contains(ops, "drain")
        <3>1. AfterSend(s) \in Seq(Op) /\ ~Seqs!Contains(AfterSend(s), "drain")
            BY AfterSendFacts
        <3> QED BY <2>1, <3>1, ContainsCons
    <2>3. /\ Continue(s, ops) /\ spc[s] # "idle"
          /\ ~closed /\ queue' = Append(queue, s)
        BY <1>4 DEF PushOk, push_msg
    <2> HIDE DEF ops
    <2>4. /\ todo' \in [Thread -> Seq(Op)]
          /\ \A t \in Thread \ {s} : todo'[t] = todo[t]
          /\ \A op : StillToDo(op) => StillToDo(op)'
          /\ Remaining(s, "recv_notify_one")' /\ ~Remaining(s, "drain")'
        BY <1>3, <2>2, <2>3
    <2> QED BY <1>0, <1>1, <2>3, <2>4 DEF StillToDo
<1>5. CASE PushClosed(s) \/ CancelSend(s)
    <2>1. /\ Continue(s, AfterSend(s)) /\ spc[s] # "idle" /\ queue' = queue
        BY <1>5 DEF PushClosed, CancelSend, queueVars
    <2>2. AfterSend(s) \in Seq(Op) /\ ~Seqs!Contains(AfterSend(s), "drain")
        BY AfterSendFacts
    <2> QED BY <1>1, <1>3, <2>1, <2>2
<1>6. CASE DropSendListener(s)
    <2>1. Pending(s, "drop_send_listener") /\ Finish(s) /\ queue' = queue
        BY <1>6 DEF DropSendListener, queueVars
    <2>2. /\ todo' \in [Thread -> Seq(Op)]
          /\ ~Remaining(s, "drain")'
          /\ \A op : op # "drop_send_listener" /\ StillToDo(op) => StillToDo(op)'
        BY <1>0, <2>1, FinishFacts
    <2>3. \A t \in Thread \ {s} : todo'[t] = todo[t]
        BY <1>0, <2>1 DEF Finish, Continue
    <2> QED BY <1>1, <2>1, <2>2, <2>3
<1> QED BY <1>2, <1>4, <1>5, <1>6
        DEF SenderAction, SendStep, SleepOver, PushFull, AcquireSendListener,
            SendListenerReady, SendListenerPending, StartSend, PollSend, vars, channelVars,
            queueVars

\* A sender changes the listeners of send_event by its own, and leaves the others
\* of them as they are, but for notifying one.
LEMMA SenderListener ==
    ASSUME SendIInv, NEW s \in Sender, SenderAction(s)
    PROVE  /\ send_event' \in EventType(Thread)
           /\ \A r \in Sender \ {s} :
                  /\ r \in Listeners(send_event)' <=> r \in Listeners(send_event)
                  /\ r \in send_event'.waiting => r \in send_event.waiting
                  /\ spc'[r] = spc[r] /\ method'[r] = method[r]
                  /\ sattempt'[r] = sattempt[r]
<1> USE DEF SendIInv, SendTypeOK, IInv, TypeOK, ChannelTypeOK
<1>0. s \in Thread
    BY SenderIsThread
<1>1. ASSUME NEW r \in Sender \ {s}
      PROVE  spc'[r] = spc[r] /\ method'[r] = method[r] /\ sattempt'[r] = sattempt[r]
    BY DEF SenderAction, SendStep, SleepOver, PushOk, PushClosed, PushFull,
           AcquireSendListener, SendListenerReady, SendListenerPending, DropSendListener,
           StartSend, PollSend, CancelSend, SendReturn, GoSend, sendVars
<1>2. CASE AcquireSendListener(s)
    BY <1>0, <1>1, <1>2, ListenFacts DEF AcquireSendListener
<1>3. CASE SendListenerReady(s)
    BY <1>1, <1>3, RemoveFacts DEF SendListenerReady
<1>4. CASE DropSendListener(s)
    BY <1>1, <1>4, DropListenerFacts DEF DropSendListener
<1>5. CASE UNCHANGED send_event
    BY <1>1, <1>5
<1> QED BY <1>2, <1>3, <1>4, <1>5
        DEF SenderAction, SendStep, SleepOver, PushOk, PushClosed, PushFull,
            SendListenerPending, StartSend, PollSend, CancelSend, vars, channelVars,
            eventVars

\* A sender preserves the invariant of module Receiving.
LEMMA SenderIInvStep ==
    ASSUME SendIInv, NEW s \in Sender, SenderAction(s)
    PROVE  IInv'
<1> USE DEF SendIInv, IInv
<1>1. TypeOK'
    <2>1. s \in Thread
        BY SenderIsThread
    <2>2. queue' \in Seq(Thread)
        <3>1. queue \in Seq(Thread) /\ Append(queue, s) \in Seq(Thread)
            BY <2>1 DEF TypeOK, ChannelTypeOK
        <3>2. queue' = queue \/ queue' = Append(queue, s)
            BY SenderFrame
        <3> QED BY <3>1, <3>2
    <2> QED BY <2>2, SenderFrame, SenderListener
            DEF TypeOK, ChannelTypeOK, inboxVars, haltVars, procVars
<1>2. ReceiveInv' /\ ListenersInUse'
    <2>1. \A p \in Process : p \in Thread \ {s}
        BY ChannelAssumption, SenderIsThread
    <2>2. UNCHANGED <<inboxVars, recv_event, procVars>>
          /\ \A p \in Process : todo'[p] = todo[p]
        BY <2>1, SenderFrame
    <2> QED BY <2>2 DEF ReceiveInv, ListenersInUse, inboxVars, procVars, Remaining
<1>3. InboxCountExact' /\ HaltDebtBounded' /\ HaltsConserved'
    BY SenderFrame
       DEF InboxCountExact, HaltDebtBounded, HaltsConserved, Live, Halted, Deciding,
           Permits, inboxVars, haltVars, procVars
<1>4. WakeupInv'
    BY SenderFrame, WakeupKept DEF haltVars
<1>5. ExitInv'
    <2>1. ASSUME NEW t \in Thread, Remaining(t, "drain")'
          PROVE  Remaining(t, "drain") /\ todo'[t] = todo[t]
        BY <2>1, SenderFrame DEF Remaining
    <2>2. Live' = Live /\ closed' = closed
        BY SenderFrame DEF Live, inboxVars
    <2>3. StillToDo("drain") => StillToDo("drain")'
        BY SenderFrame
    <2>4. closed => queue' = queue
        BY SenderFrame
    <2> QED BY <2>1, <2>2, <2>3, <2>4 DEF ExitInv
<1> QED BY <1>1, <1>2, <1>3, <1>4, <1>5
-----------------------------------------------------------------------------
(***************************************************************************)
(* A step of a sender.                                                     *)
(***************************************************************************)
\* A sender preserves what its place says about it.
LEMMA SenderInvOwn ==
    ASSUME SendIInv, NEW s \in Sender, SenderAction(s)
    PROVE  SenderInv'
<1> DEFINE Mine == /\ spc[s] # "idle" => todo[s] = <<>>
                   /\ spc[s] \in {"listen", "poll", "parked"} => Bounded
                   /\ s \in Listeners(send_event) => Bounded
                   /\ s \in Listeners(send_event) /\ spc[s] \notin {"idle", "poll"}
                          => method[s] = "send"
<1> SUFFICES Mine'
    <2>1. \A r \in Sender \ {s} : todo'[r] = todo[r]
        BY SenderFrame, SenderIsThread
    <2> QED BY <2>1, SenderListener DEF SendIInv, SenderInv, Bounded
<1> USE DEF SendIInv, SendTypeOK, IInv, TypeOK, ChannelTypeOK
<1>0. Mine /\ Bounded' = Bounded
    BY DEF SenderInv, Bounded
<1>1. CASE SleepOver(s) \/ PollSend(s) \/ SendListenerPending(s)
    BY <1>0, <1>1
       DEF SleepOver, PollSend, SendListenerPending, GoSend, vars, channelVars, eventVars
<1>2. CASE PushOk(s) \/ PushClosed(s) \/ CancelSend(s)
    BY <1>0, <1>2
       DEF PushOk, PushClosed, CancelSend, SendReturn, GoSend, eventVars
<1>3. CASE PushFull(s)
    BY <1>0, <1>3, FullIsNotEmpty
       DEF PushFull, SendReturn, GoSend, vars, channelVars, eventVars
<1>4. CASE AcquireSendListener(s)
    BY <1>0, <1>4 DEF AcquireSendListener, GoSend
<1>5. CASE SendListenerReady(s)
    <2>1. s \notin Listeners(send_event)'
        BY <1>5, RemoveFacts DEF SendListenerReady
    <2> QED BY <1>0, <1>5, <2>1 DEF SendListenerReady, GoSend
<1>6. CASE DropSendListener(s)
    <2>1. s \notin Listeners(send_event)' /\ spc[s] = "idle"
        BY <1>0, <1>6, DropListenerFacts DEF DropSendListener, Pending
    <2> QED BY <1>0, <1>6, <2>1 DEF DropSendListener, sendVars
<1>7. CASE StartSend(s)
    <2>1. s \notin Listeners(send_event)
        BY <1>7, ContainsNone DEF StartSend, SendListenersInUse, Remaining
    <2>2. /\ UNCHANGED vars
          /\ spc'[s] \in {"idle", "sleep", "push"}
        BY <1>7 DEF StartSend, SendReturn, GoSend
    <2>3. UNCHANGED <<todo, send_event>> /\ todo[s] = <<>>
        BY <1>7, <2>2 DEF StartSend, vars, channelVars, eventVars
    <2> QED BY <2>1, <2>2, <2>3
<1> QED BY <1>1, <1>2, <1>3, <1>4, <1>5, <1>6, <1>7 DEF SenderAction, SendStep

\* A sender that is done drops its listener.
LEMMA SendListenersOwn ==
    ASSUME SendIInv, NEW s \in Sender, SenderAction(s)
    PROVE  SendListenersInUse'
<1> DEFINE Mine == s \in Listeners(send_event) /\ spc[s] = "idle"
                       => Remaining(s, "drop_send_listener")
<1> SUFFICES Mine'
    <2>1. \A r \in Sender \ {s} : todo'[r] = todo[r]
        BY SenderFrame, SenderIsThread
    <2> QED BY <2>1, SenderListener DEF SendIInv, SendListenersInUse, Remaining
<1> USE DEF SendIInv, SendTypeOK, IInv, TypeOK, ChannelTypeOK
<1>0. /\ s \in Thread /\ Mine
      /\ s \in Listeners(send_event) => Bounded
      /\ s \in Listeners(send_event) /\ spc[s] \notin {"idle", "poll"}
             => method[s] = "send"
    BY SenderIsThread DEF SenderInv, SendListenersInUse
<1>1. CASE PushOk(s) \/ PushClosed(s) \/ CancelSend(s)
    <2>1. /\ spc[s] \notin {"idle", "poll"} /\ UNCHANGED send_event
          /\ \/ Continue(s, AfterSend(s))
             \/ Continue(s, <<"recv_notify_one">> \o AfterSend(s))
        BY <1>1 DEF PushOk, PushClosed, CancelSend, push_msg, eventVars
    <2>2. CASE s \notin Listeners(send_event)
        BY <2>1, <2>2
    <2>3. CASE s \in Listeners(send_event)
        <3>1. /\ AfterSend(s) \in Seq(Op)
              /\ Seqs!Contains(AfterSend(s), "drop_send_listener")
            BY <1>0, <2>1, <2>3, AfterSendFacts
        <3>2. "recv_notify_one" \in Op
            BY DEF Op
        <3>3. /\ <<"recv_notify_one">> \o AfterSend(s) \in Seq(Op)
              /\ Seqs!Contains(<<"recv_notify_one">> \o AfterSend(s), "drop_send_listener")
            BY <3>1, <3>2, ContainsCons
        <3> QED BY <1>0, <2>1, <3>1, <3>3, ContinueFacts
    <2> QED BY <2>2, <2>3
<1>2. CASE PushFull(s)
    BY <1>0, <1>2
       DEF PushFull, SendReturn, GoSend, vars, channelVars, eventVars
<1>3. CASE SleepOver(s) \/ PollSend(s) \/ SendListenerPending(s)
           \/ AcquireSendListener(s) \/ SendListenerReady(s)
    BY <1>3 DEF SleepOver, PollSend, SendListenerPending, AcquireSendListener,
                SendListenerReady, GoSend
<1>4. CASE DropSendListener(s)
    BY <1>4, DropListenerFacts DEF DropSendListener
<1>5. CASE StartSend(s)
    <2>1. s \notin Listeners(send_event)
        BY <1>0, <1>5, ContainsNone DEF StartSend, Remaining
    <2> QED BY <1>5, <2>1 DEF StartSend, vars, channelVars, eventVars
<1> QED BY <1>1, <1>2, <1>3, <1>4, <1>5 DEF SenderAction, SendStep

\* A sender comes past its push only before a full queue that is open.
LEMMA OwnPassedPush ==
    ASSUME SendIInv, NEW s \in Sender, SenderAction(s), PassedPush(s)'
    PROVE  PassedPush(s) \/ (~closed /\ queue' # <<>>)
<1> USE DEF SendIInv, SendTypeOK, IInv, TypeOK, ChannelTypeOK, PassedPush
<1>1. CASE SleepOver(s) \/ PollSend(s) \/ CancelSend(s) \/ PushOk(s) \/ PushClosed(s)
    BY <1>1 DEF SleepOver, PollSend, CancelSend, PushOk, PushClosed, SendReturn, GoSend
<1>2. CASE SendListenerPending(s)
    BY <1>2 DEF SendListenerPending, GoSend, vars, channelVars, eventVars
<1>3. CASE PushFull(s)
    BY <1>3, FullIsNotEmpty DEF PushFull, vars, channelVars, queueVars
<1>4. CASE AcquireSendListener(s) \/ SendListenerReady(s)
    BY <1>4 DEF AcquireSendListener, SendListenerReady, GoSend
<1>5. CASE DropSendListener(s)
    <2>1. s \notin Listeners(send_event)'
        BY <1>5, DropListenerFacts DEF DropSendListener
    <2> QED BY <2>1 DEF Listeners
<1>6. CASE StartSend(s)
    <2>1. spc'[s] \in {"idle", "sleep", "push"}
        BY <1>6 DEF StartSend, SendReturn, GoSend
    <2> QED BY <2>1
<1> QED BY <1>1, <1>2, <1>3, <1>4, <1>5, <1>6 DEF SenderAction, SendStep

\* While somebody else sleeps before a queue that stays empty, a sender does not
\* end the way of somebody to it.
LEMMA SendOnTheWayKept ==
    ASSUME SendIInv, NEW s \in Sender, SenderAction(s),
           NEW r \in Sender, PassedPush(r), PassedPush(r)', queue' = <<>>,
           SendOnTheWay
    PROVE  SendOnTheWay'
<1> USE DEF SendIInv, SendTypeOK, IInv, TypeOK, ChannelTypeOK
<1>0. queue = <<>> /\ queue' = queue /\ s \in Thread
    <2>1. Append(queue, s) # <<>>
        BY SenderIsThread, AppendNotEmpty
    <2> QED BY <2>1, SenderFrame, SenderIsThread
<1>1. CASE StillToDo("send_notify_one") \/ StillToDo("send_notify_all")
    BY <1>1, SenderFrame DEF SendOnTheWay
<1>2. CASE send_event.notified # {}
    <2>1. CASE SendListenerReady(s)
        <3>1. spc'[s] = "push" /\ sattempt'[s] = 3
            BY <2>1 DEF SendListenerReady, GoSend
        <3> QED BY <3>1 DEF SendOnTheWay
    <2>2. CASE DropSendListener(s)
        <3>1. send_event'.waiting # {}
            BY DEF PassedPush
        <3>2. ASSUME NEW e \in EventType(Thread), NEW f \in DropListener(e, s),
                     e.notified # {}, f.waiting # {}
              PROVE  f.notified # {}
            BY ONLY <3>2, DropListenerFacts
        <3>3. send_event'.notified # {}
            BY <1>2, <2>2, <3>1, <3>2 DEF DropSendListener
        <3> QED BY <3>3 DEF SendOnTheWay
    <2>3. CASE AcquireSendListener(s)
        <3>1. Listen(send_event, s).notified = send_event.notified
            BY <1>0, ListenFacts
        <3> QED BY <1>2, <2>3, <3>1 DEF AcquireSendListener, SendOnTheWay
    <2>4. CASE UNCHANGED send_event
        BY <1>2, <2>4 DEF SendOnTheWay
    <2> QED BY <2>1, <2>2, <2>3, <2>4
            DEF SenderAction, SendStep, SleepOver, PushOk, PushClosed, PushFull,
                SendListenerPending, StartSend, PollSend, CancelSend, vars, channelVars,
                eventVars
<1>3. ASSUME NEW q \in Sender, spc[q] = "push", sattempt[q] = 3
      PROVE  SendOnTheWay'
    <2>1. CASE q # s
        <3>1. spc'[q] = "push" /\ sattempt'[q] = 3
            BY <1>3, <2>1, SenderListener
        <3> QED BY <3>1 DEF SendOnTheWay
    <2>2. CASE q = s
        <3>1. todo[s] = <<>> /\ spc[s] = "push"
            BY <1>3, <2>2 DEF SenderInv
        <3>2. CASE PushOk(s)
            BY <1>0, <3>2 DEF PushOk, push_msg
        <3>3. CASE PushClosed(s)
            <4>1. StillToDo("send_notify_all")
                BY <3>3 DEF PushClosed, SendWakeupInv
            <4> QED BY <4>1, SenderFrame DEF SendOnTheWay
        <3>4. CASE PushFull(s)
            BY <1>0, <3>4, FullIsNotEmpty DEF PushFull
        <3> QED BY <3>1, <3>2, <3>3, <3>4
                DEF SenderAction, SendStep, SleepOver, AcquireSendListener,
                    SendListenerReady, SendListenerPending, DropSendListener, Pending,
                    StartSend, PollSend, CancelSend
    <2> QED BY <2>1, <2>2
<1> QED BY <1>1, <1>2, <1>3 DEF SendOnTheWay

\* A sender preserves the wake-ups of all of them.
LEMMA SendWakeupOwn ==
    ASSUME SendIInv, NEW s \in Sender, SenderAction(s)
    PROVE  SendWakeupInv'
<1>1. ASSUME NEW r \in Sender, PassedPush(r)'
      PROVE  PassedPush(r) \/ (~closed /\ queue' # <<>>)
    <2>1. CASE r = s
        BY <1>1, <2>1, OwnPassedPush
    <2>2. CASE r # s
        BY <1>1, <2>2, SenderListener DEF PassedPush
    <2> QED BY <2>1, <2>2
<1>2. ASSUME NEW r \in Sender, PassedPush(r)', closed'
      PROVE  StillToDo("send_notify_all")'
    <2>1. closed
        BY <1>2, SenderFrame
    <2>2. StillToDo("send_notify_all")
        BY <1>1, <1>2, <2>1 DEF SendIInv, SendWakeupInv
    <2> QED BY <2>2, SenderFrame
<1>3. ASSUME NEW r \in Sender, PassedPush(r)', queue' = <<>>
      PROVE  SendOnTheWay'
    <2>1. queue = <<>>
        <3>1. Append(queue, s) # <<>>
            BY SenderIsThread, AppendNotEmpty DEF SendIInv, IInv, TypeOK, ChannelTypeOK
        <3> QED BY <1>3, <3>1, SenderFrame
    <2>2. PassedPush(r) /\ SendOnTheWay
        BY <1>1, <1>3, <2>1 DEF SendIInv, SendWakeupInv
    <2> QED BY <1>3, <2>2, SendOnTheWayKept
<1> QED BY <1>2, <1>3 DEF SendWakeupInv
-----------------------------------------------------------------------------
(***************************************************************************)
(* What the steps of module Receiving do to the senders.                   *)
(***************************************************************************)
\* A pop leaves its call with senders to notify.
LEMMA PopNotifiesSenders ==
    ASSUME todo \in [Thread -> Seq(Op)], NEW t \in Thread, NEW rest \in Seq(Op),
           pop_msg(t, rest)
    PROVE  StillToDo("send_notify_one")'
<1>1. "send_notify_one" \in Op /\ "recv_notify_one" \in Op
    BY DEF Op
<1> DEFINE ops == <<"send_notify_one", "recv_notify_one">> \o rest
<1>2. ops \in Seq(Op) /\ Seqs!Contains(ops, "send_notify_one")
    BY <1>1, ContainsCons2
<1>3. Continue(t, ops)
    BY DEF pop_msg
<1> HIDE DEF ops
<1>4. Remaining(t, "send_notify_one")'
    BY <1>2, <1>3, ContinueFacts
<1> QED BY <1>4 DEF StillToDo

\* The call that closes the queue has the senders to notify.
LEMMA CloseNotifiesSenders ==
    ASSUME todo \in [Thread -> Seq(Op)], NEW t \in Thread, NEW rest \in Seq(Op),
           close(t, rest), ~closed
    PROVE  StillToDo("send_notify_all")'
<1>1. "send_notify_all" \in Op /\ "recv_notify_all" \in Op
    BY DEF Op
<1> DEFINE ops == <<"recv_notify_all", "send_notify_all">> \o rest
<1>2. ops \in Seq(Op) /\ Seqs!Contains(ops, "send_notify_all")
    BY <1>1, ContainsCons2
<1>3. Continue(t, ops)
    BY DEF close
<1> HIDE DEF ops
<1>4. Remaining(t, "send_notify_all")'
    BY <1>2, <1>3, ContinueFacts
<1> QED BY <1>4 DEF StillToDo

\* Only the two notifications touch send_event.
LEMMA ReceiverEvent ==
    ASSUME IInv, [Next]_vars
    PROVE  \/ UNCHANGED send_event
           \/ \E t \in Thread : SendNotifyOne(t) \/ SendNotifyAll(t)
<1>1. ASSUME NEW t \in Thread, CallStep(t)
      PROVE  UNCHANGED send_event \/ SendNotifyOne(t) \/ SendNotifyAll(t)
    BY <1>1 DEF CallStep, RecvNotifyOne, RecvNotifyAll, ExitNotifyAll, Close, HaltSomeMax,
                Drain, eventVars
<1>2. ASSUME NEW c \in Caller, CallerStep(c)
      PROVE  UNCHANGED send_event
    BY <1>2 DEF CallerStep, CallSendNow, CallClose, CallHaltSome, CallHalt, CallSpawn,
                eventVars
<1>3. ASSUME NEW p \in Process, ReceiveStep(p) \/ UserStep(p)
      PROVE  UNCHANGED send_event
    BY <1>3
       DEF ReceiveStep, UserStep, LoadHaltCount, SubHaltCount, PopOk, PopClosed, PopEmpty,
           AcquireListener, ListenerReady, ListenerPending, DropRecvListener, TryRecv,
           Recv, Poll, Cancel, DropInbox, channelVars, eventVars
<1>4. UNCHANGED vars => UNCHANGED send_event
    BY DEF vars, channelVars, eventVars
<1> QED BY <1>1, <1>2, <1>3, <1>4 DEF Next

\* They neither create nor drop a listener, and lose no notification.
LEMMA ReceiverListeners ==
    ASSUME IInv, [Next]_vars
    PROVE  /\ Listeners(send_event)' = Listeners(send_event)
           /\ send_event'.waiting \subseteq send_event.waiting
           /\ send_event.notified # {} => send_event'.notified # {}
<1> USE DEF IInv, TypeOK, ChannelTypeOK
<1>1. CASE UNCHANGED send_event
    BY <1>1
<1>2. ASSUME NEW t \in Thread, SendNotifyOne(t)
      PROVE  /\ Listeners(send_event)' = Listeners(send_event)
             /\ send_event'.waiting \subseteq send_event.waiting
             /\ send_event.notified # {} => send_event'.notified # {}
    BY <1>2, NotifyOneFacts, NotifiedKept DEF SendNotifyOne
<1>3. ASSUME NEW t \in Thread, SendNotifyAll(t)
      PROVE  /\ Listeners(send_event)' = Listeners(send_event)
             /\ send_event'.waiting \subseteq send_event.waiting
             /\ send_event.notified # {} => send_event'.notified # {}
    BY <1>3, NotifyAllFacts, NotifiedKept DEF SendNotifyAll
<1> QED BY <1>1, <1>2, <1>3, ReceiverEvent

\* A notification that is still to be given to the senders is given, and then
\* nobody waits or somebody is notified.
LEMMA ReceiverStillToDo ==
    ASSUME IInv, [Next]_vars
    PROVE  /\ StillToDo("send_notify_all")
                  => StillToDo("send_notify_all")' \/ send_event'.waiting = {}
           /\ StillToDo("send_notify_one")
                  => \/ StillToDo("send_notify_one")' \/ send_event'.waiting = {}
                     \/ send_event'.notified # {}
<1> USE DEF IInv, TypeOK, ChannelTypeOK
<1>1. ASSUME NEW t \in Thread, CallStep(t)
      PROVE  /\ StillToDo("send_notify_all")
                    => StillToDo("send_notify_all")' \/ send_event'.waiting = {}
             /\ StillToDo("send_notify_one")
                    => \/ StillToDo("send_notify_one")' \/ send_event'.waiting = {}
                       \/ send_event'.notified # {}
    <2>1. CASE Head(todo[t]) = "send_notify_all"
        <3>1. SendNotifyAll(t) /\ Head(todo[t]) # "send_notify_one"
            BY <1>1, <2>1
               DEF CallStep, RecvNotifyOne, RecvNotifyAll, SendNotifyOne, ExitNotifyAll,
                   Close, HaltSomeMax, Drain, Pending
        <3> QED BY <1>1, <3>1, NotifyAllFacts, CallStepKeeps DEF SendNotifyAll
    <2>2. CASE Head(todo[t]) = "send_notify_one"
        <3>1. SendNotifyOne(t) /\ Head(todo[t]) # "send_notify_all"
            BY <1>1, <2>2
               DEF CallStep, RecvNotifyOne, RecvNotifyAll, SendNotifyAll, ExitNotifyAll,
                   Close, HaltSomeMax, Drain, Pending
        <3>2. send_event'.waiting # {} => send_event'.notified # {}
            BY <3>1, NotifyOneFacts DEF SendNotifyOne
        <3> QED BY <1>1, <3>1, <3>2, CallStepKeeps
    <2> QED BY <1>1, <2>1, <2>2, CallStepKeeps
<1>2. ASSUME NEW c \in Caller, CallerStep(c), NEW op, StillToDo(op)
      PROVE  StillToDo(op)'
    <2>1. /\ c \in Thread /\ ~Remaining(c, op)
          /\ \A u \in Thread \ {c} : todo'[u] = todo[u]
        BY <1>2, CallerStepOthers, ContainsNone DEF Remaining
    <2> QED BY <1>2, <2>1 DEF StillToDo, Remaining
<1>3. ASSUME NEW p \in Process, ReceiveStep(p) \/ UserStep(p), NEW op, StillToDo(op),
             op # "drop_recv_listener"
      PROVE  StillToDo(op)'
    BY <1>3, ProcessStepEffects
<1>4. ASSUME UNCHANGED vars, NEW op, StillToDo(op)
      PROVE  StillToDo(op)'
    BY <1>4 DEF vars, channelVars, StillToDo, Remaining
<1> QED BY <1>1, <1>2, <1>3, <1>4 DEF Next

\* A step that empties the queue, or closes it, leaves the senders to notify; and
\* a closed queue is never opened.
LEMMA ReceiverQueue ==
    ASSUME IInv, [Next]_vars
    PROVE  /\ closed => closed'
           /\ closed' => closed \/ StillToDo("send_notify_all")'
           /\ queue' = <<>> => queue = <<>> \/ StillToDo("send_notify_one")'
<1> USE DEF IInv, TypeOK, ChannelTypeOK
<1>0. Process \subseteq Thread /\ Caller \subseteq Thread /\ <<>> \in Seq(Op)
      /\ <<"halt_some_max">> \in Seq(Op)
    BY ChannelAssumption DEF Op
<1>1. ASSUME NEW t \in Thread, CallStep(t)
      PROVE  /\ closed => closed'
             /\ closed' => closed \/ StillToDo("send_notify_all")'
             /\ queue' = <<>> => queue = <<>> \/ StillToDo("send_notify_one")'
    <2>1. CASE Close(t)
        <3>1. Tail(todo[t]) \in Seq(Op) /\ close(t, Tail(todo[t])) /\ queue' = queue
            BY <2>1, ContainsTail DEF Close, Pending
        <3> QED BY <3>1, CloseNotifiesSenders DEF close
    <2>2. CASE Drain(t)
        BY <2>2, PopNotifiesSenders DEF Drain
    <2>3. CASE UNCHANGED queueVars
        BY <2>3 DEF queueVars
    <2> QED BY <1>1, <2>1, <2>2, <2>3
            DEF CallStep, RecvNotifyOne, RecvNotifyAll, SendNotifyOne, SendNotifyAll,
                ExitNotifyAll, HaltSomeMax
<1>2. ASSUME NEW c \in Caller, CallerStep(c)
      PROVE  /\ closed => closed'
             /\ closed' => closed \/ StillToDo("send_notify_all")'
             /\ queue' = <<>> => queue = <<>> \/ StillToDo("send_notify_one")'
    <2>1. CASE CallClose(c) \/ CallHalt(c)
        BY <1>0, <2>1, CloseNotifiesSenders DEF CallClose, CallHalt, close
    <2>2. CASE CallSendNow(c)
        BY <1>0, <2>2, AppendNotEmpty DEF CallSendNow, push_msg
    <2> QED BY <1>2, <2>1, <2>2 DEF CallerStep, CallHaltSome, CallSpawn, queueVars
<1>3. ASSUME NEW p \in Process, ReceiveStep(p) \/ UserStep(p)
      PROVE  /\ closed => closed'
             /\ closed' => closed \/ StillToDo("send_notify_all")'
             /\ queue' = <<>> => queue = <<>> \/ StillToDo("send_notify_one")'
    <2>1. CASE PopOk(p)
        BY <1>0, <2>1, AfterReceiveFacts, PopNotifiesSenders DEF PopOk
    <2>2. CASE UNCHANGED queueVars
        BY <2>2 DEF queueVars
    <2> QED BY <1>3, <2>1, <2>2
            DEF ReceiveStep, UserStep, LoadHaltCount, SubHaltCount, PopClosed, PopEmpty,
                AcquireListener, ListenerReady, ListenerPending, DropRecvListener, TryRecv,
                Recv, Poll, Cancel, DropInbox, channelVars
<1>4. CASE UNCHANGED vars
    BY <1>4 DEF vars, channelVars, queueVars
<1> QED BY <1>1, <1>2, <1>3, <1>4 DEF Next

\* The rest of a send is left to its sender.
LEMMA ReceiverTodo ==
    ASSUME IInv, [Next]_vars, NEW s \in Sender
    PROVE  /\ todo[s] = <<>> => todo'[s] = <<>>
           /\ Remaining(s, "drop_send_listener") => Remaining(s, "drop_send_listener")'
<1> USE DEF IInv, TypeOK, ChannelTypeOK
<1>0. s \in Thread /\ s \notin Process /\ s \notin Caller /\ Process \subseteq Thread
    BY SenderIsThread, ChannelAssumption
<1>1. ASSUME NEW t \in Thread, CallStep(t)
      PROVE  /\ todo[s] = <<>> => todo'[s] = <<>>
             /\ Remaining(s, "drop_send_listener") => Remaining(s, "drop_send_listener")'
    <2>1. CASE t = s
        <3>1. todo[s] # <<>> /\ Head(todo[s]) # "drop_send_listener"
            BY <1>1, <2>1
               DEF CallStep, RecvNotifyOne, RecvNotifyAll, SendNotifyOne, SendNotifyAll,
                   ExitNotifyAll, Close, HaltSomeMax, Drain, Pending
        <3> QED BY <1>1, <2>1, <3>1, CallStepKeeps
    <2>2. CASE t # s
        BY <1>0, <1>1, <2>2, CallStepFrame DEF Remaining
    <2> QED BY <2>1, <2>2
<1>2. ASSUME NEW c \in Caller, CallerStep(c)
      PROVE  todo'[s] = todo[s]
    BY <1>0, <1>2, CallerStepOthers
<1>3. ASSUME NEW p \in Process, ReceiveStep(p) \/ UserStep(p)
      PROVE  todo'[s] = todo[s]
    BY <1>0, <1>3
       DEF ReceiveStep, UserStep, LoadHaltCount, SubHaltCount, PopOk, PopClosed, PopEmpty,
           AcquireListener, ListenerReady, ListenerPending, DropRecvListener, TryRecv,
           Recv, Poll, Cancel, DropInbox, Finish, pop_msg, remove_inbox, Continue,
           channelVars
<1>4. CASE UNCHANGED vars
    BY <1>4 DEF vars, channelVars, Remaining
<1> QED BY <1>1, <1>2, <1>3, <1>4 DEF Next, Remaining

\* A step of module Receiving preserves the invariant of the senders.
LEMMA ReceiverSendStep ==
    ASSUME SendIInv, [Next]_vars, UNCHANGED <<sendVars, backpressure>>
    PROVE  SenderInv' /\ SendListenersInUse' /\ SendWakeupInv'
<1> USE DEF SendIInv, sendVars
<1>1. SenderInv' /\ SendListenersInUse'
    BY ReceiverListeners, ReceiverTodo DEF SenderInv, SendListenersInUse, Bounded
<1>2. ASSUME NEW s \in Sender, PassedPush(s)'
      PROVE  PassedPush(s) /\ send_event'.waiting # {}
    BY <1>2, ReceiverListeners DEF PassedPush
<1>3. ASSUME NEW s \in Sender, PassedPush(s)', closed'
      PROVE  StillToDo("send_notify_all")'
    BY <1>2, <1>3, ReceiverQueue, ReceiverStillToDo DEF SendWakeupInv
<1>4. ASSUME NEW s \in Sender, PassedPush(s)', queue' = <<>>
      PROVE  SendOnTheWay'
    <2>1. CASE queue = <<>>
        <3>1. SendOnTheWay
            BY <1>2, <1>4, <2>1 DEF SendWakeupInv
        <3> QED BY <1>2, <1>4, <3>1, ReceiverStillToDo, ReceiverListeners DEF SendOnTheWay
    <2>2. CASE queue # <<>>
        BY <1>4, <2>2, ReceiverQueue DEF SendOnTheWay
    <2> QED BY <2>1, <2>2
<1> QED BY <1>1, <1>3, <1>4 DEF SendWakeupInv
-----------------------------------------------------------------------------
(***************************************************************************)
(* The theorems.                                                           *)
(***************************************************************************)
\* Every step preserves the types of the senders.
LEMMA SendTypeStep ==
    ASSUME SendIInv, [SendNext]_allVars, IInv'
    PROVE  SendTypeOK'
<1> USE DEF SendIInv, SendTypeOK, SendPlaces, SendResults, SendMethodNames
<1>0. TypeOK' /\ MaxSends \in Nat /\ Methods \in [Sender -> SUBSET SendMethodNames]
    BY SendingAssumption DEF IInv
<1>1. CASE UNCHANGED <<sendVars, backpressure>>
    BY <1>0, <1>1 DEF sendVars
<1>2. ASSUME NEW s \in Sender, StartSend(s), UNCHANGED backpressure
      PROVE  SendTypeOK'
    <2>1. PICK m \in Methods[s] :
              /\ method' = [method EXCEPT ![s] = m]
              /\ \/ spc' = [spc EXCEPT ![s] = "idle"]
                    /\ sresult' = [sresult EXCEPT ![s] = "Full"]
                 \/ spc' = [spc EXCEPT ![s] = "sleep"]
                    /\ sresult' = [sresult EXCEPT ![s] = "None"]
                 \/ spc' = [spc EXCEPT ![s] = "push"]
                    /\ sresult' = [sresult EXCEPT ![s] = "None"]
        BY <1>2 DEF StartSend, SendReturn, GoSend
    <2>2. m \in SendMethodNames
        BY <1>0, <2>1
    <2>3. sends[s] + 1 \in 0 .. MaxSends
        BY <1>0, <1>2 DEF StartSend
    <2>4. /\ sends' = [sends EXCEPT ![s] = @ + 1] /\ sattempt' = [sattempt EXCEPT ![s] = 1]
        BY <1>2 DEF StartSend
    <2>5. sends' \in [Sender -> 0 .. MaxSends] /\ sattempt' \in [Sender -> 1 .. 3]
        BY <2>3, <2>4
    <2>6. /\ method' \in [Sender -> SendMethodNames]
          /\ spc' \in [Sender -> SendPlaces]
          /\ sresult' \in [Sender -> SendResults]
        BY <2>1, <2>2
    <2> QED BY <1>0, <1>2, <2>5, <2>6
<1>3. ASSUME NEW s \in Sender, SendStep(s) \/ PollSend(s) \/ CancelSend(s),
             UNCHANGED backpressure
      PROVE  SendTypeOK'
    <2>1. UNCHANGED <<method, sends>>
        BY <1>3 DEF SendStep, SleepOver, PushOk, PushClosed, PushFull, AcquireSendListener,
                    SendListenerReady, SendListenerPending, DropSendListener, PollSend,
                    CancelSend, sendVars
    <2>2. \/ spc' = spc
          \/ \E place \in SendPlaces : spc' = [spc EXCEPT ![s] = place]
        BY <1>3 DEF SendStep, SleepOver, PushOk, PushClosed, PushFull, AcquireSendListener,
                    SendListenerReady, SendListenerPending, DropSendListener, PollSend,
                    CancelSend, SendReturn, GoSend, sendVars
    <2>3. \/ sattempt' = sattempt
          \/ \E k \in 1 .. 3 : sattempt' = [sattempt EXCEPT ![s] = k]
        BY <1>3 DEF SendStep, SleepOver, PushOk, PushClosed, PushFull, AcquireSendListener,
                    SendListenerReady, SendListenerPending, DropSendListener, PollSend,
                    CancelSend, sendVars
    <2>4. \/ sresult' = sresult
          \/ \E res \in SendResults : sresult' = [sresult EXCEPT ![s] = res]
        BY <1>3 DEF SendStep, SleepOver, PushOk, PushClosed, PushFull, AcquireSendListener,
                    SendListenerReady, SendListenerPending, DropSendListener, PollSend,
                    CancelSend, SendReturn, sendVars
    <2> QED BY <1>0, <1>3, <2>1, <2>2, <2>3, <2>4
<1>4. UNCHANGED allVars => UNCHANGED <<sendVars, backpressure>>
    BY DEF allVars
<1> QED BY <1>1, <1>2, <1>3, <1>4 DEF SendNext

\* Senders that have not started satisfy the invariant.
LEMMA SendInit_SendIInv == SendInit => SendIInv
<1> SUFFICES ASSUME SendInit PROVE SendIInv
    OBVIOUS
<1> USE DEF SendInit
<1>1. IInv /\ TypeOK
    BY InitIInv DEF IInv
<1>2. send_event.waiting = {} /\ Listeners(send_event) = {}
    BY DEF Init, ChannelInit, ChannelNew, NewEvent, Listeners
<1>3. SendTypeOK
    BY <1>1, SendingAssumption
       DEF SendTypeOK, SendPlaces, SendMethodNames, SendResults
<1> QED BY <1>1, <1>2, <1>3
        DEF SendIInv, SenderInv, SendListenersInUse, SendWakeupInv, PassedPush

\* Every step of a sender, a caller or a process preserves it.
LEMMA SendIInvStep ==
    ASSUME SendIInv, [SendNext]_allVars
    PROVE  SendIInv'
<1>1. ASSUME NEW s \in Sender, SenderAction(s)
      PROVE  IInv' /\ SenderInv' /\ SendListenersInUse' /\ SendWakeupInv'
    BY <1>1, SenderIInvStep, SenderInvOwn, SendListenersOwn, SendWakeupOwn
<1>2. ASSUME [Next]_vars, UNCHANGED <<sendVars, backpressure>>
      PROVE  IInv' /\ SenderInv' /\ SendListenersInUse' /\ SendWakeupInv'
    BY <1>2, IInvStep, ReceiverSendStep DEF SendIInv
<1>3. IInv' /\ SenderInv' /\ SendListenersInUse' /\ SendWakeupInv'
    BY <1>1, <1>2 DEF SendNext, SenderAction, allVars
<1> QED BY <1>3, SendTypeStep DEF SendIInv

\* SendIInv is inductive: the invariant of the channel survives any number of
\* senders.
THEOREM SendInductiveInvariant == SendSpec => []SendIInv
<1>1. SendIInv /\ [SendNext]_allVars => SendIInv'
    BY SendIInvStep
<1> QED BY SendInit_SendIInv, <1>1, PTL DEF SendSpec

\* The senders keep to the states of SendFut and of its callers
\* (channel/sending.rs).
THEOREM SendTypeCorrect == SendSpec => []SendTypeOK
<1>1. SendIInv => SendTypeOK
    BY DEF SendIInv
<1> QED BY <1>1, SendInductiveInvariant, PTL

\* No SendFut sleeps through the closing of the channel: it tries to push again
\* after it acquired its listener, and close notifies every sender.
THEOREM CloseReachesTheSenders == SendSpec => []CloseReachesSenders
<1>1. SendIInv => CloseReachesSenders
    BY DEF SendIInv, SendWakeupInv, CloseReachesSenders, SendAsleep, PassedPush
<1> QED BY <1>1, SendInductiveInvariant, PTL

\* No SendFut sleeps before an empty queue unless somebody is on the way to it,
\* whichever futures are dropped and whichever notifications are absorbed.
THEOREM NoSenderStranded == SendSpec => []NobodyStranded
<1>1. SendIInv => NobodyStranded
    BY DEF SendIInv, SendWakeupInv, NobodyStranded, SendAsleep, PassedPush
<1> QED BY <1>1, SendInductiveInvariant, PTL

\* No listener outlives its SendFut.
THEOREM SendListenerUse == SendSpec => []SendListenersInUse
<1>1. SendIInv => SendListenersInUse
    BY DEF SendIInv
<1> QED BY <1>1, SendInductiveInvariant, PTL

\* With senders, too, the channel implements a mailbox: a push is a delivery.
THEOREM SendMailboxImplemented == SendSpec => ImplementsMailbox
<1>1. SendInit => M!Init
    BY MailboxInit DEF SendInit
<1>2. ASSUME SendIInv, [SendNext]_allVars
      PROVE  [M!Next]_<<queue, ~closed, Live>>
    <2>1. ASSUME NEW s \in Sender, SenderAction(s)
          PROVE  [M!Next]_<<queue, ~closed, Live>>
        <3>1. closed' = closed /\ Live' = Live
            BY <1>2, <2>1, SenderFrame DEF inboxVars, Live
        <3>2. queue' = queue \/ (~closed /\ queue' = Append(queue, s))
            BY <1>2, <2>1, SenderFrame
        <3>3. s \in Thread
            BY SenderIsThread
        <3> QED BY <3>1, <3>2, <3>3 DEF M!Next, M!Deliver
    <2>2. CASE [Next]_vars
        BY <1>2, <2>2, MailboxStep DEF SendIInv
    <2> QED BY <1>2, <2>1, <2>2 DEF SendNext, SenderAction, allVars
<1>3. SendIInv /\ [SendNext]_allVars => [M!Next]_<<queue, ~closed, Live>>
    BY <1>2
<1> QED BY <1>1, <1>3, SendInductiveInvariant, PTL
        DEF SendSpec, ImplementsMailbox, M!Spec, M!mailboxVars

\* The senders take no part in the halting: the race on halt_count still implements a
\* pool of permits.
THEOREM SendHaltPoolImplemented == SendSpec => ImplementsHaltPool
<1>1. SendInit => H!Init
    BY HaltPoolInit DEF SendInit
<1>2. ASSUME SendIInv, [SendNext]_allVars
      PROVE  [H!Next]_<<Permits, Halted>>
    <2>1. ASSUME NEW s \in Sender, SenderAction(s)
          PROVE  UNCHANGED <<Permits, Halted>>
        BY <1>2, <2>1, SenderFrame DEF haltVars, procVars, Permits, Halted
    <2>2. CASE [Next]_vars
        BY <1>2, <2>2, HaltPoolStep DEF SendIInv
    <2> QED BY <1>2, <2>1, <2>2 DEF SendNext, SenderAction, allVars
<1>3. SendIInv /\ [SendNext]_allVars => [H!Next]_<<Permits, Halted>>
    BY <1>2
<1> QED BY <1>1, <1>3, SendInductiveInvariant, PTL
        DEF SendSpec, ImplementsHaltPool, H!Spec

\* The receivers' side of the channel keeps its promises to any number of senders: a
\* message that a SendFut pushed is on its way to a receiver as one of send_now is, and
\* a receiver that sleeps misses neither it nor a halt nor the close.
THEOREM SendersWakeReceivers ==
    SendSpec => [](HaltNotLost /\ CloseNotLost /\ MessageNotLost)
<1>1. SendIInv => HaltNotLost /\ CloseNotLost /\ MessageNotLost
    BY Wakeups DEF SendIInv
<1> QED BY <1>1, SendInductiveInvariant, PTL

\* halt_count and inbox_count count what they should while senders come and go.
THEOREM SendCounting ==
    SendSpec => [](HaltsConserved /\ HaltDebtBounded /\ InboxCountExact)
<1>1. SendIInv => HaltsConserved /\ HaltDebtBounded /\ InboxCountExact
    BY DEF SendIInv, IInv
<1> QED BY <1>1, SendInductiveInvariant, PTL

\* No SendFut leaves a message in the queue of an actor that has exited: it pushed
\* before the close, and the drain took the message, or it finds the queue closed.
THEOREM SendCleanExit == SendSpec => []ExitLeavesNothing
<1>1. SendIInv => ExitLeavesNothing
    BY ExitInvClean DEF SendIInv, IInv
<1> QED BY <1>1, SendInductiveInvariant, PTL
-----------------------------------------------------------------------------
(***************************************************************************)
(* try_send on an unbounded channel.                                       *)
(***************************************************************************)
\* The messages are counted by their places in the queue.
LEMMA TryMessagesFinite ==
    ASSUME queue \in Seq(Thread)
    PROVE  /\ IsFiniteSet(TryMessages) /\ Cardinality(TryMessages) \in Nat
           /\ Cardinality(TryMessages) <= Len(queue)
<1>1. Len(queue) \in Nat /\ DOMAIN queue = 1 .. Len(queue)
    BY LenProperties
<1>2. IsFiniteSet(1 .. Len(queue)) /\ Cardinality(1 .. Len(queue)) = Len(queue)
    <2>1. /\ IsFiniteSet(1 .. Len(queue))
          /\ Cardinality(1 .. Len(queue)) = IF 1 > Len(queue) THEN 0 ELSE Len(queue) - 1 + 1
        BY <1>1, FS_Interval
    <2> QED BY <1>1, <2>1
<1>3. TryMessages \in SUBSET (1 .. Len(queue))
    BY <1>1 DEF TryMessages
<1> QED BY <1>2, <1>3, FS_Subset, FS_CardinalityType

\* A message at the end of the queue counts if its sender does.
LEMMA TryMessagesAppended ==
    ASSUME queue \in Seq(Thread), NEW m \in Thread, queue' = Append(queue, m)
    PROVE  TryMessages' = IF m \in TrySenders THEN TryMessages \cup {Len(queue) + 1}
                          ELSE TryMessages
<1>1. /\ DOMAIN queue' = 1 .. Len(queue) + 1 /\ DOMAIN queue = 1 .. Len(queue)
      /\ \A i \in 1 .. Len(queue) : queue'[i] = queue[i]
      /\ queue'[Len(queue) + 1] = m /\ Len(queue) \in Nat
    BY AppendProperties, LenProperties
<1>2. Len(queue) + 1 \notin 1 .. Len(queue)
    BY <1>1
<1>3. 1 .. Len(queue) + 1 = (1 .. Len(queue)) \cup {Len(queue) + 1}
    BY <1>1
<1> QED BY <1>1, <1>2, <1>3 DEF TryMessages

\* The queue has no more messages for losing one.
LEMMA TryMessagesPopped ==
    ASSUME queue \in Seq(Thread), queue # <<>>, queue' = Tail(queue)
    PROVE  /\ IsFiniteSet(TryMessages) /\ IsFiniteSet(TryMessages')
           /\ Cardinality(TryMessages') <= Cardinality(TryMessages)
<1> DEFINE shift == [i \in TryMessages' |-> i + 1]
<1>1. /\ DOMAIN queue' = 1 .. Len(queue) - 1 /\ DOMAIN queue = 1 .. Len(queue)
      /\ \A i \in 1 .. Len(queue) - 1 : queue'[i] = queue[i + 1]
      /\ Len(queue) \in Nat
    BY HeadTailProperties, LenProperties
<1>2. IsFiniteSet(TryMessages)
    BY TryMessagesFinite
<1>3. \A i \in TryMessages' : i \in Nat /\ i + 1 \in TryMessages
    BY <1>1 DEF TryMessages
<1>4. shift \in Injection(TryMessages', TryMessages)
    BY <1>3 DEF Injection, IsInjective
<1> QED BY <1>2, <1>4, FS_Injection

\* A step of module Receiving adds no message of a sender.
LEMMA ReceiverTryMessages ==
    ASSUME IInv, [Next]_vars
    PROVE  \/ queue' = queue
           \/ queue # <<>> /\ queue' = Tail(queue)
           \/ \E m \in Thread \ Sender : queue' = Append(queue, m)
<1>1. ASSUME NEW t \in Thread, CallStep(t)
      PROVE  queue' = queue \/ (queue # <<>> /\ queue' = Tail(queue))
    BY <1>1 DEF CallStep, RecvNotifyOne, RecvNotifyAll, SendNotifyOne, SendNotifyAll,
                ExitNotifyAll, Close, close, HaltSomeMax, Drain, pop_msg, queueVars
<1>2. ASSUME NEW c \in Caller, CallerStep(c)
      PROVE  queue' = queue \/ (c \in Thread \ Sender /\ queue' = Append(queue, c))
    BY <1>2, ChannelAssumption, SendingAssumption
       DEF CallerStep, CallSendNow, CallClose, CallHalt, CallHaltSome, CallSpawn, push_msg,
           close, queueVars
<1>3. ASSUME NEW p \in Process, ReceiveStep(p) \/ UserStep(p)
      PROVE  queue' = queue \/ (queue # <<>> /\ queue' = Tail(queue))
    BY <1>3 DEF ReceiveStep, UserStep, LoadHaltCount, SubHaltCount, PopOk, PopClosed,
                PopEmpty, AcquireListener, ListenerReady, ListenerPending, DropRecvListener,
                TryRecv, Recv, Poll, Cancel, DropInbox, pop_msg, queueVars, channelVars
<1>4. CASE UNCHANGED vars
    BY <1>4 DEF vars, channelVars, queueVars
<1> QED BY <1>1, <1>2, <1>3, <1>4 DEF Next

\* A sender that only uses try_send checks, pushes and returns; the rest of the queue
\* and the other senders stay as they are.
LEMMA TrySenderStep ==
    ASSUME Capacity = Unbounded, SendIInv, BackPressureInv, NEW s \in Sender,
           SenderAction(s)
    PROVE  /\ \A r \in Sender \ {s} : spc'[r] = spc[r]
           /\ s \in TrySenders => spc'[s] # "sleep"
           /\ \/ /\ s \in TrySenders /\ queue' = queue
                 /\ spc'[s] = "push" /\ spc[s] # "push"
                        => Len(queue) < backpressure.starts_at
              \/ /\ s \in TrySenders /\ queue' = Append(queue, s)
                 /\ spc[s] = "push" /\ spc'[s] = "idle"
              \/ s \notin TrySenders /\ (queue' = queue \/ queue' = Append(queue, s))
<1> USE DEF SendIInv, SendTypeOK
<1>1. \A r \in Sender \ {s} : spc'[r] = spc[r]
    BY SenderListener
<1>2. queue' = queue \/ queue' = Append(queue, s)
    BY SenderFrame
<1>3. ASSUME s \in TrySenders
      PROVE  /\ spc'[s] # "sleep"
             /\ \/ /\ queue' = queue
                   /\ spc'[s] = "push" /\ spc[s] # "push"
                          => Len(queue) < backpressure.starts_at
                \/ /\ queue' = Append(queue, s)
                   /\ spc[s] = "push" /\ spc'[s] = "idle"
    <2> USE <1>3
    <2>0. ~Bounded /\ HasRoom /\ s \in Sender /\ Methods[s] = {"try_send"}
        BY DEF Bounded, HasRoom, TrySenders
    <2>1. spc[s] \in {"idle", "push"}
        BY <2>0 DEF SenderInv, BackPressureInv, SendPlaces
    <2>2. CASE StartSend(s)
        <3>1. PICK m \in {"try_send"} :
                  IF HasTimeout /\ m = "try_send" THEN spc' = [spc EXCEPT ![s] = "idle"]
                  ELSE spc' = [spc EXCEPT ![s] = IF HasTimeout THEN "sleep" ELSE "push"]
            BY <2>0, <2>2 DEF StartSend, SendReturn, GoSend
        <3>2. queue' = queue
            BY <2>2 DEF StartSend, vars, channelVars, queueVars
        <3>3. backpressure.starts_at \in Int /\ Len(queue) \in Int
            BY SendingAssumption, LenProperties
               DEF B!BackPressureType, IInv, TypeOK, ChannelTypeOK
        <3> QED BY <2>0, <3>1, <3>2, <3>3 DEF HasTimeout, B!HasTimeout
    <2>3. CASE PushOk(s)
        BY <2>1, <2>3 DEF PushOk, push_msg, SendReturn, GoSend
    <2>4. CASE PushClosed(s)
        BY <2>4 DEF PushClosed, SendReturn, GoSend, queueVars
    <2>5. CASE DropSendListener(s)
        <3>1. todo[s] # <<>> /\ spc' = spc /\ queue' = queue
            BY <2>5 DEF DropSendListener, Pending, sendVars, queueVars
        <3>2. spc[s] = "idle"
            BY <2>1, <3>1 DEF SenderInv
        <3> QED BY <3>1, <3>2
    <2> QED BY <2>0, <2>1, <2>2, <2>3, <2>4, <2>5
            DEF SenderAction, SendStep, SleepOver, PushFull, AcquireSendListener,
                SendListenerReady, SendListenerPending, PollSend, CancelSend
<1> QED BY <1>1, <1>2, <1>3

\* Every step preserves the count: a check leaves room for all who passed it before, a
\* push takes the place of its check, and a receiver only makes room.
LEMMA BackPressureInvStep ==
    ASSUME Capacity = Unbounded, IsFiniteSet(Sender),
           SendIInv, BackPressureInv, [SendNext]_allVars
    PROVE  BackPressureInv'
<1> USE DEF SendIInv, SendTypeOK
<1>0. /\ queue \in Seq(Thread) /\ Len(queue) \in Nat
      /\ backpressure' = backpressure /\ backpressure.starts_at \in Nat
    <2>1. queue \in Seq(Thread)
        BY DEF IInv, TypeOK, ChannelTypeOK
    <2> QED BY <2>1, SendingAssumption, LenProperties
            DEF SendNext, allVars, B!BackPressureType
<1>1. /\ IsFiniteSet(TrySenders) /\ Cardinality(TrySenders) \in Nat
      /\ \A S \in SUBSET TrySenders :
             /\ IsFiniteSet(S) /\ Cardinality(S) \in Nat
             /\ Cardinality(S) <= Cardinality(TrySenders)
    <2>1. IsFiniteSet(TrySenders)
        BY FS_Subset DEF TrySenders
    <2> QED BY <2>1, FS_Subset, FS_CardinalityType
<1>2. /\ IsFiniteSet(TryMessages) /\ Cardinality(TryMessages) \in Nat
      /\ Cardinality(TryMessages) <= Len(queue)
    BY <1>0, TryMessagesFinite
<1>3. /\ PassedTrySenders \in SUBSET TrySenders
      /\ PassedTrySenders' \in SUBSET TrySenders
    BY DEF PassedTrySenders
<1> HIDE DEF SendIInv, SendTypeOK
<1>4. ASSUME UNCHANGED <<queue, sendVars>>
      PROVE  BackPressureInv'
    BY <1>0, <1>4 DEF BackPressureInv, TryMessages, PassedTrySenders, sendVars
<1>5. ASSUME [Next]_vars, UNCHANGED sendVars
      PROVE  BackPressureInv'
    <2>1. PassedTrySenders' = PassedTrySenders /\ spc' = spc
        BY <1>5 DEF PassedTrySenders, sendVars
    <2>2. Cardinality(TryMessages') <= Cardinality(TryMessages)
          /\ Cardinality(TryMessages') \in Nat
        <3>1. CASE queue' = queue
            BY <1>2, <3>1 DEF TryMessages
        <3>2. CASE queue # <<>> /\ queue' = Tail(queue)
            BY <1>0, <3>2, TryMessagesPopped, FS_CardinalityType
        <3>3. ASSUME NEW m \in Thread \ Sender, queue' = Append(queue, m)
              PROVE  TryMessages' = TryMessages
            BY <1>0, <3>3, TryMessagesAppended DEF TrySenders
        <3> QED BY <1>2, <1>5, <3>1, <3>2, <3>3, ReceiverTryMessages DEF SendIInv
    <2> QED BY <1>0, <1>1, <1>2, <1>3, <2>1, <2>2 DEF BackPressureInv
<1>6. ASSUME NEW s \in Sender, SenderAction(s)
      PROVE  BackPressureInv'
    <2>0. s \in Thread
        BY SenderIsThread
    <2>1. \A r \in TrySenders : spc'[r] # "sleep"
        BY <1>6, TrySenderStep DEF BackPressureInv, TrySenders
    <2>2. CASE s \in TrySenders /\ queue' = queue /\ spc'[s] = "push"
        <3>1. Len(queue) < backpressure.starts_at \/ spc[s] = "push"
            BY <1>6, <2>2, TrySenderStep
        <3>2. TryMessages' = TryMessages
            BY <2>2 DEF TryMessages
        <3>3. CASE Len(queue) < backpressure.starts_at
            BY <1>0, <1>1, <1>2, <1>3, <2>1, <3>2, <3>3 DEF BackPressureInv
        <3>4. CASE spc[s] = "push"
            <4>1. PassedTrySenders' = PassedTrySenders
                BY <1>6, <2>2, <3>4, TrySenderStep DEF PassedTrySenders, TrySenders
            <4> QED BY <1>0, <2>1, <3>2, <4>1 DEF BackPressureInv
        <3> QED BY <3>1, <3>3, <3>4
    <2>3. CASE s \in TrySenders /\ queue' = queue /\ spc'[s] # "push"
        <3>1. PassedTrySenders' \in SUBSET PassedTrySenders /\ TryMessages' = TryMessages
            BY <1>6, <2>3, TrySenderStep DEF PassedTrySenders, TrySenders, TryMessages
        <3>2. Cardinality(PassedTrySenders') <= Cardinality(PassedTrySenders)
            BY <1>1, <1>3, <3>1, FS_Subset
        <3> QED BY <1>0, <1>1, <1>2, <1>3, <2>1, <3>1, <3>2 DEF BackPressureInv
    <2>4. CASE s \in TrySenders /\ queue' = Append(queue, s) /\ spc[s] = "push"
               /\ spc'[s] = "idle"
        <3>1. PassedTrySenders' = PassedTrySenders \ {s} /\ s \in PassedTrySenders
            BY <1>6, <2>4, TrySenderStep DEF PassedTrySenders, TrySenders
        <3>2. Cardinality(PassedTrySenders') = Cardinality(PassedTrySenders) - 1
            BY <1>1, <1>3, <3>1, FS_RemoveElement
        <3>3. TryMessages' = TryMessages \cup {Len(queue) + 1}
            BY <1>0, <2>0, <2>4, TryMessagesAppended
        <3>4. IsFiniteSet(TryMessages')
              /\ Cardinality(TryMessages') <= Cardinality(TryMessages) + 1
            <4>1. /\ IsFiniteSet(TryMessages \cup {Len(queue) + 1})
                  /\ Cardinality(TryMessages \cup {Len(queue) + 1})
                         = IF Len(queue) + 1 \in TryMessages THEN Cardinality(TryMessages)
                           ELSE Cardinality(TryMessages) + 1
                BY <1>2, FS_AddElement
            <4> QED BY <1>2, <3>3, <4>1
        <3>5. Cardinality(TryMessages') \in Nat
            BY <3>4, FS_CardinalityType
        <3>6. Cardinality(PassedTrySenders) \in Nat
            BY <1>1, <1>3
        <3>7. Cardinality(TryMessages) + Cardinality(PassedTrySenders)
                  <= backpressure.starts_at + Cardinality(TrySenders) - 1
            BY <2>4 DEF BackPressureInv
        <3>8. Cardinality(TryMessages') + Cardinality(PassedTrySenders')
                  <= backpressure.starts_at + Cardinality(TrySenders) - 1
            BY <1>0, <1>1, <1>2, <3>2, <3>4, <3>5, <3>6, <3>7
        <3> QED BY <1>0, <2>1, <3>8 DEF BackPressureInv, TrySenders
    <2>5. CASE s \notin TrySenders /\ (queue' = queue \/ queue' = Append(queue, s))
        <3>1. PassedTrySenders' = PassedTrySenders
            BY <1>6, <2>5, TrySenderStep DEF PassedTrySenders, TrySenders
        <3>2. TryMessages' = TryMessages
            BY <1>0, <2>0, <2>5, TryMessagesAppended DEF TryMessages
        <3> QED BY <1>0, <2>1, <3>1, <3>2 DEF BackPressureInv
    <2> QED BY <1>6, <2>2, <2>3, <2>4, <2>5, TrySenderStep
<1>7. CASE UNCHANGED allVars
    BY <1>4, <1>7 DEF allVars, vars, channelVars, queueVars
<1> QED BY <1>5, <1>6, <1>7 DEF SendNext, SenderAction

\* On an unbounded channel the messages of any finite number of try_sends exceed the
\* limit of the backpressure by at most one message for each sender but one, whatever
\* the other methods send (channel/sending.rs).
THEOREM BackPressureLimit ==
    ASSUME Capacity = Unbounded, IsFiniteSet(Sender)
    PROVE  SendSpec => []BackPressureBounds
<1>1. SendInit => BackPressureInv
    <2> SUFFICES ASSUME SendInit PROVE BackPressureInv
        OBVIOUS
    <2>1. TryMessages = {} /\ PassedTrySenders = {} /\ \A s \in TrySenders : spc[s] = "idle"
        BY DEF SendInit, Init, ChannelInit, ChannelNew, TryMessages, PassedTrySenders,
               TrySenders
    <2>2. TrySenders # {} => Cardinality(TrySenders) \in Nat \ {0}
        <3>1. IsFiniteSet(TrySenders)
            BY FS_Subset DEF TrySenders
        <3> QED BY <3>1, FS_CardinalityType, FS_EmptySet
    <2>3. backpressure.starts_at \in Nat
        BY SendingAssumption DEF SendInit, B!BackPressureType
    <2> QED BY <2>1, <2>2, <2>3, FS_EmptySet DEF BackPressureInv
<1>2. SendIInv /\ BackPressureInv /\ [SendNext]_allVars => BackPressureInv'
    BY BackPressureInvStep
<1>3. SendIInv /\ BackPressureInv => BackPressureBounds
    <2> SUFFICES ASSUME SendIInv, BackPressureInv PROVE BackPressureBounds
        OBVIOUS
    <2>1. IsFiniteSet(TrySenders) /\ IsFiniteSet(PassedTrySenders)
        BY FS_Subset DEF TrySenders, PassedTrySenders
    <2>2. /\ Cardinality(TrySenders) \in Nat /\ Cardinality(PassedTrySenders) \in Nat
          /\ Cardinality(TrySenders) = 0 <=> TrySenders = {}
        BY <2>1, FS_CardinalityType, FS_EmptySet
    <2>3. queue \in Seq(Thread) /\ backpressure.starts_at \in Nat
        BY SendingAssumption
           DEF SendIInv, SendTypeOK, B!BackPressureType, IInv, TypeOK, ChannelTypeOK
    <2>4. Cardinality(TryMessages) \in Nat
        BY <2>3, TryMessagesFinite
    <2>5. TrySenders = {} => Cardinality(TryMessages) = 0
        BY FS_EmptySet DEF TryMessages
    <2> QED BY <2>2, <2>3, <2>4, <2>5 DEF BackPressureInv, BackPressureBounds
<1> QED BY <1>1, <1>2, <1>3, SendInductiveInvariant, PTL DEF SendSpec
-----------------------------------------------------------------------------
(***************************************************************************)
(* The timeouts of the backpressure.  The powers of an exponential one are *)
(* a recursive function; what they satisfy is proved by induction.         *)
(***************************************************************************)
\* Induction, over a set: the least number that is not in it cannot exist.
LEMMA InductionOnNat ==
    ASSUME NEW S, 0 \in S, \A n \in Nat : n \in S => n + 1 \in S
    PROVE  Nat \subseteq S
<1> SUFFICES ASSUME Nat \ S # {} PROVE FALSE
    OBVIOUS
<1> DEFINE Less == {pair \in Nat \X Nat : pair[1] < pair[2]}
<1>1. IsWellFoundedOn(Less, Nat)
    BY NatLessThanWellFounded DEF OpToRel
<1>2. \A m, n \in Nat : m < n => <<m, n>> \in Less
    OBVIOUS
<1> HIDE DEF Less
<1>3. PICK n \in Nat \ S : \A m \in Nat \ S : ~(<<m, n>> \in Less)
    BY <1>1, WFMin
<1>4. n # 0 /\ n - 1 \in Nat /\ n - 1 < n
    BY <1>3
<1>5. n - 1 \in S
    BY <1>2, <1>3, <1>4
<1> QED BY <1>3, <1>4, <1>5

\* The recursive function B!Powers(base) exists, and is what it says.
LEMMA PowersFacts ==
    ASSUME NEW base \in Nat
    PROVE  /\ B!Powers(base) \in [Nat -> Nat]
           /\ B!Powers(base)[0] = 1
           /\ \A n \in Nat : B!Powers(base)[n + 1] = base * B!Powers(base)[n]
<1> DEFINE UpTo(n) == {h \in [0 .. n -> Nat] : /\ h[0] = 1
                                               /\ \A i \in 1 .. n : h[i] = base * h[i - 1]}
           Choice(n) == CHOOSE h \in UpTo(n) : TRUE
           Table == [n \in Nat |-> Choice(n)[n]]
           Body(f) == [n \in Nat |-> IF n = 0 THEN 1 ELSE base * f[n - 1]]
<1>1. \A n \in Nat : UpTo(n) # {}
    <2> DEFINE S == {n \in Nat : UpTo(n) # {}}
    <2>1. 0 \in S
        <3>1. [i \in 0 .. 0 |-> 1] \in UpTo(0)
            OBVIOUS
        <3> QED BY <3>1
    <2>2. ASSUME NEW n \in Nat, n \in S
          PROVE  n + 1 \in S
        <3>1. PICK h \in [0 .. n -> Nat] : h[0] = 1 /\ \A i \in 1 .. n : h[i] = base * h[i - 1]
            BY <2>2
        <3> DEFINE g == [i \in 0 .. n + 1 |-> IF i = n + 1 THEN base * h[n] ELSE h[i]]
        <3>2. base * h[n] \in Nat
            BY <3>1
        <3>3. g \in [0 .. n + 1 -> Nat]
            BY <3>1, <3>2
        <3>4. g[0] = 1
            BY <3>1
        <3>5. ASSUME NEW i \in 1 .. n + 1 PROVE g[i] = base * g[i - 1]
            <4>1. CASE i = n + 1
                BY <4>1
            <4>2. CASE i \in 1 .. n
                BY <4>2, <3>1
            <4> QED BY <4>1, <4>2
        <3>6. g \in UpTo(n + 1)
            BY <3>3, <3>4, <3>5
        <3> QED BY <3>6
    <2> HIDE DEF S
    <2>3. Nat \subseteq S
        BY <2>1, <2>2, InductionOnNat
    <2> QED BY <2>3 DEF S
<1>2. \A n \in Nat : Choice(n) \in UpTo(n)
    BY <1>1
<1>3. ASSUME NEW n \in Nat
      PROVE  Choice(n + 1)[n] = Choice(n)[n]
    <2> DEFINE S == {i \in Nat : i <= n => Choice(n + 1)[i] = Choice(n)[i]}
    <2> HIDE DEF Choice
    <2>0. Choice(n) \in UpTo(n) /\ Choice(n + 1) \in UpTo(n + 1)
        <3> HIDE DEF UpTo
        <3> QED BY <1>2
    <2>1. 0 \in S
        BY <2>0
    <2>2. ASSUME NEW i \in Nat, i \in S PROVE i + 1 \in S
        <3> SUFFICES ASSUME i + 1 <= n PROVE Choice(n + 1)[i + 1] = Choice(n)[i + 1]
            OBVIOUS
        <3>1. Choice(n + 1)[i] = Choice(n)[i]
            BY <2>2
        <3>2. i + 1 \in 1 .. n /\ i + 1 \in 1 .. n + 1 /\ (i + 1) - 1 = i
            OBVIOUS
        <3> QED BY <2>0, <3>1, <3>2
    <2>3. Nat \subseteq S
        <3> HIDE DEF S
        <3> QED BY <2>1, <2>2, InductionOnNat
    <2> QED BY <2>3
<1>4. Table = Body(Table)
    <2> HIDE DEF Choice
    <2>1. Choice(0)[0] = 1
        <3> HIDE DEF UpTo
        <3>1. Choice(0) \in UpTo(0)
            BY <1>2
        <3> QED BY <3>1 DEF UpTo
    <2>2. ASSUME NEW n \in Nat, n # 0
          PROVE  Choice(n)[n] = base * Choice(n - 1)[n - 1]
        <3>1. n - 1 \in Nat /\ (n - 1) + 1 = n /\ n \in 1 .. n
            BY <2>2
        <3>2. Choice(n)[n] = base * Choice(n)[n - 1]
            BY <1>2, <3>1
        <3> QED BY <1>3, <3>1, <3>2
    <2> QED BY <2>1, <2>2
<1>5. B!Powers(base) = Body(B!Powers(base))
    <2> HIDE DEF Table
    <2> QED BY <1>4 DEF B!Powers
<1>6. /\ B!Powers(base)[0] = 1
      /\ \A n \in Nat : B!Powers(base)[n + 1] = base * B!Powers(base)[n]
    <2>1. \A n \in Nat : B!Powers(base)[n] = IF n = 0 THEN 1 ELSE base * B!Powers(base)[n - 1]
        BY <1>5
    <2> QED BY <2>1
<1>7. \A n \in Nat : B!Powers(base)[n] \in Nat
    <2> DEFINE S == {n \in Nat : B!Powers(base)[n] \in Nat}
    <2>1. 0 \in S /\ \A n \in Nat : n \in S => n + 1 \in S
        BY <1>6
    <2> HIDE DEF S
    <2>2. Nat \subseteq S
        BY <2>1, InductionOnNat
    <2> QED BY <2>2 DEF S
<1> QED BY <1>5, <1>6, <1>7

\* The quotient of naturals.
LEMMA QuotientFacts ==
    ASSUME NEW a \in Nat, NEW b \in Nat \ {0}
    PROVE  a \div b \in Nat /\ b * (a \div b) <= a /\ a < b * (a \div b) + b
OBVIOUS

LEMMA ProductGrows ==
    ASSUME NEW a \in Nat, NEW b \in Nat, NEW c \in Nat, a <= b
    PROVE  a * c <= b * c
OBVIOUS

LEMMA ProductCancels ==
    ASSUME NEW a \in Nat, NEW b \in Nat, NEW c \in Nat \ {0}, a * c <= b * c
    PROVE  a <= b
<1>1. ASSUME b + 1 <= a
      PROVE  FALSE
    <2>1. (b + 1) * c <= a * c
        BY <1>1, ProductGrows
    <2>2. (b + 1) * c = b * c + c /\ b * c \in Nat /\ a * c \in Nat
        OBVIOUS
    <2> QED BY <2>1, <2>2
<1> QED BY <1>1

LEMMA QuotientIsLargest ==
    ASSUME NEW a \in Nat, NEW b \in Nat \ {0}, NEW q \in Nat, q * b <= a
    PROVE  q <= a \div b
<1> DEFINE d == a \div b
<1>1. d \in Nat /\ a < d * b + b
    BY QuotientFacts
<1> HIDE DEF d
<1>2. ASSUME d + 1 <= q
      PROVE  FALSE
    <2>1. (d + 1) * b <= q * b
        BY <1>1, <1>2, ProductGrows
    <2>2. (d + 1) * b = d * b + b
        BY <1>1
    <2> QED BY <1>1, <2>1, <2>2
<1> QED BY <1>1, <1>2 DEF d

\* The powers of a positive number are positive.
LEMMA PowersPositive ==
    ASSUME NEW base \in Nat \ {0}
    PROVE  \A n \in Nat : B!Powers(base)[n] \in Nat \ {0}
<1> DEFINE S == {n \in Nat : B!Powers(base)[n] \in Nat \ {0}}
<1>0. base \in Nat
    OBVIOUS
<1>1. 0 \in S
    <2>1. B!Powers(base)[0] = 1
        BY <1>0, PowersFacts
    <2> QED BY <2>1
<1>2. ASSUME NEW n \in Nat, n \in S
      PROVE  n + 1 \in S
    <2>1. B!Powers(base)[n + 1] = base * B!Powers(base)[n]
        BY <1>0, PowersFacts
    <2>2. \A a, b \in Nat \ {0} : a * b \in Nat \ {0}
        OBVIOUS
    <2> QED BY <1>2, <2>1, <2>2
<1> HIDE DEF S
<1>3. Nat \subseteq S
    BY <1>1, <1>2, InductionOnNat
<1> QED BY <1>3 DEF S

\* The wait of an exponential backpressure, before it saturates, k messages past
\* its start.
Quotient(base, num, den, k) ==
    (base * B!Powers(num)[k]) \div B!Powers(den)[k]

\* A message more moves the quotient in the direction of the factor num / den.
LEMMA QuotientMoves ==
    ASSUME NEW base \in Nat, NEW num \in Nat, NEW den \in Nat \ {0}, NEW n \in Nat
    PROVE  /\ Quotient(base, num, den, n) \in Nat
           /\ num >= den => Quotient(base, num, den, n) <= Quotient(base, num, den, n + 1)
           /\ num <= den => Quotient(base, num, den, n + 1) <= Quotient(base, num, den, n)
<1>1. PICK a \in Nat, b \in Nat \ {0} :
          /\ Quotient(base, num, den, n) = a \div b
          /\ Quotient(base, num, den, n + 1) = (a * num) \div (b * den)
    <2>1. PICK p \in Nat : p = B!Powers(num)[n] /\ B!Powers(num)[n + 1] = num * p
        BY PowersFacts
    <2>2. PICK b \in Nat \ {0} : b = B!Powers(den)[n] /\ B!Powers(den)[n + 1] = den * b
        <3>1. den \in Nat
            OBVIOUS
        <3>2. B!Powers(den)[n] \in Nat \ {0}
            BY PowersPositive
        <3>3. B!Powers(den)[n + 1] = den * B!Powers(den)[n]
            BY <3>1, PowersFacts
        <3> QED BY <3>2, <3>3
    <2>3. PICK a \in Nat : a = base * p
        OBVIOUS
    <2>4. base * (num * p) = a * num /\ den * b = b * den
        BY <2>3
    <2> QED BY <2>1, <2>2, <2>3, <2>4 DEF Quotient
<1>2. a * num \in Nat /\ b * den \in Nat \ {0}
    OBVIOUS
<1>3. PICK q \in Nat : q = a \div b /\ q * b <= a
    BY QuotientFacts
<1>4. PICK r \in Nat : r = (a * num) \div (b * den) /\ r * (b * den) <= a * num
    BY <1>2, QuotientFacts
<1>5. ASSUME num >= den
      PROVE  q <= r
    <2>1. (q * b) * den <= a * den
        BY <1>3, ProductGrows
    <2>2. den * a <= num * a
        BY <1>5, ProductGrows
    <2>3. q * (b * den) = (q * b) * den /\ a * den = den * a /\ a * num = num * a
        OBVIOUS
    <2>4. (q * b) * den \in Nat /\ den * a \in Nat /\ num * a \in Nat
        OBVIOUS
    <2>5. q * (b * den) <= a * num
        BY <2>1, <2>2, <2>3, <2>4
    <2> QED BY <1>2, <1>4, <2>5, QuotientIsLargest
<1>6. ASSUME num <= den
      PROVE  r <= q
    <2>1. num * a <= den * a
        BY <1>6, ProductGrows
    <2>2. r * (b * den) = (r * b) * den /\ a * den = den * a /\ a * num = num * a
        OBVIOUS
    <2>3. (r * b) * den \in Nat /\ den * a \in Nat /\ num * a \in Nat
        OBVIOUS
    <2>4. (r * b) * den <= a * den
        BY <1>4, <2>1, <2>2, <2>3
    <2>5. r * b <= a
        BY <2>4, ProductCancels
    <2> QED BY <1>3, <2>5, QuotientIsLargest
<1> QED BY <1>1, <1>3, <1>4, <1>5, <1>6

\* So do any number of messages more.
LEMMA QuotientsMonotone ==
    ASSUME NEW base \in Nat, NEW num \in Nat, NEW den \in Nat \ {0},
           NEW k \in Nat, NEW m \in 0 .. k
    PROVE  /\ Quotient(base, num, den, k) \in Nat
           /\ num >= den => Quotient(base, num, den, m) <= Quotient(base, num, den, k)
           /\ num <= den => Quotient(base, num, den, k) <= Quotient(base, num, den, m)
<1> DEFINE E(size) == Quotient(base, num, den, size)
           Follows(i, n) == (num >= den => E(i) <= E(n)) /\ (num <= den => E(n) <= E(i))
           T == {n \in Nat : \A i \in 0 .. n : Follows(i, n)}
<1>1. \A n \in Nat : E(n) \in Nat /\ Follows(n, n + 1)
    BY QuotientMoves
<1> HIDE DEF E
<1>2. 0 \in T
    BY <1>1
<1>3. ASSUME NEW n \in Nat, n \in T
      PROVE  n + 1 \in T
    <2>1. ASSUME NEW i \in 0 .. n + 1 PROVE Follows(i, n + 1)
        <3>1. E(i) \in Nat /\ E(n) \in Nat /\ E(n + 1) \in Nat
            BY <1>1
        <3>2. CASE i = n + 1
            BY <3>1, <3>2
        <3>3. CASE i \in 0 .. n
            <4>1. Follows(i, n) /\ Follows(n, n + 1)
                BY <1>1, <1>3, <3>3
            <4> QED BY <3>1, <4>1
        <3> QED BY <3>2, <3>3
    <2> QED BY <2>1
<1> HIDE DEF T
<1>4. Nat \subseteq T
    BY <1>2, <1>3, InductionOnNat
<1>5. E(k) \in Nat /\ Follows(m, k)
    BY <1>1, <1>4 DEF T
<1> QED BY <1>5 DEF E

\* The timeout of a linear backpressure does not shrink as the queue grows, where the
\* product saturates (config/mod.rs) as before.
LEMMA LinearTimeoutGrows ==
    ASSUME NEW bp \in B!BackPressureType, bp.exp_growth = B!None,
           NEW m \in Nat, NEW n \in Nat, m < n
    PROVE  B!get_timeout(bp, m) <= B!get_timeout(bp, n)
<1>1. bp.starts_at \in Nat /\ bp.base_ns \in Nat /\ U64Max \in Nat
    BY SendingAssumption DEF B!BackPressureType
<1> DEFINE ns(count) == bp.base_ns * (count - bp.starts_at + 1)
<1>2. ASSUME m >= bp.starts_at
      PROVE  ns(m) \in Nat /\ ns(n) \in Nat /\ ns(m) <= ns(n)
    <2>1. PICK a \in Nat : a = m - bp.starts_at + 1
        BY <1>1, <1>2
    <2>2. PICK b \in Nat : b = n - bp.starts_at + 1 /\ a <= b
        BY <1>1, <1>2, <2>1
    <2>3. \A base \in Nat : base * a \in Nat /\ base * b \in Nat /\ base * a <= base * b
        BY <2>1, <2>2
    <2> QED BY <1>1, <2>1, <2>2, <2>3
<1>3. n >= bp.starts_at => ns(n) \in Nat
    BY <1>1
<1>4. B!get_timeout(bp, n) = IF n >= bp.starts_at THEN B!AtMost(ns(n), U64Max) ELSE -1
    BY DEF B!get_timeout, B!HasTimeout, B!LinearTimeout, B!NoTimeout
<1>5. B!get_timeout(bp, m) = IF m >= bp.starts_at THEN B!AtMost(ns(m), U64Max) ELSE -1
    BY DEF B!get_timeout, B!HasTimeout, B!LinearTimeout, B!NoTimeout
<1> HIDE DEF ns
<1> QED BY <1>1, <1>2, <1>3, <1>4, <1>5 DEF B!AtMost

\* Nor does that of an exponential one with a factor of at least 1, and that of one
\* with a factor of at most 1 does not grow: where the exponent is capped or the
\* conversion saturates it stays the same.
LEMMA ExponentialTimeoutMonotone ==
    ASSUME NEW bp \in B!BackPressureType, bp.exp_growth # B!None,
           NEW m \in Nat, NEW n \in Nat, m < n
    PROVE  /\ bp.exp_growth.num >= bp.exp_growth.den
                 => B!get_timeout(bp, m) <= B!get_timeout(bp, n)
           /\ (bp.exp_growth.num <= bp.exp_growth.den /\ B!get_timeout(bp, m) # B!NoTimeout)
                 => B!get_timeout(bp, n) <= B!get_timeout(bp, m)
<1> DEFINE diff(count) == B!AtMost(count - bp.starts_at, I32Max)
           ns(k) == Quotient(bp.base_ns, bp.exp_growth.num, bp.exp_growth.den, k)
<1>1. /\ bp.starts_at \in Nat /\ bp.base_ns \in Nat /\ U64Max \in Nat /\ I32Max \in Nat
      /\ bp.exp_growth.num \in Nat /\ bp.exp_growth.den \in Nat \ {0}
    BY SendingAssumption, ChannelAssumption DEF B!BackPressureType
<1>2. ASSUME m >= bp.starts_at
      PROVE  diff(n) \in Nat /\ diff(m) \in 0 .. diff(n)
    BY <1>1, <1>2 DEF B!AtMost
<1>3. n >= bp.starts_at => diff(n) \in Nat
    BY <1>1 DEF B!AtMost
<1>4. B!get_timeout(bp, n)
          = IF n >= bp.starts_at THEN B!AtMost(ns(diff(n)), U64Max) ELSE -1
    BY DEF B!get_timeout, B!HasTimeout, B!ExponentialTimeout, B!NoTimeout, Quotient
<1>5. B!get_timeout(bp, m)
          = IF m >= bp.starts_at THEN B!AtMost(ns(diff(m)), U64Max) ELSE -1
    BY DEF B!get_timeout, B!HasTimeout, B!ExponentialTimeout, B!NoTimeout, Quotient
<1>6. PICK num \in Nat, den \in Nat \ {0} :
          num = bp.exp_growth.num /\ den = bp.exp_growth.den
    BY <1>1
<1>7. ASSUME NEW k \in Nat, NEW i \in 0 .. k
      PROVE  /\ ns(k) \in Nat /\ ns(i) \in Nat
             /\ num >= den => ns(i) <= ns(k)
             /\ num <= den => ns(k) <= ns(i)
    <2>1. i \in Nat /\ i \in 0 .. i
        OBVIOUS
    <2> QED BY <1>1, <1>6, <2>1, QuotientsMonotone
<1> HIDE DEF ns, diff
<1>8. n >= bp.starts_at => ns(diff(n)) \in Nat
    BY <1>3, <1>7
<1>9. m >= bp.starts_at
          => /\ ns(diff(m)) \in Nat
             /\ num >= den => ns(diff(m)) <= ns(diff(n))
             /\ num <= den => ns(diff(n)) <= ns(diff(m))
    BY <1>2, <1>7
<1> QED BY <1>1, <1>4, <1>5, <1>6, <1>8, <1>9 DEF B!AtMost, B!NoTimeout

\* Under every backpressure a queue that grows moves the wait of a sender in the
\* direction of the growth factor only, for every base, factor, limit and width of
\* the integers (BackPressure::get_timeout in config/mod.rs).
THEOREM BackPressureMonotone == SendSpec => TimeoutMonotone
<1> DEFINE growth == backpressure.exp_growth
           before == B!get_timeout(backpressure, Len(queue))
           after == B!get_timeout(backpressure, Len(queue'))
           Follows ==
               /\ growth.num >= growth.den => before <= after
               /\ (growth # B!None /\ growth.num <= growth.den /\ before # B!NoTimeout)
                    => after <= before
<1>1. ASSUME SendIInv, SendIInv', Len(queue') > Len(queue)
      PROVE  Follows
    <2>1. queue \in Seq(Thread) /\ queue' \in Seq(Thread)
        BY <1>1 DEF SendIInv, IInv, TypeOK, ChannelTypeOK
    <2>2. Len(queue) \in Nat /\ Len(queue') \in Nat
        BY <2>1, LenProperties
    <2>3. backpressure \in B!BackPressureType
        BY <1>1, SendingAssumption DEF SendIInv, SendTypeOK
    <2>4. CASE growth = B!None
        BY <1>1, <2>2, <2>3, <2>4, LinearTimeoutGrows
    <2>5. CASE growth # B!None
        BY <1>1, <2>2, <2>3, <2>5, ExponentialTimeoutMonotone
    <2> QED BY <2>4, <2>5
<1>2. SendIInv /\ SendIInv' /\ [SendNext]_allVars
          => [Len(queue') > Len(queue) => Follows]_allVars
    BY <1>1
<1>3. TimeoutMonotone <=> [][Len(queue') > Len(queue) => Follows]_allVars
    BY DEF TimeoutMonotone
<1> QED BY <1>2, <1>3, SendInductiveInvariant, PTL DEF SendSpec
=============================================================================
