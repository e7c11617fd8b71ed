------------------------------- MODULE Sending -------------------------------
(***************************************************************************)
(* The sending side: the SendFut future behind send, try_send and          *)
(* send_blocking, run by concurrent senders against the processes and      *)
(* callers of module Receiving.                                            *)
(*                                                                         *)
(* On a bounded channel a SendFut makes the three attempts of a RecvFut,   *)
(* with a listener of send_event.  On an unbounded channel the backpressure*)
(* decides, from a length read before the push, whether to sleep first or, *)
(* for try_send, to refuse (module BackPressure).                          *)
(***************************************************************************)
EXTENDS Receiving

CONSTANTS
    Sender,         \* the threads that use the methods of this module
    Methods,        \* the methods that each of them uses
    BackPressures,  \* the backpressures an unbounded channel may have
    UsizeMax,       \* usize::MAX
    U64Max,         \* u64::MAX
    MaxSends        \* bound on the sends of each sender

B == INSTANCE BackPressure

SendMethodNames == {"send", "send_blocking", "try_send"}

ASSUME SendingAssumption ==
    /\ Sender \subseteq Thread
    /\ Sender \cap (Process \cup Caller) = {}
    /\ Methods \in [Sender -> SUBSET SendMethodNames]
    /\ UsizeMax \in Nat
    /\ U64Max \in Nat
    /\ BackPressures \subseteq B!BackPressureType
    /\ MaxSends \in Nat

VARIABLES
    spc,       \* where each sender is
    method,    \* the method it is in, or was in last
    sattempt,  \* which attempt of a send it is in
    sresult,   \* what its last send returned, "None" during a send
    sends,     \* how many sends it made
    backpressure  \* of an unbounded channel; it never changes

sendVars == <<spc, method, sattempt, sresult, sends>>
allVars == <<vars, sendVars, backpressure>>

SendPlaces == {"idle", "sleep", "push", "listen", "poll", "parked"}

SendResults == {"None", "Ok", "Closed", "Full"}

SendTypeOK ==
    /\ TypeOK
    /\ spc \in [Sender -> SendPlaces]
    /\ method \in [Sender -> SendMethodNames]
    /\ sattempt \in [Sender -> 1 .. 3]
    /\ sresult \in [Sender -> SendResults]
    /\ sends \in [Sender -> 0 .. MaxSends]
    /\ backpressure \in BackPressures

SendInit ==
    /\ Init
    /\ spc = [s \in Sender |-> "idle"]
    /\ method = [s \in Sender |-> "send"]
    /\ sattempt = [s \in Sender |-> 1]
    /\ sresult = [s \in Sender |-> "None"]
    /\ sends = [s \in Sender |-> 0]
    /\ backpressure \in BackPressures

Bounded == Capacity # Unbounded

\* The backpressure applies: get_timeout(msg_count()) is Some.
HasTimeout == ~Bounded /\ B!HasTimeout(backpressure, Len(queue))

GoSend(s, place) == spc' = [spc EXCEPT ![s] = place]

SendReturn(s, res) ==
    /\ GoSend(s, "idle")
    /\ sresult' = [sresult EXCEPT ![s] = res]

\* Fault variant: the listener outlives the future.
AfterSend_keeps(s) == <<>>

\* The future that is dropped after it was ready; the other methods have none.
AfterSend(s) ==
    IF Bounded /\ method[s] = "send" THEN <<"drop_send_listener">> ELSE <<>>
-----------------------------------------------------------------------------
\* Fault variant: try_send ignores the backpressure.
StartSend_no_backpressure(s) ==
    /\ spc[s] = "idle" /\ todo[s] = <<>> /\ sends[s] < MaxSends
    /\ sends' = [sends EXCEPT ![s] = @ + 1]
    /\ sattempt' = [sattempt EXCEPT ![s] = 1]
    /\ \E m \in Methods[s] :
           /\ method' = [method EXCEPT ![s] = m]
           /\ GoSend(s, "push")
           /\ sresult' = [sresult EXCEPT ![s] = "None"]
    /\ UNCHANGED vars

\* A method is called.  Where backpressure applies, try_send fails and the others
\* sleep.
StartSend(s) ==
    /\ spc[s] = "idle" /\ todo[s] = <<>> /\ sends[s] < MaxSends
    /\ sends' = [sends EXCEPT ![s] = @ + 1]
    /\ sattempt' = [sattempt EXCEPT ![s] = 1]
    /\ \E m \in Methods[s] :
           /\ method' = [method EXCEPT ![s] = m]
           /\ IF HasTimeout /\ m = "try_send"
              THEN SendReturn(s, "Full")
              ELSE /\ GoSend(s, IF HasTimeout THEN "sleep" ELSE "push")
                   /\ sresult' = [sresult EXCEPT ![s] = "None"]
    /\ UNCHANGED vars

\* The timer of the backpressure is over.
SleepOver(s) ==
    /\ spc[s] = "sleep"
    /\ GoSend(s, "push")
    /\ UNCHANGED <<vars, method, sattempt, sresult, sends>>

\* The queue takes the message.
PushOk(s) ==
    /\ spc[s] = "push" /\ ~closed /\ HasRoom
    /\ push_msg(s, s, AfterSend(s))
    /\ SendReturn(s, "Ok")
    /\ UNCHANGED <<closed, inboxVars, haltVars, eventVars, calls, procVars,
                   method, sattempt, sends>>

\* The queue is closed: the send fails.
PushClosed(s) ==
    /\ spc[s] = "push" /\ closed
    /\ Continue(s, AfterSend(s))
    /\ SendReturn(s, "Closed")
    /\ UNCHANGED <<queueVars, inboxVars, haltVars, eventVars, calls, procVars,
                   method, sattempt, sends>>

\* The second attempt of a SendFut polls its listener; the other attempts make
\* sure there is one; send_blocking always creates one.
PushFull(s) ==
    /\ spc[s] = "push" /\ ~closed /\ ~HasRoom
    /\ IF method[s] = "try_send"
       THEN SendReturn(s, "Full")
       ELSE /\ GoSend(s, IF sattempt[s] = 2 THEN "poll" ELSE "listen")
            /\ UNCHANGED sresult
    /\ UNCHANGED <<vars, method, sattempt, sends>>

\* Fault variant: the second attempt is skipped once the listener exists.
AcquireSendListener_no_retry(s) ==
    /\ spc[s] = "listen"
    /\ send_event' = IF s \in Listeners(send_event) THEN send_event
                     ELSE Listen(send_event, s)
    /\ GoSend(s, "poll")
    /\ UNCHANGED <<queueVars, inboxVars, haltVars, recv_event, exit_event, todo,
                   calls, procVars, method, sresult, sends, sattempt>>

\* get_send_listener.  A SendFut then makes its second attempt; send_blocking
\* waits at once.
AcquireSendListener(s) ==
    /\ spc[s] = "listen"
    /\ send_event' = IF s \in Listeners(send_event) THEN send_event
                     ELSE Listen(send_event, s)
    /\ IF method[s] = "send"
       THEN GoSend(s, "push") /\ sattempt' = [sattempt EXCEPT ![s] = 2]
       ELSE GoSend(s, "poll") /\ UNCHANGED sattempt
    /\ UNCHANGED <<queueVars, inboxVars, haltVars, recv_event, exit_event, todo,
                   calls, procVars, method, sresult, sends>>

\* The listener fired: it is gone, and the third attempt begins.
SendListenerReady(s) ==
    /\ spc[s] = "poll" /\ s \in send_event.notified
    /\ send_event' = Remove(send_event, s)
    /\ GoSend(s, "push")
    /\ sattempt' = [sattempt EXCEPT ![s] = 3]
    /\ UNCHANGED <<queueVars, inboxVars, haltVars, recv_event, exit_event, todo,
                   calls, procVars, method, sresult, sends>>

\* The task of a SendFut is parked; the thread of send_blocking waits in place.
SendListenerPending(s) ==
    /\ spc[s] = "poll" /\ method[s] = "send" /\ s \notin send_event.notified
    /\ GoSend(s, "parked")
    /\ UNCHANGED <<vars, method, sattempt, sresult, sends>>

\* The task polls the SendFut again.
PollSend(s) ==
    /\ spc[s] = "parked"
    /\ GoSend(s, "push")
    /\ sattempt' = [sattempt EXCEPT ![s] = 1]
    /\ UNCHANGED <<vars, method, sresult, sends>>

WakeSend(s) == s \in send_event.notified /\ PollSend(s)

\* The SendFut is dropped before it is ready, with the message in it.
CancelSend(s) ==
    /\ spc[s] \in {"parked", "sleep"} /\ method[s] = "send"
    /\ GoSend(s, "idle")
    /\ Continue(s, AfterSend(s))
    /\ UNCHANGED <<queueVars, inboxVars, haltVars, eventVars, calls, procVars,
                   method, sattempt, sresult, sends>>

\* Fault variant: a listener that is dropped keeps its notification.
DropSendListener_swallows(s) ==
    /\ Pending(s, "drop_send_listener")
    /\ send_event' = Remove(send_event, s)
    /\ Finish(s)
    /\ UNCHANGED <<queueVars, inboxVars, haltVars, recv_event, exit_event, calls,
                   procVars, sendVars>>

\* InnerSendFut::Listener is dropped with its SendFut.
DropSendListener(s) ==
    /\ Pending(s, "drop_send_listener")
    /\ send_event' \in DropListener(send_event, s)
    /\ Finish(s)
    /\ UNCHANGED <<queueVars, inboxVars, haltVars, recv_event, exit_event, calls,
                   procVars, sendVars>>
-----------------------------------------------------------------------------
\* A send in progress, which runs without waiting for anything but its timer.
SendStep(s) ==
    \/ SleepOver(s) \/ PushOk(s) \/ PushClosed(s) \/ PushFull(s)
    \/ AcquireSendListener(s) \/ SendListenerReady(s) \/ SendListenerPending(s)
    \/ DropSendListener(s)

SendNext ==
    /\ \/ Next /\ UNCHANGED sendVars
       \/ \E s \in Sender :
              SendStep(s) \/ StartSend(s) \/ PollSend(s) \/ CancelSend(s)
    /\ UNCHANGED backpressure

\* As in Receiving, and a send in progress goes on; nobody has to receive.
SendFairness ==
    /\ \A t \in Thread :
           WF_allVars(CallStep(t) /\ UNCHANGED <<procVars, sendVars, backpressure>>)
    /\ \A p \in Process :
           WF_allVars((ReceiveStep(p) \/ Wake(p)) /\ UNCHANGED <<sendVars, backpressure>>)
    /\ \A s \in Sender :
           WF_allVars((SendStep(s) \/ WakeSend(s)) /\ UNCHANGED backpressure)

\* The processes go on receiving until they exit.
EagerReceivers ==
    \A p \in Process :
        WF_allVars((Recv(p) \/ DropInbox(p)) /\ UNCHANGED <<sendVars, backpressure>>)

SendSpec == SendInit /\ [][SendNext]_allVars

FairSendSpec == SendSpec /\ SendFairness

EagerSpec == FairSendSpec /\ EagerReceivers
-----------------------------------------------------------------------------
(***************************************************************************)
(* Properties.                                                             *)
(***************************************************************************)
\* A sender that sleeps on a listener nobody has notified.
SendAsleep(s) ==
    /\ s \in send_event.waiting
    /\ spc[s] = "parked" \/ (spc[s] = "poll" /\ method[s] = "send_blocking")

\* No close is lost on a SendFut: one sleeps on a closed channel only until the
\* call that closed it has notified the senders.
CloseReachesSenders ==
    \A s \in Sender :
        SendAsleep(s) /\ method[s] = "send" /\ closed
            => StillToDo("send_notify_all")

\* Somebody is on the way to the free space: a call that has yet to notify, a
\* sender that was notified and not polled, or one that was polled and has yet to
\* push.
SendOnTheWay ==
    \/ StillToDo("send_notify_one") \/ StillToDo("send_notify_all")
    \/ send_event.notified # {}
    \/ \E s \in Sender : spc[s] = "push" /\ sattempt[s] = 3

\* No SendFut sleeps before an empty queue, where no later pop would wake it,
\* unless somebody is on the way: dropped futures and absorbed notifications
\* included.
NobodyStranded ==
    \A s \in Sender :
        SendAsleep(s) /\ method[s] = "send" /\ queue = <<>> => SendOnTheWay

\* A listener of send_event is in the list only while its sender sends, or is
\* about to drop it: one left behind would absorb the notifications.
SendListenersInUse ==
    \A s \in Sender :
        s \in Listeners(send_event) /\ spc[s] = "idle"
            => Remaining(s, "drop_send_listener")

\* The messages in the queue of those who only use try_send.
TrySenders == {s \in Sender : Methods[s] = {"try_send"}}

TryMessages == {i \in DOMAIN queue : queue[i] \in TrySenders}

\* try_send keeps to the limit of the backpressure, whatever the others send, but
\* for its check and its push being two steps: each of those who use it, all but
\* one, can have passed the check meanwhile.
BackPressureBounds ==
    Cardinality(TryMessages)
        <= IF Cardinality(TrySenders) = 0 THEN 0
           ELSE backpressure.starts_at + Cardinality(TrySenders) - 1

\* A queue that grows changes the wait in one direction only, the growth factor's,
\* through the cap of the exponent and the saturation as well: a message more never
\* shortens the wait of a linear backpressure or one whose factor is at least 1, and
\* never lengthens a wait that a factor of at most 1 imposes already.
TimeoutMonotone ==
    [][Len(queue') > Len(queue)
        => LET growth == backpressure.exp_growth
               before == B!get_timeout(backpressure, Len(queue))
               after == B!get_timeout(backpressure, Len(queue'))
           IN  /\ growth.num >= growth.den => before <= after
               /\ (growth # B!None /\ growth.num <= growth.den /\ before # B!NoTimeout)
                    => after <= before]_allVars

\* A send on a channel whose processes receive until they exit returns.
SendReturns == \A s \in Sender : (spc[s] # "idle") ~> (spc[s] = "idle")
-----------------------------------------------------------------------------
(***************************************************************************)
(* The inductive invariant behind the safety properties, which extends     *)
(* that of module Receiving.                                               *)
(***************************************************************************)
\* A send in progress: what its place says about its call and its listener.
SenderInv ==
    \A s \in Sender :
        /\ spc[s] # "idle" => todo[s] = <<>>
        /\ spc[s] \in {"listen", "poll", "parked"} => Bounded
        /\ s \in Listeners(send_event) => Bounded
        /\ s \in Listeners(send_event) /\ spc[s] \notin {"idle", "poll"}
               => method[s] = "send"

\* A SendFut that nobody has notified, from the moment its second attempt found the
\* queue full instead of when it parks.
PassedPush(s) ==
    /\ s \in send_event.waiting
    /\ spc[s] \in {"poll", "parked"} /\ method[s] = "send"

SendWakeupInv ==
    \A s \in Sender :
        /\ PassedPush(s) /\ closed => StillToDo("send_notify_all")
        /\ PassedPush(s) /\ queue = <<>> => SendOnTheWay

\* Of an unbounded channel: those who use try_send never sleep, and each of them that
\* has passed the check without having pushed yet is accounted for.
PassedTrySenders == {s \in TrySenders : spc[s] = "push"}

BackPressureInv ==
    /\ \A s \in TrySenders : spc[s] # "sleep"
    /\ TrySenders # {} =>
           Cardinality(TryMessages) + Cardinality(PassedTrySenders)
               <= backpressure.starts_at + Cardinality(TrySenders) - 1

SendIInv ==
    /\ IInv
    /\ SendTypeOK
    /\ SenderInv
    /\ SendListenersInUse
    /\ SendWakeupInv
=============================================================================
