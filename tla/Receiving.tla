------------------------------ MODULE Receiving ------------------------------
(***************************************************************************)
(* The receiving side: Inbox::try_recv, the RecvFut future behind          *)
(* Inbox::recv, its use as a Stream, and the drop of the inbox, run by     *)
(* concurrent processes against callers of the other methods.              *)
(*                                                                         *)
(* A process runs its own code (pc = "running") and calls a receive        *)
(* method.  A receive tries up to three times: attempt 1 before a listener *)
(* is acquired, attempt 2 after, attempt 3 when the listener fired.        *)
(* Attempt 0 is try_recv.  When attempt 2 fails on a listener that did not *)
(* fire the task is parked until its listener wakes it.                    *)
(***************************************************************************)
EXTENDS Channel

CONSTANTS
    Streaming,    \* the processes that receive through impl Stream for Inbox
    ExitsOnError  \* whether a process stops receiving on Halted or Closed

ASSUME ReceivingAssumption ==
    /\ Streaming \subseteq Process
    /\ ExitsOnError \in BOOLEAN

VARIABLES
    pc,             \* where each process is
    attempt,        \* which attempt of the receive it is in
    signaled_halt,  \* the flag of its inbox
    result          \* what its last receive returned, "None" during a receive

procVars == <<pc, attempt, signaled_halt, result>>
vars == <<channelVars, procVars>>

\* The places of a receive, and of the code of the process around it.
Places == {"running", "load", "sub", "pop", "listen", "poll", "parked"}

Results == {"None", "Ok", "Empty", "Halted", "ClosedAndEmpty"}

TypeOK ==
    /\ ChannelTypeOK
    /\ pc \in [Process -> Places]
    /\ attempt \in [Process -> 0 .. 3]
    /\ signaled_halt \in [Process -> BOOLEAN]
    /\ result \in [Process -> Results]

Init ==
    /\ ChannelInit
    /\ pc = [p \in Process |-> "running"]
    /\ attempt = [p \in Process |-> 0]
    /\ signaled_halt = [p \in Process |-> FALSE]
    /\ result = [p \in Process |-> "None"]

\* The process executes its own code.
Idle(p) == inbox[p] = "live" /\ pc[p] = "running" /\ todo[p] = <<>>

Go(p, place) == pc' = [pc EXCEPT ![p] = place]

\* try_recv begins: an inbox that was halted does not look at halt_count again.
Try(p, k) ==
    /\ attempt' = [attempt EXCEPT ![p] = k]
    /\ Go(p, IF signaled_halt[p] THEN "pop" ELSE "load")

\* Fault variant: the listener outlives the future.
AfterReceive_keeps(p) == <<>>

\* The receive is over; a future first drops its listener.
AfterReceive(p) == IF attempt[p] = 0 THEN <<>> ELSE <<"drop_recv_listener">>

Return(p, res) ==
    /\ result' = [result EXCEPT ![p] = res]
    /\ attempt' = [attempt EXCEPT ![p] = 0]
    /\ Go(p, "running")
-----------------------------------------------------------------------------
MayReceive(p) == ExitsOnError => result[p] \notin {"Halted", "ClosedAndEmpty"}

\* Inbox::try_recv.
TryRecv(p) ==
    /\ Idle(p) /\ MayReceive(p)
    /\ Try(p, 0)
    /\ result' = [result EXCEPT ![p] = "None"]
    /\ UNCHANGED <<channelVars, signaled_halt>>

\* The first poll of Inbox::recv.
Recv(p) ==
    /\ Idle(p) /\ MayReceive(p)
    /\ Try(p, 1)
    /\ result' = [result EXCEPT ![p] = "None"]
    /\ UNCHANGED <<channelVars, signaled_halt>>

\* Fault variant: every receive goes on to fetch_sub.
LoadHaltCount_unguarded(p) ==
    /\ pc[p] = "load"
    /\ Go(p, "sub")
    /\ UNCHANGED <<channelVars, attempt, signaled_halt, result>>

\* inbox_should_halt, first access: load.
LoadHaltCount(p) ==
    /\ pc[p] = "load"
    /\ Go(p, IF halt_count > 0 THEN "sub" ELSE "pop")
    /\ UNCHANGED <<channelVars, attempt, signaled_halt, result>>

\* fetch_sub on an AtomicI32 wraps around.
Decrement(n) == IF n = -I32Max - 1 THEN I32Max ELSE n - 1

\* Fault variant: the value fetch_sub returns is not looked at.
SubHaltCount_unchecked(p) ==
    /\ pc[p] = "sub"
    /\ halt_count' = Decrement(halt_count)
    /\ signaled_halt' = [signaled_halt EXCEPT ![p] = TRUE]
    /\ Return(p, "Halted")
    /\ Continue(p, AfterReceive(p))
    /\ UNCHANGED <<queueVars, inboxVars, granted, eventVars, calls>>

\* inbox_should_halt, second access: fetch_sub.  Only a positive previous value
\* halts this inbox.
SubHaltCount(p) ==
    /\ pc[p] = "sub"
    /\ halt_count' = Decrement(halt_count)
    /\ \/ /\ halt_count > 0
          /\ signaled_halt' = [signaled_halt EXCEPT ![p] = TRUE]
          /\ Return(p, "Halted")
          /\ Continue(p, AfterReceive(p))
       \/ /\ halt_count <= 0
          /\ Go(p, "pop")
          /\ UNCHANGED <<todo, attempt, signaled_halt, result>>
    /\ UNCHANGED <<queueVars, inboxVars, granted, eventVars, calls>>

\* pop_msg returns a message.
PopOk(p) ==
    /\ pc[p] = "pop" /\ queue # <<>>
    /\ pop_msg(p, AfterReceive(p))
    /\ Return(p, "Ok")
    /\ UNCHANGED <<closed, inboxVars, haltVars, eventVars, calls, signaled_halt>>

\* pop_msg returns PopError::Closed.
PopClosed(p) ==
    /\ pc[p] = "pop" /\ queue = <<>> /\ closed
    /\ Return(p, "ClosedAndEmpty")
    /\ Continue(p, AfterReceive(p))
    /\ UNCHANGED <<queueVars, inboxVars, haltVars, eventVars, calls, signaled_halt>>

\* pop_msg returns PopError::Empty: try_recv returns, attempt 2 polls the
\* listener, and attempts 1 and 3 make sure there is one.
PopEmpty(p) ==
    /\ pc[p] = "pop" /\ queue = <<>> /\ ~closed
    /\ \/ attempt[p] = 0 /\ Return(p, "Empty")
       \/ attempt[p] \in {1, 3} /\ Go(p, "listen") /\ UNCHANGED <<attempt, result>>
       \/ attempt[p] = 2 /\ Go(p, "poll") /\ UNCHANGED <<attempt, result>>
    /\ UNCHANGED <<channelVars, signaled_halt>>

\* Fault variant: the second attempt is skipped once the listener exists.
AcquireListener_no_retry(p) ==
    /\ pc[p] = "listen"
    /\ recv_event' = IF p \in Listeners(recv_event) THEN recv_event
                     ELSE Listen(recv_event, p)
    /\ attempt' = [attempt EXCEPT ![p] = 2]
    /\ Go(p, "poll")
    /\ UNCHANGED <<queueVars, inboxVars, haltVars, send_event, exit_event, todo,
                   calls, signaled_halt, result>>

\* A listener is created unless the inbox has one; then the second attempt.
AcquireListener(p) ==
    /\ pc[p] = "listen"
    /\ recv_event' = IF p \in Listeners(recv_event) THEN recv_event
                     ELSE Listen(recv_event, p)
    /\ Try(p, 2)
    /\ UNCHANGED <<queueVars, inboxVars, haltVars, send_event, exit_event, todo,
                   calls, signaled_halt, result>>

\* The listener fired: it is gone, and the third attempt begins.
ListenerReady(p) ==
    /\ pc[p] = "poll" /\ p \in recv_event.notified
    /\ recv_event' = Remove(recv_event, p)
    /\ Try(p, 3)
    /\ UNCHANGED <<queueVars, inboxVars, haltVars, send_event, exit_event, todo,
                   calls, signaled_halt, result>>

\* The listener is pending and holds the waker of the task.  A Stream creates
\* its RecvFut anew in every poll_next, and drops it before it returns.
ListenerPending(p) ==
    /\ pc[p] = "poll" /\ p \notin recv_event.notified
    /\ Go(p, "parked")
    /\ Continue(p, IF p \in Streaming THEN <<"drop_recv_listener">> ELSE <<>>)
    /\ UNCHANGED <<queueVars, inboxVars, haltVars, eventVars, calls, attempt,
                   signaled_halt, result>>

\* The task polls the receive again, whatever the reason.
Poll(p) ==
    /\ pc[p] = "parked" /\ todo[p] = <<>>
    /\ Try(p, 1)
    /\ UNCHANGED <<channelVars, signaled_halt, result>>

\* The notification of its listener made the task poll again.
Wake(p) == p \in recv_event.notified /\ Poll(p)

\* The RecvFut is dropped before it is ready.
Cancel(p) ==
    /\ pc[p] = "parked" /\ todo[p] = <<>>
    /\ attempt' = [attempt EXCEPT ![p] = 0]
    /\ Go(p, "running")
    /\ Continue(p, <<"drop_recv_listener">>)
    /\ UNCHANGED <<queueVars, inboxVars, haltVars, eventVars, calls,
                   signaled_halt, result>>

\* *listener = None.
DropRecvListener(p) ==
    /\ Pending(p, "drop_recv_listener")
    /\ recv_event' \in DropListener(recv_event, p)
    /\ Finish(p)
    /\ UNCHANGED <<queueVars, inboxVars, haltVars, send_event, exit_event, calls,
                   procVars>>

\* The process ends: its function returned or panicked, or the task was aborted.
DropInbox(p) ==
    /\ Idle(p)
    /\ remove_inbox(p)
    /\ UNCHANGED <<queueVars, haltVars, eventVars, calls, procVars>>
-----------------------------------------------------------------------------
\* A receive in progress, which the executor runs without waiting for anything.
ReceiveStep(p) ==
    \/ LoadHaltCount(p) \/ SubHaltCount(p)
    \/ PopOk(p) \/ PopClosed(p) \/ PopEmpty(p)
    \/ AcquireListener(p) \/ ListenerReady(p) \/ ListenerPending(p)
    \/ DropRecvListener(p)

\* What the user code of a process decides to do.
UserStep(p) == TryRecv(p) \/ Recv(p) \/ Poll(p) \/ Cancel(p) \/ DropInbox(p)

Next ==
    \/ \E t \in Thread : CallStep(t) /\ UNCHANGED procVars
    \/ \E c \in Caller : CallerStep(c) /\ UNCHANGED procVars
    \/ \E p \in Process : ReceiveStep(p) \/ UserStep(p)

\* Synchronous code runs to its end and a woken task is polled; nobody has to
\* call a method, to receive or to exit.
Fairness ==
    /\ \A t \in Thread : WF_vars(CallStep(t) /\ UNCHANGED procVars)
    /\ \A p \in Process : WF_vars(ReceiveStep(p) \/ Wake(p))

Spec == Init /\ [][Next]_vars

FairSpec == Spec /\ Fairness
-----------------------------------------------------------------------------
(***************************************************************************)
(* Properties.                                                             *)
(***************************************************************************)
Halted == {p \in Process : signaled_halt[p]}

\* The processes that read a positive counter and are about to decrement it.
Deciding == {p \in Process : pc[p] = "sub"}

\* Halts are neither lost nor duplicated by the load / fetch_sub race of
\* inbox_should_halt: the processes that were halted and the permits left in
\* halt_count make up what halt_some was asked for, exactly so until the counter
\* saturates, and never more.
HaltsConserved ==
    /\ Cardinality(Halted) + Permits <= granted
    /\ granted <= I32Max => Cardinality(Halted) + Permits = granted

\* Processes that lose the race drive halt_count below 0, but no further than
\* one less than the number of processes, those about to decrement included:
\* fetch_sub never wraps around.
HaltDebtBounded ==
    halt_count - Cardinality(Deciding) >= 1 - Cardinality(Process)

\* inbox_count is the number of inboxes that exist, through concurrent spawns
\* and drops, so the assertion of remove_inbox never fires.
InboxCountExact == inbox_count = Cardinality(Live)

\* An actor that has exited never has a process again.
ExitIsFinal == [][inbox_count = 0 => inbox_count' = 0]_vars

Parked(p) == pc[p] = "parked"

\* A task that sleeps on a listener nobody has notified.
Asleep(p) == Parked(p) /\ p \in recv_event.waiting

\* No halt is lost: where a process sleeps that could take one, the call that
\* requested it has yet to notify the receivers.
HaltNotLost ==
    \A p \in Process :
        Asleep(p) /\ ~signaled_halt[p] /\ halt_count > 0
            => StillToDo("recv_notify_all")

\* No close is lost: a process sleeps on a closed channel only until the call
\* that closed it has notified the receivers.
CloseNotLost ==
    \A p \in Process : Asleep(p) /\ closed => StillToDo("recv_notify_all")

\* The third attempt of p, which took a notification out of the event.
TookNotification(p) == pc[p] \in {"load", "sub", "pop"} /\ attempt[p] = 3

\* Somebody is on the way to the queue: a call that has yet to notify, a receiver
\* that was notified and not polled, or one that was polled and has yet to look.
OnTheWay ==
    \/ StillToDo("recv_notify_one") \/ StillToDo("recv_notify_all")
    \/ recv_event.notified # {}
    \/ \E q \in Process : TookNotification(q)

\* No message is lost: a process sleeps while there is a message only if somebody
\* else is on the way to it.  A process that was halted before and receives
\* nevertheless is left out: a notification that another one spends on a halt is
\* not passed on to it.
MessageNotLost ==
    \A p \in Process :
        Asleep(p) /\ ~signaled_halt[p] /\ queue # <<>> => OnTheWay

\* A listener is in the list only while its inbox receives, or is about to drop
\* it: one left behind would absorb the notifications meant for the others.
ListenersInUse ==
    \A p \in Process :
        p \in Listeners(recv_event) /\ pc[p] = "running"
            => Remaining(p, "drop_recv_listener")

\* A task that waits in recv while there is a message is polled again, or
\* somebody else takes the message; a process that was halted is left out, as
\* above.
MessageWakesReceiver ==
    \A p \in Process :
        (Parked(p) /\ ~signaled_halt[p] /\ queue # <<>>)
            ~> (~Parked(p) \/ queue = <<>>)

\* A task that waits in recv while there is a halt for it is polled again, or
\* another process takes the halt.
HaltWakesReceiver ==
    \A p \in Process :
        (Parked(p) /\ ~signaled_halt[p] /\ halt_count > 0)
            ~> (~Parked(p) \/ halt_count <= 0)
-----------------------------------------------------------------------------
(***************************************************************************)
(* The inductive invariant behind the safety properties.                   *)
(***************************************************************************)
\* A receive in progress: what its place says about its inbox.
ReceiveInv ==
    \A p \in Process :
        /\ pc[p] \notin {"running", "parked"} => todo[p] = <<>>
        /\ pc[p] # "running" => inbox[p] = "live"
        /\ pc[p] \in {"load", "sub"} => ~signaled_halt[p]
        /\ pc[p] = "listen" => attempt[p] \in {1, 3}
        /\ pc[p] \in {"poll", "parked"} => attempt[p] = 2
        /\ pc[p] # "running" /\ attempt[p] = 0 => p \notin Listeners(recv_event)

\* A listener that nobody has notified, of a receive whose second attempt looked
\* at halt_count, or at the queue.
PassedHalt(p) ==
    /\ p \in recv_event.waiting
    /\ pc[p] = "parked" \/ (pc[p] \in {"pop", "poll"} /\ attempt[p] = 2)

PassedQueue(p) == p \in recv_event.waiting /\ pc[p] \in {"poll", "parked"}

\* The wake-ups, from the moment the receive looked instead of when it parks.
WakeupInv ==
    \A p \in Process :
        /\ PassedHalt(p) /\ ~signaled_halt[p] /\ halt_count > 0
               => StillToDo("recv_notify_all")
        /\ PassedQueue(p) /\ closed => StillToDo("recv_notify_all")
        /\ PassedQueue(p) /\ ~signaled_halt[p] /\ queue # <<>> => OnTheWay

IInv ==
    /\ TypeOK
    /\ ReceiveInv
    /\ ListenersInUse
    /\ InboxCountExact
    /\ HaltDebtBounded
    /\ HaltsConserved
    /\ WakeupInv
    /\ ExitInv
=============================================================================
