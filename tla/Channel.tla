------------------------------- MODULE Channel -------------------------------
(***************************************************************************)
(* The state that src/src/channel/mod.rs shares between the addresses, the *)
(* inboxes and the child of an actor, and the operations on it.            *)
(*                                                                         *)
(* The grain is the atomic operation: one step on the queue, on a counter  *)
(* or on one of the three events.  A method that performs several of them  *)
(* runs its first one in the step that calls it and leaves the rest in     *)
(* todo[t], the remainder of the synchronous call thread t is in; every    *)
(* other thread may run in between.                                        *)
(*                                                                         *)
(* address_count is in module Address; nothing here reads it.              *)
(***************************************************************************)
EXTENDS Integers, Sequences, FiniteSets, EventListener

Seqs == INSTANCE SequencesExt

CONSTANTS
    Thread,         \* everything that executes code of the crate
    Process,        \* the threads that own, or will own, an inbox
    InitialProcess, \* the processes the actor is spawned with
    Caller,         \* the threads that call the non-blocking methods
    CallerOps,      \* the methods the callers use
    HaltSizes,      \* the arguments of halt_some
    MaxCalls,       \* bound on the calls of each caller
    Capacity,       \* the bound of the queue, or Unbounded
    Unbounded,      \* the capacity of an unbounded queue
    I32Max          \* i32::MAX

MethodNames == {"send_now", "close", "halt_some", "halt", "spawn"}

\* An actor starts with at least one process, which spawn_process and
\* spawn_one_process ensure.  There are fewer processes than an i32 can count.
ASSUME ChannelAssumption ==
    /\ IsFiniteSet(Process)
    /\ Process \subseteq Thread
    /\ InitialProcess \subseteq Process
    /\ InitialProcess # {}
    /\ Caller \subseteq Thread
    /\ Caller \cap Process = {}
    /\ CallerOps \subseteq MethodNames
    /\ HaltSizes \subseteq Nat
    /\ MaxCalls \in Nat
    /\ Capacity \in (Nat \ {0}) \cup {Unbounded}
    /\ Unbounded \notin Nat
    /\ I32Max \in Nat \ {0}
    /\ Cardinality(Process) <= I32Max

VARIABLES
    queue,        \* the messages in the queue, each known by its sender
    closed,       \* whether the queue is closed
    inbox_count,
    halt_count,
    recv_event,
    send_event,
    exit_event,
    inbox,        \* the inbox of each process: "none", "live" or "dropped"
    todo,         \* the rest of the call each thread is in
    calls,        \* how many calls each caller made
    granted       \* history: the number of halts requested so far

queueVars == <<queue, closed>>
inboxVars == <<inbox_count, inbox>>
haltVars == <<halt_count, granted>>
eventVars == <<recv_event, send_event, exit_event>>
channelVars == <<queueVars, inboxVars, haltVars, eventVars, todo, calls>>

\* The operations a call may still have to perform; the last two are the rest of an
\* abort, in module Supervision.
Op == {"recv_notify_one", "recv_notify_all", "send_notify_one",
       "send_notify_all", "exit_notify_all", "close", "halt_some_max", "drain",
       "drop_recv_listener", "drop_send_listener", "drop_exit_listener",
       "record_abort", "abort_handles"}

ChannelTypeOK ==
    /\ queue \in Seq(Thread)
    /\ closed \in BOOLEAN
    /\ inbox_count \in Nat
    /\ halt_count \in -I32Max .. I32Max
    /\ recv_event \in EventType(Thread)
    /\ send_event \in EventType(Thread)
    /\ exit_event \in EventType(Thread)
    /\ inbox \in [Process -> {"none", "live", "dropped"}]
    /\ todo \in [Thread -> Seq(Op)]
    /\ calls \in [Caller -> 0 .. MaxCalls]
    /\ granted \in Nat
-----------------------------------------------------------------------------
\* Channel::new, with an inbox_count that the spawn function has to make true.
ChannelNew(count) ==
    /\ queue = <<>>
    /\ closed = FALSE
    /\ inbox_count = count
    /\ halt_count = 0
    /\ recv_event = NewEvent
    /\ send_event = NewEvent
    /\ exit_event = NewEvent
    /\ todo = [t \in Thread |-> <<>>]
    /\ calls = [c \in Caller |-> 0]
    /\ granted = 0

\* The channel that the spawn functions return: one inbox per initial process.
ChannelInit ==
    /\ ChannelNew(Cardinality(InitialProcess))
    /\ inbox = [p \in Process |-> IF p \in InitialProcess THEN "live" ELSE "none"]

\* ConcurrentQueue::push accepts another message.
HasRoom == Capacity # Unbounded => Len(queue) < Capacity

\* The processes whose inbox exists.
Live == {p \in Process : inbox[p] = "live"}

\* Halts that were requested and not taken; a negative counter counts as 0.
Permits == IF halt_count > 0 THEN halt_count ELSE 0

\* Thread t still has op to perform, and some thread has.
Remaining(t, op) == Seqs!Contains(todo[t], op)

StillToDo(op) == \E t \in Thread : Remaining(t, op)

\* Thread t performs ops next.
Continue(t, ops) == todo' = [todo EXCEPT ![t] = ops]

\* push_msg where the queue is open and has room.
push_msg(t, msg, rest) ==
    /\ queue' = Append(queue, msg)
    /\ Continue(t, <<"recv_notify_one">> \o rest)

\* Fault variant: a pop that notifies no other receiver.
pop_msg_senders_only(t, rest) ==
    /\ queue' = Tail(queue)
    /\ Continue(t, <<"send_notify_one">> \o rest)

\* pop_msg where the queue has a message.
pop_msg(t, rest) ==
    /\ queue' = Tail(queue)
    /\ Continue(t, <<"send_notify_one", "recv_notify_one">> \o rest)

\* Fault variant: closing wakes the senders only.
close_senders_only(t, rest) ==
    /\ closed' = TRUE
    /\ Continue(t, IF closed THEN rest ELSE <<"send_notify_all">> \o rest)

\* Closing the queue; only the call that closes it notifies.
close(t, rest) ==
    /\ closed' = TRUE
    /\ Continue(t, IF closed THEN rest
                   ELSE <<"recv_notify_all", "send_notify_all">> \o rest)

\* i32::try_from(n).unwrap_or(i32::MAX).
ToI32(n) == IF n > I32Max THEN I32Max ELSE n

\* Fault variant: a negative counter is not brought back to 0 first.
halted_count_no_reset(n) == ToI32(halt_count + n)

\* The closure of fetch_update: a saturating addition to a counter that counts
\* as 0 when it is negative.
halted_count(n) == IF halt_count < 0 THEN n ELSE ToI32(halt_count + n)

\* Fault variant: one receiver is notified, however many have to halt.
halt_some_notify_one(t, n, rest) ==
    /\ halt_count' = halted_count(ToI32(n))
    /\ granted' = granted + ToI32(n)
    /\ Continue(t, <<"recv_notify_one">> \o rest)

\* halt_some.
halt_some(t, n, rest) ==
    /\ halt_count' = halted_count(ToI32(n))
    /\ granted' = granted + ToI32(n)
    /\ Continue(t, <<"recv_notify_all">> \o rest)

\* Fault variant: the exiting process drains the queue before it closes it.
remove_inbox_drain_first(p) ==
    /\ inbox_count' = inbox_count - 1
    /\ inbox' = [inbox EXCEPT ![p] = "dropped"]
    /\ Continue(p, IF inbox_count = 1 THEN <<"drain", "close", "exit_notify_all">>
                   ELSE <<>>)

\* Fault variant: the last process to exit leaves the channel open.
remove_inbox_open(p) ==
    /\ inbox_count' = inbox_count - 1
    /\ inbox' = [inbox EXCEPT ![p] = "dropped"]
    /\ Continue(p, IF inbox_count = 1 THEN <<"exit_notify_all", "drain">> ELSE <<>>)

\* remove_inbox, called by the destructor of the inbox of p.  The last one
\* closes the channel, notifies the exit and drops the remaining messages.
remove_inbox(p) ==
    /\ inbox_count' = inbox_count - 1
    /\ inbox' = [inbox EXCEPT ![p] = "dropped"]
    /\ Continue(p, IF inbox_count = 1 THEN <<"close", "exit_notify_all", "drain">>
                   ELSE <<>>)

\* Fault variant: the counter is incremented before it is looked at.
try_add_inbox_add_first(p) ==
    /\ inbox_count' = inbox_count + 1
    /\ inbox' = IF inbox_count >= 1 THEN [inbox EXCEPT ![p] = "live"] ELSE inbox

\* try_add_inbox, and the inbox that the spawning method creates after it.
try_add_inbox(p) ==
    /\ inbox_count >= 1
    /\ inbox_count' = inbox_count + 1
    /\ inbox' = [inbox EXCEPT ![p] = "live"]
-----------------------------------------------------------------------------
(***************************************************************************)
(* The steps of a call after its first one.                                *)
(***************************************************************************)
Pending(t, op) == todo[t] # <<>> /\ Head(todo[t]) = op

Finish(t) == Continue(t, Tail(todo[t]))

RecvNotifyOne(t) ==
    /\ Pending(t, "recv_notify_one")
    /\ recv_event' \in NotifyOne(recv_event)
    /\ Finish(t)
    /\ UNCHANGED <<queueVars, inboxVars, haltVars, send_event, exit_event, calls>>

RecvNotifyAll(t) ==
    /\ Pending(t, "recv_notify_all")
    /\ recv_event' = NotifyAll(recv_event)
    /\ Finish(t)
    /\ UNCHANGED <<queueVars, inboxVars, haltVars, send_event, exit_event, calls>>

SendNotifyOne(t) ==
    /\ Pending(t, "send_notify_one")
    /\ send_event' \in NotifyOne(send_event)
    /\ Finish(t)
    /\ UNCHANGED <<queueVars, inboxVars, haltVars, recv_event, exit_event, calls>>

SendNotifyAll(t) ==
    /\ Pending(t, "send_notify_all")
    /\ send_event' = NotifyAll(send_event)
    /\ Finish(t)
    /\ UNCHANGED <<queueVars, inboxVars, haltVars, recv_event, exit_event, calls>>

ExitNotifyAll(t) ==
    /\ Pending(t, "exit_notify_all")
    /\ exit_event' = NotifyAll(exit_event)
    /\ Finish(t)
    /\ UNCHANGED <<queueVars, inboxVars, haltVars, recv_event, send_event, calls>>

Close(t) ==
    /\ Pending(t, "close")
    /\ close(t, Tail(todo[t]))
    /\ UNCHANGED <<queue, inboxVars, haltVars, eventVars, calls>>

HaltSomeMax(t) ==
    /\ Pending(t, "halt_some_max")
    /\ halt_some(t, I32Max, Tail(todo[t]))
    /\ UNCHANGED <<queueVars, inboxVars, eventVars, calls>>

\* while self.pop_msg().is_ok() {}
Drain(t) ==
    /\ Pending(t, "drain")
    /\ \/ queue # <<>> /\ pop_msg(t, todo[t])
       \/ queue = <<>> /\ Finish(t) /\ UNCHANGED queue
    /\ UNCHANGED <<closed, inboxVars, haltVars, eventVars, calls>>

CallStep(t) ==
    \/ RecvNotifyOne(t) \/ RecvNotifyAll(t)
    \/ SendNotifyOne(t) \/ SendNotifyAll(t) \/ ExitNotifyAll(t)
    \/ Close(t) \/ HaltSomeMax(t) \/ Drain(t)
-----------------------------------------------------------------------------
(***************************************************************************)
(* The non-blocking methods, called from any address, inbox or child.  A   *)
(* call that is refused changes nothing and is not a step.                 *)
(***************************************************************************)
Calls(c, op) ==
    /\ op \in CallerOps
    /\ todo[c] = <<>>
    /\ calls[c] < MaxCalls
    /\ calls' = [calls EXCEPT ![c] = @ + 1]

CallSendNow(c) ==
    /\ Calls(c, "send_now")
    /\ ~closed /\ HasRoom
    /\ push_msg(c, c, <<>>)
    /\ UNCHANGED <<closed, inboxVars, haltVars, eventVars>>

CallClose(c) ==
    /\ Calls(c, "close")
    /\ close(c, <<>>)
    /\ UNCHANGED <<queue, inboxVars, haltVars, eventVars>>

CallHaltSome(c) ==
    /\ Calls(c, "halt_some")
    /\ \E n \in HaltSizes : halt_some(c, n, <<>>)
    /\ UNCHANGED <<queueVars, inboxVars, eventVars>>

\* halt: close, then halt_some(u32::MAX).
CallHalt(c) ==
    /\ Calls(c, "halt")
    /\ close(c, <<"halt_some_max">>)
    /\ UNCHANGED <<queue, inboxVars, haltVars, eventVars>>

\* ChildPool::spawn and try_spawn.
CallSpawn(c) ==
    /\ Calls(c, "spawn")
    /\ \E p \in Process : inbox[p] = "none" /\ try_add_inbox(p)
    /\ UNCHANGED <<queueVars, haltVars, eventVars, todo>>

CallerStep(c) ==
    \/ CallSendNow(c) \/ CallClose(c) \/ CallHaltSome(c) \/ CallHalt(c)
    \/ CallSpawn(c)
-----------------------------------------------------------------------------
(***************************************************************************)
(* What every component that runs the channel shows of the exit, and what  *)
(* its proof relies on.                                                    *)
(***************************************************************************)
\* Once the last process is out of its destructor the channel is closed and
\* empty: no message, also not one that was pushed meanwhile, outlives the actor.
ExitLeavesNothing ==
    (\A p \in Process : inbox[p] # "live" /\ todo[p] = <<>>)
        => closed /\ queue = <<>>

\* The destructor of the last inbox, from its first step on: a process that
\* drains closes first, and somebody drains until nothing is left.
ExitInv ==
    /\ \A t \in Thread \ Process : ~Remaining(t, "drain")
    /\ \A t \in Thread :
           Remaining(t, "drain") /\ ~closed
               => todo[t] = <<"close", "exit_notify_all", "drain">>
    /\ Live = {} => (closed /\ queue = <<>>) \/ StillToDo("drain")
=============================================================================
