----------------------------- MODULE Supervision -----------------------------
(***************************************************************************)
(* Child, ChildPool and the shutdown futures: the unique handle to an      *)
(* actor, which spawns, halts, aborts and awaits the tasks of its          *)
(* processes, is cast between its typed and its dyn form, and acts when it *)
(* is dropped according to its Link.                                       *)
(*                                                                         *)
(* A task owns one inbox.  Its function may return or panic at any time,   *)
(* may drop the inbox before it does, and may never return.  An actor is   *)
(* made of processes, which the spawn_process functions give an Inbox, or  *)
(* of tasks, which the spawn_task functions give a HaltNotifier.  A task   *)
(* may poll its notifier at any time, and need not: nothing wakes one that *)
(* awaits it, because the poll is that of the stream of an inbox, which    *)
(* leaves no listener (module Receiving).                                  *)
(***************************************************************************)
EXTENDS Channel

CONSTANTS
    Supervisor,      \* the thread that owns the child
    FirstHandles,    \* the join handles of the initial processes
    Links,           \* the links: "detached", "zero" or "timer"
    Kinds,           \* what the actor may be made of: "process" or "task"
    Panicking,       \* the processes whose function may panic
    MaxHalts         \* bound on the calls of halt and shutdown

ASSUME SupervisionAssumption ==
    /\ Supervisor \in Thread \ (Process \cup Caller)
    /\ "spawn" \notin CallerOps  \* only the pool can spawn
    /\ FirstHandles \in Seq(Process)
    /\ Seqs!ToSet(FirstHandles) = InitialProcess
    /\ Len(FirstHandles) = Cardinality(InitialProcess)
    /\ Links \subseteq {"detached", "zero", "timer"}
    /\ Kinds \subseteq {"process", "task"}
    /\ Panicking \subseteq Process
    /\ MaxHalts \in Nat

VARIABLES
    holder,      \* what holds the join handles
    form,        \* "typed" or "dyn"
    link,        \* Link::Attached with a zero or a longer abort-timer, or Detached
    is_aborted,
    handles,     \* the join handles
    reports,     \* what was read from the join handle of each task
    awaited,     \* history: whether the child was awaited to its end
    shutdown,    \* the shutdown future: "none", "sleep" or "no_sleep"
    halts,       \* how many calls of halt and shutdown there were
    reaper,      \* the handles that the task spawned by drop waits to abort
    kind,        \* what the actor is made of
    task,        \* the state of each task
    notifier,    \* the HaltNotifier of each task
    cancel,      \* the tasks that JoinHandle::abort was called on
    late         \* history: the tasks spawned by a child that was aborted

formVars == <<holder, form>>
linkVars == <<link, is_aborted>>
handleVars == <<handles, reports, awaited>>
shutdownVars == <<shutdown, halts, reaper>>
childVars == <<formVars, linkVars, handleVars, shutdownVars>>
taskVars == <<kind, task, notifier, cancel, late>>
superVars == <<channelVars, childVars, taskVars>>

TaskStates == {"none", "running", "returning", "panicking", "cancelling",
               "returned", "panicked", "cancelled"}

SuperTypeOK ==
    /\ ChannelTypeOK
    /\ holder \in {"child", "pool", "joinhandles", "dropped", "panicked"}
    /\ form \in {"typed", "dyn"}
    /\ link \in {"detached", "zero", "timer"}
    /\ is_aborted \in BOOLEAN
    /\ handles \in Seq(Process)
    /\ reports \in [Process -> {"None", "Ok", "Panic", "Abort"}]
    /\ awaited \in BOOLEAN
    /\ shutdown \in {"none", "sleep", "no_sleep"}
    /\ halts \in 0 .. MaxHalts
    /\ reaper \subseteq Process
    /\ kind \in {"process", "task"}
    /\ task \in [Process -> TaskStates]
    /\ notifier \in [Process -> {"waiting", "deciding", "ready"}]
    /\ cancel \subseteq Process
    /\ late \subseteq Process

\* The child or pool a spawn function returns; spawn_task and its siblings return
\* a dyn one, whose message type is known to the crate only.
SuperInit ==
    /\ ChannelInit
    /\ holder \in IF Len(FirstHandles) = 1 THEN {"child", "pool"} ELSE {"pool"}
    /\ kind \in Kinds
    /\ form = IF kind = "task" THEN "dyn" ELSE "typed"
    /\ link \in Links
    /\ is_aborted = FALSE
    /\ handles = FirstHandles
    /\ reports = [p \in Process |-> "None"]
    /\ awaited = FALSE
    /\ shutdown = "none"
    /\ halts = 0
    /\ reaper = {}
    /\ task = [p \in Process |-> IF p \in InitialProcess THEN "running" ELSE "none"]
    /\ notifier = [p \in Process |-> "waiting"]
    /\ cancel = {}
    /\ late = {}

Finished(p) == task[p] \in {"returned", "panicked", "cancelled"}

\* The result of a join handle: ExitError::from(JoinError), or the output.
ExitResult(p) ==
    CASE task[p] = "returned" -> "Ok"
      [] task[p] = "panicked" -> "Panic"
      [] task[p] = "cancelled" -> "Abort"

Handles == Seqs!ToSet(handles)

\* is_finished, of a child or a pool.
is_finished == \A p \in Handles : Finished(p)

\* The tasks that are alive and whose handle the pool has.
task_count == Cardinality({p \in Handles : ~Finished(p)})

Held == holder \in {"child", "pool"} /\ todo[Supervisor] = <<>>

\* The methods take the child by &mut self, which a shutdown future borrows.
Free == Held /\ shutdown = "none"

\* Vec::swap_remove: the last handle takes the place of the removed one.
SwapRemove(seq, i) ==
    [j \in 1 .. Len(seq) - 1 |-> IF j = i THEN seq[Len(seq)] ELSE seq[j]]
-----------------------------------------------------------------------------
(***************************************************************************)
(* The tasks.                                                              *)
(***************************************************************************)
\* The task executes the code of its function, which is not in a poll of its
\* notifier.
Active(p) == task[p] = "running" /\ todo[p] = <<>> /\ notifier[p] # "deciding"

\* Fault variant: the inbox is removed again when it was dropped before.
EndTask_removes_twice(p, state) ==
    /\ Active(p)
    /\ task' = [task EXCEPT ![p] = state]
    /\ remove_inbox(p)
    /\ UNCHANGED <<queueVars, haltVars, eventVars, calls, childVars, kind, notifier,
                   cancel, late>>

\* The future of the task is over, or dropped, and its inbox with it.
EndTask(p, state) ==
    /\ Active(p)
    /\ task' = [task EXCEPT ![p] = state]
    /\ IF inbox[p] = "live" THEN remove_inbox(p) ELSE UNCHANGED <<inboxVars, todo>>
    /\ UNCHANGED <<queueVars, haltVars, eventVars, calls, childVars, kind, notifier,
                   cancel, late>>

\* The function of the process returns.
ReturnTask(p) == EndTask(p, "returning")

\* The function of the process panics, which unwinds through its inbox.
PanicTask(p) == p \in Panicking /\ EndTask(p, "panicking")

\* The runtime drops a task that was aborted at its next await.
CancelTask(p) == p \in cancel /\ EndTask(p, "cancelling")

\* The function drops its inbox and goes on.
DropInboxEarly(p) ==
    /\ Active(p) /\ inbox[p] = "live"
    /\ remove_inbox(p)
    /\ UNCHANGED <<queueVars, haltVars, eventVars, calls, childVars, taskVars>>

\* The destructors have run; the join handle is ready.
FinishTask(p) ==
    /\ task[p] \in {"returning", "panicking", "cancelling"} /\ todo[p] = <<>>
    /\ task' = [task EXCEPT ![p] = CASE @ = "returning" -> "returned"
                                     [] @ = "panicking" -> "panicked"
                                     [] @ = "cancelling" -> "cancelled"]
    /\ UNCHANGED <<channelVars, childVars, kind, notifier, cancel, late>>

\* HaltNotifier::poll polls the stream of its inbox, whose queue is always empty:
\* nobody can name the type of its messages.  Where there is no halt, or the
\* channel is closed and empty, the poll is pending and changes nothing.
PollNotifier(p) ==
    /\ kind = "task" /\ Active(p) /\ inbox[p] = "live" /\ notifier[p] = "waiting"
    /\ halt_count > 0
    /\ notifier' = [notifier EXCEPT ![p] = "deciding"]
    /\ UNCHANGED <<channelVars, childVars, kind, task, cancel, late>>

\* Fault variant: a channel that is closed hides the halt that was taken.
TakeHalt_hidden(p) ==
    /\ notifier[p] = "deciding"
    /\ halt_count' = halt_count - 1
    /\ notifier' = [notifier EXCEPT ![p] = IF halt_count > 0 /\ ~closed THEN "ready"
                                           ELSE "waiting"]
    /\ UNCHANGED <<queueVars, inboxVars, granted, eventVars, todo, calls, childVars,
                   kind, task, cancel, late>>

\* The poll goes on with fetch_sub: the notifier is ready if a halt was left.
TakeHalt(p) ==
    /\ notifier[p] = "deciding"
    /\ halt_count' = halt_count - 1
    /\ notifier' = [notifier EXCEPT ![p] = IF halt_count > 0 THEN "ready" ELSE "waiting"]
    /\ UNCHANGED <<queueVars, inboxVars, granted, eventVars, todo, calls, childVars,
                   kind, task, cancel, late>>
-----------------------------------------------------------------------------
(***************************************************************************)
(* The methods that child and pool share.                                  *)
(***************************************************************************)
\* attach.
Attach(l) ==
    /\ Free
    /\ l # "detached"
    /\ link' = l
    /\ UNCHANGED <<channelVars, formVars, is_aborted, handleVars, shutdownVars, taskVars>>

\* detach.
Detach ==
    /\ Free
    /\ link' = "detached"
    /\ UNCHANGED <<channelVars, formVars, is_aborted, handleVars, shutdownVars, taskVars>>

\* Fault variant: the handles are aborted before the channel is closed.
abort_handles_first ==
    /\ Continue(Supervisor, <<"abort_handles", "close", "record_abort">>)
    /\ UNCHANGED closed

\* What abort does: close the channel, record the abort, then abort every handle.
abort == close(Supervisor, <<"record_abort">>)

RecordAbort ==
    /\ Pending(Supervisor, "record_abort")
    /\ is_aborted' = TRUE
    /\ Continue(Supervisor, <<"abort_handles">> \o Tail(todo[Supervisor]))
    /\ UNCHANGED <<queueVars, inboxVars, haltVars, eventVars, calls, formVars, link,
                   handleVars, shutdownVars, taskVars>>

\* The loop over the handles.  To abort one again, or one that is over, has no effect.
AbortHandles ==
    /\ Pending(Supervisor, "abort_handles")
    /\ \/ \E p \in Handles \ cancel : cancel' = cancel \cup {p} /\ UNCHANGED todo
       \/ Handles \subseteq cancel /\ Finish(Supervisor) /\ UNCHANGED cancel
    /\ UNCHANGED <<queueVars, inboxVars, haltVars, eventVars, calls, childVars, kind,
                   task, notifier, late>>

\* What halt does: close the channel, then halt_some(u32::MAX).
halt == close(Supervisor, <<"halt_some_max">>)

\* halt, of a child or a pool.
Halt ==
    /\ Free /\ halts < MaxHalts
    /\ halt
    /\ halts' = halts + 1
    /\ UNCHANGED <<queue, inboxVars, haltVars, eventVars, calls, formVars, linkVars,
                   handleVars, shutdown, reaper, taskVars>>

\* A method that gives the parts of the handle away, or puts them together again,
\* without running its destructor.
Recast(newHolder, newForm) ==
    /\ Free
    /\ holder' = newHolder /\ form' = newForm
    /\ UNCHANGED <<channelVars, linkVars, handleVars, shutdownVars, taskVars>>

\* into_dyn, of a child or a pool.
IntoDynChild == holder = "child" /\ form = "typed" /\ Recast("child", "dyn")
IntoDynPool == holder = "pool" /\ form = "typed" /\ Recast("pool", "dyn")

\* downcast to the right type; one to a wrong type returns the handle as it was.
DowncastChild ==
    holder = "child" /\ form = "dyn" /\ kind = "process" /\ Recast("child", "typed")
DowncastPool ==
    holder = "pool" /\ form = "dyn" /\ kind = "process" /\ Recast("pool", "typed")
-----------------------------------------------------------------------------
(***************************************************************************)
(* The child.                                                              *)
(***************************************************************************)
IntoPool == holder = "child" /\ Recast("pool", form)

IntoJoinhandle == holder = "child" /\ Recast("joinhandles", form)

AbortChild ==
    /\ Free /\ holder = "child"
    /\ abort
    /\ UNCHANGED <<queue, inboxVars, haltVars, eventVars, calls, childVars, taskVars>>

\* The join handle of the child is ready.  Its output can be read once: tokio
\* panics on the second time.
JoinChild ==
    /\ holder = "child" /\ Finished(handles[1])
    /\ IF reports[handles[1]] = "None"
       THEN /\ reports' = [reports EXCEPT ![handles[1]] = ExitResult(handles[1])]
            /\ awaited' = TRUE
            /\ UNCHANGED holder
       ELSE holder' = "panicked" /\ UNCHANGED <<reports, awaited>>
    /\ UNCHANGED <<channelVars, form, linkVars, handles, halts, reaper, taskVars>>

PollChild == Free /\ JoinChild /\ UNCHANGED shutdown

\* ShutdownFut::new: the actor is halted and the timer starts.
ShutdownChild ==
    /\ Free /\ holder = "child" /\ halts < MaxHalts
    /\ halt
    /\ halts' = halts + 1
    /\ shutdown' = "sleep"
    /\ UNCHANGED <<queue, inboxVars, haltVars, eventVars, calls, formVars, linkVars,
                   handleVars, reaper, taskVars>>

\* A poll of the ShutdownFut: the child has exited.
ShutdownFutReady == Held /\ shutdown # "none" /\ JoinChild /\ shutdown' = "none"

\* Fault variant: the timer ends without an abort.
ShutdownFutTimeout_no_abort ==
    /\ Held /\ holder = "child" /\ ~is_finished
    /\ shutdown = "sleep" /\ shutdown' = "no_sleep"
    /\ UNCHANGED <<channelVars, formVars, linkVars, handleVars, halts, reaper,
                   taskVars>>

\* A poll of the ShutdownFut: the child has not exited, and the timer is over.
ShutdownFutTimeout ==
    /\ Held /\ holder = "child" /\ ~is_finished
    /\ shutdown = "sleep" /\ shutdown' = "no_sleep"
    /\ abort
    /\ UNCHANGED <<queue, inboxVars, haltVars, eventVars, calls, formVars, linkVars,
                   handleVars, halts, reaper, taskVars>>
-----------------------------------------------------------------------------
(***************************************************************************)
(* The pool.                                                               *)
(***************************************************************************)
IntoJoinhandles == holder = "pool" /\ Recast("joinhandles", form)

AbortPool ==
    /\ Free /\ holder = "pool"
    /\ abort
    /\ UNCHANGED <<queue, inboxVars, haltVars, eventVars, calls, childVars, taskVars>>

\* A process is added to an actor that has not exited, and its task spawned.
AddProcess(p) ==
    /\ Free /\ holder = "pool" /\ kind = "process"
    /\ task[p] = "none"
    /\ try_add_inbox(p)
    /\ task' = [task EXCEPT ![p] = "running"]
    /\ handles' = Append(handles, p)
    /\ late' = IF is_aborted THEN late \cup {p} ELSE late
    /\ UNCHANGED <<queueVars, haltVars, eventVars, todo, calls, formVars, linkVars,
                   reports, awaited, shutdownVars, kind, notifier, cancel>>

\* ChildPool::spawn, of a typed pool.
Spawn(p) == form = "typed" /\ AddProcess(p)

\* Fault variant: the inbox is counted before its type is looked at.
TrySpawn_counts_first(p) ==
    \/ AddProcess(p)
    \/ /\ Free /\ holder = "pool" /\ inbox_count \in 1 .. Cardinality(Process)
       /\ inbox_count' = inbox_count + 1
       /\ UNCHANGED <<queueVars, inbox, haltVars, eventVars, todo, calls, childVars,
                      taskVars>>

\* ChildPool::try_spawn, of either form, with an inbox of the right type; a wrong
\* one, like an actor that has exited, is refused and changes nothing.
TrySpawn(p) == AddProcess(p)

\* Fault variant: the last handle leaves the vector, whichever one was ready.
TakeOutput_pops(i) ==
    /\ reports' = [reports EXCEPT ![handles[i]] = ExitResult(handles[i])]
    /\ handles' = SwapRemove(handles, Len(handles))

\* poll_next reads the output of a handle that is ready, and removes the handle.
TakeOutput(i) ==
    /\ reports' = [reports EXCEPT ![handles[i]] = ExitResult(handles[i])]
    /\ handles' = SwapRemove(handles, i)

\* A handle of the pool is ready: the next exit.
JoinPool ==
    /\ holder = "pool"
    /\ \E i \in DOMAIN handles :
           /\ Finished(handles[i])
           /\ IF reports[handles[i]] = "None"
              THEN TakeOutput(i) /\ UNCHANGED holder
              ELSE holder' = "panicked" /\ UNCHANGED <<handles, reports>>
    /\ UNCHANGED <<channelVars, form, linkVars, awaited, halts, reaper, taskVars>>

PollPool == Free /\ JoinPool /\ UNCHANGED shutdown

\* ShutdownStream::new.
ShutdownPool ==
    /\ Free /\ holder = "pool" /\ halts < MaxHalts
    /\ halt
    /\ halts' = halts + 1
    /\ shutdown' = "sleep"
    /\ UNCHANGED <<queue, inboxVars, haltVars, eventVars, calls, formVars, linkVars,
                   handleVars, reaper, taskVars>>

\* A poll of the ShutdownStream looks at its timer first, then at the pool.
ShutdownStreamTimeout ==
    /\ Held /\ holder = "pool"
    /\ shutdown = "sleep" /\ shutdown' = "no_sleep"
    /\ abort
    /\ UNCHANGED <<queue, inboxVars, haltVars, eventVars, calls, formVars, linkVars,
                   handleVars, halts, reaper, taskVars>>

ShutdownStreamNext ==
    /\ Held /\ shutdown # "none"
    /\ JoinPool
    /\ shutdown' = IF holder' = "pool" THEN shutdown ELSE "none"

\* The stream is over: the pool has no handles.
ShutdownStreamOver ==
    /\ Held /\ holder = "pool" /\ handles = <<>>
    /\ shutdown # "none" /\ shutdown' = "none"
    /\ UNCHANGED <<channelVars, formVars, linkVars, handleVars, halts, reaper,
                   taskVars>>

\* The shutdown of a child or a pool is dropped before it is over.
DropShutdown ==
    /\ Held
    /\ shutdown # "none" /\ shutdown' = "none"
    /\ UNCHANGED <<channelVars, formVars, linkVars, handleVars, halts, reaper,
                   taskVars>>
-----------------------------------------------------------------------------
(***************************************************************************)
(* Dropping a child or a pool.                                             *)
(***************************************************************************)
\* Fault variant: a detached child is treated as an attached one.
ActsOnDrop_ignores_link == ~is_aborted /\ ~is_finished

\* Only an attached child that was not aborted acts.
ActsOnDrop == link # "detached" /\ ~is_aborted /\ ~is_finished

\* With a zero timer it aborts; else it halts, and a task of its own aborts what
\* the timer leaves.
Drop ==
    /\ Free
    /\ holder' = "dropped"
    /\ IF ActsOnDrop
       THEN \/ link = "zero" /\ abort /\ UNCHANGED <<handles, reaper>>
            \/ /\ link # "zero" /\ halt
               /\ reaper' = Handles
               /\ handles' = <<>>
       ELSE UNCHANGED <<closed, todo, handles, reaper>>
    /\ UNCHANGED <<queue, inboxVars, haltVars, eventVars, calls, form, linkVars, reports,
                   awaited, shutdown, halts, taskVars>>

DropChild == holder = "child" /\ Drop
DropPool == holder = "pool" /\ Drop

\* Fault variant: the handles are dropped instead of aborted.
Reap_drops ==
    /\ reaper # {} /\ todo[Supervisor] = <<>>
    /\ reaper' = {}
    /\ UNCHANGED <<channelVars, formVars, linkVars, handleVars, shutdown, halts,
                   taskVars>>

\* The abort timer of a dropped child is over.
Reap ==
    /\ reaper # {} /\ todo[Supervisor] = <<>>
    /\ cancel' = cancel \cup reaper
    /\ reaper' = {}
    /\ UNCHANGED <<channelVars, formVars, linkVars, handleVars, shutdown, halts,
                   kind, task, notifier, late>>
-----------------------------------------------------------------------------
TaskStep(p) ==
    \/ ReturnTask(p) \/ PanicTask(p) \/ CancelTask(p) \/ DropInboxEarly(p)
    \/ FinishTask(p) \/ PollNotifier(p) \/ TakeHalt(p)

ShutdownStep ==
    \/ ShutdownFutReady \/ ShutdownFutTimeout
    \/ ShutdownStreamTimeout \/ ShutdownStreamNext \/ ShutdownStreamOver

AbortStep == RecordAbort \/ AbortHandles

ChildStep ==
    \/ \E l \in Links : Attach(l)
    \/ Detach \/ Halt \/ IntoDynChild \/ IntoDynPool \/ DowncastChild \/ DowncastPool
    \/ IntoPool \/ IntoJoinhandle \/ IntoJoinhandles
    \/ AbortChild \/ AbortPool \/ PollChild \/ PollPool
    \/ \E p \in Process : Spawn(p) \/ TrySpawn(p)
    \/ ShutdownChild \/ ShutdownPool \/ ShutdownStep \/ DropShutdown
    \/ DropChild \/ DropPool

SuperNext ==
    \/ \E t \in Thread : CallStep(t) /\ UNCHANGED <<childVars, taskVars>>
    \/ \E c \in Caller : CallerStep(c) /\ UNCHANGED <<childVars, taskVars>>
    \/ \E p \in Process : TaskStep(p)
    \/ ChildStep \/ AbortStep \/ Reap

\* Synchronous code runs to its end, aborted tasks reach an await, timers end, and a
\* shutdown is polled.
SuperFairness ==
    /\ \A t \in Thread : WF_superVars(CallStep(t) /\ UNCHANGED <<childVars, taskVars>>)
    /\ \A p \in Process :
           WF_superVars(CancelTask(p) \/ FinishTask(p) \/ TakeHalt(p))
    /\ WF_superVars(AbortStep)
    /\ WF_superVars(Reap)
    /\ WF_superVars(ShutdownStep)

SuperSpec == SuperInit /\ [][SuperNext]_superVars /\ SuperFairness
-----------------------------------------------------------------------------
(***************************************************************************)
(* Properties.                                                             *)
(***************************************************************************)
\* The stream of a pool loses no exit, though swap_remove reorders its handles: the
\* handle of every task whose output was not read is in the vector, and once.  A
\* handle is polled after its end, which panics, only by a user who awaited the
\* child to its end before.
NoExitLost ==
    /\ holder = "pool" =>
           /\ \A p \in Process :
                  task[p] # "none" /\ reports[p] = "None" => p \in Handles
           /\ Len(handles) = Cardinality(Handles)
    /\ holder = "panicked" => awaited

\* The steps of an abort are in order, whoever asks for it: the channel is closed before
\* the first handle is aborted, so that nobody sends to an actor that is being killed,
\* and a child knows of every abort of its tasks: none that it reports, or is going to,
\* was made behind its back.
AbortIsExplained ==
    /\ cancel # {} => closed
    /\ cancel # {} /\ holder \in {"child", "pool"} => is_aborted
    /\ (\E p \in Process : reports[p] = "Abort") => is_aborted

\* Dropping a detached child leaves its actor alone: the drop neither closes, halts nor
\* notifies, it leaves no call that would, and no task is aborted from then on.
DetachedLeavesTasks ==
    [][holder' = "dropped" /\ link = "detached" =>
           /\ cancel' = cancel
           /\ todo'[Supervisor] = <<>>
           /\ holder # "dropped" => UNCHANGED channelVars]_superVars

\* process_count never exceeds task_count: an inbox does not outlive its task, and
\* a spawn that fails leaves none behind.
ProcessesHaveTasks == holder \in {"child", "pool"} => inbox_count <= task_count

\* Dropping an attached child ends the tasks it was spawned with, and those spawned
\* before it was aborted, whether they return when they are told to or not.
DropEndsTasks ==
    \A p \in Process :
        (holder = "dropped" /\ link # "detached" /\ task[p] = "running" /\ p \notin late)
            ~> Finished(p)

\* The tasks that run still, except those spawned by a child that was aborted: a
\* second abort reaches these, the drop of the child does not.
TasksToEnd == {p \in Process : task[p] # "none" /\ ~Finished(p)} \ late

\* The handles that an abort which is under way goes through.
BeingAborted ==
    {p \in Handles : \/ Remaining(Supervisor, "record_abort")
                     \/ Remaining(Supervisor, "abort_handles")}

\* No task is forgotten, at any time after an attached child is dropped or after the
\* timer of a shutdown: what still runs was aborted, or is being aborted, or is left to
\* a reaper that has its handle.
NobodyForgotten ==
    /\ holder = "dropped" /\ link # "detached"
           => TasksToEnd \subseteq cancel \cup reaper \cup BeingAborted
    /\ shutdown = "no_sleep"
           => {p \in Handles : ~Finished(p)} \subseteq cancel \cup BeingAborted

\* The tasks whose notifier is not ready, those not spawned yet among them.
WaitingTasks == {p \in Process : notifier[p] # "ready"}

\* A halt or a shutdown, once it is over, has left a halt for every task that polls its
\* notifier: although the notifier takes the closing that comes first for nothing, and
\* those that see a halt race for it, the halts that are left are enough for the rest.
HaltForEveryTask ==
    halts > 0 => \/ Remaining(Supervisor, "halt_some_max")
                 \/ Cardinality(WaitingTasks) <= halt_count

\* Every shutdown comes to its end, however the tasks behave.
ShutdownReturns == (shutdown # "none") ~> (shutdown = "none")
-----------------------------------------------------------------------------
(***************************************************************************)
(* The inductive invariant behind the invariants above.                    *)
(***************************************************************************)
\* An inbox belongs to a task that runs, and inbox_count counts them all.
InboxesHaveTasks ==
    /\ inbox_count = Cardinality(Live)
    /\ \A p \in Process :
           /\ inbox[p] = "live" => task[p] = "running"
           /\ task[p] = "none" => inbox[p] = "none"

\* The join handles, while there is a child or a pool that holds them.
HandlesHeld ==
    /\ \A p \in Process : task[p] # "none" /\ reports[p] = "None" => p \in Handles
    /\ \A i \in DOMAIN handles : task[handles[i]] # "none"
    /\ \A i \in DOMAIN handles : reports[handles[i]] = "None" \/ awaited
    /\ \A i, j \in DOMAIN handles : handles[i] = handles[j] => i = j

HandlesInv ==
    /\ \A p \in Process : reports[p] # "None" => Finished(p)
    /\ holder \in {"child", "pool"} => HandlesHeld
    /\ holder = "child" => Len(handles) = 1
    /\ holder = "panicked" => awaited

\* The steps of an abort come one after the other, and before the end of any task.
AbortsOrdered ==
    /\ is_aborted \/ Remaining(Supervisor, "record_abort") => closed
    /\ reaper # {} \/ cancel # {} => closed
    /\ Remaining(Supervisor, "abort_handles") => is_aborted

\* Where an abort comes from.
AbortsInv ==
    /\ reaper # {} => holder = "dropped"
    /\ cancel # {} => is_aborted \/ holder = "dropped"
    /\ \A p \in Process : task[p] \in {"cancelling", "cancelled"} => p \in cancel
    /\ (\E p \in Process : reports[p] = "Abort") => is_aborted

\* The notifiers between their look at halt_count and their fetch_sub.
DecidingTasks == {p \in Process : notifier[p] = "deciding"}

\* A decrement that finds no halt has a task of its own behind it.
NotifierDebtBounded ==
    halt_count - Cardinality(DecidingTasks) >= -Cardinality(Process)

\* Only the drop of an attached child leaves something to be done.
DropAttached ==
    /\ reaper # {} => holder = "dropped" /\ link # "detached"
    /\ holder = "dropped" /\ link = "detached" => todo[Supervisor] = <<>>

\* What NobodyForgotten needs: an abort reaches every task there is, and a shutdown
\* keeps the child.
AbortReachesAll ==
    /\ is_aborted /\ holder \in {"child", "pool"}
           => TasksToEnd \subseteq cancel \cup BeingAborted
    /\ shutdown # "none" => holder \in {"child", "pool"}

SuperIInv ==
    /\ SuperTypeOK
    /\ InboxesHaveTasks
    /\ HandlesInv
    /\ AbortsOrdered
    /\ AbortsInv
    /\ NotifierDebtBounded
    /\ ExitInv
=============================================================================
