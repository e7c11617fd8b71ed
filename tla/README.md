# A TLA+ model of tiny-actor

This directory holds TLA+ modules that model the concurrent core of the crate
`tiny-actor`, TLC configurations that check them on small instances, and TLAPS
proofs of the main results for instances of any size. Paths are relative to the
root of the repository, so that `src/src/channel/mod.rs` is the channel.

Contents: [the system](#the-system), [modules](#modules),
[modelling decisions](#modelling-decisions), [runs](#runs),
[disagreements](#where-code-and-documentation-disagree), [proofs](#proofs),
[what is left out](#what-is-not-modelled), [plan](#plan).

## The system

An actor is one channel, shared by reference counting between
* **inboxes**, one per process: each process is a tokio task that owns its inbox;
* **addresses**, which can be cloned, send messages and can be awaited;
* the unique **child** (or **child pool**), which owns the join handles.

| Component | Source | State | Operations | Correct when |
|---|---|---|---|---|
| Channel | `channel/mod.rs`, `channel/channel_trait.rs` | concurrent queue, its closed flag, `address_count`, `inbox_count`, `halt_count`, three events | push, pop, close, halt, halt_some, add and remove inboxes and addresses | counters equal what they count; the last exit closes and empties the queue; halts are neither lost nor duplicated |
| Receiving | `channel/receiving.rs`, `actor/inbox.rs` | per inbox `signaled_halt` and a listener | `try_recv`, `recv`, `Stream`, drop | a message, a halt or a close wakes a receiver that can act on it |
| Sending | `channel/sending.rs` | per future a message and a listener or a timer | `send`, `send_now`, `try_send`, `send_blocking` | a sender that waits is woken by space and by the close |
| Address | `actor/address.rs` | an exit listener | clone, drop, await | the await returns after the exit, and not before |
| HaltNotifier | `actor/halt_notifier.rs` | an inbox whose queue stays empty | poll | a halt makes it ready, a close does not; a halt is enough for every task |
| Child, ChildPool, shutdown | `actor/child.rs`, `actor/child_pool.rs`, `actor/shutdown.rs` | join handles, `Link`, `is_aborted`, shutdown timer | halt, abort, attach, detach, spawn, try_spawn, into_dyn, downcast, into_pool, into_joinhandle(s), await, shutdown, drop | a drop ends an attached actor and leaves a detached one alone; every exit is reported once |
| Spawning | `actor/spawning.rs` | none of its own | spawn one, spawn many | the counters passed to the channel come true |
| Default timer | `config/mod.rs` | two global atomics | set, get | a get returns a timer that was set |
| BackPressure | `config/mod.rs` | parameters | `get_timeout` | the wait follows the growth factor as the queue grows, without overflow |

How the parts interact: everything meets in the channel. Atomic counters and a
lock-free queue are changed first, then one of three `event_listener::Event`s is
notified; a waiting party looks, creates a listener, looks again, and sleeps.
Nothing is locked over these steps, so the order of *change, notify* on the one
side and *look, listen, look, sleep* on the other is all that prevents a lost
wake-up. The child acts on processes in two ways: through the channel (close,
halt), which a process sees in its inbox, and through `JoinHandle::abort`, which
it does not see.

The behaviours that are hard to test, each at its line, are listed under
`hazards` in `PROJECT.json`: lost wake-ups, the load / fetch_sub race on
`halt_count`, the race of the last exit with sends and spawns, futures dropped
while notified, timers that race with exits, counters at their limits.

## Modules

| Module | Models | Composed from |
|---|---|---|
| `EventListener` | the crate event-listener 2.5 (external): `listen`, `notify(1)`, `notify(usize::MAX)`, poll and drop of a listener | |
| `Channel` | the shared state, its methods at the grain of one atomic operation, and callers of the non-blocking methods | `EventListener` |
| `Receiving` | processes that receive in every way, with cancellation and exit; the safety properties, the wake-ups and the inductive invariant | `Channel` |
| `Mailbox`, `HaltPool` | abstract specifications: what a channel promises to senders, and what halting promises | |
| `ReceivingRefinement` | the refinement mappings from `Receiving` to the two | `Receiving`, `Mailbox`, `HaltPool` |
| `Sending` | futures and blocking calls that send, composed with the processes of `Receiving` | `Receiving`, `BackPressure` |
| `Supervision` | child, pool and shutdown futures, the tasks they act on, and the `HaltNotifier` of the tasks | `Channel` |
| `Lifecycle` | abstract specification: what an actor promises to its owner and to those who await it | |
| `SupervisionRefinement` | the refinement mappings from `Supervision` to `Lifecycle`, `Mailbox` and `HaltPool` | `Supervision` and the three |
| `Address` | address counting and the await of the exit | `Channel` |
| `Actor` | a whole actor: the child, its tasks and the addresses on one channel | `Supervision`, `Address` |
| `ActorRefinement` | the refinement mapping from `Actor` to `Lifecycle`, with the addresses as its watchers | `Actor`, `SupervisionRefinement` |
| `Spawning` | `spawn_many_processes` step by step | `Channel` |
| `DefaultTimer` | the two-word timer | |
| `BackPressure` | `get_timeout` and the constructors, as operators without state | |
| `ChannelProofs` | lemmas on events, on `todo`, on inboxes and on the steps of the channel | `Channel` |
| `ReceivingProofs`, `RefinementProofs`, `SendingProofs`, `SupervisionProofs`, `ActorProofs`, `SpawningProofs`, `DefaultTimerProofs` | lemmas and theorems | the module named, and the proofs of the modules it is composed from |
| `MCReceiving`, `MCSending`, `MCSupervision`, `MCActor`, `MCAddress`, `MCSpawning`, `MCDefaultTimer` | sets and constants for TLC | the module named (in four of them through its refinement module) |

`PROJECT.json` maps every definition to the lines it translates. Names in the
modules follow the source (`push_msg`, `remove_inbox`, `signaled_halt`, ...).
The definitions marked *Fault variant* are not part of any specification: each
is a plausible mistake in the definition it precedes, and some property must
notice when it takes that definition's place.

### State and code

* `queue`, `closed`: the `ConcurrentQueue`. Messages are known by their sender.
* `inbox_count`, `halt_count`, `address_count`: the atomics. `halt_count` is an
  integer with the bound `I32Max`; `Decrement` wraps as `fetch_sub` does, and
  `HaltDebtBounded` shows that it never gets there.
* `recv_event`, `send_event`, `exit_event`: a set of listeners that wait and a
  set of those that are notified and not yet polled.
* `todo[t]`: what is left of the synchronous call that thread `t` is in, for
  example `<<"close", "exit_notify_all", "drain">>` after the first step of
  `remove_inbox`. Other threads run between any two of its elements.
* `inbox[p]`: whether process `p` has an inbox, dropped it, or has none yet.
* `pc`, `attempt`, `signaled_halt`, `result` (`Receiving`): where a receive is.
  `RecvFut::poll` makes an attempt before it has a listener, one after, and one
  when the listener fired; each is a load of `halt_count`, perhaps a
  `fetch_sub`, and a pop.
* `spc`, `method`, `sattempt`, `sresult` (`Sending`): the same for sends;
  `backpressure` is the configuration, chosen at the start.
* `apc`, `seen_exit` (`Address`): the same for the await of an address.
* `holder`, `form`, `link`, `is_aborted`, `handles`, `shutdown` (`Supervision`):
  the fields of child, pool and shutdown futures, and whether they are typed or
  dyn. `reports[p]` is what was read from the join handle of `p`, and `reaper`
  the handles that the task spawned by a drop waits to abort.
* `kind`, `task`, `cancel`, `notifier` (`Supervision`): whether the actor was
  spawned by the `spawn_process` or the `spawn_task` functions, the tokio tasks,
  the tasks that `JoinHandle::abort` was called on, and where the poll of a
  `HaltNotifier` is. A task runs, is on its way out (`returning`, `panicking`,
  `cancelling`, while its destructors run) and is over.
* `granted`, `late`, `awaited`, `sets`, `first`, `quiet`, `calls`, `sends`,
  `halts` are history variables and bounds; no code decides on them, but for
  `reports` and `awaited` standing for tokio's memory of what a join handle gave.

## Modelling decisions

* **Grain.** One step per atomic operation on the queue, a counter or an event.
  The orderings in the source are acquire and release on each of them, and the
  model assumes sequential consistency, as the fences of event-listener give it
  to the change-then-notify and listen-then-look pairs.
* **event-listener.** `notify(1)` has no effect while some listener is notified
  and not polled; dropping a notified listener notifies another one. The order
  of listeners (FIFO) is abstracted to a choice, which allows every real run and
  more.
* **tokio.** A task that is notified is polled again; a task may also be polled
  for any other reason (`Poll`), as in a `select!`. An aborted task is dropped
  at an await. A join handle gives its output once.
* **Abort.** `abort` is a sequence of operations in `todo`, as the methods of the
  channel are: close and notify the listeners, record the abort
  (`RecordAbort`), abort the handles one by one (`AbortHandles`). Tasks, senders
  and addresses run between any two of them. The call borrows the child, so that
  no other method of it runs meanwhile.
* **Tasks.** The `spawn_task` functions give a `HaltNotifier` instead of an inbox
  and drop the address: such an actor starts with an `address_count` of 0
  (`spawning.rs:51`), and its queue stays empty, because the type of its messages
  is private. A task polls its notifier when it likes, or never: the poll is that
  of the stream of an inbox, which leaves no listener, so that nothing wakes a
  task that awaits its notifier (the run `receiving_stream`). What a task does
  once its notifier is ready is a free choice as well.
* **User code.** What a process does between receives is a free choice: receive,
  try, cancel, or exit at any time. `ExitsOnError` restricts it to what the
  documentation asks for, to stop on Halted or ClosedAndEmpty.
* **Time.** A timer may end at any time after it was started.
* **Capacity.** `Bounded(n)` is the number `n`, at least 1, which the queue crate
  demands; `Unbounded` is a model value.

## Runs

Passing runs:

| Run | Instance | Distinct states | What it shows |
|---|---|---|---|
| `receiving` | 2 processes (1 spawned later), 1 caller with 3 calls of any of the 5 methods, capacity 2, `I32Max` 3 | 213,643 | type, counters, halts, clean and final exit, no lost wake-up; waiting receivers are polled again; `Receiving` implements `Mailbox` and `HaltPool`; an exited actor is emptied |
| `sending` | 1 process that receives until it exits, 2 futures `send` with 2 sends each, capacity 1 | 292,464 | no sender is stranded or misses the close, under cancellation; every `send` returns; with senders, too, the channel implements `Mailbox` |
| `sending_unbounded` | unbounded; 2 threads use `try_send`, 1 `send_blocking`; a linear backpressure and three exponential ones, with factors 1.3, 2 and 1/2 | 631,108 | the messages of `try_send` stay within their limit; as the queue grows, timeouts move in the direction of the growth factor, across the saturation at `U64Max` |
| `supervision` | a child or a pool of one process or one task, either of which may never end by itself, and a process that may be spawned and may panic; every `Link`, 1 halt or shutdown | 141,288 | no exit is lost; the steps of an abort are in order; spawns that fail leave nothing; detached actors are left alone; a halt is enough for the tasks; drops and shutdowns end them; `Supervision` implements `Lifecycle` |
| `actor` | a child or a pool of one process or one task, which may never end by itself; 2 addresses, one of them awaited; links with a zero and a longer timer | 109,492 | exact count of addresses, no exit missed and, by `Lifecycle`, none seen too early; awaits return, also after a drop of the child |
| `spawning` | 0, 1 or 2 items, single-threaded runtime, a caller that sends and spawns | 975 | the counters passed to the channel come true |
| `default_timer` | 1 setter with 3 sets, 1 getter, timers that differ in both parts | 2,194 | undisturbed gets are current; tearing is in one direction only |

*Bounds.* `MaxCalls`, `MaxSends`, `MaxHalts` and `MaxSets` cap the number of
steps from outside and are the only bounds; they are in guards. Two processes
are enough for a race on one halt, for a notification that reaches the wrong
receiver and for a spawn that races with the last exit; three calls are enough
to have a message, a halt and a close pending at once. With `I32Max` at 3 and
halts of 1 and 2 (and of `I32Max` by `halt`) the counter saturates. Two senders
on capacity 1 make one of them wait behind the other; the close that they race
with is the one of the last exit, which may come at any time. In
`sending_unbounded` three senders bring the queue to six messages; the limits
are 0 and 1, and the larger exponential timeout saturates before that. In
`supervision` the second process is spawned, so that a pool of two handles is
reordered by `swap_remove`, an abort can precede a spawn, and a timer can race
with an exit that is being reported; one halt is enough, because every later one
finds the channel closed. A task is its only one, because `spawn` takes a process:
the race of several notifiers for a halt is that of `receiving`, and of the
theorem `HaltsSuffice`. `actor` has one process, since what its properties
need is an exit in the middle of an await: its addresses are cloned from each
other, from the child and from the inbox, and dropped in every order. No run
uses symmetry. `CHECK_DEADLOCK FALSE` is set wherever the bounds on calls and
the exit of all processes end a behaviour.

*Fairness.* Synchronous code runs to its end (`CallStep`, `ReceiveStep`,
`SendStep`, `AwaitStep`, `TakeHalt`, `AbortStep`): the executor does not stop in
the middle of a poll, nor in the middle of a call. A task whose listener was notified is polled (`Wake`, `WakeSend`,
`WakeAddress`): this is the contract of a waker. Timers end (`Reap`, the
timeouts in `ShutdownStep`), a shutdown future is polled when its join handle or
its timer is ready, an aborted task reaches an await (`CancelTask`), and the
destructors of a task that is over run (`FinishTask`). No method call, receive,
spawn or exit is fair, with one exception, an assumption on user code:
`EagerReceivers`, in the runs on the return of sends, says that processes receive
until they exit. In particular no task has to return because it was halted, and
none is polled again whose `HaltNotifier` is pending: its poll leaves no listener,
so that no waker is owed. That a halt ends a task is therefore no property of
the model; `HaltForEveryTask` says that a task which does poll finds its halt, and
`DropEndsTasks`, `ShutdownReturns` and `DropReturnsAwaits` hold of tasks that
never end by themselves. All fairness is weak.

## Where code and documentation disagree

Each of these runs checks one sentence of the documentation or of a comment, and
TLC shows a behaviour of the code that contradicts it.

| Run | Property | Sentence | What happens |
|---|---|---|---|
| `receiving_stream` | `HaltWakesReceiver` | `inbox.rs:9-10`, `17`: streams are a way to receive and keep a listener | `poll_next` drops its `RecvFut`, and with it the listener, when it is pending: nothing wakes the task. `HaltNotifier` polls that stream (`halt_notifier.rs:21`): one that is awaited is not woken by a halt |
| `sending_blocking` | `SendReturns` | `gen.rs:93`: the same as send, but blocking | the listener is created after the failed push and no push follows: the thread can sleep through the space that was freed, and through the close |
| `spawning_multithreaded` | `SpawnCountExact` | `channel/mod.rs:47`: the counts must come true | the count is stored after the tasks were spawned; a process that has exited by then is counted for good, or a destructor panics |
| `address_closing` | `NoAddressMeansClosed` | `channel/mod.rs:25`, `channel_trait.rs:121`: no addresses, closed channel | the last address closes and notifies nothing |
| `default_timer_torn` | `GetReturnsASet` | `config/mod.rs:141`: get returns the current timer | seconds of one timer with nanoseconds of another; from half a second to two seconds it may be zero, an immediate abort |

Further differences that the models contain and no run singles out:
* One message makes one `notify(1)`. A process that it wakes may take a halt
  instead and stop; another process that was halted before and receives on (as
  the test `try_recv_halt` does) then sleeps before the message, although `recv`
  is said to wait for one (`inbox.rs:37`). `MessageWakesReceiver` therefore
  speaks of processes that were not halted.
* `halt` closes before it halts: a receive in between returns `ClosedAndEmpty`
  where `README.md:59` speaks of `Halted`.
* `notify(1)` has no effect while a listener is notified and not polled: two
  pops may wake one of two waiting senders, and the other waits on, with space
  in the queue, for the next pop. `NobodyStranded` is stated accordingly.
* An attached drop after an abort leaves a process that was spawned in between
  alone (`README.md:71`); `DropEndsTasks` speaks of the tasks that were there.
* A shutdown, or an await, of a child that was awaited to its end polls a
  finished join handle, which panics (`child.rs:112-113`).
* A linear timeout is one multiple longer than the comment says
  (`config/mod.rs:190`).

## Proofs

Each theorem holds of every value of the constants that satisfies the named
assumptions of its module: any finite set of processes (no more than an `i32`
counts), at least one of them initial, any set of callers and senders, any
capacity of at least 1 or none, any bound on calls. No fairness is used. All
facts come from the assumptions and the library theorems on finite sets and
sequences. `ChannelProofs` holds the lemmas that all of them share. In every
module the step lemma of each part of the invariant is stated alone, with one
case per action.

### Receiving, and the abstract specifications

* `InductiveInvariant`: `Spec => []IInv`. `TypeOK` and the properties are not
  inductive. `IInv` adds
  - `ReceiveInv`: what the place of a receive says about its inbox, its flag and
    its listener (an inbox that was halted never loads the counter, a sleeping
    receive is in its second attempt, ...);
  - `WakeupInv`: the wake-up properties from the moment the second attempt
    *looked*, not from the moment the task sleeps. A receive that has looked at
    `halt_count` after it created its listener is in the event's list, so that
    whoever changes the counter later still has its notification to make, and
    that notification finds the listener. The same holds of the queue and its
    closed flag. This is the argument for *listen, look again, sleep*;
  - `ExitInv`: while no process is live, some thread is still draining, or the
    channel is closed and empty; a drain that has started follows a close, after
    which nothing is pushed;
  - `HaltDebtBounded`, which counts the processes between load and fetch_sub,
    and `HaltsConserved`, which sets the processes that were halted against what
    was requested.
* From it: `TypeCorrect`, `HaltConservation`, `NoHaltUnderflow`,
  `InboxCounting`, `CleanExit`, `HaltWakeup`, `CloseWakeup`, `MessageWakeup`,
  `ListenerUse`, each of a property that `receiving` checks, and `ExitFinal`. TLC
  checked `IInv` itself on the instance of `receiving` before it was proved.
* `HaltPoolImplemented` and `MailboxImplemented`: every step of `Receiving` is a
  step or a stutter of the abstract specification. The first needs that a
  process about to decrement was not halted before (`ReceiveInv`), the second
  that what is drained after the last exit is drained from a closed queue
  (`ExitInv`).

### Sending

* `SendInductiveInvariant`: `SendSpec => []SendIInv`. A step of `Sending` is one
  of a sender or one of `Receiving`; frame lemmas state what each kind does to
  the state of the other, so that `IInv` is reused as it is. `SendIInv` adds
  `SenderInv`, what the place of a send says about its call and its listener,
  and `SendWakeupInv`, the wake-ups from the moment the second push failed.
* From it: `SendTypeCorrect`, `CloseReachesTheSenders`, `NoSenderStranded`,
  `SendListenerUse`, and `SendMailboxImplemented`, the refinement of `Mailbox`.
* What `IInv` says of the receivers survives the senders: `SendersWakeReceivers`
  (`HaltNotLost`, `CloseNotLost`, `MessageNotLost`), `SendCounting`
  (`HaltsConserved`, `HaltDebtBounded`, `InboxCountExact`), `SendCleanExit`
  (`ExitLeavesNothing`) and `SendHaltPoolImplemented`, the refinement of
  `HaltPool`.
* `BackPressureLimit`: on an unbounded channel with finitely many senders,
  `BackPressureBounds`. Its invariant `BackPressureInv` counts, beside the
  messages of `try_send` in the queue, the threads between the check and the
  push: a check that passes saw fewer messages than the limit, and a push takes
  the place of its check.
* `BackPressureMonotone`: `TimeoutMonotone`, for linear and exponential
  backpressures of any base, limit and rational growth factor, also below 1, where
  the wait shrinks. The powers of the factor are a recursive function on the
  naturals. An induction principle for *sets* of naturals (`InductionOnNat`, from
  the well-foundedness of `<` on them) shows that this function exists and
  satisfies its equation, that powers are positive, and that a wait which moves in
  one direction from one message to the next does so altogether; one more message
  multiplies it by the factor, and the rounded quotient is the largest natural
  below, so that it moves no other way (`QuotientMoves`, `QuotientsMonotone`).

### Child, addresses and the whole actor

* `SuperInductiveInvariant`: `SuperSpec => []SuperIInv`, for any number of
  processes and any initial handles. `InboxesHaveTasks` ties `inbox_count` to
  the inboxes and these to running tasks; `HandlesInv` says that the vector of a
  child or a pool holds the handle of every task that was not reported, and each
  once, which `swap_remove`, `append` and the casts keep; `AbortsOrdered` says
  that the channel is closed before an abort is recorded or any handle aborted, and
  that it is recorded before the handles, and `AbortsInv` where a cancellation
  comes from; `NotifierDebtBounded` bounds the race of the
  notifiers on `halt_count`; `ExitInv` is that of `Receiving`. It is assumed that
  only the pool spawns.
* From it: `SuperTypeCorrect`, `ExitsKept` (`NoExitLost`), `AbortsExplained`
  (`AbortIsExplained`), `ProcessesAreTasks` (`ProcessesHaveTasks`),
  `SuperCleanExit` (`ExitLeavesNothing`).
* `LifecycleImplemented`: every step of `Supervision` is a step or a stutter of
  `Lifecycle`. A task that ends has left, because an inbox belongs to a task that
  runs (`InboxesHaveTasks`); it ends cancelled only after an abort (`AbortsInv`);
  a spawn joins an actor that has members, because `inbox_count` counts them; a
  join tells of a task what it ended with, once (`HandlesInv`). With
  `SuperMailboxImplemented` and `SuperHaltPoolImplemented` the module implements
  all three abstract specifications.
* `TasksRemembered` (`NobodyForgotten`, the safety half of `DropEndsTasks` and
  `ShutdownReturns`): after the drop of an attached child, or the timer of a
  shutdown, every task that runs was aborted, is behind a handle that an abort under
  way is going to abort, or behind one of the reaper.
  Its invariant `AbortReachesAll` says that an abort misses none of the tasks
  there are, which `HandlesInv` gives, and that later ones are counted as `late`.
* `HaltsSuffice` (`HaltForEveryTask`): `halt_some(u32::MAX)` leaves more halts than
  there are tasks, and the notifiers take at most one each, so that none that saw a
  halt loses it to another. It needs that an `i32` can count the processes.
* `DetachedStays` (`DetachedLeavesTasks`): `DropAttached` says that only the drop
  of an attached child leaves calls to make or handles to abort, and a child that
  was dropped keeps its link.
* `ActorInductiveInvariant`: `ActorSpec => []ActorIInv`, the composition. A step
  of an address leaves what `SuperIInv` speaks of alone; a step of the child or
  of a task changes `inbox_count` only by an exit, which leaves
  `exit_notify_all` to be called, or by a spawn, which an exited actor refuses.
  `ExitNoticed` is `ExitNotMissed` from the second look at `inbox_count` on.
  `ExitNotEarly` says that what an await takes for the exit, a notification or
  the counter, comes after the last inbox was dropped.
* From it: `AddressTypeCorrect`, `AddressCounting`, `ExitReachesAddresses`,
  `ReportedExits` (`ReportedMeansExited`), `SeenExitTrue` (`SeenExitIsTrue`),
  `ActorCleanExit`, and the refinements `WatchedLifecycleImplemented`,
  `ActorMailboxImplemented` and `ActorHaltPoolImplemented`: a step of an address
  is a stutter of the last two, and sees an exit in the first only where every
  member has left. That no later spawn makes wrong what an address saw is shown by
  `SeenExitTrue` and `WatchedLifecycleImplemented`, for any number of processes;
  the run `actor` has one process and spawns none.

### Spawning and the default timer

* `SpawnCounting`: `SpawnCountExact` where the runtime has one thread, for any
  number of items. Where it has several the property is false (the run
  `spawning_multithreaded`).
* `SpawnedExit` (`SpawnedLeavesNothing`), on the same runtime: if at least one
  process was spawned, the channel is closed and empty after the exit of the last
  one. `ManyExitInv` takes over `ExitInv` from the store of the count on. The
  empty iterator is excluded: its actor has no inbox and an open channel.
* `MixedInOneOrder` (`NanosNotOlder`), for any number of setters and getters and
  any timers: `TimerInv` says that the nanoseconds, which are stored first, are
  those of the last timer, and the seconds those of some timer.
* `QuietGetCurrent` (`QuietGetIsCurrent`), for one setter: `CurrentInv` adds that
  between two sets the seconds are those of the last timer as well. With two
  setters, whose stores interleave, the property is false, which is why
  `default_timer` has one.

### Only model-checked

Liveness, which the prover does not handle: `MessageWakesReceiver`,
`HaltWakesReceiver`, `ExitEmpties`, `SendReturns`, `DropEndsTasks`,
`ShutdownReturns`, `AwaitReturns`, `DropReturnsAwaits`.
Everything else that a passing run checks is also proved. The invariants that
only theorems speak of (`IInv`, `SendIInv`, `SuperIInv`, `ActorIInv`,
`NobodyForgotten`, `ReportedMeansExited`, `SeenExitIsTrue`,
`SpawnedLeavesNothing`) hold on the instances above as well, where TLC was run
with them before their proof; no run repeats that.

## What is not modelled

* `transform_channel` and the casts of an address: they change the type under
  which a channel is seen, not its state. The casts of child and pool are
  modelled, because they decide which spawning is allowed.
* `error/mod.rs`: which error is returned is kept, its text and its conversions
  are left out.
* Actor ids, getters and `Debug`.
* `channel/task_channel.rs`, which is commented out.
* `FusedStream::is_terminated` (`inbox.rs:71-73`), a read of the closed flag that
  is true while messages remain; its users are combinators of another crate.
* Panics of user code other than in the function of a process, drops other than
  at an await, and shutdown of the runtime; durations, except in `BackPressure`
  and `DefaultTimer`.
* `f32` rounding: growth factors are ratios and their powers are exact. The
  factors that are no ratios, infinity and NaN, which the constructor accepts
  (`config/mod.rs:215`), are left out.

The hazards that no property covers are listed with their reason in
`PROJECT.json`: where the repository does not say what is right (a receive after
a halt, an actor without processes, ClosedAndEmpty in answer to a halt), a
property would only restate the code.

## Plan

Done, in this order: `Channel` and `Receiving` with their invariant, its proof
and the two refinements; `Sending`; `Address`; `Supervision`; `Spawning`;
`DefaultTimer`; `BackPressure`, as part of `Sending`; casts, panics, halts and
`HaltNotifier` in `Supervision`; `Actor`, the composition of child, tasks and
addresses; the proofs of all invariants; `Lifecycle`, and the proofs that child,
tasks and addresses implement it and the channel of a supervised actor its two
abstract specifications.

Left, the most important first:

1. The composition of `Sending` with `Supervision`: senders against an actor that
   is aborted or dropped, instead of processes that exit by themselves.
2. The safety half of the liveness properties of `Receiving` and `Sending` as
   theorems, in the way of `NobodyForgotten` and `HaltForEveryTask`.
3. `FusedStream`, with the combinators that ask `is_terminated`.
