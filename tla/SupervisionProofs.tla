--------------------------- MODULE SupervisionProofs ---------------------------
(***************************************************************************)
(* SuperIInv is an inductive invariant of Supervision, for any number of   *)
(* processes, join handles, callers and calls, and with it the safety      *)
(* invariants of the module.                                               *)
(*                                                                         *)
(* One lemma per conjunct of SuperIInv shows that a step preserves it.     *)
(***************************************************************************)
EXTENDS SupervisionRefinement, ChannelProofs

(***************************************************************************)
(* The vector of join handles.                                             *)
(***************************************************************************)
\* swap_remove takes out one element and keeps the others, in another order.
LEMMA SwapRemoveFacts ==
    ASSUME NEW S, NEW seq \in Seq(S), NEW i \in 1 .. Len(seq),
           \A j, k \in 1 .. Len(seq) : seq[j] = seq[k] => j = k
    PROVE  /\ SwapRemove(seq, i) \in Seq(S)
           /\ Len(SwapRemove(seq, i)) = Len(seq) - 1
           /\ \A j \in 1 .. Len(SwapRemove(seq, i)) :
                  \E k \in 1 .. Len(seq) \ {i} : SwapRemove(seq, i)[j] = seq[k]
           /\ \A k \in 1 .. Len(seq) \ {i} :
                  \E j \in 1 .. Len(SwapRemove(seq, i)) : SwapRemove(seq, i)[j] = seq[k]
           /\ \A j, k \in 1 .. Len(SwapRemove(seq, i)) :
                  SwapRemove(seq, i)[j] = SwapRemove(seq, i)[k] => j = k
<1> DEFINE rest == SwapRemove(seq, i)
           n == Len(seq)
<1>1. n \in Nat /\ n >= 1 /\ n - 1 \in Nat /\ \A j \in 1 .. n : seq[j] \in S
    OBVIOUS
<1>2. rest = [j \in 1 .. n - 1 |-> IF j = i THEN seq[n] ELSE seq[j]]
    BY DEF SwapRemove
<1>3. rest \in [1 .. n - 1 -> S]
    BY <1>1, <1>2
<1>4. rest \in Seq(S) /\ Len(rest) = n - 1
    BY <1>1, <1>3
<1>5. \A j \in 1 .. n - 1 : rest[j] = IF j = i THEN seq[n] ELSE seq[j]
    BY <1>2
<1>6. \A j \in 1 .. n - 1 : \E k \in 1 .. n \ {i} : rest[j] = seq[k]
    <2>1. SUFFICES ASSUME NEW j \in 1 .. n - 1
                   PROVE  \E k \in 1 .. n \ {i} : rest[j] = seq[k]
        OBVIOUS
    <2>2. CASE j = i
        <3>1. n \in 1 .. n \ {i} /\ rest[j] = seq[n]
            BY <1>1, <1>5, <2>2
        <3> QED BY <3>1
    <2>3. CASE j # i
        <3>1. j \in 1 .. n \ {i} /\ rest[j] = seq[j]
            BY <1>1, <1>5, <2>3
        <3> QED BY <3>1
    <2> QED BY <2>2, <2>3
<1>7. \A k \in 1 .. n \ {i} : \E j \in 1 .. n - 1 : rest[j] = seq[k]
    <2>1. SUFFICES ASSUME NEW k \in 1 .. n \ {i}
                   PROVE  \E j \in 1 .. n - 1 : rest[j] = seq[k]
        OBVIOUS
    <2>2. CASE k = n
        <3>1. i \in 1 .. n - 1 /\ rest[i] = seq[k]
            BY <1>1, <1>5, <2>2
        <3> QED BY <3>1
    <2>3. CASE k # n
        <3>1. k \in 1 .. n - 1 /\ rest[k] = seq[k]
            BY <1>1, <1>5, <2>3
        <3> QED BY <3>1
    <2> QED BY <2>2, <2>3
<1>8. \A j, k \in 1 .. n - 1 : rest[j] = rest[k] => j = k
    BY <1>1, <1>5
<1> HIDE DEF rest
<1>9. /\ rest \in Seq(S) /\ Len(rest) = n - 1
      /\ \A j \in 1 .. Len(rest) : \E k \in 1 .. n \ {i} : rest[j] = seq[k]
      /\ \A k \in 1 .. n \ {i} : \E j \in 1 .. Len(rest) : rest[j] = seq[k]
      /\ \A j, k \in 1 .. Len(rest) : rest[j] = rest[k] => j = k
    BY <1>4, <1>6, <1>7, <1>8
<1> QED BY <1>9 DEF rest

\* A sequence without duplicates is as long as its set of elements is large.
LEMMA LengthIsCardinality ==
    ASSUME NEW S, NEW seq \in Seq(S), IsFiniteSet(S)
    PROVE  /\ IsFiniteSet(Seqs!ToSet(seq))
           /\ Len(seq) = Cardinality(Seqs!ToSet(seq))
                  <=> \A i, j \in 1 .. Len(seq) : seq[i] = seq[j] => i = j
<1> DEFINE elements == Seqs!ToSet(seq)
           indices == 1 .. Len(seq)
<1>1. Len(seq) \in Nat /\ DOMAIN seq = indices
    OBVIOUS
<1>2. IsFiniteSet(indices) /\ Cardinality(indices) = Len(seq)
    BY <1>1, FS_Interval
<1>3. seq \in Surjection(indices, elements)
    BY <1>1 DEF Surjection, Seqs!ToSet
<1>4. Len(seq) = Cardinality(elements) <=> seq \in Injection(indices, elements)
    BY <1>2, <1>3, FS_Surjection
<1>5. seq \in [indices -> elements]
    BY <1>3 DEF Surjection
<1>6. seq \in Injection(indices, elements)
          <=> \A i, j \in indices : seq[i] = seq[j] => i = j
    BY <1>5 DEF Injection, IsInjective
<1>7. IsFiniteSet(elements)
    BY <1>2, <1>3, FS_Surjection
<1> QED BY <1>4, <1>6, <1>7
-----------------------------------------------------------------------------
(***************************************************************************)
(* The type invariant.                                                     *)
(***************************************************************************)
\* The supervisor runs no process, and no process is a caller.
LEMMA Threads ==
    /\ Supervisor \in Thread \ Process /\ Process \subseteq Thread /\ Caller \subseteq Thread
    /\ "halt_some_max" \in Op /\ <<"halt_some_max">> \in Seq(Op)
    /\ "record_abort" \in Op /\ <<"record_abort">> \in Seq(Op) /\ "abort_handles" \in Op
BY ChannelAssumption, SupervisionAssumption DEF Op

\* The operations of an abort, which no call but those of the supervisor has to do.
AbortOps == {"record_abort", "abort_handles"}

\* Calls of other threads, and the operations on the channel, leave an abort as it is.
LEMMA CallStepAborts ==
    ASSUME todo \in [Thread -> Seq(Op)], NEW t \in Thread, CallStep(t), NEW op \in AbortOps
    PROVE  Remaining(Supervisor, op)' <=> Remaining(Supervisor, op)
<1>1. CASE t # Supervisor
    BY <1>1, CallStepOthers, Threads DEF Remaining
<1>2. CASE t = Supervisor
    <2>1. Head(todo[t]) # op
        BY DEF CallStep, RecvNotifyOne, RecvNotifyAll, SendNotifyOne, SendNotifyAll,
               ExitNotifyAll, Close, HaltSomeMax, Drain, Pending, AbortOps
    <2>2. op \notin {"recv_notify_one", "recv_notify_all",
                    "send_notify_one", "send_notify_all"}
        BY DEF AbortOps
    <2> QED BY <1>2, <2>1, <2>2, CallStepKeeps, CallStepAdds
<1> QED BY <1>1, <1>2

\* A step of an abort takes the call further, and what else is to be done is kept.
LEMMA AbortOnChannel ==
    ASSUME todo \in [Thread -> Seq(Op)], AbortStep
    PROVE  /\ UNCHANGED <<queueVars, inboxVars, haltVars, eventVars, calls, formVars, link,
                          handleVars, shutdownVars, kind, task, notifier, late>>
           /\ \/ UNCHANGED todo
              \/ /\ todo[Supervisor] # <<>>
                 /\ \E ops \in Seq(Op) :
                        /\ Continue(Supervisor, ops)
                        /\ \A op : op \notin AbortOps
                               => (Seqs!Contains(ops, op) <=> Remaining(Supervisor, op))
<1>1. UNCHANGED <<queueVars, inboxVars, haltVars, eventVars, calls, formVars, link,
                  handleVars, shutdownVars, kind, task, notifier, late>>
    BY DEF AbortStep, RecordAbort, AbortHandles, childVars, linkVars, taskVars
<1>2. CASE UNCHANGED todo
    BY <1>1, <1>2
<1>3. ASSUME todo[Supervisor] # <<>>, Head(todo[Supervisor]) \in AbortOps
      PROVE  /\ Tail(todo[Supervisor]) \in Seq(Op)
             /\ \A op : op \notin AbortOps
                    => (Seqs!Contains(Tail(todo[Supervisor]), op) <=> Remaining(Supervisor, op))
    BY <1>3, ContainsTail, Threads DEF Remaining
<1>4. CASE RecordAbort
    <2>1. todo[Supervisor] # <<>> /\ Head(todo[Supervisor]) \in AbortOps
        BY <1>4 DEF RecordAbort, Pending, AbortOps
    <2>2. /\ <<"abort_handles">> \o Tail(todo[Supervisor]) \in Seq(Op)
          /\ \A op : op \notin AbortOps
                 => (Seqs!Contains(<<"abort_handles">> \o Tail(todo[Supervisor]), op)
                         <=> Remaining(Supervisor, op))
        BY <1>3, <2>1, ContainsCons, Threads DEF AbortOps
    <2>3. Continue(Supervisor, <<"abort_handles">> \o Tail(todo[Supervisor]))
        BY <1>4 DEF RecordAbort
    <2> QED BY <1>1, <2>1, <2>2, <2>3
<1>5. CASE AbortHandles /\ Finish(Supervisor)
    <2>1. todo[Supervisor] # <<>> /\ Head(todo[Supervisor]) \in AbortOps
        BY <1>5 DEF AbortHandles, Pending, AbortOps
    <2> QED BY <1>1, <1>3, <1>5, <2>1 DEF Finish
<1> QED BY <1>2, <1>4, <1>5 DEF AbortStep, AbortHandles

\* A method that closes the channel has the rest of its operations still to do.
LEMMA CloseRest ==
    ASSUME todo \in [Thread -> Seq(Op)], NEW op \in Op, close(Supervisor, <<op>>)
    PROVE  Remaining(Supervisor, op)'
<1>1. <<op>> \in Seq(Op) /\ Seqs!Contains(<<op>>, op)
    BY ContainsOne
<1>2. /\ <<"recv_notify_all", "send_notify_all">> \o <<op>> \in Seq(Op)
      /\ Seqs!Contains(<<"recv_notify_all", "send_notify_all">> \o <<op>>, op)
    <2>1. "recv_notify_all" \in Op /\ "send_notify_all" \in Op
        BY DEF Op
    <2> QED BY <1>1, <2>1, ContainsCons2
<1>3. PICK ops \in Seq(Op) : Continue(Supervisor, ops) /\ Seqs!Contains(ops, op)
    BY <1>1, <1>2 DEF close
<1> QED BY <1>3, ContinueFacts, Threads

\* The child acts only when no call of its own is in progress.
LEMMA ChildStepHeld == ASSUME ChildStep PROVE Held
<1>1. CASE \E p \in Process : Spawn(p) \/ TrySpawn(p)
    BY <1>1 DEF Spawn, TrySpawn, AddProcess, Free
<1>2. CASE DropChild \/ DropPool
    BY <1>2 DEF DropChild, DropPool, Drop, Free
<1>3. CASE \/ \E l \in Links : Attach(l)
           \/ Detach \/ Halt \/ IntoDynChild \/ IntoDynPool \/ DowncastChild \/ DowncastPool
           \/ IntoPool \/ IntoJoinhandle \/ IntoJoinhandles \/ AbortChild \/ AbortPool
           \/ PollChild \/ PollPool \/ ShutdownChild \/ ShutdownPool \/ ShutdownStep
           \/ DropShutdown
    BY <1>3
       DEF Attach, Detach, Halt, IntoDynChild, IntoDynPool, DowncastChild, DowncastPool,
           IntoPool, IntoJoinhandle, IntoJoinhandles, Recast, AbortChild, AbortPool, PollChild,
           PollPool, ShutdownChild, ShutdownPool, ShutdownStep, ShutdownFutReady,
           ShutdownFutTimeout, ShutdownStreamTimeout, ShutdownStreamNext, ShutdownStreamOver,
           DropShutdown, Free
<1> QED BY <1>1, <1>2, <1>3 DEF ChildStep

\* No method of the child aborts a handle at once, and the drop that leaves handles to a
\* reaper closes the channel.
LEMMA ChildStepAborts ==
    ASSUME ChildStep
    PROVE  UNCHANGED <<is_aborted, cancel>> /\ (reaper' = reaper \/ closed')
<1>1. ASSUME NEW p \in Process, Spawn(p) \/ TrySpawn(p)
      PROVE  UNCHANGED <<is_aborted, cancel, reaper>>
    BY <1>1 DEF Spawn, TrySpawn, AddProcess, linkVars, shutdownVars
<1>2. ASSUME DropChild \/ DropPool
      PROVE  UNCHANGED <<is_aborted, cancel>> /\ (reaper' = reaper \/ closed')
    BY <1>2 DEF DropChild, DropPool, Drop, halt, close, linkVars, taskVars
<1>3. ASSUME \/ \E l \in Links : Attach(l)
             \/ Detach \/ Halt \/ IntoDynChild \/ IntoDynPool \/ DowncastChild
             \/ DowncastPool \/ IntoPool \/ IntoJoinhandle \/ IntoJoinhandles
             \/ AbortChild \/ AbortPool \/ PollChild \/ PollPool \/ ShutdownChild
             \/ ShutdownPool \/ ShutdownStep \/ DropShutdown
      PROVE  UNCHANGED <<is_aborted, cancel, reaper>>
    BY <1>3
       DEF Attach, Detach, Halt, IntoDynChild, IntoDynPool, DowncastChild, DowncastPool,
           IntoPool, IntoJoinhandle, IntoJoinhandles, Recast, AbortChild, AbortPool, PollChild,
           PollPool, JoinChild, JoinPool, ShutdownChild, ShutdownPool, ShutdownStep,
           ShutdownFutReady, ShutdownFutTimeout, ShutdownStreamTimeout, ShutdownStreamNext,
           ShutdownStreamOver, DropShutdown, childVars, linkVars, shutdownVars, taskVars
<1> QED BY <1>1, <1>2, <1>3 DEF ChildStep

\* A task has calls of its own only.
LEMMA TaskStepOthers ==
    ASSUME todo \in [Thread -> Seq(Op)], NEW p \in Process, TaskStep(p)
    PROVE  \A u \in Thread \ {p} : todo'[u] = todo[u]
BY Threads
   DEF TaskStep, ReturnTask, PanicTask, CancelTask, EndTask, DropInboxEarly, FinishTask,
       PollNotifier, TakeHalt, remove_inbox, Continue, channelVars

\* What the child and its tasks do to the channel: close it, remove an inbox or add
\* one, take a halt, or go on with an abort.  The supervisor and the tasks are in no
\* other call meanwhile.
LEMMA ChildOnChannel ==
    ASSUME InboxesHaveTasks, todo \in [Thread -> Seq(Op)],
           ChildStep \/ AbortStep \/ Reap \/ \E p \in Process : TaskStep(p)
    PROVE  \/ \E rest \in {<<"record_abort">>, <<"halt_some_max">>} :
                  /\ close(Supervisor, rest) /\ todo[Supervisor] = <<>>
                  /\ UNCHANGED <<queue, inboxVars, haltVars, eventVars, calls, notifier>>
           \/ \E ops \in Seq(Op) :
                  /\ Continue(Supervisor, ops) /\ todo[Supervisor] # <<>>
                  /\ \A op : op \notin AbortOps
                         => (Seqs!Contains(ops, op) <=> Remaining(Supervisor, op))
                  /\ UNCHANGED <<queueVars, inboxVars, haltVars, eventVars, calls, notifier>>
           \/ \E p \in Process :
                  /\ remove_inbox(p) /\ inbox[p] = "live" /\ todo[p] = <<>>
                  /\ UNCHANGED <<queueVars, haltVars, eventVars, calls, notifier>>
           \/ \E p \in Process :
                  /\ try_add_inbox(p) /\ inbox[p] = "none"
                  /\ UNCHANGED <<queueVars, haltVars, eventVars, todo, calls, notifier>>
           \/ \E p \in Process : TakeHalt(p)
           \/ \E p \in Process : PollNotifier(p)
           \/ UNCHANGED <<channelVars, notifier>>
<1>1. ASSUME NEW p \in Process, NEW state, EndTask(p, state)
      PROVE  \/ /\ remove_inbox(p) /\ inbox[p] = "live" /\ todo[p] = <<>>
                /\ UNCHANGED <<queueVars, haltVars, eventVars, calls, notifier>>
             \/ UNCHANGED <<channelVars, notifier>>
    BY <1>1 DEF EndTask, Active, channelVars
<1>2. CASE \E p \in Process : TaskStep(p)
    BY <1>1, <1>2
       DEF TaskStep, ReturnTask, PanicTask, CancelTask, DropInboxEarly, Active, FinishTask,
           taskVars
<1>3. CASE \/ Halt \/ AbortChild \/ AbortPool \/ ShutdownChild \/ ShutdownPool
           \/ ShutdownFutTimeout \/ ShutdownStreamTimeout
    BY <1>3
       DEF Halt, AbortChild, AbortPool, ShutdownChild, ShutdownPool, ShutdownFutTimeout,
           ShutdownStreamTimeout, Free, Held, halt, abort, taskVars
<1>4. CASE Drop
    BY <1>4 DEF Drop, Free, Held, halt, abort, channelVars, queueVars, taskVars
<1>5. ASSUME NEW p \in Process, AddProcess(p)
      PROVE  /\ try_add_inbox(p) /\ inbox[p] = "none"
             /\ UNCHANGED <<queueVars, haltVars, eventVars, todo, calls, notifier>>
    BY <1>5 DEF AddProcess, InboxesHaveTasks
<1>6. ASSUME \/ \E l \in Links : Attach(l)
             \/ Detach \/ IntoDynChild \/ IntoDynPool \/ DowncastChild \/ DowncastPool
             \/ IntoPool \/ IntoJoinhandle \/ IntoJoinhandles \/ PollChild \/ PollPool
             \/ ShutdownFutReady \/ ShutdownStreamNext \/ ShutdownStreamOver
             \/ DropShutdown \/ Reap
      PROVE  UNCHANGED <<channelVars, notifier>>
    BY <1>6
       DEF Attach, Detach, IntoDynChild, IntoDynPool, DowncastChild, DowncastPool,
           IntoPool, IntoJoinhandle, IntoJoinhandles, Recast, PollChild, PollPool,
           ShutdownFutReady, ShutdownStreamNext, ShutdownStreamOver, DropShutdown, Reap,
           JoinChild, JoinPool, taskVars
<1>7. ASSUME NEW p \in Process, Spawn(p) \/ TrySpawn(p)
      PROVE  /\ try_add_inbox(p) /\ inbox[p] = "none"
             /\ UNCHANGED <<queueVars, haltVars, eventVars, todo, calls, notifier>>
    BY <1>5, <1>7 DEF Spawn, TrySpawn
<1>8. CASE ChildStep
    <2>1. CASE \E p \in Process : Spawn(p) \/ TrySpawn(p)
        BY <1>7, <2>1
    <2>2. CASE ~\E p \in Process : Spawn(p) \/ TrySpawn(p)
        BY <1>3, <1>4, <1>6, <1>8, <2>2
           DEF ChildStep, ShutdownStep, DropChild, DropPool
    <2> QED BY <2>1, <2>2
<1>9. CASE AbortStep
    BY <1>9, AbortOnChannel DEF channelVars
<1> QED BY <1>2, <1>6, <1>8, <1>9

\* A decrement is in range: the notifier that performs it is one of those counted.
LEMMA TakeHaltInRange ==
    ASSUME SuperIInv, NEW p \in Process, TakeHalt(p)
    PROVE  /\ halt_count' = halt_count - 1 /\ halt_count' \in -I32Max .. I32Max
           /\ DecidingTasks' = DecidingTasks \ {p}
           /\ Cardinality(DecidingTasks') = Cardinality(DecidingTasks) - 1
<1>1. /\ halt_count' = halt_count - 1 /\ p \in DecidingTasks
      /\ DecidingTasks' = DecidingTasks \ {p}
    BY DEF TakeHalt, DecidingTasks, SuperIInv, SuperTypeOK
<1>2. IsFiniteSet(DecidingTasks) /\ DecidingTasks \subseteq Process
    BY LiveFinite, FS_Subset DEF DecidingTasks
<1>3. /\ Cardinality(DecidingTasks) \in Nat /\ Cardinality(DecidingTasks) # 0
      /\ Cardinality(DecidingTasks') = Cardinality(DecidingTasks) - 1
    BY <1>1, <1>2, FS_CardinalityType, FS_EmptySet, FS_RemoveElement
<1>4. /\ halt_count \in -I32Max .. I32Max /\ I32Max \in Nat
      /\ Cardinality(Process) \in Nat /\ Cardinality(Process) <= I32Max
      /\ halt_count - Cardinality(DecidingTasks) >= -Cardinality(Process)
    BY ChannelAssumption, LiveFinite
       DEF SuperIInv, SuperTypeOK, ChannelTypeOK, NotifierDebtBounded
<1>5. halt_count - 1 \in -I32Max .. I32Max
    BY <1>3, <1>4
<1> QED BY <1>1, <1>3, <1>5

\* Every step preserves the types of the channel.
LEMMA SuperChannelTypeStep ==
    ASSUME SuperIInv, [SuperNext]_superVars
    PROVE  ChannelTypeOK'
<1>a. ChannelTypeOK /\ InboxesHaveTasks /\ inbox_count = Cardinality(Live)
    BY DEF SuperIInv, SuperTypeOK, InboxesHaveTasks
<1>1. ASSUME UNCHANGED channelVars
      PROVE  ChannelTypeOK'
    BY <1>1, <1>a
       DEF channelVars, queueVars, inboxVars, haltVars, eventVars, ChannelTypeOK
<1>2. ASSUME NEW rest \in {<<"record_abort">>, <<"halt_some_max">>}, close(Supervisor, rest),
             UNCHANGED <<queue, inboxVars, haltVars, eventVars, calls>>
      PROVE  ChannelTypeOK'
    <2>1. closed' = TRUE /\ todo' \in [Thread -> Seq(Op)]
        BY <1>2, <1>a, Threads, CloseFacts
    <2> QED BY <1>2, <1>a, <2>1 DEF inboxVars, haltVars, eventVars, ChannelTypeOK
<1>3. ASSUME NEW p \in Process, inbox[p] = "live", remove_inbox(p),
             UNCHANGED <<queueVars, haltVars, eventVars, calls>>
      PROVE  ChannelTypeOK'
    <2>1. /\ inbox_count' \in Nat /\ todo' \in [Thread -> Seq(Op)]
          /\ inbox' \in [Process -> {"none", "live", "dropped"}]
        BY <1>3, <1>a, RemoveInboxFacts
    <2> QED BY <1>3, <1>a, <2>1 DEF queueVars, haltVars, eventVars, ChannelTypeOK
<1>4. ASSUME NEW p \in Process, try_add_inbox(p),
             UNCHANGED <<queueVars, haltVars, eventVars, todo, calls>>
      PROVE  ChannelTypeOK'
    BY <1>4, <1>a DEF try_add_inbox, queueVars, haltVars, eventVars, ChannelTypeOK
<1>5. ASSUME NEW p \in Process, TakeHalt(p)
      PROVE  ChannelTypeOK'
    <2>1. halt_count' \in -I32Max .. I32Max
        BY <1>5, TakeHaltInRange
    <2> QED BY <1>5, <1>a, <2>1
            DEF TakeHalt, queueVars, inboxVars, eventVars, ChannelTypeOK
<1>b. todo \in [Thread -> Seq(Op)]
    BY <1>a DEF ChannelTypeOK
<1>7. ASSUME NEW ops \in Seq(Op), Continue(Supervisor, ops),
             UNCHANGED <<queueVars, inboxVars, haltVars, eventVars, calls>>
      PROVE  ChannelTypeOK'
    <2>1. todo' \in [Thread -> Seq(Op)]
        BY <1>7, <1>b, ContinueFacts, Threads
    <2> QED BY <1>7, <1>a, <2>1
            DEF queueVars, inboxVars, haltVars, eventVars, ChannelTypeOK
<1>6. CASE ChildStep \/ AbortStep \/ Reap \/ \E p \in Process : TaskStep(p)
    BY <1>a, <1>b, <1>1, <1>2, <1>3, <1>4, <1>5, <1>6, <1>7, ChildOnChannel DEF PollNotifier
<1> QED BY <1>a, <1>1, <1>6, CallStepTypes, CallerStepTypes DEF SuperNext, superVars

\* What a join handle that is ready returns.
LEMMA ExitResultFacts ==
    ASSUME NEW p, Finished(p)
    PROVE  /\ ExitResult(p) \in {"Ok", "Panic", "Abort"}
           /\ ExitResult(p) = "Abort" => task[p] = "cancelled"
BY DEF Finished, ExitResult

\* Every step preserves the types of the child and its tasks.
LEMMA SuperTypeStep ==
    ASSUME SuperIInv, [SuperNext]_superVars
    PROVE  SuperTypeOK'
<1>a. ChannelTypeOK' /\ SuperTypeOK /\ HandlesInv
    BY SuperChannelTypeStep DEF SuperIInv
<1> USE DEF SuperTypeOK
<1>b. /\ Links \subseteq {"detached", "zero", "timer"} /\ MaxHalts \in Nat
      /\ Handles \subseteq Process /\ \A i \in DOMAIN handles : handles[i] \in Process
    BY <1>a, SupervisionAssumption DEF Handles, Seqs!ToSet
<1>1. ASSUME UNCHANGED <<childVars, taskVars>>
      PROVE  SuperTypeOK'
    BY <1>1, <1>a
       DEF childVars, taskVars, formVars, linkVars, handleVars, shutdownVars
<1>2. ASSUME NEW p \in Process, TaskStep(p)
      PROVE  SuperTypeOK'
    <2>1. UNCHANGED <<childVars, kind, cancel, late>>
        BY <1>2
           DEF TaskStep, ReturnTask, PanicTask, CancelTask, EndTask, DropInboxEarly,
               FinishTask, PollNotifier, TakeHalt, taskVars
    <2>2. task' \in [Process -> TaskStates]
        BY <1>2, <1>a
           DEF TaskStep, ReturnTask, PanicTask, CancelTask, EndTask, DropInboxEarly,
               FinishTask, PollNotifier, TakeHalt, taskVars, TaskStates
    <2>3. notifier' \in [Process -> {"waiting", "deciding", "ready"}]
        BY <1>2, <1>a
           DEF TaskStep, ReturnTask, PanicTask, CancelTask, EndTask, DropInboxEarly,
               FinishTask, PollNotifier, TakeHalt, taskVars
    <2> QED BY <1>a, <2>1, <2>2, <2>3
            DEF childVars, formVars, linkVars, handleVars, shutdownVars
<1>3. ASSUME NEW h \in {"child", "pool", "joinhandles"}, NEW f \in {"typed", "dyn"},
             Recast(h, f)
      PROVE  SuperTypeOK'
    BY <1>3, <1>a DEF Recast, linkVars, handleVars, shutdownVars, taskVars
<1>4. ASSUME \/ IntoDynChild \/ IntoDynPool \/ DowncastChild \/ DowncastPool
             \/ IntoPool \/ IntoJoinhandle \/ IntoJoinhandles
      PROVE  SuperTypeOK'
    BY <1>3, <1>4, <1>a
       DEF IntoDynChild, IntoDynPool, DowncastChild, DowncastPool, IntoPool,
           IntoJoinhandle, IntoJoinhandles
<1>5. ASSUME (\E l \in Links : Attach(l)) \/ Detach
      PROVE  SuperTypeOK'
    BY <1>5, <1>a, <1>b DEF Attach, Detach, formVars, handleVars, shutdownVars, taskVars
<1>6. ASSUME Halt \/ ShutdownChild \/ ShutdownPool
      PROVE  SuperTypeOK'
    BY <1>6, <1>a, <1>b
       DEF Halt, ShutdownChild, ShutdownPool, formVars, linkVars, handleVars, taskVars
<1>7. ASSUME \/ AbortChild \/ AbortPool \/ ShutdownFutTimeout \/ ShutdownStreamTimeout
             \/ RecordAbort
      PROVE  SuperTypeOK'
    <2>1. CASE AbortChild \/ AbortPool
        BY <2>1, <1>a
           DEF AbortChild, AbortPool, childVars, taskVars, formVars, linkVars,
               handleVars, shutdownVars
    <2>2. CASE ShutdownFutTimeout \/ ShutdownStreamTimeout
        BY <2>2, <1>a
           DEF ShutdownFutTimeout, ShutdownStreamTimeout, taskVars, formVars, linkVars,
               handleVars
    <2>3. CASE RecordAbort
        BY <2>3, <1>a DEF RecordAbort, taskVars, formVars, handleVars, shutdownVars
    <2> QED BY <1>7, <2>1, <2>2, <2>3
<1>17. ASSUME AbortHandles
       PROVE  SuperTypeOK'
    <2>1. cancel' \subseteq Process /\ UNCHANGED <<childVars, kind, task, notifier, late>>
        BY <1>17, <1>a, <1>b DEF AbortHandles
    <2> QED BY <1>a, <2>1 DEF childVars, formVars, linkVars, handleVars, shutdownVars
<1>8. ASSUME JoinChild, shutdown' \in {shutdown, "none"}
      PROVE  SuperTypeOK'
    <2>1. handles[1] \in Process /\ Finished(handles[1])
        <3>1. Len(handles) = 1 /\ Finished(handles[1])
            BY <1>8, <1>a DEF JoinChild, HandlesInv
        <3>2. handles \in Seq(Process)
            BY <1>a
        <3>3. 1 \in 1 .. Len(handles)
            BY <3>1
        <3> HIDE DEF SuperTypeOK
        <3> QED BY <3>1, <3>2, <3>3
    <2>2. ExitResult(handles[1]) \in {"Ok", "Panic", "Abort"}
        BY <2>1, ExitResultFacts
    <2>3. /\ reports' \in [Process -> {"None", "Ok", "Panic", "Abort"}]
          /\ awaited' \in BOOLEAN /\ holder' \in {holder, "panicked"}
        BY <1>8, <1>a, <2>1, <2>2 DEF JoinChild
    <2> QED BY <1>8, <1>a, <2>3 DEF JoinChild, linkVars, taskVars
<1>9. ASSUME JoinPool, shutdown' \in {shutdown, "none"}
      PROVE  SuperTypeOK'
    <2>1. PICK i \in DOMAIN handles :
              /\ Finished(handles[i])
              /\ IF reports[handles[i]] = "None"
                 THEN TakeOutput(i) /\ UNCHANGED holder
                 ELSE holder' = "panicked" /\ UNCHANGED <<handles, reports>>
        BY <1>9 DEF JoinPool
    <2>2. /\ handles[i] \in Process
          /\ ExitResult(handles[i]) \in {"Ok", "Panic", "Abort"}
        BY <1>b, <2>1, ExitResultFacts
    <2>3. /\ i \in 1 .. Len(handles)
          /\ \A j, k \in 1 .. Len(handles) : handles[j] = handles[k] => j = k
        BY <1>9, <1>a DEF JoinPool, HandlesInv, HandlesHeld
    <2>4. SwapRemove(handles, i) \in Seq(Process)
        BY <1>a, <2>3, SwapRemoveFacts
    <2>5. /\ reports' \in [Process -> {"None", "Ok", "Panic", "Abort"}]
          /\ handles' \in Seq(Process) /\ holder' \in {holder, "panicked"}
        BY <1>a, <2>1, <2>2, <2>4 DEF TakeOutput
    <2> QED BY <1>9, <1>a, <2>5 DEF JoinPool, linkVars, taskVars
<1>10. ASSUME PollChild \/ PollPool \/ ShutdownFutReady \/ ShutdownStreamNext
       PROVE  SuperTypeOK'
    BY <1>8, <1>9, <1>10 DEF PollChild, PollPool, ShutdownFutReady, ShutdownStreamNext
<1>11. ASSUME ShutdownStreamOver \/ DropShutdown
       PROVE  SuperTypeOK'
    BY <1>11, <1>a
       DEF ShutdownStreamOver, DropShutdown, formVars, linkVars, handleVars, taskVars
<1>12. ASSUME NEW p \in Process, AddProcess(p)
       PROVE  SuperTypeOK'
    <2>1. /\ handles' \in Seq(Process) /\ late' \subseteq Process
          /\ task' \in [Process -> TaskStates]
        BY <1>12, <1>a DEF AddProcess, TaskStates
    <2> QED BY <1>12, <1>a, <2>1 DEF AddProcess, formVars, linkVars, shutdownVars
<1>13. ASSUME Drop
       PROVE  SuperTypeOK'
    <2>1. handles' \in Seq(Process) /\ reaper' \subseteq Process
        <3>1. CASE UNCHANGED <<handles, reaper>>
            BY <1>a, <3>1
        <3>2. CASE reaper' = Handles /\ handles' = <<>>
            <4>1. <<>> \in Seq(Process)
                OBVIOUS
            <4> QED BY <1>a, <1>b, <3>2, <4>1
        <3> QED BY <1>13, <3>1, <3>2 DEF Drop
    <2> QED BY <1>13, <1>a, <2>1 DEF Drop, linkVars, taskVars
<1>14. ASSUME Reap
       PROVE  SuperTypeOK'
    BY <1>14, <1>a DEF Reap, formVars, linkVars, handleVars
<1>15. ASSUME ChildStep
       PROVE  SuperTypeOK'
    BY <1>4, <1>5, <1>6, <1>7, <1>10, <1>11, <1>12, <1>13, <1>15
       DEF ChildStep, ShutdownStep, Spawn, TrySpawn, DropChild, DropPool
<1>16. UNCHANGED superVars => UNCHANGED <<childVars, taskVars>>
    BY DEF superVars
<1> QED BY <1>1, <1>2, <1>7, <1>14, <1>15, <1>16, <1>17 DEF SuperNext, AbortStep
-----------------------------------------------------------------------------
(***************************************************************************)
(* The inboxes and the tasks that own them.                                *)
(***************************************************************************)
\* Every step keeps inbox_count exact, and every inbox with a task that runs.
LEMMA InboxesHaveTasksStep ==
    ASSUME SuperIInv, [SuperNext]_superVars
    PROVE  InboxesHaveTasks'
<1>a. ChannelTypeOK /\ SuperTypeOK /\ InboxesHaveTasks
    BY DEF SuperIInv, SuperTypeOK
<1>b. /\ inbox \in [Process -> {"none", "live", "dropped"}] /\ inbox_count \in Nat
      /\ task \in [Process -> TaskStates]
    BY <1>a DEF SuperTypeOK, ChannelTypeOK
<1>1. ASSUME UNCHANGED <<inboxVars, task>>
      PROVE  InboxesHaveTasks'
    BY <1>1, <1>a DEF InboxesHaveTasks, inboxVars, Live
<1>2. ASSUME NEW p \in Process, inbox[p] = "live", remove_inbox(p),
             task' = task \/ \E state \in TaskStates \ {"none"} :
                                 task' = [task EXCEPT ![p] = state]
      PROVE  InboxesHaveTasks'
    <2>1. /\ inbox_count' = Cardinality(Live')
          /\ inbox' = [inbox EXCEPT ![p] = "dropped"]
        BY <1>2, <1>a, RemoveInboxFacts DEF InboxesHaveTasks
    <2>2. task[p] = "running"
        BY <1>2, <1>a DEF InboxesHaveTasks
    <2> QED BY <1>2, <1>a, <1>b, <2>1, <2>2 DEF InboxesHaveTasks
<1>3. ASSUME NEW p \in Process, inbox[p] # "live", task[p] # "none", UNCHANGED inboxVars,
             NEW state \in TaskStates \ {"none"}, task' = [task EXCEPT ![p] = state]
      PROVE  InboxesHaveTasks'
    BY <1>3, <1>a, <1>b DEF InboxesHaveTasks, inboxVars, Live
<1>4. ASSUME NEW p \in Process, NEW state \in TaskStates \ {"none"}, EndTask(p, state)
      PROVE  InboxesHaveTasks'
    <2>1. task[p] = "running" /\ task' = [task EXCEPT ![p] = state]
        BY <1>4 DEF EndTask, Active
    <2>2. CASE inbox[p] = "live"
        BY <1>2, <1>4, <2>1, <2>2 DEF EndTask
    <2>3. CASE inbox[p] # "live"
        BY <1>3, <1>4, <2>1, <2>3 DEF EndTask
    <2> QED BY <2>2, <2>3
<1>5. ASSUME NEW p \in Process, TaskStep(p)
      PROVE  InboxesHaveTasks'
    <2>1. CASE ReturnTask(p) \/ PanicTask(p) \/ CancelTask(p)
        BY <1>4, <2>1 DEF ReturnTask, PanicTask, CancelTask, TaskStates
    <2>2. CASE DropInboxEarly(p)
        BY <1>2, <2>2 DEF DropInboxEarly, taskVars
    <2>3. CASE FinishTask(p)
        <3>1. /\ task[p] \notin {"none", "running"} /\ UNCHANGED inboxVars
              /\ \E state \in TaskStates \ {"none"} : task' = [task EXCEPT ![p] = state]
            BY <2>3 DEF FinishTask, TaskStates, channelVars
        <3>2. inbox[p] # "live"
            BY <1>a, <3>1 DEF InboxesHaveTasks
        <3> QED BY <1>3, <3>1, <3>2
    <2>4. CASE PollNotifier(p) \/ TakeHalt(p)
        BY <1>1, <2>4 DEF PollNotifier, TakeHalt, channelVars
    <2> QED BY <1>5, <2>1, <2>2, <2>3, <2>4 DEF TaskStep
<1>6. ASSUME NEW p \in Process, AddProcess(p)
      PROVE  InboxesHaveTasks'
    <2>1. /\ inbox' = [inbox EXCEPT ![p] = "live"] /\ inbox_count' = inbox_count + 1
          /\ task[p] = "none" /\ task' = [task EXCEPT ![p] = "running"]
        BY <1>6 DEF AddProcess, try_add_inbox
    <2>2. Cardinality(Live') = Cardinality(Live) + 1
        BY <1>a, <1>b, <2>1, LiveAdded DEF InboxesHaveTasks
    <2> QED BY <1>a, <1>b, <2>1, <2>2 DEF InboxesHaveTasks
<1>7. ASSUME NEW c \in Caller, CallerStep(c), UNCHANGED <<childVars, taskVars>>
      PROVE  InboxesHaveTasks'
    <2>1. ~CallSpawn(c)
        BY SupervisionAssumption DEF CallSpawn, Calls
    <2>2. UNCHANGED <<inboxVars, task>>
        BY <1>7, <2>1
           DEF CallerStep, CallSendNow, CallClose, CallHaltSome, CallHalt, taskVars
    <2> QED BY <1>1, <2>2
<1>8. ASSUME NEW t \in Thread, CallStep(t), UNCHANGED <<childVars, taskVars>>
      PROVE  InboxesHaveTasks'
    BY <1>1, <1>8, CallStepInboxes DEF taskVars
<1>9. ASSUME ChildStep, ~\E p \in Process : AddProcess(p)
      PROVE  UNCHANGED <<inboxVars, task>>
    <2>1. ASSUME Drop
          PROVE  UNCHANGED <<inboxVars, task>>
        BY <2>1 DEF Drop, taskVars
    <2>2. ASSUME \/ \E l \in Links : Attach(l)
                 \/ Detach \/ Halt \/ IntoDynChild \/ IntoDynPool \/ DowncastChild
                 \/ DowncastPool \/ IntoPool \/ IntoJoinhandle \/ IntoJoinhandles
                 \/ AbortChild \/ AbortPool \/ PollChild \/ PollPool
                 \/ ShutdownChild \/ ShutdownPool \/ ShutdownStep \/ DropShutdown
          PROVE  UNCHANGED <<inboxVars, task>>
        BY <2>2
           DEF Attach, Detach, Halt, IntoDynChild, IntoDynPool, DowncastChild,
               DowncastPool, IntoPool, IntoJoinhandle, IntoJoinhandles, Recast,
               AbortChild, AbortPool, PollChild, PollPool, ShutdownChild, ShutdownPool,
               ShutdownStep, ShutdownFutReady, ShutdownFutTimeout, ShutdownStreamTimeout,
               ShutdownStreamNext, ShutdownStreamOver, DropShutdown, JoinChild, JoinPool,
               channelVars, taskVars
    <2> QED BY <1>9, <2>1, <2>2 DEF ChildStep, Spawn, TrySpawn, DropChild, DropPool
<1>10. AbortStep \/ Reap \/ UNCHANGED superVars => UNCHANGED <<inboxVars, task>>
    BY DEF AbortStep, RecordAbort, AbortHandles, Reap, superVars, channelVars, taskVars
<1> QED BY <1>1, <1>5, <1>6, <1>7, <1>8, <1>9, <1>10 DEF SuperNext
-----------------------------------------------------------------------------
(***************************************************************************)
(* The join handles.                                                       *)
(***************************************************************************)
\* A task that ends is one whose handle was not read.
LEMMA HandlesTaskStep ==
    ASSUME SuperIInv, NEW p \in Process, task[p] # "none", ~Finished(p),
           NEW state \in TaskStates \ {"none"}, task' = [task EXCEPT ![p] = state],
           UNCHANGED <<holder, handleVars>>
    PROVE  HandlesInv'
<1>1. /\ task \in [Process -> TaskStates] /\ handles \in Seq(Process) /\ HandlesInv
    BY DEF SuperIInv, SuperTypeOK
<1>2. /\ \A q \in Process : task'[q] = "none" <=> task[q] = "none"
      /\ \A q \in Process : reports[q] # "None" => q # p
      /\ \A q \in Process \ {p} : task'[q] = task[q]
    BY <1>1 DEF HandlesInv
<1>3. \A q \in Process : reports'[q] # "None" => Finished(q)'
    BY <1>1, <1>2 DEF HandlesInv, Finished, handleVars
<1>4. holder' \in {"child", "pool"} => HandlesHeld'
    <2>1. \A i \in DOMAIN handles : handles[i] \in Process
        BY <1>1
    <2> QED BY <1>1, <1>2, <2>1 DEF HandlesInv, HandlesHeld, Handles, handleVars
<1> QED BY <1>1, <1>3, <1>4 DEF HandlesInv, handleVars

\* A spawn puts the handle of a new task at the end.
LEMMA HandlesAddStep ==
    ASSUME SuperIInv, NEW p \in Process, AddProcess(p)
    PROVE  HandlesInv'
<1>1. /\ task \in [Process -> TaskStates] /\ handles \in Seq(Process) /\ HandlesInv
      /\ reports \in [Process -> {"None", "Ok", "Panic", "Abort"}]
    BY DEF SuperIInv, SuperTypeOK
<1>2. /\ holder = "pool" /\ holder' = "pool" /\ task[p] = "none"
      /\ task' = [task EXCEPT ![p] = "running"]
      /\ handles' = Append(handles, p)
      /\ reports' = reports /\ awaited' = awaited
    BY DEF AddProcess, Free, Held, formVars
<1>3. /\ HandlesHeld
      /\ \A q \in Process : reports[q] # "None" => Finished(q)
    BY <1>1, <1>2 DEF HandlesInv
<1>4. /\ Len(handles') = Len(handles) + 1 /\ handles'[Len(handles) + 1] = p
      /\ \A i \in 1 .. Len(handles) : handles'[i] = handles[i]
      /\ DOMAIN handles' = 1 .. Len(handles) + 1 /\ DOMAIN handles = 1 .. Len(handles)
      /\ Len(handles) \in Nat
    BY <1>1, <1>2
<1>5. \A i \in 1 .. Len(handles) : handles[i] \in Process /\ handles[i] # p
    BY <1>1, <1>2, <1>3, <1>4 DEF HandlesHeld
<1>6. reports[p] = "None"
    BY <1>2, <1>3 DEF Finished
<1>7. \A q \in Process : reports'[q] # "None" => Finished(q)'
    BY <1>1, <1>2, <1>3, <1>6 DEF Finished
<1>8. ASSUME NEW q \in Process, task'[q] # "none", reports'[q] = "None"
      PROVE  q \in Handles'
    <2>1. CASE q = p
        BY <1>4, <2>1 DEF Handles, Seqs!ToSet
    <2>2. CASE q # p
        <3>1. q \in Handles
            BY <1>1, <1>2, <1>3, <1>8, <2>2 DEF HandlesHeld
        <3>2. PICK i \in 1 .. Len(handles) : handles[i] = q
            BY <1>4, <3>1 DEF Handles, Seqs!ToSet
        <3>3. i \in DOMAIN handles' /\ handles'[i] = q
            BY <1>4, <3>2
        <3> QED BY <3>3 DEF Handles, Seqs!ToSet
    <2> QED BY <2>1, <2>2
<1>9. ASSUME NEW i \in DOMAIN handles'
      PROVE  /\ task'[handles'[i]] # "none"
             /\ reports'[handles'[i]] = "None" \/ awaited'
    <2>1. CASE i = Len(handles) + 1
        BY <1>1, <1>2, <1>4, <1>6, <2>1
    <2>2. CASE i # Len(handles) + 1
        <3>1. i \in DOMAIN handles /\ handles'[i] = handles[i] /\ handles[i] # p
            BY <1>4, <1>5, <2>2
        <3> QED BY <1>1, <1>2, <1>3, <1>5, <3>1 DEF HandlesHeld
    <2> QED BY <2>1, <2>2
<1>10. \A i, j \in DOMAIN handles' : handles'[i] = handles'[j] => i = j
    BY <1>3, <1>4, <1>5 DEF HandlesHeld
<1>11. HandlesHeld'
    BY <1>8, <1>9, <1>10 DEF HandlesHeld
<1> QED BY <1>2, <1>7, <1>11 DEF HandlesInv

\* The output of the child is read.
LEMMA HandlesJoinChild ==
    ASSUME SuperIInv, JoinChild
    PROVE  HandlesInv'
<1>1. /\ handles \in Seq(Process) /\ HandlesInv
      /\ reports \in [Process -> {"None", "Ok", "Panic", "Abort"}]
    BY DEF SuperIInv, SuperTypeOK
<1>2. /\ holder = "child" /\ Finished(handles[1])
      /\ handles' = handles /\ task' = task
    BY DEF JoinChild, taskVars
<1>3. HandlesHeld /\ Len(handles) = 1 /\ DOMAIN handles = {1} /\ handles[1] \in Process
    BY <1>1, <1>2 DEF HandlesInv
<1>4. CASE reports[handles[1]] = "None"
    <2>1. /\ reports' = [reports EXCEPT ![handles[1]] = ExitResult(handles[1])]
          /\ awaited' = TRUE /\ holder' = holder
        BY <1>4 DEF JoinChild
    <2>2. \A q \in Process : reports'[q] # "None" => Finished(q)'
        BY <1>1, <1>2, <1>3, <2>1 DEF HandlesInv, Finished
    <2>3. \A q \in Process : reports'[q] = "None" => reports[q] = "None"
        BY <1>1, <1>3, <1>4, <2>1
    <2>4. HandlesHeld'
        BY <1>2, <1>3, <2>1, <2>3 DEF HandlesHeld, Handles
    <2> QED BY <1>2, <1>3, <2>1, <2>2, <2>4 DEF HandlesInv
<1>5. CASE reports[handles[1]] # "None"
    <2>1. holder' = "panicked" /\ reports' = reports /\ awaited' = awaited
        BY <1>5 DEF JoinChild
    <2>2. awaited
        BY <1>3, <1>5 DEF HandlesHeld
    <2> QED BY <1>1, <1>2, <2>1, <2>2 DEF HandlesInv, Finished
<1> QED BY <1>4, <1>5

\* The output of a task of the pool is read, and its handle removed.
LEMMA HandlesJoinPool ==
    ASSUME SuperIInv, JoinPool
    PROVE  HandlesInv'
<1>1. /\ handles \in Seq(Process) /\ HandlesInv
      /\ reports \in [Process -> {"None", "Ok", "Panic", "Abort"}]
    BY DEF SuperIInv, SuperTypeOK
<1>2. PICK i \in DOMAIN handles :
          /\ Finished(handles[i])
          /\ IF reports[handles[i]] = "None"
             THEN TakeOutput(i) /\ UNCHANGED holder
             ELSE holder' = "panicked" /\ UNCHANGED <<handles, reports>>
    BY DEF JoinPool
<1>3. holder = "pool" /\ awaited' = awaited /\ task' = task
    BY DEF JoinPool, taskVars
<1>4. HandlesHeld /\ DOMAIN handles = 1 .. Len(handles) /\ handles[i] \in Process
    BY <1>1, <1>2, <1>3 DEF HandlesInv
<1>5. CASE reports[handles[i]] = "None"
    <2>1. /\ reports' = [reports EXCEPT ![handles[i]] = ExitResult(handles[i])]
          /\ handles' = SwapRemove(handles, i) /\ holder' = holder
        BY <1>2, <1>5 DEF TakeOutput
    <2>2. /\ handles' \in Seq(Process)
          /\ \A j \in 1 .. Len(handles') :
                 \E k \in 1 .. Len(handles) \ {i} : handles'[j] = handles[k]
          /\ \A k \in 1 .. Len(handles) \ {i} :
                 \E j \in 1 .. Len(handles') : handles'[j] = handles[k]
          /\ \A j, k \in 1 .. Len(handles') : handles'[j] = handles'[k] => j = k
        <3>1. /\ i \in 1 .. Len(handles)
              /\ \A j, k \in 1 .. Len(handles) : handles[j] = handles[k] => j = k
            BY <1>2, <1>4 DEF HandlesHeld
        <3>2. /\ SwapRemove(handles, i) \in Seq(Process)
              /\ \A j \in 1 .. Len(SwapRemove(handles, i)) :
                     \E k \in 1 .. Len(handles) \ {i} :
                         SwapRemove(handles, i)[j] = handles[k]
              /\ \A k \in 1 .. Len(handles) \ {i} :
                     \E j \in 1 .. Len(SwapRemove(handles, i)) :
                         SwapRemove(handles, i)[j] = handles[k]
              /\ \A j, k \in 1 .. Len(SwapRemove(handles, i)) :
                     SwapRemove(handles, i)[j] = SwapRemove(handles, i)[k] => j = k
            BY <1>1, <3>1, SwapRemoveFacts
        <3>3. handles' = SwapRemove(handles, i)
            BY <2>1
        <3> QED BY <3>2, <3>3
    <2>3. DOMAIN handles' = 1 .. Len(handles')
        BY <2>2
    <2>4. /\ \A q \in Process \ {handles[i]} : reports'[q] = reports[q]
          /\ reports'[handles[i]] # "None"
        BY <1>1, <1>2, <1>4, <2>1, ExitResultFacts
    <2>5. \A q \in Process : reports'[q] # "None" => Finished(q)'
        BY <1>1, <1>2, <1>3, <2>4 DEF HandlesInv, Finished
    <2>6. ASSUME NEW q \in Process, task'[q] # "none", reports'[q] = "None"
          PROVE  q \in Handles'
        <3>1. q \in Handles /\ q # handles[i]
            BY <1>3, <1>4, <2>4, <2>6 DEF HandlesHeld
        <3>2. PICK k \in 1 .. Len(handles) \ {i} : handles[k] = q
            BY <1>4, <3>1 DEF Handles, Seqs!ToSet
        <3>3. PICK j \in 1 .. Len(handles') : handles'[j] = q
            BY <2>2, <3>2
        <3> QED BY <2>3, <3>3 DEF Handles, Seqs!ToSet
    <2>7. ASSUME NEW j \in DOMAIN handles'
          PROVE  /\ task'[handles'[j]] # "none"
                 /\ reports'[handles'[j]] = "None" \/ awaited'
        <3>1. PICK k \in 1 .. Len(handles) \ {i} : handles'[j] = handles[k]
            BY <2>2, <2>3
        <3>2. handles[k] \in Process \ {handles[i]}
            BY <1>1, <1>2, <1>4, <3>1 DEF HandlesHeld
        <3> QED BY <1>3, <1>4, <2>4, <3>1, <3>2 DEF HandlesHeld
    <2>8. HandlesHeld'
        BY <2>2, <2>3, <2>6, <2>7 DEF HandlesHeld
    <2> QED BY <1>3, <2>1, <2>5, <2>8 DEF HandlesInv
<1>6. CASE reports[handles[i]] # "None"
    <2>1. holder' = "panicked" /\ reports' = reports /\ awaited
        BY <1>2, <1>4, <1>6 DEF HandlesHeld
    <2> QED BY <1>1, <1>3, <2>1 DEF HandlesInv, Finished
<1> QED BY <1>5, <1>6

\* Every step keeps the handles as they should be.
LEMMA HandlesInvStep ==
    ASSUME SuperIInv, [SuperNext]_superVars
    PROVE  HandlesInv'
<1>a. HandlesInv /\ SuperTypeOK
    BY DEF SuperIInv
<1>1. ASSUME UNCHANGED <<holder, handleVars, task>>
      PROVE  HandlesInv'
    BY <1>1, <1>a DEF HandlesInv, HandlesHeld, Handles, Finished, handleVars
<1>2. ASSUME NEW p \in Process, TaskStep(p)
      PROVE  HandlesInv'
    <2>0. UNCHANGED <<holder, handleVars>>
        BY <1>2
           DEF TaskStep, ReturnTask, PanicTask, CancelTask, EndTask, DropInboxEarly,
               FinishTask, PollNotifier, TakeHalt, childVars, formVars
    <2>1. CASE ReturnTask(p) \/ PanicTask(p) \/ CancelTask(p)
        <3>1. /\ task[p] = "running"
              /\ \E state \in TaskStates \ {"none"} : task' = [task EXCEPT ![p] = state]
            BY <2>1
               DEF ReturnTask, PanicTask, CancelTask, EndTask, Active, TaskStates
        <3> QED BY <2>0, <3>1, HandlesTaskStep DEF Finished
    <2>2. CASE FinishTask(p)
        <3>1. /\ task[p] \in {"returning", "panicking", "cancelling"}
              /\ \E state \in TaskStates \ {"none"} : task' = [task EXCEPT ![p] = state]
            BY <2>2 DEF FinishTask, TaskStates
        <3> QED BY <2>0, <3>1, HandlesTaskStep DEF Finished
    <2>3. CASE DropInboxEarly(p) \/ PollNotifier(p) \/ TakeHalt(p)
        BY <1>1, <2>0, <2>3 DEF DropInboxEarly, PollNotifier, TakeHalt, taskVars
    <2> QED BY <1>2, <2>1, <2>2, <2>3 DEF TaskStep
<1>3. ASSUME NEW h, NEW f, Recast(h, f),
             h = "joinhandles" \/ (h = "pool" /\ holder \in {"child", "pool"})
                 \/ (h = "child" /\ holder = "child")
      PROVE  HandlesInv'
    BY <1>3, <1>a DEF Recast, HandlesInv, HandlesHeld, Handles, Finished, handleVars, taskVars
<1>4. ASSUME \/ IntoDynChild \/ IntoDynPool \/ DowncastChild \/ DowncastPool
             \/ IntoPool \/ IntoJoinhandle \/ IntoJoinhandles
      PROVE  HandlesInv'
    BY <1>3, <1>4
       DEF IntoDynChild, IntoDynPool, DowncastChild, DowncastPool, IntoPool,
           IntoJoinhandle, IntoJoinhandles
<1>5. ASSUME \/ \E l \in Links : Attach(l)
             \/ Detach \/ Halt \/ AbortChild \/ AbortPool \/ ShutdownChild
             \/ ShutdownPool \/ ShutdownFutTimeout \/ ShutdownStreamTimeout
             \/ ShutdownStreamOver \/ DropShutdown \/ AbortStep \/ Reap
      PROVE  HandlesInv'
    <2>1. UNCHANGED <<holder, handleVars, task>>
        BY <1>5
           DEF Attach, Detach, Halt, AbortChild, AbortPool, ShutdownChild, ShutdownPool,
               ShutdownFutTimeout, ShutdownStreamTimeout, ShutdownStreamOver,
               DropShutdown, AbortStep, RecordAbort, AbortHandles, Reap, childVars, formVars,
               taskVars
    <2> QED BY <1>1, <2>1
<1>6. ASSUME PollChild \/ PollPool \/ ShutdownFutReady \/ ShutdownStreamNext
      PROVE  HandlesInv'
    BY <1>6, HandlesJoinChild, HandlesJoinPool
       DEF PollChild, PollPool, ShutdownFutReady, ShutdownStreamNext
<1>7. ASSUME Drop
      PROVE  HandlesInv'
    <2>1. holder' = "dropped" /\ UNCHANGED <<reports, awaited, task>>
        BY <1>7 DEF Drop, taskVars
    <2> QED BY <1>a, <2>1 DEF HandlesInv, Finished
<1>8. ASSUME ChildStep
      PROVE  HandlesInv'
    BY <1>4, <1>5, <1>6, <1>7, <1>8, HandlesAddStep
       DEF ChildStep, ShutdownStep, Spawn, TrySpawn, DropChild, DropPool
<1>9. ASSUME UNCHANGED <<childVars, taskVars>>
      PROVE  HandlesInv'
    BY <1>1, <1>9 DEF childVars, taskVars, formVars
<1> QED BY <1>2, <1>5, <1>8, <1>9 DEF SuperNext, superVars
-----------------------------------------------------------------------------
(***************************************************************************)
(* Aborts.                                                                 *)
(***************************************************************************)
\* A queue that is closed stays so.
LEMMA ClosedStays ==
    ASSUME SuperIInv, [SuperNext]_superVars
    PROVE  closed => closed'
<1>1. InboxesHaveTasks /\ todo \in [Thread -> Seq(Op)]
    BY DEF SuperIInv, SuperTypeOK, ChannelTypeOK
<1>2. CASE ChildStep \/ AbortStep \/ Reap \/ \E p \in Process : TaskStep(p)
    BY <1>1, <1>2, ChildOnChannel
       DEF close, queueVars, channelVars, PollNotifier, TakeHalt
<1>3. ASSUME NEW c \in Caller, CallerStep(c)
      PROVE  closed => closed'
    BY <1>3
       DEF CallerStep, CallSendNow, CallClose, CallHaltSome, CallHalt, CallSpawn, close,
           queueVars
<1>4. UNCHANGED superVars => closed' = closed
    BY DEF superVars, channelVars, queueVars
<1> QED BY <1>2, <1>3, <1>4, CallStepInboxes DEF SuperNext

\* Only a step of an abort, or the method that begins one, changes what is left of it.
LEMMA AbortPending ==
    ASSUME SuperIInv, [SuperNext]_superVars, ~AbortStep
    PROVE  \/ \A op \in AbortOps : Remaining(Supervisor, op)' => Remaining(Supervisor, op)
           \/ closed' /\ ~Remaining(Supervisor, "abort_handles")'
<1>a. ChannelTypeOK /\ InboxesHaveTasks /\ todo \in [Thread -> Seq(Op)]
    BY DEF SuperIInv, SuperTypeOK, ChannelTypeOK
<1>1. ASSUME todo'[Supervisor] = todo[Supervisor]
      PROVE  \A op \in AbortOps : Remaining(Supervisor, op)' => Remaining(Supervisor, op)
    BY <1>1 DEF Remaining
<1>2. ASSUME NEW p \in Process, TaskStep(p)
      PROVE  todo'[Supervisor] = todo[Supervisor]
    BY <1>2, <1>a, TaskStepOthers, Threads
<1>3. ASSUME NEW t \in Thread, CallStep(t)
      PROVE  \A op \in AbortOps : Remaining(Supervisor, op)' => Remaining(Supervisor, op)
    BY <1>3, <1>a, CallStepAborts
<1>4. ASSUME NEW c \in Caller, CallerStep(c)
      PROVE  todo'[Supervisor] = todo[Supervisor]
    BY <1>4, <1>a, CallerStepOthers, SupervisionAssumption
<1>5. ASSUME NEW rest \in {<<"record_abort">>, <<"halt_some_max">>}, close(Supervisor, rest)
      PROVE  closed' /\ ~Remaining(Supervisor, "abort_handles")'
    <2>1. rest \in Seq(Op) /\ ~Seqs!Contains(rest, "abort_handles")
        <3>1. /\ ~Seqs!Contains(<<"record_abort">>, "abort_handles")
              /\ ~Seqs!Contains(<<"halt_some_max">>, "abort_handles")
            BY ContainsOne
        <3> QED BY <1>5, <3>1, Threads
    <2>2. /\ <<"recv_notify_all", "send_notify_all">> \o rest \in Seq(Op)
          /\ ~Seqs!Contains(<<"recv_notify_all", "send_notify_all">> \o rest,
                            "abort_handles")
        BY <2>1, ContainsCons2 DEF Op
    <2>3. PICK ops \in Seq(Op) : /\ Continue(Supervisor, ops)
                                 /\ ~Seqs!Contains(ops, "abort_handles")
        BY <1>5, <2>1, <2>2 DEF close
    <2>4. closed' = TRUE
        BY <1>5 DEF close
    <2> QED BY <1>a, <2>3, <2>4, ContinueFacts, Threads
<1>6. CASE ChildStep \/ Reap
    <2>1. todo[Supervisor] = <<>>
        BY <1>6, ChildStepHeld DEF Held, Reap
    <2>2. ASSUME NEW p \in Process, remove_inbox(p)
          PROVE  todo'[Supervisor] = todo[Supervisor]
        BY <1>a, <2>2, SupervisionAssumption DEF remove_inbox, Continue
    <2> QED BY <1>a, <1>1, <1>2, <1>5, <1>6, <2>1, <2>2, ChildOnChannel
            DEF channelVars, PollNotifier, TakeHalt
<1>7. UNCHANGED superVars => todo' = todo
    BY DEF superVars, channelVars
<1> QED BY <1>1, <1>2, <1>3, <1>4, <1>6, <1>7 DEF SuperNext

\* Every step keeps the steps of an abort in order.
LEMMA AbortsOrderedStep ==
    ASSUME SuperIInv, [SuperNext]_superVars
    PROVE  AbortsOrdered'
<1>a. AbortsOrdered /\ (closed => closed')
    BY ClosedStays DEF SuperIInv
<1>1. ASSUME ~AbortStep, is_aborted' = is_aborted,
             reaper' # {} \/ cancel' # {} => closed'
      PROVE  AbortsOrdered'
    BY <1>a, <1>1, AbortPending DEF AbortsOrdered, AbortOps
<1>2. ASSUME ~AbortStep, UNCHANGED <<is_aborted, reaper, cancel>>
      PROVE  AbortsOrdered'
    BY <1>a, <1>1, <1>2 DEF AbortsOrdered
<1>3. ASSUME AbortStep
      PROVE  AbortsOrdered'
    <2>1. todo \in [Thread -> Seq(Op)]
        BY DEF SuperIInv, SuperTypeOK, ChannelTypeOK
    <2>2. CASE RecordAbort
        <3>1. /\ todo[Supervisor] # <<>> /\ Head(todo[Supervisor]) = "record_abort"
              /\ UNCHANGED <<reaper, cancel>> /\ is_aborted' = TRUE
            BY <2>2 DEF RecordAbort, Pending, shutdownVars, taskVars
        <3>2. Remaining(Supervisor, "record_abort")
            BY <2>1, <3>1, ContainsTail, Threads DEF Remaining
        <3> QED BY <1>a, <3>1, <3>2 DEF AbortsOrdered
    <2>3. CASE AbortHandles
        <3>1. /\ todo[Supervisor] # <<>> /\ Head(todo[Supervisor]) = "abort_handles"
              /\ UNCHANGED <<reaper, is_aborted>>
            BY <2>3 DEF AbortHandles, Pending, childVars, linkVars, shutdownVars
        <3>2. Remaining(Supervisor, "abort_handles")
            BY <2>1, <3>1, ContainsTail, Threads DEF Remaining
        <3> QED BY <1>a, <3>1, <3>2 DEF AbortsOrdered
    <2> QED BY <1>3, <2>2, <2>3 DEF AbortStep
<1>4. ASSUME \/ \E p \in Process : TaskStep(p)
             \/ UNCHANGED <<childVars, taskVars>>
      PROVE  UNCHANGED <<is_aborted, reaper, cancel>>
    BY <1>4
       DEF TaskStep, ReturnTask, PanicTask, CancelTask, EndTask, DropInboxEarly, FinishTask,
           PollNotifier, TakeHalt, childVars, linkVars, shutdownVars, taskVars
<1>5. ASSUME ChildStep
      PROVE  /\ is_aborted' = is_aborted
             /\ reaper' # {} \/ cancel' # {} => closed'
    <2>1. UNCHANGED <<is_aborted, cancel>> /\ (reaper' = reaper \/ closed')
        BY <1>5, ChildStepAborts
    <2> QED BY <1>a, <2>1 DEF AbortsOrdered
<1>6. ASSUME Reap
      PROVE  /\ is_aborted' = is_aborted
             /\ reaper' # {} \/ cancel' # {} => closed'
    <2>1. is_aborted' = is_aborted /\ reaper # {}
        BY <1>6 DEF Reap, linkVars
    <2> QED BY <1>a, <2>1 DEF AbortsOrdered
<1>7. UNCHANGED superVars => UNCHANGED <<childVars, taskVars>>
    BY DEF superVars
<1> QED BY <1>1, <1>2, <1>3, <1>4, <1>5, <1>6, <1>7 DEF SuperNext

\* An output that is read is that of an aborted task only if there is one.
LEMMA AbortsJoinStep ==
    ASSUME SuperIInv, JoinChild \/ JoinPool,
           UNCHANGED <<is_aborted, reaper, cancel, task>>
    PROVE  AbortsInv'
<1>1. /\ handles \in Seq(Process) /\ HandlesInv /\ AbortsInv
      /\ reports \in [Process -> {"None", "Ok", "Panic", "Abort"}]
    BY DEF SuperIInv, SuperTypeOK
<1>2. /\ holder \in {"child", "pool"} /\ holder' \in {holder, "panicked"}
      /\ reports' = reports
         \/ \E p \in Process : /\ Finished(p)
                               /\ reports' = [reports EXCEPT ![p] = ExitResult(p)]
    <2>1. CASE JoinChild
        <3>1. Len(handles) = 1 /\ Finished(handles[1]) /\ holder = "child"
            BY <1>1, <2>1 DEF JoinChild, HandlesInv
        <3>2. handles[1] \in Process
            BY <1>1, <3>1
        <3> QED BY <2>1, <3>1, <3>2 DEF JoinChild
    <2>2. CASE JoinPool
        <3>1. \A i \in DOMAIN handles : handles[i] \in Process
            BY <1>1
        <3> QED BY <2>2, <3>1 DEF JoinPool, TakeOutput
    <2> QED BY <2>1, <2>2
<1>3. (\E p \in Process : reports'[p] = "Abort") => is_aborted
    <2>1. SUFFICES ASSUME NEW q \in Process, reports'[q] = "Abort"
                   PROVE  is_aborted
        OBVIOUS
    <2>2. CASE reports[q] = "Abort"
        BY <1>1, <2>2 DEF AbortsInv
    <2>3. CASE reports[q] # "Abort"
        <3>1. PICK p \in Process : /\ Finished(p)
                                   /\ reports' = [reports EXCEPT ![p] = ExitResult(p)]
            BY <1>2, <2>1, <2>3
        <3>2. ExitResult(p) = "Abort"
            BY <1>1, <2>1, <2>3, <3>1
        <3>3. task[p] = "cancelled"
            BY <3>1, <3>2, ExitResultFacts
        <3> QED BY <1>1, <1>2, <3>3 DEF AbortsInv
    <2> QED BY <2>2, <2>3
<1>4. /\ reaper = {}
      /\ cancel # {} => is_aborted
    BY <1>1, <1>2 DEF AbortsInv
<1> QED BY <1>1, <1>3, <1>4 DEF AbortsInv

\* Every step keeps the aborts explained.
LEMMA AbortsInvStep ==
    ASSUME SuperIInv, [SuperNext]_superVars
    PROVE  AbortsInv'
<1>a. AbortsInv /\ SuperTypeOK
    BY DEF SuperIInv
<1>1. ASSUME UNCHANGED <<is_aborted, reaper, cancel, task, reports>>,
             holder' = holder \/ (holder # "dropped" /\ holder' # "dropped")
      PROVE  AbortsInv'
    BY <1>1, <1>a DEF AbortsInv
<1>2. ASSUME NEW p \in Process, TaskStep(p)
      PROVE  AbortsInv'
    <2>1. UNCHANGED <<is_aborted, reaper, cancel, reports, holder>>
        BY <1>2
           DEF TaskStep, ReturnTask, PanicTask, CancelTask, EndTask, DropInboxEarly,
               FinishTask, PollNotifier, TakeHalt, childVars, formVars, linkVars,
               handleVars, shutdownVars, taskVars
    <2>2. ASSUME NEW q \in Process, task'[q] \in {"cancelling", "cancelled"}
          PROVE  q \in cancel
        <3>1. CASE task'[q] = task[q]
            BY <1>a, <2>2, <3>1 DEF AbortsInv
        <3>2. CASE task'[q] # task[q]
            <4>1. \/ CancelTask(p) /\ q = p
                  \/ FinishTask(p) /\ q = p /\ task[p] = "cancelling"
                BY <1>2, <1>a, <2>2, <3>2
                   DEF TaskStep, ReturnTask, PanicTask, CancelTask, EndTask,
                       DropInboxEarly, FinishTask, PollNotifier, TakeHalt, taskVars,
                       SuperTypeOK
            <4> QED BY <1>a, <4>1 DEF CancelTask, AbortsInv
        <3> QED BY <3>1, <3>2
    <2> QED BY <1>a, <2>1, <2>2 DEF AbortsInv
<1>3. ASSUME \/ \E l \in Links : Attach(l)
             \/ Detach \/ Halt \/ ShutdownChild \/ ShutdownPool
             \/ ShutdownStreamOver \/ DropShutdown
      PROVE  AbortsInv'
    <2>1. UNCHANGED <<is_aborted, reaper, cancel, task, reports, holder>>
        BY <1>3
           DEF Attach, Detach, Halt, ShutdownChild, ShutdownPool, ShutdownStreamOver,
               DropShutdown, formVars, linkVars, handleVars, shutdownVars, taskVars
    <2> QED BY <1>1, <2>1
<1>4. ASSUME \/ IntoDynChild \/ IntoDynPool \/ DowncastChild \/ DowncastPool
             \/ IntoPool \/ IntoJoinhandle \/ IntoJoinhandles
      PROVE  AbortsInv'
    <2>1. /\ UNCHANGED <<is_aborted, reaper, cancel, task, reports>>
          /\ holder \in {"child", "pool"}
          /\ holder' \in {"child", "pool", "joinhandles"}
        BY <1>4
           DEF IntoDynChild, IntoDynPool, DowncastChild, DowncastPool, IntoPool,
               IntoJoinhandle, IntoJoinhandles, Recast, linkVars, handleVars,
               shutdownVars, taskVars
    <2> QED BY <1>1, <2>1
<1>5. ASSUME AbortChild \/ AbortPool \/ ShutdownFutTimeout \/ ShutdownStreamTimeout
      PROVE  AbortsInv'
    <2>1. UNCHANGED <<is_aborted, reaper, cancel, task, reports, holder>>
        BY <1>5
           DEF AbortChild, AbortPool, ShutdownFutTimeout, ShutdownStreamTimeout, childVars,
               formVars, linkVars, handleVars, shutdownVars, taskVars
    <2> QED BY <1>1, <2>1
<1>6. ASSUME PollChild \/ PollPool \/ ShutdownFutReady \/ ShutdownStreamNext
      PROVE  AbortsInv'
    <2>1. /\ JoinChild \/ JoinPool
          /\ UNCHANGED <<is_aborted, reaper, cancel, task>>
        BY <1>6
           DEF PollChild, PollPool, ShutdownFutReady, ShutdownStreamNext, JoinChild,
               JoinPool, linkVars, taskVars
    <2> QED BY <2>1, AbortsJoinStep
<1>7. ASSUME NEW p \in Process, AddProcess(p)
      PROVE  AbortsInv'
    <2>1. /\ UNCHANGED <<is_aborted, reaper, cancel, reports, holder>>
          /\ task' = [task EXCEPT ![p] = "running"]
        BY <1>7 DEF AddProcess, formVars, linkVars, shutdownVars
    <2>2. \A q \in Process : task'[q] \in {"cancelling", "cancelled"} => task'[q] = task[q]
        BY <1>a, <2>1 DEF SuperTypeOK
    <2> QED BY <1>a, <2>1, <2>2 DEF AbortsInv
<1>8. ASSUME Drop
      PROVE  AbortsInv'
    <2>1. holder' = "dropped" /\ UNCHANGED <<is_aborted, cancel, task, reports>>
        BY <1>8 DEF Drop, linkVars, taskVars
    <2> QED BY <1>a, <2>1 DEF AbortsInv
<1>9. ASSUME Reap
      PROVE  AbortsInv'
    <2>1. /\ reaper # {} /\ reaper' = {} /\ cancel \subseteq cancel'
          /\ UNCHANGED <<is_aborted, task, reports, holder>>
        BY <1>9 DEF Reap, formVars, linkVars, handleVars
    <2> QED BY <1>a, <2>1 DEF AbortsInv
<1>10. ASSUME ChildStep
       PROVE  AbortsInv'
    BY <1>3, <1>4, <1>5, <1>6, <1>7, <1>8, <1>10
       DEF ChildStep, ShutdownStep, Spawn, TrySpawn, DropChild, DropPool
<1>11. ASSUME UNCHANGED <<childVars, taskVars>>
       PROVE  AbortsInv'
    BY <1>1, <1>11
       DEF childVars, taskVars, formVars, linkVars, handleVars, shutdownVars
<1>12. ASSUME RecordAbort
       PROVE  AbortsInv'
    <2>1. is_aborted' = TRUE /\ UNCHANGED <<holder, reaper, cancel, task, reports>>
        BY <1>12 DEF RecordAbort, formVars, handleVars, shutdownVars, taskVars
    <2> QED BY <1>a, <2>1 DEF AbortsInv
<1>13. ASSUME AbortHandles
       PROVE  AbortsInv'
    <2>1. /\ cancel \subseteq cancel'
          /\ UNCHANGED <<is_aborted, holder, reaper, task, reports>>
        BY <1>13
           DEF AbortHandles, childVars, formVars, linkVars, handleVars, shutdownVars
    <2>2. is_aborted
        <3>1. todo[Supervisor] # <<>> /\ Head(todo[Supervisor]) = "abort_handles"
            BY <1>13 DEF AbortHandles, Pending
        <3>2. Remaining(Supervisor, "abort_handles")
            BY <1>a, <3>1, ContainsTail, Threads DEF Remaining, SuperTypeOK, ChannelTypeOK
        <3> QED BY <3>2 DEF SuperIInv, AbortsOrdered
    <2> QED BY <1>a, <2>1, <2>2 DEF AbortsInv
<1> QED BY <1>2, <1>9, <1>10, <1>11, <1>12, <1>13 DEF SuperNext, AbortStep, superVars
-----------------------------------------------------------------------------
(***************************************************************************)
(* The decrements of the notifiers.                                        *)
(***************************************************************************)
\* Every step keeps a task behind every decrement that finds no halt.
LEMMA NotifierDebtStep ==
    ASSUME SuperIInv, [SuperNext]_superVars
    PROVE  NotifierDebtBounded'
<1>a. /\ ChannelTypeOK /\ SuperTypeOK /\ NotifierDebtBounded
      /\ halt_count \in Int
    BY DEF SuperIInv, SuperTypeOK, ChannelTypeOK
<1>b. /\ DecidingTasks \subseteq Process /\ IsFiniteSet(DecidingTasks)
      /\ Cardinality(DecidingTasks) \in Nat /\ Cardinality(Process) \in Nat
    BY LiveFinite, FS_Subset, FS_CardinalityType DEF DecidingTasks
<1>1. ASSUME UNCHANGED notifier, halt_count' \in Int, halt_count' >= halt_count
      PROVE  NotifierDebtBounded'
    <2>1. DecidingTasks' = DecidingTasks
        BY <1>1 DEF DecidingTasks
    <2> QED BY <1>a, <1>b, <1>1, <2>1 DEF NotifierDebtBounded
<1>c. halt_count' \in Int
    BY SuperChannelTypeStep DEF ChannelTypeOK
<1>2. ASSUME NEW t \in Thread, CallStep(t) \/ (t \in Caller /\ CallerStep(t)),
             UNCHANGED <<childVars, taskVars>>
      PROVE  NotifierDebtBounded'
    BY <1>1, <1>2, <1>a, <1>c, HaltsOnlyAdded DEF taskVars
<1>3. ASSUME NEW p \in Process, PollNotifier(p)
      PROVE  NotifierDebtBounded'
    <2>1. /\ DecidingTasks' = DecidingTasks \cup {p} /\ p \in Process
          /\ halt_count' = halt_count /\ halt_count > 0
        BY <1>3, <1>a
           DEF PollNotifier, DecidingTasks, SuperTypeOK, channelVars, haltVars
    <2>2. DecidingTasks' \subseteq Process
        BY <1>b, <2>1
    <2>3. /\ Cardinality(DecidingTasks') <= Cardinality(Process)
          /\ Cardinality(DecidingTasks') \in Nat
        BY <2>2, LiveFinite, FS_Subset, FS_CardinalityType
    <2> QED BY <1>a, <1>b, <2>1, <2>3 DEF NotifierDebtBounded
<1>4. ASSUME NEW p \in Process, TakeHalt(p)
      PROVE  NotifierDebtBounded'
    BY <1>4, <1>a, <1>b, TakeHaltInRange DEF NotifierDebtBounded
<1>5. ASSUME UNCHANGED <<notifier, halt_count>>
      PROVE  NotifierDebtBounded'
    BY <1>1, <1>5, <1>a, <1>c
<1>6. CASE ChildStep \/ AbortStep \/ Reap \/ \E p \in Process : TaskStep(p)
    <2>1. InboxesHaveTasks /\ todo \in [Thread -> Seq(Op)]
        BY <1>a DEF SuperIInv, ChannelTypeOK
    <2> QED BY <1>3, <1>4, <1>5, <1>6, <2>1, ChildOnChannel DEF haltVars, channelVars
<1>7. UNCHANGED superVars => UNCHANGED <<notifier, halt_count>>
    BY DEF superVars, channelVars, haltVars, taskVars
<1> QED BY <1>2, <1>5, <1>6, <1>7, Threads DEF SuperNext
-----------------------------------------------------------------------------
(***************************************************************************)
(* The exit.                                                               *)
(***************************************************************************)
\* However a task ends, what the destructor of the last inbox relies on is kept: of
\* a call of the supervisor too, which drains nothing.
LEMMA SuperExitStep ==
    ASSUME SuperIInv, [SuperNext]_superVars
    PROVE  ExitInv'
<1>a. /\ ChannelTypeOK /\ ExitInv /\ InboxesHaveTasks /\ inbox_count = Cardinality(Live)
    BY DEF SuperIInv, SuperTypeOK, InboxesHaveTasks
<1>b. todo \in [Thread -> Seq(Op)] /\ ~Remaining(Supervisor, "drain")
    BY <1>a, Threads DEF ChannelTypeOK, ExitInv
<1>1. ASSUME NEW rest \in {<<"record_abort">>, <<"halt_some_max">>},
             close(Supervisor, rest), UNCHANGED <<queue, inboxVars>>
      PROVE  ExitInv'
    <2>1. rest \in Seq(Op) /\ ~Seqs!Contains(rest, "drain")
        <3>1. /\ ~Seqs!Contains(<<"record_abort">>, "drain")
              /\ ~Seqs!Contains(<<"halt_some_max">>, "drain")
            BY ContainsOne
        <3> QED BY <1>1, <3>1, Threads
    <2>2. /\ <<"recv_notify_all", "send_notify_all">> \o rest \in Seq(Op)
          /\ ~Seqs!Contains(<<"recv_notify_all", "send_notify_all">> \o rest, "drain")
        BY <2>1, ContainsCons2 DEF Op
    <2>3. PICK ops \in Seq(Op) : /\ Continue(Supervisor, ops)
                                 /\ ~Seqs!Contains(ops, "drain")
        BY <1>1, <2>1, <2>2 DEF close
    <2>4. closed' = TRUE /\ Live' = Live
        BY <1>1 DEF close, inboxVars, Live
    <2> QED BY <1>a, <1>b, <1>1, <2>3, <2>4, Threads, ExitInvOther
<1>6. ASSUME NEW ops \in Seq(Op), Continue(Supervisor, ops),
             \A op : op \notin AbortOps => (Seqs!Contains(ops, op) <=> Remaining(Supervisor, op)),
             UNCHANGED <<queueVars, inboxVars>>
      PROVE  ExitInv'
    <2>1. ~Seqs!Contains(ops, "drain")
        BY <1>b, <1>6 DEF AbortOps
    <2>2. UNCHANGED <<queue, closed, Live>>
        BY <1>6 DEF queueVars, inboxVars, Live
    <2> QED BY <1>a, <1>b, <1>6, <2>1, <2>2, Threads, ExitInvOther
<1>2. ASSUME NEW p \in Process, try_add_inbox(p), inbox[p] = "none",
             UNCHANGED <<queueVars, todo>>
      PROVE  ExitInv'
    <2>1. Live' = Live \cup {p}
        BY <1>a, <1>2, LiveAdded DEF try_add_inbox, ChannelTypeOK
    <2> QED BY <1>a, <1>2, <2>1, ExitInvFrame
<1>3. ASSUME UNCHANGED <<queueVars, todo, inboxVars>>
      PROVE  ExitInv'
    BY <1>a, <1>3, ExitInvFrame DEF inboxVars, Live
<1>4. CASE ChildStep \/ AbortStep \/ Reap \/ \E p \in Process : TaskStep(p)
    BY <1>a, <1>b, <1>1, <1>2, <1>3, <1>4, <1>6, ExitInvRemove, ChildOnChannel
       DEF channelVars, TakeHalt, PollNotifier
<1>5. UNCHANGED superVars => UNCHANGED <<queueVars, todo, inboxVars>>
    BY DEF superVars, channelVars
<1> QED BY <1>a, <1>3, <1>4, <1>5, ExitInvCallStep, ExitInvCallerStep DEF SuperNext
-----------------------------------------------------------------------------
(***************************************************************************)
(* The theorems.                                                           *)
(***************************************************************************)
LEMMA SuperInit_SuperIInv == SuperInit => SuperIInv
<1> SUFFICES ASSUME SuperInit PROVE SuperIInv
    OBVIOUS
<1>a. /\ I32Max \in Nat /\ InitialProcess \subseteq Process /\ MaxCalls \in Nat
      /\ MaxHalts \in Nat /\ FirstHandles \in Seq(Process)
      /\ Links \subseteq {"detached", "zero", "timer"} /\ Kinds \subseteq {"process", "task"}
    BY ChannelAssumption, SupervisionAssumption
<1>b. Live = InitialProcess /\ DecidingTasks = {}
    BY <1>a DEF SuperInit, ChannelInit, Live, DecidingTasks
<1>c. /\ Cardinality(Live) \in Nat /\ inbox_count = Cardinality(Live)
      /\ Cardinality(DecidingTasks) = 0 /\ Cardinality(Process) \in Nat
    BY <1>b, LiveFinite, FS_EmptySet DEF SuperInit, ChannelInit, ChannelNew
<1>1. ChannelTypeOK
    <2>1. NewEvent \in EventType(Thread) /\ <<>> \in Seq(Thread) /\ <<>> \in Seq(Op)
        BY DEF NewEvent, EventType
    <2>2. inbox \in [Process -> {"none", "live", "dropped"}]
        BY DEF SuperInit, ChannelInit
    <2>3. halt_count \in -I32Max .. I32Max
        BY <1>a DEF SuperInit, ChannelInit, ChannelNew
    <2>4. /\ queue = <<>> /\ closed = FALSE /\ granted = 0
          /\ recv_event = NewEvent /\ send_event = NewEvent /\ exit_event = NewEvent
          /\ todo = [t \in Thread |-> <<>>]
          /\ calls = [c \in Caller |-> 0]
        BY DEF SuperInit, ChannelInit, ChannelNew
    <2>5. todo \in [Thread -> Seq(Op)] /\ calls \in [Caller -> 0 .. MaxCalls]
        BY <1>a, <2>1, <2>4
    <2> QED BY <1>c, <2>1, <2>2, <2>3, <2>4, <2>5 DEF ChannelTypeOK
<1>2. SuperTypeOK
    <2>1. /\ holder \in {"child", "pool"} /\ form \in {"typed", "dyn"}
          /\ link \in {"detached", "zero", "timer"} /\ kind \in {"process", "task"}
        BY <1>a DEF SuperInit
    <2>2. /\ task \in [Process -> TaskStates]
          /\ reports \in [Process -> {"None", "Ok", "Panic", "Abort"}]
          /\ notifier \in [Process -> {"waiting", "deciding", "ready"}]
        BY DEF SuperInit, TaskStates
    <2>3. /\ is_aborted = FALSE /\ handles = FirstHandles /\ awaited = FALSE
          /\ shutdown = "none" /\ halts = 0 /\ reaper = {} /\ cancel = {} /\ late = {}
        BY DEF SuperInit
    <2>4. halts \in 0 .. MaxHalts /\ handles \in Seq(Process)
        BY <1>a, <2>3
    <2>5. /\ is_aborted \in BOOLEAN /\ awaited \in BOOLEAN
          /\ shutdown \in {"none", "sleep", "no_sleep"}
          /\ reaper \subseteq Process /\ cancel \subseteq Process /\ late \subseteq Process
        BY <2>3
    <2>6. holder \in {"child", "pool", "joinhandles", "dropped", "panicked"}
        BY <2>1
    <2> QED BY <1>1, <2>1, <2>2, <2>4, <2>5, <2>6 DEF SuperTypeOK
<1>3. InboxesHaveTasks
    BY <1>c DEF SuperInit, ChannelInit, InboxesHaveTasks
<1>4. HandlesInv
    <2>1. /\ Seqs!ToSet(FirstHandles) = InitialProcess
          /\ Len(FirstHandles) = Cardinality(InitialProcess)
        BY SupervisionAssumption
    <2>2. \A i, j \in 1 .. Len(FirstHandles) :
              FirstHandles[i] = FirstHandles[j] => i = j
        BY <1>a, <2>1, LiveFinite, LengthIsCardinality
    <2>3. /\ DOMAIN FirstHandles = 1 .. Len(FirstHandles)
          /\ \A i \in DOMAIN FirstHandles : FirstHandles[i] \in InitialProcess
        BY <1>a, <2>1 DEF Seqs!ToSet
    <2>4. HandlesHeld
        BY <1>a, <2>1, <2>2, <2>3 DEF SuperInit, HandlesHeld, Handles
    <2> QED BY <2>4 DEF SuperInit, HandlesInv
<1>5. AbortsOrdered /\ AbortsInv
    BY ContainsNone, Threads
       DEF SuperInit, ChannelInit, ChannelNew, Remaining, AbortsOrdered, AbortsInv
<1>6. NotifierDebtBounded
    BY <1>c DEF SuperInit, ChannelInit, ChannelNew, NotifierDebtBounded
<1>7. ExitInv
    <2>1. \A t \in Thread : ~Remaining(t, "drain")
        BY ContainsNone DEF SuperInit, ChannelInit, ChannelNew, Remaining
    <2>2. Live # {}
        BY <1>b, ChannelAssumption
    <2> QED BY <2>1, <2>2 DEF ExitInv
<1> QED BY <1>2, <1>3, <1>4, <1>5, <1>6, <1>7 DEF SuperIInv

LEMMA SuperIInvStep == ASSUME SuperIInv, [SuperNext]_superVars PROVE SuperIInv'
BY SuperTypeStep, InboxesHaveTasksStep, HandlesInvStep, AbortsOrderedStep, AbortsInvStep,
   NotifierDebtStep, SuperExitStep
   DEF SuperIInv

\* SuperIInv is inductive.
THEOREM SuperInductiveInvariant == SuperSpec => []SuperIInv
<1>1. SuperInit => SuperIInv
    BY SuperInit_SuperIInv
<1>2. SuperIInv /\ [SuperNext]_superVars => SuperIInv'
    BY SuperIInvStep
<1> QED BY <1>1, <1>2, PTL DEF SuperSpec

\* Every variable of a child, its tasks and its channel has its type; a decrement of
\* halt_count by a HaltNotifier is in the range of an i32.
THEOREM SuperTypeCorrect == SuperSpec => []SuperTypeOK
<1>1. SuperIInv => SuperTypeOK
    BY DEF SuperIInv
<1> QED BY <1>1, SuperInductiveInvariant, PTL

\* A pool loses the exit of no task, however its handles were reordered, and no
\* handle is polled after its end except by a user who awaited the child before.
THEOREM ExitsKept == SuperSpec => []NoExitLost
<1>1. SuperIInv => NoExitLost
    <2> SUFFICES ASSUME SuperIInv PROVE NoExitLost
        OBVIOUS
    <2>1. handles \in Seq(Process) /\ HandlesInv /\ DOMAIN handles = 1 .. Len(handles)
        BY DEF SuperIInv, SuperTypeOK
    <2>2. CASE holder = "pool"
        <3>1. HandlesHeld
            BY <2>1, <2>2 DEF HandlesInv
        <3>2. Len(handles) = Cardinality(Handles)
            BY <2>1, <3>1, LiveFinite, LengthIsCardinality DEF HandlesHeld, Handles
        <3> QED BY <2>2, <3>1, <3>2 DEF NoExitLost, HandlesHeld
    <2>3. CASE holder # "pool"
        BY <2>1, <2>3 DEF NoExitLost, HandlesInv
    <2> QED BY <2>2, <2>3
<1> QED BY <1>1, SuperInductiveInvariant, PTL

\* No task is aborted before the channel is closed and the abort recorded, and none
\* without a child that knows of it.
THEOREM AbortsExplained == SuperSpec => []AbortIsExplained
<1>1. SuperIInv => AbortIsExplained
    BY DEF SuperIInv, AbortsOrdered, AbortsInv, AbortIsExplained
<1> QED BY <1>1, SuperInductiveInvariant, PTL

\* process_count does not exceed task_count while there is a child or a pool.
THEOREM ProcessesAreTasks == SuperSpec => []ProcessesHaveTasks
<1>1. SuperIInv => ProcessesHaveTasks
    <2> SUFFICES ASSUME SuperIInv, holder \in {"child", "pool"}
                 PROVE  inbox_count <= task_count
        BY DEF ProcessesHaveTasks
    <2> DEFINE alive == {p \in Handles : ~Finished(p)}
    <2>1. /\ HandlesInv /\ HandlesHeld /\ InboxesHaveTasks /\ handles \in Seq(Process)
          /\ reports \in [Process -> {"None", "Ok", "Panic", "Abort"}]
        BY DEF SuperIInv, SuperTypeOK, HandlesInv
    <2>2. ASSUME NEW p \in Live
          PROVE  p \in alive
        <3>1. p \in Process /\ task[p] = "running"
            BY <2>1 DEF Live, InboxesHaveTasks
        <3>2. reports[p] = "None"
            BY <2>1, <3>1 DEF HandlesInv, Finished
        <3> QED BY <2>1, <3>1, <3>2 DEF HandlesHeld, Finished
    <2>3. alive \subseteq Process
        BY <2>1 DEF Handles, Seqs!ToSet
    <2>4. Cardinality(Live) <= Cardinality(alive)
        BY <2>2, <2>3, LiveFinite, FS_Subset
    <2> QED BY <2>1, <2>4 DEF InboxesHaveTasks, task_count
<1> QED BY <1>1, SuperInductiveInvariant, PTL

\* A child that was dropped keeps its link; only the drop of an attached one leaves
\* something to a reaper or to a call.
LEMMA DroppedStep ==
    ASSUME SuperIInv, DropAttached, [SuperNext]_superVars
    PROVE  /\ DropAttached'
           /\ holder' = "dropped" /\ link = "detached" =>
                  /\ cancel' = cancel /\ todo'[Supervisor] = <<>>
                  /\ holder # "dropped" => UNCHANGED channelVars
<1> DEFINE Goal == /\ DropAttached'
                   /\ holder' = "dropped" /\ link = "detached" =>
                          /\ cancel' = cancel /\ todo'[Supervisor] = <<>>
                          /\ holder # "dropped" => UNCHANGED channelVars
<1>a. ChannelTypeOK /\ todo \in [Thread -> Seq(Op)]
    BY DEF SuperIInv, SuperTypeOK, ChannelTypeOK
<1>1. ASSUME UNCHANGED <<holder, link, reaper, cancel>>,
             todo[Supervisor] = <<>> => todo'[Supervisor] = <<>>
      PROVE  Goal
    BY <1>1 DEF DropAttached
<1>2. ASSUME NEW p \in Process, TaskStep(p)
      PROVE  Goal
    <2>1. UNCHANGED <<holder, link, reaper, cancel>>
        BY <1>2
           DEF TaskStep, ReturnTask, PanicTask, CancelTask, EndTask, DropInboxEarly,
               FinishTask, PollNotifier, TakeHalt, childVars, formVars, linkVars,
               shutdownVars, taskVars
    <2>2. todo'[Supervisor] = todo[Supervisor]
        BY <1>a, <1>2, TaskStepOthers, Threads
    <2> QED BY <1>1, <2>1, <2>2
<1>3. ASSUME Reap
      PROVE  Goal
    <2>1. reaper # {} /\ reaper' = {} /\ UNCHANGED <<holder, link>>
        BY <1>3 DEF Reap, formVars, linkVars
    <2> QED BY <2>1 DEF DropAttached
<1>4. ASSUME Drop
      PROVE  Goal
    <2>1. /\ holder' = "dropped" /\ UNCHANGED <<link, cancel>> /\ holder \in {"child", "pool"}
          /\ todo[Supervisor] = <<>>
          /\ link = "detached" => UNCHANGED <<closed, todo, reaper>>
        BY <1>4 DEF Drop, ActsOnDrop, Free, Held, linkVars, taskVars
    <2>2. link = "detached" => UNCHANGED channelVars
        BY <1>4, <2>1 DEF Drop, channelVars, queueVars
    <2> QED BY <2>1, <2>2 DEF DropAttached
<1>5. ASSUME ChildStep, ~DropChild, ~DropPool
      PROVE  /\ holder \in {"child", "pool"} /\ holder' # "dropped" /\ reaper' = reaper
    <2>1. CASE \/ \E l \in Links : Attach(l)
               \/ Detach \/ Halt \/ ShutdownChild \/ ShutdownPool
               \/ ShutdownStreamOver \/ DropShutdown
        BY <2>1
           DEF Attach, Detach, Halt, ShutdownChild, ShutdownPool, ShutdownStreamOver,
               DropShutdown, Free, Held, formVars, shutdownVars
    <2>2. CASE \/ IntoDynChild \/ IntoDynPool \/ DowncastChild \/ DowncastPool
               \/ IntoPool \/ IntoJoinhandle \/ IntoJoinhandles
        BY <2>2
           DEF IntoDynChild, IntoDynPool, DowncastChild, DowncastPool, IntoPool,
               IntoJoinhandle, IntoJoinhandles, Recast, Free, Held, shutdownVars
    <2>3. CASE AbortChild \/ AbortPool \/ ShutdownFutTimeout \/ ShutdownStreamTimeout
        BY <2>3
           DEF AbortChild, AbortPool, ShutdownFutTimeout, ShutdownStreamTimeout, Free, Held,
               childVars, formVars, shutdownVars
    <2>4. CASE PollChild \/ PollPool \/ ShutdownFutReady \/ ShutdownStreamNext
        BY <2>4
           DEF PollChild, PollPool, ShutdownFutReady, ShutdownStreamNext, JoinChild, JoinPool,
               Free, Held
    <2>5. ASSUME NEW p \in Process, AddProcess(p)
          PROVE  holder \in {"child", "pool"} /\ holder' # "dropped" /\ reaper' = reaper
        BY <2>5 DEF AddProcess, Free, Held, formVars, shutdownVars
    <2> QED BY <1>5, <2>1, <2>2, <2>3, <2>4, <2>5 DEF ChildStep, ShutdownStep, Spawn, TrySpawn
<1>6. UNCHANGED <<childVars, taskVars>> => UNCHANGED <<holder, link, reaper, cancel>>
    BY DEF childVars, taskVars, formVars, linkVars, shutdownVars
<1>7. UNCHANGED superVars => UNCHANGED <<childVars, taskVars, todo>>
    BY DEF superVars, channelVars
<1>8. CASE ChildStep /\ ~DropChild /\ ~DropPool
    BY <1>5, <1>8 DEF DropAttached
<1>9. CASE DropChild \/ DropPool
    BY <1>4, <1>9 DEF DropChild, DropPool
<1>10. ASSUME AbortStep
       PROVE  Goal
    <2>1. /\ todo[Supervisor] # <<>> /\ UNCHANGED <<holder, link, reaper>>
        BY <1>10, AbortOnChannel, <1>a
           DEF AbortStep, RecordAbort, AbortHandles, Pending, formVars, shutdownVars
    <2> QED BY <2>1 DEF DropAttached
<1>11. ASSUME NEW t \in Thread, CallStep(t), UNCHANGED <<childVars, taskVars>>
       PROVE  Goal
    <2>1. todo[Supervisor] = <<>> => todo'[Supervisor] = <<>>
        BY <1>a, <1>11, CallStepOthers, Threads
    <2> QED BY <1>1, <1>6, <1>11, <2>1
<1>12. ASSUME NEW c \in Caller, CallerStep(c), UNCHANGED <<childVars, taskVars>>
       PROVE  Goal
    <2>1. todo'[Supervisor] = todo[Supervisor]
        BY <1>a, <1>12, CallerStepOthers, SupervisionAssumption
    <2> QED BY <1>1, <1>6, <1>12, <2>1
<1> QED BY <1>1, <1>2, <1>3, <1>6, <1>7, <1>8, <1>9, <1>10, <1>11, <1>12 DEF SuperNext

\* The drop of a detached child does nothing to the channel and leaves no call that would,
\* and from then on no task is aborted.
THEOREM DetachedStays == SuperSpec => DetachedLeavesTasks
<1>1. SuperInit => DropAttached
    BY DEF SuperInit, DropAttached
<1>2. SuperIInv /\ DropAttached /\ [SuperNext]_superVars => DropAttached'
    BY DroppedStep
<1>3. SuperIInv /\ DropAttached /\ [SuperNext]_superVars
          => [holder' = "dropped" /\ link = "detached" =>
                  /\ cancel' = cancel
                  /\ todo'[Supervisor] = <<>>
                  /\ holder # "dropped" => UNCHANGED channelVars]_superVars
    BY DroppedStep
<1> QED BY <1>1, <1>2, <1>3, SuperInductiveInvariant, PTL DEF SuperSpec, DetachedLeavesTasks

\* Every task that runs while there is a child or a pool is behind one of its handles.
LEMMA TasksHaveHandles ==
    ASSUME SuperIInv, holder \in {"child", "pool"}
    PROVE  TasksToEnd \subseteq {p \in Handles : ~Finished(p)}
<1>1. /\ HandlesInv /\ HandlesHeld
      /\ reports \in [Process -> {"None", "Ok", "Panic", "Abort"}]
    BY DEF SuperIInv, SuperTypeOK, HandlesInv
<1> QED BY <1>1 DEF TasksToEnd, HandlesInv, HandlesHeld

\* A handle that leaves the vector brings no other one in.
LEMMA JoinedHandles ==
    ASSUME SuperIInv, JoinChild \/ JoinPool
    PROVE  Handles' \subseteq Handles
<1>1. handles \in Seq(Process) /\ HandlesInv
    BY DEF SuperIInv, SuperTypeOK
<1>2. CASE handles' = handles
    BY <1>2 DEF Handles
<1>3. ASSUME NEW i \in DOMAIN handles, holder = "pool", handles' = SwapRemove(handles, i)
      PROVE  Handles' \subseteq Handles
    <2>1. HandlesHeld /\ i \in 1 .. Len(handles)
        BY <1>1, <1>3 DEF HandlesInv
    <2>2. \A j, k \in 1 .. Len(handles) : handles[j] = handles[k] => j = k
        BY <1>1, <2>1 DEF HandlesHeld
    <2>3. /\ handles' \in Seq(Process)
          /\ \A j \in 1 .. Len(handles') :
                 \E k \in 1 .. Len(handles) : handles'[j] = handles[k]
        <3>1. /\ SwapRemove(handles, i) \in Seq(Process)
              /\ \A j \in 1 .. Len(SwapRemove(handles, i)) :
                     \E k \in 1 .. Len(handles) \ {i} :
                         SwapRemove(handles, i)[j] = handles[k]
            BY <1>1, <2>1, <2>2, SwapRemoveFacts
        <3> QED BY <1>3, <3>1
    <2> QED BY <1>1, <2>3 DEF Handles, Seqs!ToSet
<1> QED BY <1>2, <1>3 DEF JoinChild, JoinPool, TakeOutput

\* An abort reaches all the tasks there are, a shutdown keeps them until it is over,
\* and what a drop does not abort it leaves to the reaper.
LEMMA NobodyForgottenStep ==
    ASSUME SuperIInv, AbortReachesAll, NobodyForgotten, [SuperNext]_superVars
    PROVE  AbortReachesAll' /\ NobodyForgotten'
<1> DEFINE Goal == AbortReachesAll' /\ NobodyForgotten'
           AliveHandles == {p \in Handles : ~Finished(p)}
<1>a. /\ task \in [Process -> TaskStates] /\ Handles \subseteq Process
      /\ holder \in {"child", "pool"} => TasksToEnd \subseteq AliveHandles
    BY TasksHaveHandles DEF SuperIInv, SuperTypeOK, Handles, Seqs!ToSet
<1>b. /\ BeingAborted \subseteq Handles
      /\ todo[Supervisor] = <<>> => BeingAborted = {}
      /\ todo \in [Thread -> Seq(Op)] /\ ChannelTypeOK
    BY ContainsNone DEF BeingAborted, Remaining, SuperIInv, SuperTypeOK, ChannelTypeOK
<1>1. ASSUME UNCHANGED <<is_aborted, holder, shutdown, link>>,
             TasksToEnd' \subseteq TasksToEnd, AliveHandles' \subseteq AliveHandles,
             cancel \cup reaper \subseteq cancel' \cup reaper', cancel \subseteq cancel',
             BeingAborted \subseteq cancel' \cup BeingAborted'
      PROVE  Goal
    BY <1>1 DEF AbortReachesAll, NobodyForgotten
<1>2. ASSUME UNCHANGED <<task, late>>
      PROVE  /\ TasksToEnd' = TasksToEnd
             /\ Handles' \subseteq Handles => AliveHandles' \subseteq AliveHandles
    BY <1>2 DEF TasksToEnd, Finished
<1>3. ASSUME UNCHANGED <<childVars, taskVars>>,
             \A op \in AbortOps : Remaining(Supervisor, op)' <=> Remaining(Supervisor, op)
      PROVE  Goal
    <2>1. BeingAborted' = BeingAborted
        BY <1>3 DEF BeingAborted, AbortOps, Handles, childVars, handleVars
    <2> QED BY <1>1, <1>2, <1>3, <2>1
            DEF childVars, taskVars, formVars, linkVars, handleVars, shutdownVars, Handles
<1>4. ASSUME NEW p \in Process, TaskStep(p)
      PROVE  Goal
    <2>1. UNCHANGED <<childVars, cancel, late>>
        BY <1>4
           DEF TaskStep, ReturnTask, PanicTask, CancelTask, EndTask, DropInboxEarly,
               FinishTask, PollNotifier, TakeHalt, taskVars
    <2>2. \A q \in Process : /\ task[q] = "none" => task'[q] = "none"
                             /\ Finished(q) => Finished(q)'
        BY <1>4, <1>a
           DEF TaskStep, ReturnTask, PanicTask, CancelTask, EndTask, Active, DropInboxEarly,
               FinishTask, PollNotifier, TakeHalt, taskVars, Finished
    <2>3. TasksToEnd' \subseteq TasksToEnd /\ AliveHandles' \subseteq AliveHandles
        BY <1>a, <2>1, <2>2 DEF TasksToEnd, Handles, childVars, handleVars
    <2>4. BeingAborted' = BeingAborted
        BY <1>b, <1>4, <2>1, TaskStepOthers, Threads
           DEF BeingAborted, Remaining, Handles, childVars, handleVars
    <2> QED BY <1>1, <2>1, <2>3, <2>4 DEF childVars, formVars, linkVars, shutdownVars
<1>c. ChildStep \/ Reap => BeingAborted = {}
    BY <1>b, ChildStepHeld DEF Held, Reap
<1>d. ASSUME BeingAborted = {}
      PROVE  /\ is_aborted /\ holder \in {"child", "pool"} => TasksToEnd \subseteq cancel
             /\ shutdown # "none" => holder \in {"child", "pool"}
             /\ holder = "dropped" /\ link # "detached"
                    => TasksToEnd \subseteq cancel \cup reaper
             /\ shutdown = "no_sleep" => AliveHandles \subseteq cancel
    BY <1>d DEF AbortReachesAll, NobodyForgotten
<1>e. ASSUME abort, UNCHANGED handles
      PROVE  Handles \subseteq BeingAborted'
    <2>1. Remaining(Supervisor, "record_abort")'
        BY <1>b, <1>e, CloseRest, Threads DEF abort
    <2> QED BY <1>e, <2>1 DEF BeingAborted, Handles
<1>5. ASSUME (\E l \in Links : Attach(l)) \/ Detach, BeingAborted = {}
      PROVE  Goal
    <2>1. /\ UNCHANGED <<is_aborted, holder, shutdown, task, late, cancel>>
          /\ holder \in {"child", "pool"} /\ shutdown = "none"
        BY <1>5
           DEF Attach, Detach, Free, Held, formVars, handleVars, shutdownVars, taskVars
    <2> QED BY <1>2, <1>d, <1>5, <2>1 DEF AbortReachesAll, NobodyForgotten
<1>6. ASSUME Halt \/ ShutdownChild \/ ShutdownPool \/ ShutdownStreamOver \/ DropShutdown,
             BeingAborted = {}
      PROVE  Goal
    <2>1. /\ UNCHANGED <<is_aborted, holder, task, late, cancel>>
          /\ holder \in {"child", "pool"} /\ shutdown' # "no_sleep"
        BY <1>6
           DEF Halt, ShutdownChild, ShutdownPool, ShutdownStreamOver, DropShutdown, Free,
               Held, formVars, linkVars, taskVars
    <2> QED BY <1>2, <1>d, <1>6, <2>1 DEF AbortReachesAll, NobodyForgotten
<1>7. ASSUME \/ IntoDynChild \/ IntoDynPool \/ DowncastChild \/ DowncastPool
             \/ IntoPool \/ IntoJoinhandle \/ IntoJoinhandles,
             BeingAborted = {}
      PROVE  Goal
    <2>1. /\ UNCHANGED <<is_aborted, task, late, cancel>>
          /\ holder \in {"child", "pool"} /\ holder' \in {"child", "pool", "joinhandles"}
          /\ shutdown' = "none"
        BY <1>7
           DEF IntoDynChild, IntoDynPool, DowncastChild, DowncastPool, IntoPool,
               IntoJoinhandle, IntoJoinhandles, Recast, Free, Held, linkVars, shutdownVars,
               taskVars
    <2> QED BY <1>2, <1>d, <1>7, <2>1 DEF AbortReachesAll, NobodyForgotten
<1>8. ASSUME AbortChild \/ AbortPool \/ ShutdownFutTimeout \/ ShutdownStreamTimeout
      PROVE  Goal
    <2>1. /\ abort /\ holder \in {"child", "pool"}
          /\ UNCHANGED <<holder, handles, task, late>>
        BY <1>8
           DEF AbortChild, AbortPool, ShutdownFutTimeout, ShutdownStreamTimeout,
               Free, Held, childVars, formVars, handleVars, taskVars
    <2>2. TasksToEnd' \subseteq BeingAborted' /\ Handles' \subseteq BeingAborted'
        BY <1>a, <1>2, <1>e, <2>1 DEF Handles
    <2> QED BY <2>1, <2>2 DEF AbortReachesAll, NobodyForgotten
<1>9. ASSUME PollChild \/ PollPool \/ ShutdownFutReady \/ ShutdownStreamNext,
             BeingAborted = {}
      PROVE  Goal
    <2>1. /\ JoinChild \/ JoinPool
          /\ UNCHANGED <<is_aborted, link, cancel, task, late>>
          /\ holder \in {"child", "pool"}
          /\ \/ shutdown' = shutdown /\ holder' = holder
             \/ shutdown' = "none" /\ holder' \in {holder, "panicked"}
        BY <1>9
           DEF PollChild, PollPool, ShutdownFutReady, ShutdownStreamNext, JoinChild,
               JoinPool, Free, Held, linkVars, taskVars
    <2>2. TasksToEnd' = TasksToEnd /\ AliveHandles' \subseteq AliveHandles
        BY <1>2, <2>1, JoinedHandles
    <2> QED BY <1>d, <1>9, <2>1, <2>2 DEF AbortReachesAll, NobodyForgotten
<1>10. ASSUME NEW p \in Process, AddProcess(p), BeingAborted = {}
       PROVE  Goal
    <2>1. /\ holder = "pool" /\ shutdown' = "none"
          /\ UNCHANGED <<is_aborted, holder, cancel>>
          /\ task' = [task EXCEPT ![p] = "running"]
          /\ late' = IF is_aborted THEN late \cup {p} ELSE late
        BY <1>10 DEF AddProcess, Free, Held, formVars, linkVars, shutdownVars
    <2>2. CASE is_aborted
        <3>1. TasksToEnd' \subseteq TasksToEnd
            BY <1>a, <2>1, <2>2 DEF TasksToEnd, Finished
        <3> QED BY <1>d, <1>10, <2>1, <3>1 DEF AbortReachesAll, NobodyForgotten
    <2>3. CASE ~is_aborted
        BY <2>1, <2>3 DEF AbortReachesAll, NobodyForgotten
    <2> QED BY <2>2, <2>3
<1>11. ASSUME Drop, BeingAborted = {}
       PROVE  Goal
    <2>1. /\ holder \in {"child", "pool"} /\ holder' = "dropped" /\ shutdown' = "none"
          /\ link' = link /\ UNCHANGED <<task, late>>
        BY <1>11 DEF Drop, Free, Held, linkVars, taskVars
    <2>2. TasksToEnd' = TasksToEnd
        BY <1>2, <2>1
    <2>3. CASE ActsOnDrop
        <3>1. (abort /\ UNCHANGED handles) \/ reaper' = Handles
            BY <1>11, <2>3 DEF Drop
        <3>2. TasksToEnd' \subseteq reaper' \cup BeingAborted'
            BY <1>a, <1>e, <2>1, <2>2, <3>1
        <3> QED BY <2>1, <3>2 DEF AbortReachesAll, NobodyForgotten
    <2>4. CASE ~ActsOnDrop
        <3>1. cancel' = cancel /\ reaper' = reaper
            BY <1>11, <2>4 DEF Drop, taskVars
        <3>2. link # "detached" => is_aborted \/ AliveHandles = {}
            BY <2>4 DEF ActsOnDrop, is_finished
        <3>3. link # "detached" => TasksToEnd' \subseteq cancel'
            BY <1>a, <1>d, <1>11, <2>1, <2>2, <3>1, <3>2
        <3> QED BY <2>1, <3>1, <3>3 DEF AbortReachesAll, NobodyForgotten
    <2> QED BY <2>3, <2>4
<1>12. ASSUME Reap
       PROVE  Goal
    <2>1. /\ cancel' = cancel \cup reaper /\ reaper' = {}
          /\ UNCHANGED <<formVars, linkVars, handles, shutdown, task, late>>
        BY <1>12 DEF Reap, handleVars
    <2>2. TasksToEnd' = TasksToEnd /\ AliveHandles' \subseteq AliveHandles
        BY <1>2, <2>1 DEF Handles
    <2> QED BY <1>1, <1>c, <1>12, <2>1, <2>2 DEF formVars, linkVars
<1>13. ASSUME ChildStep
       PROVE  Goal
    <2>1. BeingAborted = {}
        BY <1>c, <1>13
    <2> QED BY <1>5, <1>6, <1>7, <1>8, <1>9, <1>10, <1>11, <1>13, <2>1
            DEF ChildStep, ShutdownStep, Spawn, TrySpawn, DropChild, DropPool
<1>14. ASSUME RecordAbort
       PROVE  Goal
    <2>1. /\ todo[Supervisor] # <<>> /\ Head(todo[Supervisor]) = "record_abort"
          /\ Continue(Supervisor, <<"abort_handles">> \o Tail(todo[Supervisor]))
          /\ UNCHANGED <<holder, link, handles, shutdown, reaper, task, cancel, late>>
        BY <1>14 DEF RecordAbort, Pending, formVars, handleVars, shutdownVars, taskVars
    <2>2. BeingAborted' = Handles'
        <3>1. Tail(todo[Supervisor]) \in Seq(Op)
            BY <1>b, <2>1, ContainsTail, Threads
        <3>2. /\ <<"abort_handles">> \o Tail(todo[Supervisor]) \in Seq(Op)
              /\ Seqs!Contains(<<"abort_handles">> \o Tail(todo[Supervisor]), "abort_handles")
            BY <3>1, ContainsCons, Threads
        <3>3. Remaining(Supervisor, "abort_handles")'
            BY <1>b, <2>1, <3>2, ContinueFacts, Threads
        <3> QED BY <3>3 DEF BeingAborted
    <2>3. TasksToEnd' = TasksToEnd /\ Handles' = Handles /\ AliveHandles' = AliveHandles
        BY <2>1 DEF TasksToEnd, Handles, Finished
    <2>4. BeingAborted \subseteq BeingAborted'
        BY <1>b, <2>2, <2>3
    <2> QED BY <1>a, <2>1, <2>2, <2>3, <2>4 DEF AbortReachesAll, NobodyForgotten
<1>15. ASSUME AbortHandles
       PROVE  Goal
    <2>1. /\ UNCHANGED <<is_aborted, holder, link, handles, shutdown, reaper, task, late>>
          /\ cancel \subseteq cancel'
          /\ UNCHANGED todo \/ Handles \subseteq cancel
        BY <1>15
           DEF AbortHandles, childVars, formVars, linkVars, handleVars, shutdownVars
    <2>2. TasksToEnd' = TasksToEnd /\ Handles' = Handles /\ AliveHandles' = AliveHandles
        BY <2>1 DEF TasksToEnd, Handles, Finished
    <2>3. BeingAborted \subseteq cancel' \cup BeingAborted'
        <3>1. CASE UNCHANGED todo
            BY <2>2, <3>1 DEF BeingAborted, Remaining
        <3>2. CASE Handles \subseteq cancel
            BY <1>b, <2>1, <3>2
        <3> QED BY <2>1, <3>1, <3>2
    <2> QED BY <1>1, <2>1, <2>2, <2>3
<1>16. ASSUME NEW t \in Thread, CallStep(t), UNCHANGED <<childVars, taskVars>>
       PROVE  Goal
    BY <1>3, <1>16, <1>b, CallStepAborts
<1>17. ASSUME NEW c \in Caller, CallerStep(c), UNCHANGED <<childVars, taskVars>>
       PROVE  Goal
    <2>1. todo'[Supervisor] = todo[Supervisor]
        BY <1>b, <1>17, CallerStepOthers, SupervisionAssumption
    <2> QED BY <1>3, <1>17, <2>1 DEF Remaining
<1>18. ASSUME UNCHANGED superVars
       PROVE  Goal
    <2>1. UNCHANGED <<childVars, taskVars, todo>>
        BY <1>18 DEF superVars, channelVars
    <2> QED BY <1>3, <2>1 DEF Remaining
<1> QED BY <1>4, <1>12, <1>13, <1>14, <1>15, <1>16, <1>17, <1>18 DEF SuperNext, AbortStep

\* Once an attached child is dropped, every task it was answerable for was aborted or
\* will be by the reaper; once the timer of a shutdown is over, every task it waits for
\* was aborted.  What remains to be said is that an aborted task ends.
THEOREM TasksRemembered == SuperSpec => []NobodyForgotten
<1>1. SuperInit => AbortReachesAll /\ NobodyForgotten
    BY DEF SuperInit, AbortReachesAll, NobodyForgotten
<1>2. /\ SuperIInv /\ AbortReachesAll /\ NobodyForgotten /\ [SuperNext]_superVars
      => AbortReachesAll' /\ NobodyForgotten'
    BY NobodyForgottenStep
<1> QED BY <1>1, <1>2, SuperInductiveInvariant, PTL DEF SuperSpec
-----------------------------------------------------------------------------
(***************************************************************************)
(* The halts of the tasks.                                                 *)
(***************************************************************************)
\* Only a halt or a shutdown is counted as one, and it has still to add its halts.
LEMMA HaltCounted ==
    ASSUME SuperIInv, ChildStep \/ AbortStep \/ Reap \/ \E p \in Process : TaskStep(p)
    PROVE  halts' = halts \/ Remaining(Supervisor, "halt_some_max")'
<1>a. todo \in [Thread -> Seq(Op)]
    BY DEF SuperIInv, SuperTypeOK, ChannelTypeOK
<1>1. ASSUME close(Supervisor, <<"halt_some_max">>)
      PROVE  Remaining(Supervisor, "halt_some_max")'
    BY <1>1, <1>a, CloseRest, Threads
<1>2. ASSUME Halt \/ ShutdownChild \/ ShutdownPool
      PROVE  close(Supervisor, <<"halt_some_max">>)
    BY <1>2 DEF Halt, ShutdownChild, ShutdownPool, halt
<1>3. ASSUME \/ \E l \in Links : Attach(l)
             \/ Detach \/ IntoDynChild \/ IntoDynPool \/ DowncastChild \/ DowncastPool
             \/ IntoPool \/ IntoJoinhandle \/ IntoJoinhandles \/ AbortChild \/ AbortPool
             \/ ShutdownFutTimeout \/ ShutdownStreamTimeout \/ ShutdownStreamOver
             \/ DropShutdown \/ Drop \/ AbortStep \/ Reap
      PROVE  halts' = halts
    BY <1>3
       DEF Attach, Detach, IntoDynChild, IntoDynPool, DowncastChild, DowncastPool,
           IntoPool, IntoJoinhandle, IntoJoinhandles, Recast, AbortChild, AbortPool,
           ShutdownFutTimeout, ShutdownStreamTimeout, ShutdownStreamOver, DropShutdown,
           Drop, AbortStep, RecordAbort, AbortHandles, Reap, childVars, shutdownVars
<1>4. ASSUME PollChild \/ PollPool \/ ShutdownFutReady \/ ShutdownStreamNext
      PROVE  halts' = halts
    BY <1>4 DEF PollChild, PollPool, ShutdownFutReady, ShutdownStreamNext, JoinChild, JoinPool
<1>5. ASSUME NEW p \in Process, AddProcess(p) \/ TaskStep(p)
      PROVE  halts' = halts
    BY <1>5
       DEF AddProcess, TaskStep, ReturnTask, PanicTask, CancelTask, EndTask, DropInboxEarly,
           FinishTask, PollNotifier, TakeHalt, childVars, shutdownVars
<1> QED BY <1>1, <1>2, <1>3, <1>4, <1>5
        DEF ChildStep, ShutdownStep, Spawn, TrySpawn, DropChild, DropPool

\* The halts of a halt or a shutdown are enough for all tasks, and a notifier that takes
\* one is a task less that waits.
LEMMA HaltForEveryTaskStep ==
    ASSUME SuperIInv, HaltForEveryTask, [SuperNext]_superVars
    PROVE  HaltForEveryTask'
<1>a. /\ ChannelTypeOK /\ InboxesHaveTasks /\ todo \in [Thread -> Seq(Op)]
      /\ notifier \in [Process -> {"waiting", "deciding", "ready"}]
      /\ halt_count \in Int /\ halt_count' \in Int /\ I32Max \in Nat
    BY SuperChannelTypeStep, ChannelAssumption DEF SuperIInv, SuperTypeOK, ChannelTypeOK
<1>b. /\ WaitingTasks \subseteq Process /\ IsFiniteSet(WaitingTasks)
      /\ Cardinality(WaitingTasks) \in Nat /\ Cardinality(WaitingTasks) <= Cardinality(Process)
      /\ Cardinality(Process) \in Nat /\ Cardinality(Process) <= I32Max
    BY LiveFinite, FS_Subset, FS_CardinalityType, ChannelAssumption DEF WaitingTasks
<1> DEFINE Left == Remaining(Supervisor, "halt_some_max")
<1>1. ASSUME UNCHANGED <<notifier, halts>>, halt_count' >= halt_count, Left => Left'
      PROVE  HaltForEveryTask'
    <2>1. WaitingTasks' = WaitingTasks
        BY <1>1 DEF WaitingTasks
    <2> QED BY <1>a, <1>b, <1>1, <2>1 DEF HaltForEveryTask
<1>2. ASSUME Left' PROVE HaltForEveryTask'
    BY <1>2 DEF HaltForEveryTask
<1>3. ASSUME NEW p \in Process, TakeHalt(p), Left => Left', halts' = halts
      PROVE  HaltForEveryTask'
    <2>1. halt_count' = halt_count - 1 /\ p \in WaitingTasks
        BY <1>3 DEF TakeHalt, WaitingTasks
    <2>2. CASE halt_count > 0
        <3>1. WaitingTasks' = WaitingTasks \ {p}
            BY <1>a, <1>3, <2>2 DEF TakeHalt, WaitingTasks
        <3>2. Cardinality(WaitingTasks') = Cardinality(WaitingTasks) - 1
            BY <1>b, <2>1, <3>1, FS_RemoveElement
        <3> QED BY <1>a, <1>b, <1>3, <2>1, <3>2 DEF HaltForEveryTask
    <2>3. CASE ~(halt_count > 0)
        <3>1. Cardinality(WaitingTasks) # 0
            BY <1>b, <2>1, FS_EmptySet
        <3> QED BY <1>a, <1>b, <1>3, <2>3, <3>1 DEF HaltForEveryTask
    <2> QED BY <2>2, <2>3
<1>4. ASSUME NEW p \in Process, PollNotifier(p), halts' = halts
      PROVE  HaltForEveryTask'
    <2>1. /\ notifier[p] = "waiting" /\ notifier' = [notifier EXCEPT ![p] = "deciding"]
          /\ halt_count' = halt_count /\ todo' = todo
        BY <1>4 DEF PollNotifier, channelVars, haltVars
    <2>2. WaitingTasks' = WaitingTasks
        BY <1>a, <2>1 DEF WaitingTasks
    <2> QED BY <1>4, <2>1, <2>2 DEF HaltForEveryTask, Remaining
<1>5. CASE ChildStep \/ AbortStep \/ Reap \/ \E p \in Process : TaskStep(p)
    <2>1. halts' = halts \/ Left'
        BY <1>5, HaltCounted
    <2>2. ASSUME NEW rest, close(Supervisor, rest), todo[Supervisor] = <<>>,
                 UNCHANGED <<haltVars, notifier>>
          PROVE  HaltForEveryTask'
        <3>1. ~Left
            BY <2>2, ContainsNone DEF Remaining
        <3> QED BY <1>a, <1>1, <1>2, <2>1, <2>2, <3>1 DEF haltVars
    <2>3. ASSUME NEW p \in Process, remove_inbox(p), UNCHANGED <<haltVars, notifier>>
          PROVE  HaltForEveryTask'
        <3>1. todo'[Supervisor] = todo[Supervisor]
            BY <1>a, <2>3, SupervisionAssumption DEF remove_inbox, Continue
        <3> QED BY <1>a, <1>1, <1>2, <2>1, <2>3, <3>1 DEF haltVars, Remaining
    <2>4. ASSUME UNCHANGED <<haltVars, todo, notifier>>
          PROVE  HaltForEveryTask'
        BY <1>a, <1>1, <1>2, <2>1, <2>4 DEF haltVars, Remaining
    <2>5. ASSUME NEW p \in Process, TakeHalt(p)
          PROVE  HaltForEveryTask'
        BY <1>2, <1>3, <2>1, <2>5 DEF TakeHalt, Remaining
    <2>6. ASSUME NEW ops \in Seq(Op), Continue(Supervisor, ops),
                 \A op : op \notin AbortOps
                     => (Seqs!Contains(ops, op) <=> Remaining(Supervisor, op)),
                 UNCHANGED <<haltVars, notifier>>
          PROVE  HaltForEveryTask'
        <3>1. Left' <=> Seqs!Contains(ops, "halt_some_max")
            BY <1>a, <2>6, ContinueFacts, Threads
        <3>2. Left => Left'
            BY <2>6, <3>1 DEF AbortOps
        <3> QED BY <1>a, <1>1, <1>2, <2>1, <2>6, <3>2 DEF haltVars
    <2> QED BY <1>a, <1>2, <1>4, <1>5, <2>1, <2>2, <2>3, <2>4, <2>5, <2>6, ChildOnChannel
            DEF channelVars
<1>6. ASSUME NEW t \in Thread, CallStep(t), UNCHANGED <<childVars, taskVars>>
      PROVE  HaltForEveryTask'
    <2>1. halt_count' >= halt_count /\ UNCHANGED <<notifier, halts>>
        BY <1>a, <1>6, HaltsOnlyAdded DEF childVars, shutdownVars, taskVars
    <2>2. CASE Left => Left'
        BY <1>1, <2>1, <2>2
    <2>3. CASE Left /\ ~Left'
        <3>1. t = Supervisor /\ Head(todo[t]) = "halt_some_max"
            BY <1>a, <1>6, <2>3, CallStepOthers, CallStepKeeps, Threads DEF Remaining
        <3>2. HaltSomeMax(t)
            BY <1>6, <3>1
               DEF CallStep, RecvNotifyOne, RecvNotifyAll, SendNotifyOne, SendNotifyAll,
                   ExitNotifyAll, Close, Drain, Pending
        <3>3. halt_count' = I32Max
            <4>1. halt_count' = halted_count(ToI32(I32Max)) /\ ToI32(I32Max) = I32Max
                BY <1>a, <3>2 DEF HaltSomeMax, halt_some, ToI32
            <4>2. halted_count(I32Max) = I32Max
                BY <1>a DEF halted_count, ToI32
            <4> QED BY <4>1, <4>2
        <3>4. WaitingTasks' = WaitingTasks
            BY <2>1 DEF WaitingTasks
        <3> QED BY <1>a, <1>b, <3>3, <3>4 DEF HaltForEveryTask
    <2> QED BY <2>2, <2>3
<1>7. ASSUME NEW c \in Caller, CallerStep(c), UNCHANGED <<childVars, taskVars>>
      PROVE  HaltForEveryTask'
    <2>1. halt_count' >= halt_count /\ UNCHANGED <<notifier, halts>>
        BY <1>a, <1>7, HaltsOnlyAdded, Threads DEF childVars, shutdownVars, taskVars
    <2>2. todo'[Supervisor] = todo[Supervisor]
        BY <1>a, <1>7, CallerStepOthers, SupervisionAssumption
    <2> QED BY <1>1, <2>1, <2>2 DEF Remaining
<1>8. ASSUME UNCHANGED superVars
      PROVE  HaltForEveryTask'
    <2>1. UNCHANGED <<halts, halt_count, todo, notifier>>
        BY <1>8 DEF superVars, channelVars, haltVars, childVars, shutdownVars, taskVars
    <2> QED BY <1>a, <1>1, <2>1 DEF Remaining
<1> QED BY <1>5, <1>6, <1>7, <1>8 DEF SuperNext

\* halt_some(u32::MAX) is enough for any number of tasks that an i32 can count: the
\* notifiers that race for the halts all get theirs.
THEOREM HaltsSuffice == SuperSpec => []HaltForEveryTask
<1>1. SuperInit => HaltForEveryTask
    BY DEF SuperInit, HaltForEveryTask
<1>2. SuperIInv /\ HaltForEveryTask /\ [SuperNext]_superVars => HaltForEveryTask'
    BY HaltForEveryTaskStep
<1> QED BY <1>1, <1>2, SuperInductiveInvariant, PTL DEF SuperSpec
-----------------------------------------------------------------------------
(***************************************************************************)
(* The life cycle.                                                         *)
(***************************************************************************)
\* What the life cycle says of a task that ends: its inbox is gone, and an abort was
\* asked for.
LEMMA LifecycleFinish ==
    ASSUME SuperIInv, NEW p \in Process, FinishTask(p)
    PROVE  \E result \in {"Ok", "Panic", "Abort"} : L!End(p, result)
<1>1. /\ task \in [Process -> TaskStates] /\ InboxesHaveTasks /\ AbortsInv
      /\ task[p] \in {"returning", "panicking", "cancelling"}
    BY DEF SuperIInv, SuperTypeOK, FinishTask
<1>2. PICK state \in {"returned", "panicked", "cancelled"} :
          /\ task' = [task EXCEPT ![p] = state]
          /\ state = "cancelled" => task[p] = "cancelling"
    BY <1>1 DEF FinishTask
<1> DEFINE result == CASE state = "returned" -> "Ok"
                       [] state = "panicked" -> "Panic"
                       [] state = "cancelled" -> "Abort"
<1>3. /\ result \in {"Ok", "Panic", "Abort"}
      /\ result = "Abort" => state = "cancelled"
    OBVIOUS
<1>4. p \in Started \ Live /\ Started' = Started /\ Live' = Live
    BY <1>1, <1>2
       DEF Started, Live, InboxesHaveTasks, FinishTask, channelVars, inboxVars
<1>5. result = "Abort" => p \in cancel
    BY <1>1, <1>2, <1>3 DEF AbortsInv
<1>6. Outcomes[p] = "None" /\ Outcomes' = [Outcomes EXCEPT ![p] = result]
    <2>1. ~Finished(p) /\ Finished(p)' /\ ExitResult(p)' = result
        BY <1>1, <1>2 DEF Finished, ExitResult
    <2>2. \A q \in Process \ {p} :
              (Finished(q)' <=> Finished(q)) /\ ExitResult(q)' = ExitResult(q)
        BY <1>1, <1>2 DEF Finished, ExitResult
    <2> HIDE DEF result
    <2> QED BY <2>1, <2>2 DEF Outcomes
<1>7. UNCHANGED <<cancel, reports>>
    BY DEF FinishTask, childVars, handleVars
<1> HIDE DEF result
<1> QED BY <1>3, <1>4, <1>5, <1>6, <1>7 DEF L!End

\* The output of a handle is what its task ended with, and is read once.
LEMMA LifecycleJoin ==
    ASSUME SuperIInv, JoinChild \/ JoinPool
    PROVE  (\E p \in Process : L!Tell(p)) \/ reports' = reports
<1>1. /\ handles \in Seq(Process) /\ HandlesInv
      /\ reports \in [Process -> {"None", "Ok", "Panic", "Abort"}]
    BY DEF SuperIInv, SuperTypeOK
<1>2. ASSUME NEW p \in Process, Finished(p), reports[p] = "None",
             reports' = [reports EXCEPT ![p] = ExitResult(p)]
      PROVE  L!Tell(p)
    <2>1. Outcomes[p] = ExitResult(p) /\ Outcomes[p] # "None"
        BY <1>2, ExitResultFacts DEF Outcomes
    <2>2. UNCHANGED <<inbox, task, cancel>>
        BY DEF JoinChild, JoinPool, channelVars, inboxVars, taskVars
    <2>3. UNCHANGED <<Started, Live, cancel, Outcomes>>
        BY <2>2 DEF Started, Live, Outcomes, Finished, ExitResult
    <2> QED BY <1>2, <2>1, <2>3 DEF L!Tell
<1>3. CASE JoinChild
    <2>1. Len(handles) = 1 /\ Finished(handles[1])
        BY <1>1, <1>3 DEF JoinChild, HandlesInv
    <2>2. handles[1] \in Process
        BY <1>1, <2>1
    <2> QED BY <1>2, <1>3, <2>1, <2>2 DEF JoinChild
<1>4. CASE JoinPool
    <2>1. PICK i \in DOMAIN handles :
              /\ Finished(handles[i])
              /\ IF reports[handles[i]] = "None"
                 THEN TakeOutput(i) /\ UNCHANGED holder
                 ELSE holder' = "panicked" /\ UNCHANGED <<handles, reports>>
        BY <1>4 DEF JoinPool
    <2>2. handles[i] \in Process
        BY <1>1
    <2> QED BY <1>2, <2>1, <2>2 DEF TakeOutput
<1> QED BY <1>3, <1>4

\* Every step of the child, its tasks and its callers is one of the life cycle, or
\* changes nothing of it.
LEMMA LifecycleStep ==
    ASSUME SuperIInv, [SuperNext]_superVars
    PROVE  [L!Next]_<<Started, Live, cancel, Outcomes, reports, {}>>
<1>a. /\ InboxesHaveTasks /\ cancel \subseteq Process
      /\ task \in [Process -> TaskStates]
      /\ inbox \in [Process -> {"none", "live", "dropped"}]
      /\ Handles \subseteq Process /\ reaper \subseteq Process
    BY DEF SuperIInv, SuperTypeOK, ChannelTypeOK, Handles, Seqs!ToSet
<1> DEFINE Goal == [L!Next]_<<Started, Live, cancel, Outcomes, reports, {}>>
<1>1. ASSUME UNCHANGED <<inbox, task>>
      PROVE  UNCHANGED <<Started, Live, Outcomes>>
    BY <1>1 DEF Started, Live, Outcomes, Finished, ExitResult
<1>2. ASSUME UNCHANGED <<inbox, task, reports>>, cancel' = cancel
      PROVE  Goal
    BY <1>1, <1>2
<1>3. ASSUME UNCHANGED <<inbox, task, reports>>,
             NEW tasks \in SUBSET Process, cancel' = cancel \cup tasks
      PROVE  Goal
    BY <1>a, <1>1, <1>3 DEF L!Next, L!Condemn
<1>4. ASSUME NEW p \in Process, inbox[p] = "live", remove_inbox(p),
             UNCHANGED <<Started, cancel, Outcomes, reports>>
      PROVE  Goal
    <2>1. p \in Live /\ Live' = Live \ {p}
        BY <1>a, <1>4 DEF remove_inbox, Live
    <2> QED BY <1>4, <2>1 DEF L!Next, L!Leave
<1>5. ASSUME NEW p \in Process, NEW state \in {"returning", "panicking", "cancelling"},
             EndTask(p, state)
      PROVE  Goal
    <2>1. task[p] = "running" /\ task' = [task EXCEPT ![p] = state]
        BY <1>5 DEF EndTask, Active
    <2>2. UNCHANGED <<Started, Outcomes>>
        <3>1. Started' = Started
            BY <1>a, <2>1 DEF Started
        <3>2. \A q \in Process : /\ Finished(q)' <=> Finished(q)
                                 /\ Finished(q) => ExitResult(q)' = ExitResult(q)
            BY <1>a, <2>1 DEF Finished, ExitResult
        <3> QED BY <3>1, <3>2 DEF Outcomes
    <2>3. UNCHANGED <<cancel, reports>>
        BY <1>5 DEF EndTask, childVars, handleVars
    <2>4. CASE inbox[p] = "live"
        BY <1>4, <1>5, <2>2, <2>3, <2>4 DEF EndTask
    <2>5. CASE inbox[p] # "live"
        BY <1>5, <2>2, <2>3, <2>5 DEF EndTask, inboxVars, Live
    <2> QED BY <2>4, <2>5
<1>6. ASSUME NEW p \in Process, TaskStep(p)
      PROVE  Goal
    <2>1. CASE ReturnTask(p) \/ PanicTask(p) \/ CancelTask(p)
        BY <1>5, <2>1 DEF ReturnTask, PanicTask, CancelTask
    <2>2. CASE DropInboxEarly(p)
        <3>1. /\ inbox[p] = "live" /\ remove_inbox(p) /\ UNCHANGED <<cancel, reports, task>>
            BY <2>2 DEF DropInboxEarly, childVars, handleVars, taskVars
        <3>2. UNCHANGED <<Started, Outcomes>>
            BY <3>1 DEF Started, Outcomes, Finished, ExitResult
        <3> QED BY <1>4, <3>1, <3>2
    <2>3. CASE FinishTask(p)
        BY <2>3, LifecycleFinish DEF L!Next
    <2>4. CASE PollNotifier(p) \/ TakeHalt(p)
        BY <1>2, <2>4
           DEF PollNotifier, TakeHalt, channelVars, inboxVars, childVars, handleVars
    <2> QED BY <1>6, <2>1, <2>2, <2>3, <2>4 DEF TaskStep
<1>7. ASSUME NEW p \in Process, AddProcess(p)
      PROVE  Goal
    <2>1. /\ inbox_count >= 1 /\ task[p] = "none"
          /\ inbox' = [inbox EXCEPT ![p] = "live"]
          /\ task' = [task EXCEPT ![p] = "running"]
          /\ UNCHANGED <<cancel, reports>>
        BY <1>7 DEF AddProcess, try_add_inbox
    <2>2. /\ p \notin Started /\ Started' = Started \cup {p}
          /\ Live' = Live \cup {p}
        BY <1>a, <2>1 DEF Started, Live
    <2>3. Live # {}
        BY <1>a, <2>1, FS_EmptySet DEF InboxesHaveTasks
    <2>4. Outcomes' = Outcomes
        <3>1. \A q \in Process : /\ Finished(q)' <=> Finished(q)
                                 /\ Finished(q) => ExitResult(q)' = ExitResult(q)
            BY <1>a, <2>1 DEF Finished, ExitResult
        <3> QED BY <3>1 DEF Outcomes
    <2> QED BY <2>1, <2>2, <2>3, <2>4 DEF L!Next, L!Join
<1>8. ASSUME AbortStep \/ Reap
      PROVE  Goal
    <2>1. UNCHANGED <<inbox, task, reports>>
        BY <1>8
           DEF AbortStep, RecordAbort, AbortHandles, Reap, inboxVars, channelVars, childVars,
               handleVars, taskVars
    <2>2. \E tasks \in SUBSET Process : cancel' = cancel \cup tasks
        <3>1. CASE \E p \in Handles \ cancel : cancel' = cancel \cup {p}
            BY <1>a, <3>1
        <3>2. CASE cancel' = cancel
            <4>1. cancel' = cancel \cup {}
                BY <3>2
            <4> QED BY <4>1
        <3>3. CASE cancel' = cancel \cup reaper
            BY <1>a, <3>3
        <3> QED BY <1>8, <3>1, <3>2, <3>3
                DEF AbortStep, RecordAbort, AbortHandles, Reap, taskVars
    <2> QED BY <1>3, <2>1, <2>2
<1>9. ASSUME Drop
      PROVE  Goal
    <2>1. UNCHANGED <<inbox, task, reports, cancel>>
        BY <1>9 DEF Drop, inboxVars, taskVars
    <2> QED BY <1>2, <2>1
<1>10. ASSUME PollChild \/ PollPool \/ ShutdownFutReady \/ ShutdownStreamNext
       PROVE  Goal
    <2>1. /\ JoinChild \/ JoinPool
          /\ UNCHANGED <<inbox, task, cancel>>
        BY <1>10
           DEF PollChild, PollPool, ShutdownFutReady, ShutdownStreamNext, JoinChild,
               JoinPool, taskVars, channelVars, inboxVars
    <2> QED BY <1>2, <2>1, LifecycleJoin DEF L!Next
<1>11. ASSUME \/ \E l \in Links : Attach(l)
              \/ Detach \/ Halt \/ AbortChild \/ AbortPool \/ ShutdownChild
              \/ ShutdownPool \/ ShutdownFutTimeout \/ ShutdownStreamTimeout
              \/ ShutdownStreamOver \/ DropShutdown
       PROVE  Goal
    <2>1. UNCHANGED <<inbox, task, reports, cancel>>
        BY <1>11
           DEF Attach, Detach, Halt, AbortChild, AbortPool, ShutdownChild, ShutdownPool,
               ShutdownFutTimeout, ShutdownStreamTimeout, ShutdownStreamOver, DropShutdown,
               childVars, handleVars, taskVars, inboxVars, channelVars
    <2> QED BY <1>2, <2>1
<1>12. ASSUME \/ IntoDynChild \/ IntoDynPool \/ DowncastChild \/ DowncastPool
              \/ IntoPool \/ IntoJoinhandle \/ IntoJoinhandles
       PROVE  Goal
    <2>1. UNCHANGED <<inbox, task, reports, cancel>>
        BY <1>12
           DEF IntoDynChild, IntoDynPool, DowncastChild, DowncastPool, IntoPool,
               IntoJoinhandle, IntoJoinhandles, Recast, handleVars, taskVars, inboxVars,
               channelVars
    <2> QED BY <1>2, <2>1
<1>13. ASSUME ChildStep
       PROVE  Goal
    BY <1>7, <1>9, <1>10, <1>11, <1>12, <1>13
       DEF ChildStep, ShutdownStep, Spawn, TrySpawn, DropChild, DropPool
<1>14. ASSUME NEW c \in Caller, CallerStep(c), UNCHANGED <<childVars, taskVars>>
       PROVE  Goal
    <2>1. ~CallSpawn(c)
        BY SupervisionAssumption DEF CallSpawn, Calls
    <2>2. UNCHANGED <<inbox, task, reports, cancel>>
        BY <1>14, <2>1
           DEF CallerStep, CallSendNow, CallClose, CallHaltSome, CallHalt, inboxVars,
               taskVars, childVars, handleVars
    <2> QED BY <1>2, <2>2
<1>15. ASSUME NEW t \in Thread, CallStep(t), UNCHANGED <<childVars, taskVars>>
       PROVE  Goal
    <2>1. UNCHANGED <<inbox, task, reports, cancel>>
        BY <1>15, CallStepInboxes DEF inboxVars, taskVars, childVars, handleVars
    <2> QED BY <1>2, <2>1
<1>16. ASSUME UNCHANGED superVars
       PROVE  Goal
    BY <1>2, <1>16 DEF superVars, channelVars, inboxVars, taskVars, childVars, handleVars
<1> QED BY <1>6, <1>8, <1>13, <1>14, <1>15, <1>16 DEF SuperNext

\* An actor starts with the tasks of its first join handles, none of which ended.
LEMMA LifecycleInit == ASSUME SuperInit PROVE L!Init
<1>1. InitialProcess \in (SUBSET Process) \ {{}}
    BY ChannelAssumption
<1>2. Live = InitialProcess /\ Started = InitialProcess
    BY ChannelAssumption DEF SuperInit, ChannelInit, Live, Started
<1>3. Outcomes = [p \in Process |-> "None"]
    BY DEF SuperInit, Outcomes, Finished
<1> QED BY <1>1, <1>2, <1>3 DEF SuperInit, L!Init

\* A child or a pool, however it is cast, halted, aborted, shut down and dropped,
\* implements the life cycle of an actor.
THEOREM LifecycleImplemented == SuperSpec => ImplementsLifecycle
<1>1. SuperInit => L!Init
    BY LifecycleInit
<1>2. SuperIInv /\ [SuperNext]_superVars
          => [L!Next]_<<Started, Live, cancel, Outcomes, reports, {}>>
    BY LifecycleStep
<1> QED BY <1>1, <1>2, SuperInductiveInvariant, PTL
        DEF SuperSpec, ImplementsLifecycle, L!Spec, L!lifeVars
-----------------------------------------------------------------------------
(***************************************************************************)
(* The mailbox and the halts.                                              *)
(***************************************************************************)
\* An inbox is added only to an actor that has one.
LEMMA MembersJoin ==
    ASSUME SuperIInv, NEW p \in Process, inbox[p] = "none", inbox_count >= 1,
           inbox' = [inbox EXCEPT ![p] = "live"], UNCHANGED queueVars
    PROVE  M!Join
<1>1. Live' = Live \cup {p} /\ p \notin Live
    BY LiveAdded DEF SuperIInv, SuperTypeOK, ChannelTypeOK
<1>2. Live # {}
    BY FS_EmptySet DEF SuperIInv, InboxesHaveTasks
<1> QED BY <1>1, <1>2 DEF queueVars, M!Join

\* Every step is one of the mailbox or leaves it alone.
LEMMA SuperMailboxStep ==
    ASSUME SuperIInv, [SuperNext]_superVars
    PROVE  [M!Next]_<<queue, ~closed, Live>>
<1>a. ChannelTypeOK /\ ExitInv /\ InboxesHaveTasks
    BY DEF SuperIInv, SuperTypeOK
<1>1. ASSUME UNCHANGED <<queueVars, inboxVars>>
      PROVE  UNCHANGED <<queue, ~closed, Live>>
    BY <1>1 DEF queueVars, inboxVars, Live
<1>2. ASSUME UNCHANGED <<queue, inboxVars>>, closed' = TRUE
      PROVE  M!Shut
    BY <1>2 DEF inboxVars, Live, M!Shut
<1>3. ASSUME NEW t \in Thread, CallStep(t)
      PROVE  [M!Next]_<<queue, ~closed, Live>>
    <2>1. Live' = Live
        BY <1>3, CallStepInboxes DEF inboxVars, Live
    <2> QED BY <1>a, <1>3, <2>1, CallStepQueue DEF queueVars, M!Next, M!Shut, M!Remove
<1>4. ASSUME NEW c \in Caller, CallerStep(c)
      PROVE  [M!Next]_<<queue, ~closed, Live>>
    <2>1. CASE UNCHANGED <<queueVars, inboxVars>>
        BY <1>1, <2>1
    <2>2. CASE closed' = TRUE /\ UNCHANGED <<queue, inboxVars>>
        BY <1>2, <2>2 DEF M!Next
    <2>3. CASE ~closed /\ closed' = closed /\ queue' = Append(queue, c) /\ UNCHANGED inboxVars
        BY <2>3, Threads DEF inboxVars, Live, M!Next, M!Deliver
    <2>4. CASE /\ UNCHANGED queueVars /\ inbox_count >= 1
               /\ \E p \in Process : /\ inbox[p] = "none"
                                     /\ inbox' = [inbox EXCEPT ![p] = "live"]
        BY <2>4, MembersJoin DEF M!Next
    <2> QED BY <1>a, <1>4, <2>1, <2>2, <2>3, <2>4, CallerStepQueue
<1>5. ASSUME NEW p \in Process, inbox[p] = "live", remove_inbox(p), UNCHANGED queueVars
      PROVE  M!Leave
    <2>1. Live' = Live \ {p} /\ p \in Live
        BY <1>a, <1>5, LiveRemoved DEF remove_inbox, ChannelTypeOK
    <2> QED BY <1>5, <2>1 DEF queueVars, M!Leave
<1>6. CASE ChildStep \/ AbortStep \/ Reap \/ \E p \in Process : TaskStep(p)
    <2>1. ASSUME NEW rest, close(Supervisor, rest), UNCHANGED <<queue, inboxVars>>
          PROVE  M!Shut
        BY <1>2, <2>1 DEF close
    <2>2. ASSUME NEW p \in Process, try_add_inbox(p), inbox[p] = "none", UNCHANGED queueVars
          PROVE  M!Join
        BY <2>2, MembersJoin DEF try_add_inbox
    <2>3. (\E p \in Process : TakeHalt(p) \/ PollNotifier(p)) \/ UNCHANGED channelVars
              => UNCHANGED <<queueVars, inboxVars>>
        BY DEF TakeHalt, PollNotifier, channelVars
    <2>4. todo \in [Thread -> Seq(Op)]
        BY <1>a DEF ChannelTypeOK
    <2> QED BY <1>a, <1>1, <1>5, <1>6, <2>1, <2>2, <2>3, <2>4, ChildOnChannel DEF M!Next
<1>7. UNCHANGED superVars => UNCHANGED <<queueVars, inboxVars>>
    BY DEF superVars, channelVars
<1> QED BY <1>1, <1>3, <1>4, <1>6, <1>7 DEF SuperNext

\* An actor that was just spawned is an empty mailbox with members.
LEMMA SuperMailboxInit == ASSUME SuperInit PROVE M!Init
<1>1. Live = InitialProcess /\ InitialProcess \in (SUBSET Process) \ {{}}
    BY ChannelAssumption DEF SuperInit, ChannelInit, Live
<1> QED BY <1>1 DEF SuperInit, ChannelInit, ChannelNew, M!Init

\* A child or a pool and its tasks implement a mailbox: also when tasks are aborted
\* what was sent is handed out in order, or discarded after the exit.
THEOREM SuperMailboxImplemented == SuperSpec => ImplementsMailbox
<1>1. SuperInit => M!Init
    BY SuperMailboxInit
<1>2. SuperIInv /\ [SuperNext]_superVars => [M!Next]_<<queue, ~closed, Live>>
    BY SuperMailboxStep
<1> QED BY <1>1, <1>2, SuperInductiveInvariant, PTL
        DEF SuperSpec, ImplementsMailbox, M!Spec, M!mailboxVars

\* However its tasks end, an actor leaves nothing in a channel that it leaves closed.
THEOREM SuperCleanExit == SuperSpec => []ExitLeavesNothing
<1>1. SuperIInv => ExitLeavesNothing
    BY ExitInvClean DEF SuperIInv
<1> QED BY <1>1, SuperInductiveInvariant, PTL

\* Every step is a request, a halt that a notifier takes, or invisible.
LEMMA SuperHaltPoolStep ==
    ASSUME SuperIInv, [SuperNext]_superVars
    PROVE  [H!Next]_<<Permits, ReadyTasks>>
<1>a. /\ ChannelTypeOK /\ ChannelTypeOK' /\ InboxesHaveTasks
      /\ halt_count \in -I32Max .. I32Max /\ halt_count' \in -I32Max .. I32Max
      /\ I32Max \in Nat
      /\ notifier \in [Process -> {"waiting", "deciding", "ready"}]
    BY SuperChannelTypeStep, ChannelAssumption DEF SuperIInv, SuperTypeOK, ChannelTypeOK
<1>1. ASSUME UNCHANGED notifier, halt_count' >= halt_count
      PROVE  H!Request
    <2>1. Permits' \in Permits .. I32Max
        BY <1>a, <1>1 DEF Permits
    <2> QED BY <1>1, <2>1 DEF ReadyTasks, H!Request
<1>2. ASSUME UNCHANGED <<halt_count, notifier>>
      PROVE  UNCHANGED <<Permits, ReadyTasks>>
    BY <1>2 DEF Permits, ReadyTasks
<1>3. ASSUME NEW p \in Process, PollNotifier(p)
      PROVE  UNCHANGED <<Permits, ReadyTasks>>
    <2>1. /\ halt_count' = halt_count /\ notifier[p] = "waiting"
          /\ notifier' = [notifier EXCEPT ![p] = "deciding"]
        BY <1>3 DEF PollNotifier, channelVars, haltVars
    <2> QED BY <1>a, <2>1 DEF Permits, ReadyTasks
<1>4. ASSUME NEW p \in Process, TakeHalt(p)
      PROVE  H!Take(p) \/ UNCHANGED <<Permits, ReadyTasks>>
    <2>1. halt_count' = halt_count - 1 /\ notifier[p] = "deciding" /\ p \notin ReadyTasks
        BY <1>4 DEF TakeHalt, ReadyTasks
    <2>2. CASE halt_count > 0
        <3>1. ReadyTasks' = ReadyTasks \cup {p}
            BY <1>4, <1>a, <2>2 DEF TakeHalt, ReadyTasks
        <3>2. Permits > 0 /\ Permits' = Permits - 1
            BY <1>a, <2>1, <2>2 DEF Permits
        <3> QED BY <2>1, <3>1, <3>2 DEF H!Take
    <2>3. CASE ~(halt_count > 0)
        <3>1. ReadyTasks' = ReadyTasks
            BY <1>4, <1>a, <2>1, <2>3 DEF TakeHalt, ReadyTasks
        <3>2. Permits' = Permits
            BY <1>a, <2>1, <2>3 DEF Permits
        <3> QED BY <3>1, <3>2
    <2> QED BY <2>2, <2>3
<1>5. CASE ChildStep \/ AbortStep \/ Reap \/ \E p \in Process : TaskStep(p)
    <2>1. todo \in [Thread -> Seq(Op)]
        BY <1>a DEF ChannelTypeOK
    <2> QED BY <1>a, <1>2, <1>3, <1>4, <1>5, <2>1, ChildOnChannel
            DEF haltVars, channelVars, H!Next
<1>6. ASSUME NEW t \in Thread, CallStep(t) \/ (t \in Caller /\ CallerStep(t)),
             UNCHANGED <<childVars, taskVars>>
      PROVE  H!Request
    BY <1>a, <1>1, <1>6, HaltsOnlyAdded DEF taskVars
<1>7. UNCHANGED superVars => UNCHANGED <<halt_count, notifier>>
    BY DEF superVars, channelVars, haltVars, taskVars
<1> QED BY <1>2, <1>5, <1>6, <1>7, Threads DEF SuperNext, H!Next

\* The load / fetch_sub race of the notifiers implements a pool of permits.
THEOREM SuperHaltPoolImplemented == SuperSpec => ImplementsHaltPool
<1>1. SuperInit => H!Init
    BY DEF SuperInit, ChannelInit, ChannelNew, Permits, ReadyTasks, H!Init
<1>2. SuperIInv /\ [SuperNext]_superVars => [H!Next]_<<Permits, ReadyTasks>>
    BY SuperHaltPoolStep
<1> QED BY <1>1, <1>2, SuperInductiveInvariant, PTL
        DEF SuperSpec, ImplementsHaltPool, H!Spec
=============================================================================
