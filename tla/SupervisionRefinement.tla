------------------------- MODULE SupervisionRefinement -------------------------
(***************************************************************************)
(* A child or a pool and the tasks it supervises implement the life cycle  *)
(* of an actor, the mailbox and the pool of halts.                         *)
(***************************************************************************)
EXTENDS Supervision

Started == {p \in Process : task[p] # "none"}

\* What the join handle of each task gives, or will give.
Outcomes == [p \in Process |-> IF Finished(p) THEN ExitResult(p) ELSE "None"]

\* The tasks whose notifier was told to halt.
ReadyTasks == {p \in Process : notifier[p] = "ready"}

L == INSTANCE Lifecycle WITH
         Member <- Process, Watcher <- {},
         started <- Started, members <- Live, doomed <- cancel,
         outcome <- Outcomes, told <- reports, seen <- {}

M == INSTANCE Mailbox WITH
         Member <- Process, Message <- Thread,
         messages <- queue, open <- ~closed, members <- Live

H == INSTANCE HaltPool WITH
         Member <- Process, MaxPermits <- I32Max,
         permits <- Permits, halted <- ReadyTasks

\* Whatever the owner does with the child, and however its tasks end: nobody is
\* spawned into an actor that has exited, a task ends after its inbox is gone, and
\* what is read from its join handle is how it ended, once, and an abort only if it
\* was asked for.
ImplementsLifecycle == L!Spec

\* Halting, aborting and dropping the child leave the queue to its promise: what was
\* accepted is handed out in order or discarded after the exit.
ImplementsMailbox == M!Spec

\* The race of the notifiers on halt_count is invisible, as that of the receivers is.
ImplementsHaltPool == H!Spec
=============================================================================
