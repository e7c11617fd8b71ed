------------------------- MODULE ReceivingRefinement -------------------------
(***************************************************************************)
(* The channel as its processes and callers run it implements the two      *)
(* abstract specifications: the mailbox and the pool of halts.             *)
(***************************************************************************)
EXTENDS Receiving

M == INSTANCE Mailbox WITH
         Member <- Process, Message <- Thread,
         messages <- queue, open <- ~closed, members <- Live

H == INSTANCE HaltPool WITH
         Member <- Process, MaxPermits <- I32Max,
         permits <- Permits, halted <- Halted

\* The queue, the closing of it, spawns and exits behave like a mailbox: what the
\* destructor of the last inbox discards is never a message that was accepted by a
\* channel still open.
ImplementsMailbox == M!Spec

\* The load / fetch_sub race on halt_count is invisible: whatever the interleaving
\* and however far the counter is below 0, halts behave like permits.
ImplementsHaltPool == H!Spec

\* Once the last inbox is dropped the channel is closed and emptied in the end,
\* whatever senders do meanwhile.
ExitEmpties == M!Emptied
=============================================================================
