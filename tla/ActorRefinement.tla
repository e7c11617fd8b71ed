---------------------------- MODULE ActorRefinement ----------------------------
(***************************************************************************)
(* A whole actor implements the life cycle as its addresses see it.        *)
(***************************************************************************)
EXTENDS Actor, SupervisionRefinement

W == INSTANCE Lifecycle WITH
         Member <- Process, Watcher <- Addresses,
         started <- Started, members <- Live, doomed <- cancel,
         outcome <- Outcomes, told <- reports,
         seen <- {a \in Addresses : seen_exit[a]}

\* An await of an address returns only after the last inbox was dropped, whether it
\* found the exit itself or was notified.
ImplementsWatchedLifecycle == W!Spec
=============================================================================
