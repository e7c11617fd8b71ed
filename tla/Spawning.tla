------------------------------- MODULE Spawning -------------------------------
(***************************************************************************)
(* spawn_many_processes: the channel starts with an inbox_count of 1, one  *)
(* task is spawned for every item of the iterator, and the number of tasks *)
(* is stored in inbox_count at the end.  Where the runtime has several     *)
(* threads, a task can run, and drop its inbox, before that store.         *)
(***************************************************************************)
EXTENDS Channel

CONSTANTS
    Multithreaded,  \* whether tasks run while the spawn function does
    Items,          \* the possible lengths of the iterator
    UsizeMax        \* usize::MAX

ASSUME SpawningAssumption ==
    /\ Multithreaded \in BOOLEAN
    /\ Items \subseteq 0 .. Cardinality(Process)
    /\ UsizeMax \in Nat

VARIABLES
    items,     \* the items the iterator has left
    stored,    \* whether set_inbox_count was called
    panicked   \* the processes whose destructor failed its assertion

spawnVars == <<items, stored, panicked>>
manyVars == <<channelVars, spawnVars>>

\* Channel::new(1, 1, capacity), before any inbox exists.
ManyInit ==
    /\ ChannelNew(1)
    /\ inbox = [p \in Process |-> "none"]
    /\ items \in Items
    /\ stored = FALSE
    /\ panicked = {}

Spawned == {p \in Process : inbox[p] # "none"}

\* The closure of map: an inbox, and the task that owns it.
SpawnItem(p) ==
    /\ items > 0 /\ ~stored
    /\ inbox[p] = "none"
    /\ inbox' = [inbox EXCEPT ![p] = "live"]
    /\ items' = items - 1
    /\ UNCHANGED <<queueVars, inbox_count, haltVars, eventVars, todo, calls, stored,
                   panicked>>

\* Fault variant: nothing is stored, the count stays that of a single process.
StoreCount_missing ==
    /\ items = 0 /\ ~stored
    /\ stored' = TRUE
    /\ UNCHANGED <<channelVars, items, panicked>>

\* set_inbox_count(handles.len()).
StoreCount ==
    /\ items = 0 /\ ~stored
    /\ inbox_count' = Cardinality(Spawned)
    /\ stored' = TRUE
    /\ UNCHANGED <<queueVars, inbox, haltVars, eventVars, todo, calls, items, panicked>>

\* A process ends and drops its inbox.  fetch_sub wraps around at 0, where the
\* assertion that follows it fails.
EndProcess(p) ==
    /\ Multithreaded \/ stored
    /\ inbox[p] = "live" /\ todo[p] = <<>>
    /\ IF inbox_count > 0
       THEN remove_inbox(p) /\ UNCHANGED panicked
       ELSE /\ inbox_count' = UsizeMax
            /\ inbox' = [inbox EXCEPT ![p] = "dropped"]
            /\ panicked' = panicked \cup {p}
            /\ UNCHANGED todo
    /\ UNCHANGED <<queueVars, haltVars, eventVars, calls, items, stored>>

ManyNext ==
    \/ \E t \in Thread : CallStep(t) /\ UNCHANGED spawnVars
    \/ \E c \in Caller : stored /\ CallerStep(c) /\ UNCHANGED spawnVars
    \/ \E p \in Process : SpawnItem(p) \/ EndProcess(p)
    \/ StoreCount

ManySpec == ManyInit /\ [][ManyNext]_manyVars
-----------------------------------------------------------------------------
(***************************************************************************)
(* Properties.                                                             *)
(***************************************************************************)
\* Once spawn_many_processes returns, inbox_count is the number of inboxes, through
\* later spawns and exits, and no destructor fails.
SpawnCountExact ==
    stored => inbox_count = Cardinality(Live) /\ panicked = {}

\* The exit of an actor of at least one process leaves nothing.  That of an empty
\* iterator, whose inbox_count is 0 from the start, stays open for good.
SpawnedLeavesNothing == stored /\ Spawned # {} => ExitLeavesNothing
-----------------------------------------------------------------------------
(***************************************************************************)
(* The inductive invariants behind them, where no task runs before the     *)
(* store.                                                                  *)
(***************************************************************************)
ManyInv ==
    /\ inbox \in [Process -> {"none", "live", "dropped"}]
    /\ ~stored => panicked = {} /\ \A p \in Process : inbox[p] # "dropped"
    /\ SpawnCountExact

ManyExitInv ==
    /\ ChannelTypeOK
    /\ ~stored => \A t \in Thread : todo[t] = <<>>
    /\ stored /\ Spawned # {} => ExitInv
=============================================================================
