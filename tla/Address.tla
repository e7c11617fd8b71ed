------------------------------- MODULE Address -------------------------------
(***************************************************************************)
(* Addresses: how they are counted, and the future that returns once the   *)
(* actor has exited, against processes that exit, processes that are       *)
(* spawned and callers that close the channel.                             *)
(*                                                                         *)
(* An await looks at inbox_count, creates a listener of exit_event unless  *)
(* the address has one, looks at inbox_count again and polls the listener. *)
(***************************************************************************)
EXTENDS Channel

CONSTANTS
    Addresses,     \* the addresses that exist or may be created
    FirstAddress,  \* the address that spawning the actor returns
    Awaiting       \* the addresses that are awaited

ASSUME AddressAssumption ==
    /\ Addresses \subseteq Thread
    /\ Addresses \cap (Process \cup Caller) = {}
    /\ FirstAddress \in Addresses
    /\ Awaiting \subseteq Addresses

VARIABLES
    address_count,
    address,       \* "none", "live" or "dropped"
    apc,           \* where the await of each address is
    seen_exit      \* history: whether an await of it returned

addressVars == <<address_count, address>>
awaitVars == <<apc, seen_exit>>
addrVars == <<channelVars, addressVars, awaitVars>>

AwaitPlaces == {"idle", "load", "listen", "recheck", "poll", "parked"}

AddressTypeOK ==
    /\ ChannelTypeOK
    /\ address_count \in Nat
    /\ address \in [Addresses -> {"none", "live", "dropped"}]
    /\ apc \in [Addresses -> AwaitPlaces]
    /\ seen_exit \in [Addresses -> BOOLEAN]

\* Channel::new counts the address that from_channel then creates.
AddressInit ==
    /\ ChannelInit
    /\ address_count = 1
    /\ address = [a \in Addresses |-> IF a = FirstAddress THEN "live" ELSE "none"]
    /\ apc = [a \in Addresses |-> "idle"]
    /\ seen_exit = [a \in Addresses |-> FALSE]

LiveAddresses == {a \in Addresses : address[a] = "live"}

GoAwait(a, place) == apc' = [apc EXCEPT ![a] = place]
-----------------------------------------------------------------------------
\* Fault variant: the address is created without being counted.
NewAddress_uncounted(a) ==
    /\ address[a] = "none"
    /\ address' = [address EXCEPT ![a] = "live"]
    /\ UNCHANGED address_count

\* add_address, and the address that its caller creates next.
NewAddress(a) ==
    /\ address[a] = "none"
    /\ address_count' = address_count + 1
    /\ address' = [address EXCEPT ![a] = "live"]

\* Address::clone.
CloneAddress(a) ==
    /\ address[a] = "live" /\ apc[a] = "idle"
    /\ \E b \in Addresses : NewAddress(b)
    /\ UNCHANGED <<channelVars, awaitVars>>

\* get_address of an inbox, or of the child, which outlives all addresses.
GetAddress ==
    /\ \E b \in Addresses : NewAddress(b)
    /\ UNCHANGED <<channelVars, awaitVars>>

\* The address is dropped, also in the middle of an await; its listener goes last.
DropAddress(a) ==
    /\ address[a] = "live" /\ apc[a] \in {"idle", "parked"}
    /\ address_count' = address_count - 1
    /\ address' = [address EXCEPT ![a] = "dropped"]
    /\ GoAwait(a, "idle")
    /\ Continue(a, IF a \in Listeners(exit_event) THEN <<"drop_exit_listener">>
                   ELSE <<>>)
    /\ UNCHANGED <<queueVars, inboxVars, haltVars, eventVars, calls, seen_exit>>

\* exit_listener: None.
DropExitListener(a) ==
    /\ Pending(a, "drop_exit_listener")
    /\ exit_event' \in DropListener(exit_event, a)
    /\ Finish(a)
    /\ UNCHANGED <<queueVars, inboxVars, haltVars, recv_event, send_event, calls,
                   addressVars, awaitVars>>
-----------------------------------------------------------------------------
\* The address is awaited, or its task is polled again.
PollAddress(a) ==
    /\ a \in Awaiting
    /\ address[a] = "live" /\ apc[a] \in {"idle", "parked"}
    /\ GoAwait(a, "load")
    /\ UNCHANGED <<channelVars, addressVars, seen_exit>>

WakeAddress(a) ==
    /\ apc[a] = "parked" /\ a \in exit_event.notified
    /\ PollAddress(a)

\* The await returns.
SeeExit(a) ==
    /\ GoAwait(a, "idle")
    /\ seen_exit' = [seen_exit EXCEPT ![a] = TRUE]

\* Fault variant: a closed channel is taken for one whose actor has exited.
HasExited_closed(a, place, otherwise) ==
    /\ apc[a] = place
    /\ \/ closed /\ SeeExit(a)
       \/ ~closed /\ GoAwait(a, otherwise) /\ UNCHANGED seen_exit
    /\ UNCHANGED <<channelVars, addressVars>>

\* has_exited, before there is a listener and after.
HasExited(a, place, otherwise) ==
    /\ apc[a] = place
    /\ \/ inbox_count = 0 /\ SeeExit(a)
       \/ inbox_count # 0 /\ GoAwait(a, otherwise) /\ UNCHANGED seen_exit
    /\ UNCHANGED <<channelVars, addressVars>>

\* Fault variant: the listener is polled without a second look.
AcquireExitListener_no_recheck(a) ==
    /\ apc[a] = "listen"
    /\ exit_event' = IF a \in Listeners(exit_event) THEN exit_event
                     ELSE Listen(exit_event, a)
    /\ GoAwait(a, "poll")
    /\ UNCHANGED <<queueVars, inboxVars, haltVars, recv_event, send_event, todo,
                   calls, addressVars, seen_exit>>

\* get_exit_listener, unless the address has one.
AcquireExitListener(a) ==
    /\ apc[a] = "listen"
    /\ exit_event' = IF a \in Listeners(exit_event) THEN exit_event
                     ELSE Listen(exit_event, a)
    /\ GoAwait(a, "recheck")
    /\ UNCHANGED <<queueVars, inboxVars, haltVars, recv_event, send_event, todo,
                   calls, addressVars, seen_exit>>

\* The listener is polled: the await returns if it fired, or parks.
PollExitListener(a) ==
    /\ apc[a] = "poll"
    /\ \/ /\ a \in exit_event.notified
          /\ exit_event' = Remove(exit_event, a)
          /\ SeeExit(a)
       \/ /\ a \notin exit_event.notified
          /\ GoAwait(a, "parked")
          /\ UNCHANGED <<exit_event, seen_exit>>
    /\ UNCHANGED <<queueVars, inboxVars, haltVars, recv_event, send_event, todo,
                   calls, addressVars>>

AwaitStep(a) ==
    \/ HasExited(a, "load", "listen") \/ HasExited(a, "recheck", "poll")
    \/ AcquireExitListener(a) \/ PollExitListener(a) \/ DropExitListener(a)

\* A process ends and drops its inbox.
ExitProcess(p) ==
    /\ inbox[p] = "live" /\ todo[p] = <<>>
    /\ remove_inbox(p)
    /\ UNCHANGED <<queueVars, haltVars, eventVars, calls, addressVars, awaitVars>>

AddressNext ==
    \/ \E t \in Thread : CallStep(t) /\ UNCHANGED <<addressVars, awaitVars>>
    \/ \E c \in Caller : CallerStep(c) /\ UNCHANGED <<addressVars, awaitVars>>
    \/ \E p \in Process : ExitProcess(p)
    \/ GetAddress
    \/ \E a \in Addresses :
           AwaitStep(a) \/ PollAddress(a) \/ CloneAddress(a) \/ DropAddress(a)

\* Synchronous code runs to its end and a woken task is polled.
AddressFairness ==
    /\ \A t \in Thread :
           WF_addrVars(CallStep(t) /\ UNCHANGED <<addressVars, awaitVars>>)
    /\ \A a \in Addresses : WF_addrVars(AwaitStep(a) \/ WakeAddress(a))

AddressSpec == AddressInit /\ [][AddressNext]_addrVars /\ AddressFairness
-----------------------------------------------------------------------------
(***************************************************************************)
(* Properties.                                                             *)
(***************************************************************************)
\* address_count is the number of addresses that exist, so the assertion of
\* remove_address never fires.
AddressCountExact == address_count = Cardinality(LiveAddresses)

\* No exit is missed: an address sleeps after the last inbox was removed only
\* until remove_inbox has notified the exit listeners.
ExitNotMissed ==
    \A a \in Addresses :
        apc[a] = "parked" /\ a \in exit_event.waiting /\ inbox_count = 0
            => StillToDo("exit_notify_all")

\* An await that returned is right for good: the actor has no process, and no
\* spawn gives it one again.
SeenExitIsTrue == (\E a \in Addresses : seen_exit[a]) => Live = {}

\* Every await returns once the actor has exited.
AwaitReturns == \A a \in Addresses : (apc[a] # "idle" /\ Live = {}) ~> apc[a] = "idle"

\* A channel without addresses is closed, and has no address again.
NoAddressMeansClosed == address_count = 0 => closed
=============================================================================
