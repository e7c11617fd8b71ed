-------------------------------- MODULE Actor --------------------------------
(***************************************************************************)
(* A whole actor: the child of module Supervision and the tasks it         *)
(* supervises, with the addresses of module Address, which are made by     *)
(* clones, by the child and by the inboxes, and await the exit that        *)
(* halting, aborting and dropping the child bring about.                   *)
(*                                                                         *)
(* The two components share the channel; each of their steps leaves the    *)
(* state of the other alone.                                               *)
(***************************************************************************)
EXTENDS Supervision, Address

ASSUME ActorAssumption == Supervisor \notin Addresses

superOnly == <<childVars, taskVars>>
addressOnly == <<addressVars, awaitVars>>
actorVars == <<channelVars, superOnly, addressOnly>>

\* spawn_task and its siblings drop the address that spawn_process returned.
ActorInit ==
    /\ SuperInit
    /\ address_count = IF kind = "task" THEN 0 ELSE 1
    /\ address = [a \in Addresses |->
                     CASE a # FirstAddress -> "none"
                       [] a = FirstAddress /\ kind = "task" -> "dropped"
                       [] a = FirstAddress /\ kind # "task" -> "live"]
    /\ apc = [a \in Addresses |-> "idle"]
    /\ seen_exit = [a \in Addresses |-> FALSE]

\* get_address needs a child or an inbox to be called on; a notifier hides its inbox.
GetAddressOf == (Free \/ (kind = "process" /\ Live # {})) /\ GetAddress

AddressStep ==
    \/ GetAddressOf
    \/ \E a \in Addresses :
           AwaitStep(a) \/ PollAddress(a) \/ CloneAddress(a) \/ DropAddress(a)

ActorNext ==
    \/ \E t \in Thread : CallStep(t) /\ UNCHANGED <<superOnly, addressOnly>>
    \/ /\ ChildStep \/ AbortStep \/ Reap \/ \E p \in Process : TaskStep(p)
       /\ UNCHANGED addressOnly
    \/ AddressStep /\ UNCHANGED superOnly

\* As in the two components.
ActorFairness ==
    /\ \A t \in Thread :
           WF_actorVars(CallStep(t) /\ UNCHANGED <<superOnly, addressOnly>>)
    /\ \A p \in Process :
           WF_actorVars(/\ CancelTask(p) \/ FinishTask(p) \/ TakeHalt(p)
                        /\ UNCHANGED addressOnly)
    /\ WF_actorVars(AbortStep /\ UNCHANGED addressOnly)
    /\ WF_actorVars(Reap /\ UNCHANGED addressOnly)
    /\ WF_actorVars(ShutdownStep /\ UNCHANGED addressOnly)
    /\ \A a \in Addresses :
           WF_actorVars((AwaitStep(a) \/ WakeAddress(a)) /\ UNCHANGED superOnly)

ActorSpec == ActorInit /\ [][ActorNext]_actorVars /\ ActorFairness
-----------------------------------------------------------------------------
(***************************************************************************)
(* Properties.                                                             *)
(***************************************************************************)
\* Dropping an attached child ends the actor for those who await its address, with
\* either timer, whether its tasks look at their inbox or not.
DropReturnsAwaits ==
    \A a \in Addresses :
        (apc[a] # "idle" /\ holder = "dropped" /\ link # "detached" /\ late = {})
            ~> (apc[a] = "idle")

\* Whoever was handed the exit of every process finds that the actor has exited: an
\* await of an address that begins then returns at once.
ReportedMeansExited ==
    (\A p \in Process : task[p] # "none" => reports[p] # "None") => inbox_count = 0
-----------------------------------------------------------------------------
(***************************************************************************)
(* The inductive invariant behind the invariants of the run.               *)
(***************************************************************************)
\* The addresses are counted, and only one that was dropped has a call to finish.
AddressesInv ==
    /\ IsFiniteSet(LiveAddresses) /\ AddressCountExact
    /\ \A a \in Addresses : address[a] # "dropped" => todo[a] = <<>>

\* ExitNotMissed, from the moment the second look at inbox_count has found inboxes.
ExitNoticed ==
    \A a \in Addresses :
        apc[a] \in {"poll", "parked"} /\ a \in exit_event.waiting /\ inbox_count = 0
            => StillToDo("exit_notify_all")

\* What an await takes for the exit, a notification or the counter, is never early, nor
\* is the call that is going to notify.
ExitNotEarly ==
    /\ exit_event.notified # {} => inbox_count = 0
    /\ StillToDo("exit_notify_all") => inbox_count = 0
    /\ (\E a \in Addresses : seen_exit[a]) => inbox_count = 0

ActorIInv ==
    /\ SuperIInv
    /\ AddressTypeOK
    /\ AddressesInv
    /\ ExitNoticed
    /\ ExitNotEarly
=============================================================================
