--------------------------- MODULE RefinementProofs ---------------------------
(***************************************************************************)
(* Module Receiving implements Mailbox and HaltPool, for every value of    *)
(* the constants: every step maps to a step of the abstract specification, *)
(* or changes none of its variables.                                       *)
(***************************************************************************)
EXTENDS ReceivingRefinement, ReceivingProofs

\* Every step of the halting is a request, a halt that is taken, or invisible: a
\* decrement of a counter that is not positive changes no permits.
LEMMA HaltPoolStep ==
    ASSUME IInv, [Next]_vars
    PROVE  [H!Next]_<<Permits, Halted>>
<1> USE DEF IInv, TypeOK, ChannelTypeOK
<1>0. /\ I32Max \in Nat /\ halt_count \in -I32Max .. I32Max
      /\ Permits \in 0 .. I32Max
    BY ChannelAssumption DEF Permits
<1>1. CASE UNCHANGED <<haltVars, Halted, Deciding>>
    BY <1>1 DEF haltVars, Permits
<1>2. ASSUME UNCHANGED <<Halted, Deciding>>,
             NEW t \in Thread, NEW k \in Nat, NEW rest \in Seq(Op), halt_some(t, k, rest)
      PROVE  H!Request
    <2>1. /\ halt_count' \in 0 .. I32Max /\ halt_count' >= halt_count
        BY <1>0, <1>2, HaltedCountFacts DEF halt_some
    <2>2. Permits' \in Permits .. I32Max
        BY <1>0, <2>1 DEF Permits
    <2> QED BY <1>2, <2>2 DEF H!Request
<1>3. ASSUME NEW p \in Process, LoadHaltCount(p), halt_count > 0
      PROVE  UNCHANGED <<Permits, Halted>>
    BY <1>3 DEF LoadHaltCount, channelVars, haltVars, Permits, Halted
<1>4. ASSUME NEW p \in Process, SubHaltCount(p)
      PROVE  H!Take(p) \/ UNCHANGED <<Permits, Halted>>
    <2>1. halt_count' = halt_count - 1 /\ p \notin Halted
        BY <1>4, FetchSubInRange DEF SubHaltCount, Halted, ReceiveInv
    <2>2. CASE halt_count > 0
        <3>1. Halted' = Halted \cup {p}
            BY <1>0, <1>4, <2>2 DEF SubHaltCount, Halted
        <3>2. Permits > 0 /\ Permits' = Permits - 1
            BY <1>0, <2>1, <2>2 DEF Permits
        <3> QED BY <2>1, <3>1, <3>2 DEF H!Take
    <2>3. CASE halt_count <= 0
        <3>1. Halted' = Halted
            BY <1>0, <1>4, <2>3 DEF SubHaltCount, Halted
        <3>2. Permits' = Permits
            BY <1>0, <2>1, <2>3 DEF Permits
        <3> QED BY <3>1, <3>2
    <2> QED BY <1>0, <2>2, <2>3
<1> QED BY <1>1, <1>2, <1>3, <1>4, HaltSteps DEF H!Next

\* Nobody has asked for a halt of an actor that was just spawned.
LEMMA HaltPoolInit == ASSUME Init PROVE H!Init
BY DEF Init, ChannelInit, ChannelNew, Permits, Halted, H!Init

\* The load / fetch_sub race of inbox_should_halt implements a pool of permits.
THEOREM HaltPoolImplemented == Spec => ImplementsHaltPool
<1>1. Init => H!Init
    BY HaltPoolInit
<1>2. IInv /\ [Next]_vars => [H!Next]_<<Permits, Halted>>
    BY HaltPoolStep
<1> QED BY <1>1, <1>2, InductiveInvariant, PTL DEF Spec, ImplementsHaltPool, H!Spec
-----------------------------------------------------------------------------
\* A step of a call in progress removes a message, closes the queue, or leaves the
\* mailbox alone; the one that drains does it on a closed channel.
LEMMA MailboxCallStep ==
    ASSUME IInv, NEW t \in Thread, CallStep(t)
    PROVE  [M!Next]_<<queue, ~closed, Live>>
<1>1. ChannelTypeOK /\ ExitInv
    BY DEF IInv, TypeOK
<1>2. Live' = Live
    BY CallStepInboxes DEF inboxVars, Live
<1> QED BY <1>1, <1>2, CallStepQueue DEF queueVars, M!Next, M!Shut, M!Remove

\* The first step of a method of a caller delivers a message, closes the queue or
\* lets a process join.
LEMMA MailboxCallerStep ==
    ASSUME IInv, NEW c \in Caller, CallerStep(c)
    PROVE  [M!Next]_<<queue, ~closed, Live>>
<1>1. ChannelTypeOK /\ InboxCountExact /\ c \in Thread
    BY ChannelAssumption DEF IInv, TypeOK
<1>2. CASE UNCHANGED inboxVars
    <2>1. Live' = Live
        BY <1>2 DEF inboxVars, Live
    <2> QED BY <1>1, <1>2, <2>1, CallerStepQueue
            DEF inboxVars, queueVars, M!Next, M!Shut, M!Deliver
<1>3. CASE ~UNCHANGED inboxVars
    <2>1. /\ UNCHANGED queueVars /\ inbox_count >= 1
          /\ \E p \in Process : inbox[p] = "none" /\ inbox' = [inbox EXCEPT ![p] = "live"]
        BY <1>1, <1>3, CallerStepQueue
    <2>2. PICK p \in Process : Live' = Live \cup {p} /\ p \notin Live
        BY <1>1, <2>1, LiveAdded DEF ChannelTypeOK
    <2>3. Live # {}
        BY <1>1, <2>1, FS_EmptySet DEF InboxCountExact
    <2> QED BY <2>1, <2>2, <2>3 DEF queueVars, M!Next, M!Join
<1> QED BY <1>2, <1>3

\* A process takes a message, or leaves.
LEMMA MailboxProcessStep ==
    ASSUME IInv, NEW p \in Process, ReceiveStep(p) \/ UserStep(p)
    PROVE  [M!Next]_<<queue, ~closed, Live>>
<1> USE DEF IInv, TypeOK, ChannelTypeOK
<1>1. CASE PopOk(p)
    <2>1. p \in Live
        BY <1>1 DEF PopOk, ReceiveInv, Live
    <2> QED BY <1>1, <2>1 DEF PopOk, pop_msg, inboxVars, Live, M!Next, M!Remove
<1>2. CASE DropInbox(p)
    <2>1. p \in Live /\ Live' = Live \ {p}
        BY <1>2 DEF DropInbox, Idle, remove_inbox, Live
    <2> QED BY <1>2, <2>1 DEF DropInbox, queueVars, M!Next, M!Leave
<1>3. CASE UNCHANGED <<queueVars, inboxVars>>
    BY <1>3 DEF queueVars, inboxVars, Live
<1> QED BY <1>1, <1>2, <1>3
        DEF ReceiveStep, UserStep, LoadHaltCount, SubHaltCount, PopClosed, PopEmpty,
            AcquireListener, ListenerReady, ListenerPending, DropRecvListener, TryRecv,
            Recv, Poll, Cancel, channelVars

\* An actor that was just spawned is an empty mailbox with members.
LEMMA MailboxInit == ASSUME Init PROVE M!Init
<1>1. Live = InitialProcess
    BY ChannelAssumption DEF Init, ChannelInit, Live
<1>2. Live \in (SUBSET Process) \ {{}}
    <2>1. Live \subseteq Process /\ Live # {}
        BY <1>1, ChannelAssumption
    <2> QED BY <2>1
<1>3. queue = <<>> /\ ~closed
    BY DEF Init, ChannelInit, ChannelNew
<1> QED BY <1>2, <1>3 DEF M!Init

\* Every step is one of the mailbox or leaves it alone.
LEMMA MailboxStep ==
    ASSUME IInv, [Next]_vars
    PROVE  [M!Next]_<<queue, ~closed, Live>>
<1>1. CASE UNCHANGED vars
    BY <1>1 DEF vars, channelVars, queueVars, inboxVars, Live
<1> QED BY <1>1, MailboxCallStep, MailboxCallerStep, MailboxProcessStep DEF Next

\* The channel of module Receiving implements a mailbox.
THEOREM MailboxImplemented == Spec => ImplementsMailbox
<1>1. Init => M!Init
    BY MailboxInit
<1>2. IInv /\ [Next]_vars => [M!Next]_<<queue, ~closed, Live>>
    BY MailboxStep
<1> QED BY <1>1, <1>2, InductiveInvariant, PTL
        DEF Spec, ImplementsMailbox, M!Spec, M!mailboxVars
=============================================================================
