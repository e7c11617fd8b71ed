---------------------------- MODULE ChannelProofs ----------------------------
(***************************************************************************)
(* Lemmas about the operators that Channel is built from: the operations   *)
(* on an event, and the rest of a call as a sequence.  They are cited in   *)
(* the proofs of the modules that extend Channel.                          *)
(***************************************************************************)
EXTENDS Channel, SequenceTheorems, FiniteSetTheorems, TLAPS

(***************************************************************************)
(* Events.                                                                 *)
(***************************************************************************)
\* notify(1) neither creates nor loses a listener, and where listeners keep
\* waiting there is a notified one.
LEMMA NotifyOneFacts ==
    ASSUME NEW S, NEW e \in EventType(S), NEW f \in NotifyOne(e)
    PROVE  /\ f \in EventType(S)
           /\ Listeners(f) = Listeners(e)
           /\ f.waiting \subseteq e.waiting
           /\ f.waiting # {} => f.notified # {}
<1>1. CASE e.notified # {} \/ e.waiting = {}
    BY <1>1 DEF NotifyOne, EventType
<1>2. CASE e.notified = {} /\ e.waiting # {}
    <2>1. PICK owner \in e.waiting :
              f = [waiting |-> e.waiting \ {owner}, notified |-> {owner}]
        BY <1>2 DEF NotifyOne
    <2> QED BY <1>2, <2>1 DEF EventType, Listeners
<1> QED BY <1>1, <1>2

\* notify(usize::MAX) leaves nobody waiting.
LEMMA NotifyAllFacts ==
    ASSUME NEW S, NEW e \in EventType(S)
    PROVE  /\ NotifyAll(e) \in EventType(S)
           /\ Listeners(NotifyAll(e)) = Listeners(e)
           /\ NotifyAll(e).waiting = {}
BY DEF NotifyAll, EventType, Listeners

\* Taking a listener out of the list.
LEMMA RemoveFacts ==
    ASSUME NEW S, NEW e \in EventType(S), NEW owner
    PROVE  /\ Remove(e, owner) \in EventType(S)
           /\ Listeners(Remove(e, owner)) = Listeners(e) \ {owner}
           /\ Remove(e, owner).waiting = e.waiting \ {owner}
           /\ Remove(e, owner).notified = e.notified \ {owner}
BY DEF Remove, EventType, Listeners

\* Dropping a listener loses no notification while others wait.
LEMMA DropListenerFacts ==
    ASSUME NEW S, NEW e \in EventType(S), NEW owner,
           NEW f \in DropListener(e, owner)
    PROVE  /\ f \in EventType(S)
           /\ Listeners(f) = Listeners(e) \ {owner}
           /\ f.waiting \subseteq e.waiting
           /\ e.notified # {} /\ f.waiting # {} => f.notified # {}
           /\ f.notified # {} => e.notified # {}
<1>1. CASE owner \in e.notified
    <2>1. f \in NotifyOne(Remove(e, owner))
        BY <1>1 DEF DropListener
    <2>2. f.notified # {} => e.notified # {}
        BY <1>1
    <2> QED BY <2>1, <2>2, RemoveFacts, NotifyOneFacts
<1>2. CASE owner \notin e.notified
    <2>1. f = Remove(e, owner)
        BY <1>2 DEF DropListener
    <2> QED BY <1>2, <2>1, RemoveFacts
<1> QED BY <1>1, <1>2

\* Creating a listener.
LEMMA ListenFacts ==
    ASSUME NEW S, NEW e \in EventType(S), NEW owner \in S
    PROVE  /\ Listen(e, owner) \in EventType(S)
           /\ Listeners(Listen(e, owner)) = Listeners(e) \cup {owner}
           /\ Listen(e, owner).waiting = e.waiting \cup {owner}
           /\ Listen(e, owner).notified = e.notified
BY DEF Listen, EventType, Listeners
-----------------------------------------------------------------------------
(***************************************************************************)
(* The rest of a call.                                                     *)
(***************************************************************************)
\* What a call still contains is its next operation or remains after it.
LEMMA ContainsTail ==
    ASSUME NEW S, NEW s \in Seq(S), s # <<>>, NEW e
    PROVE  /\ Tail(s) \in Seq(S) /\ Head(s) \in S
           /\ Seqs!Contains(s, e) <=> Head(s) = e \/ Seqs!Contains(Tail(s), e)
<1>1. /\ Tail(s) \in Seq(S) /\ Head(s) \in S /\ Head(s) = s[1]
      /\ Len(Tail(s)) = Len(s) - 1 /\ Len(s) \in Nat \ {0}
      /\ \A i \in 1 .. Len(Tail(s)) : Tail(s)[i] = s[i + 1]
    BY HeadTailProperties
<1>2. ASSUME Seqs!Contains(s, e)
      PROVE  Head(s) = e \/ Seqs!Contains(Tail(s), e)
    <2>1. PICK i \in 1 .. Len(s) : s[i] = e
        BY <1>2 DEF Seqs!Contains
    <2>2. CASE i = 1
        BY <1>1, <2>1, <2>2
    <2>3. CASE i # 1
        <3>1. i - 1 \in 1 .. Len(Tail(s)) /\ Tail(s)[i - 1] = e
            BY <1>1, <2>1, <2>3
        <3> QED BY <3>1 DEF Seqs!Contains
    <2> QED BY <2>2, <2>3
<1>3. ASSUME Head(s) = e \/ Seqs!Contains(Tail(s), e)
      PROVE  Seqs!Contains(s, e)
    <2>1. CASE Head(s) = e
        BY <1>1, <2>1 DEF Seqs!Contains
    <2>2. CASE Seqs!Contains(Tail(s), e)
        <3>1. PICK i \in 1 .. Len(Tail(s)) : Tail(s)[i] = e
            BY <2>2 DEF Seqs!Contains
        <3>2. i + 1 \in 1 .. Len(s) /\ s[i + 1] = e
            BY <1>1, <3>1
        <3> QED BY <3>2 DEF Seqs!Contains
    <2> QED BY <1>3, <2>1, <2>2
<1> QED BY <1>1, <1>2, <1>3

\* An operation put in front of a call.
LEMMA ContainsCons ==
    ASSUME NEW S, NEW s \in Seq(S), NEW a \in S, NEW e
    PROVE  /\ <<a>> \o s \in Seq(S) /\ <<a>> \o s # <<>>
           /\ Seqs!Contains(<<a>> \o s, e) <=> a = e \/ Seqs!Contains(s, e)
<1>1. <<a>> \o s \in Seq(S) /\ <<a>> \o s # <<>> /\ Head(<<a>> \o s) = a
    OBVIOUS
<1>2. Tail(<<a>> \o s) = s
    OBVIOUS
<1>3. Seqs!Contains(<<a>> \o s, e)
          <=> Head(<<a>> \o s) = e \/ Seqs!Contains(Tail(<<a>> \o s), e)
    <2> DEFINE w == <<a>> \o s
    <2>1. w \in Seq(S) /\ w # <<>>
        BY <1>1
    <2> HIDE DEF w
    <2>2. Seqs!Contains(w, e) <=> Head(w) = e \/ Seqs!Contains(Tail(w), e)
        BY <2>1, ContainsTail
    <2> QED BY <2>2 DEF w
<1> QED BY <1>1, <1>2, <1>3

\* Two operations put in front of a call.
LEMMA ContainsCons2 ==
    ASSUME NEW S, NEW s \in Seq(S), NEW a \in S, NEW b \in S, NEW e
    PROVE  /\ <<a, b>> \o s \in Seq(S)
           /\ Seqs!Contains(<<a, b>> \o s, e)
                  <=> a = e \/ b = e \/ Seqs!Contains(s, e)
<1>1. /\ <<a>> \in Seq(S) /\ Len(<<a>>) = 1 /\ <<a>>[1] = a
      /\ <<b>> \in Seq(S) /\ Len(<<b>>) = 1 /\ <<b>>[1] = b
      /\ <<a, b>> \in Seq(S) /\ Len(<<a, b>>) = 2
      /\ <<a, b>>[1] = a /\ <<a, b>>[2] = b
    OBVIOUS
<1>2. /\ <<a>> \o <<b>> \in Seq(S) /\ Len(<<a>> \o <<b>>) = 2
      /\ (<<a>> \o <<b>>)[1] = a /\ (<<a>> \o <<b>>)[2] = b
    BY <1>1, ConcatProperties
<1>3. \A i \in 1 .. Len(<<a, b>>) : <<a, b>>[i] = (<<a>> \o <<b>>)[i]
    BY <1>1, <1>2
<1>4. <<a, b>> = <<a>> \o <<b>>
    BY <1>1, <1>2, <1>3, SeqEqual
<1>5. <<a, b>> \o s = <<a>> \o (<<b>> \o s)
    BY <1>1, <1>4, ConcatAssociative
<1> QED BY <1>5, ContainsCons

\* Nothing is left of a call that is over.
LEMMA ContainsNone == ASSUME NEW e PROVE ~Seqs!Contains(<<>>, e)
BY DEF Seqs!Contains

\* A call of one operation.
LEMMA ContainsOne ==
    ASSUME NEW a, NEW e
    PROVE  Seqs!Contains(<<a>>, e) <=> a = e
BY DEF Seqs!Contains

\* The effect of Continue on what remains to be done.
LEMMA ContinueFacts ==
    ASSUME todo \in [Thread -> Seq(Op)], NEW t \in Thread, NEW ops \in Seq(Op),
           Continue(t, ops)
    PROVE  /\ todo' \in [Thread -> Seq(Op)]
           /\ todo'[t] = ops
           /\ \A u \in Thread \ {t} : todo'[u] = todo[u]
           /\ \A op : Remaining(t, op)' <=> Seqs!Contains(ops, op)
           /\ \A u \in Thread \ {t} : \A op : Remaining(u, op)' <=> Remaining(u, op)
           /\ \A op : /\ Remaining(t, op) => Seqs!Contains(ops, op)
                      /\ StillToDo(op)
                      => StillToDo(op)'
<1>1. /\ todo' \in [Thread -> Seq(Op)]
      /\ todo'[t] = ops
      /\ \A u \in Thread \ {t} : todo'[u] = todo[u]
    BY DEF Continue
<1>2. \A op : Remaining(t, op)' <=> Seqs!Contains(ops, op)
    BY <1>1 DEF Remaining
<1>3. \A u \in Thread \ {t} : \A op : Remaining(u, op)' <=> Remaining(u, op)
    BY <1>1 DEF Remaining
<1>4. ASSUME NEW op, Remaining(t, op) => Seqs!Contains(ops, op), StillToDo(op)
      PROVE  StillToDo(op)'
    BY <1>2, <1>3, <1>4 DEF StillToDo
<1> QED BY <1>1, <1>2, <1>3, <1>4

\* A call performs its next operation: only that one is no longer to be done.
LEMMA FinishFacts ==
    ASSUME todo \in [Thread -> Seq(Op)], NEW t \in Thread, NEW done,
           Pending(t, done), Finish(t)
    PROVE  /\ Tail(todo[t]) \in Seq(Op)
           /\ todo' \in [Thread -> Seq(Op)]
           /\ \A u \in Thread : \A op : Remaining(u, op)' => Remaining(u, op)
           /\ \A u \in Thread : \A op :
                  op # done /\ Remaining(u, op) => Remaining(u, op)'
           /\ \A op : op # done /\ StillToDo(op) => StillToDo(op)'
<1>1. todo[t] \in Seq(Op) /\ todo[t] # <<>> /\ Head(todo[t]) = done
    BY DEF Pending
<1>2. Tail(todo[t]) \in Seq(Op)
    BY <1>1, ContainsTail
<1>3. \A op : Remaining(t, op) <=> done = op \/ Seqs!Contains(Tail(todo[t]), op)
    BY <1>1, ContainsTail DEF Remaining
<1>4. Continue(t, Tail(todo[t]))
    BY DEF Finish
<1> QED BY <1>2, <1>3, <1>4, ContinueFacts DEF StillToDo
-----------------------------------------------------------------------------
(***************************************************************************)
(* The inboxes.                                                            *)
(***************************************************************************)
\* There are finitely many processes, and finitely many of them have an inbox.
LEMMA LiveFinite ==
    /\ IsFiniteSet(Process) /\ Cardinality(Process) \in Nat
    /\ IsFiniteSet(Live) /\ Cardinality(Live) \in Nat
    /\ Cardinality(Live) <= Cardinality(Process)
<1>1. IsFiniteSet(Process) /\ Live \subseteq Process
    BY ChannelAssumption DEF Live
<1> QED BY <1>1, FS_Subset, FS_CardinalityType

\* A new inbox.
LEMMA LiveAdded ==
    ASSUME inbox \in [Process -> {"none", "live", "dropped"}],
           NEW p \in Process, inbox[p] = "none", inbox' = [inbox EXCEPT ![p] = "live"]
    PROVE  /\ Live' = Live \cup {p} /\ p \notin Live
           /\ Cardinality(Live') = Cardinality(Live) + 1
<1>1. Live' = Live \cup {p} /\ p \notin Live
    BY DEF Live
<1> QED BY <1>1, LiveFinite, FS_AddElement

\* A dropped inbox; there was one to drop.
LEMMA LiveRemoved ==
    ASSUME inbox \in [Process -> {"none", "live", "dropped"}],
           NEW p \in Process, inbox[p] = "live", inbox' = [inbox EXCEPT ![p] = "dropped"]
    PROVE  /\ Live' = Live \ {p} /\ p \in Live
           /\ Cardinality(Live') = Cardinality(Live) - 1
           /\ Cardinality(Live) >= 1
<1>1. Live' = Live \ {p} /\ p \in Live
    BY DEF Live
<1>2. Cardinality(Live') = Cardinality(Live) - 1
    BY <1>1, LiveFinite, FS_RemoveElement
<1>3. Cardinality(Live) # 0
    BY <1>1, LiveFinite, FS_EmptySet
<1> QED BY <1>1, <1>2, <1>3, LiveFinite

\* The later steps of a call leave the inboxes alone, and open no queue.
LEMMA CallStepInboxes ==
    ASSUME NEW t, CallStep(t)
    PROVE  UNCHANGED <<inboxVars, calls>> /\ (closed => closed')
BY DEF CallStep, RecvNotifyOne, RecvNotifyAll, SendNotifyOne, SendNotifyAll,
       ExitNotifyAll, Close, close, HaltSomeMax, Drain, queueVars
-----------------------------------------------------------------------------
(***************************************************************************)
(* Halting.                                                                *)
(***************************************************************************)
\* What halt_some adds to a counter that counts as 0 when it is negative.
LEMMA HaltedCountFacts ==
    ASSUME halt_count \in -I32Max .. I32Max, NEW k \in Nat
    PROVE  /\ ToI32(k) \in 0 .. I32Max
           /\ halted_count(ToI32(k)) \in 0 .. I32Max
           /\ halted_count(ToI32(k)) >= halt_count
           /\ halted_count(ToI32(k)) <= Permits + ToI32(k)
           /\ Permits + ToI32(k) <= I32Max
                  => halted_count(ToI32(k)) = Permits + ToI32(k)
<1>1. I32Max \in Nat \ {0}
    BY ChannelAssumption
<1> QED BY <1>1 DEF ToI32, halted_count, Permits

\* halt_some keeps the counter and its history in range.
LEMMA HaltSomeType ==
    ASSUME ChannelTypeOK, NEW t, NEW k \in Nat, NEW rest, halt_some(t, k, rest)
    PROVE  halt_count' \in -I32Max .. I32Max /\ granted' \in Nat
<1>1. I32Max \in Nat /\ halt_count \in -I32Max .. I32Max /\ granted \in Nat
    BY ChannelAssumption DEF ChannelTypeOK
<1>2. ToI32(k) \in 0 .. I32Max /\ halted_count(ToI32(k)) \in 0 .. I32Max
    BY <1>1, HaltedCountFacts
<1>3. halt_count' = halted_count(ToI32(k)) /\ granted' = granted + ToI32(k)
    BY DEF halt_some
<1> QED BY <1>1, <1>2, <1>3

-----------------------------------------------------------------------------
(***************************************************************************)
(* Types.                                                                  *)
(***************************************************************************)
\* The later steps of a call preserve the types.
LEMMA CallStepTypes ==
    ASSUME ChannelTypeOK, NEW t \in Thread, CallStep(t)
    PROVE  ChannelTypeOK'
<1> USE DEF ChannelTypeOK
<1>a. /\ Caller \subseteq Thread /\ Process \subseteq Thread
      /\ MaxCalls \in Nat /\ I32Max \in Nat \ {0} /\ HaltSizes \subseteq Nat
      /\ I32Max \in HaltSizes \cup {I32Max} /\ <<>> \in Seq(Op)
    BY ChannelAssumption
<1>b. todo' \in [Thread -> Seq(Op)]
    <2>1. CASE RecvNotifyOne(t) \/ RecvNotifyAll(t) \/ SendNotifyOne(t)
               \/ SendNotifyAll(t) \/ ExitNotifyAll(t)
        BY <2>1, FinishFacts
           DEF RecvNotifyOne, RecvNotifyAll, SendNotifyOne, SendNotifyAll, ExitNotifyAll
    <2>2. CASE Close(t)
        <3>1. todo[t] # <<>> /\ Tail(todo[t]) \in Seq(Op)
            BY <2>2, ContainsTail DEF Close, Pending
        <3>2. <<"recv_notify_all", "send_notify_all">> \o Tail(todo[t]) \in Seq(Op)
            BY <3>1, ContainsCons2 DEF Op
        <3> QED BY <2>2, <3>1, <3>2, ContinueFacts DEF Close, close
    <2>3. CASE HaltSomeMax(t)
        <3>1. todo[t] # <<>> /\ Tail(todo[t]) \in Seq(Op)
            BY <2>3, ContainsTail DEF HaltSomeMax, Pending
        <3>2. <<"recv_notify_all">> \o Tail(todo[t]) \in Seq(Op)
            BY <3>1, ContainsCons DEF Op
        <3> QED BY <2>3, <3>2, ContinueFacts DEF HaltSomeMax, halt_some
    <2>4. CASE Drain(t)
        <3>1. <<"send_notify_one", "recv_notify_one">> \o todo[t] \in Seq(Op)
            BY ContainsCons2 DEF Op
        <3> QED BY <2>4, <3>1, ContinueFacts, FinishFacts DEF Drain, pop_msg
    <2> QED BY <2>1, <2>2, <2>3, <2>4 DEF CallStep
<1>1. CASE RecvNotifyOne(t) \/ RecvNotifyAll(t)
    BY <1>b, <1>1, NotifyOneFacts, NotifyAllFacts
       DEF RecvNotifyOne, RecvNotifyAll, queueVars, inboxVars, haltVars
<1>2. CASE SendNotifyOne(t) \/ SendNotifyAll(t)
    BY <1>b, <1>2, NotifyOneFacts, NotifyAllFacts
       DEF SendNotifyOne, SendNotifyAll, queueVars, inboxVars, haltVars
<1>3. CASE ExitNotifyAll(t)
    BY <1>b, <1>3, NotifyAllFacts
       DEF ExitNotifyAll, queueVars, inboxVars, haltVars
<1>4. CASE Close(t)
    BY <1>b, <1>4
       DEF Close, close, inboxVars, haltVars, eventVars
<1>5. CASE HaltSomeMax(t)
    <2>1. halt_count' \in -I32Max .. I32Max /\ granted' \in Nat
        BY <1>a, <1>b, <1>5, HaltSomeType DEF HaltSomeMax
    <2> QED BY <1>b, <1>5, <2>1
            DEF HaltSomeMax, queueVars, inboxVars, eventVars
<1>6. CASE Drain(t)
    <2>1. queue # <<>> => Tail(queue) \in Seq(Thread)
        BY <1>b, HeadTailProperties
    <2>2. queue' \in Seq(Thread)
        BY <1>b, <1>6, <2>1 DEF Drain, pop_msg
    <2> QED BY <1>b, <1>6, <2>2
            DEF Drain, inboxVars, haltVars, eventVars
<1> QED BY <1>1, <1>2, <1>3, <1>4, <1>5, <1>6 DEF CallStep

\* The first step of a caller's method preserves the types.
LEMMA CallerStepTypes ==
    ASSUME ChannelTypeOK, NEW c \in Caller, CallerStep(c)
    PROVE  ChannelTypeOK'
<1> USE DEF ChannelTypeOK
<1>a. /\ Caller \subseteq Thread /\ Process \subseteq Thread
      /\ MaxCalls \in Nat /\ I32Max \in Nat \ {0} /\ HaltSizes \subseteq Nat
      /\ I32Max \in HaltSizes \cup {I32Max} /\ <<>> \in Seq(Op)
    BY ChannelAssumption
<1>b. todo' \in [Thread -> Seq(Op)]
    <2>1. /\ <<"recv_notify_one">> \o <<>> \in Seq(Op)
          /\ <<"recv_notify_all">> \o <<>> \in Seq(Op)
          /\ <<"halt_some_max">> \in Seq(Op)
          /\ <<"recv_notify_all", "send_notify_all">> \o <<>> \in Seq(Op)
          /\ <<"recv_notify_all", "send_notify_all">> \o <<"halt_some_max">> \in Seq(Op)
        BY <1>a, ContainsCons, ContainsCons2 DEF Op
    <2> QED BY <1>a, <2>1, ContinueFacts
            DEF CallerStep, CallSendNow, CallClose, CallHaltSome, CallHalt, CallSpawn,
                push_msg, close, halt_some
<1>0. calls' \in [Caller -> 0 .. MaxCalls]
    <2>1. calls[c] < MaxCalls /\ calls' = [calls EXCEPT ![c] = @ + 1]
        BY DEF CallerStep, CallSendNow, CallClose, CallHaltSome, CallHalt, CallSpawn,
               Calls
    <2> QED BY <1>a, <1>b, <2>1
<1>1. CASE CallSendNow(c)
    <2>1. Append(queue, c) \in Seq(Thread)
        BY <1>a, <1>b
    <2> QED BY <1>b, <1>0, <1>1, <2>1
            DEF CallSendNow, push_msg, inboxVars, haltVars, eventVars
<1>2. CASE CallClose(c) \/ CallHalt(c)
    BY <1>b, <1>0, <1>2
       DEF CallClose, CallHalt, close, inboxVars, haltVars, eventVars
<1>3. CASE CallHaltSome(c)
    <2>1. halt_count' \in -I32Max .. I32Max /\ granted' \in Nat
        BY <1>a, <1>b, <1>3, HaltSomeType DEF CallHaltSome
    <2> QED BY <1>b, <1>0, <1>3, <2>1
            DEF CallHaltSome, queueVars, inboxVars, eventVars
<1>4. CASE CallSpawn(c)
    BY <1>b, <1>0, <1>4
       DEF CallSpawn, try_add_inbox, queueVars, haltVars, eventVars
<1> QED BY <1>1, <1>2, <1>3, <1>4 DEF CallerStep
\* close leaves a channel that is closed, whether it was before or not.
LEMMA CloseFacts ==
    ASSUME ChannelTypeOK, NEW t \in Thread, NEW rest \in Seq(Op), close(t, rest)
    PROVE  closed' = TRUE /\ todo' \in [Thread -> Seq(Op)]
<1>1. <<"recv_notify_all", "send_notify_all">> \o rest \in Seq(Op)
    BY ContainsCons2 DEF Op
<1> QED BY <1>1, ContinueFacts DEF close, ChannelTypeOK

\* remove_inbox, of an inbox that was counted.
LEMMA RemoveInboxFacts ==
    ASSUME ChannelTypeOK, inbox_count = Cardinality(Live),
           NEW p \in Process, inbox[p] = "live", remove_inbox(p)
    PROVE  /\ inbox_count' \in Nat /\ inbox_count' = Cardinality(Live')
           /\ inbox' = [inbox EXCEPT ![p] = "dropped"]
           /\ inbox' \in [Process -> {"none", "live", "dropped"}]
           /\ todo' \in [Thread -> Seq(Op)]
<1>1. <<"close", "exit_notify_all", "drain">> \in Seq(Op) /\ <<>> \in Seq(Op)
    BY DEF Op
<1>2. p \in Thread
    BY ChannelAssumption
<1>3. todo' \in [Thread -> Seq(Op)]
    BY <1>1, <1>2, ContinueFacts DEF remove_inbox, ChannelTypeOK
<1>4. /\ Cardinality(Live') = Cardinality(Live) - 1
      /\ Cardinality(Live) >= 1
    BY LiveRemoved DEF remove_inbox, ChannelTypeOK
<1> QED BY <1>3, <1>4 DEF remove_inbox, ChannelTypeOK

\* No step of a call takes a halt away.
LEMMA HaltsOnlyAdded ==
    ASSUME ChannelTypeOK, NEW t \in Thread,
           CallStep(t) \/ (t \in Caller /\ CallerStep(t))
    PROVE  halt_count' >= halt_count
<1>1. halt_count \in -I32Max .. I32Max /\ I32Max \in Nat /\ HaltSizes \subseteq Nat
    BY ChannelAssumption DEF ChannelTypeOK
<1>2. ASSUME NEW k \in Nat, NEW rest, halt_some(t, k, rest)
      PROVE  halt_count' >= halt_count
    BY <1>1, <1>2, HaltedCountFacts DEF halt_some
<1>3. ASSUME UNCHANGED haltVars
      PROVE  halt_count' >= halt_count
    BY <1>1, <1>3 DEF haltVars
<1> QED BY <1>1, <1>2, <1>3
        DEF CallStep, RecvNotifyOne, RecvNotifyAll, SendNotifyOne, SendNotifyAll,
            ExitNotifyAll, Close, HaltSomeMax, Drain, CallerStep, CallSendNow, CallClose,
            CallHaltSome, CallHalt, CallSpawn
-----------------------------------------------------------------------------
(***************************************************************************)
(* What is still to be done after a step.                                  *)
(***************************************************************************)
\* A step of a call performs the next operation of its call, and no other.
LEMMA CallStepKeeps ==
    ASSUME todo \in [Thread -> Seq(Op)], NEW t \in Thread, CallStep(t),
           NEW op, Head(todo[t]) # op
    PROVE  /\ Remaining(t, op) => Remaining(t, op)'
           /\ StillToDo(op) => StillToDo(op)'
<1>a. /\ "recv_notify_all" \in Op /\ "send_notify_all" \in Op
      /\ "recv_notify_one" \in Op /\ "send_notify_one" \in Op
    BY DEF Op
<1>b. ASSUME NEW ops \in Seq(Op), Continue(t, ops),
             Remaining(t, op) => Seqs!Contains(ops, op)
      PROVE  /\ Remaining(t, op) => Remaining(t, op)'
             /\ StillToDo(op) => StillToDo(op)'
    BY <1>b, ContinueFacts
<1>1. CASE RecvNotifyOne(t) \/ RecvNotifyAll(t) \/ SendNotifyOne(t) \/ SendNotifyAll(t)
           \/ ExitNotifyAll(t)
    BY <1>1, FinishFacts
       DEF RecvNotifyOne, RecvNotifyAll, SendNotifyOne, SendNotifyAll, ExitNotifyAll,
           Pending
<1>2. CASE Close(t) \/ HaltSomeMax(t)
    <2>1. /\ Tail(todo[t]) \in Seq(Op)
          /\ Remaining(t, op) => Seqs!Contains(Tail(todo[t]), op)
        BY <1>2, ContainsTail DEF Close, HaltSomeMax, Pending, Remaining
    <2>2. /\ <<"recv_notify_all", "send_notify_all">> \o Tail(todo[t]) \in Seq(Op)
          /\ Seqs!Contains(Tail(todo[t]), op)
                 => Seqs!Contains(<<"recv_notify_all", "send_notify_all">>
                                      \o Tail(todo[t]), op)
        BY <1>a, <2>1, ContainsCons2
    <2>3. /\ <<"recv_notify_all">> \o Tail(todo[t]) \in Seq(Op)
          /\ Seqs!Contains(Tail(todo[t]), op)
                 => Seqs!Contains(<<"recv_notify_all">> \o Tail(todo[t]), op)
        BY <1>a, <2>1, ContainsCons
    <2>4. \/ Continue(t, Tail(todo[t]))
          \/ Continue(t, <<"recv_notify_all", "send_notify_all">> \o Tail(todo[t]))
          \/ Continue(t, <<"recv_notify_all">> \o Tail(todo[t]))
        BY <1>2 DEF Close, close, HaltSomeMax, halt_some
    <2> QED BY <1>b, <2>1, <2>2, <2>3, <2>4
<1>3. CASE Drain(t) /\ pop_msg(t, todo[t])
    <2>1. /\ <<"send_notify_one", "recv_notify_one">> \o todo[t] \in Seq(Op)
          /\ Seqs!Contains(todo[t], op)
                 => Seqs!Contains(<<"send_notify_one", "recv_notify_one">> \o todo[t], op)
        BY <1>a, ContainsCons2
    <2> QED BY <1>3, <1>b, <2>1 DEF pop_msg, Remaining
<1>4. CASE Drain(t) /\ Finish(t)
    BY <1>4, FinishFacts DEF Drain, Pending
<1> QED BY <1>1, <1>2, <1>3, <1>4 DEF CallStep, Drain

\* It makes notifications of the receivers and senders necessary, and nothing else.
LEMMA CallStepAdds ==
    ASSUME todo \in [Thread -> Seq(Op)], NEW t \in Thread, CallStep(t),
           NEW op, op \notin {"recv_notify_one", "recv_notify_all",
                             "send_notify_one", "send_notify_all"}
    PROVE  /\ StillToDo(op)' => StillToDo(op)
           /\ Remaining(t, op)' => Remaining(t, op)
<1> DEFINE Goal == /\ StillToDo(op)' => StillToDo(op)
                   /\ Remaining(t, op)' => Remaining(t, op)
<1>a. /\ "recv_notify_all" \in Op /\ "send_notify_all" \in Op
      /\ "recv_notify_one" \in Op /\ "send_notify_one" \in Op
    BY DEF Op
<1>b. ASSUME NEW ops \in Seq(Op), Continue(t, ops),
             Seqs!Contains(ops, op) => Remaining(t, op)
      PROVE  Goal
    BY <1>b, ContinueFacts DEF StillToDo
<1>1. ASSUME NEW done, Pending(t, done), Finish(t)
      PROVE  Goal
    BY <1>1, FinishFacts DEF StillToDo
<1>2. CASE RecvNotifyOne(t) \/ RecvNotifyAll(t) \/ SendNotifyOne(t) \/ SendNotifyAll(t)
           \/ ExitNotifyAll(t) \/ (Drain(t) /\ Finish(t))
    BY <1>1, <1>2
       DEF RecvNotifyOne, RecvNotifyAll, SendNotifyOne, SendNotifyAll, ExitNotifyAll, Drain
<1>3. CASE Close(t) \/ HaltSomeMax(t)
    <2>1. /\ Tail(todo[t]) \in Seq(Op)
          /\ Seqs!Contains(Tail(todo[t]), op) => Remaining(t, op)
        BY <1>3, ContainsTail DEF Close, HaltSomeMax, Pending, Remaining
    <2>2. /\ <<"recv_notify_all", "send_notify_all">> \o Tail(todo[t]) \in Seq(Op)
          /\ Seqs!Contains(<<"recv_notify_all", "send_notify_all">> \o Tail(todo[t]), op)
                 => Seqs!Contains(Tail(todo[t]), op)
        BY <1>a, <2>1, ContainsCons2
    <2>3. /\ <<"recv_notify_all">> \o Tail(todo[t]) \in Seq(Op)
          /\ Seqs!Contains(<<"recv_notify_all">> \o Tail(todo[t]), op)
                 => Seqs!Contains(Tail(todo[t]), op)
        BY <1>a, <2>1, ContainsCons
    <2>4. \/ Continue(t, Tail(todo[t]))
          \/ Continue(t, <<"recv_notify_all", "send_notify_all">> \o Tail(todo[t]))
          \/ Continue(t, <<"recv_notify_all">> \o Tail(todo[t]))
        BY <1>3 DEF Close, close, HaltSomeMax, halt_some
    <2> QED BY <1>b, <2>1, <2>2, <2>3, <2>4
<1>4. CASE Drain(t) /\ pop_msg(t, todo[t])
    <2>1. /\ <<"send_notify_one", "recv_notify_one">> \o todo[t] \in Seq(Op)
          /\ Seqs!Contains(<<"send_notify_one", "recv_notify_one">> \o todo[t], op)
                 => Seqs!Contains(todo[t], op)
        BY <1>a, ContainsCons2
    <2> QED BY <1>4, <1>b, <2>1 DEF pop_msg, Remaining
<1> QED BY <1>2, <1>3, <1>4 DEF CallStep, Drain

\* A step of a call is one of a thread in a call, and leaves the other calls alone.
LEMMA CallStepOthers ==
    ASSUME todo \in [Thread -> Seq(Op)], NEW t \in Thread, CallStep(t)
    PROVE  todo[t] # <<>> /\ \A u \in Thread \ {t} : todo'[u] = todo[u]
BY DEF CallStep, RecvNotifyOne, RecvNotifyAll, SendNotifyOne, SendNotifyAll,
       ExitNotifyAll, Close, HaltSomeMax, Drain, Pending, Finish, Continue,
       close, halt_some, pop_msg

\* A call that begins ends no other.
LEMMA StartKeeps ==
    ASSUME todo \in [Thread -> Seq(Op)], NEW t \in Thread, todo[t] = <<>>,
           NEW ops \in Seq(Op), Continue(t, ops), NEW op
    PROVE  StillToDo(op) => StillToDo(op)'
<1>1. ~Remaining(t, op)
    BY ContainsNone DEF Remaining
<1> QED BY <1>1, ContinueFacts

\* The first step of a caller's method begins a call of its own, and ends the life of
\* no inbox.
LEMMA CallerStepOthers ==
    ASSUME ChannelTypeOK, NEW c \in Caller, CallerStep(c)
    PROVE  /\ c \in Thread \ Process /\ todo[c] = <<>>
           /\ UNCHANGED recv_event
           /\ \A u \in Thread \ {c} : todo'[u] = todo[u]
           /\ \A q \in Process : inbox[q] = "live" => inbox'[q] = "live"
<1> USE DEF ChannelTypeOK
<1>1. c \in Thread \ Process
    BY ChannelAssumption
<1> QED BY <1>1 DEF CallerStep, CallSendNow, CallClose, CallHaltSome, CallHalt, CallSpawn,
                    Calls, push_msg, close, halt_some, try_add_inbox, Continue,
                    eventVars, inboxVars
-----------------------------------------------------------------------------
(***************************************************************************)
(* The exit.                                                               *)
(***************************************************************************)
\* A call in progress drains only if it was going to, and it stops only when the
\* channel is closed and empty.
LEMMA CallStepDrain ==
    ASSUME ChannelTypeOK, ExitInv, NEW t \in Thread, CallStep(t)
    PROVE  /\ Remaining(t, "drain")' => Remaining(t, "drain")
           /\ closed => closed'
           /\ queue' # <<>> => queue # <<>>
           /\ StillToDo("drain") => (closed' /\ queue' = <<>>) \/ StillToDo("drain")'
           /\ ~closed' /\ Remaining(t, "drain")
                  => Head(todo[t]) # "close" /\ Head(todo[t]) # "drain"
<1> USE DEF ChannelTypeOK
<1>a. /\ "recv_notify_all" \in Op /\ "send_notify_all" \in Op
      /\ "recv_notify_one" \in Op /\ "send_notify_one" \in Op
    BY DEF Op
<1>1. CASE RecvNotifyOne(t) \/ RecvNotifyAll(t) \/ SendNotifyOne(t) \/ SendNotifyAll(t)
           \/ ExitNotifyAll(t)
    BY <1>1, FinishFacts
       DEF RecvNotifyOne, RecvNotifyAll, SendNotifyOne, SendNotifyAll, ExitNotifyAll,
           queueVars, Pending
<1>2. CASE Close(t)
    <2>1. /\ Tail(todo[t]) \in Seq(Op)
          /\ Remaining(t, "drain") <=> Seqs!Contains(Tail(todo[t]), "drain")
        BY <1>2, ContainsTail DEF Close, Pending, Remaining
    <2>2. ASSUME NEW rest \in Seq(Op)
          PROVE  /\ <<"recv_notify_all", "send_notify_all">> \o rest \in Seq(Op)
                 /\ Seqs!Contains(<<"recv_notify_all", "send_notify_all">> \o rest,
                                  "drain")
                        <=> Seqs!Contains(rest, "drain")
        <3> DEFINE ops == <<"recv_notify_all", "send_notify_all">> \o rest
        <3>1. /\ ops \in Seq(Op)
              /\ Seqs!Contains(ops, "drain")
                     <=> \/ "recv_notify_all" = "drain" \/ "send_notify_all" = "drain"
                         \/ Seqs!Contains(rest, "drain")
            BY ONLY <1>a, ContainsCons2
        <3> QED BY ONLY <3>1
    <2>3. CASE closed
        <3>1. Continue(t, Tail(todo[t]))
            BY <1>2, <2>3 DEF Close, close
        <3> QED BY <1>2, <2>1, <3>1, ContinueFacts DEF Close, close
    <2>4. CASE ~closed
        <3>1. Continue(t, <<"recv_notify_all", "send_notify_all">> \o Tail(todo[t]))
            BY <1>2, <2>4 DEF Close, close
        <3> QED BY <1>2, <2>1, <2>2, <3>1, ContinueFacts DEF Close, close
    <2> QED BY <2>3, <2>4
<1>3. CASE HaltSomeMax(t)
    <2>1. /\ Tail(todo[t]) \in Seq(Op)
          /\ Remaining(t, "drain") <=> Seqs!Contains(Tail(todo[t]), "drain")
        BY <1>3, ContainsTail DEF HaltSomeMax, Pending, Remaining
    <2>2. /\ <<"recv_notify_all">> \o Tail(todo[t]) \in Seq(Op)
          /\ Seqs!Contains(<<"recv_notify_all">> \o Tail(todo[t]), "drain")
                 <=> Seqs!Contains(Tail(todo[t]), "drain")
        BY <1>a, <2>1, ContainsCons
    <2> QED BY <1>3, <2>1, <2>2, ContinueFacts
            DEF HaltSomeMax, halt_some, queueVars, Pending
<1>4. CASE Drain(t)
    <2>1. todo[t] # <<>> /\ Head(todo[t]) = "drain" /\ Remaining(t, "drain")
        BY <1>4, ContainsTail DEF Drain, Pending, Remaining
    <2>2. closed
        <3>1. Head(<<"close", "exit_notify_all", "drain">>) = "close"
            OBVIOUS
        <3> QED BY <2>1, <3>1 DEF ExitInv
    <2>3. CASE queue = <<>>
        BY <1>4, <2>1, <2>2, <2>3 DEF Drain
    <2>4. CASE queue # <<>>
        <3>0. todo[t] \in Seq(Op) /\ Seqs!Contains(todo[t], "drain")
            BY <2>1 DEF Remaining
        <3>1. /\ <<"send_notify_one", "recv_notify_one">> \o todo[t] \in Seq(Op)
              /\ Seqs!Contains(<<"send_notify_one", "recv_notify_one">> \o todo[t],
                               "drain")
            BY <1>a, <3>0, ContainsCons2
        <3>2. Continue(t, <<"send_notify_one", "recv_notify_one">> \o todo[t])
            BY <1>4, <2>4 DEF Drain, pop_msg
        <3>3. Remaining(t, "drain")'
            BY <3>1, <3>2, ContinueFacts
        <3> QED BY <1>4, <2>1, <2>2, <2>4, <3>3 DEF Drain, StillToDo
    <2> QED BY <2>3, <2>4
<1> QED BY <1>1, <1>2, <1>3, <1>4 DEF CallStep

\* No method of a caller drains, and none ends what others drain.
LEMMA CallerStepDrain ==
    ASSUME ChannelTypeOK, NEW c \in Caller, CallerStep(c)
    PROVE  /\ ~Remaining(c, "drain")'
           /\ StillToDo("drain") => StillToDo("drain")'
           /\ closed => closed' /\ queue' = queue
<1> USE DEF ChannelTypeOK
<1>0. /\ c \in Thread /\ ~Remaining(c, "drain") /\ <<>> \in Seq(Op)
      /\ todo[c] = <<>>
    BY CallerStepOthers, ContainsNone DEF Remaining
<1>a. /\ "recv_notify_all" \in Op /\ "send_notify_all" \in Op
      /\ "recv_notify_one" \in Op /\ "halt_some_max" \in Op
    BY DEF Op
<1>b. /\ <<"halt_some_max">> \in Seq(Op)
      /\ ~Seqs!Contains(<<"halt_some_max">>, "drain")
      /\ ~Seqs!Contains(<<>>, "drain")
    BY <1>a, ContainsOne, ContainsNone
<1>c. ASSUME NEW rest \in Seq(Op), ~Seqs!Contains(rest, "drain")
      PROVE  /\ <<"recv_notify_one">> \o rest \in Seq(Op)
             /\ ~Seqs!Contains(<<"recv_notify_one">> \o rest, "drain")
             /\ <<"recv_notify_all">> \o rest \in Seq(Op)
             /\ ~Seqs!Contains(<<"recv_notify_all">> \o rest, "drain")
             /\ <<"recv_notify_all", "send_notify_all">> \o rest \in Seq(Op)
             /\ ~Seqs!Contains(<<"recv_notify_all", "send_notify_all">> \o rest, "drain")
    BY <1>a, <1>c, ContainsCons, ContainsCons2
<1>1. CASE \E ops \in Seq(Op) : Continue(c, ops) /\ ~Seqs!Contains(ops, "drain")
    <2>1. ~Remaining(c, "drain")' /\ (StillToDo("drain") => StillToDo("drain")')
        BY <1>0, <1>1, ContinueFacts
    <2> QED BY <2>1
            DEF CallerStep, CallSendNow, CallClose, CallHaltSome, CallHalt, CallSpawn,
                close, queueVars
<1>2. CASE UNCHANGED todo
    <2>1. ~Remaining(c, "drain")' /\ (StillToDo("drain") => StillToDo("drain")')
        BY <1>0, <1>2 DEF StillToDo, Remaining
    <2> QED BY <2>1
            DEF CallerStep, CallSendNow, CallClose, CallHaltSome, CallHalt, CallSpawn,
                close, queueVars
<1>3. CASE CallSendNow(c) \/ CallHaltSome(c)
    <2>1. Continue(c, <<"recv_notify_one">> \o <<>>)
          \/ Continue(c, <<"recv_notify_all">> \o <<>>)
        BY <1>3 DEF CallSendNow, CallHaltSome, push_msg, halt_some
    <2> QED BY <1>0, <1>b, <1>c, <1>1, <2>1
<1>4. ASSUME NEW rest \in Seq(Op), ~Seqs!Contains(rest, "drain"), close(c, rest)
      PROVE  \E ops \in Seq(Op) : Continue(c, ops) /\ ~Seqs!Contains(ops, "drain")
    BY <1>4, <1>c DEF close
<1>5. CASE CallClose(c) \/ CallHalt(c)
    BY <1>0, <1>b, <1>1, <1>4, <1>5 DEF CallClose, CallHalt
<1> QED BY <1>2, <1>3, <1>5 DEF CallerStep, CallSpawn

\* A step of a call preserves what the exit relies on.
LEMMA ExitInvCallStep ==
    ASSUME ChannelTypeOK, ExitInv, NEW t \in Thread, CallStep(t)
    PROVE  ExitInv'
<1> USE DEF ChannelTypeOK
<1>1. Live' = Live /\ (closed => closed') /\ (queue' # <<>> => queue # <<>>)
    BY CallStepInboxes, CallStepDrain DEF inboxVars, Live
<1>2. Live' = {} => (closed' /\ queue' = <<>>) \/ StillToDo("drain")'
    BY <1>1, CallStepDrain DEF ExitInv
<1>3. ASSUME NEW u \in Thread, Remaining(u, "drain")', ~closed'
      PROVE  todo'[u] = <<"close", "exit_notify_all", "drain">>
    <2>1. CASE u = t
        <3>1. Remaining(t, "drain") /\ todo[t] = <<"close", "exit_notify_all", "drain">>
            BY <1>1, <1>3, <2>1, CallStepDrain DEF ExitInv
        <3>2. Head(<<"close", "exit_notify_all", "drain">>) = "close"
            OBVIOUS
        <3> QED BY <1>3, <3>1, <3>2, CallStepDrain
    <2>2. CASE u # t
        BY <1>1, <1>3, <2>2, CallStepOthers DEF ExitInv, Remaining
    <2> QED BY <2>1, <2>2
<1>4. ASSUME NEW u \in Thread \ Process
      PROVE  ~Remaining(u, "drain")'
    <2>1. ~Remaining(u, "drain")
        BY DEF ExitInv
    <2>2. CASE u = t
        BY <2>1, <2>2, CallStepDrain
    <2>3. CASE u # t
        BY <2>1, <2>3, CallStepOthers DEF Remaining
    <2> QED BY <2>2, <2>3
<1> QED BY <1>2, <1>3, <1>4 DEF ExitInv

\* So does the first step of a method of a caller.
LEMMA ExitInvCallerStep ==
    ASSUME ChannelTypeOK, ExitInv, NEW c \in Caller, CallerStep(c)
    PROVE  ExitInv'
<1>1. Live' = {} => Live = {}
    BY CallerStepOthers DEF Live
<1>2. Live' = {} => (closed' /\ queue' = <<>>) \/ StillToDo("drain")'
    BY <1>1, CallerStepDrain DEF ExitInv
<1>3. ASSUME NEW u \in Thread, Remaining(u, "drain")', ~closed'
      PROVE  todo'[u] = <<"close", "exit_notify_all", "drain">>
    <2>1. u # c /\ ~closed
        BY <1>3, CallerStepDrain
    <2> QED BY <1>3, <2>1, CallerStepOthers DEF ExitInv, Remaining
<1>4. \A u \in Thread \ Process : ~Remaining(u, "drain")'
    BY CallerStepOthers, CallerStepDrain DEF ExitInv, Remaining
<1> QED BY <1>2, <1>3, <1>4 DEF ExitInv

\* So does the destructor of an inbox: that of the last one is going to drain.
LEMMA ExitInvRemove ==
    ASSUME ChannelTypeOK, ExitInv, inbox_count = Cardinality(Live),
           NEW p \in Process, inbox[p] = "live", todo[p] = <<>>, remove_inbox(p),
           UNCHANGED queueVars
    PROVE  ExitInv'
<1> DEFINE call == <<"close", "exit_notify_all", "drain">>
<1>a. /\ todo \in [Thread -> Seq(Op)] /\ p \in Thread
      /\ inbox \in [Process -> {"none", "live", "dropped"}]
    BY ChannelAssumption DEF ChannelTypeOK
<1>b. call \in Seq(Op) /\ <<>> \in Seq(Op)
    BY DEF Op
<1>c. Seqs!Contains(call, "drain") /\ ~Seqs!Contains(<<>>, "drain")
    <2>1. 3 \in 1 .. Len(call) /\ call[3] = "drain"
        OBVIOUS
    <2> QED BY <2>1, ContainsNone DEF Seqs!Contains
<1> HIDE DEF call
<1>1. inbox_count = 1 \/ Live' # {}
    <2>1. inbox_count' = Cardinality(Live') /\ inbox_count' = inbox_count - 1
        BY RemoveInboxFacts DEF remove_inbox
    <2>2. Live' = {} => Cardinality(Live') = 0
        BY FS_EmptySet
    <2>3. inbox_count \in Nat
        BY DEF ChannelTypeOK
    <2> QED BY <2>1, <2>2, <2>3
<1>2. /\ inbox_count = 1 => Continue(p, call)
      /\ inbox_count # 1 => Continue(p, <<>>)
    BY DEF remove_inbox, call
<1>3. /\ \A u \in Thread \ {p} : todo'[u] = todo[u]
      /\ inbox_count = 1 => todo'[p] = call /\ Remaining(p, "drain")'
      /\ inbox_count # 1 => ~Remaining(p, "drain")'
    BY <1>a, <1>b, <1>c, <1>2, ContinueFacts
<1>4. ASSUME NEW u \in Thread, Remaining(u, "drain")', ~closed'
      PROVE  todo'[u] = call
    <2>1. CASE u = p
        BY <1>3, <1>4, <2>1
    <2>2. CASE u # p
        BY <1>3, <1>4, <2>2 DEF ExitInv, Remaining, queueVars, call
    <2> QED BY <2>1, <2>2
<1>5. Live' = {} => StillToDo("drain")'
    BY <1>a, <1>1, <1>3 DEF StillToDo
<1>6. \A u \in Thread \ Process : ~Remaining(u, "drain")'
    BY <1>3 DEF ExitInv, Remaining
<1> QED BY <1>4, <1>5, <1>6 DEF ExitInv, call

\* So does any call that begins, or goes on, without draining.
LEMMA ExitInvOther ==
    ASSUME ChannelTypeOK, ExitInv, NEW t \in Thread, ~Remaining(t, "drain"),
           NEW ops \in Seq(Op), Continue(t, ops), ~Seqs!Contains(ops, "drain"),
           closed => closed' /\ (queue = <<>> => queue' = <<>>),
           Live' = {} => Live = {}
    PROVE  ExitInv'
<1>1. /\ \A u \in Thread \ {t} : todo'[u] = todo[u]
      /\ ~Remaining(t, "drain")'
      /\ StillToDo("drain") => StillToDo("drain")'
    BY ContinueFacts DEF ChannelTypeOK
<1>2. ASSUME NEW u \in Thread, Remaining(u, "drain")', ~closed'
      PROVE  todo'[u] = <<"close", "exit_notify_all", "drain">>
    BY <1>1, <1>2 DEF ExitInv, Remaining
<1>3. \A u \in Thread \ Process : ~Remaining(u, "drain")'
    BY <1>1 DEF ExitInv, Remaining
<1> QED BY <1>1, <1>2, <1>3 DEF ExitInv

\* So does any step that leaves the queue and the calls alone, and removes no inbox.
LEMMA ExitInvFrame ==
    ASSUME ExitInv, UNCHANGED <<queueVars, todo>>, Live' = {} => Live = {}
    PROVE  ExitInv'
BY DEF ExitInv, queueVars, StillToDo, Remaining

\* Where nobody is in a destructor any more, there is nothing left.
LEMMA ExitInvClean == ASSUME ExitInv PROVE ExitLeavesNothing
<1> SUFFICES ASSUME \A p \in Process : inbox[p] # "live" /\ todo[p] = <<>>
             PROVE  closed /\ queue = <<>>
    BY DEF ExitLeavesNothing
<1>1. Live = {}
    BY DEF Live
<1>2. \A p \in Process : ~Remaining(p, "drain")
    BY ContainsNone DEF Remaining
<1>3. ~StillToDo("drain")
    BY <1>2 DEF StillToDo, ExitInv
<1> QED BY <1>1, <1>3 DEF ExitInv
-----------------------------------------------------------------------------
(***************************************************************************)
(* The queue.                                                              *)
(***************************************************************************)
\* A step of a call closes the queue, or drains a closed one, or leaves it alone.
LEMMA CallStepQueue ==
    ASSUME ChannelTypeOK, ExitInv, NEW t \in Thread, CallStep(t)
    PROVE  \/ UNCHANGED queueVars
           \/ closed' = TRUE /\ queue' = queue
           \/ closed /\ closed' = closed /\ queue # <<>> /\ queue' = Tail(queue)
<1>1. CASE Close(t)
    BY <1>1 DEF Close, close
<1>2. CASE Drain(t)
    <2>1. CASE queue # <<>> /\ pop_msg(t, todo[t])
        <3>1. Remaining(t, "drain") /\ Head(todo[t]) = "drain"
            BY <1>2, ContainsTail DEF Drain, Pending, Remaining, ChannelTypeOK
        <3>2. closed /\ closed' = closed
            BY <1>2, <3>1, CallStepDrain DEF Drain
        <3> QED BY <2>1, <3>2 DEF pop_msg
    <2>2. CASE UNCHANGED queue
        BY <1>2, <2>2 DEF Drain, queueVars
    <2> QED BY <1>2, <2>1, <2>2 DEF Drain
<1> QED BY <1>1, <1>2
        DEF CallStep, RecvNotifyOne, RecvNotifyAll, SendNotifyOne, SendNotifyAll,
            ExitNotifyAll, HaltSomeMax

\* The first step of a method of a caller sends a message of its own, closes the
\* queue, or leaves it alone; it adds an inbox only where there is one.
LEMMA CallerStepQueue ==
    ASSUME ChannelTypeOK, NEW c \in Caller, CallerStep(c)
    PROVE  \/ UNCHANGED <<queueVars, inboxVars>>
           \/ closed' = TRUE /\ queue' = queue /\ UNCHANGED inboxVars
           \/ /\ ~closed /\ closed' = closed /\ queue' = Append(queue, c)
              /\ UNCHANGED inboxVars
           \/ /\ UNCHANGED queueVars /\ inbox_count >= 1
              /\ \E p \in Process : /\ inbox[p] = "none"
                                    /\ inbox' = [inbox EXCEPT ![p] = "live"]
BY DEF CallerStep, CallSendNow, CallClose, CallHaltSome, CallHalt, CallSpawn, push_msg,
       close, try_add_inbox, queueVars
=============================================================================
