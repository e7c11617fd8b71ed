---------------------------- MODULE EventListener ----------------------------
(***************************************************************************)
(* The part of the external crate event-listener 2.5 that the channel      *)
(* relies on.  An Event keeps a list of listeners; a listener is created   *)
(* by listen(), is waiting until a notification reaches it, and leaves     *)
(* the list when it is polled in the notified state or dropped.            *)
(*                                                                         *)
(* An event is a record of two disjoint sets of listener owners (an inbox, *)
(* a send future or an address owns at most one listener of an event).     *)
(* notify(n) reaches the listeners in the order they were created; the     *)
(* order is abstracted to a nondeterministic choice, so that an operator   *)
(* that may choose returns the set of events it can produce.               *)
(***************************************************************************)
EXTENDS FiniteSets

\* Event::new().
NewEvent == [waiting |-> {}, notified |-> {}]

\* The owners that hold a listener of the event.
Listeners(event) == event.waiting \cup event.notified

EventType(owners) == [waiting : SUBSET owners, notified : SUBSET owners]

\* event.listen(), the listener going to owner.
Listen(event, owner) == [event EXCEPT !.waiting = @ \cup {owner}]

\* event.notify(1): at least one listener of the list is notified, so that a
\* notified listener that was not polled yet absorbs the call.
NotifyOne(event) ==
    IF event.notified # {} \/ event.waiting = {}
    THEN {event}
    ELSE {[waiting |-> event.waiting \ {owner}, notified |-> {owner}] :
              owner \in event.waiting}

\* event.notify(usize::MAX).
NotifyAll(event) == [waiting |-> {}, notified |-> Listeners(event)]

\* The owner's listener leaves the list.
Remove(event, owner) ==
    [waiting |-> event.waiting \ {owner}, notified |-> event.notified \ {owner}]

\* Dropping a listener passes a notification it received and never took on to
\* another listener.
DropListener(event, owner) ==
    IF owner \in event.notified
    THEN NotifyOne(Remove(event, owner))
    ELSE {Remove(event, owner)}
=============================================================================
