------------------------------- MODULE Lifecycle -------------------------------
(***************************************************************************)
(* What an actor promises to its owner and to those who await it: it is    *)
(* joined by members until the last one has left and by none afterwards,   *)
(* each of them comes to one end after it has left, to that of an abort    *)
(* only if it was condemned, the owner is told of each end once and        *)
(* truthfully, and nobody sees the exit before the last member has left.   *)
(***************************************************************************)
CONSTANTS
    Member,   \* those who may join
    Watcher   \* those who may wait for the exit

VARIABLES
    started,  \* those who joined
    members,  \* those of them who have not left
    doomed,   \* those whose abort was asked for
    outcome,  \* how each of them ended, or "None"
    told,     \* what the owner was told of each
    seen      \* the watchers who saw the exit

lifeVars == <<started, members, doomed, outcome, told, seen>>

Init ==
    /\ started \in (SUBSET Member) \ {{}}
    /\ members = started
    /\ doomed = {}
    /\ outcome = [p \in Member |-> "None"]
    /\ told = [p \in Member |-> "None"]
    /\ seen = {}

Join(p) ==
    /\ members # {} /\ p \notin started
    /\ started' = started \cup {p}
    /\ members' = members \cup {p}
    /\ UNCHANGED <<doomed, outcome, told, seen>>

Leave(p) ==
    /\ p \in members
    /\ members' = members \ {p}
    /\ UNCHANGED <<started, doomed, outcome, told, seen>>

Condemn ==
    /\ doomed' \in SUBSET Member /\ doomed \subseteq doomed'
    /\ UNCHANGED <<started, members, outcome, told, seen>>

End(p, result) ==
    /\ p \in started \ members /\ outcome[p] = "None"
    /\ result = "Abort" => p \in doomed
    /\ outcome' = [outcome EXCEPT ![p] = result]
    /\ UNCHANGED <<started, members, doomed, told, seen>>

Tell(p) ==
    /\ outcome[p] # "None" /\ told[p] = "None"
    /\ told' = [told EXCEPT ![p] = outcome[p]]
    /\ UNCHANGED <<started, members, doomed, outcome, seen>>

See(w) ==
    /\ members = {}
    /\ seen' = seen \cup {w}
    /\ UNCHANGED <<started, members, doomed, outcome, told>>

Next ==
    \/ \E p \in Member :
           \/ Join(p) \/ Leave(p) \/ Tell(p)
           \/ \E result \in {"Ok", "Panic", "Abort"} : End(p, result)
    \/ Condemn
    \/ \E w \in Watcher : See(w)

Spec == Init /\ [][Next]_lifeVars
=============================================================================
