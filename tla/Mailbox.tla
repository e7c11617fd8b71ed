------------------------------- MODULE Mailbox -------------------------------
(***************************************************************************)
(* What the channel promises to those who send: a queue that accepts       *)
(* messages while it is open, gives each of them to one process of the     *)
(* actor in the order they arrived, also after it was closed, and discards *)
(* what is left once the actor has exited and the queue is closed.         *)
(***************************************************************************)
EXTENDS Sequences

CONSTANTS Member, Message

VARIABLES messages, open, members

mailboxVars == <<messages, open, members>>

Init ==
    /\ messages = <<>>
    /\ open = TRUE
    /\ members \in (SUBSET Member) \ {{}}

Deliver ==
    /\ open
    /\ \E m \in Message : messages' = Append(messages, m)
    /\ UNCHANGED <<open, members>>

\* A process receives the message, or nobody is left who could.
Remove ==
    /\ messages # <<>>
    /\ members # {} \/ ~open
    /\ messages' = Tail(messages)
    /\ UNCHANGED <<open, members>>

Shut ==
    /\ open' = FALSE
    /\ UNCHANGED <<messages, members>>

\* A process joins only an actor that has not exited.
Join ==
    /\ members # {}
    /\ \E p \in Member \ members : members' = members \cup {p}
    /\ UNCHANGED <<messages, open>>

Leave ==
    /\ \E p \in members : members' = members \ {p}
    /\ UNCHANGED <<messages, open>>

Next == Deliver \/ Remove \/ Shut \/ Join \/ Leave

Spec == Init /\ [][Next]_mailboxVars

\* Nothing stays behind, and no more is accepted, once the last process is gone.
Emptied == members = {} ~> (~open /\ messages = <<>>)
=============================================================================
