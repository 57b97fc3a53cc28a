------------------------------ MODULE Channel ------------------------------
(***************************************************************************)
(* What a comm_t channel promises to the two tasks it connects: messages   *)
(* come out whole, once, and in the order they went in; a message goes     *)
(* missing only when its reader offers a buffer that is too small for it,  *)
(* and the writer is told so when a message was not taken.                 *)
(* CommRing is the code's implementation of it.                            *)
(***************************************************************************)
EXTENDS Naturals, Sequences

CONSTANT Messages    \* records with a tag (what was sent) and a size

VARIABLES chan,      \* the messages sent and not yet received, oldest first
          out        \* what the last call on the channel returned

vars == <<chan, out>>

Payload(m) == [i \in 1..m.size |-> <<"data", m.tag, i - 1>>]

Nothing   == [op |-> "none", size |-> 0, data |-> <<>>]
Accepted  == [op |-> "put_ok", size |-> 0, data |-> <<>>]
Refused   == [op |-> "put_full", size |-> 0, data |-> <<>>]
NoMessage == [op |-> "empty", size |-> 0, data |-> <<>>]
Got(m)    == [op |-> "got", size |-> m.size, data |-> Payload(m)]
Short(m)  == [op |-> "short", size |-> m.size, data |-> <<>>]

Init == chan = <<>> /\ out = Nothing

Send(m) == chan' = Append(chan, m) /\ out' = Accepted

\* Only a channel that holds something may refuse a message.
Refuse == chan # <<>> /\ out' = Refused /\ UNCHANGED chan

Recv == chan # <<>> /\ chan' = Tail(chan) /\ out' = Got(Head(chan))

\* The reader's buffer was too small: it learns the size, the message is gone.
Lose == chan # <<>> /\ chan' = Tail(chan) /\ out' = Short(Head(chan))

Poll == chan = <<>> /\ out' = NoMessage /\ UNCHANGED chan

Next == (\E m \in Messages : Send(m)) \/ Refuse \/ Recv \/ Lose \/ Poll

Spec == Init /\ [][Next]_vars
============================================================================
