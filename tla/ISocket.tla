------------------------------- MODULE ISocket --------------------------------
(***************************************************************************)
(* What a network client promises the code above it (Arduino's Client,     *)
(* which SSLClient implements): while a connection is open, its reader     *)
(* gets the bytes of the peer, each once and in order.  A connection may   *)
(* close at any moment and lose what was not read.  Bytes are numbered as  *)
(* the peer sends them.                                                    *)
(***************************************************************************)
EXTENDS Naturals, Sequences

VARIABLES
  open,
  sent,  \* how many bytes the peer has sent over the connection
  got    \* the bytes the reader has got from it

vars == <<open, sent, got>>

Init == open = FALSE /\ sent = 0 /\ got = <<>>

Open == ~open /\ open' = TRUE /\ sent' = 0 /\ got' = <<>>

Arrive == open /\ sent' = sent + 1 /\ UNCHANGED <<open, got>>

\* The next bytes; the connection may be found closed while they are read.
Receive ==
  /\ open
  /\ open' \in BOOLEAN
  /\ \E n \in 1 .. sent - Len(got) :
       got' = got \o [i \in 1 .. n |-> Len(got) + i]
  /\ UNCHANGED sent

Close == open' = FALSE /\ UNCHANGED <<sent, got>>

Next == Open \/ Arrive \/ Receive \/ Close

Spec == Init /\ [][Next]_vars

=============================================================================
