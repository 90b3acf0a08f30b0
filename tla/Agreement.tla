------------------------------- MODULE Agreement -------------------------------
(***************************************************************************)
(* What the handshake of ws.io promises to the two ends of one websocket:  *)
(* the server accepts a client that has answered its Init packet, announces*)
(* this with the Ready packet only then, and a client takes itself for     *)
(* ready only after the announcement.  Each end may give up at any time,   *)
(* and an end that has given up does nothing more.                         *)
(***************************************************************************)
VARIABLES
  server,     \* "asking", "accepted" or "closed"
  answered,   \* the client has answered the Init packet
  announced,  \* the Ready packet is on the wire
  client      \* "asking", "ready" or "closed"

vars == <<server, answered, announced, client>>

Init == server = "asking" /\ answered = FALSE /\ announced = FALSE /\ client = "asking"

Answer ==
  /\ ~ answered /\ answered' = TRUE /\ UNCHANGED <<server, announced, client>>

Accept ==
  /\ server = "asking" /\ answered
  /\ server' = "accepted" /\ UNCHANGED <<answered, announced, client>>

\* The server may have begun to close by the time the packet goes out.
Announce ==
  /\ server \in {"accepted", "closed"} /\ answered /\ ~ announced
  /\ announced' = TRUE /\ UNCHANGED <<server, answered, client>>

BecomeReady ==
  /\ client = "asking" /\ announced
  /\ client' = "ready" /\ UNCHANGED <<server, answered, announced>>

ServerCloses ==
  server # "closed" /\ server' = "closed" /\ UNCHANGED <<answered, announced, client>>

ClientCloses ==
  client # "closed" /\ client' = "closed" /\ UNCHANGED <<server, answered, announced>>

Next == Answer \/ Accept \/ Announce \/ BecomeReady \/ ServerCloses \/ ClientCloses

Spec == Init /\ [][Next]_vars

=============================================================================
