------------------------------ MODULE PageLink ------------------------------
(***************************************************************************)
(* What the event loop may rely on of the WebSocket server: the abstract   *)
(* specification that WebSocketServer implements and that Cockpit composes *)
(* with the rest of the loop.  Pages connect one after the other; the      *)
(* latest is the current session.  While it is up the loop can send to it, *)
(* and what it sends is queued for the loop.  A session that was replaced  *)
(* or has closed may deliver a few more messages before its reading ends.  *)
(***************************************************************************)
EXTENDS Naturals, Sequences

CONSTANT Message   \* what a page may send

VARIABLES
  session,   \* the number of the current session, 0 before any
  link,      \* the current session: none, handshake, up or closed
  reads,     \* the sessions that may still deliver a message
  received   \* received_messages_

vars == <<session, link, reads, received>>

Init ==
  /\ session = 0
  /\ link = "none"
  /\ reads = {}
  /\ received = <<>>

Connected == link = "up"

\* A connection is accepted: it replaces the current session and what was
\* received is dropped.  The handshake of the old session may already have
\* succeeded.
Accept ==
  /\ session' = session + 1
  /\ reads' = IF link = "handshake" THEN reads \cup {session} ELSE reads
  /\ link' = "handshake"
  /\ received' = <<>>

Handshake ==
  /\ link = "handshake"
  /\ link' = "up"
  /\ reads' = reads \cup {session}
  /\ UNCHANGED <<session, received>>

\* The handshake, a read or a write of the current session fails.
Fail ==
  /\ link \in {"handshake", "up"}
  /\ link' = "closed"
  /\ reads' \in {reads, reads \ {session}}
  /\ UNCHANGED <<session, received>>

Deliver(s, message) ==
  /\ s \in reads
  /\ received' = Append(received, message)
  /\ UNCHANGED <<session, link, reads>>

\* The reading of a session that is not connected any more.
Stale == {s \in reads : s # session \/ ~Connected}

EndReading(s) ==
  /\ s \in Stale
  /\ reads' = reads \ {s}
  /\ UNCHANGED <<session, link, received>>

Take ==
  /\ received # <<>>
  /\ received' = Tail(received)
  /\ UNCHANGED <<session, link, reads>>

Next ==
  \/ Accept \/ Handshake \/ Fail \/ Take
  \/ \E s \in reads :
       EndReading(s) \/ \E message \in Message : Deliver(s, message)

Spec == Init /\ [][Next]_vars
=============================================================================
