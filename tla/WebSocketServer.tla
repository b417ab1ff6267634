--------------------------- MODULE WebSocketServer ---------------------------
(***************************************************************************)
(* WebSocketServer with its WebSocketSessions and their asynchronous       *)
(* operations.  Sessions are numbered in the order their connections are   *)
(* accepted.  An operation is started, completes at some later moment, in  *)
(* the kernel or in Beast, and its handler runs later still, when the loop *)
(* calls io_context::poll; in between, another handler may close the       *)
(* socket it works on or replace the session it belongs to.  A session     *)
(* that was replaced lives on as long as one of its operations does, since *)
(* every handler holds a shared_ptr to it.                                 *)
(*                                                                         *)
(* The messages the loop sends are numbered, per session, in the order     *)
(* sendMessage takes them.                                                 *)
(***************************************************************************)
EXTENDS Naturals, Sequences

CONSTANTS
  Message,     \* what a page may send
  MaxSession,  \* bound of the connections
  MaxFrames,   \* bound of the page messages the server holds
  MaxSends     \* bound of the messages sent to a page

ASSUME ServerAssumption ==
  MaxSession \in Nat /\ MaxFrames \in Nat /\ MaxSends \in Nat

VARIABLES
  polling,      \* io_context_.poll() is running
  session,      \* session_; 0 before the first connection
  received,     \* received_messages_, each with the session it came from
  connected,    \* per session, connected_
  open,         \* per session, its socket is open
  reading,      \* per session, the outstanding async_accept or async_read
  readResult,   \* per session, what that operation has completed with
  arrived,      \* per session, the page's messages not yet read
  queue,        \* per session, write_queue_
  writes,       \* per session, the buffers of its outstanding async_writes
  writeResult,  \* per session, what the first of them has completed with
  sent,         \* history: per session, how many messages sendMessage took
  delivered     \* history: per session, the messages the page got

incoming == <<reading, readResult, arrived>>
outgoing == <<queue, writes, writeResult, sent, delivered>>
vars == <<polling, session, received, connected, open, incoming, outgoing>>

Session == 1 .. MaxSession
Result == {"pending", "ok", "error"}

TypeOK ==
  /\ polling \in BOOLEAN
  /\ session \in 0 .. MaxSession
  /\ received \in Seq(Message)
  /\ connected \in [Session -> BOOLEAN]
  /\ open \in [Session -> BOOLEAN]
  /\ reading \in [Session -> {"none", "handshake", "read"}]
  /\ readResult \in [Session -> Result]
  /\ arrived \in [Session -> Seq(Message)]
  /\ queue \in [Session -> Seq(Nat)]
  /\ writes \in [Session -> Seq(Nat)]
  /\ \A s \in Session : Len(writes[s]) <= 1
  /\ writeResult \in [Session -> Result]
  /\ sent \in [Session -> Nat]
  /\ delivered \in [Session -> Seq(Nat)]

\* startListening has succeeded and the first async_accept waits.
Init ==
  /\ polling = FALSE
  /\ session = 0
  /\ received = <<>>
  /\ connected = [s \in Session |-> FALSE]
  /\ open = [s \in Session |-> FALSE]
  /\ reading = [s \in Session |-> "none"]
  /\ readResult = [s \in Session |-> "pending"]
  /\ arrived = [s \in Session |-> <<>>]
  /\ queue = [s \in Session |-> <<>>]
  /\ writes = [s \in Session |-> <<>>]
  /\ writeResult = [s \in Session |-> "pending"]
  /\ sent = [s \in Session |-> 0]
  /\ delivered = [s \in Session |-> <<>>]

Live == session # 0 /\ connected[session]

(***************************************************************************)
(* The page and the completion of operations.                              *)
(***************************************************************************)
HandshakeDone(s) ==
  \/ reading[s] = "handshake" /\ readResult[s] = "ok"
  \/ reading[s] = "read"

PageSends(s, message) ==
  /\ open[s]
  /\ HandshakeDone(s)
  /\ Len(received) + Len(arrived[s]) < MaxFrames
  /\ arrived' = [arrived EXCEPT ![s] = Append(@, message)]
  /\ UNCHANGED <<polling, session, received, connected, open, reading,
                 readResult, outgoing>>

\* The handshake needs the connection; a message can also be read from what
\* Beast had taken off the socket before it was closed.  On a closed socket,
\* after a time limit or when the page is gone the operation fails.
ReadCompletes(s) ==
  /\ reading[s] # "none"
  /\ readResult[s] = "pending"
  /\ \/ /\ reading[s] = "handshake" /\ open[s]
        /\ readResult' = [readResult EXCEPT ![s] = "ok"]
     \/ /\ reading[s] = "read" /\ arrived[s] # <<>>
        /\ readResult' = [readResult EXCEPT ![s] = "ok"]
     \/ readResult' = [readResult EXCEPT ![s] = "error"]
  /\ UNCHANGED <<polling, session, received, connected, open, reading, arrived,
                 outgoing>>

WriteCompletes(s) ==
  /\ writes[s] # <<>>
  /\ writeResult[s] = "pending"
  /\ \/ /\ open[s]
        /\ writeResult' = [writeResult EXCEPT ![s] = "ok"]
        /\ delivered' = [delivered EXCEPT ![s] = Append(@, Head(writes[s]))]
     \/ /\ writeResult' = [writeResult EXCEPT ![s] = "error"]
        /\ UNCHANGED delivered
  /\ UNCHANGED <<polling, session, received, connected, open, incoming, queue,
                 writes, sent>>

(***************************************************************************)
(* The session's methods.                                                  *)
(***************************************************************************)
Read(s) == reading[s] = "read" /\ readResult[s] = "ok"

\* What is left of the page's messages when the socket is closed: the one that
\* has been read and what Beast had taken off the socket behind it.
KeptBy(s) ==
  IF open[s]
  THEN LET least == IF Read(s) THEN 1 ELSE 0
       IN  {SubSeq(arrived[s], 1, n) : n \in least .. Len(arrived[s])}
  ELSE {arrived[s]}

\* The buffer of the write that a queue calls for.
FrontOf(messages) == IF messages = <<>> THEN <<>> ELSE <<Head(messages)>>

Close(s) ==
  /\ connected' = [connected EXCEPT ![s] = FALSE]
  /\ open' = [open EXCEPT ![s] = FALSE]
  /\ \E kept \in KeptBy(s) : arrived' = [arrived EXCEPT ![s] = kept]

\* sendMessage with a page connected; without one it does nothing.
SendMessage ==
  /\ ~polling
  /\ Live
  /\ sent[session] < MaxSends
  /\ sent' = [sent EXCEPT ![session] = @ + 1]
  /\ queue' = [queue EXCEPT ![session] = Append(@, sent'[session])]
  /\ writes' = IF Len(queue'[session]) = 1
               THEN [writes EXCEPT ![session] = queue'[session]]
               ELSE writes
  /\ UNCHANGED <<polling, session, received, connected, open, incoming,
                 writeResult, delivered>>

(***************************************************************************)
(* The handlers, which run while the loop polls.                           *)
(***************************************************************************)
\* Mutant for ImplementsPageLink: what the old page sent stays queued.
AcceptNextKeepingReceived ==
  /\ polling
  /\ session < MaxSession
  /\ session' = session + 1
  /\ connected' = [s \in Session |-> s # session /\ connected[s]]
  /\ open' = [s \in Session |-> s = session' \/ (s # session /\ open[s])]
  /\ \E kept \in IF session = 0 THEN {<<>>} ELSE KeptBy(session) :
       arrived' = [s \in Session |-> IF s = session THEN kept ELSE arrived[s]]
  /\ reading' = [reading EXCEPT ![session'] = "handshake"]
  /\ UNCHANGED <<polling, received, readResult, outgoing>>

\* Mutant for SettledBetweenPolls: the session replaced is not closed.
AcceptNextLeavingOpen ==
  /\ polling
  /\ session < MaxSession
  /\ session' = session + 1
  /\ received' = <<>>
  /\ open' = [open EXCEPT ![session'] = TRUE]
  /\ reading' = [reading EXCEPT ![session'] = "handshake"]
  /\ UNCHANGED <<polling, connected, arrived, readResult, outgoing>>

\* A connection is accepted: closeClient, a new session and its start.
AcceptNext ==
  /\ polling
  /\ session < MaxSession
  /\ session' = session + 1
  /\ received' = <<>>
  /\ connected' = [s \in Session |-> s # session /\ connected[s]]
  /\ open' = [s \in Session |-> s = session' \/ (s # session /\ open[s])]
  /\ \E kept \in IF session = 0 THEN {<<>>} ELSE KeptBy(session) :
       arrived' = [s \in Session |-> IF s = session THEN kept ELSE arrived[s]]
  /\ reading' = [reading EXCEPT ![session'] = "handshake"]
  /\ UNCHANGED <<polling, readResult, outgoing>>

\* Mutant for ReplacedSessionsEnd: the handler reads on after an error.
ReadFailsReadingOn(s) ==
  /\ polling
  /\ reading[s] # "none"
  /\ readResult[s] = "error"
  /\ Close(s)
  /\ reading' = [reading EXCEPT ![s] = "read"]
  /\ readResult' = [readResult EXCEPT ![s] = "pending"]
  /\ UNCHANGED <<polling, session, received, outgoing>>

\* Mutant for WritesAreSerial: closing a session empties its queue, also when
\* a write of its front is outstanding.
ReadFailsDroppingQueue(s) ==
  /\ polling
  /\ reading[s] # "none"
  /\ readResult[s] = "error"
  /\ Close(s)
  /\ reading' = [reading EXCEPT ![s] = "none"]
  /\ readResult' = [readResult EXCEPT ![s] = "pending"]
  /\ queue' = [queue EXCEPT ![s] = <<>>]
  /\ UNCHANGED <<polling, session, received, writes, writeResult, sent,
                 delivered>>

\* The operation of a session has failed: it is closed and reads no more.
ReadFails(s) ==
  /\ polling
  /\ reading[s] # "none"
  /\ readResult[s] = "error"
  /\ Close(s)
  /\ reading' = [reading EXCEPT ![s] = "none"]
  /\ readResult' = [readResult EXCEPT ![s] = "pending"]
  /\ UNCHANGED <<polling, session, received, outgoing>>

\* The handshake is done: connected_ is set, also in a session that has been
\* replaced meanwhile, and readNext starts reading.
Handshake(s) ==
  /\ polling
  /\ reading[s] = "handshake"
  /\ readResult[s] = "ok"
  /\ connected' = [connected EXCEPT ![s] = TRUE]
  /\ reading' = [reading EXCEPT ![s] = "read"]
  /\ readResult' = [readResult EXCEPT ![s] = "pending"]
  /\ UNCHANGED <<polling, session, received, open, arrived, outgoing>>

\* A message was read: it is queued for the loop and the next read starts.
ReadNext(s) ==
  /\ polling
  /\ Read(s)
  /\ received' = Append(received, Head(arrived[s]))
  /\ arrived' = [arrived EXCEPT ![s] = Tail(@)]
  /\ readResult' = [readResult EXCEPT ![s] = "pending"]
  /\ UNCHANGED <<polling, session, connected, open, reading, outgoing>>

\* Mutant for MessagesReachThePage: a write does not start the next one.
WriteNextOnce(s) ==
  /\ polling
  /\ writes[s] # <<>>
  /\ writeResult[s] = "ok"
  /\ queue' = [queue EXCEPT ![s] = Tail(@)]
  /\ writes' = [writes EXCEPT ![s] = <<>>]
  /\ writeResult' = [writeResult EXCEPT ![s] = "pending"]
  /\ UNCHANGED <<polling, session, received, connected, open, incoming, sent,
                 delivered>>

\* Mutant for NothingLostOrRepeated: the message written stays in the queue.
WriteNextKeepingFront(s) ==
  /\ polling
  /\ writes[s] # <<>>
  /\ writeResult[s] = "ok"
  /\ queue' = queue
  /\ writes' = [writes EXCEPT ![s] = FrontOf(queue[s])]
  /\ writeResult' = [writeResult EXCEPT ![s] = "pending"]
  /\ UNCHANGED <<polling, session, received, connected, open, incoming, sent,
                 delivered>>

\* A message was written: it leaves the queue and the next one is written.
WriteNext(s) ==
  /\ polling
  /\ writes[s] # <<>>
  /\ writeResult[s] = "ok"
  /\ queue' = [queue EXCEPT ![s] = Tail(@)]
  /\ writes' = [writes EXCEPT ![s] = FrontOf(queue'[s])]
  /\ writeResult' = [writeResult EXCEPT ![s] = "pending"]
  /\ UNCHANGED <<polling, session, received, connected, open, incoming, sent,
                 delivered>>

\* A write has failed: the session is closed and its queue dropped.
WriteFails(s) ==
  /\ polling
  /\ writes[s] # <<>>
  /\ writeResult[s] = "error"
  /\ Close(s)
  /\ queue' = [queue EXCEPT ![s] = <<>>]
  /\ writes' = [writes EXCEPT ![s] = <<>>]
  /\ writeResult' = [writeResult EXCEPT ![s] = "pending"]
  /\ UNCHANGED <<polling, session, received, reading, readResult, sent,
                 delivered>>

(***************************************************************************)
(* The loop.                                                               *)
(***************************************************************************)
PollStarts ==
  /\ ~polling
  /\ polling' = TRUE
  /\ UNCHANGED <<session, received, connected, open, incoming, outgoing>>

\* An operation whose handler is due, or comes due at once because its socket
\* is closed.
ReadReady(s) == reading[s] # "none" /\ (readResult[s] # "pending" \/ ~open[s])
WriteReady(s) == writes[s] # <<>> /\ (writeResult[s] # "pending" \/ ~open[s])

\* poll returns when no handler is ready.
PollReturns ==
  /\ polling
  /\ \A s \in Session : ~ReadReady(s) /\ ~WriteReady(s)
  /\ polling' = FALSE
  /\ UNCHANGED <<session, received, connected, open, incoming, outgoing>>

TakeMessage ==
  /\ ~polling
  /\ received # <<>>
  /\ received' = Tail(received)
  /\ UNCHANGED <<polling, session, connected, open, incoming, outgoing>>

Handlers(s) ==
  ReadFails(s) \/ Handshake(s) \/ ReadNext(s) \/ WriteNext(s) \/ WriteFails(s)

Next ==
  \/ PollStarts \/ PollReturns \/ TakeMessage \/ SendMessage \/ AcceptNext
  \/ \E s \in Session :
       \/ Handlers(s) \/ ReadCompletes(s) \/ WriteCompletes(s)
       \/ \E message \in Message : PageSends(s, message)

Spec == Init /\ [][Next]_vars

\* The loop polls again and again and poll runs what is ready.  A write ends:
\* the page reads, or the connection fails at the latest when Beast's idle time
\* limit is over; so does every operation on a closed socket.
FairSpec ==
  /\ Spec
  /\ WF_vars(PollStarts)
  /\ \A s \in Session :
       /\ WF_vars(Handlers(s))
       /\ WF_vars(WriteCompletes(s))
       /\ WF_vars(~open[s] /\ ReadCompletes(s))

(***************************************************************************)
(* Properties.                                                             *)
(***************************************************************************)

\* Beast allows one async_write at a time per stream, and its buffer must stay
\* alive until it completes: what is being written is always the front of the
\* queue, also while the session is being closed or has been replaced.
WritesAreSerial ==
  \A s \in Session : writes[s] = FrontOf(queue[s])

\* The messages the page got and those queued, without the front when its write
\* has succeeded, are together all the messages the loop has sent, in order,
\* none lost and none repeated, as long as the session is connected.
Unwritten(s) ==
  IF writeResult[s] = "ok" THEN Tail(queue[s]) ELSE queue[s]

NothingLostOrRepeated ==
  \A s \in Session :
    connected[s] => delivered[s] \o Unwritten(s) = [i \in 1 .. sent[s] |-> i]

\* Between two polls no session other than the connected one can still deliver a
\* message: whatever a replaced session had left was delivered or dropped within
\* the poll that replaced it.
SettledBetweenPolls ==
  ~polling => \A s \in Session : reading[s] = "read" => s = session /\ Live

\* The server is what the loop takes it for.
Link ==
  IF session = 0 THEN "none"
  ELSE IF connected[session] THEN "up"
  ELSE IF reading[session] = "handshake" THEN "handshake"
  ELSE "closed"

Reads ==
  {s \in Session :
     reading[s] = "read" \/ (reading[s] = "handshake" /\ s # session)}

Page == INSTANCE PageLink WITH link <- Link, reads <- Reads

ImplementsPageLink == Page!Spec

\* A message handed to sendMessage reaches the page or the session ends.
MessagesReachThePage ==
  \A s \in Session, i \in 1 .. MaxSends :
    connected[s] /\ sent[s] >= i ~> ~connected[s] \/ Len(delivered[s]) >= i

\* A session that was replaced ends: no operation of it stays outstanding and
\* keeps it alive.
ReplacedSessionsEnd ==
  \A s \in Session :
    s < session ~> reading[s] = "none" /\ writes[s] = <<>>
=============================================================================
