--------------------------- MODULE WebSocketProofs ---------------------------
(***************************************************************************)
(* Proofs about WebSocketServer, for any number of connections, of page    *)
(* messages and of sent messages.  Its inductive invariant IInv is the     *)
(* conjunction of the type invariant and of the parts below.  Two theorems *)
(* follow from it besides the invariants the runs check: what a page gets  *)
(* is what was sent, and the server implements PageLink.                   *)
(*                                                                         *)
(* The last part is about the page at the other end (ControlPage): what it *)
(* shows and what the cockpit drives agree.                                *)
(***************************************************************************)
EXTENDS WebSocketServer, ControlPage, SequenceTheorems, TLAPS

(***************************************************************************)
(* The parts of the invariant.                                             *)
(***************************************************************************)
\* What a session is before it starts to read: nothing was sent to it.
Untouched(s) ==
  /\ queue[s] = <<>> /\ writes[s] = <<>>
  /\ sent[s] = 0 /\ delivered[s] = <<>>

\* A session that was not accepted yet has done nothing.
Fresh(s) ==
  /\ ~connected[s] /\ ~open[s]
  /\ reading[s] = "none" /\ arrived[s] = <<>>
  /\ Untouched(s)

FutureIsFresh == \A s \in Session : s > session => Fresh(s)

\* closeClient precedes every new session: only the current one is open.
OneOpen == \A s \in Session : open[s] => s = session

\* A session is connected only while it reads, it reads while it is open, and it
\* sends nothing before.
Phases ==
  \A s \in Session :
    /\ connected[s] => reading[s] = "read"
    /\ reading[s] = "read" /\ open[s] => connected[s]
    /\ reading[s] = "handshake" => Untouched(s)
    /\ reading[s] = "none" => readResult[s] = "pending"
    /\ Read(s) => arrived[s] # <<>>

WriteHasFront ==
  \A s \in Session :
    /\ writes[s] = FrontOf(queue[s])
    /\ writes[s] = <<>> => writeResult[s] = "pending"

IInv ==
  /\ TypeOK
  /\ FutureIsFresh
  /\ OneOpen
  /\ Phases
  /\ WriteHasFront

(***************************************************************************)
(* Type correctness.                                                       *)
(***************************************************************************)
LEMMA KeptByType ==
  ASSUME TypeOK, NEW s \in Session, NEW kept \in KeptBy(s)
  PROVE  /\ kept \in Seq(Message)
         /\ Read(s) /\ arrived[s] # <<>> => kept # <<>>
<1>1. arrived[s] \in Seq(Message)
  BY DEF TypeOK
<1> QED
  BY <1>1 DEF KeptBy

LEMMA CloseType ==
  ASSUME TypeOK, NEW s \in Session, Close(s)
  PROVE  /\ connected' \in [Session -> BOOLEAN]
         /\ open' \in [Session -> BOOLEAN]
         /\ arrived' \in [Session -> Seq(Message)]
BY KeptByType DEF TypeOK, Close

LEMMA AppendType ==
  ASSUME NEW S, NEW seq \in Seq(S), NEW e \in S
  PROVE  Append(seq, e) \in Seq(S)
OBVIOUS

LEMMA AppendFacts ==
  ASSUME NEW S, NEW seq \in Seq(S), NEW e \in S
  PROVE  /\ Append(seq, e) # <<>>
         /\ Len(Append(seq, e)) = Len(seq) + 1
         /\ seq # <<>> =>
              /\ Len(Append(seq, e)) # 1
              /\ Head(Append(seq, e)) = Head(seq)
              /\ Tail(Append(seq, e)) = Append(Tail(seq), e)
<1>1. Append(seq, e) # <<>> /\ Len(Append(seq, e)) = Len(seq) + 1
  BY AppendProperties
<1>2. seq # <<>> => Len(seq) \in Nat \ {0}
  BY EmptySeq
<1>3. seq # <<>> => /\ Head(Append(seq, e)) = Head(seq)
                    /\ Tail(Append(seq, e)) = Append(Tail(seq), e)
  BY HeadTailAppend
<1> QED
  BY <1>1, <1>2, <1>3

LEMMA TailType ==
  ASSUME NEW S, NEW seq \in Seq(S), seq # <<>>
  PROVE  Tail(seq) \in Seq(S) /\ Head(seq) \in S
OBVIOUS

LEMMA FrontType ==
  ASSUME NEW S, NEW seq \in Seq(S)
  PROVE  FrontOf(seq) \in Seq(S) /\ Len(FrontOf(seq)) <= 1
<1>1. CASE seq = <<>>
  BY <1>1 DEF FrontOf
<1>2. CASE seq # <<>>
  BY <1>2, Head(seq) \in S DEF FrontOf
<1> QED
  BY <1>1, <1>2

LEMMA WriteStarts ==
  ASSUME NEW s \in Session, writes \in [Session -> Seq(Nat)],
         \A r \in Session : Len(writes[r]) <= 1,
         NEW front \in Seq(Nat), Len(front) <= 1,
         writes' = [writes EXCEPT ![s] = front]
  PROVE  /\ writes' \in [Session -> Seq(Nat)]
         /\ \A r \in Session : Len(writes'[r]) <= 1
OBVIOUS

LEMMA TypeStep ==
  ASSUME TypeOK, WriteHasFront, Phases, [Next]_vars
  PROVE  TypeOK'
<1> USE DEF incoming, outgoing
<1>1. ASSUME NEW s \in Session, NEW message \in Message, PageSends(s, message)
      PROVE  TypeOK'
  <2>1. Append(arrived[s], message) \in Seq(Message)
    BY AppendType DEF TypeOK
  <2> QED
    BY <1>1, <2>1 DEF PageSends, TypeOK
<1>2. ASSUME NEW s \in Session, ReadCompletes(s)
      PROVE  TypeOK'
  BY <1>2 DEF ReadCompletes, Result, TypeOK
<1>3. ASSUME NEW s \in Session, WriteCompletes(s)
      PROVE  TypeOK'
  <2>1. Append(delivered[s], Head(writes[s])) \in Seq(Nat)
    BY <1>3, TailType, AppendType DEF WriteCompletes, TypeOK
  <2>2. delivered' \in [Session -> Seq(Nat)]
    BY <1>3, <2>1 DEF WriteCompletes, TypeOK
  <2>3. writeResult' \in [Session -> Result]
    BY <1>3 DEF WriteCompletes, TypeOK, Result
  <2> QED
    BY <1>3, <2>2, <2>3 DEF WriteCompletes, TypeOK
<1>4. CASE SendMessage
  <2>1. session \in Session
    BY <1>4 DEF SendMessage, Live, TypeOK, Session
  <2>2. sent' \in [Session -> Nat] /\ sent'[session] \in Nat
    BY <1>4, <2>1 DEF SendMessage, TypeOK
  <2>3. Append(queue[session], sent'[session]) \in Seq(Nat)
    BY <2>1, <2>2, AppendType DEF TypeOK
  <2>4. /\ queue' \in [Session -> Seq(Nat)]
        /\ queue'[session] = Append(queue[session], sent'[session])
    BY <1>4, <2>1, <2>3 DEF SendMessage, TypeOK
  <2>5. /\ writes' \in [Session -> Seq(Nat)]
        /\ \A r \in Session : Len(writes'[r]) <= 1
    <3>1. CASE writes' = writes
      BY <3>1 DEF TypeOK
    <3>2. CASE /\ Len(queue'[session]) = 1
               /\ writes' = [writes EXCEPT ![session] = queue'[session]]
      BY <2>1, <2>3, <2>4, <3>2, WriteStarts DEF TypeOK
    <3> QED
      BY <1>4, <3>1, <3>2 DEF SendMessage
  <2> QED
    BY <1>4, <2>2, <2>4, <2>5 DEF SendMessage, TypeOK
<1>5. CASE AcceptNext
  <2>1. session' \in Session /\ session' \in 0 .. MaxSession
    BY <1>5, ServerAssumption DEF AcceptNext, Session, TypeOK
  <2>2. arrived' \in [Session -> Seq(Message)]
    <3>1. PICK kept \in IF session = 0 THEN {<<>>} ELSE KeptBy(session) :
            arrived' = [s \in Session |-> IF s = session THEN kept
                                          ELSE arrived[s]]
      BY <1>5 DEF AcceptNext
    <3>2. CASE session = 0
      BY <3>1, <3>2, <<>> \in Seq(Message) DEF TypeOK
    <3>3. CASE session # 0
      <4>1. session \in Session /\ kept \in KeptBy(session)
        BY <3>1, <3>3 DEF TypeOK, Session
      <4> QED
        BY <3>1, <4>1, KeptByType DEF TypeOK
    <3> QED
      BY <3>2, <3>3
  <2>3. /\ received' \in Seq(Message)
        /\ connected' \in [Session -> BOOLEAN]
        /\ open' \in [Session -> BOOLEAN]
        /\ reading' \in [Session -> {"none", "handshake", "read"}]
    BY <1>5, <2>1 DEF AcceptNext, TypeOK
  <2> QED
    BY <1>5, <2>1, <2>2, <2>3 DEF AcceptNext, TypeOK
<1>6. ASSUME NEW s \in Session, ReadFails(s)
      PROVE  TypeOK'
  BY <1>6, CloseType DEF ReadFails, Result, TypeOK
<1>7. ASSUME NEW s \in Session, Handshake(s)
      PROVE  TypeOK'
  BY <1>7 DEF Handshake, Result, TypeOK
<1>8. ASSUME NEW s \in Session, ReadNext(s), arrived[s] # <<>>
      PROVE  TypeOK'
  <2>1. Tail(arrived[s]) \in Seq(Message) /\ Head(arrived[s]) \in Message
    BY <1>8, TailType DEF TypeOK
  <2>2. received' \in Seq(Message)
    BY <1>8, <2>1, AppendType DEF ReadNext, TypeOK
  <2>3. /\ arrived' \in [Session -> Seq(Message)]
        /\ readResult' \in [Session -> Result]
    BY <1>8, <2>1 DEF ReadNext, Result, TypeOK
  <2> QED
    BY <1>8, <2>2, <2>3 DEF ReadNext, TypeOK
<1>9. ASSUME NEW s \in Session, WriteNext(s)
      PROVE  TypeOK'
  <2>1. queue[s] # <<>>
    BY <1>9 DEF WriteNext, WriteHasFront, FrontOf
  <2>2. Tail(queue[s]) \in Seq(Nat)
    BY <2>1, TailType DEF TypeOK
  <2>3. queue' \in [Session -> Seq(Nat)] /\ queue'[s] = Tail(queue[s])
    BY <1>9, <2>2 DEF WriteNext, TypeOK
  <2>4. FrontOf(queue'[s]) \in Seq(Nat) /\ Len(FrontOf(queue'[s])) <= 1
    BY <2>2, <2>3, FrontType
  <2>5. /\ writes' \in [Session -> Seq(Nat)]
        /\ \A r \in Session : Len(writes'[r]) <= 1
    BY <1>9, <2>4, WriteStarts DEF WriteNext, TypeOK
  <2>6. writeResult' \in [Session -> Result]
    BY <1>9 DEF WriteNext, TypeOK, Result
  <2> QED
    BY <1>9, <2>3, <2>5, <2>6 DEF WriteNext, TypeOK
<1>10. ASSUME NEW s \in Session, WriteFails(s)
       PROVE  TypeOK'
  <2>1. <<>> \in Seq(Nat) /\ Len(<<>>) <= 1
    OBVIOUS
  <2>2. /\ writes' \in [Session -> Seq(Nat)]
        /\ \A r \in Session : Len(writes'[r]) <= 1
    BY <1>10, <2>1, WriteStarts DEF WriteFails, TypeOK
  <2>3. queue' \in [Session -> Seq(Nat)] /\ writeResult' \in [Session -> Result]
    BY <1>10, <2>1 DEF WriteFails, TypeOK, Result
  <2> QED
    BY <1>10, <2>2, <2>3, CloseType DEF WriteFails, TypeOK
<1>11. CASE PollStarts \/ PollReturns \/ UNCHANGED vars
  BY <1>11 DEF PollStarts, PollReturns, vars, TypeOK
<1>12. CASE TakeMessage
  <2>1. received' \in Seq(Message)
    BY <1>12, TailType DEF TakeMessage, TypeOK
  <2> QED
    BY <1>12, <2>1 DEF TakeMessage, TypeOK
<1>13. ASSUME NEW s \in Session, ReadNext(s)
       PROVE  arrived[s] # <<>>
  BY <1>13 DEF ReadNext, Phases
<1> QED
  BY <1>1, <1>2, <1>3, <1>4, <1>5, <1>6, <1>7, <1>8, <1>9, <1>10, <1>11, <1>12,
     <1>13
  DEF Next, Handlers

(***************************************************************************)
(* The other parts of the invariant.                                       *)
(***************************************************************************)
LEMMA SessionsStep ==
  ASSUME IInv, [Next]_vars
  PROVE  FutureIsFresh' /\ OneOpen'
<1> USE DEF IInv, TypeOK, incoming, outgoing, FutureIsFresh, OneOpen, Fresh,
            Untouched
<1>1. ASSUME NEW s \in Session, NEW message \in Message, PageSends(s, message)
      PROVE  FutureIsFresh' /\ OneOpen'
  BY <1>1 DEF PageSends
<1>2. ASSUME NEW s \in Session, ReadCompletes(s)
      PROVE  FutureIsFresh' /\ OneOpen'
  BY <1>2 DEF ReadCompletes
<1>3. ASSUME NEW s \in Session, WriteCompletes(s)
      PROVE  FutureIsFresh' /\ OneOpen'
  BY <1>3 DEF WriteCompletes
<1>4. CASE SendMessage
  BY <1>4 DEF SendMessage, Live
<1>5. CASE AcceptNext
  <2>1. OneOpen'
    BY <1>5 DEF AcceptNext
  <2>2. ASSUME NEW s \in Session, s > session'
        PROVE  Fresh(s)'
    <3>1. s # session /\ s > session /\ s # session'
      BY <1>5, <2>2 DEF AcceptNext, Session
    <3>2. PICK kept : arrived' = [r \in Session |-> IF r = session THEN kept
                                                    ELSE arrived[r]]
      BY <1>5 DEF AcceptNext
    <3> QED
      BY <1>5, <3>1, <3>2 DEF AcceptNext
  <2> QED
    BY <2>1, <2>2
<1>6. ASSUME NEW s \in Session, ReadFails(s)
      PROVE  FutureIsFresh' /\ OneOpen'
  BY <1>6 DEF ReadFails, Close
<1>7. ASSUME NEW s \in Session, Handshake(s)
      PROVE  FutureIsFresh' /\ OneOpen'
  BY <1>7 DEF Handshake
<1>8. ASSUME NEW s \in Session, ReadNext(s)
      PROVE  FutureIsFresh' /\ OneOpen'
  BY <1>8 DEF ReadNext, Read
<1>9. ASSUME NEW s \in Session, WriteNext(s)
      PROVE  FutureIsFresh' /\ OneOpen'
  BY <1>9 DEF WriteNext
<1>10. ASSUME NEW s \in Session, WriteFails(s)
       PROVE  FutureIsFresh' /\ OneOpen'
  BY <1>10 DEF WriteFails, Close
<1>11. CASE PollStarts \/ PollReturns \/ TakeMessage \/ UNCHANGED vars
  BY <1>11 DEF PollStarts, PollReturns, TakeMessage, vars
<1> QED
  BY <1>1, <1>2, <1>3, <1>4, <1>5, <1>6, <1>7, <1>8, <1>9, <1>10, <1>11
  DEF Next, Handlers

LEMMA PhasesStep ==
  ASSUME IInv, [Next]_vars
  PROVE  Phases'
<1> USE DEF IInv, TypeOK, incoming, outgoing, Phases, Untouched, Read
<1>1. ASSUME NEW s \in Session, NEW message \in Message, PageSends(s, message)
      PROVE  Phases'
  <2>1. arrived[s] \in Seq(Message)
    OBVIOUS
  <2>2. Append(arrived[s], message) # <<>>
    BY <2>1, AppendFacts
  <2> QED
    BY <1>1, <2>1, <2>2 DEF PageSends
<1>2. ASSUME NEW s \in Session, ReadCompletes(s)
      PROVE  Phases'
  BY <1>2 DEF ReadCompletes
<1>3. ASSUME NEW s \in Session, WriteCompletes(s)
      PROVE  Phases'
  BY <1>3 DEF WriteCompletes
<1>4. CASE SendMessage
  BY <1>4 DEF SendMessage, Live
<1>5. CASE AcceptNext
  <2>1. session' \in Session /\ session' = session + 1 /\ Fresh(session')
    BY <1>5, ServerAssumption DEF AcceptNext, Session, FutureIsFresh
  <2>2. PICK kept \in IF session = 0 THEN {<<>>} ELSE KeptBy(session) :
          arrived' = [s \in Session |-> IF s = session THEN kept
                                        ELSE arrived[s]]
    BY <1>5 DEF AcceptNext
  <2> SUFFICES ASSUME NEW s \in Session
               PROVE  /\ connected'[s] => reading'[s] = "read"
                      /\ reading'[s] = "read" /\ open'[s] => connected'[s]
                      /\ reading'[s] = "handshake" => Untouched(s)'
                      /\ reading'[s] = "none" => readResult'[s] = "pending"
                      /\ Read(s)' => arrived'[s] # <<>>
    OBVIOUS
  <2>3. CASE s = session'
    BY <1>5, <2>1, <2>3 DEF AcceptNext, Fresh
  <2>4. CASE s = session
    <3>1. s \in Session /\ kept \in KeptBy(s)
      BY <2>2, <2>4 DEF Session
    <3>2. Read(s) => arrived'[s] # <<>>
      BY <2>2, <2>4, <3>1, KeptByType
    <3> QED
      BY <1>5, <2>1, <2>4, <3>2 DEF AcceptNext
  <2>5. CASE s # session' /\ s # session
    BY <1>5, <2>2, <2>5 DEF AcceptNext
  <2> QED
    BY <2>3, <2>4, <2>5
<1>6. ASSUME NEW s \in Session, ReadFails(s)
      PROVE  Phases'
  BY <1>6, KeptByType DEF ReadFails, Close
<1>7. ASSUME NEW s \in Session, Handshake(s)
      PROVE  Phases'
  BY <1>7 DEF Handshake
<1>8. ASSUME NEW s \in Session, ReadNext(s)
      PROVE  Phases'
  BY <1>8 DEF ReadNext
<1>9. ASSUME NEW s \in Session, WriteNext(s)
      PROVE  Phases'
  BY <1>9 DEF WriteNext
<1>10. ASSUME NEW s \in Session, WriteFails(s)
       PROVE  Phases'
  BY <1>10, KeptByType DEF WriteFails, Close
<1>11. CASE PollStarts \/ PollReturns \/ TakeMessage \/ UNCHANGED vars
  BY <1>11 DEF PollStarts, PollReturns, TakeMessage, vars
<1> QED
  BY <1>1, <1>2, <1>3, <1>4, <1>5, <1>6, <1>7, <1>8, <1>9, <1>10, <1>11
  DEF Next, Handlers

LEMMA SendMessageFront ==
  ASSUME IInv, SendMessage
  PROVE  WriteHasFront'
<1>1. session \in Session
  BY DEF SendMessage, Live, IInv, TypeOK, Session
<1>2. /\ queue \in [Session -> Seq(Nat)] /\ queue[session] \in Seq(Nat)
      /\ writes \in [Session -> Seq(Nat)]
      /\ sent'[session] \in Nat
  BY <1>1 DEF SendMessage, IInv, TypeOK
<1>3. /\ queue'[session] = Append(queue[session], sent'[session])
      /\ \A r \in Session : r # session =>
           queue'[r] = queue[r] /\ writes'[r] = writes[r]
      /\ UNCHANGED writeResult
  BY <1>1, <1>2 DEF SendMessage, outgoing
<1>4. queue'[session] # <<>> /\ Len(queue'[session]) = Len(queue[session]) + 1
  <2>1. /\ Append(queue[session], sent'[session]) # <<>>
        /\ Len(Append(queue[session], sent'[session])) = Len(queue[session]) + 1
    BY <1>2, AppendFacts
  <2> QED
    BY <1>3, <2>1
<1>5. writes[session] = FrontOf(queue[session])
  BY <1>1 DEF IInv, WriteHasFront
<1>6. writes'[session] = <<Head(queue'[session])>>
  <2>1. CASE queue[session] = <<>>
    <3>1. queue'[session] = <<sent'[session]>> /\ Len(queue'[session]) = 1
      BY <1>2, <1>3, <2>1
    <3>2. writes'[session] = queue'[session]
      BY <1>1, <1>2, <3>1 DEF SendMessage
    <3> QED
      BY <3>1, <3>2
  <2>2. CASE queue[session] # <<>>
    <3>1. /\ Len(queue'[session]) # 1
          /\ Head(queue'[session]) = Head(queue[session])
      BY <1>2, <1>3, <2>2, AppendFacts
    <3>2. writes'[session] = writes[session]
      BY <3>1 DEF SendMessage
    <3> QED
      BY <1>5, <2>2, <3>1, <3>2 DEF FrontOf
  <2> QED
    BY <2>1, <2>2
<1>7. writes'[session] = FrontOf(queue'[session]) /\ writes'[session] # <<>>
  BY <1>4, <1>6 DEF FrontOf
<1> QED
  BY <1>1, <1>3, <1>7 DEF IInv, WriteHasFront

LEMMA FrontStep ==
  ASSUME IInv, [Next]_vars
  PROVE  WriteHasFront'
<1> USE DEF IInv, TypeOK, WriteHasFront, FrontOf, outgoing
<1>1. ASSUME \/ UNCHANGED <<queue, writes, writeResult>>
             \/ \E s \in Session : WriteCompletes(s)
      PROVE  WriteHasFront'
  BY <1>1 DEF WriteCompletes
<1>2. CASE SendMessage
  BY <1>2, SendMessageFront
<1>3. ASSUME NEW s \in Session, WriteNext(s)
      PROVE  WriteHasFront'
  BY <1>3 DEF WriteNext
<1>4. ASSUME NEW s \in Session, WriteFails(s)
      PROVE  WriteHasFront'
  BY <1>4 DEF WriteFails
<1> QED
  BY <1>1, <1>2, <1>3, <1>4
  DEF Next, Handlers, PollStarts, PollReturns, TakeMessage, AcceptNext,
      PageSends, ReadCompletes, ReadFails, Handshake, ReadNext, vars

LEMMA IInvStep ==
  ASSUME IInv, [Next]_vars
  PROVE  IInv'
BY TypeStep, SessionsStep, PhasesStep, FrontStep DEF IInv

LEMMA IInvInit ==
  ASSUME Init
  PROVE  IInv
<1>1. TypeOK
  <2>1. /\ <<>> \in Seq(Message)
        /\ <<>> \in Seq(Message) /\ <<>> \in Seq(Nat) /\ Len(<<>>) <= 1
    OBVIOUS
  <2>2. session \in 0 .. MaxSession
    BY ServerAssumption DEF Init
  <2> QED
    BY <2>1, <2>2 DEF Init, TypeOK, Result
<1> QED
  BY <1>1 DEF Init, IInv, FutureIsFresh, OneOpen, Phases, WriteHasFront, Fresh,
              Untouched, FrontOf, Read

\* Every operation that is under way belongs to a session in a state that allows
\* it, and what is queued, being written and delivered follows on each other.
THEOREM Invariance == Spec => []IInv
<1>1. Init => IInv
  BY IInvInit
<1>2. IInv /\ [Next]_vars => IInv'
  BY IInvStep
<1> QED
  BY <1>1, <1>2, PTL DEF Spec

\* The variables keep their types; at most one write is outstanding.
THEOREM TypeCorrect == Spec => []TypeOK
<1>1. IInv => TypeOK
  BY DEF IInv
<1> QED
  BY <1>1, Invariance, PTL

\* What is being written is always the front of the queue.
THEOREM WritesSerial == Spec => []WritesAreSerial
<1>1. IInv => WritesAreSerial
  BY DEF IInv, WriteHasFront, WritesAreSerial
<1> QED
  BY <1>1, Invariance, PTL

(***************************************************************************)
(* Nothing lost, nothing repeated.                                         *)
(***************************************************************************)
Numbers(n) == [i \in 1 .. n |-> i]

LEMMA NumbersAppend ==
  ASSUME NEW n \in Nat
  PROVE  /\ Numbers(n) \in Seq(Nat)
         /\ Append(Numbers(n), n + 1) = Numbers(n + 1)
         /\ Numbers(0) = <<>>
<1>1. ASSUME NEW m \in Nat
      PROVE  Numbers(m) \in Seq(Nat) /\ Len(Numbers(m)) = m
  BY <1>1 DEF Numbers
<1>2. Numbers(0) = <<>>
  BY <1>1, EmptySeq
<1>3. /\ Append(Numbers(n), n + 1) \in Seq(Nat)
      /\ Len(Append(Numbers(n), n + 1)) = n + 1
      /\ \A i \in 1 .. n : Append(Numbers(n), n + 1)[i] = i
      /\ Append(Numbers(n), n + 1)[n + 1] = n + 1
  BY <1>1, AppendProperties DEF Numbers
<1>4. \A i \in 1 .. n + 1 : Append(Numbers(n), n + 1)[i] = Numbers(n + 1)[i]
  BY <1>3 DEF Numbers
<1>5. Append(Numbers(n), n + 1) = Numbers(n + 1)
  BY <1>1, <1>3, <1>4, SeqEqual
<1> QED
  BY <1>1, <1>2, <1>5

LEMMA ConcatAppend ==
  ASSUME NEW S, NEW a \in Seq(S), NEW b \in Seq(S), NEW e \in S
  PROVE  a \o Append(b, e) = Append(a \o b, e)
<1>1. Append(b, e) = b \o <<e>> /\ Append(a \o b, e) = (a \o b) \o <<e>>
  BY AppendIsConcat, ConcatProperties
<1>2. <<e>> \in Seq(S)
  OBVIOUS
<1> QED
  BY <1>1, <1>2, ConcatAssociative

LEMMA MoveFront ==
  ASSUME NEW S, NEW a \in Seq(S), NEW b \in Seq(S), b # <<>>
  PROVE  Append(a, Head(b)) \o Tail(b) = a \o b
<1>1. Head(b) \in S /\ Tail(b) \in Seq(S) /\ <<Head(b)>> \in Seq(S)
  BY TailType
<1>2. <<Head(b)>> \o Tail(b) = b
  <2>1. Len(b) \in Nat \ {0} /\ 1 \in 1 .. Len(b) /\ Len(b) \in 1 .. Len(b)
    BY EmptySeq
  <2>2. SubSeq(b, 1, Len(b)) = <<b[1]>> \o SubSeq(b, 1 + 1, Len(b))
    BY <2>1, SubSeqRecursiveFirst
  <2>3. Tail(b) = SubSeq(b, 2, Len(b)) /\ SubSeq(b, 1, Len(b)) = b
    BY TailIsSubSeq, SubSeqFull
  <2> QED
    BY <2>2, <2>3
<1>3. Append(a, Head(b)) = a \o <<Head(b)>>
  BY <1>1, AppendIsConcat
<1> QED
  BY <1>1, <1>2, <1>3, ConcatAssociative
Ordered(s) ==
  connected[s] => delivered[s] \o Unwritten(s) = Numbers(sent[s])

LEMMA OrderedStep ==
  ASSUME IInv, \A s \in Session : Ordered(s), [Next]_vars,
         NEW r \in Session, connected'[r]
  PROVE  Ordered(r)'
<1>1. /\ queue[r] \in Seq(Nat) /\ delivered[r] \in Seq(Nat) /\ sent[r] \in Nat
      /\ writes[r] = FrontOf(queue[r])
      /\ writeResult[r] = "ok" => queue[r] # <<>>
  BY DEF IInv, TypeOK, WriteHasFront, FrontOf
<1>2. Unwritten(r) \in Seq(Nat)
  BY <1>1, TailType DEF Unwritten
<1> DEFINE SameOf ==
             UNCHANGED <<delivered[r], queue[r], writeResult[r], sent[r]>>
<1>3. ASSUME connected[r], SameOf
      PROVE  Ordered(r)'
  BY <1>3 DEF Ordered, Unwritten
<1>4. ASSUME NEW s \in Session, WriteCompletes(s)
      PROVE  Ordered(r)'
  <2>1. connected[r] /\ UNCHANGED <<queue[r], sent[r]>>
    BY <1>4 DEF WriteCompletes
  <2>2. CASE /\ s = r /\ writeResult' = [writeResult EXCEPT ![s] = "ok"]
             /\ delivered' =
                  [delivered EXCEPT ![s] = Append(@, Head(writes[s]))]
    <3>1. writes[r] # <<>> /\ writeResult[r] = "pending"
      BY <1>4, <2>2 DEF WriteCompletes
    <3>2. queue[r] # <<>> /\ Head(writes[r]) = Head(queue[r])
      BY <1>1, <3>1 DEF FrontOf
    <3>3. /\ delivered'[r] = Append(delivered[r], Head(queue[r]))
          /\ writeResult'[r] = "ok"
      BY <2>2, <3>2 DEF IInv, TypeOK
    <3>4. delivered'[r] \o Tail(queue[r]) = delivered[r] \o queue[r]
      BY <1>1, <3>2, <3>3, MoveFront
    <3>5. delivered[r] \o queue[r] = Numbers(sent[r])
      BY <2>1, <3>1 DEF Ordered, Unwritten
    <3> QED
      BY <2>1, <3>3, <3>4, <3>5 DEF Ordered, Unwritten
  <2>3. CASE /\ s = r /\ writeResult' = [writeResult EXCEPT ![s] = "error"]
             /\ UNCHANGED delivered
    <3>1. writeResult[r] = "pending" /\ writeResult'[r] = "error"
      BY <1>4, <2>3 DEF WriteCompletes, IInv, TypeOK
    <3> QED
      BY <2>1, <2>3, <3>1 DEF Ordered, Unwritten
  <2>4. CASE s # r
    <3>1. UNCHANGED <<delivered[r], writeResult[r]>>
      BY <1>4, <2>4 DEF WriteCompletes, IInv, TypeOK
    <3> QED
      BY <1>3, <2>1, <3>1
  <2> QED
    BY <1>4, <2>2, <2>3, <2>4 DEF WriteCompletes
<1>5. CASE SendMessage
  <2>1. session \in Session /\ connected[session] /\ connected[r]
    BY <1>5 DEF SendMessage, Live, IInv, TypeOK, Session
  <2>2. UNCHANGED <<delivered[r], writeResult[r]>>
    BY <1>5 DEF SendMessage
  <2>3. CASE r # session
    <3>1. UNCHANGED <<queue[r], sent[r]>>
      BY <1>5, <2>3 DEF SendMessage, IInv, TypeOK
    <3> QED
      BY <1>3, <2>1, <2>2, <3>1
  <2>4. CASE r = session
    <3>1. sent'[r] = sent[r] + 1 /\ queue'[r] = Append(queue[r], sent[r] + 1)
      BY <1>5, <2>4 DEF SendMessage, IInv, TypeOK
    <3>2. Unwritten(r)' = Append(Unwritten(r), sent[r] + 1)
      <4>1. sent[r] + 1 \in Nat
        BY <1>1
      <4>2. queue[r] # <<>> => Tail(Append(queue[r], sent[r] + 1))
                               = Append(Tail(queue[r]), sent[r] + 1)
        BY <1>1, <4>1, AppendFacts
      <4> QED
        BY <1>1, <2>2, <3>1, <4>2 DEF Unwritten
    <3>3. delivered[r] \o Append(Unwritten(r), sent[r] + 1)
            = Append(delivered[r] \o Unwritten(r), sent[r] + 1)
      <4>1. sent[r] + 1 \in Nat
        BY <1>1
      <4>2. \A a, b \in Seq(Nat), e \in Nat :
              a \o Append(b, e) = Append(a \o b, e)
        BY ConcatAppend
      <4> QED
        BY <1>1, <1>2, <4>1, <4>2
    <3>4. delivered[r] \o Unwritten(r) = Numbers(sent[r])
      BY <2>1 DEF Ordered
    <3>5. (delivered[r] \o Unwritten(r))' = Numbers(sent'[r])
      BY <1>1, <2>2, <3>1, <3>2, <3>3, <3>4, NumbersAppend
    <3> QED
      BY <3>5 DEF Ordered
  <2> QED
    BY <2>3, <2>4
<1>6. ASSUME NEW s \in Session, WriteNext(s)
      PROVE  Ordered(r)'
  <2>1. connected[r] /\ UNCHANGED <<delivered[r], sent[r]>>
    BY <1>6 DEF WriteNext
  <2>2. CASE s = r
    <3>1. /\ writeResult[r] = "ok" /\ writeResult'[r] = "pending"
          /\ queue'[r] = Tail(queue[r])
      BY <1>6, <2>2 DEF WriteNext, IInv, TypeOK
    <3> QED
      BY <2>1, <3>1 DEF Ordered, Unwritten
  <2>3. CASE s # r
    <3>1. UNCHANGED <<queue[r], writeResult[r]>>
      BY <1>6, <2>3 DEF WriteNext, IInv, TypeOK
    <3> QED
      BY <1>3, <2>1, <3>1
  <2> QED
    BY <2>2, <2>3
<1>7. ASSUME NEW s \in Session, WriteFails(s)
      PROVE  Ordered(r)'
  <2>1. s # r /\ connected[r]
    BY <1>7 DEF WriteFails, Close, IInv, TypeOK
  <2>2. SameOf
    BY <1>7, <2>1 DEF WriteFails, IInv, TypeOK
  <2> QED
    BY <1>3, <2>1, <2>2
<1>8. ASSUME NEW s \in Session, Handshake(s)
      PROVE  Ordered(r)'
  <2>1. SameOf
    BY <1>8 DEF Handshake, outgoing
  <2>2. CASE s = r
    <3>1. Untouched(r) /\ writeResult[r] = "pending"
      BY <1>8, <2>2 DEF Handshake, IInv, Phases, WriteHasFront, Untouched
    <3>2. <<>> \o <<>> = <<>>
      BY ConcatEmptySeq, <<>> \in Seq(Nat)
    <3>3. (delivered[r] \o Unwritten(r))' = <<>>
      BY <2>1, <3>1, <3>2 DEF Untouched, Unwritten
    <3>4. Numbers(sent'[r]) = <<>>
      BY <2>1, <3>1, NumbersAppend DEF Untouched
    <3> QED
      BY <3>3, <3>4 DEF Ordered
  <2>3. CASE s # r
    <3>1. connected[r]
      BY <1>8, <2>3 DEF Handshake, IInv, TypeOK
    <3> QED
      BY <1>3, <2>1, <3>1
  <2> QED
    BY <2>2, <2>3
<1>9. ASSUME NEW s \in Session, ReadFails(s)
      PROVE  Ordered(r)'
  <2>1. connected[r] /\ SameOf
    BY <1>9 DEF ReadFails, Close, outgoing, IInv, TypeOK
  <2> QED
    BY <1>3, <2>1
<1>10. CASE AcceptNext
  <2>1. connected[r] /\ SameOf
    BY <1>10 DEF AcceptNext, outgoing
  <2> QED
    BY <1>3, <2>1
<1>11. ASSUME NEW s \in Session,
              \/ ReadNext(s) \/ ReadCompletes(s)
              \/ \E message \in Message : PageSends(s, message)
       PROVE  Ordered(r)'
  <2>1. connected[r] /\ SameOf
    BY <1>11 DEF ReadNext, ReadCompletes, PageSends, outgoing
  <2> QED
    BY <1>3, <2>1
<1>12. CASE PollStarts \/ PollReturns \/ TakeMessage \/ UNCHANGED vars
  <2>1. connected[r] /\ SameOf
    BY <1>12 DEF PollStarts, PollReturns, TakeMessage, vars, outgoing
  <2> QED
    BY <1>3, <2>1
<1> QED
  BY <1>4, <1>5, <1>6, <1>7, <1>8, <1>9, <1>10, <1>11, <1>12 DEF Next, Handlers

\* The messages a connected page got and those still queued are all the messages
\* the loop has sent to it, in order, none lost and none repeated.
THEOREM DeliveredInOrder == Spec => []NothingLostOrRepeated
<1>1. Init => NothingLostOrRepeated
  BY DEF Init, NothingLostOrRepeated
<1>2. IInv /\ NothingLostOrRepeated /\ [Next]_vars => NothingLostOrRepeated'
  <2> SUFFICES ASSUME IInv, NothingLostOrRepeated, [Next]_vars
               PROVE  NothingLostOrRepeated'
    OBVIOUS
  <2>1. \A s \in Session : Ordered(s)
    BY DEF NothingLostOrRepeated, Ordered, Numbers
  <2>2. \A r \in Session : Ordered(r)'
    BY <2>1, OrderedStep DEF Ordered
  <2> QED
    BY <2>2 DEF NothingLostOrRepeated, Ordered, Numbers
<1> QED
  BY <1>1, <1>2, Invariance, PTL DEF Spec

(***************************************************************************)
(* Between two polls.                                                      *)
(***************************************************************************)
\* A session that can still deliver a message while the loop is not polling is
\* the current one, and connected.
THEOREM Settled == Spec => []SettledBetweenPolls
<1>1. Init => SettledBetweenPolls
  BY DEF Init, SettledBetweenPolls
<1>2. IInv /\ SettledBetweenPolls /\ [Next]_vars => SettledBetweenPolls'
  <2> SUFFICES ASSUME IInv, SettledBetweenPolls, [Next]_vars, ~polling'
               PROVE  SettledBetweenPolls'
    BY DEF SettledBetweenPolls
  <2>1. CASE polling
    <3>1. PollReturns
      BY <2>1 DEF Next, Handlers, PollStarts, TakeMessage, SendMessage,
          AcceptNext, ReadFails, Handshake, ReadNext, WriteNext, WriteFails,
          ReadCompletes, WriteCompletes, PageSends, vars
    <3>2. ASSUME NEW s \in Session, reading[s] = "read"
          PROVE  s = session /\ Live
      <4>1. open[s]
        BY <3>1, <3>2 DEF PollReturns, ReadReady
      <4> QED
        BY <3>2, <4>1 DEF IInv, OneOpen, Phases, Live, Session
    <3> QED
      BY <3>1, <3>2 DEF PollReturns, SettledBetweenPolls, Live, incoming
  <2>2. CASE ~polling
    <3>1. UNCHANGED <<session, connected, reading>>
      BY <2>2 DEF Next, Handlers, PollStarts, PollReturns, TakeMessage,
          SendMessage, AcceptNext, ReadFails, Handshake, ReadNext, WriteNext,
          WriteFails, ReadCompletes, WriteCompletes, PageSends, vars, incoming
    <3> QED
      BY <2>2, <3>1 DEF SettledBetweenPolls, Live
  <2> QED
    BY <2>1, <2>2
<1> QED
  BY <1>1, <1>2, Invariance, PTL DEF Spec
(***************************************************************************)
(* The server implements PageLink.                                         *)
(***************************************************************************)
LEMMA LinkStep ==
  ASSUME IInv, [Next]_vars
  PROVE  [Page!Next]_(Page!vars)
<1> USE DEF IInv, TypeOK, incoming, outgoing, Link, Reads
<1> DEFINE SameReads == Link' = Link /\ Reads' = Reads
<1>1. ASSUME UNCHANGED <<session, received>>, SameReads
      PROVE  UNCHANGED Page!vars
  BY <1>1 DEF Page!vars
<1>2. ASSUME NEW s \in Session, ReadFails(s)
      PROVE  [Page!Next]_(Page!vars)
  <2>1. UNCHANGED <<session, received>> /\ Reads' = Reads \ {s}
    BY <1>2 DEF ReadFails
  <2>2. CASE s = session /\ ~connected[s] /\ reading[s] = "read"
    <3>1. Link' = Link
      BY <1>2, <2>2 DEF ReadFails, Close, Session
    <3>2. s \in Page!Stale
      BY <1>2, <2>2 DEF Page!Stale, Page!Connected, Session
    <3>3. Page!EndReading(s)
      BY <2>1, <3>1, <3>2 DEF Page!EndReading
    <3> QED
      BY <3>2, <3>3 DEF Page!Next, Page!Stale
  <2>3. CASE s = session /\ (connected[s] \/ reading[s] = "handshake")
    <3>1. Link \in {"handshake", "up"} /\ Link' = "closed"
      BY <1>2, <2>3 DEF ReadFails, Close, Session
    <3>2. Page!Fail
      BY <2>1, <2>3, <3>1 DEF Page!Fail
    <3> QED
      BY <3>2 DEF Page!Next
  <2>4. CASE s # session
    <3>1. Link' = Link
      BY <1>2, <2>4 DEF ReadFails, Close, Session
    <3>2. s \in Page!Stale
      BY <1>2, <2>4 DEF ReadFails, Page!Stale
    <3>3. Page!EndReading(s)
      BY <2>1, <3>1, <3>2 DEF Page!EndReading
    <3>4. s \in Reads
      BY <1>2, <2>4 DEF ReadFails
    <3> QED
      BY <3>3, <3>4 DEF Page!Next
  <2> QED
    BY <1>2, <2>2, <2>3, <2>4 DEF ReadFails
<1>3. ASSUME NEW s \in Session, Handshake(s)
      PROVE  [Page!Next]_(Page!vars)
  <2>1. CASE s = session
    <3>1. /\ Link = "handshake" /\ Link' = "up"
          /\ Reads' = Reads \cup {session}
          /\ UNCHANGED <<session, received>>
      BY <1>3, <2>1 DEF Handshake, Phases, Session
    <3> QED
      BY <3>1 DEF Page!Handshake, Page!Next
  <2>2. CASE s # session
    <3>1. UNCHANGED <<session, received>> /\ SameReads
      BY <1>3, <2>2 DEF Handshake, Session
    <3> QED
      BY <1>1, <3>1
  <2> QED
    BY <2>1, <2>2
<1>4. ASSUME NEW s \in Session, ReadNext(s)
      PROVE  [Page!Next]_(Page!vars)
  <2>1. PICK message \in Message : message = Head(arrived[s])
    BY <1>4, TailType DEF ReadNext, Phases
  <2>2. s \in Reads /\ UNCHANGED session /\ SameReads
    BY <1>4 DEF ReadNext, Read
  <2>3. Page!Deliver(s, message)
    BY <1>4, <2>1, <2>2 DEF ReadNext, Page!Deliver
  <2> QED
    BY <2>2, <2>3 DEF Page!Next
<1>5. ASSUME NEW s \in Session, WriteFails(s)
      PROVE  [Page!Next]_(Page!vars)
  <2>1. UNCHANGED <<session, received>> /\ Reads' = Reads
    BY <1>5 DEF WriteFails
  <2>2. reading[s] # "handshake"
    BY <1>5 DEF WriteFails, Phases, Untouched
  <2>3. CASE s = session /\ connected[s]
    <3>1. Link = "up" /\ Link' = "closed"
      BY <1>5, <2>2, <2>3 DEF WriteFails, Close, Session
    <3> QED
      BY <2>1, <3>1 DEF Page!Fail, Page!Next
  <2>4. CASE ~(s = session /\ connected[s])
    <3>1. Link' = Link
      BY <1>5, <2>4 DEF WriteFails, Close, Session
    <3> QED
      BY <1>1, <2>1, <3>1
  <2> QED
    BY <2>3, <2>4
<1>6. CASE AcceptNext
  <2>1. session' \in Session /\ session' = session + 1 /\ Fresh(session')
    BY <1>6, ServerAssumption DEF AcceptNext, Session, FutureIsFresh
  <2>2. Link' = "handshake"
    BY <1>6, <2>1 DEF AcceptNext, Fresh
  <2>3. Link = "handshake" <=> session # 0 /\ reading[session] = "handshake"
    BY DEF Phases, Session
  <2>4. Reads' = IF Link = "handshake" THEN Reads \cup {session} ELSE Reads
    <3>1. ASSUME NEW s \in Session
          PROVE  s \in Reads'
                   <=> s \in Reads \/ (s = session /\ Link = "handshake")
      <4>1. reading'[s] = IF s = session' THEN "handshake" ELSE reading[s]
        BY <1>6, <2>1 DEF AcceptNext
      <4>2. reading[session'] = "none" /\ session' # session
        BY <2>1 DEF Fresh
      <4>3. CASE s = session'
        BY <2>1, <4>1, <4>2, <4>3
      <4>4. CASE s # session'
        <5>1. s \in Reads' <=> reading[s] \in {"read", "handshake"}
          BY <2>1, <4>1, <4>4
        <5>2. s = session => (Link = "handshake" <=> reading[s] = "handshake")
          BY <2>3 DEF Session
        <5> QED
          BY <5>1, <5>2
      <4> QED
        BY <4>3, <4>4
    <3>2. Link = "handshake" => session \in Session
      BY <2>3 DEF Session
    <3> QED
      BY <3>1, <3>2
  <2>5. Page!Accept
    BY <1>6, <2>1, <2>2, <2>4 DEF AcceptNext, Page!Accept
  <2> QED
    BY <2>5 DEF Page!Next
<1>7. CASE TakeMessage
  <2>1. UNCHANGED session /\ SameReads
    BY <1>7 DEF TakeMessage
  <2>2. Page!Take
    BY <1>7, <2>1 DEF TakeMessage, Page!Take
  <2> QED
    BY <2>2 DEF Page!Next
<1>8. CASE \/ PollStarts \/ PollReturns \/ SendMessage \/ UNCHANGED vars
           \/ \E s \in Session :
                \/ WriteNext(s) \/ ReadCompletes(s) \/ WriteCompletes(s)
                \/ \E message \in Message : PageSends(s, message)
  <2>1. UNCHANGED <<session, received, connected, reading>>
    BY <1>8 DEF PollStarts, PollReturns, SendMessage, WriteNext, ReadCompletes,
                WriteCompletes, PageSends, vars
  <2> QED
    BY <1>1, <2>1
<1> QED
  BY <1>2, <1>3, <1>4, <1>5, <1>6, <1>7, <1>8 DEF Next, Handlers

\* WebSocketServer implements PageLink, which the event loop is modelled with.
THEOREM Refinement == Spec => ImplementsPageLink
<1>1. Init => Page!Init
  BY DEF Init, Page!Init, Link, Reads
<1>2. IInv /\ [Next]_vars => [Page!Next]_(Page!vars)
  BY LinkStep
<1> QED
  BY <1>1, <1>2, Invariance, PTL DEF Spec, ImplementsPageLink, Page!Spec

(***************************************************************************)
(* The page at the other end of the link (ControlPage): what it shows and  *)
(* what the cockpit has selected, for any number of tabs and of vehicles.  *)
(* The page never hears what is selected; that both agree rests on the     *)
(* last message it has sent (Told).                                        *)
(***************************************************************************)
Latest(messages) == messages[Len(messages)]

\* The vehicle that is driven and the one that is shown.
Agrees(p) ==
  /\ selected \in {None, chosen[p]}
  /\ chosen[p] \in {None, selected} \/ givenUp

\* A page without a socket shows no vehicle, a page with a new one has said
\* nothing yet, and what an open one has said last is what it shows.
Told(p) ==
  /\ socket[p] \in {"none", "connecting", "closing"} => chosen[p] = None
  /\ socket[p] = "connecting" => p # current /\ toServer[p] = <<>>
  /\ socket[p] = "open" =>
       /\ p = current
       /\ IF toServer[p] = <<>> THEN Agrees(p)
          ELSE Latest(toServer[p]).vehicle = chosen[p]

PagesTold == \A p \in Pages : Told(p)

LEMMA LatestAppended ==
  ASSUME NEW M, NEW messages \in Seq(M), NEW message \in M
  PROVE  /\ Append(messages, message) \in Seq(M)
         /\ Append(messages, message) # <<>>
         /\ Latest(Append(messages, message)) = message
BY DEF Latest

LEMMA LatestTaken ==
  ASSUME NEW M, NEW messages \in Seq(M), messages # <<>>
  PROVE  /\ Head(messages) \in M /\ Tail(messages) \in Seq(M)
         /\ Tail(messages) = <<>> => Head(messages) = Latest(messages)
         /\ Tail(messages) # <<>> => Latest(Tail(messages)) = Latest(messages)
<1> DEFINE rest == Tail(messages)
           n == Len(messages)
<1>1. /\ Head(messages) \in M /\ rest \in Seq(M)
      /\ Head(messages) = messages[1]
  OBVIOUS
<1>2. n \in Nat \ {0} /\ Len(rest) = n - 1
  BY EmptySeq
<1>3. \A i \in 1 .. n - 1 : rest[i] = messages[i + 1]
  OBVIOUS
<1>4. Latest(messages) = messages[n] /\ Latest(rest) = rest[Len(rest)]
  BY DEF Latest
<1> HIDE DEF rest, n
<1>5. rest = <<>> => Len(rest) = 0
  OBVIOUS
<1>6. rest # <<>> => Len(rest) # 0
  BY <1>1, EmptySeq
<1>7. rest = <<>> => n = 1
  BY <1>2, <1>5
<1>8. rest # <<>> => n - 1 \in 1 .. n - 1 /\ n - 1 + 1 = n
  BY <1>2, <1>6
<1>9. rest # <<>> => Latest(rest) = Latest(messages)
  BY <1>2, <1>3, <1>4, <1>8
<1>10. QED
  BY <1>1, <1>4, <1>7, <1>9 DEF rest

\* What a message changes.
LEMMA SendIs ==
  ASSUME PageTypeOK, NEW p \in Pages, NEW message \in ToServer,
         Send(p, message)
  PROVE  /\ toServer' \in [Pages -> Seq(ToServer)]
         /\ \A q \in Pages : q # p => toServer'[q] = toServer[q]
         /\ IF socket[p] = "open"
            THEN toServer'[p] # <<>> /\ Latest(toServer'[p]) = message
            ELSE toServer'[p] = toServer[p]
<1> DEFINE M == ToServer
<1>1. toServer \in [Pages -> Seq(M)] /\ toServer[p] \in Seq(M) /\ message \in M
  BY DEF PageTypeOK
<1> HIDE DEF M
<1>2. CASE socket[p] = "open"
  <2>1. toServer' = [toServer EXCEPT ![p] = Append(@, message)]
    BY <1>2 DEF Send
  <2>2. /\ Append(toServer[p], message) \in Seq(M)
        /\ Append(toServer[p], message) # <<>>
        /\ Latest(Append(toServer[p], message)) = message
    BY <1>1, LatestAppended
  <2>3. toServer'[p] = Append(toServer[p], message)
    BY <1>1, <2>1
  <2>4. toServer' \in [Pages -> Seq(M)]
    BY <1>1, <2>1, <2>2
  <2>5. QED
    BY <1>1, <1>2, <2>1, <2>2, <2>3, <2>4 DEF M
<1>3. CASE socket[p] # "open"
  BY <1>1, <1>3 DEF Send, M
<1>4. QED
  BY <1>2, <1>3

\* A page whose socket, messages and vehicle stay, while the cockpit does
\* nothing that concerns it.
LEMMA StaysTold ==
  ASSUME NEW p \in Pages, Told(p), socket'[p] = socket[p],
         toServer'[p] = toServer[p], chosen'[p] = chosen[p],
         UNCHANGED <<current, selected, givenUp>>
  PROVE  Told(p)'
BY DEF Told, Agrees

LEMMA InitTold == PageInit => PageTypeOK /\ PagesTold
<1> SUFFICES ASSUME PageInit PROVE PageTypeOK /\ PagesTold
  OBVIOUS
<1>1. /\ toServer \in [Pages -> Seq(ToServer)]
      /\ toPage \in [Pages -> Seq(ToPage)]
  BY DEF PageInit
<1>2. PageTypeOK
  BY <1>1 DEF PageInit, PageTypeOK
<1>3. PagesTold
  BY DEF PageInit, PagesTold, Told
<1>4. QED
  BY <1>2, <1>3

(***************************************************************************)
(* The steps of the page.                                                  *)
(***************************************************************************)
LEMMA ConnectTold ==
  ASSUME PageTypeOK, NEW p \in Pages, Connect(p)
  PROVE  PageTypeOK' /\ (PagesTold => PagesTold')
<1>1. /\ socket[p] = "none" /\ current # p
      /\ socket' = [socket EXCEPT ![p] = "connecting"]
      /\ toServer' = [toServer EXCEPT ![p] = <<>>]
      /\ toPage' = [toPage EXCEPT ![p] = <<>>]
      /\ UNCHANGED <<view, chosen, listed, known, stopped>>
      /\ UNCHANGED <<current, selected, online, givenUp>>
  BY DEF Connect, page, shown, cockpit
<1>2. /\ toServer' \in [Pages -> Seq(ToServer)]
      /\ toPage' \in [Pages -> Seq(ToPage)]
  BY <1>1 DEF PageTypeOK
<1>3. PageTypeOK'
  BY <1>1, <1>2 DEF PageTypeOK
<1>4. ASSUME PagesTold, NEW q \in Pages
      PROVE  Told(q)'
  <2>1. Told(q)
    BY <1>4 DEF PagesTold
  <2>2. CASE q # p
    BY <1>1, <2>1, <2>2, StaysTold DEF PageTypeOK
  <2>3. CASE q = p
    BY <1>1, <2>1, <2>3 DEF Told, PageTypeOK
  <2>4. QED
    BY <2>2, <2>3
<1>5. QED
  BY <1>3, <1>4 DEF PagesTold

LEMMA ReceiveTold ==
  ASSUME PageTypeOK, NEW p \in Pages, Receive(p)
  PROVE  PageTypeOK' /\ (PagesTold => PagesTold')
<1> DEFINE M == ToPage
<1>1. /\ toPage[p] # <<>>
      /\ toPage' = [toPage EXCEPT ![p] = Tail(@)]
      /\ UNCHANGED <<view, chosen, stopped, socket, toServer>>
      /\ UNCHANGED <<current, selected, online, givenUp>>
  BY DEF Receive, cockpit
<1>2. toPage \in [Pages -> Seq(M)]
  BY DEF PageTypeOK
<1>3. Head(toPage[p]) \in M
  BY <1>1, <1>2, LatestTaken
<1>4. toPage' \in [Pages -> Seq(M)]
  <2> HIDE DEF M
  <2>1. Tail(toPage[p]) \in Seq(M)
    BY <1>1, <1>2, LatestTaken
  <2>2. QED
    BY <1>1, <1>2, <2>1
<1> DEFINE snapshot == Head(toPage[p])
<1>5. /\ snapshot.type = "state" => snapshot.vehicle \in Vehicles
      /\ snapshot.type = "vehicles" => snapshot.online \in SUBSET Vehicles
  BY <1>3 DEF ToPage
<1>6. \/ /\ snapshot.type = "state" /\ UNCHANGED listed
         /\ known' = [known EXCEPT ![p] = @ \cup {snapshot.vehicle}]
      \/ /\ snapshot.type = "vehicles" /\ UNCHANGED known
         /\ listed' = [listed EXCEPT ![p] = snapshot.online]
  BY DEF Receive
<1> HIDE DEF snapshot
<1>7. listed \in [Pages -> SUBSET Vehicles] /\ known \in [Pages -> SUBSET Vehicles]
  BY DEF PageTypeOK
<1>8. listed' \in [Pages -> SUBSET Vehicles]
  BY <1>5, <1>6, <1>7
<1>9. known' \in [Pages -> SUBSET Vehicles]
  <2>1. snapshot.type = "state" => known[p] \cup {snapshot.vehicle} \in SUBSET Vehicles
    BY <1>5, <1>7
  <2>2. QED
    BY <1>6, <1>7, <2>1
<1>10. PageTypeOK'
  BY <1>1, <1>4, <1>8, <1>9 DEF PageTypeOK
<1>11. PagesTold => PagesTold'
  BY <1>1, StaysTold DEF PagesTold
<1>12. QED
  BY <1>10, <1>11

LEMMA CloseEventTold ==
  ASSUME PageTypeOK, NEW p \in Pages, CloseEvent(p)
  PROVE  PageTypeOK' /\ (PagesTold => PagesTold')
<1>1. /\ socket' = [socket EXCEPT ![p] = "none"]
      /\ view' = [view EXCEPT ![p] = "vehicles"]
      /\ chosen' = [chosen EXCEPT ![p] = None]
      /\ known' = [known EXCEPT ![p] = {}]
      /\ UNCHANGED <<listed, stopped, toServer, toPage>>
      /\ UNCHANGED <<current, selected, online, givenUp>>
  BY DEF CloseEvent, cockpit
<1>2. PageTypeOK'
  BY <1>1 DEF PageTypeOK
<1>3. ASSUME PagesTold, NEW q \in Pages
      PROVE  Told(q)'
  <2>1. Told(q)
    BY <1>3 DEF PagesTold
  <2>2. CASE q # p
    BY <1>1, <2>1, <2>2, StaysTold DEF PageTypeOK
  <2>3. CASE q = p
    BY <1>1, <2>3 DEF Told, PageTypeOK
  <2>4. QED
    BY <2>2, <2>3
<1>4. QED
  BY <1>2, <1>3 DEF PagesTold

LEMMA SelectVehicleTold ==
  ASSUME PageTypeOK,
         NEW p \in Pages, NEW v \in Vehicles, SelectVehicle(p, v)
  PROVE  PageTypeOK' /\ (PagesTold => PagesTold')
<1> DEFINE message == [type |-> "select_vehicle", vehicle |-> v]
<1>1. /\ socket[p] \in {"open", "cut"}
      /\ Send(p, message)
      /\ chosen' = [chosen EXCEPT ![p] = v]
      /\ view' = [view EXCEPT ![p] = "detail"]
      /\ UNCHANGED <<listed, known, stopped, socket, toPage>>
      /\ UNCHANGED <<current, selected, online, givenUp>>
  BY DEF SelectVehicle, cockpit
<1>2. message \in ToServer /\ message.vehicle = v
  BY DEF ToServer
<1> HIDE DEF message
<1>3. /\ toServer' \in [Pages -> Seq(ToServer)]
      /\ \A q \in Pages : q # p => toServer'[q] = toServer[q]
      /\ IF socket[p] = "open"
         THEN toServer'[p] # <<>> /\ Latest(toServer'[p]) = message
         ELSE toServer'[p] = toServer[p]
  BY <1>1, <1>2, SendIs
<1>4. v # None
  BY PageAssumption
<1>5. PageTypeOK'
  BY <1>1, <1>3, <1>4 DEF PageTypeOK
<1>6. ASSUME PagesTold, NEW q \in Pages
      PROVE  Told(q)'
  <2>1. Told(q)
    BY <1>6 DEF PagesTold
  <2>2. CASE q # p
    <3>1. chosen'[q] = chosen[q]
      BY <1>1, <2>2 DEF PageTypeOK
    <3>2. QED
      BY <1>1, <1>3, <2>1, <2>2, <3>1, StaysTold
  <2>3. CASE q = p
    BY <1>1, <1>2, <1>3, <2>1, <2>3 DEF Told, PageTypeOK
  <2>4. QED
    BY <2>2, <2>3
<1>7. QED
  BY <1>5, <1>6 DEF PagesTold

LEMMA ReturnTold ==
  ASSUME PageTypeOK, NEW p \in Pages, ReturnToVehicleList(p)
  PROVE  PageTypeOK' /\ (PagesTold => PagesTold')
<1> DEFINE message == [type |-> "deselect_vehicle", vehicle |-> None]
<1>1. /\ Send(p, message)
      /\ view' = [view EXCEPT ![p] = "vehicles"]
      /\ chosen' = [chosen EXCEPT ![p] = None]
      /\ UNCHANGED <<listed, known, stopped, socket, toPage>>
      /\ UNCHANGED <<current, selected, online, givenUp>>
  BY DEF ReturnToVehicleList, ReleaseSelectedVehicle, cockpit
<1>2. message \in ToServer /\ message.vehicle = None
  BY DEF ToServer
<1> HIDE DEF message
<1>3. /\ toServer' \in [Pages -> Seq(ToServer)]
      /\ \A q \in Pages : q # p => toServer'[q] = toServer[q]
      /\ IF socket[p] = "open"
         THEN toServer'[p] # <<>> /\ Latest(toServer'[p]) = message
         ELSE toServer'[p] = toServer[p]
  BY <1>1, <1>2, SendIs
<1>4. PageTypeOK'
  BY <1>1, <1>3 DEF PageTypeOK
<1>5. ASSUME PagesTold, NEW q \in Pages
      PROVE  Told(q)'
  <2>1. Told(q)
    BY <1>5 DEF PagesTold
  <2>2. CASE q # p
    <3>1. chosen'[q] = chosen[q]
      BY <1>1, <2>2 DEF PageTypeOK
    <3>2. QED
      BY <1>1, <1>3, <2>1, <2>2, <3>1, StaysTold
  <2>3. CASE q = p
    BY <1>1, <1>2, <1>3, <2>1, <2>3 DEF Told, PageTypeOK
  <2>4. QED
    BY <2>2, <2>3
<1>6. QED
  BY <1>4, <1>5 DEF PagesTold

LEMMA LeaveTold ==
  ASSUME PageTypeOK, NEW p \in Pages, Leave(p)
  PROVE  PageTypeOK' /\ (PagesTold => PagesTold')
<1> DEFINE message == [type |-> "deselect_vehicle", vehicle |-> None]
<1>1. /\ Send(p, message)
      /\ stopped' = [stopped EXCEPT ![p] = TRUE]
      /\ socket' = [socket EXCEPT ![p] =
                      IF @ = "none" THEN "none" ELSE "closing"]
      /\ view' = [view EXCEPT ![p] = "vehicles"]
      /\ chosen' = [chosen EXCEPT ![p] = None]
      /\ UNCHANGED <<listed, known, toPage>>
      /\ UNCHANGED <<current, selected, online, givenUp>>
  BY DEF Leave, ReleaseSelectedVehicle, cockpit
<1>2. message \in ToServer
  BY DEF ToServer
<1> HIDE DEF message
<1>3. /\ toServer' \in [Pages -> Seq(ToServer)]
      /\ \A q \in Pages : q # p => toServer'[q] = toServer[q]
  BY <1>1, <1>2, SendIs
<1>4. PageTypeOK'
  BY <1>1, <1>3 DEF PageTypeOK
<1>5. ASSUME PagesTold, NEW q \in Pages
      PROVE  Told(q)'
  <2>1. Told(q)
    BY <1>5 DEF PagesTold
  <2>2. CASE q # p
    <3>1. chosen'[q] = chosen[q] /\ socket'[q] = socket[q]
      BY <1>1, <2>2 DEF PageTypeOK
    <3>2. QED
      BY <1>1, <1>3, <2>1, <2>2, <3>1, StaysTold
  <2>3. CASE q = p
    BY <1>1, <2>3 DEF Told, PageTypeOK
  <2>4. QED
    BY <2>2, <2>3
<1>6. QED
  BY <1>4, <1>5 DEF PagesTold

LEMMA CutTold ==
  ASSUME PageTypeOK, NEW p \in Pages, Cut(p)
  PROVE  PageTypeOK' /\ (PagesTold => PagesTold')
<1>1. /\ socket' = [socket EXCEPT ![p] = "cut"]
      /\ \/ UNCHANGED toServer
         \/ toServer' = [toServer EXCEPT ![p] = <<>>]
      /\ UNCHANGED <<view, chosen, listed, known, stopped, toPage>>
      /\ UNCHANGED <<current, selected, online, givenUp>>
  BY DEF Cut, page, shown, cockpit
<1>2. toServer' \in [Pages -> Seq(ToServer)]
  <2>1. [toServer EXCEPT ![p] = <<>>] \in [Pages -> Seq(ToServer)]
    BY DEF PageTypeOK
  <2>2. QED
    BY <1>1, <2>1 DEF PageTypeOK
<1>3. PageTypeOK'
  BY <1>1, <1>2 DEF PageTypeOK
<1>4. ASSUME PagesTold, NEW q \in Pages
      PROVE  Told(q)'
  <2>1. Told(q)
    BY <1>4 DEF PagesTold
  <2>2. CASE q # p
    BY <1>1, <2>1, <2>2, StaysTold DEF PageTypeOK
  <2>3. CASE q = p
    BY <1>1, <2>3 DEF Told, PageTypeOK
  <2>4. QED
    BY <2>2, <2>3
<1>5. QED
  BY <1>3, <1>4 DEF PagesTold

(***************************************************************************)
(* The steps of the cockpit.                                               *)
(***************************************************************************)
LEMMA AcceptTold ==
  ASSUME PageTypeOK, NEW p \in Pages, Accept(p)
  PROVE  PageTypeOK' /\ (PagesTold /\ ~Overlap => PagesTold')
<1> DEFINE M == ToServer
<1>1. /\ socket[p] = "connecting" /\ current' = p
      /\ selected' \in {None, selected} /\ (~Overlap => selected' = None)
      /\ socket' = [q \in Pages |-> IF q = p THEN "open"
                                    ELSE IF q = current /\ socket[q] = "open"
                                    THEN "cut" ELSE socket[q]]
      /\ UNCHANGED <<view, chosen, listed, known, stopped, toPage>>
      /\ UNCHANGED <<online, givenUp>>
  BY DEF Accept, page, shown
<1>2. PICK kept \in 0 .. 1 :
        toServer' = [q \in Pages |->
          IF q = current /\ Len(toServer[q]) >= kept
          THEN SubSeq(toServer[q], 1, kept) ELSE toServer[q]]
  BY DEF Accept
<1>3. toServer \in [Pages -> Seq(M)]
  BY DEF PageTypeOK
<1> HIDE DEF M
<1>4. toServer' \in [Pages -> Seq(M)]
  <2>1. ASSUME NEW q \in Pages, Len(toServer[q]) >= kept
        PROVE  SubSeq(toServer[q], 1, kept) \in Seq(M)
    <3>1. toServer[q] \in Seq(M)
      BY <1>3
    <3>2. \A i \in 1 .. kept : toServer[q][i] \in M
      BY <2>1, <3>1
    <3>3. QED
      BY <3>1, <3>2
  <2>2. QED
    BY <1>2, <1>3, <2>1
<1>5. PageTypeOK'
  BY <1>1, <1>4 DEF PageTypeOK, M
<1>6. ASSUME PagesTold
      PROVE  /\ \A q \in Pages : Told(q)
             /\ p # current /\ toServer[p] = <<>> /\ chosen[p] = None
  BY <1>1, <1>6 DEF PagesTold, Told
<1>7. ASSUME PagesTold, ~Overlap, NEW q \in Pages
      PROVE  Told(q)'
  <2>1. CASE q = p
    <3>1. toServer'[p] = <<>>
      BY <1>2, <1>6, <1>7
    <3>2. socket'[p] = "open" /\ chosen'[p] = None
      BY <1>1, <1>6, <1>7, <1>7
    <3>3. QED
      BY <1>1, <1>7, <2>1, <3>1, <3>2 DEF Told, Agrees
  <2>2. CASE q # p
    <3>1. socket'[q] # "open" /\ (socket'[q] = "cut" \/ socket'[q] = socket[q])
      BY <1>1, <1>6, <1>7, <2>2 DEF Told
    <3>2. socket'[q] = "connecting" => toServer'[q] = toServer[q]
      BY <1>2, <1>6, <1>7, <3>1 DEF Told
    <3>3. QED
      BY <1>1, <1>6, <1>7, <2>2, <3>1, <3>2 DEF Told
  <2>3. QED
    BY <2>1, <2>2
<1>8. QED
  BY <1>5, <1>7 DEF PagesTold

LEMMA ProcessTold ==
  ASSUME PageTypeOK, NEW p \in Pages, Process(p)
  PROVE  PageTypeOK' /\ (PagesTold /\ ~Overlap => PagesTold')
<1> DEFINE M == ToServer
<1>0. p = current \/ Overlap
  BY DEF Process
<1>1. /\ toServer[p] # <<>>
      /\ selected' \in {Head(toServer[p]).vehicle, None}
      /\ toServer' = [toServer EXCEPT ![p] = Tail(@)]
      /\ givenUp' = (Head(toServer[p]).vehicle \notin online \cup {None})
      /\ ~givenUp' => selected' = Head(toServer[p]).vehicle
      /\ UNCHANGED <<view, chosen, listed, known, stopped, toPage>>
      /\ UNCHANGED <<socket, current, online>>
  BY DEF Process, page, shown
<1>2. toServer \in [Pages -> Seq(M)]
  BY DEF PageTypeOK
<1>3. Head(toServer[p]) \in M
  BY <1>1, <1>2, LatestTaken
<1>4. selected' \in Vehicles \cup {None}
  BY <1>1, <1>3 DEF ToServer
<1> HIDE DEF M
<1>5. /\ Tail(toServer[p]) \in Seq(M)
      /\ Tail(toServer[p]) = <<>> => Head(toServer[p]) = Latest(toServer[p])
      /\ Tail(toServer[p]) # <<>> =>
           Latest(Tail(toServer[p])) = Latest(toServer[p])
  BY <1>1, <1>2, LatestTaken
<1>6. toServer' \in [Pages -> Seq(M)] /\ toServer'[p] = Tail(toServer[p])
  BY <1>1, <1>2, <1>5
<1>7. PageTypeOK'
  BY <1>1, <1>4, <1>6 DEF PageTypeOK, M
<1>8. ASSUME PagesTold, ~Overlap, NEW q \in Pages
      PROVE  Told(q)'
  <2>1. Told(q)
    BY <1>8 DEF PagesTold
  <2>2. CASE q = p
    BY <1>0, <1>1, <1>5, <1>6, <1>8, <2>1, <2>2 DEF Told, Agrees
  <2>3. CASE q # p
    <3>1. toServer'[q] = toServer[q] /\ socket[q] # "open"
      BY <1>0, <1>1, <1>2, <1>8, <2>1, <2>3 DEF Told
    <3>2. QED
      BY <1>1, <2>1, <2>3, <3>1 DEF Told
  <2>4. QED
    BY <2>2, <2>3
<1>9. QED
  BY <1>7, <1>8 DEF PagesTold

\* The steps of the cockpit between the messages: what is selected may be
\* released, and that is remembered.
LEMMA OtherStepTold ==
  ASSUME PageTypeOK,
         \/ Disconnect \/ DeviceFails \/ PublishList
         \/ \E v \in Vehicles :
              Hear(v) \/ Silence(v) \/ PublishState(v)
  PROVE  PageTypeOK' /\ (PagesTold => PagesTold')
<1>1. UNCHANGED <<view, chosen, listed, known, stopped, socket, toServer>>
  BY DEF Disconnect, DeviceFails, PublishList, Hear,
         Silence, PublishState, SendToPage, page, shown
<1>2. online' \in SUBSET Vehicles
  BY DEF Disconnect, DeviceFails, PublishList, Hear,
         Silence, PublishState, SendToPage, cockpit, PageTypeOK
<1>3. toPage' \in [Pages -> Seq(ToPage)]
  <2> DEFINE M == ToPage
  <2>1. \/ UNCHANGED toPage
        \/ \E message \in M : /\ current # None
                              /\ toPage' = [toPage EXCEPT ![current] =
                                              Append(@, message)]
    <3>1. ASSUME PublishList
          PROVE  \E message \in M : SendToPage(message)
      <4>1. [type |-> "vehicles", online |-> online] \in M
        BY DEF ToPage, PageTypeOK
      <4>2. QED
        BY <3>1, <4>1 DEF PublishList
    <3>2. ASSUME NEW v \in Vehicles, PublishState(v)
          PROVE  \E message \in M : SendToPage(message)
      <4>1. [type |-> "state", vehicle |-> v] \in M
        BY DEF ToPage
      <4>2. QED
        BY <3>2, <4>1 DEF PublishState
    <3> HIDE DEF M
    <3>3. QED
      BY <3>1, <3>2 DEF Disconnect, DeviceFails, Hear,
                        Silence, SendToPage
  <2>2. toPage \in [Pages -> Seq(M)]
    BY DEF PageTypeOK
  <2> HIDE DEF M
  <2>3. CASE UNCHANGED toPage
    BY <2>2, <2>3 DEF M
  <2>4. ASSUME NEW message \in M, current # None,
               toPage' = [toPage EXCEPT ![current] = Append(@, message)]
        PROVE  toPage' \in [Pages -> Seq(M)]
    <3>1. current \in Pages
      BY <2>4 DEF PageTypeOK
    <3>2. Append(toPage[current], message) \in Seq(M)
      BY <2>2, <3>1, LatestAppended
    <3>3. QED
      BY <2>2, <2>4, <3>1, <3>2
  <2>5. QED
    BY <2>1, <2>3, <2>4 DEF M
<1>4. \/ UNCHANGED <<current, selected, givenUp>>
      \/ /\ current # None /\ socket[current] # "open"
         /\ current' = None /\ selected' = None /\ UNCHANGED givenUp
      \/ /\ selected' = None /\ UNCHANGED current
         /\ givenUp' \in BOOLEAN /\ (givenUp \/ selected # None => givenUp')
  <2>1. ASSUME NEW v \in Vehicles, Silence(v)
        PROVE  \/ UNCHANGED <<current, selected, givenUp>>
               \/ /\ selected' = None /\ UNCHANGED current
                  /\ givenUp' = TRUE
    <3>1. givenUp \in BOOLEAN
      BY DEF PageTypeOK
    <3>2. CASE selected = v
      BY <2>1, <3>2 DEF Silence
    <3>3. CASE selected # v
      BY <2>1, <3>1, <3>3 DEF Silence
    <3>4. QED
      BY <3>2, <3>3
  <2>2. ASSUME DeviceFails
        PROVE  /\ selected' = None /\ UNCHANGED current
               /\ givenUp' \in BOOLEAN
               /\ givenUp \/ selected # None => givenUp'
    BY <2>2 DEF DeviceFails
  <2>3. CASE Disconnect
    BY <2>3 DEF Disconnect
  <2>4. CASE PublishList \/ \E v \in Vehicles :
               Hear(v) \/ PublishState(v)
    BY <2>4 DEF PublishList, Hear, PublishState, SendToPage,
                cockpit
  <2>5. QED
    BY <2>1, <2>2, <2>3, <2>4
<1>5. PageTypeOK'
  BY <1>1, <1>2, <1>3, <1>4 DEF PageTypeOK
<1>6. ASSUME PagesTold, NEW q \in Pages
      PROVE  Told(q)'
  <2>1. Told(q)
    BY <1>6 DEF PagesTold
  <2>2. CASE UNCHANGED <<current, selected, givenUp>>
    BY <1>1, <2>1, <2>2, StaysTold
  <2>3. CASE /\ current # None /\ socket[current] # "open"
             /\ current' = None
    BY <1>1, <2>1, <2>3, PageAssumption DEF Told
  <2>4. CASE /\ selected' = None /\ UNCHANGED current
             /\ givenUp \/ selected # None => givenUp'
    BY <1>1, <2>1, <2>4 DEF Told, Agrees
  <2>5. QED
    BY <1>4, <2>2, <2>3, <2>4
<1>7. QED
  BY <1>5, <1>6 DEF PagesTold

LEMMA NextTold ==
  ASSUME PageTypeOK, [PageNext]_pageVars
  PROVE  PageTypeOK' /\ (PagesTold /\ ~Overlap => PagesTold')
<1>1. CASE UNCHANGED pageVars
  <2>1. /\ UNCHANGED <<view, chosen, listed, known, stopped, socket, toServer>>
        /\ UNCHANGED <<toPage, current, selected, online, givenUp>>
    BY <1>1 DEF pageVars, page, shown, cockpit
  <2>2. PageTypeOK'
    BY <2>1 DEF PageTypeOK
  <2>3. PagesTold => PagesTold'
    BY <2>1, StaysTold DEF PagesTold
  <2>4. QED
    BY <2>2, <2>3
<1>2. CASE CockpitStep
  BY <1>2, AcceptTold, ProcessTold, OtherStepTold DEF CockpitStep
<1>3. ASSUME NEW p \in Pages, PageStep(p)
      PROVE  PageTypeOK' /\ (PagesTold => PagesTold')
  BY <1>3, ConnectTold, ReceiveTold, CloseEventTold, SelectVehicleTold,
     ReturnTold, LeaveTold, CutTold DEF PageStep
<1>4. QED
  BY <1>1, <1>2, <1>3 DEF PageNext

\* The page, its sockets and the cockpit keep their types, and a page shows the
\* detail of a vehicle exactly while it has chosen one.
THEOREM PageTypeCorrect == PageSpec => []PageTypeOK
<1>1. PageInit => PageTypeOK
  BY InitTold
<1>2. PageTypeOK /\ [PageNext]_pageVars => PageTypeOK'
  BY NextTold
<1>3. QED
  BY <1>1, <1>2, PTL DEF PageSpec

\* When the handlers of two sessions do not run in one poll, what a connected
\* page has said last is what it shows, however often pages were cut off,
\* replaced and connected again.
THEOREM PageInvariant ==
  ASSUME ~Overlap
  PROVE  PageSpec => [](PageTypeOK /\ PagesTold)
<1>1. PageInit => PageTypeOK /\ PagesTold
  BY InitTold
<1>2. PageTypeOK /\ PagesTold /\ [PageNext]_pageVars
        => PageTypeOK' /\ PagesTold'
  BY NextTold
<1>3. QED
  BY <1>1, <1>2, PTL DEF PageSpec

LEMMA ToldAgrees ==
  ASSUME PageTypeOK, PagesTold, current # None, socket[current] = "open",
         toServer[current] = <<>>
  PROVE  Agrees(current)
<1>1. current \in Pages
  BY DEF PageTypeOK
<1>2. QED
  BY <1>1 DEF PagesTold, Told

\* The cockpit drives no vehicle the operator does not see.
THEOREM SelectedShown ==
  ASSUME ~Overlap
  PROVE  PageSpec => []SelectedIsShown
<1>1. PageTypeOK /\ PagesTold => SelectedIsShown
  BY ToldAgrees DEF SelectedIsShown, Agrees
<1>2. QED
  BY <1>1, PageInvariant, PTL

\* The vehicle whose detail the page shows is the one the cockpit drives, unless
\* the cockpit has released it on its own.
THEOREM ChosenDriven ==
  ASSUME ~Overlap
  PROVE  PageSpec => []ChosenIsDriven
<1>1. PageTypeOK /\ PagesTold => ChosenIsDriven
  BY ToldAgrees DEF ChosenIsDriven, Agrees
<1>2. QED
  BY <1>1, PageInvariant, PTL
=============================================================================
