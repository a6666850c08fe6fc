------------------------ MODULE StdioTransport_proofs ------------------------
(***************************************************************************)
(* Proofs about StdioTransport, for any pipe sizes, any number of requests *)
(* and any faults of the subprocess.                                       *)
(***************************************************************************)
EXTENDS StdioTransport, TLAPS

(* What a call may still have to send fits the bound on request ids.       *)
RoomForIds ==
    /\ call.pc = "initialize" => idSeq + 2 <= MaxId
    /\ call.pc \in {"awaitInitialize", "notify", "tool"} => idSeq + 1 <= MaxId

(* A call has an id and a result while it waits, and only then.            *)
PhaseOK ==
    IF call.pc \in Waiting THEN call.id \in Id
                           ELSE call.id = NoId /\ done = Empty

TypeInv == TypeOK /\ RoomForIds /\ PhaseOK

CallerStep ==
    \/ StartCall \/ WriteFails \/ SendRequest \/ ReceiveDone \/ SendInitialized
    \/ Expire \/ GiveUp

(* A pipe accepts a message as long as it has room.                        *)
LEMMA AppendFits ==
    ASSUME NEW S, NEW s \in Seq(S), NEW e \in S, NEW n \in Nat, Len(s) < n
    PROVE  Append(s, e) \in Seq(S) /\ Len(Append(s, e)) <= n
<1>1. Append(s, e) \in Seq(S) /\ Len(Append(s, e)) = Len(s) + 1
  OBVIOUS
<1> QED
  BY <1>1

LEMMA TailFits ==
    ASSUME NEW S, NEW s \in Seq(S), s # <<>>, NEW n \in Nat, Len(s) <= n
    PROVE  /\ Head(s) \in S /\ Tail(s) \in Seq(S)
           /\ Len(Tail(s)) <= n
<1>1. Head(s) \in S /\ Tail(s) \in Seq(S) /\ Len(Tail(s)) = Len(s) - 1
  OBVIOUS
<1> QED
  BY <1>1

LEMMA CallerTyped ==
    ASSUME TypeInv, CallerStep
    PROVE  TypeInv'
<1> USE ConstantsAssumption DEF TypeInv, TypeOK, RoomForIds, PhaseOK, environment
<1>1. Idle \in Call
  BY DEF Call, Idle
<1>2. CASE StartCall
  <2>1. FirstRequest \in {"initialize", "tool"}
    BY DEF FirstRequest
  <2>2. call' \in Call /\ call'.pc = FirstRequest /\ call'.id = NoId
    BY <1>2, <2>1 DEF StartCall, Call, Idle, Sending
  <2>3. idSeq + 2 <= MaxId /\ idSeq + 1 <= MaxId
    BY <1>2 DEF StartCall
  <2> QED
    BY <1>2, <2>1, <2>2, <2>3 DEF StartCall, Waiting
<1>3. CASE WriteFails
  <2>1. call' = Idle /\ call'.pc = "idle" /\ call'.id = NoId /\ done' = Empty
    BY <1>3 DEF WriteFails, Return, Idle
  <2>2. idSeq' \in 0 .. MaxId
    BY <1>3 DEF WriteFails, Sending
  <2> QED
    BY <1>1, <1>3, <2>1, <2>2 DEF WriteFails, Waiting
<1>4. CASE SendRequest
  <2>1. idSeq + 1 <= MaxId /\ idSeq + 1 \in Id
    BY <1>4 DEF SendRequest, Id
  <2>2. [kind |-> call.pc, id |-> idSeq + 1] \in Message
    BY <1>4, <2>1 DEF SendRequest, Message
  <2>3. stdin' \in Seq(Message) /\ Len(stdin') <= PipeRoom
    BY <1>4, <2>2, AppendFits DEF SendRequest, Write
  <2>4. call' \in Call /\ call'.pc \in Waiting /\ call'.id \in Id
    BY <1>4, <2>1 DEF SendRequest, Call, Waiting
  <2>5. call'.pc = "awaitInitialize" => idSeq' + 1 <= MaxId
    BY <1>4 DEF SendRequest, Call
  <2> QED
    BY <1>4, <2>1, <2>3, <2>4, <2>5 DEF SendRequest, Waiting
<1>5. CASE ReceiveDone
  <2>1. CASE done # EOF /\ call.pc = "awaitInitialize"
    <3>1. call' \in Call /\ call'.pc = "notify" /\ call'.id = NoId /\ done' = Empty
      BY <1>5, <2>1 DEF ReceiveDone, Call, Sending
    <3> QED
      BY <1>5, <2>1, <3>1 DEF ReceiveDone, Waiting
  <2>2. CASE ~(done # EOF /\ call.pc = "awaitInitialize")
    <3>1. call' = Idle /\ call'.pc = "idle" /\ call'.id = NoId /\ done' = Empty
      BY <1>5, <2>2 DEF ReceiveDone, Return, Idle
    <3>2. /\ UNCHANGED <<cmd, initialized, idSeq, stdin, stdout, readers, abandoned>>
          /\ UNCHANGED <<working, greeted>>
      BY <1>5 DEF ReceiveDone
    <3> QED
      BY <1>1, <3>1, <3>2 DEF Waiting
  <2> QED
    BY <2>1, <2>2
<1>6. CASE SendInitialized
  <2>1. [kind |-> "initialized", id |-> NoId] \in Message
    BY DEF Message
  <2>2. stdin' \in Seq(Message) /\ Len(stdin') <= PipeRoom
    BY <1>6, <2>1, AppendFits DEF SendInitialized, Write
  <2>3. call' \in Call /\ call'.pc = "tool" /\ call'.id = call.id
    BY <1>6 DEF SendInitialized, Call, Sending
  <2> QED
    BY <1>6, <2>2, <2>3 DEF SendInitialized, Waiting
<1>7. CASE Expire
  <2>1. call' \in Call /\ call'.pc = call.pc /\ call'.id = call.id
    BY <1>7 DEF Expire, Call
  <2> QED
    BY <1>7, <2>1 DEF Expire
<1>8. CASE GiveUp
  <2>1. call.id \in Id
    BY <1>8 DEF GiveUp
  <2> QED
    BY <1>1, <1>8, <2>1 DEF GiveUp, Return, Idle, Waiting
<1> QED
  BY <1>2, <1>3, <1>4, <1>5, <1>6, <1>7, <1>8 DEF CallerStep

(* The readers' and the subprocess's steps do not move the caller.         *)
LEMMA SeesTyped ==
    ASSUME NEW line \in Id \cup {NoId}, NEW R \in SUBSET readers,
           readers \subseteq Id, PhaseOK, call \in Call,
           done \in Id \cup {Empty, EOF}, Sees(R, line)
    PROVE  /\ readers' \subseteq readers
           /\ done' \in Id \cup {Empty, EOF}
           /\ done' # done => call.pc \in Waiting /\ done' = call.id
           /\ done' # done => call.id \notin readers'
<1> DEFINE served == {r \in R : Matches(line, r)}
<1>1. readers' = readers \ served /\ done' = IF call.id \in served THEN line ELSE done
  BY DEF Sees
<1>2. CASE call.id \in served
  <2>1. line # NoId /\ line = call.id
    BY <1>2 DEF Matches
  <2>2. call.pc \in Waiting
    BY <2>1 DEF PhaseOK
  <2> QED
    BY <1>1, <1>2, <2>1, <2>2
<1>3. CASE call.id \notin served
  BY <1>1, <1>3
<1> QED
  BY <1>2, <1>3

LEMMA ReaderTyped ==
    ASSUME TypeInv, Reader
    PROVE  TypeInv'
<1> USE ConstantsAssumption
<1>1. CASE ReadLine
  <2>1. PICK R \in SUBSET readers : Sees(R, Head(stdout))
    BY <1>1 DEF ReadLine
  <2>2. /\ Head(stdout) \in Id \cup {NoId}
        /\ stdout' \in Seq(Id \cup {NoId}) /\ Len(stdout') <= LineRoom
    BY <1>1, TailFits DEF ReadLine, TypeInv, TypeOK
  <2>3. /\ readers' \subseteq readers
        /\ done' \in Id \cup {Empty, EOF}
        /\ done' # done => call.pc \in Waiting
    BY <2>1, <2>2, SeesTyped DEF TypeInv, TypeOK
  <2>4. UNCHANGED <<cmd, initialized, idSeq, stdin, call, abandoned, working, greeted>>
    BY <1>1 DEF ReadLine, environment
  <2>5. TypeOK' /\ RoomForIds'
    BY <2>2, <2>3, <2>4 DEF TypeInv, TypeOK, RoomForIds
  <2>6. PhaseOK'
    BY <2>3, <2>4 DEF TypeInv, PhaseOK
  <2> QED
    BY <2>5, <2>6 DEF TypeInv
<1>2. CASE Panic
  <2>1. /\ call' \in Call /\ call'.pc = "panicked" /\ call'.id = NoId
        /\ readers' = {} /\ done' = Empty
    BY <1>2 DEF Panic, Idle, Call
  <2>2. /\ stdout' = stdout
        /\ UNCHANGED <<cmd, initialized, idSeq, stdin, abandoned, working, greeted>>
    BY <1>2 DEF Panic, environment
  <2>3. TypeOK' /\ RoomForIds'
    BY <2>1, <2>2 DEF TypeInv, TypeOK, RoomForIds
  <2>4. PhaseOK'
    BY <2>1 DEF PhaseOK, Waiting
  <2> QED
    BY <2>3, <2>4 DEF TypeInv
<1>3. ASSUME NEW r \in Id, ReadEOF(r)
      PROVE  TypeInv'
  <2>1. /\ readers' \subseteq readers
        /\ done' = IF r = call.id THEN EOF ELSE done
        /\ UNCHANGED <<cmd, initialized, idSeq, stdin, stdout, call, abandoned,
                       working, greeted>>
    BY <1>3 DEF ReadEOF, environment
  <2>2. TypeOK' /\ RoomForIds'
    BY <2>1 DEF TypeInv, TypeOK, RoomForIds
  <2>3. r = call.id => call.pc \in Waiting
    BY DEF TypeInv, PhaseOK, Id, NoId
  <2>4. PhaseOK'
    BY <2>1, <2>3 DEF TypeInv, PhaseOK
  <2> QED
    BY <2>2, <2>4 DEF TypeInv
<1> QED
  BY <1>1, <1>2, <1>3 DEF Reader

LEMMA ServerTyped ==
    ASSUME TypeInv, Server
    PROVE  TypeInv' /\ UNCHANGED <<readers, call, done, abandoned>>
<1> USE ConstantsAssumption
<1>1. CASE ServerReads
  <2>1. /\ Head(stdin) \in Message
        /\ stdin' \in Seq(Message) /\ Len(stdin') <= PipeRoom
    BY <1>1, TailFits DEF ServerReads, TypeInv, TypeOK
  <2>2. working' \subseteq Id /\ greeted' \in BOOLEAN
    BY <1>1, <2>1 DEF ServerReads, TypeInv, TypeOK, Message
  <2>3. UNCHANGED <<cmd, initialized, idSeq, stdout, readers, call, done, abandoned>>
    BY <1>1 DEF ServerReads
  <2> QED
    BY <2>1, <2>2, <2>3 DEF TypeInv, TypeOK, RoomForIds, PhaseOK
<1>2. ASSUME NEW m \in Id \cup {NoId}, Len(stdout) < LineRoom,
             stdout' = Append(stdout, m), working' \subseteq working,
             UNCHANGED <<cmd, initialized, idSeq, stdin, readers, call, done, abandoned,
                         greeted>>
      PROVE  TypeInv'
  <2>1. stdout' \in Seq(Id \cup {NoId}) /\ Len(stdout') <= LineRoom
    BY <1>2, AppendFits DEF TypeInv, TypeOK
  <2> QED
    BY <1>2, <2>1 DEF TypeInv, TypeOK, RoomForIds, PhaseOK
<1>3. ASSUME NEW id \in Id, ServerAnswers(id)
      PROVE  TypeInv' /\ UNCHANGED <<readers, call, done, abandoned>>
  BY <1>2, <1>3 DEF ServerAnswers
<1>4. CASE ServerNotifies
  BY <1>2, <1>4 DEF ServerNotifies, environment
<1>5. CASE ServerHangs
  BY <1>5 DEF ServerHangs, environment, TypeInv, TypeOK, RoomForIds, PhaseOK
<1>6. CASE ServerDies
  <2>1. <<>> \in Seq(Message) /\ Len(<<>>) = 0
    OBVIOUS
  <2> QED
    BY <1>6, <2>1 DEF ServerDies, TypeInv, TypeOK, RoomForIds, PhaseOK
<1> QED
  BY <1>1, <1>3, <1>4, <1>5, <1>6 DEF Server

LEMMA TypeInvStays == TypeInv /\ [Next]_vars => TypeInv'
<1>1. ASSUME TypeInv, Next
      PROVE  TypeInv'
  BY <1>1, CallerTyped, ReaderTyped, ServerTyped DEF Next, Caller, CallerStep
<1>2. ASSUME TypeInv, UNCHANGED vars
      PROVE  TypeInv'
  BY <1>2 DEF vars, TypeInv, TypeOK, RoomForIds, PhaseOK
<1> QED
  BY <1>1, <1>2

LEMMA TypeInvHolds == Spec => []TypeInv
<1>1. ASSUME Init
      PROVE  TypeInv
  <2>1. /\ <<>> \in Seq(Message) /\ <<>> \in Seq(Id \cup {NoId}) /\ Len(<<>>) = 0
        /\ Idle \in Call /\ Idle.pc = "idle" /\ Idle.id = NoId
    BY DEF Idle, Call
  <2>2. /\ stdin \in Seq(Message) /\ Len(stdin) <= PipeRoom
        /\ stdout \in Seq(Id \cup {NoId}) /\ Len(stdout) <= LineRoom
    BY <1>1, <2>1, ConstantsAssumption DEF Init
  <2>3. idSeq \in 0 .. MaxId
    BY <1>1, ConstantsAssumption DEF Init
  <2>4. call = Idle /\ call.pc = "idle" /\ call.id = NoId
    BY <1>1, <2>1 DEF Init
  <2>5. RoomForIds /\ PhaseOK
    BY <1>1, <2>4 DEF Init, RoomForIds, PhaseOK, Waiting
  <2> QED
    BY <1>1, <2>1, <2>2, <2>3, <2>5 DEF Init, TypeInv, TypeOK
<1> QED
  BY <1>1, TypeInvStays, PTL DEF Spec

(* Every variable holds what the code can put there (StdioTransport.tla,   *)
(* TypeOK; mcpStdioTransport, transport.go:421-589).                       *)
THEOREM TransportTypeCorrect == Spec => []TypeOK
<1>1. TypeInv => TypeOK
  BY DEF TypeInv
<1> QED
  BY <1>1, TypeInvHolds, PTL

-----------------------------------------------------------------------------
(***************************************************************************)
(* Whose answer a call gets, and whose goroutines are left behind.         *)
(***************************************************************************)

(* The reader whose answer has been sent has ended, so what still reads    *)
(* when a call returns belongs to requests that were given up.             *)
ReadersInv ==
    /\ LeftoversTimedOut
    /\ AnswerIsOwn
    /\ done # Empty => call.id \notin readers

LEMMA CallerKeepsReaders ==
    ASSUME TypeInv, ReadersInv, CallerStep
    PROVE  ReadersInv'
<1> USE ConstantsAssumption DEF ReadersInv, LeftoversTimedOut, AnswerIsOwn
<1>1. /\ call.pc \notin Waiting => call.id = NoId /\ done = Empty
      /\ readers \subseteq Id /\ NoId \notin Id /\ Empty \notin Id
  BY DEF TypeInv, TypeOK, PhaseOK, Id, NoId
<1>2. CASE StartCall
  <2>1. call'.id = NoId /\ call.pc \notin Waiting
    BY <1>2 DEF StartCall, Idle, Waiting
  <2> QED
    BY <1>1, <1>2, <2>1 DEF StartCall
<1>3. CASE WriteFails
  <2>1. call'.id = NoId /\ done' = Empty /\ call.pc \notin Waiting
    BY <1>3 DEF WriteFails, Return, Idle, Sending, Waiting
  <2> QED
    BY <1>1, <1>3, <2>1 DEF WriteFails
<1>4. CASE SendRequest
  <2>1. /\ call'.id = idSeq + 1 /\ done' = Empty /\ call.pc \notin Waiting
        /\ readers' = readers \cup {idSeq + 1} /\ abandoned' = abandoned
    BY <1>4 DEF SendRequest, TypeInv, TypeOK, Call, Waiting
  <2> QED
    BY <1>1, <2>1
<1>5. CASE ReceiveDone
  <2>1. call.id \notin readers
    BY <1>5 DEF ReceiveDone
  <2>2. done' = Empty /\ readers' = readers /\ abandoned' = abandoned
    BY <1>5 DEF ReceiveDone, Return
  <2> QED
    BY <1>1, <2>1, <2>2
<1>6. CASE SendInitialized
  <2>1. call'.id = call.id
    BY <1>6 DEF SendInitialized, TypeInv, TypeOK, Call
  <2> QED
    BY <1>6, <2>1 DEF SendInitialized
<1>7. CASE Expire
  <2>1. call'.id = call.id
    BY <1>7 DEF Expire, TypeInv, TypeOK, Call
  <2> QED
    BY <1>7, <2>1 DEF Expire
<1>8. CASE GiveUp
  BY <1>1, <1>8 DEF GiveUp, Return, Idle
<1> QED
  BY <1>2, <1>3, <1>4, <1>5, <1>6, <1>7, <1>8 DEF CallerStep

LEMMA ReaderKeepsReaders ==
    ASSUME TypeInv, ReadersInv, Reader
    PROVE  ReadersInv'
<1> USE ConstantsAssumption DEF ReadersInv, LeftoversTimedOut, AnswerIsOwn
<1>1. CASE ReadLine
  <2>1. PICK R \in SUBSET readers : Sees(R, Head(stdout))
    BY <1>1 DEF ReadLine
  <2>2. Head(stdout) \in Id \cup {NoId}
    BY <1>1, TailFits DEF ReadLine, TypeInv, TypeOK
  <2>3. /\ readers' \subseteq readers
        /\ done' # done => done' = call.id
        /\ done' # done => call.id \notin readers'
    BY <2>1, <2>2, SeesTyped DEF TypeInv, TypeOK
  <2> QED
    BY <1>1, <2>3 DEF ReadLine
<1>2. CASE Panic
  <2>1. readers' = {} /\ done' = Empty
    BY <1>2 DEF Panic
  <2> QED
    BY <2>1 DEF Id
<1>3. ASSUME NEW r \in Id, ReadEOF(r)
      PROVE  ReadersInv'
  BY <1>3 DEF ReadEOF, Id
<1> QED
  BY <1>1, <1>2, <1>3 DEF Reader

LEMMA ReadersInvHolds == Spec => []ReadersInv
<1>1. Init => ReadersInv
  BY ConstantsAssumption DEF Init, ReadersInv, LeftoversTimedOut, AnswerIsOwn, Id
<1>2. ASSUME TypeInv, ReadersInv, Next
      PROVE  ReadersInv'
  <2>1. CASE Server
    BY <1>2, <2>1, ServerTyped DEF ReadersInv, LeftoversTimedOut, AnswerIsOwn
  <2> QED
    BY <1>2, <2>1, CallerKeepsReaders, ReaderKeepsReaders DEF Next, Caller, CallerStep
<1>3. ASSUME ReadersInv, UNCHANGED vars
      PROVE  ReadersInv'
  BY <1>3 DEF vars, ReadersInv, LeftoversTimedOut, AnswerIsOwn
<1> QED
  BY <1>1, <1>2, <1>3, TypeInvHolds, PTL DEF Spec

(* transport.go:562-565: whatever answers come late, out of order or torn  *)
(* by the race of the readers, a call only ever gets its own.              *)
THEOREM AnswersAreOwn == Spec => []AnswerIsOwn
<1>1. ReadersInv => AnswerIsOwn
  BY DEF ReadersInv
<1> QED
  BY <1>1, ReadersInvHolds, PTL

(* transport.go:544-567: a reader goroutine belongs to the pending request *)
(* or to one that was given up at its deadline.                            *)
THEOREM ReadersAreAccountedFor == Spec => []LeftoversTimedOut
<1>1. ReadersInv => LeftoversTimedOut
  BY DEF ReadersInv
<1> QED
  BY <1>1, ReadersInvHolds, PTL

-----------------------------------------------------------------------------
(***************************************************************************)
(* The order in which the subprocess gets its messages.                    *)
(***************************************************************************)

(* The handshake is over before message i of the pipe s.                   *)
OverBefore(g, s, i) == g \/ \E j \in 1 .. i - 1 : s[j].kind = "initialized"
Ordered(g, s) == \A i \in 1 .. Len(s) : s[i].kind = "tool" <=> OverBefore(g, s, i)
Over(g, s) == OverBefore(g, s, Len(s) + 1)

LEMMA AppendOrdered ==
    ASSUME NEW g, NEW s \in Seq(Message), NEW m \in Message, Ordered(g, s),
           m.kind = "tool" <=> Over(g, s)
    PROVE  /\ Ordered(g, Append(s, m))
           /\ Over(g, Append(s, m)) <=> Over(g, s) \/ m.kind = "initialized"
<1> DEFINE t == Append(s, m)
<1>1. /\ Len(t) = Len(s) + 1 /\ Len(s) \in Nat
      /\ \A i \in 1 .. Len(s) : t[i] = s[i]
      /\ t[Len(s) + 1] = m
  OBVIOUS
<1> HIDE DEF t
<1>2. \A i \in 1 .. Len(s) + 1 : OverBefore(g, t, i) <=> OverBefore(g, s, i)
  BY <1>1 DEF OverBefore
<1>3. Ordered(g, t)
  <2>1. ASSUME NEW i \in 1 .. Len(s)
        PROVE  t[i].kind = "tool" <=> OverBefore(g, t, i)
    BY <1>1, <1>2 DEF Ordered
  <2>2. t[Len(s) + 1].kind = "tool" <=> OverBefore(g, t, Len(s) + 1)
    BY <1>1, <1>2 DEF Over
  <2> QED
    BY <1>1, <2>1, <2>2 DEF Ordered
<1>4. Over(g, t) <=> Over(g, s) \/ m.kind = "initialized"
  <2>1. Over(g, t) <=> OverBefore(g, t, Len(s) + 1) \/ t[Len(s) + 1].kind = "initialized"
    BY <1>1 DEF Over, OverBefore
  <2> QED
    BY <1>1, <1>2, <2>1 DEF Over
<1> QED
  BY <1>3, <1>4 DEF t

LEMMA TailOrdered ==
    ASSUME NEW g, NEW h, NEW s \in Seq(Message), s # <<>>, Ordered(g, s),
           h <=> (g \/ Head(s).kind = "initialized")
    PROVE  /\ Ordered(h, Tail(s))
           /\ Over(h, Tail(s)) <=> Over(g, s)
<1> DEFINE t == Tail(s)
<1>1. /\ Len(s) = Len(t) + 1 /\ Len(t) \in Nat
      /\ \A i \in 1 .. Len(t) : t[i] = s[i + 1]
      /\ Head(s) = s[1]
  OBVIOUS
<1> HIDE DEF t
<1>2. ASSUME NEW i \in 1 .. Len(t) + 1
      PROVE  OverBefore(h, t, i) <=> OverBefore(g, s, i + 1)
  <2>1. (\E j \in 1 .. i - 1 : t[j].kind = "initialized")
          <=> \E j \in 2 .. i : s[j].kind = "initialized"
    <3>1. ASSUME NEW j \in 1 .. i - 1, t[j].kind = "initialized"
          PROVE  \E k \in 2 .. i : s[k].kind = "initialized"
      BY <1>1, <3>1
    <3>2. ASSUME NEW k \in 2 .. i, s[k].kind = "initialized"
          PROVE  \E j \in 1 .. i - 1 : t[j].kind = "initialized"
      <4>1. k - 1 \in 1 .. i - 1 /\ t[k - 1] = s[k]
        BY <1>1
      <4> QED
        BY <3>2, <4>1
    <3> QED
      BY <3>1, <3>2
  <2>2. (\E j \in 1 .. i : s[j].kind = "initialized")
          <=> (s[1].kind = "initialized" \/ \E j \in 2 .. i : s[j].kind = "initialized")
    BY <1>1
  <2> QED
    BY <1>1, <2>1, <2>2 DEF OverBefore
<1>3. Ordered(h, t)
  <2>1. ASSUME NEW i \in 1 .. Len(t)
        PROVE  t[i].kind = "tool" <=> OverBefore(h, t, i)
    <3>1. OverBefore(h, t, i) <=> OverBefore(g, s, i + 1)
      BY <1>1, <1>2
    <3>2. i + 1 \in 1 .. Len(s)
      BY <1>1
    <3> QED
      BY <1>1, <3>1, <3>2 DEF Ordered
  <2> QED
    BY <2>1 DEF Ordered
<1>4. Over(h, t) <=> Over(g, s)
  <2>1. Len(t) + 1 \in 1 .. Len(t) + 1
    BY <1>1
  <2> QED
    BY <1>1, <1>2, <2>1 DEF Over
<1> QED
  BY <1>3, <1>4 DEF t

(* initialized is set exactly when the subprocess has been, or will be,    *)
(* told so; a call that is past the handshake knows it.                    *)
HandshakeInv ==
    /\ Ordered(greeted, stdin)
    /\ cmd # "dead" => (initialized <=> Over(greeted, stdin))
    /\ call.pc = "tool" => initialized
    /\ call.pc \in {"initialize", "awaitInitialize", "notify"} => ~initialized

LEMMA CallerKeepsOrder ==
    ASSUME TypeInv, HandshakeInv, CallerStep
    PROVE  HandshakeInv'
<1> USE DEF HandshakeInv
<1>0. call \in Call /\ stdin \in Seq(Message) /\ initialized \in BOOLEAN
  BY DEF TypeInv, TypeOK
<1>1. CASE StartCall
  <2>1. call'.pc = FirstRequest
    BY <1>1 DEF StartCall, Idle
  <2>2. cmd' # "dead" => cmd # "dead"
    BY <1>1 DEF StartCall
  <2> QED
    BY <1>1, <2>1, <2>2 DEF StartCall, FirstRequest, environment
<1>2. CASE WriteFails
  BY <1>2 DEF WriteFails, Return, Idle, environment
<1>3. CASE SendRequest
  <2> DEFINE m == [kind |-> call.pc, id |-> idSeq + 1]
  <2>1. m \in Message /\ m.kind = call.pc /\ m.kind # "initialized"
    <3>1. call.pc \in {"initialize", "tool"}
      BY <1>3 DEF SendRequest
    <3>2. idSeq + 1 \in Id
      BY <3>1, ConstantsAssumption DEF TypeInv, TypeOK, RoomForIds, Id
    <3> QED
      BY <3>1, <3>2 DEF Message
  <2>2. stdin' = Append(stdin, m) /\ cmd # "dead"
    BY <1>3 DEF SendRequest, Write, Running
  <2>3. m.kind = "tool" <=> Over(greeted, stdin)
    BY <1>3, <2>1, <2>2 DEF SendRequest
  <2> HIDE DEF m
  <2>4. /\ Ordered(greeted, stdin')
        /\ Over(greeted, stdin') <=> Over(greeted, stdin)
    BY <1>0, <2>1, <2>2, <2>3, AppendOrdered
  <2>5. /\ call'.pc \in {"awaitTool", "awaitInitialize"}
        /\ call'.pc = "awaitInitialize" => call.pc = "initialize"
    BY <1>0, <1>3 DEF SendRequest, Call
  <2> QED
    BY <1>3, <2>4, <2>5 DEF SendRequest, environment
<1>4. CASE ReceiveDone
  <2>1. /\ call'.pc \in {"notify", "idle"}
        /\ call'.pc = "notify" => call.pc = "awaitInitialize"
    <3>1. CASE done # EOF /\ call.pc = "awaitInitialize"
      BY <1>0, <1>4, <3>1 DEF ReceiveDone, Call
    <3>2. CASE ~(done # EOF /\ call.pc = "awaitInitialize")
      BY <1>4, <3>2 DEF ReceiveDone, Return, Idle
    <3> QED
      BY <3>1, <3>2
  <2> QED
    BY <1>4, <2>1 DEF ReceiveDone, environment
<1>5. CASE SendInitialized
  <2> DEFINE m == [kind |-> "initialized", id |-> NoId]
  <2>1. m \in Message /\ m.kind = "initialized"
    BY DEF Message
  <2>2. stdin' = Append(stdin, m) /\ cmd # "dead"
    BY <1>5 DEF SendInitialized, Write, Running
  <2> HIDE DEF m
  <2>3. ~Over(greeted, stdin)
    BY <1>5, <2>2 DEF SendInitialized
  <2>4. Ordered(greeted, stdin') /\ Over(greeted, stdin')
    BY <1>0, <2>1, <2>2, <2>3, AppendOrdered
  <2>5. call'.pc = "tool"
    BY <1>0, <1>5 DEF SendInitialized, Call
  <2> QED
    BY <1>5, <2>4, <2>5 DEF SendInitialized, environment
<1>6. CASE Expire
  <2>1. call'.pc = call.pc
    BY <1>0, <1>6 DEF Expire, Call
  <2> QED
    BY <1>6, <2>1 DEF Expire, environment
<1>7. CASE GiveUp
  BY <1>7 DEF GiveUp, Return, Idle, environment
<1> QED
  BY <1>1, <1>2, <1>3, <1>4, <1>5, <1>6, <1>7 DEF CallerStep

LEMMA ServerKeepsOrder ==
    ASSUME TypeInv, HandshakeInv, Server
    PROVE  HandshakeInv'
<1> USE DEF HandshakeInv
<1>1. CASE ServerReads
  <2>1. /\ stdin \in Seq(Message) /\ stdin # <<>> /\ stdin' = Tail(stdin)
        /\ Head(stdin) \in Message /\ greeted \in BOOLEAN
    BY <1>1, TailFits, ConstantsAssumption DEF ServerReads, TypeInv, TypeOK
  <2>2. Head(stdin).id = NoId <=> Head(stdin).kind = "initialized"
    BY <2>1 DEF Message, Id, NoId
  <2>3. greeted' <=> (greeted \/ Head(stdin).kind = "initialized")
    BY <1>1, <2>1, <2>2 DEF ServerReads
  <2>4. /\ Ordered(greeted', stdin')
        /\ Over(greeted', stdin') <=> Over(greeted, stdin)
    BY <2>1, <2>3, TailOrdered
  <2> QED
    BY <1>1, <2>4 DEF ServerReads
<1>2. ASSUME NEW id \in Id, ServerAnswers(id)
      PROVE  HandshakeInv'
  BY <1>2 DEF ServerAnswers
<1>3. CASE ServerNotifies
  BY <1>3 DEF ServerNotifies, environment
<1>4. CASE ServerHangs
  BY <1>4 DEF ServerHangs, environment
<1>5. CASE ServerDies
  <2>1. Ordered(greeted', stdin')
    BY <1>5 DEF ServerDies, Ordered
  <2> QED
    BY <1>5, <2>1 DEF ServerDies
<1> QED
  BY <1>1, <1>2, <1>3, <1>4, <1>5 DEF Server

LEMMA ReaderKeepsOrder ==
    ASSUME HandshakeInv, Reader
    PROVE  HandshakeInv'
<1>1. /\ UNCHANGED <<cmd, initialized, stdin, greeted>>
      /\ call' = call \/ call'.pc = "panicked"
  BY DEF Reader, ReadLine, Panic, ReadEOF, Idle, environment
<1> QED
  BY <1>1 DEF HandshakeInv

(* transport.go:465-478: the subprocess reads "initialize" requests, one   *)
(* "initialized" and then tool calls, although handshakes time out, are    *)
(* tried again and are answered late.                                      *)
THEOREM HandshakeComesFirst == Spec => []HandshakeFirst
<1>1. Init => HandshakeInv
  <2>1. ASSUME Init
        PROVE  Ordered(greeted, stdin) /\ ~Over(greeted, stdin)
    BY <2>1 DEF Init, Ordered, Over, OverBefore
  <2>2. ASSUME Init
        PROVE  ~initialized /\ call.pc = "idle"
    BY <2>2 DEF Init, Idle
  <2> QED
    BY <2>1, <2>2 DEF HandshakeInv
<1>2. ASSUME TypeInv, HandshakeInv, Next
      PROVE  HandshakeInv'
  BY <1>2, CallerKeepsOrder, ServerKeepsOrder, ReaderKeepsOrder
  DEF Next, Caller, CallerStep
<1>3. ASSUME HandshakeInv, UNCHANGED vars
      PROVE  HandshakeInv'
  BY <1>3 DEF vars, HandshakeInv
<1>4. HandshakeInv => HandshakeFirst
  BY DEF HandshakeInv, HandshakeFirst, Ordered, OverBefore
<1> QED
  BY <1>1, <1>2, <1>3, <1>4, TypeInvHolds, PTL DEF Spec
=============================================================================
