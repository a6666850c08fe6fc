--------------------------- MODULE StdioTransport ---------------------------
(***************************************************************************)
(* mcpStdioTransport of internal/mcpsource: JSON-RPC over the stdin and    *)
(* stdout of a long-lived MCP subprocess.  A retrieval source owns one     *)
(* transport and fetchDocSources calls each source once per request, so    *)
(* calls follow one another; what overlaps is the reader goroutines that   *)
(* calls which hit their deadline leave behind.  The subprocess is not     *)
(* part of the repository: it is the environment of this module.           *)
(***************************************************************************)
EXTENDS Naturals, Sequences, FiniteSets

CONSTANTS
    PipeRoom,   \* requests the stdin pipe holds before Write blocks
    LineRoom,   \* lines the stdout pipe and the bufio.Reader hold
    MaxId,      \* bound: requests sent to the subprocess
    Faults,     \* what may happen to the subprocess, see FaultKinds
    Empty, EOF  \* nothing was sent on a result channel; a read error was

(* It dies, stops reading its stdin, or emits a notification of its own.   *)
FaultKinds == {"dies", "hangs", "chatter"}

ASSUME ConstantsAssumption ==
    /\ PipeRoom \in Nat \ {0} /\ LineRoom \in Nat \ {0} /\ MaxId \in Nat
    /\ Faults \subseteq FaultKinds
    /\ Empty \notin Nat /\ EOF \notin Nat /\ Empty # EOF

VARIABLES
    cmd,          \* "none" before the first call, then "up", "hung" or "dead"
    initialized,  \* the handshake of the subprocess is over
    idSeq,        \* id of the last request
    stdin,        \* requests written and not read by the subprocess
    stdout,       \* lines written by the subprocess and not read
    readers,      \* ids of the requests whose reader goroutine still runs
    call,         \* what the caller of the transport is doing
    done,         \* the channel of the request being waited for
    working,      \* environment: requests read and not answered
    greeted,      \* environment: "initialized" has been read
    abandoned     \* history: ids of the requests given up at the deadline

vars == <<cmd, initialized, idSeq, stdin, stdout, readers, call, done,
          working, greeted, abandoned>>
environment == <<working, greeted>>

Id == 1 .. MaxId
NoId == 0                               \* a notification

Message == [kind : {"initialize", "tool"}, id : Id]
               \cup [kind : {"initialized"}, id : {NoId}]

Waiting == {"awaitInitialize", "awaitTool"}
Sending == {"initialize", "notify", "tool"}

(* The caller: the rpc it is at, and whether its deadline has passed.      *)
Call == [pc : {"idle", "panicked"} \cup Sending \cup Waiting,
         id : Id \cup {NoId}, expired : BOOLEAN]
Idle == [pc |-> "idle", id |-> NoId, expired |-> FALSE]

Running == cmd \in {"up", "hung"}
Return == call' = Idle /\ done' = Empty
Alive == call.pc # "panicked"

-----------------------------------------------------------------------------
(* Mutant: the handshake is only made when the subprocess is started.      *)
FirstRequestOfStart == IF cmd # "none" THEN "tool" ELSE "initialize"

FirstRequest == IF initialized THEN "tool" ELSE "initialize"

(* call and listTools, with ensureStarted: the first call starts the       *)
(* subprocess, which may fail; nothing ever starts it again.               *)
StartCall ==
    /\ call.pc = "idle" /\ idSeq + 2 <= MaxId
    /\ \/ cmd = "none" /\ cmd' = "up"
       \/ cmd # "none" /\ UNCHANGED cmd
    /\ call' = [Idle EXCEPT !.pc = FirstRequest]
    /\ UNCHANGED <<initialized, idSeq, stdin, stdout, readers, done, abandoned>>
    /\ UNCHANGED environment

(* A write blocks while the pipe is full, whatever the deadline, and fails *)
(* once the subprocess is gone.                                            *)
Write(m) == Running /\ Len(stdin) < PipeRoom /\ stdin' = Append(stdin, m)

WriteFails ==
    /\ call.pc \in Sending /\ cmd = "dead"
    /\ idSeq' = IF call.pc = "notify" THEN idSeq ELSE idSeq + 1
    /\ Return
    /\ UNCHANGED <<cmd, initialized, stdin, stdout, readers, abandoned>>
    /\ UNCHANGED environment

(* rpc: the request is written and a goroutine starts reading lines.       *)
SendRequest ==
    /\ call.pc \in {"initialize", "tool"}
    /\ Write([kind |-> call.pc, id |-> idSeq + 1])
    /\ idSeq' = idSeq + 1
    /\ readers' = readers \cup {idSeq + 1}
    /\ call' = [call EXCEPT !.id = idSeq + 1,
                   !.pc = IF call.pc = "tool" THEN "awaitTool" ELSE "awaitInitialize"]
    /\ done' = Empty
    /\ UNCHANGED <<cmd, initialized, stdout, abandoned>> /\ UNCHANGED environment

(* The rpc returns what its reader sent: the initialize result leads on to *)
(* the notification, a tool result or an error ends the call.              *)
ReceiveDone ==
    /\ call.pc \in Waiting /\ done # Empty
    /\ IF done # EOF /\ call.pc = "awaitInitialize"
       THEN call' = [call EXCEPT !.pc = "notify", !.id = NoId] /\ done' = Empty
       ELSE Return
    /\ UNCHANGED <<cmd, initialized, idSeq, stdin, stdout, readers, abandoned>>
    /\ UNCHANGED environment

SendInitialized ==
    /\ call.pc = "notify"
    /\ Write([kind |-> "initialized", id |-> NoId])
    /\ initialized' = TRUE
    /\ call' = [call EXCEPT !.pc = "tool"]
    /\ UNCHANGED <<cmd, idSeq, stdout, readers, done, abandoned>>
    /\ UNCHANGED environment

(* The context of a call has one deadline for both of its requests.        *)
Expire ==
    /\ call.pc \in Sending \cup Waiting /\ ~call.expired
    /\ call' = [call EXCEPT !.expired = TRUE]
    /\ UNCHANGED <<cmd, initialized, idSeq, stdin, stdout, readers, done, abandoned>>
    /\ UNCHANGED environment

(* Mutant: the deadline is only looked at once an answer is there.         *)
GiveUpLate ==
    /\ call.pc \in Waiting /\ call.expired /\ done # Empty
    /\ abandoned' = abandoned \cup {call.id}
    /\ Return
    /\ UNCHANGED <<cmd, initialized, idSeq, stdin, stdout, readers>>
    /\ UNCHANGED environment

(* ctx.Done(): the call fails; its reader goroutine and stdin are left as  *)
(* they are.  When an answer is there too, select picks either.            *)
GiveUp ==
    /\ call.pc \in Waiting /\ call.expired
    /\ abandoned' = abandoned \cup {call.id}
    /\ Return
    /\ UNCHANGED <<cmd, initialized, idSeq, stdin, stdout, readers>>
    /\ UNCHANGED environment

-----------------------------------------------------------------------------
(* Mutant: whatever line comes next is taken for the answer.               *)
AnyLineMatches(line, r) == TRUE

(* idMatches; a notification has no id.                                    *)
Matches(line, r) == line # NoId /\ line = r

(* Mutant: a reader goes on after it has sent its answer.                  *)
SeesButStays(R, line) ==
    /\ done' = IF \E r \in R : r = call.id /\ Matches(line, r) THEN line ELSE done
    /\ UNCHANGED readers

(* The readers R see the line: those it matches send it and end, the       *)
(* others drop it and go on.  Only the channel of the pending request is   *)
(* looked at by anybody.                                                   *)
Sees(R, line) ==
    LET served == {r \in R : Matches(line, r)} IN
    /\ readers' = readers \ served
    /\ done' = IF call.id \in served THEN line ELSE done

(* A reader goroutine takes the next line.  Several of them share one      *)
(* bufio.Reader without a lock, so a line may reach one of them, several,  *)
(* or, torn, none.                                                         *)
ReadLine ==
    /\ Alive /\ readers # {} /\ stdout # <<>>
    /\ \E R \in SUBSET readers :
          /\ Cardinality(readers) = 1 => R = readers
          /\ Sees(R, Head(stdout))
    /\ stdout' = Tail(stdout)
    /\ UNCHANGED <<cmd, initialized, idSeq, stdin, call, abandoned>>
    /\ UNCHANGED environment

(* The same race can leave the indices of the bufio.Reader inconsistent,   *)
(* and the process panics.                                                 *)
Panic ==
    /\ Alive /\ Cardinality(readers) > 1 /\ stdout # <<>>
    /\ call' = [Idle EXCEPT !.pc = "panicked"]
    /\ readers' = {} /\ done' = Empty
    /\ UNCHANGED <<cmd, initialized, idSeq, stdin, stdout, abandoned>>
    /\ UNCHANGED environment

(* Mutant: a read error is skipped like a line that does not parse.        *)
ReadErrorSkipped(r) ==
    /\ r \in readers /\ r = call.id /\ cmd = "dead" /\ stdout = <<>>
    /\ done' = EOF /\ readers' = readers \ {r}
    /\ UNCHANGED <<cmd, initialized, idSeq, stdin, stdout, call, abandoned>>
    /\ UNCHANGED environment

(* The subprocess is gone and its output is used up.                       *)
ReadEOF(r) ==
    /\ r \in readers /\ cmd = "dead" /\ stdout = <<>>
    /\ done' = IF r = call.id THEN EOF ELSE done
    /\ readers' = readers \ {r}
    /\ UNCHANGED <<cmd, initialized, idSeq, stdin, stdout, call, abandoned>>
    /\ UNCHANGED environment

-----------------------------------------------------------------------------
(***************************************************************************)
(* The subprocess: it reads its requests in order and answers each of them *)
(* at most once, in any order and as late as it likes.                     *)
(***************************************************************************)
ServerReads ==
    /\ cmd = "up" /\ stdin # <<>>
    /\ stdin' = Tail(stdin)
    /\ IF Head(stdin).id = NoId
       THEN greeted' = TRUE /\ UNCHANGED working
       ELSE working' = working \cup {Head(stdin).id} /\ UNCHANGED greeted
    /\ UNCHANGED <<cmd, initialized, idSeq, stdout, readers, call, done, abandoned>>

ServerAnswers(id) ==
    /\ Running /\ id \in working /\ Len(stdout) < LineRoom
    /\ stdout' = Append(stdout, id)
    /\ working' = working \ {id}
    /\ UNCHANGED <<cmd, initialized, idSeq, stdin, readers, call, done, abandoned,
                   greeted>>

ServerNotifies ==
    /\ "chatter" \in Faults /\ Running /\ Len(stdout) < LineRoom
    /\ stdout' = Append(stdout, NoId)
    /\ UNCHANGED <<cmd, initialized, idSeq, stdin, readers, call, done, abandoned>>
    /\ UNCHANGED environment

ServerHangs ==
    /\ "hangs" \in Faults /\ cmd = "up" /\ cmd' = "hung"
    /\ UNCHANGED <<initialized, idSeq, stdin, stdout, readers, call, done, abandoned>>
    /\ UNCHANGED environment

ServerDies ==
    /\ "dies" \in Faults /\ Running /\ cmd' = "dead"
    /\ stdin' = <<>> /\ working' = {}
    /\ UNCHANGED <<initialized, idSeq, stdout, readers, call, done, abandoned, greeted>>

-----------------------------------------------------------------------------
Init ==
    /\ cmd = "none" /\ initialized = FALSE /\ idSeq = 0
    /\ stdin = <<>> /\ stdout = <<>> /\ readers = {}
    /\ call = Idle /\ done = Empty
    /\ working = {} /\ greeted = FALSE /\ abandoned = {}

Caller ==
    \/ WriteFails \/ SendRequest \/ ReceiveDone \/ SendInitialized
    \/ Expire \/ GiveUp

Reader == ReadLine \/ Panic \/ \E r \in Id : ReadEOF(r)

Server ==
    \/ ServerReads \/ ServerNotifies \/ ServerHangs \/ ServerDies
    \/ \E id \in Id : ServerAnswers(id)

Next == StartCall \/ Caller \/ Reader \/ Server

Spec == Init /\ [][Next]_vars

(* Timers fire, goroutines run, and a subprocess that has not stopped      *)
(* reads its requests; it need not answer them.                            *)
Fairness ==
    /\ WF_vars(WriteFails \/ SendRequest \/ ReceiveDone \/ SendInitialized \/ GiveUp)
    /\ WF_vars(Expire)
    /\ WF_vars(ReadLine) /\ WF_vars(\E r \in Id : ReadEOF(r))
    /\ WF_vars(ServerReads)

FairSpec == Spec /\ Fairness

-----------------------------------------------------------------------------
(* Every variable holds what the code can put there.                       *)
TypeOK ==
    /\ cmd \in {"none", "up", "hung", "dead"} /\ initialized \in BOOLEAN
    /\ idSeq \in 0 .. MaxId
    /\ stdin \in Seq(Message) /\ Len(stdin) <= PipeRoom
    /\ stdout \in Seq(Id \cup {NoId}) /\ Len(stdout) <= LineRoom
    /\ readers \subseteq Id /\ call \in Call
    /\ done \in Id \cup {Empty, EOF}
    /\ working \subseteq Id /\ greeted \in BOOLEAN /\ abandoned \subseteq Id

(* transport.go:562-565: however late and in whatever order answers come,  *)
(* a call never returns the answer to another call.                        *)
AnswerIsOwn == done \in Id => done = call.id

(* transport.go:465-478: the subprocess gets no tools/call before its      *)
(* handshake is over, and no second handshake afterwards, although a       *)
(* handshake that timed out is tried again.                                *)
HandshakeFirst ==
    \A i \in 1 .. Len(stdin) :
        LET over == greeted \/ \E j \in 1 .. i - 1 : stdin[j].kind = "initialized" IN
        stdin[i].kind = "tool" <=> over

(* transport.go:544-567: a goroutine that is still reading belongs to the  *)
(* pending request or to one that was given up at its deadline.            *)
LeftoversTimedOut == readers \subseteq abandoned \cup {call.id}

(* router.go:66-68, "bounds each external tool call so a slow/hung MCP     *)
(* server can never stall a dev_context response".                         *)
Busy == call.pc \in Sending \cup Waiting
CallReturns == Busy ~> ~Busy

(* What the code does guarantee: the deadline ends every call but one that *)
(* is writing into the full pipe of a subprocess that stopped reading.     *)
CallReturnsUnlessPipeFull ==
    Busy ~> (~Busy \/ (cmd = "hung" /\ Len(stdin) = PipeRoom /\ call.pc \in Sending))

(* Reader goroutines that were left behind end with the subprocess.        *)
ReadersEnd == (cmd = "dead") ~> (readers = {})

(* transport.go:530-532: rpc "reads newline-delimited responses until it   *)
(* sees the matching id": the pending request's answer, once read, reaches *)
(* its call.                                                               *)
AnswerReachesItsCall ==
    [][ReadLine /\ call.pc \in Waiting /\ Head(stdout) = call.id
          => done' = call.id]_vars
=============================================================================
