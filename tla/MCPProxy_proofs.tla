--------------------------- MODULE MCPProxy_proofs ---------------------------
(***************************************************************************)
(* Theorems about MCPProxy, for every set of calls, ids, policy, server    *)
(* and number of sessions.                                                 *)
(*                                                                         *)
(* The log: types, and that the proxy uses it as ChainWriter says.         *)
(*                                                                         *)
(* The calls: what becomes of a request, its answer and its receipt.  A    *)
(* request goes through six places: the client's stream (Unread), the      *)
(* approval prompt (InHand), the server's stdin (Piped), the server        *)
(* (executing), its stdout (Replied) and the client's stdout (Told).       *)
(* Effects: every step of the proxy is one of a few Moves, which say how   *)
(* these sets, the ids and the log change and nothing of streams and       *)
(* pumps.  Flow: the Moves keep the invariants.  Theorems: the invariants  *)
(* give the properties, and that the proxy implements AuditedCalls.        *)
(***************************************************************************)
EXTENDS MCPProxy, FiniteSetTheorems, SequenceTheorems, TLAPS

ChainFacts == INSTANCE ChainWriter_proofs WITH Writers <- {Proxy}, OneWriter <- TRUE

-----------------------------------------------------------------------------
(* Types. *)

\* The records that lines of code build have the types TypeOK gives them.
LEMMA PendingType ==
    ASSUME NEW c \in Calls, NEW approver \in Approvers
    PROVE  PendingCall(c, approver) \in PendingCalls
BY DEF PendingCalls

LEMMA BlockedType ==
    ASSUME NEW c \in Calls, NEW approver \in Approvers
    PROVE  BlockedBody(c, approver) \in Bodies
BY DEF Bodies

LEMMA AnsweredType ==
    ASSUME NEW call \in PendingCalls, NEW response \in Requests
    PROVE  AnsweredBody(call, response) \in Bodies
BY DEF Bodies

LEMMA ApprovalResultType ==
    ASSUME Prompt!TypeOK, result # None
    PROVE  result \in Approvers
BY DEF Prompt!TypeOK, Approvers, NoApprover, Prompt!ApprovalResults,
       Prompt!NoTtyResult, Prompt!TtyResult

LEMMA ProxyTypeOK_Init == Init => ProxyTypeOK
BY DEF Init, ProxyTypeOK

LEMMA WriteServerType ==
    ASSUME ProxyTypeOK, NEW m \in Requests, _write_server(m)
    PROVE  toServer' \in Seq(Requests)
BY DEF ProxyTypeOK, _write_server

LEMMA WriteClientType ==
    ASSUME ProxyTypeOK, NEW line \in ClientLines, _write_client(line)
    PROVE  toClient' \in Seq(ClientLines)
BY DEF ProxyTypeOK, _write_client

LEMMA ForwardType ==
    ASSUME ProxyTypeOK, NEW c \in Calls, NEW approver \in Approvers, Forward(c, approver)
    PROVE  /\ pending' \in [Ids -> PendingCalls \cup {None}]
           /\ toServer' \in Seq(Requests)
           /\ toClient' \in Seq(ClientLines)
           /\ clientPump' = "drain_server"
<1>1. c \in Requests
  BY DEF Requests
<1>2. toServer' \in Seq(Requests)
  BY <1>1, WriteServerType DEF Forward
<1>3. PendingCall(c, approver) \in PendingCalls
  BY PendingType
<1> QED
  BY <1>2, <1>3 DEF Forward, Remember, ProxyTypeOK

LEMMA BlockType ==
    ASSUME ProxyTypeOK, NEW c \in Calls, NEW approver \in Approvers,
           _record_and_block(c, approver)
    PROVE  /\ pending' \in [Ids -> PendingCalls \cup {None}]
           /\ toServer' \in Seq(Requests)
           /\ toClient' \in Seq(ClientLines)
           /\ clientPump' \in {"drain_client", "done"}
<1>1. Blocked(c) \in ClientLines
  BY ProxyAssumption DEF Blocked, ClientLines, Requests
<1>2. toClient' \in Seq(ClientLines)
  BY <1>1, WriteClientType DEF _record_and_block, ProxyTypeOK
<1> QED
  BY <1>2 DEF _record_and_block, ProxyTypeOK

LEMMA ClientSendType ==
    ASSUME ProxyTypeOK, NEW m \in Requests, ClientSend(m)
    PROVE  ProxyTypeOK'
BY DEF ClientSend, ProxyTypeOK, serverVars, proxyVars, memory

LEMMA ClientStepsType == ProxyTypeOK /\ (ClientReceive \/ ClientClose) => ProxyTypeOK'
<1>1. ProxyTypeOK /\ ClientReceive => ProxyTypeOK'
  BY DEF ClientReceive, ProxyTypeOK, serverVars, proxyVars, memory
<1>2. ProxyTypeOK /\ ClientClose => ProxyTypeOK'
  BY DEF ClientClose, ProxyTypeOK, serverVars, proxyVars, memory, streams
<1> QED
  BY <1>1, <1>2

LEMMA ServerStepsType == ProxyTypeOK /\ (ServerReceive \/ ServerExit) => ProxyTypeOK'
<1>1. ProxyTypeOK /\ ServerReceive => ProxyTypeOK'
  BY DEF ServerReceive, ProxyTypeOK, clientVars, proxyVars, memory
<1>2. ProxyTypeOK /\ ServerExit => ProxyTypeOK'
  BY DEF ServerExit, ProxyTypeOK, clientVars, proxyVars, memory
<1> QED
  BY <1>1, <1>2

LEMMA ServerRespondType ==
    ASSUME ProxyTypeOK, NEW m \in Requests, NEW fate \in Fates, ServerRespond(m, fate)
    PROVE  ProxyTypeOK'
<1>1. [kind |-> "response", id |-> Id[m], of |-> m, fate |-> fate] \in ServerLines
  BY ProxyAssumption DEF ServerRespond, ServerLines
<1> QED
  BY <1>1 DEF ServerRespond, ProxyTypeOK, clientVars, proxyVars, memory

LEMMA ServerRequestType ==
    ASSUME ProxyTypeOK, NEW i \in Ids, ServerRequest(i)
    PROVE  ProxyTypeOK'
<1>1. [kind |-> "request", id |-> i, of |-> None, fate |-> "plain"] \in ServerLines
  BY DEF ServerLines
<1> QED
  BY <1>1 DEF ServerRequest, ProxyTypeOK, clientVars, proxyVars, memory

LEMMA ClientPumpType == TypeOK /\ ClientPumpStep => ProxyTypeOK'
<1> SUFFICES ASSUME TypeOK, ClientPumpStep PROVE ProxyTypeOK'
  OBVIOUS
<1>0. ProxyTypeOK /\ Prompt!TypeOK
  BY DEF TypeOK
<1> USE DEF clientVars, serverVars, outsideVars, besideClientPump, memory
<1>1. CASE PassThrough
  <2>1. toServer' \in Seq(Requests)
    BY <1>0, <1>1, WriteServerType DEF PassThrough, Requests
  <2> QED
    BY <1>0, <1>1, <2>1 DEF PassThrough, Reading, ProxyTypeOK
<1>2. CASE ClientLineFails
  BY <1>0, <1>2 DEF ClientLineFails, Reading, ProxyTypeOK
<1>11. CASE ApprovalRaises
  BY <1>0, <1>11 DEF ApprovalRaises, ProxyTypeOK
<1>3. CASE ApprovalReturns
  <2>1. asking \in Calls /\ result \in Approvers
    BY <1>0, <1>3, ApprovalResultType DEF ApprovalReturns, Prompt!TypeOK
  <2> QED
    BY <1>0, <1>3, <2>1, ForwardType, BlockType DEF ApprovalReturns, ProxyTypeOK
<1>4. CASE DrainServer
  BY <1>0, <1>4 DEF DrainServer, ProxyTypeOK
<1>5. CASE ClientPumpDrained
  BY <1>0, <1>5 DEF ClientPumpDrained, AfterDrain, ProxyTypeOK
<1>6. CASE ClientEOF
  BY <1>0, <1>6 DEF ClientEOF, ProxyTypeOK
<1>7. NoApprover \in Approvers
  BY DEF Approvers
<1>8. ASSUME NEW c \in Calls, AllowCall(c) PROVE ProxyTypeOK'
  BY <1>0, <1>7, <1>8, ForwardType DEF AllowCall, NextCall, Reading, ProxyTypeOK
<1>9. ASSUME NEW c \in Calls, DenyCall(c) PROVE ProxyTypeOK'
  BY <1>0, <1>7, <1>9, BlockType DEF DenyCall, NextCall, Reading, ProxyTypeOK
<1>10. ASSUME NEW c \in Calls, AskApproval(c) PROVE ProxyTypeOK'
  BY <1>0, <1>10 DEF AskApproval, NextCall, Reading, ProxyTypeOK
<1> QED
  BY <1>1, <1>2, <1>3, <1>4, <1>5, <1>6, <1>8, <1>9, <1>10, <1>11 DEF ClientPumpStep

\* Every line of a stream is a line; in particular the one being handled.
LEMMA ServerLineType ==
    ASSUME ProxyTypeOK, NEW line \in RangeOf(fromServer), ServerLine(line)
    PROVE  line \in ServerLines /\ fromServer' \in Seq(ServerLines)
           /\ Passed(line) \in ClientLines
<1>1. line \in ServerLines /\ fromServer' \in Seq(ServerLines)
  BY DEF RangeOf, ServerLine, ProxyTypeOK
<1> QED
  BY <1>1 DEF Passed, ServerLines, ClientLines

\* The receipt of an answer is a receipt of the call remembered under its id.
LEMMA AnsweredOfType ==
    ASSUME ProxyTypeOK, NEW line \in RangeOf(fromServer), IsAnswer(line)
    PROVE  AnsweredBody(pending[line.id], line.of) \in Bodies
<1>1. line \in ServerLines
  BY DEF RangeOf, ProxyTypeOK
<1>2. pending[line.id] \in PendingCalls /\ line.of \in Requests
  BY <1>1 DEF IsAnswer, ServerLines, ProxyTypeOK
<1> QED
  BY <1>2, AnsweredType

LEMMA ServerPumpType == TypeOK /\ ServerPumpStep => ProxyTypeOK'
<1> SUFFICES ASSUME TypeOK, ServerPumpStep PROVE ProxyTypeOK'
  OBVIOUS
<1>0. ProxyTypeOK
  BY DEF TypeOK
<1> USE DEF clientVars, serverVars, outsideVars, besideServerPump
<1>1. CASE RelayLine
  <2>1. PICK line \in RangeOf(fromServer) :
            ServerLine(line) /\ _write_client(Passed(line))
    BY <1>1 DEF RelayLine
  <2>2. fromServer' \in Seq(ServerLines) /\ toClient' \in Seq(ClientLines)
    BY <1>0, <2>1, ServerLineType, WriteClientType
  <2> QED
    BY <1>0, <1>1, <2>2 DEF RelayLine, ProxyTypeOK
<1>2. CASE RecordAnswer
  <2>1. PICK line \in RangeOf(fromServer) :
            /\ ServerLine(line)
            /\ pending' = [pending EXCEPT ![line.id] = None]
            /\ \/ _write_client(Passed(line)) /\ serverPump' = "drain_client"
               \/ UNCHANGED toClient /\ serverPump' = "done"
    BY <1>2 DEF RecordAnswer, Pop, AppendFails
  <2>2. fromServer' \in Seq(ServerLines) /\ Passed(line) \in ClientLines
    BY <1>0, <2>1, ServerLineType
  <2>3. toClient' \in Seq(ClientLines)
    BY <1>0, <2>1, <2>2, WriteClientType DEF ProxyTypeOK
  <2>4. pending' \in [Ids -> PendingCalls \cup {None}]
    BY <1>0, <2>1 DEF ProxyTypeOK
  <2> QED
    BY <1>0, <1>2, <2>1, <2>2, <2>3, <2>4 DEF RecordAnswer, ProxyTypeOK
<1>3. CASE ServerLineFails
  <2>1. fromServer' \in Seq(ServerLines)
    BY <1>0, <1>3, ServerLineType DEF ServerLineFails
  <2> QED
    BY <1>0, <1>3, <2>1 DEF ServerLineFails, ProxyTypeOK
<1>4. CASE ServerEOF
  BY <1>0, <1>4 DEF ServerEOF, ProxyTypeOK
<1>5. CASE ServerPumpDrained
  BY <1>0, <1>5 DEF ServerPumpDrained, AfterDrain, ProxyTypeOK
<1> QED
  BY <1>1, <1>2, <1>3, <1>4, <1>5 DEF ServerPumpStep

LEMMA RunType == ProxyTypeOK /\ (Run \/ Start \/ Crash) => ProxyTypeOK'
<1> SUFFICES ASSUME ProxyTypeOK, Run \/ Start \/ Crash PROVE ProxyTypeOK'
  OBVIOUS
<1> USE DEF clientVars, serverVars, outsideVars, streams, memory, ProxyTypeOK
<1>1. CASE CloseStdin
  BY <1>1 DEF CloseStdin
<1>2. CASE Terminate
  BY <1>2 DEF Terminate
<1>3. CASE Exit
  BY <1>3 DEF Exit
<1>4. CASE Start
  BY <1>4, ProxyAssumption DEF Start
<1>5. CASE Crash
  BY <1>5 DEF Crash
<1> QED
  BY <1>1, <1>2, <1>3, <1>4, <1>5 DEF Run

LEMMA ProxyTypeOK_Next == TypeOK /\ [Next]_vars => ProxyTypeOK'
<1> SUFFICES ASSUME TypeOK, [Next]_vars PROVE ProxyTypeOK'
  OBVIOUS
<1>0. ProxyTypeOK
  BY DEF TypeOK
<1>1. CASE PromptThread \/ Human \/ UNCHANGED vars
  BY <1>0, <1>1 DEF PromptThread, Human, vars, ProxyTypeOK, clientVars, serverVars, outsideVars,
        streams, proxyVars, memory
<1>2. CASE ClientPumpStep \/ ServerPumpStep
  BY <1>2, ClientPumpType, ServerPumpType
<1>3. CASE Run \/ Start \/ Crash
  BY <1>0, <1>3, RunType
<1>4. CASE ClientReceive \/ ClientClose \/ \E m \in Requests : ClientSend(m)
  BY <1>0, <1>4, ClientSendType, ClientStepsType
<1>5. CASE \E m \in executing, fate \in Fates : ServerRespond(m, fate)
  <2>1. executing \subseteq Requests
    BY <1>0 DEF ProxyTypeOK
  <2>2. \A m \in Requests, fate \in Fates : ServerRespond(m, fate) => ProxyTypeOK'
    BY <1>0, ServerRespondType
  <2> QED
    BY <1>5, <2>1, <2>2
<1>6. CASE ServerReceive \/ ServerExit
  BY <1>0, <1>6, ServerStepsType
<1>7. CASE \E i \in Ids : ServerRequest(i)
  BY <1>0, <1>7, ServerRequestType
<1> QED
  BY <1>0, <1>1, <1>2, <1>3, <1>4, <1>5, <1>6, <1>7 DEF Next, Respond

\* The prompt's types, step by step.
LEMMA PromptTypeOK_Next == Prompt!TypeOK /\ [Next]_vars => Prompt!TypeOK'
<1> SUFFICES ASSUME Prompt!TypeOK, [Next]_vars PROVE Prompt!TypeOK'
  OBVIOUS
<1> USE DEF Prompt!TypeOK, Prompt!ApprovalResults, besideServerPump, proxyVars, memory
<1>1. ASSUME NEW c \in Calls, Prompt!request_approval(c) PROVE Prompt!TypeOK'
  <2>1. c # None
    BY ProxyAssumption DEF Requests
  <2> QED
    BY <1>1, <2>1 DEF Prompt!request_approval
<1>2. CASE Prompt!Take \/ Prompt!Kill
  BY <1>2 DEF Prompt!Take, Prompt!Kill
<1>3. CASE Prompt!ReadAnswer
  <2>1. tty' \in Seq(Prompt!Lines) /\ (Head(tty).says = "y") \in BOOLEAN
    BY <1>3 DEF Prompt!ReadAnswer
  <2> QED
    BY <1>3, <2>1 DEF Prompt!ReadAnswer, Prompt!Prompting
<1>4. CASE Prompt!PromptTimeout
  BY <1>4 DEF Prompt!PromptTimeout, Prompt!Prompting
<1>5. ASSUME NEW c \in Calls, NEW says \in {"y", "n"}, Prompt!Type(c, says)
      PROVE  Prompt!TypeOK'
  BY <1>5 DEF Prompt!Type, Prompt!Lines
<1>6. CASE UNCHANGED promptVars
  BY <1>6 DEF promptVars
<1>7. CASE ClientPumpStep
  <2>1. ASSUME NEW c \in Calls, AllowCall(c) \/ DenyCall(c) \/ AskApproval(c)
        PROVE  Prompt!TypeOK'
    BY <2>1, <1>1, <1>6 DEF AllowCall, DenyCall, AskApproval
  <2> QED
    BY <1>7, <1>2, <1>6, <2>1 DEF ClientPumpStep, PassThrough, ClientLineFails,
          ApprovalReturns, ApprovalRaises, DrainServer, ClientPumpDrained, ClientEOF
<1>8. CASE ServerPumpStep
  BY <1>8, <1>6 DEF ServerPumpStep, RelayLine, RecordAnswer, ServerLineFails, ServerEOF,
        ServerPumpDrained
<1>9. CASE Run \/ Start \/ Crash
  BY <1>9, <1>2, <1>6 DEF Run, CloseStdin, Terminate, Exit, Start, Crash
<1>10. CASE PromptThread \/ Human
  BY <1>10, <1>3, <1>4, <1>5 DEF PromptThread, Human
<1>11. CASE \/ ClientReceive \/ ClientClose \/ ServerReceive \/ ServerExit \/ Respond
            \/ \E m \in Requests : ClientSend(m)
            \/ \E i \in Ids : ServerRequest(i)
  BY <1>11, <1>6 DEF ClientReceive, ClientClose, ServerReceive, ServerExit, Respond,
        ServerRespond, ClientSend, ServerRequest
<1>12. CASE UNCHANGED vars
  BY <1>12, <1>6 DEF vars
<1> QED
  BY <1>7, <1>8, <1>9, <1>10, <1>11, <1>12 DEF Next

-----------------------------------------------------------------------------
(* The log. *)

\* The receipts whose append a crash may cut short are receipts.
LEMMA NextBodiesType == ASSUME TypeOK PROVE NextBodies \subseteq Bodies
<1>1. ASSUME NEW line \in RangeOf(fromServer), IsAnswer(line)
      PROVE  AnsweredBody(pending[line.id], line.of) \in Bodies
  BY <1>1, AnsweredOfType DEF TypeOK
<1>2. NoApprover \in Approvers
  BY DEF Approvers
<1>3. result # None => result \in Approvers
  BY ApprovalResultType DEF TypeOK
<1> QED
  BY <1>1, <1>2, <1>3, BlockedType DEF NextBodies

\* Whatever the proxy does to the log, ChainWriter does.
LEMMA ChainSteps == TypeOK /\ [Next]_vars => [Chain!Next]_(Chain!vars)
<1> SUFFICES ASSUME TypeOK, [Next]_vars PROVE [Chain!Next]_(Chain!vars)
  OBVIOUS
<1> USE DEF proxyVars, memory
<1>1. ASSUME UNCHANGED chainVars PROVE [Chain!Next]_(Chain!vars)
  BY <1>1 DEF chainVars, Chain!vars
<1>2. ASSUME NEW body \in Bodies,
             \/ Chain!append(Proxy, body)
             \/ \E extent \in Raised : Chain!append_raises(Proxy, body, extent)
             \/ \E extent \in Torn : Chain!append_dies(Proxy, body, extent)
      PROVE  [Chain!Next]_(Chain!vars)
  BY <1>2, LogAssumption DEF Chain!Next
<1>3. CASE Chain!Open(Proxy) \/ Chain!Close(Proxy)
  BY <1>3 DEF Chain!Next
<1>4. ASSUME NEW c \in Calls, NEW approver \in Approvers, _record_and_block(c, approver)
      PROVE  [Chain!Next]_(Chain!vars)
  BY <1>2, <1>4, BlockedType DEF _record_and_block
<1>5. NoApprover \in Approvers
  BY DEF Approvers
<1>6. CASE ClientPumpStep
  <2>1. ASSUME NEW c \in Calls, AllowCall(c) \/ DenyCall(c) \/ AskApproval(c)
        PROVE  [Chain!Next]_(Chain!vars)
    BY <2>1, <1>1, <1>4, <1>5 DEF AllowCall, DenyCall, AskApproval, Forward
  <2>2. CASE ApprovalReturns
    <3>1. asking \in Calls /\ result \in Approvers
      BY <2>2, ApprovalResultType DEF ApprovalReturns, TypeOK, Prompt!TypeOK
    <3> QED
      BY <2>2, <3>1, <1>1, <1>4 DEF ApprovalReturns, Forward
  <2> QED
    BY <1>6, <1>1, <2>1, <2>2 DEF ClientPumpStep, PassThrough, ClientLineFails,
          ApprovalRaises, DrainServer, ClientPumpDrained, ClientEOF
<1>7. CASE RecordAnswer
  <2>1. PICK line \in RangeOf(fromServer) :
            /\ IsAnswer(line)
            /\ LET body == AnsweredBody(pending[line.id], line.of) IN
               \/ Chain!append(Proxy, body)
               \/ \E extent \in Raised : Chain!append_raises(Proxy, body, extent)
               \/ UNCHANGED chainVars
    BY <1>7 DEF RecordAnswer
  <2>2. AnsweredBody(pending[line.id], line.of) \in Bodies
    BY <2>1, AnsweredOfType DEF TypeOK
  <2> QED
    BY <2>1, <2>2, <1>1, <1>2
<1>8. CASE ServerPumpStep /\ ~RecordAnswer
  BY <1>8, <1>1 DEF ServerPumpStep, RelayLine, ServerLineFails, ServerEOF, ServerPumpDrained
<1>9. CASE Crash
  BY <1>9, <1>2, <1>3, NextBodiesType DEF Crash
<1>10. CASE Run \/ Start
  BY <1>10, <1>1, <1>3 DEF Run, CloseStdin, Terminate, Exit, Start, OpenLog
<1>11. CASE \/ ClientReceive \/ ClientClose \/ ServerReceive \/ ServerExit \/ Respond
            \/ PromptThread \/ Human
            \/ \E m \in Requests : ClientSend(m)
            \/ \E i \in Ids : ServerRequest(i)
  BY <1>11, <1>1 DEF ClientReceive, ClientClose, ServerReceive, ServerExit, Respond,
        ServerRespond, ClientSend, ServerRequest, PromptThread, Human
<1>12. CASE UNCHANGED vars
  BY <1>12, <1>1 DEF vars
<1> QED
  BY <1>6, <1>7, <1>8, <1>9, <1>10, <1>11, <1>12 DEF Next

\* Chain and ChainFacts are the same instance of ChainWriter.
LEMMA SameTypeOK == Chain!TypeOK <=> ChainFacts!TypeOK
BY DEF Chain!TypeOK, ChainFacts!TypeOK, Chain!Receipts, ChainFacts!Receipts,
       Chain!Hashes, ChainFacts!Hashes

LEMMA SameNext == [Chain!Next]_(Chain!vars) <=> [ChainFacts!Next]_(ChainFacts!vars)
<1> USE DEF Chain!build_receipt, ChainFacts!build_receipt, Chain!receipt_hash,
    ChainFacts!receipt_hash, Chain!tail_hash, ChainFacts!tail_hash,
    Chain!Written, ChainFacts!Written, Chain!Write, ChainFacts!Write
<1>1. Chain!Open(Proxy) <=> ChainFacts!Open(Proxy)
  BY DEF Chain!Open, ChainFacts!Open
<1>2. Chain!Close(Proxy) <=> ChainFacts!Close(Proxy)
  BY DEF Chain!Close, ChainFacts!Close
<1>3. \A body : Chain!append(Proxy, body) <=> ChainFacts!append(Proxy, body)
  BY DEF Chain!append, ChainFacts!append
<1>4. \A body, extent :
          Chain!append_raises(Proxy, body, extent) <=> ChainFacts!append_raises(Proxy, body, extent)
  BY DEF Chain!append_raises, ChainFacts!append_raises
<1>5. \A body, extent :
          Chain!append_dies(Proxy, body, extent) <=> ChainFacts!append_dies(Proxy, body, extent)
  BY DEF Chain!append_dies, ChainFacts!append_dies
<1>6. Chain!Extents = ChainFacts!Extents
  BY DEF Chain!Extents, ChainFacts!Extents
<1> QED
  BY <1>1, <1>2, <1>3, <1>4, <1>5, <1>6
     DEF Chain!Next, ChainFacts!Next, Chain!vars, ChainFacts!vars

\* What ChainWriter assumes of its constants, LogAssumption says.
LEMMA ChainFactsAssumption ==
    /\ Raised \subseteq ChainFacts!Extents /\ Torn \subseteq ChainFacts!Extents
    /\ TRUE \in BOOLEAN
    /\ NoHash \notin Nat /\ Closed \notin Nat /\ NoHash # Closed
    /\ Garbage \notin ChainFacts!Receipts
BY LogAssumption DEF Chain!Extents, ChainFacts!Extents, Chain!Receipts, ChainFacts!Receipts,
       Chain!Hashes, ChainFacts!Hashes

LEMMA ChainTypeOK_Next ==
    Chain!TypeOK /\ [Chain!Next]_(Chain!vars) => Chain!TypeOK'
<1>1. Chain!TypeOK' <=> ChainFacts!TypeOK'
  BY DEF Chain!TypeOK, ChainFacts!TypeOK, Chain!Receipts, ChainFacts!Receipts,
         Chain!Hashes, ChainFacts!Hashes
<1>2. ChainFacts!TypeOK /\ [ChainFacts!Next]_(ChainFacts!vars) => ChainFacts!TypeOK'
  BY ChainFacts!TypeOK_Next, ChainFactsAssumption
<1> QED
  BY <1>1, <1>2, SameTypeOK, SameNext

LEMMA TypeOK_Init == Init => TypeOK
<1> SUFFICES ASSUME Init PROVE TypeOK
  OBVIOUS
<1>1. Chain!TypeOK
  BY DEF Init, Chain!Init, Chain!TypeOK, Chain!Hashes
<1>2. Prompt!TypeOK
  BY DEF Init, Prompt!Init, Prompt!TypeOK
<1> QED
  BY <1>1, <1>2, ProxyTypeOK_Init DEF TypeOK

LEMMA TypeOK_Next == TypeOK /\ [Next]_vars => TypeOK'
BY ProxyTypeOK_Next, PromptTypeOK_Next, ChainSteps, ChainTypeOK_Next DEF TypeOK

\* The proxy's memory, its streams, the log and the prompt keep their types,
\* whatever the client, the server, the human and the faults do
\* (proxy.py:41-59).
THEOREM ProxyTyped == Spec => []TypeOK
BY TypeOK_Init, TypeOK_Next, PTL DEF Spec

\* The proxy with all its sessions, crashes and faults uses the log only as a
\* single ChainWriter (proxy.py:195-205, 234-244).
THEOREM ProxyImplementsChainWriter == Spec => LogIsChain
<1>1. Init => Chain!Init
  BY DEF Init
<1> QED
  BY <1>1, ChainSteps, ProxyTyped, PTL DEF Spec, LogIsChain, Chain!Spec

-----------------------------------------------------------------------------

\* How appends may fail for the log to survive: they raise before they write,
\* and a crash leaves nothing, an unfinished line or a whole one.
CleanFaults ==
    /\ Raised \subseteq {"nothing"}
    /\ Torn \subseteq {"nothing", "prefix", "line"}

\* Across crashes and restarts of the proxy at most the last line of the log
\* is damaged, and every line before it verifies (receipts.py:111-144): the
\* proxy's log is ChainWriter's, of which ChainSurvivesCrashes is proved.
THEOREM ProxyLogSurvives == ASSUME CleanFaults PROVE Spec => []LogLinkedButTail
<1>1. ChainFacts!CleanFaults
  BY DEF CleanFaults, ChainFacts!CleanFaults
<1>2. ChainFacts!Init <=> Chain!Init
  BY DEF Chain!Init, ChainFacts!Init
<1>3. ChainFacts!ChainInv => LogLinkedButTail
  BY DEF ChainFacts!ChainInv, ChainFacts!ChainLinkedButTail, LogLinkedButTail,
         Chain!ChainLinkedButTail, Chain!Linked, ChainFacts!Linked, Chain!receipt_hash,
         ChainFacts!receipt_hash
<1>4. ChainFacts!Init => ChainFacts!ChainInv
  BY ChainFacts!ChainInv_Init, ChainFactsAssumption
<1>5. ChainFacts!ChainInv /\ [ChainFacts!Next]_(ChainFacts!vars) => ChainFacts!ChainInv'
  BY <1>1, ChainFacts!ChainInv_Next, ChainFactsAssumption
<1>6. ChainFacts!ChainInv /\ [Chain!Next]_(Chain!vars) => ChainFacts!ChainInv'
  BY <1>5, SameNext
<1>7. Chain!Init => ChainFacts!ChainInv
  BY <1>2, <1>4
<1> QED
  BY <1>3, <1>6, <1>7, ProxyImplementsChainWriter, PTL DEF LogIsChain, Chain!Spec

\* Also where a session is killed between a receipt and its newline, or an
\* append raises halfway, every receipt in the log names the one before it, if
\* that line is legible (receipts.py:139-143).
THEOREM ProxyDamageStaysLocal ==
    ASSUME "line" \notin Raised
    PROVE  Spec => []ChainFacts!NeighboursLinked
<1>1. ChainFacts!NoLateRaise
  BY DEF ChainFacts!NoLateRaise
<1>2. ChainFacts!DamageInv => ChainFacts!NeighboursLinked
  BY DEF ChainFacts!DamageInv
<1>3. Chain!Init => ChainFacts!DamageInv
  <2>1. ChainFacts!Init <=> Chain!Init
    BY DEF Chain!Init, ChainFacts!Init
  <2> QED
    BY <2>1, ChainFacts!DamageInit, ChainFactsAssumption
<1>4. ChainFacts!DamageInv /\ [Chain!Next]_(Chain!vars) => ChainFacts!DamageInv'
  <2>1. ChainFacts!DamageInv /\ [ChainFacts!Next]_(ChainFacts!vars) => ChainFacts!DamageInv'
    BY <1>1, ChainFacts!DamageNext, ChainFactsAssumption
  <2> QED
    BY <2>1, SameNext
<1> QED
  BY <1>2, <1>3, <1>4, ProxyImplementsChainWriter, PTL DEF LogIsChain, Chain!Spec

-----------------------------------------------------------------------------
(* The places of a request *)

\* The requests that the lines of a stream answer
AnswersIn(s) == {line.of : line \in {l \in RangeOf(s) : l.kind # "request"}}

Unread == RangeOf(fromClient)
InHand == IF clientPump = "approval" THEN {asking} ELSE {}
Piped == RangeOf(toServer)
Replied == AnswersIn(fromServer)
Told == AnswersIn(toClient)

\* Not executed yet
NotYet == Unread \cup InHand \cup Piped

-----------------------------------------------------------------------------
(* Streams. *)

\* No request stands in a stream twice, and none is answered twice.
Once(s) == \A i, j \in 1 .. Len(s) : s[i] = s[j] => i = j

OnceAnswered(s) ==
    \A i, j \in 1 .. Len(s) :
        s[i].kind # "request" /\ s[j].kind # "request" /\ s[i].of = s[j].of => i = j

\* An answer has the id of its request.
ByItsId(s) ==
    \A line \in RangeOf(s) : line.kind # "request" =>
        line.of \in Requests /\ line.id = Id[line.of] /\ line.id # NoId

\* What is left when the head of a stream is taken
LEMMA TailRange ==
    ASSUME NEW S, NEW s \in Seq(S), s # <<>>
    PROVE  /\ Head(s) \in RangeOf(s) /\ Tail(s) \in Seq(S)
           /\ RangeOf(Tail(s)) \subseteq RangeOf(s)
           /\ \A x \in RangeOf(s) : x = Head(s) \/ x \in RangeOf(Tail(s))
<1>1. Len(s) \in Nat \ {0} /\ Len(Tail(s)) = Len(s) - 1 /\ Tail(s) \in Seq(S)
  OBVIOUS
<1>2. Head(s) = s[1] /\ \A i \in 1 .. Len(s) - 1 : Tail(s)[i] = s[i + 1]
  OBVIOUS
<1>3. ASSUME NEW x \in RangeOf(s) PROVE x = Head(s) \/ x \in RangeOf(Tail(s))
  <2>1. PICK i \in 1 .. Len(s) : x = s[i]
    BY DEF RangeOf
  <2>2. i # 1 => i - 1 \in 1 .. Len(Tail(s)) /\ Tail(s)[i - 1] = s[i]
    BY <1>1, <1>2
  <2> QED
    BY <1>2, <2>1, <2>2 DEF RangeOf
<1>4. ASSUME NEW x \in RangeOf(Tail(s)) PROVE x \in RangeOf(s)
  <2>1. PICK i \in 1 .. Len(Tail(s)) : x = Tail(s)[i]
    BY <1>4 DEF RangeOf
  <2>2. i + 1 \in 1 .. Len(s) /\ Tail(s)[i] = s[i + 1]
    BY <1>1, <1>2
  <2> QED
    BY <2>1, <2>2 DEF RangeOf
<1>5. Head(s) \in RangeOf(s)
  <2>1. 1 \in 1 .. Len(s)
    BY <1>1
  <2> QED
    BY <1>2, <2>1 DEF RangeOf
<1> QED
  BY <1>1, <1>3, <1>4, <1>5

LEMMA TailOnce ==
    ASSUME NEW S, NEW s \in Seq(S), s # <<>>, Once(s)
    PROVE  Once(Tail(s)) /\ Head(s) \notin RangeOf(Tail(s))
<1>1. Len(s) \in Nat \ {0} /\ Len(Tail(s)) = Len(s) - 1 /\ Head(s) = s[1]
  OBVIOUS
<1>2. \A i \in 1 .. Len(Tail(s)) : i + 1 \in 1 .. Len(s) /\ Tail(s)[i] = s[i + 1]
  OBVIOUS
<1>3. ASSUME NEW i \in 1 .. Len(Tail(s)) PROVE Tail(s)[i] # Head(s)
  BY <1>1, <1>2 DEF Once
<1>4. ASSUME NEW i \in 1 .. Len(Tail(s)), NEW j \in 1 .. Len(Tail(s)), Tail(s)[i] = Tail(s)[j]
      PROVE  i = j
  <2>1. i + 1 = j + 1
    BY <1>2, <1>4 DEF Once
  <2> QED
    BY <2>1
<1> QED
  BY <1>3, <1>4 DEF Once, RangeOf

LEMMA TailAnswered ==
    ASSUME NEW S, NEW s \in Seq(S), s # <<>>, OnceAnswered(s)
    PROVE  /\ OnceAnswered(Tail(s))
           /\ Head(s).kind # "request" => Head(s).of \notin AnswersIn(Tail(s))
<1>1. Len(s) \in Nat \ {0} /\ Len(Tail(s)) = Len(s) - 1 /\ Head(s) = s[1]
  OBVIOUS
<1>2. \A i \in 1 .. Len(Tail(s)) : i + 1 \in 1 .. Len(s) /\ Tail(s)[i] = s[i + 1]
  OBVIOUS
<1>3. ASSUME Head(s).kind # "request", NEW i \in 1 .. Len(Tail(s)), Tail(s)[i].kind # "request"
      PROVE  Tail(s)[i].of # Head(s).of
  <2>1. 1 \in 1 .. Len(s) /\ i + 1 # 1
    BY <1>1
  <2> QED
    BY <1>1, <1>2, <1>3, <2>1 DEF OnceAnswered
<1>4. ASSUME NEW i \in 1 .. Len(Tail(s)), NEW j \in 1 .. Len(Tail(s)),
             Tail(s)[i].kind # "request", Tail(s)[j].kind # "request",
             Tail(s)[i].of = Tail(s)[j].of
      PROVE  i = j
  <2>1. i + 1 = j + 1
    BY <1>2, <1>4 DEF OnceAnswered
  <2> QED
    BY <2>1
<1> QED
  BY <1>3, <1>4 DEF OnceAnswered, RangeOf, AnswersIn

\* What a stream holds when something was appended
LEMMA AppendRange ==
    ASSUME NEW S, NEW s \in Seq(S), NEW x \in S
    PROVE  RangeOf(Append(s, x)) = RangeOf(s) \cup {x}
<1>1. /\ Len(s) \in Nat /\ Len(Append(s, x)) = Len(s) + 1
      /\ Append(s, x)[Len(s) + 1] = x
      /\ \A i \in 1 .. Len(s) : Append(s, x)[i] = s[i]
  OBVIOUS
<1>2. 1 .. Len(s) + 1 = (1 .. Len(s)) \cup {Len(s) + 1}
  BY <1>1
<1> QED
  BY <1>1, <1>2 DEF RangeOf

LEMMA AppendOnce ==
    ASSUME NEW S, NEW s \in Seq(S), NEW x \in S, Once(s), x \notin RangeOf(s)
    PROVE  Once(Append(s, x))
<1>1. /\ Len(s) \in Nat /\ Len(Append(s, x)) = Len(s) + 1
      /\ Append(s, x)[Len(s) + 1] = x
      /\ \A i \in 1 .. Len(s) : Append(s, x)[i] = s[i]
  OBVIOUS
<1>2. 1 .. Len(s) + 1 = (1 .. Len(s)) \cup {Len(s) + 1}
  BY <1>1
<1>3. \A i \in 1 .. Len(s) : s[i] # x
  BY DEF RangeOf
<1> QED
  BY <1>1, <1>2, <1>3 DEF Once

LEMMA AppendAnswered ==
    ASSUME NEW S, NEW s \in Seq(S), NEW x \in S, OnceAnswered(s), ByItsId(s),
           x.kind # "request" =>
               /\ x.of \notin AnswersIn(s)
               /\ x.of \in Requests /\ x.id = Id[x.of] /\ x.id # NoId
    PROVE  OnceAnswered(Append(s, x)) /\ ByItsId(Append(s, x))
<1>1. /\ Len(s) \in Nat /\ Len(Append(s, x)) = Len(s) + 1
      /\ Append(s, x)[Len(s) + 1] = x
      /\ \A i \in 1 .. Len(s) : Append(s, x)[i] = s[i]
  OBVIOUS
<1>2. 1 .. Len(s) + 1 = (1 .. Len(s)) \cup {Len(s) + 1}
  BY <1>1
<1>3. \A i \in 1 .. Len(s) : s[i].kind # "request" /\ x.kind # "request" => s[i].of # x.of
  BY DEF RangeOf, AnswersIn
<1>4. OnceAnswered(Append(s, x))
  BY <1>1, <1>2, <1>3 DEF OnceAnswered
<1> QED
  BY <1>4, AppendRange DEF ByItsId

-----------------------------------------------------------------------------
(* The invariant of the flow of requests. *)

Streams ==
    /\ Once(fromClient) /\ Once(toServer)
    /\ OnceAnswered(fromServer) /\ OnceAnswered(toClient)
    /\ ByItsId(fromServer) /\ ByItsId(toClient)

\* No request is in two places; what was executed is past the server's stdin.
Apart ==
    /\ Unread \cap InHand = {} /\ (Unread \cup InHand) \cap Piped = {}
    /\ NotYet \cap executed = {}
    /\ executing \cup Replied \subseteq executed /\ executing \cap Replied = {}
    /\ Told \cap (NotYet \cup executing \cup Replied) = {}

\* What is anywhere is outstanding, and ids tell what is outstanding apart.
IdsApart ==
    /\ NotYet \cup executing \cup Replied \cup Told \subseteq outstanding
    /\ outstanding \cup executed \subseteq RangeOf(sent)
    /\ \A m, n \in outstanding : Id[m] = Id[n] /\ Id[m] # NoId => m = n

\* An entry of _pending is that of an outstanding call of its id which the
\* proxy let pass; every call in flight has its entry.
Remembered ==
    /\ \A i \in Ids : pending[i] # None =>
          /\ Id[pending[i].call] = i
          /\ pending[i].call \in outstanding \ (Unread \cup InHand \cup Told)
    /\ \A c \in Calls : c \in Piped \cup executing \cup Replied =>
          pending[Id[c]] # None /\ pending[Id[c]].call = c

PumpsStop == ~Running => clientPump = "done" /\ serverPump = "done"

\* Only a gated call waits for approval, and no denied call gets past.
Gate ==
    /\ \A c \in InHand : c \in Calls /\ Decision[c].action = "approve"
    /\ \A c \in Calls \cap (Piped \cup executed) : Decision[c].action # "deny"

FlowInv == TypeOK /\ Streams /\ Apart /\ IdsApart /\ Remembered /\ PumpsStop /\ Gate

-----------------------------------------------------------------------------
(* The moves. *)

\* At most these requests get to the six places
Within(unread, inHand, piped, ex, replied, told) ==
    /\ Unread' \subseteq Unread \cup unread /\ InHand' \subseteq InHand \cup inHand
    /\ Piped' \subseteq Piped \cup piped /\ executing' \subseteq executing \cup ex
    /\ Replied' \subseteq Replied \cup replied /\ Told' \subseteq Told \cup told

\* The client's stdout gets at most this line
Writes(written) == RangeOf(toClient') \subseteq RangeOf(toClient) \cup written

\* Nothing gets anywhere; something may be lost.
Loses ==
    /\ Within({}, {}, {}, {}, {}, {}) /\ Writes({})
    /\ Running' => Running
    /\ UNCHANGED <<sent, outstanding, answered, executed, pending, lines>>

Sends(m) ==
    /\ Running
    /\ m \in Requests \ RangeOf(sent)
    /\ \A n \in outstanding : Id[n] # Id[m] \/ Id[m] = NoId
    /\ RangeOf(sent') = RangeOf(sent) \cup {m} /\ outstanding' = outstanding \cup {m}
    /\ Within({m}, {}, {}, {}, {}, {}) /\ Writes({})
    /\ UNCHANGED <<answered, executed, pending, lines>>

Asks(c) ==
    /\ Running
    /\ c \in Calls \cap Unread /\ c \notin Unread' /\ Decision[c].action = "approve"
    /\ Within({}, {c}, {}, {}, {}, {}) /\ Writes({})
    /\ UNCHANGED <<sent, outstanding, answered, executed, pending, lines>>

\* The request leaves the client pump.
Leaves(m) == m \in Unread \cup InHand /\ m \notin Unread' \cup InHand'

\* The prompt has an approval for the pump.
Credit == clientPump = "approval" /\ result # None /\ result.approved

Forwards(m) ==
    /\ Running /\ Leaves(m)
    /\ IF m \in Calls
          THEN /\ Decision[m].action # "deny"
               /\ Decision[m].action = "approve" => Credit /\ Prompt!Take
               /\ \E approver \in Approvers :
                     pending' = [pending EXCEPT ![Id[m]] = PendingCall(m, approver)]
          ELSE UNCHANGED pending
    /\ Within({}, {}, {m}, {}, {}, {}) /\ Writes({})
    /\ UNCHANGED <<sent, outstanding, answered, executed, lines>>

Blocks(c, approver) ==
    /\ Running /\ Leaves(c) /\ c \in Calls /\ Decision[c].action # "allow"
    /\ \/ /\ Chain!append(Proxy, BlockedBody(c, approver))
          /\ Within({}, {}, {}, {}, {}, {c}) /\ Writes({Blocked(c)})
       \/ /\ \E extent \in Raised :
                Chain!append_raises(Proxy, BlockedBody(c, approver), extent)
          /\ Within({}, {}, {}, {}, {}, {}) /\ Writes({})
    /\ UNCHANGED <<sent, outstanding, answered, executed, pending>>

Executes(m) ==
    /\ m \in Piped /\ m \notin Piped'
    /\ executed' = executed \cup {m}
    /\ Within({}, {}, {}, {m}, {}, {}) /\ Writes({})
    /\ Running' => Running
    /\ UNCHANGED <<sent, outstanding, answered, pending, lines>>

Responds(m) ==
    /\ m \in executing /\ m \notin executing'
    /\ Within({}, {}, {}, {}, {m}, {}) /\ Writes({})
    /\ Running' => Running
    /\ UNCHANGED <<sent, outstanding, answered, executed, pending, lines>>

\* A line that answers no call
Relays(line) ==
    /\ Running
    /\ line.of \notin Calls
    /\ \/ /\ line.of \in Replied /\ line.of \notin Replied'
          /\ Within({}, {}, {}, {}, {}, {line.of})
       \/ Within({}, {}, {}, {}, {}, {})
    /\ Writes({line})
    /\ UNCHANGED <<sent, outstanding, answered, executed, pending, lines>>

\* The answer to the call is recorded, or lost in the attempt.
Records(c) ==
    /\ Running
    /\ c \in Calls \cap Replied /\ c \notin Replied'
    /\ pending' = [pending EXCEPT ![Id[c]] = None]
    /\ \/ /\ Chain!append(Proxy, AnsweredBody(pending[Id[c]], c))
          /\ Within({}, {}, {}, {}, {}, {c})
          /\ Writes({[kind |-> "response", id |-> Id[c], of |-> c]})
       \/ /\ \/ \E extent \in Raised :
                   Chain!append_raises(Proxy, AnsweredBody(pending[Id[c]], c), extent)
             \/ UNCHANGED lines
          /\ Within({}, {}, {}, {}, {}, {}) /\ Writes({})
    /\ UNCHANGED <<sent, outstanding, answered, executed>>

\* The client takes the answer to its request.
Hears(m) ==
    /\ \E line \in RangeOf(toClient) : line.of = m /\ line.kind # "request"
    /\ m \notin Told'
    /\ outstanding' = outstanding \ {m} /\ answered' = answered \cup {m}
    /\ Within({}, {}, {}, {}, {}, {}) /\ Writes({})
    /\ Running' => Running
    /\ UNCHANGED <<sent, executed, pending, lines>>

Starts ==
    /\ (NotYet \cup executing \cup Replied \cup Told \cup outstanding)' = {}
    /\ RangeOf(toClient') = {}
    /\ pending' = [i \in Ids |-> None]
    /\ UNCHANGED <<sent, answered, executed, lines>>

\* The process is killed inside an append.
Dies(c, body) ==
    /\ Running /\ ~Running'
    /\ c \in Calls
    /\ \/ /\ c \in Unread \cup InHand /\ Decision[c].action # "allow"
          /\ \E approver \in Approvers : body = BlockedBody(c, approver)
       \/ c \in Replied /\ body = AnsweredBody(pending[Id[c]], c)
    /\ \E extent \in Torn : Chain!append_dies(Proxy, body, extent)
    /\ Within({}, {}, {}, {}, {}, {}) /\ Writes({})
    /\ UNCHANGED <<sent, outstanding, answered, executed, pending>>

Move ==
    \/ Loses \/ Starts
    \/ \E m \in Requests :
          Sends(m) \/ Forwards(m) \/ Executes(m) \/ Responds(m) \/ Hears(m)
    \/ \E line \in ClientLines : Relays(line)
    \/ \E c \in Calls :
          \/ Asks(c) \/ Records(c)
          \/ \E approver \in Approvers : Blocks(c, approver)
          \/ \E body \in Bodies : Dies(c, body)

-----------------------------------------------------------------------------
(* What the lines that streams get and lose do to the places. *)

LEMMA FlowTypes ==
    ASSUME FlowInv
    PROVE  /\ fromClient \in Seq(Requests) /\ toServer \in Seq(Requests)
           /\ fromServer \in Seq(ServerLines) /\ toClient \in Seq(ClientLines)
           /\ sent \in Seq(Requests)
           /\ Unread \subseteq Requests /\ Piped \subseteq Requests
           /\ executing \subseteq Requests /\ outstanding \subseteq Requests
           /\ executed \subseteq Requests
           /\ pending \in [Ids -> PendingCalls \cup {None}]
<1>1. ProxyTypeOK
  BY DEF FlowInv, TypeOK
<1> QED
  BY <1>1 DEF ProxyTypeOK, Unread, Piped, RangeOf

LEMMA TakesFromClient ==
    ASSUME FlowInv, fromClient # <<>>, fromClient' = Tail(fromClient)
    PROVE  /\ Head(fromClient) \in Unread /\ Head(fromClient) \in Requests
           /\ Head(fromClient) \notin Unread' /\ Unread' \subseteq Unread
           /\ Once(fromClient)'
<1>1. fromClient \in Seq(Requests) /\ Unread \subseteq Requests /\ Once(fromClient)
  BY FlowTypes DEF FlowInv, Streams
<1>2. /\ Head(fromClient) \in RangeOf(fromClient)
      /\ RangeOf(Tail(fromClient)) \subseteq RangeOf(fromClient)
  BY <1>1, TailRange
<1>3. Once(Tail(fromClient)) /\ Head(fromClient) \notin RangeOf(Tail(fromClient))
  BY <1>1, TailOnce
<1>4. Once(fromClient)' <=> Once(Tail(fromClient))
  BY DEF Once
<1> QED
  BY <1>1, <1>2, <1>3, <1>4 DEF Unread

LEMMA WritesServer ==
    ASSUME FlowInv, NEW m \in Requests, m \notin Piped, _write_server(m)
    PROVE  Once(toServer)' /\ Piped' \subseteq Piped \cup {m}
<1>1. toServer \in Seq(Requests) /\ Once(toServer)
  BY FlowTypes DEF FlowInv, Streams
<1>2. CASE toServer' = toServer
  BY <1>1, <1>2 DEF Piped, Once
<1>3. CASE toServer' = Append(toServer, m)
  <2>1. RangeOf(Append(toServer, m)) = RangeOf(toServer) \cup {m}
    BY <1>1, AppendRange
  <2>2. Once(Append(toServer, m))
    BY <1>1, AppendOnce DEF Piped
  <2>3. Once(toServer)' <=> Once(Append(toServer, m))
    BY <1>3 DEF Once
  <2> QED
    BY <1>3, <2>1, <2>2, <2>3 DEF Piped
<1> QED
  BY <1>2, <1>3 DEF _write_server

\* A line of the client's that says what it answers
WellAddressed(line) ==
    IF line.kind = "request" THEN line.of = None
    ELSE line.of \in Requests /\ line.id = Id[line.of] /\ line.id # NoId

LEMMA WritesClient ==
    ASSUME FlowInv, NEW line \in ClientLines, _write_client(line), WellAddressed(line),
           line.kind # "request" => line.of \notin Told
    PROVE  /\ OnceAnswered(toClient)' /\ ByItsId(toClient)'
           /\ Writes({line})
           /\ Told' \subseteq Told \cup (IF line.kind = "request" THEN {} ELSE {line.of})
<1>1. toClient \in Seq(ClientLines) /\ OnceAnswered(toClient) /\ ByItsId(toClient)
  BY FlowTypes DEF FlowInv, Streams
<1>2. toClient' = Append(toClient, line)
  BY DEF _write_client
<1>3. RangeOf(Append(toClient, line)) = RangeOf(toClient) \cup {line}
  BY <1>1, AppendRange
<1>4. OnceAnswered(Append(toClient, line)) /\ ByItsId(Append(toClient, line))
  BY <1>1, AppendAnswered DEF Told, WellAddressed
<1>5. OnceAnswered(toClient)' /\ ByItsId(toClient)'
  BY <1>2, <1>4 DEF OnceAnswered, ByItsId
<1> QED
  BY <1>2, <1>3, <1>5 DEF Writes, Told, AnswersIn

LEMMA TakesFromServer ==
    ASSUME FlowInv, NEW line \in RangeOf(fromServer), ServerLine(line)
    PROVE  /\ line \in ServerLines /\ Passed(line) \in ClientLines
           /\ WellAddressed(line)
           /\ OnceAnswered(fromServer)' /\ ByItsId(fromServer)'
           /\ Replied' \subseteq Replied
           /\ line.kind # "request" => line.of \in Replied /\ line.of \notin Replied'
<1>1. fromServer \in Seq(ServerLines) /\ OnceAnswered(fromServer) /\ ByItsId(fromServer)
  BY FlowTypes DEF FlowInv, Streams
<1>2. fromServer # <<>> /\ line = Head(fromServer) /\ fromServer' = Tail(fromServer)
  BY DEF ServerLine
<1>3. line \in ServerLines /\ Passed(line) \in ClientLines
  BY ServerLineType DEF FlowInv, TypeOK
<1>4. WellAddressed(line)
  BY <1>1, <1>3 DEF ByItsId, WellAddressed, ServerLines
<1>5. /\ RangeOf(Tail(fromServer)) \subseteq RangeOf(fromServer)
      /\ OnceAnswered(Tail(fromServer))
      /\ line.kind # "request" => line.of \notin AnswersIn(Tail(fromServer))
  BY <1>1, <1>2, TailRange, TailAnswered
<1>6. OnceAnswered(fromServer)' /\ ByItsId(fromServer)'
  BY <1>1, <1>2, <1>5 DEF OnceAnswered, ByItsId
<1>7. Replied' \subseteq Replied
  BY <1>2, <1>5 DEF Replied, AnswersIn
<1> QED
  BY <1>2, <1>3, <1>4, <1>5, <1>6, <1>7 DEF Replied, AnswersIn

LEMMA Untouched ==
    ASSUME FlowInv
    PROVE  /\ UNCHANGED fromClient => Once(fromClient)' /\ Unread' = Unread
           /\ UNCHANGED toServer => Once(toServer)' /\ Piped' = Piped
           /\ UNCHANGED fromServer =>
                 OnceAnswered(fromServer)' /\ ByItsId(fromServer)' /\ Replied' = Replied
           /\ UNCHANGED toClient =>
                 /\ OnceAnswered(toClient)' /\ ByItsId(toClient)' /\ Told' = Told
                 /\ RangeOf(toClient') = RangeOf(toClient)
<1> USE DEF FlowInv, Streams
<1>1. ASSUME UNCHANGED fromClient PROVE Once(fromClient)' /\ Unread' = Unread
  BY <1>1 DEF Once, Unread
<1>2. ASSUME UNCHANGED toServer PROVE Once(toServer)' /\ Piped' = Piped
  BY <1>2 DEF Once, Piped
<1>3. ASSUME UNCHANGED fromServer
      PROVE  OnceAnswered(fromServer)' /\ ByItsId(fromServer)' /\ Replied' = Replied
  BY <1>3 DEF OnceAnswered, ByItsId, Replied
<1>4. ASSUME UNCHANGED toClient
      PROVE  /\ OnceAnswered(toClient)' /\ ByItsId(toClient)' /\ Told' = Told
             /\ RangeOf(toClient') = RangeOf(toClient)
  BY <1>4 DEF OnceAnswered, ByItsId, Told
<1> QED
  BY <1>1, <1>2, <1>3, <1>4

LEMMA Emptied ==
    /\ fromClient' = <<>> => Once(fromClient)' /\ Unread' = {}
    /\ toServer' = <<>> => Once(toServer)' /\ Piped' = {}
    /\ fromServer' = <<>> =>
          OnceAnswered(fromServer)' /\ ByItsId(fromServer)' /\ Replied' = {}
    /\ toClient' = <<>> =>
          /\ OnceAnswered(toClient)' /\ ByItsId(toClient)' /\ Told' = {}
          /\ RangeOf(toClient') = {}
BY DEF Once, OnceAnswered, ByItsId, Unread, Piped, Replied, Told, AnswersIn, RangeOf

-----------------------------------------------------------------------------
(* Effects: the client and the server. *)

\* A step that leaves the streams alone and moves no request moves nothing.
LEMMA QuietEffect ==
    ASSUME FlowInv, UNCHANGED <<streams, executing>>, InHand' \subseteq InHand
    PROVE  Streams' /\ Within({}, {}, {}, {}, {}, {}) /\ Writes({})
<1>1. UNCHANGED <<fromClient, toServer, fromServer, toClient>>
  BY DEF streams
<1> QED
  BY <1>1, Untouched DEF Streams, Within, Writes

LEMMA ClientSendEffect ==
    ASSUME FlowInv, NEW m \in Requests, ClientSend(m)
    PROVE  Streams' /\ PumpsStop' /\ Sends(m)
<1>1. /\ Running /\ m \notin RangeOf(sent)
      /\ \A n \in outstanding : Id[n] # Id[m] \/ Id[m] = NoId
      /\ sent' = Append(sent, m) /\ outstanding' = outstanding \cup {m}
      /\ fromClient' = Append(fromClient, m)
      /\ UNCHANGED <<answered, toServer, fromServer, toClient, executing, executed,
                     main, clientPump, serverPump, pending, lines, asking>>
  BY DEF ClientSend, serverVars, proxyVars, memory, chainVars, promptVars
<1>2. fromClient \in Seq(Requests) /\ sent \in Seq(Requests)
  BY FlowTypes
<1>3. Once(fromClient) /\ Unread \subseteq RangeOf(sent)
  BY DEF FlowInv, Streams, IdsApart, NotYet
<1>4. RangeOf(Append(sent, m)) = RangeOf(sent) \cup {m}
  BY <1>2, AppendRange
<1>5. RangeOf(Append(fromClient, m)) = RangeOf(fromClient) \cup {m}
  BY <1>2, AppendRange
<1>6. Once(Append(fromClient, m))
  BY <1>1, <1>2, <1>3, AppendOnce DEF Unread
<1>7. Once(fromClient)' <=> Once(Append(fromClient, m))
  BY <1>1 DEF Once
<1>8. Streams'
  BY <1>1, <1>6, <1>7, Untouched DEF Streams
<1>9. InHand' = InHand
  BY <1>1 DEF InHand
<1>10. Within({m}, {}, {}, {}, {}, {}) /\ Writes({})
  BY <1>1, <1>5, <1>9, Untouched DEF Within, Writes, Unread
<1>11. PumpsStop'
  BY <1>1 DEF PumpsStop, Running
<1> QED
  BY <1>1, <1>4, <1>8, <1>10, <1>11 DEF Sends

\* What the client takes to be answered is the one request the line answers.
LEMMA ClientReceiveEffect ==
    ASSUME FlowInv, ClientReceive
    PROVE  Streams' /\ PumpsStop' /\ (Loses \/ \E m \in Requests : Hears(m))
<1> DEFINE line == Head(toClient)
           done == {n \in outstanding : Id[n] = line.id /\ line.kind # "request"}
<1>1. /\ toClient # <<>> /\ toClient' = Tail(toClient)
      /\ outstanding' = outstanding \ done /\ answered' = answered \cup done
      /\ UNCHANGED <<sent, fromClient, toServer, fromServer, executing, executed,
                     main, clientPump, serverPump, pending, lines, asking>>
  BY DEF ClientReceive, serverVars, proxyVars, memory, chainVars, promptVars
<1>2. toClient \in Seq(ClientLines) /\ OnceAnswered(toClient) /\ ByItsId(toClient)
  BY FlowTypes DEF FlowInv, Streams
<1>3. /\ line \in RangeOf(toClient)
      /\ RangeOf(Tail(toClient)) \subseteq RangeOf(toClient)
  BY <1>1, <1>2, TailRange
<1>4. /\ OnceAnswered(Tail(toClient))
      /\ line.kind # "request" => line.of \notin AnswersIn(Tail(toClient))
  BY <1>1, <1>2, TailAnswered
<1>5. OnceAnswered(toClient)' /\ ByItsId(toClient)'
  BY <1>1, <1>2, <1>3, <1>4 DEF OnceAnswered, ByItsId
<1>6. Streams'
  BY <1>1, <1>5, Untouched DEF Streams
<1>7. InHand' = InHand
  BY <1>1 DEF InHand
<1>8. Told' \subseteq Told
  BY <1>1, <1>3 DEF Told, AnswersIn
<1>9. Within({}, {}, {}, {}, {}, {}) /\ Writes({})
  BY <1>1, <1>3, <1>7, <1>8, Untouched DEF Within, Writes
<1>10. PumpsStop' /\ (Running' => Running)
  BY <1>1 DEF FlowInv, PumpsStop, Running
<1>11. CASE line.kind = "request"
  <2>1. done = {}
    BY <1>11
  <2>2. Loses
    BY <1>1, <1>9, <1>10, <2>1 DEF Loses
  <2> QED
    BY <1>6, <1>10, <2>2
<1>12. CASE line.kind # "request"
  <2>1. line.of \in Requests /\ line.id = Id[line.of] /\ line.id # NoId
    BY <1>2, <1>3, <1>12 DEF ByItsId
  <2>2. line.of \in Told
    BY <1>3, <1>12 DEF Told, AnswersIn
  <2>3. line.of \in outstanding
    BY <2>2 DEF FlowInv, IdsApart
  <2>4. \A n \in outstanding : Id[n] = line.id => n = line.of
    BY <2>1, <2>3 DEF FlowInv, IdsApart
  <2>5. done = {line.of}
    BY <1>12, <2>1, <2>3, <2>4
  <2>6. line.of \notin Told'
    BY <1>1, <1>4, <1>12 DEF Told
  <2>7. Hears(line.of)
    BY <1>1, <1>3, <1>9, <1>10, <1>12, <2>5, <2>6 DEF Hears
  <2> QED
    BY <1>6, <1>10, <2>1, <2>7
<1> QED
  BY <1>11, <1>12

LEMMA ClientCloseEffect ==
    ASSUME FlowInv, ClientClose
    PROVE  Streams' /\ PumpsStop' /\ Loses
<1>1. UNCHANGED <<sent, outstanding, answered, streams, executing, executed,
                  main, clientPump, serverPump, pending, lines, asking>>
  BY DEF ClientClose, serverVars, proxyVars, memory, chainVars, promptVars
<1>2. InHand' = InHand
  BY <1>1 DEF InHand
<1>3. PumpsStop' /\ (Running' => Running)
  BY <1>1 DEF FlowInv, PumpsStop, Running
<1>4. Streams' /\ Within({}, {}, {}, {}, {}, {}) /\ Writes({})
  BY <1>1, <1>2, QuietEffect
<1> QED
  BY <1>1, <1>3, <1>4 DEF Loses

LEMMA ServerReceiveEffect ==
    ASSUME FlowInv, ServerReceive
    PROVE  Streams' /\ PumpsStop' /\ \E m \in Requests : Executes(m)
<1> DEFINE m == Head(toServer)
<1>1. /\ toServer # <<>> /\ toServer' = Tail(toServer)
      /\ executing' = executing \cup {m} /\ executed' = executed \cup {m}
      /\ UNCHANGED <<sent, outstanding, answered, fromClient, fromServer, toClient,
                     main, clientPump, serverPump, pending, lines, asking>>
  BY DEF ServerReceive, clientVars, proxyVars, memory, chainVars, promptVars
<1>2. toServer \in Seq(Requests) /\ Once(toServer) /\ Piped \subseteq Requests
  BY FlowTypes DEF FlowInv, Streams
<1>3. m \in RangeOf(toServer) /\ RangeOf(Tail(toServer)) \subseteq RangeOf(toServer)
  BY <1>1, <1>2, TailRange
<1>4. Once(Tail(toServer)) /\ m \notin RangeOf(Tail(toServer))
  BY <1>1, <1>2, TailOnce
<1>5. Once(toServer)' <=> Once(Tail(toServer))
  BY <1>1 DEF Once
<1>6. Streams'
  BY <1>1, <1>4, <1>5, Untouched DEF Streams
<1>7. InHand' = InHand
  BY <1>1 DEF InHand
<1>8. Within({}, {}, {}, {m}, {}, {}) /\ Writes({})
  BY <1>1, <1>3, <1>7, Untouched DEF Within, Writes, Piped
<1>9. PumpsStop' /\ (Running' => Running)
  BY <1>1 DEF FlowInv, PumpsStop, Running
<1>10. m \in Piped /\ m \notin Piped' /\ m \in Requests
  BY <1>1, <1>2, <1>3, <1>4 DEF Piped
<1>11. Executes(m)
  BY <1>1, <1>8, <1>9, <1>10 DEF Executes
<1> QED
  BY <1>6, <1>9, <1>10, <1>11

LEMMA ServerRespondEffect ==
    ASSUME FlowInv, NEW m \in executing, NEW fate \in Fates, ServerRespond(m, fate)
    PROVE  Streams' /\ PumpsStop' /\ Responds(m)
<1> DEFINE line == [kind |-> "response", id |-> Id[m], of |-> m, fate |-> fate]
<1>1. /\ executing' = executing \ {m} /\ Id[m] # NoId
      /\ fromServer' = Append(fromServer, line)
      /\ UNCHANGED <<sent, outstanding, answered, executed, fromClient, toServer, toClient,
                     main, clientPump, serverPump, pending, lines, asking>>
  BY DEF ServerRespond, clientVars, proxyVars, memory, chainVars, promptVars
<1>2. /\ fromServer \in Seq(ServerLines) /\ OnceAnswered(fromServer) /\ ByItsId(fromServer)
      /\ m \in Requests
  BY FlowTypes DEF FlowInv, Streams
<1>3. line \in ServerLines
  BY <1>1, <1>2, ProxyAssumption DEF ServerLines
<1>4. RangeOf(Append(fromServer, line)) = RangeOf(fromServer) \cup {line}
  BY <1>2, <1>3, AppendRange
<1>5. m \notin AnswersIn(fromServer)
  BY DEF FlowInv, Apart, Replied
<1>6. OnceAnswered(Append(fromServer, line)) /\ ByItsId(Append(fromServer, line))
  BY <1>1, <1>2, <1>3, <1>5, AppendAnswered
<1>7. OnceAnswered(fromServer)' /\ ByItsId(fromServer)'
  BY <1>1, <1>6 DEF OnceAnswered, ByItsId
<1>8. Streams'
  BY <1>1, <1>7, Untouched DEF Streams
<1>9. Replied' \subseteq Replied \cup {m}
  BY <1>1, <1>4 DEF Replied, AnswersIn
<1>10. InHand' = InHand
  BY <1>1 DEF InHand
<1>11. Within({}, {}, {}, {}, {m}, {}) /\ Writes({})
  BY <1>1, <1>9, <1>10, Untouched DEF Within, Writes
<1>12. PumpsStop' /\ (Running' => Running)
  BY <1>1 DEF FlowInv, PumpsStop, Running
<1> QED
  BY <1>1, <1>8, <1>11, <1>12 DEF Responds

LEMMA ServerRequestEffect ==
    ASSUME FlowInv, NEW i \in Ids, ServerRequest(i)
    PROVE  Streams' /\ PumpsStop' /\ Loses
<1> DEFINE line == [kind |-> "request", id |-> i, of |-> None, fate |-> "plain"]
<1>1. /\ fromServer' = Append(fromServer, line)
      /\ UNCHANGED <<sent, outstanding, answered, executing, executed, fromClient,
                     toServer, toClient, main, clientPump, serverPump, pending, lines, asking>>
  BY DEF ServerRequest, clientVars, proxyVars, memory, chainVars, promptVars
<1>2. fromServer \in Seq(ServerLines) /\ OnceAnswered(fromServer) /\ ByItsId(fromServer)
  BY FlowTypes DEF FlowInv, Streams
<1>3. line \in ServerLines
  BY DEF ServerLines
<1>4. RangeOf(Append(fromServer, line)) = RangeOf(fromServer) \cup {line}
  BY <1>2, <1>3, AppendRange
<1>5. OnceAnswered(Append(fromServer, line)) /\ ByItsId(Append(fromServer, line))
  BY <1>2, <1>3, AppendAnswered
<1>6. OnceAnswered(fromServer)' /\ ByItsId(fromServer)'
  BY <1>1, <1>5 DEF OnceAnswered, ByItsId
<1>7. Streams'
  BY <1>1, <1>6, Untouched DEF Streams
<1>8. Replied' \subseteq Replied
  BY <1>1, <1>4 DEF Replied, AnswersIn
<1>9. InHand' = InHand
  BY <1>1 DEF InHand
<1>10. Within({}, {}, {}, {}, {}, {}) /\ Writes({})
  BY <1>1, <1>8, <1>9, Untouched DEF Within, Writes
<1>11. PumpsStop' /\ (Running' => Running)
  BY <1>1 DEF FlowInv, PumpsStop, Running
<1> QED
  BY <1>1, <1>7, <1>10, <1>11 DEF Loses

LEMMA ServerExitEffect ==
    ASSUME FlowInv, ServerExit
    PROVE  Streams' /\ PumpsStop' /\ Loses
<1>1. /\ executing' = {} /\ toServer' = <<>>
      /\ UNCHANGED <<sent, outstanding, answered, executed, fromClient, fromServer,
                     toClient, main, clientPump, serverPump, pending, lines, asking>>
  BY DEF ServerExit, clientVars, proxyVars, memory, chainVars, promptVars
<1>2. Streams'
  BY <1>1, Untouched, Emptied DEF Streams
<1>3. InHand' = InHand
  BY <1>1 DEF InHand
<1>4. Within({}, {}, {}, {}, {}, {}) /\ Writes({})
  BY <1>1, <1>3, Untouched, Emptied DEF Within, Writes
<1>5. PumpsStop' /\ (Running' => Running)
  BY <1>1 DEF FlowInv, PumpsStop, Running
<1> QED
  BY <1>1, <1>2, <1>4, <1>5 DEF Loses

-----------------------------------------------------------------------------
(* Effects: the client pump. *)

LEMMA LeavesClientPump ==
    ASSUME FlowInv, NEW m, clientPump' # "approval", UNCHANGED main,
           \/ Reading /\ m = Head(fromClient) /\ fromClient' = Tail(fromClient)
           \/ clientPump = "approval" /\ m = asking /\ UNCHANGED fromClient
    PROVE  /\ Running /\ Leaves(m) /\ m \in Requests /\ m \notin Piped \cup Told
           /\ Once(fromClient)' /\ Unread' \subseteq Unread /\ InHand' = {}
           /\ PumpsStop'
<1>1. Running /\ PumpsStop'
  BY DEF FlowInv, PumpsStop, Running, Reading
<1>2. InHand' = {}
  BY DEF InHand
<1>3. CASE Reading /\ m = Head(fromClient) /\ fromClient' = Tail(fromClient)
  BY <1>1, <1>2, <1>3, TakesFromClient DEF Reading, Leaves, FlowInv, Apart, NotYet
<1>4. CASE clientPump = "approval" /\ m = asking /\ UNCHANGED fromClient
  <2>1. m \in InHand /\ m \in Requests
    BY <1>4 DEF InHand, FlowInv, Gate, Requests
  <2>2. Once(fromClient)' /\ Unread' = Unread
    BY <1>4, Untouched
  <2> QED
    BY <1>1, <1>2, <2>1, <2>2 DEF Leaves, FlowInv, Apart, NotYet
<1> QED
  BY <1>3, <1>4

\* The notice of a block is the first line that answers the call.
LEMMA BlockEffect ==
    ASSUME FlowInv, NEW c \in Calls, NEW approver \in Approvers,
           _record_and_block(c, approver), c \notin Told
    PROVE  /\ OnceAnswered(toClient)' /\ ByItsId(toClient)'
           /\ UNCHANGED <<toServer, pending>> /\ clientPump' # "approval"
           /\ \/ /\ Chain!append(Proxy, BlockedBody(c, approver))
                 /\ Told' \subseteq Told \cup {c} /\ Writes({Blocked(c)})
              \/ /\ \E extent \in Raised :
                       Chain!append_raises(Proxy, BlockedBody(c, approver), extent)
                 /\ Told' \subseteq Told /\ Writes({})
<1>1. UNCHANGED <<toServer, pending>> /\ clientPump' # "approval"
  BY DEF _record_and_block
<1>2. CASE Chain!append(Proxy, BlockedBody(c, approver)) /\ _write_client(Blocked(c))
  <2>1. /\ Blocked(c) \in ClientLines /\ WellAddressed(Blocked(c))
        /\ Blocked(c).kind # "request" /\ Blocked(c).of = c
    BY ProxyAssumption DEF Blocked, ClientLines, WellAddressed, Requests
  <2> QED
    BY <1>1, <1>2, <2>1, WritesClient
<1>3. CASE /\ \E extent \in Raised :
                  Chain!append_raises(Proxy, BlockedBody(c, approver), extent)
           /\ UNCHANGED toClient
  BY <1>1, <1>3, Untouched DEF Writes
<1> QED
  BY <1>2, <1>3 DEF _record_and_block

\* What ClientPumpStep leaves alone, spelled out
LEMMA BesideClientPump ==
    ASSUME FlowInv, UNCHANGED besideClientPump
    PROVE  /\ UNCHANGED <<sent, outstanding, answered, executing, executed, fromServer,
                          main, serverPump>>
           /\ OnceAnswered(fromServer)' /\ ByItsId(fromServer)' /\ Replied' = Replied
           /\ Running' <=> Running
<1>1. UNCHANGED <<sent, outstanding, answered, executing, executed, fromServer, main,
                  serverPump>>
  BY DEF besideClientPump, outsideVars, clientVars, serverVars
<1> QED
  BY <1>1, Untouched DEF Running

\* A call that has come past the policy goes on to the server.
LEMMA ForwardEffect ==
    ASSUME FlowInv, NEW c \in Calls, NEW approver \in Approvers,
           Forward(c, approver), UNCHANGED besideClientPump, Decision[c].action # "deny",
           Decision[c].action = "approve" => Credit /\ Prompt!Take,
           \/ Reading /\ c = Head(fromClient) /\ fromClient' = Tail(fromClient)
           \/ clientPump = "approval" /\ c = asking /\ UNCHANGED fromClient
    PROVE  Streams' /\ PumpsStop' /\ Forwards(c)
<1>1. /\ pending' = [pending EXCEPT ![Id[c]] = PendingCall(c, approver)]
      /\ _write_server(c) /\ clientPump' # "approval" /\ UNCHANGED <<toClient, lines>>
  BY DEF Forward, Remember, chainVars
<1>2. UNCHANGED main
  BY BesideClientPump
<1>3. /\ Running /\ Leaves(c) /\ c \in Requests /\ c \notin Piped
      /\ Once(fromClient)' /\ Unread' \subseteq Unread /\ InHand' = {} /\ PumpsStop'
  BY <1>1, <1>2, LeavesClientPump
<1>4. Once(toServer)' /\ Piped' \subseteq Piped \cup {c}
  BY <1>1, <1>3, WritesServer
<1>5. Streams'
  BY <1>1, <1>3, <1>4, BesideClientPump, Untouched DEF Streams
<1>6. Within({}, {}, {c}, {}, {}, {}) /\ Writes({})
  BY <1>1, <1>3, <1>4, BesideClientPump, Untouched DEF Within, Writes
<1>7. UNCHANGED <<sent, outstanding, answered, executed>>
  BY BesideClientPump
<1> QED
  BY <1>1, <1>3, <1>5, <1>6, <1>7 DEF Forwards

\* A call that has not is recorded and answered by the proxy.
LEMMA RefuseEffect ==
    ASSUME FlowInv, NEW c \in Calls, NEW approver \in Approvers,
           _record_and_block(c, approver), UNCHANGED besideClientPump,
           Decision[c].action # "allow",
           \/ Reading /\ c = Head(fromClient) /\ fromClient' = Tail(fromClient)
           \/ clientPump = "approval" /\ c = asking /\ UNCHANGED fromClient
    PROVE  Streams' /\ PumpsStop' /\ Blocks(c, approver)
<1>1. UNCHANGED <<toServer, pending>> /\ clientPump' # "approval"
  BY DEF _record_and_block
<1>2. UNCHANGED main
  BY BesideClientPump
<1>3. /\ Running /\ Leaves(c) /\ c \notin Told
      /\ Once(fromClient)' /\ Unread' \subseteq Unread /\ InHand' = {} /\ PumpsStop'
  BY <1>1, <1>2, LeavesClientPump
<1>4. /\ OnceAnswered(toClient)' /\ ByItsId(toClient)'
      /\ \/ /\ Chain!append(Proxy, BlockedBody(c, approver))
            /\ Told' \subseteq Told \cup {c} /\ Writes({Blocked(c)})
         \/ /\ \E extent \in Raised :
                  Chain!append_raises(Proxy, BlockedBody(c, approver), extent)
            /\ Told' \subseteq Told /\ Writes({})
  BY <1>3, BlockEffect
<1>5. Streams'
  BY <1>1, <1>3, <1>4, BesideClientPump, Untouched DEF Streams
<1>6. UNCHANGED <<sent, outstanding, answered, executed, executing>>
  BY BesideClientPump
<1>7. Within({}, {}, {}, {}, {}, {c})
  BY <1>1, <1>3, <1>4, <1>6, BesideClientPump, Untouched DEF Within
<1>8. Told' \subseteq Told => Within({}, {}, {}, {}, {}, {})
  BY <1>1, <1>3, <1>6, BesideClientPump, Untouched DEF Within
<1>9. \/ /\ Chain!append(Proxy, BlockedBody(c, approver))
         /\ Within({}, {}, {}, {}, {}, {c}) /\ Writes({Blocked(c)})
      \/ /\ \E extent \in Raised :
               Chain!append_raises(Proxy, BlockedBody(c, approver), extent)
         /\ Within({}, {}, {}, {}, {}, {}) /\ Writes({})
  BY <1>4, <1>7, <1>8
<1> QED
  BY <1>1, <1>3, <1>5, <1>6, <1>9 DEF Blocks

LEMMA PassThroughEffect ==
    ASSUME FlowInv, PassThrough
    PROVE  Streams' /\ PumpsStop' /\ \E m \in Requests : Forwards(m)
<1> DEFINE m == Head(fromClient)
<1>1. /\ Reading /\ m \in Others /\ fromClient' = Tail(fromClient)
      /\ _write_server(m) /\ clientPump' # "approval"
      /\ UNCHANGED <<toClient, pending, lines, main>> /\ UNCHANGED besideClientPump
  BY DEF PassThrough, memory, chainVars, besideClientPump
<1>2. /\ Running /\ Leaves(m) /\ m \in Requests /\ m \notin Piped
      /\ Once(fromClient)' /\ Unread' \subseteq Unread /\ InHand' = {} /\ PumpsStop'
  BY <1>1, LeavesClientPump
<1>3. Once(toServer)' /\ Piped' \subseteq Piped \cup {m}
  BY <1>1, <1>2, WritesServer
<1>4. Streams'
  BY <1>1, <1>2, <1>3, BesideClientPump, Untouched DEF Streams
<1>5. Within({}, {}, {m}, {}, {}, {}) /\ Writes({})
  BY <1>1, <1>2, <1>3, BesideClientPump, Untouched DEF Within, Writes
<1>6. UNCHANGED <<sent, outstanding, answered, executed>>
  BY <1>1, BesideClientPump
<1>7. m \notin Calls
  BY <1>1, ProxyAssumption
<1>8. Forwards(m)
  BY <1>1, <1>2, <1>5, <1>6, <1>7 DEF Forwards
<1> QED
  BY <1>2, <1>4, <1>8

LEMMA ClientLineFailsEffect ==
    ASSUME FlowInv, ClientLineFails
    PROVE  Streams' /\ PumpsStop' /\ Loses
<1>1. /\ Reading /\ fromClient' = Tail(fromClient) /\ clientPump' # "approval"
      /\ UNCHANGED <<toServer, toClient, pending, lines, main>> /\ UNCHANGED besideClientPump
  BY DEF ClientLineFails, memory, chainVars, besideClientPump
<1>2. Once(fromClient)' /\ Unread' \subseteq Unread /\ InHand' = {} /\ PumpsStop'
  BY <1>1, LeavesClientPump
<1>3. Streams'
  BY <1>1, <1>2, BesideClientPump, Untouched DEF Streams
<1>4. UNCHANGED <<sent, outstanding, answered, executed, executing>>
  BY <1>1, BesideClientPump
<1>5. Within({}, {}, {}, {}, {}, {}) /\ Writes({})
  BY <1>1, <1>2, <1>4, BesideClientPump, Untouched DEF Within, Writes
<1>6. Running' => Running
  BY <1>1 DEF Running
<1> QED
  BY <1>1, <1>2, <1>3, <1>4, <1>5, <1>6 DEF Loses

LEMMA AllowCallEffect ==
    ASSUME FlowInv, NEW c \in Calls, AllowCall(c)
    PROVE  Streams' /\ PumpsStop' /\ Forwards(c)
<1>1. /\ Forward(c, NoApprover) /\ UNCHANGED besideClientPump
      /\ Decision[c].action # "deny" /\ Decision[c].action # "approve"
      /\ Reading /\ c = Head(fromClient) /\ fromClient' = Tail(fromClient)
  BY DEF AllowCall, NextCall
<1>2. NoApprover \in Approvers
  BY DEF Approvers
<1> QED
  BY <1>1, <1>2, ForwardEffect

LEMMA DenyCallEffect ==
    ASSUME FlowInv, NEW c \in Calls, DenyCall(c)
    PROVE  Streams' /\ PumpsStop' /\ Blocks(c, NoApprover)
<1>1. /\ _record_and_block(c, NoApprover) /\ UNCHANGED besideClientPump
      /\ Decision[c].action # "allow"
      /\ Reading /\ c = Head(fromClient) /\ fromClient' = Tail(fromClient)
  BY DEF DenyCall, NextCall
<1>2. NoApprover \in Approvers
  BY DEF Approvers
<1> QED
  BY <1>1, <1>2, RefuseEffect

LEMMA AskApprovalEffect ==
    ASSUME FlowInv, NEW c \in Calls, AskApproval(c)
    PROVE  Streams' /\ PumpsStop' /\ Asks(c)
<1>1. /\ Reading /\ c = Head(fromClient) /\ fromClient' = Tail(fromClient)
      /\ Decision[c].action = "approve" /\ asking' = c /\ clientPump' = "approval"
      /\ UNCHANGED <<toServer, toClient, pending, lines>> /\ UNCHANGED besideClientPump
  BY DEF AskApproval, NextCall, chainVars, Prompt!request_approval
<1>2. /\ c \in Unread /\ c \notin Unread' /\ Unread' \subseteq Unread
      /\ Once(fromClient)'
  BY <1>1, TakesFromClient DEF Reading
<1>3. Streams'
  BY <1>1, <1>2, BesideClientPump, Untouched DEF Streams
<1>4. InHand' = {c}
  BY <1>1 DEF InHand
<1>5. UNCHANGED <<sent, outstanding, answered, executed, executing, main>>
  BY <1>1, BesideClientPump
<1>6. Within({}, {c}, {}, {}, {}, {}) /\ Writes({})
  BY <1>1, <1>2, <1>4, <1>5, BesideClientPump, Untouched DEF Within, Writes
<1>7. Running /\ PumpsStop'
  BY <1>1, <1>5 DEF FlowInv, PumpsStop, Running, Reading
<1> QED
  BY <1>1, <1>2, <1>3, <1>5, <1>6, <1>7 DEF Asks

LEMMA ApprovalReturnsEffect ==
    ASSUME FlowInv, ApprovalReturns
    PROVE  /\ Streams' /\ PumpsStop'
           /\ asking \in Calls
           /\ \/ Forwards(asking)
              \/ \E approver \in Approvers : Blocks(asking, approver)
<1>1. /\ clientPump = "approval" /\ UNCHANGED besideClientPump /\ UNCHANGED fromClient
      /\ result # None /\ Prompt!Take
      /\ \/ result.approved /\ Forward(asking, result)
         \/ _record_and_block(asking, result)
  BY DEF ApprovalReturns, Approved
<1>2. asking \in Calls /\ Decision[asking].action = "approve"
  BY <1>1 DEF FlowInv, Gate, InHand
<1>3. result \in Approvers
  BY ApprovalResultType DEF FlowInv, TypeOK, ApprovalReturns
<1>4. Decision[asking].action # "deny" /\ Decision[asking].action # "allow"
  BY <1>2
<1>5. CASE result.approved /\ Forward(asking, result)
  <2>1. Credit
    BY <1>1, <1>5 DEF Credit
  <2>2. Streams' /\ PumpsStop' /\ Forwards(asking)
    BY <1>1, <1>2, <1>3, <1>4, <1>5, <2>1, ForwardEffect
  <2> QED
    BY <1>2, <2>2
<1>6. CASE _record_and_block(asking, result)
  <2>1. Streams' /\ PumpsStop' /\ Blocks(asking, result)
    BY <1>1, <1>2, <1>3, <1>4, <1>6, RefuseEffect
  <2> QED
    BY <1>2, <1>3, <2>1
<1> QED
  BY <1>1, <1>5, <1>6

LEMMA ApprovalRaisesEffect ==
    ASSUME FlowInv, ApprovalRaises
    PROVE  Streams' /\ PumpsStop' /\ Loses
<1>1. /\ clientPump = "approval" /\ clientPump' = "done"
      /\ UNCHANGED <<fromClient, toServer, toClient, pending, lines, main>>
      /\ UNCHANGED besideClientPump
  BY DEF ApprovalRaises, chainVars, besideClientPump
<1>2. InHand' = {}
  BY <1>1 DEF InHand
<1>3. Unread' = Unread
  BY <1>1 DEF Unread
<1>4. Streams'
  BY <1>1, <1>2, BesideClientPump, Untouched DEF FlowInv, Streams
<1>5. UNCHANGED <<sent, outstanding, answered, executed, executing>>
  BY <1>1, BesideClientPump
<1>6. Within({}, {}, {}, {}, {}, {}) /\ Writes({})
  BY <1>1, <1>2, <1>3, <1>5, BesideClientPump, Untouched DEF Within, Writes
<1>7. PumpsStop' /\ (Running' => Running)
  BY <1>1, BesideClientPump DEF FlowInv, PumpsStop, Running
<1> QED
  BY <1>1, <1>4, <1>5, <1>6, <1>7 DEF Loses

\* drain returning, or the end of the client's stream
LEMMA ClientPumpRestsEffect ==
    ASSUME FlowInv, DrainServer \/ ClientPumpDrained \/ ClientEOF
    PROVE  Streams' /\ PumpsStop' /\ Loses
<1>1. /\ clientPump # "done" /\ clientPump' # "approval"
      /\ UNCHANGED <<fromClient, toServer, toClient, pending, lines, main>>
      /\ UNCHANGED besideClientPump
  BY DEF DrainServer, ClientPumpDrained, Drained, AfterDrain, ClientEOF, memory, chainVars,
         besideClientPump
<1>2. UNCHANGED <<sent, outstanding, answered, executed, executing, fromServer>>
  BY <1>1, BesideClientPump
<1>3. InHand' = {}
  BY <1>1 DEF InHand
<1>4. Streams' /\ Within({}, {}, {}, {}, {}, {}) /\ Writes({})
  BY <1>1, <1>2, <1>3, QuietEffect DEF streams
<1>5. PumpsStop' /\ (Running' => Running)
  BY <1>1 DEF FlowInv, PumpsStop, Running
<1> QED
  BY <1>1, <1>2, <1>4, <1>5 DEF Loses

-----------------------------------------------------------------------------
(* Effects: the server pump. *)

LEMMA BesideServerPump ==
    ASSUME FlowInv, UNCHANGED besideServerPump
    PROVE  /\ UNCHANGED <<sent, outstanding, answered, executing, executed, main>>
           /\ Once(fromClient)' /\ Once(toServer)'
           /\ Unread' = Unread /\ Piped' = Piped /\ InHand' = InHand
           /\ Running' <=> Running
<1>1. UNCHANGED <<sent, outstanding, answered, executing, executed, fromClient, toServer,
                  main, clientPump, asking>>
  BY DEF besideServerPump, outsideVars, clientVars, serverVars, promptVars
<1> QED
  BY <1>1, Untouched DEF Running, InHand

\* No answer to a call gets past the pump: the call is in _pending.
LEMMA RelayLineEffect ==
    ASSUME FlowInv, RelayLine
    PROVE  Streams' /\ PumpsStop' /\ \E line \in ClientLines : Relays(line)
<1>1. PICK line \in RangeOf(fromServer) :
          ServerLine(line) /\ ~IsAnswer(line) /\ _write_client(Passed(line))
  BY DEF RelayLine
<1>2. /\ UNCHANGED besideServerPump /\ UNCHANGED <<pending, lines>>
      /\ serverPump = "read"
  BY <1>1 DEF RelayLine, chainVars, ServerLine
<1>3. /\ line \in ServerLines /\ Passed(line) \in ClientLines /\ WellAddressed(line)
      /\ OnceAnswered(fromServer)' /\ ByItsId(fromServer)' /\ Replied' \subseteq Replied
      /\ line.kind # "request" => line.of \in Replied /\ line.of \notin Replied'
  BY <1>1, TakesFromServer
<1>4. /\ Passed(line).kind = line.kind /\ Passed(line).id = line.id
      /\ Passed(line).of = line.of
  BY DEF Passed
<1>5. WellAddressed(Passed(line))
  BY <1>3, <1>4 DEF WellAddressed
<1>6. line.kind # "request" => line.of \notin Told
  BY <1>3 DEF FlowInv, Apart
<1>7. /\ OnceAnswered(toClient)' /\ ByItsId(toClient)' /\ Writes({Passed(line)})
      /\ Told' \subseteq Told \cup (IF line.kind = "request" THEN {} ELSE {line.of})
  BY <1>1, <1>3, <1>4, <1>5, <1>6, WritesClient
<1>8. Running
  BY <1>2 DEF FlowInv, PumpsStop
<1>9. Streams' /\ PumpsStop'
  BY <1>2, <1>3, <1>7, <1>8, BesideServerPump DEF Streams, PumpsStop
<1>10. line.of \notin Calls
  <2>1. CASE line.kind = "request"
    BY <1>3, <2>1, ProxyAssumption DEF WellAddressed, Requests
  <2>2. CASE line.kind # "request"
    <3>1. line.kind = "response" /\ line.of \in Replied /\ line.id = Id[line.of]
      BY <1>3, <2>2 DEF WellAddressed, ServerLines
    <3> QED
      BY <1>1, <3>1 DEF IsAnswer, FlowInv, Remembered
  <2> QED
    BY <2>1, <2>2
<1>11. CASE line.kind = "request"
  <2>1. Within({}, {}, {}, {}, {}, {})
    BY <1>2, <1>3, <1>7, <1>11, BesideServerPump DEF Within
  <2> QED
    BY <1>2, <1>3, <1>4, <1>7, <1>8, <1>9, <1>10, <2>1, BesideServerPump DEF Relays
<1>12. CASE line.kind # "request"
  <2>1. Within({}, {}, {}, {}, {}, {line.of})
    BY <1>2, <1>3, <1>7, <1>12, BesideServerPump DEF Within
  <2> QED
    BY <1>2, <1>3, <1>4, <1>7, <1>8, <1>9, <1>10, <1>12, <2>1, BesideServerPump DEF Relays
<1> QED
  BY <1>11, <1>12

\* An entry of _pending carries the decision on its call.
LEMMA PendingOf ==
    ASSUME NEW entry \in PendingCalls
    PROVE  /\ entry.call \in Calls
           /\ entry.rule_id = Decision[entry.call].rule_id
           /\ entry.decision = Decision[entry.call].action
<1>1. PICK c \in Calls, approver \in Approvers : entry = PendingCall(c, approver)
  BY DEF PendingCalls
<1>2. /\ PendingCall(c, approver).call = c
      /\ PendingCall(c, approver).rule_id = Decision[c].rule_id
      /\ PendingCall(c, approver).decision = Decision[c].action
  BY DEF PendingCall
<1> QED
  BY <1>1, <1>2

\* The entry that is popped is that of the call the line answers.
LEMMA AnswersItsCall ==
    ASSUME FlowInv, NEW line \in RangeOf(fromServer), IsAnswer(line)
    PROVE  /\ line.of \in Calls \cap Replied /\ line.id = Id[line.of]
           /\ line.kind = "response"
           /\ pending[line.id] \in PendingCalls /\ pending[line.id].call = line.of
<1>1. line.kind = "response" /\ pending[line.id] # None
  BY DEF IsAnswer
<1>2. line.of \in Requests /\ line.id = Id[line.of] /\ line.id # NoId
  BY <1>1 DEF FlowInv, Streams, ByItsId
<1>3. line.of \in Replied
  BY <1>1 DEF Replied, AnswersIn
<1>4. line.of \in outstanding
  BY <1>3 DEF FlowInv, IdsApart
<1>5. line.id \in Ids
  BY <1>2, ProxyAssumption
<1>6. Id[pending[line.id].call] = line.id /\ pending[line.id].call \in outstanding
  BY <1>1, <1>5 DEF FlowInv, Remembered
<1>7. pending[line.id].call = line.of
  BY <1>2, <1>4, <1>6 DEF FlowInv, IdsApart
<1>8. pending[line.id] \in PendingCalls
  BY <1>1, <1>5, FlowTypes
<1>9. pending[line.id].call \in Calls
  BY <1>8, PendingOf
<1>10. line.of \in Calls
  BY <1>7, <1>9
<1> QED
  BY <1>1, <1>2, <1>3, <1>7, <1>8, <1>10

LEMMA RecordAnswerEffect ==
    ASSUME FlowInv, RecordAnswer
    PROVE  Streams' /\ PumpsStop' /\ \E c \in Calls : Records(c)
<1>1. PICK line \in RangeOf(fromServer) :
          /\ ServerLine(line) /\ IsAnswer(line)
          /\ pending' = [pending EXCEPT ![line.id] = None]
          /\ LET body == AnsweredBody(pending[line.id], line.of) IN
             \/ Chain!append(Proxy, body) /\ _write_client(Passed(line))
             \/ /\ \E extent \in Raised : Chain!append_raises(Proxy, body, extent)
                /\ UNCHANGED toClient
             \/ UNCHANGED <<toClient, lines>>
  BY DEF RecordAnswer, Pop, AppendFails, chainVars
<1>2. UNCHANGED besideServerPump /\ serverPump = "read"
  BY <1>1 DEF RecordAnswer, ServerLine
<1>3. /\ Passed(line) \in ClientLines /\ WellAddressed(line)
      /\ OnceAnswered(fromServer)' /\ ByItsId(fromServer)' /\ Replied' \subseteq Replied
      /\ line.kind # "request" => line.of \notin Replied'
  BY <1>1, TakesFromServer
<1> DEFINE c == line.of
           body == AnsweredBody(pending[Id[c]], c)
<1>4. /\ c \in Calls \cap Replied /\ line.id = Id[c] /\ line.kind = "response"
  BY <1>1, AnswersItsCall
<1>5. Passed(line) = [kind |-> "response", id |-> Id[c], of |-> c]
  BY <1>4 DEF Passed
<1>6. WellAddressed(Passed(line)) /\ Passed(line).kind # "request" /\ Passed(line).of = c
  BY <1>3, <1>4 DEF WellAddressed, Passed
<1>7. Running
  BY <1>2 DEF FlowInv, PumpsStop
<1>8. PumpsStop'
  BY <1>7, <1>2, BesideServerPump DEF PumpsStop
<1>9. c \notin Told
  BY <1>4 DEF FlowInv, Apart
<1>10. CASE Chain!append(Proxy, body) /\ _write_client(Passed(line))
  <2>1. /\ OnceAnswered(toClient)' /\ ByItsId(toClient)' /\ Writes({Passed(line)})
        /\ Told' \subseteq Told \cup {c}
    BY <1>3, <1>6, <1>9, <1>10, WritesClient
  <2>2. Streams'
    BY <1>2, <1>3, <2>1, BesideServerPump DEF Streams
  <2>3. Within({}, {}, {}, {}, {}, {c})
    BY <1>2, <1>3, <2>1, BesideServerPump DEF Within
  <2>4. Records(c)
    BY <1>1, <1>2, <1>3, <1>4, <1>5, <1>7, <1>10, <2>1, <2>3, BesideServerPump DEF Records
  <2> QED
    BY <1>4, <1>8, <2>2, <2>4
<1>11. CASE /\ UNCHANGED toClient
            /\ \/ \E extent \in Raised : Chain!append_raises(Proxy, body, extent)
               \/ UNCHANGED lines
  <2>1. Streams'
    BY <1>2, <1>3, <1>11, BesideServerPump, Untouched DEF Streams
  <2>2. Within({}, {}, {}, {}, {}, {}) /\ Writes({})
    BY <1>2, <1>3, <1>11, BesideServerPump, Untouched DEF Within, Writes
  <2>3. Records(c)
    BY <1>1, <1>2, <1>3, <1>4, <1>7, <1>11, <2>2, BesideServerPump DEF Records
  <2> QED
    BY <1>4, <1>8, <2>1, <2>3
<1> QED
  BY <1>1, <1>4, <1>10, <1>11

LEMMA ServerLineFailsEffect ==
    ASSUME FlowInv, ServerLineFails
    PROVE  Streams' /\ PumpsStop' /\ Loses
<1>1. PICK line \in RangeOf(fromServer) : ServerLine(line)
  BY DEF ServerLineFails
<1>2. UNCHANGED besideServerPump /\ UNCHANGED <<toClient, pending, lines>>
  BY DEF ServerLineFails, chainVars
<1>3. serverPump' = "done"
  BY DEF ServerLineFails
<1>4. OnceAnswered(fromServer)' /\ ByItsId(fromServer)' /\ Replied' \subseteq Replied
  BY <1>1, TakesFromServer
<1>5. Streams'
  BY <1>2, <1>4, BesideServerPump, Untouched DEF Streams
<1>6. Within({}, {}, {}, {}, {}, {}) /\ Writes({})
  BY <1>2, <1>4, BesideServerPump, Untouched DEF Within, Writes
<1>7. PumpsStop' /\ (Running' => Running)
  BY <1>1, <1>2, BesideServerPump DEF ServerLine, FlowInv, PumpsStop
<1> QED
  BY <1>2, <1>5, <1>6, <1>7, BesideServerPump DEF Loses

LEMMA ServerPumpRestsEffect ==
    ASSUME FlowInv, ServerEOF \/ ServerPumpDrained
    PROVE  Streams' /\ PumpsStop' /\ Loses
<1>1. /\ serverPump # "done" /\ UNCHANGED besideServerPump
      /\ UNCHANGED <<fromServer, toClient, pending, lines>>
  BY DEF ServerEOF, ServerPumpDrained, Drained, chainVars
<1>2. Streams'
  BY <1>1, BesideServerPump, Untouched DEF Streams
<1>3. Within({}, {}, {}, {}, {}, {}) /\ Writes({})
  BY <1>1, BesideServerPump, Untouched DEF Within, Writes
<1>4. PumpsStop' /\ (Running' => Running)
  BY <1>1, BesideServerPump DEF FlowInv, PumpsStop
<1> QED
  BY <1>1, <1>2, <1>3, <1>4, BesideServerPump DEF Loses

-----------------------------------------------------------------------------
(* Effects: run(), the process, the prompt. *)

LEMMA StartEffect ==
    ASSUME FlowInv, Start
    PROVE  Streams' /\ PumpsStop' /\ Starts
<1>1. /\ fromClient' = <<>> /\ toServer' = <<>> /\ fromServer' = <<>> /\ toClient' = <<>>
      /\ outstanding' = {} /\ executing' = {} /\ clientPump' = "read"
      /\ main' = "waiting" /\ pending' = [i \in Ids |-> None]
      /\ UNCHANGED <<sent, answered, executed, lines>>
  BY DEF Start, OpenLog, Chain!Open
<1>2. Streams'
  BY <1>1, Emptied DEF Streams
<1>3. InHand' = {}
  BY <1>1 DEF InHand
<1>4. PumpsStop'
  BY <1>1 DEF PumpsStop, Running
<1> QED
  BY <1>1, <1>2, <1>3, <1>4, Emptied DEF Starts, NotYet

LEMMA RunEffect ==
    ASSUME FlowInv, Run
    PROVE  Streams' /\ PumpsStop' /\ Loses
<1>1. /\ UNCHANGED <<sent, outstanding, answered, streams, executing, executed, pending,
                     lines, asking>>
      /\ \/ UNCHANGED <<clientPump, serverPump>>
         \/ clientPump' = "done" /\ serverPump' = "done"
      /\ Running
  BY DEF Run, CloseStdin, Terminate, Exit, outsideVars, clientVars, serverVars, memory,
         chainVars, promptVars, Chain!Close, Running
<1>2. InHand' \subseteq InHand
  BY <1>1 DEF InHand
<1>3. Streams' /\ Within({}, {}, {}, {}, {}, {}) /\ Writes({})
  BY <1>1, <1>2, QuietEffect
<1>4. PumpsStop'
  BY DEF Run, CloseStdin, Terminate, Exit, PumpsStop, Running
<1> QED
  BY <1>1, <1>3, <1>4 DEF Loses

\* The receipts a crash may interrupt are those of the call in hand, of the
\* denied call that is read or of the answer that is read.
LEMMA NextBodiesOf ==
    ASSUME FlowInv, NEW body \in NextBodies
    PROVE  \E c \in Calls :
              \/ /\ c \in Unread \cup InHand /\ Decision[c].action # "allow"
                 /\ \E approver \in Approvers : body = BlockedBody(c, approver)
              \/ c \in Replied /\ body = AnsweredBody(pending[Id[c]], c)
<1>1. CASE \E c \in Calls : /\ Reading /\ c = Head(fromClient) /\ Decision[c].action = "deny"
                            /\ body = BlockedBody(c, NoApprover)
  <2>1. fromClient \in Seq(Requests)
    BY FlowTypes
  <2>2. Head(fromClient) \in Unread
    BY <1>1, <2>1, TailRange DEF Reading, Unread
  <2>3. NoApprover \in Approvers
    BY DEF Approvers
  <2> QED
    BY <1>1, <2>2, <2>3
<1>2. CASE \E c \in Calls : /\ clientPump = "approval" /\ c = asking /\ result # None
                            /\ body = BlockedBody(c, result)
  <2>1. asking \in InHand /\ asking \in Calls /\ Decision[asking].action = "approve"
    BY <1>2 DEF InHand, FlowInv, Gate
  <2>2. result \in Approvers
    BY <1>2, ApprovalResultType DEF FlowInv, TypeOK
  <2> QED
    BY <1>2, <2>1, <2>2
<1>3. CASE \E line \in RangeOf(fromServer) :
              IsAnswer(line) /\ body = AnsweredBody(pending[line.id], line.of)
  BY <1>3, AnswersItsCall
<1> QED
  BY <1>1, <1>2, <1>3 DEF NextBodies

LEMMA CrashEffect ==
    ASSUME FlowInv, Crash
    PROVE  /\ Streams' /\ PumpsStop'
           /\ Loses \/ \E c \in Calls, body \in Bodies : Dies(c, body)
<1>1. /\ UNCHANGED <<sent, outstanding, answered, streams, executing, executed, pending>>
      /\ Running /\ main' = "crashed" /\ clientPump' = "done" /\ serverPump' = "done"
  BY DEF Crash, serverVars
<1>2. InHand' \subseteq InHand
  BY <1>1 DEF InHand
<1>3. Streams' /\ Within({}, {}, {}, {}, {}, {}) /\ Writes({})
  BY <1>1, <1>2, QuietEffect
<1>4. PumpsStop' /\ ~Running'
  BY <1>1 DEF PumpsStop, Running
<1>5. CASE Chain!Close(Proxy)
  <2>1. UNCHANGED lines
    BY <1>5 DEF Chain!Close
  <2> QED
    BY <1>1, <1>3, <1>4, <2>1 DEF Loses
<1>6. CASE \E body \in NextBodies, extent \in Torn : Chain!append_dies(Proxy, body, extent)
  <2>1. PICK body \in NextBodies :
            \E extent \in Torn : Chain!append_dies(Proxy, body, extent)
    BY <1>6
  <2>2. PICK c \in Calls :
            \/ /\ c \in Unread \cup InHand /\ Decision[c].action # "allow"
               /\ \E approver \in Approvers : body = BlockedBody(c, approver)
            \/ c \in Replied /\ body = AnsweredBody(pending[Id[c]], c)
    BY NextBodiesOf
  <2>3. body \in Bodies
    BY NextBodiesType DEF FlowInv
  <2>4. Dies(c, body)
    BY <1>1, <1>3, <1>4, <2>1, <2>2 DEF Dies
  <2> QED
    BY <1>3, <1>4, <2>3, <2>4
<1> QED
  BY <1>5, <1>6 DEF Crash

LEMMA PromptEffect ==
    ASSUME FlowInv, PromptThread \/ Human \/ UNCHANGED vars
    PROVE  Streams' /\ PumpsStop' /\ Loses
<1>1. UNCHANGED <<sent, outstanding, answered, streams, executing, executed, pending,
                  lines, asking, main, clientPump, serverPump>>
  BY DEF PromptThread, Human, Prompt!ReadAnswer, Prompt!PromptTimeout, Prompt!Type, vars,
         outsideVars, clientVars, serverVars, chainVars, proxyVars, memory, promptVars
<1>2. InHand' \subseteq InHand
  BY <1>1 DEF InHand
<1>3. Streams' /\ Within({}, {}, {}, {}, {}, {}) /\ Writes({})
  BY <1>1, <1>2, QuietEffect
<1>4. PumpsStop' /\ (Running' => Running)
  BY <1>1 DEF FlowInv, PumpsStop, Running
<1> QED
  BY <1>1, <1>3, <1>4 DEF Loses

\* Every step is one of the moves.
LEMMA Effects == FlowInv /\ [Next]_vars => Streams' /\ PumpsStop' /\ Move
<1> SUFFICES ASSUME FlowInv, [Next]_vars PROVE Streams' /\ PumpsStop' /\ Move
  OBVIOUS
<1> USE DEF Move
<1>1. CASE PassThrough \/ ClientLineFails \/ ApprovalReturns \/ ApprovalRaises
           \/ DrainServer \/ ClientPumpDrained \/ ClientEOF
  <2>1. Calls \subseteq Requests
    BY DEF Requests
  <2> QED
    BY <1>1, <2>1, PassThroughEffect, ClientLineFailsEffect, ApprovalReturnsEffect,
       ApprovalRaisesEffect, ClientPumpRestsEffect
<1>2. ASSUME NEW c \in Calls, AllowCall(c) \/ DenyCall(c) \/ AskApproval(c)
      PROVE  Streams' /\ PumpsStop' /\ Move
  <2>1. c \in Requests /\ NoApprover \in Approvers
    BY DEF Requests, Approvers
  <2> QED
    BY <1>2, <2>1, AllowCallEffect, DenyCallEffect, AskApprovalEffect
<1>3. CASE ServerPumpStep
  BY <1>3, RelayLineEffect, RecordAnswerEffect, ServerLineFailsEffect, ServerPumpRestsEffect
     DEF ServerPumpStep
<1>4. CASE Run \/ Start \/ Crash
  BY <1>4, RunEffect, StartEffect, CrashEffect
<1>5. CASE \/ \E m \in Requests : ClientSend(m)
           \/ ClientReceive \/ ClientClose
  BY <1>5, ClientSendEffect, ClientReceiveEffect, ClientCloseEffect
<1>6. CASE ServerReceive \/ Respond \/ ServerExit \/ \E i \in Ids : ServerRequest(i)
  <2>1. executing \subseteq Requests
    BY FlowTypes
  <2> QED
    BY <1>6, <2>1, ServerReceiveEffect, ServerRespondEffect, ServerExitEffect,
       ServerRequestEffect DEF Respond
<1>7. CASE PromptThread \/ Human \/ UNCHANGED vars
  BY <1>7, PromptEffect
<1> QED
  BY <1>1, <1>2, <1>3, <1>4, <1>5, <1>6, <1>7 DEF Next, ClientPumpStep

-----------------------------------------------------------------------------
(* Flow: the moves keep the invariants. *)

Flow == Apart /\ IdsApart /\ Remembered /\ Gate

\* An entry of _pending is that of a call.
LEMMA PendingEntries ==
    ASSUME FlowInv, NEW i \in Ids, pending[i] # None
    PROVE  pending[i].call \in Calls
<1>1. pending[i] \in PendingCalls
  BY FlowTypes
<1> QED
  BY <1>1, PendingOf

\* A step that moves no request and forgets none
LEMMA LosesFlow ==
    ASSUME FlowInv, Within({}, {}, {}, {}, {}, {}),
           UNCHANGED <<sent, outstanding, executed, pending>>
    PROVE  Flow'
<1> USE DEF FlowInv, Within, NotYet
<1>1. Apart'
  BY DEF Apart
<1>2. IdsApart'
  BY DEF IdsApart
<1>3. Remembered'
  BY DEF Remembered
<1>4. Gate'
  BY DEF Gate
<1> QED
  BY <1>1, <1>2, <1>3, <1>4 DEF Flow

LEMMA SendsFlow ==
    ASSUME FlowInv, NEW m \in Requests, Sends(m)
    PROVE  Flow'
<1> USE DEF FlowInv, Within, NotYet, Sends
<1>1. m \notin outstanding /\ m \notin executed
  BY DEF IdsApart
<1>2. Apart'
  BY <1>1 DEF Apart, IdsApart
<1>3. IdsApart'
  BY <1>1 DEF IdsApart
<1>4. Remembered'
  BY <1>1 DEF Remembered
<1>5. Gate'
  BY DEF Gate
<1> QED
  BY <1>2, <1>3, <1>4, <1>5 DEF Flow

LEMMA AsksFlow ==
    ASSUME FlowInv, NEW c \in Calls, Asks(c)
    PROVE  Flow'
<1> USE DEF FlowInv, Within, NotYet, Asks
<1>1. Apart'
  BY DEF Apart
<1>2. IdsApart'
  BY DEF IdsApart
<1>3. Remembered'
  BY DEF Remembered
<1>4. Gate'
  BY DEF Gate
<1> QED
  BY <1>1, <1>2, <1>3, <1>4 DEF Flow

LEMMA ForwardsFlow ==
    ASSUME FlowInv, NEW m \in Requests, Forwards(m)
    PROVE  Flow'
<1> USE DEF FlowInv, Within, NotYet
<1>1. /\ m \in Unread \cup InHand /\ m \notin Unread' \cup InHand'
      /\ Within({}, {}, {m}, {}, {}, {})
      /\ UNCHANGED <<sent, outstanding, executed>>
  BY DEF Forwards, Leaves
<1>2. m \in outstanding /\ m \notin Told
  BY <1>1 DEF IdsApart, Apart
<1>3. Apart'
  BY <1>1 DEF Apart
<1>4. IdsApart'
  BY <1>1, <1>2 DEF IdsApart
<1>5. Gate'
  BY <1>1 DEF Gate, Forwards
<1>6. CASE m \notin Calls
  <2>1. UNCHANGED pending
    BY <1>6 DEF Forwards
  <2> QED
    BY <1>1, <1>3, <1>4, <1>5, <1>6, <2>1 DEF Flow, Remembered
<1>7. CASE m \in Calls
  <2>1. PICK approver \in Approvers :
            pending' = [pending EXCEPT ![Id[m]] = PendingCall(m, approver)]
    BY <1>7 DEF Forwards
  <2>2. /\ pending \in [Ids -> PendingCalls \cup {None}]
        /\ Id[m] \in Ids /\ Id[m] # NoId /\ \A c \in Calls : Id[c] \in Ids /\ Id[c] # NoId
    BY <1>7, FlowTypes, ProxyAssumption
  <2>3. PendingCall(m, approver) # None /\ PendingCall(m, approver).call = m
    <3>1. PendingCall(m, approver) \in PendingCalls
      BY <1>7, PendingType
    <3> QED
      BY <3>1, ProxyAssumption DEF PendingCall
  <2>4. pending'[Id[m]] # None /\ pending'[Id[m]].call = m
    BY <2>1, <2>2, <2>3
  <2>5. \A i \in Ids : i # Id[m] => pending'[i] = pending[i]
    BY <2>1, <2>2
  <2>6. ASSUME NEW i \in Ids, pending'[i] # None
        PROVE  /\ Id[pending'[i].call] = i
               /\ pending'[i].call \in outstanding' \ (Unread' \cup InHand' \cup Told')
    BY <1>1, <1>2, <2>4, <2>5, <2>6 DEF Remembered
  <2>7. ASSUME NEW c \in Calls, c \in Piped' \cup executing' \cup Replied'
        PROVE  pending'[Id[c]] # None /\ pending'[Id[c]].call = c
    <3>1. CASE c = m
      BY <2>4, <3>1
    <3>2. CASE c # m
      <4>1. c \in Piped \cup executing \cup Replied
        BY <1>1, <2>7, <3>2
      <4>2. Id[c] # Id[m]
        BY <1>2, <2>2, <3>2, <4>1 DEF IdsApart
      <4> QED
        BY <2>2, <2>5, <4>1, <4>2 DEF Remembered
    <3> QED
      BY <3>1, <3>2
  <2>8. Remembered'
    BY <2>6, <2>7 DEF Remembered
  <2> QED
    BY <1>3, <1>4, <1>5, <2>8 DEF Flow
<1> QED
  BY <1>6, <1>7

LEMMA BlocksFlow ==
    ASSUME FlowInv, NEW c \in Calls, NEW approver \in Approvers, Blocks(c, approver)
    PROVE  Flow'
<1> USE DEF FlowInv, Within, NotYet
<1>1. /\ c \in Unread \cup InHand /\ c \notin Unread' \cup InHand'
      /\ Within({}, {}, {}, {}, {}, {c})
      /\ UNCHANGED <<sent, outstanding, executed, pending>>
  BY DEF Blocks, Leaves
<1>2. Apart'
  BY <1>1 DEF Apart
<1>3. IdsApart'
  BY <1>1 DEF IdsApart
<1>4. Remembered'
  BY <1>1 DEF Remembered
<1>5. Gate'
  BY <1>1 DEF Gate
<1> QED
  BY <1>2, <1>3, <1>4, <1>5 DEF Flow

LEMMA ExecutesFlow ==
    ASSUME FlowInv, NEW m \in Requests, Executes(m)
    PROVE  Flow'
<1> USE DEF FlowInv, Within, NotYet, Executes
<1>1. Apart'
  BY DEF Apart
<1>2. IdsApart'
  BY DEF IdsApart
<1>3. Remembered'
  BY DEF Remembered
<1>4. Gate'
  BY DEF Gate
<1> QED
  BY <1>1, <1>2, <1>3, <1>4 DEF Flow

LEMMA RespondsFlow ==
    ASSUME FlowInv, NEW m \in Requests, Responds(m)
    PROVE  Flow'
<1> USE DEF FlowInv, Within, NotYet, Responds
<1>1. Apart'
  BY DEF Apart
<1>2. IdsApart'
  BY DEF IdsApart
<1>3. Remembered'
  BY DEF Remembered
<1>4. Gate'
  BY DEF Gate
<1> QED
  BY <1>1, <1>2, <1>3, <1>4 DEF Flow

LEMMA RelaysFlow ==
    ASSUME FlowInv, NEW line \in ClientLines, Relays(line)
    PROVE  Flow'
<1> USE DEF FlowInv, Within, NotYet
<1>1. CASE Within({}, {}, {}, {}, {}, {})
  BY <1>1, LosesFlow DEF Relays
<1>2. CASE /\ line.of \in Replied /\ line.of \notin Replied'
           /\ Within({}, {}, {}, {}, {}, {line.of})
  <2>1. line.of \notin Calls /\ UNCHANGED <<sent, outstanding, executed, pending>>
    BY DEF Relays
  <2>2. Apart'
    BY <1>2, <2>1 DEF Apart
  <2>3. IdsApart'
    BY <1>2, <2>1 DEF IdsApart
  <2>4. Remembered'
    BY <1>2, <2>1, PendingEntries DEF Remembered
  <2>5. Gate'
    BY <1>2, <2>1 DEF Gate
  <2> QED
    BY <2>2, <2>3, <2>4, <2>5 DEF Flow
<1> QED
  BY <1>1, <1>2 DEF Relays

LEMMA RecordsFlow ==
    ASSUME FlowInv, NEW c \in Calls, Records(c)
    PROVE  Flow'
<1> USE DEF FlowInv, Within, NotYet
<1>1. /\ c \in Replied /\ c \notin Replied'
      /\ pending' = [pending EXCEPT ![Id[c]] = None]
      /\ Within({}, {}, {}, {}, {}, {c})
      /\ UNCHANGED <<sent, outstanding, executed>>
  BY DEF Records
<1>2. c \in outstanding
  BY <1>1 DEF IdsApart
<1>3. /\ pending \in [Ids -> PendingCalls \cup {None}]
      /\ \A d \in Calls : Id[d] \in Ids /\ Id[d] # NoId
  BY FlowTypes, ProxyAssumption
<1>4. pending'[Id[c]] = None /\ \A i \in Ids : i # Id[c] => pending'[i] = pending[i]
  BY <1>1, <1>3
<1>5. Apart'
  BY <1>1 DEF Apart
<1>6. IdsApart'
  BY <1>1 DEF IdsApart
<1>7. Gate'
  BY <1>1 DEF Gate
<1>8. ASSUME NEW i \in Ids, pending'[i] # None
      PROVE  /\ Id[pending'[i].call] = i
             /\ pending'[i].call \in outstanding' \ (Unread' \cup InHand' \cup Told')
  <2>1. i # Id[c] /\ pending'[i] = pending[i]
    BY <1>4, <1>8
  <2> QED
    BY <1>1, <1>8, <2>1 DEF Remembered
<1>9. ASSUME NEW d \in Calls, d \in Piped' \cup executing' \cup Replied'
      PROVE  pending'[Id[d]] # None /\ pending'[Id[d]].call = d
  <2>1. d \in Piped \cup executing \cup Replied /\ (c = d => d \in Piped \cup executing)
    BY <1>1, <1>9
  <2>2. d # c
    BY <1>1, <2>1 DEF Apart
  <2>3. Id[d] # Id[c]
    BY <1>2, <1>3, <2>1, <2>2 DEF IdsApart
  <2> QED
    BY <1>3, <1>4, <2>1, <2>3 DEF Remembered
<1>10. Remembered'
  BY <1>8, <1>9 DEF Remembered
<1> QED
  BY <1>5, <1>6, <1>7, <1>10 DEF Flow

LEMMA HearsFlow ==
    ASSUME FlowInv, NEW m \in Requests, Hears(m)
    PROVE  Flow'
<1> USE DEF FlowInv, Within, NotYet
<1>1. /\ m \notin Told' /\ outstanding' = outstanding \ {m}
      /\ Within({}, {}, {}, {}, {}, {})
      /\ UNCHANGED <<sent, executed, pending>>
  BY DEF Hears
<1>2. m \in Told
  BY DEF Hears, Told, AnswersIn
<1>3. Apart'
  BY <1>1 DEF Apart
<1>4. IdsApart'
  BY <1>1, <1>2 DEF IdsApart, Apart
<1>5. Remembered'
  BY <1>1, <1>2 DEF Remembered
<1>6. Gate'
  BY <1>1 DEF Gate
<1> QED
  BY <1>3, <1>4, <1>5, <1>6 DEF Flow

LEMMA StartsFlow ==
    ASSUME FlowInv, Starts
    PROVE  Flow'
<1> USE DEF FlowInv, NotYet, Starts
<1>1. Apart'
  BY DEF Apart
<1>2. IdsApart'
  BY DEF IdsApart
<1>3. Remembered'
  BY DEF Remembered
<1>4. Gate'
  BY DEF Gate
<1> QED
  BY <1>1, <1>2, <1>3, <1>4 DEF Flow

LEMMA MoveFlow == FlowInv /\ Move => Flow'
<1> SUFFICES ASSUME FlowInv, Move PROVE Flow'
  OBVIOUS
<1>1. CASE Loses \/ \E c \in Calls, body \in Bodies : Dies(c, body)
  BY <1>1, LosesFlow DEF Loses, Dies
<1>2. CASE Starts
  BY <1>2, StartsFlow
<1>3. CASE \E m \in Requests :
              Sends(m) \/ Forwards(m) \/ Executes(m) \/ Responds(m) \/ Hears(m)
  BY <1>3, SendsFlow, ForwardsFlow, ExecutesFlow, RespondsFlow, HearsFlow
<1>4. CASE \E line \in ClientLines : Relays(line)
  BY <1>4, RelaysFlow
<1>5. CASE \E c \in Calls : \/ Asks(c) \/ Records(c)
                            \/ \E approver \in Approvers : Blocks(c, approver)
  BY <1>5, AsksFlow, RecordsFlow, BlocksFlow
<1> QED
  BY <1>1, <1>2, <1>3, <1>4, <1>5 DEF Move

LEMMA FlowInv_Init == Init => FlowInv
<1> SUFFICES ASSUME Init PROVE FlowInv
  OBVIOUS
<1>1. TypeOK
  BY TypeOK_Init
<1>2. /\ fromClient = <<>> /\ toServer = <<>> /\ fromServer = <<>> /\ toClient = <<>>
      /\ outstanding = {} /\ executing = {} /\ executed = {}
      /\ main = "down" /\ clientPump = "done" /\ serverPump = "done"
      /\ pending = [i \in Ids |-> None]
  BY DEF Init
<1>3. Streams
  BY <1>2 DEF Streams, Once, OnceAnswered, ByItsId, RangeOf
<1>4. Unread = {} /\ InHand = {} /\ Piped = {} /\ Replied = {} /\ Told = {}
  BY <1>2 DEF Unread, InHand, Piped, Replied, Told, AnswersIn, RangeOf
<1>5. Apart /\ IdsApart
  BY <1>2, <1>4 DEF Apart, IdsApart, NotYet
<1>6. Remembered /\ PumpsStop /\ Gate
  BY <1>2, <1>4 DEF Remembered, PumpsStop, Gate
<1> QED
  BY <1>1, <1>3, <1>5, <1>6 DEF FlowInv

LEMMA FlowInv_Next == FlowInv /\ [Next]_vars => FlowInv'
BY Effects, MoveFlow, TypeOK_Next DEF FlowInv, Flow

LEMMA FlowInv_Always == Spec => []FlowInv
BY FlowInv_Init, FlowInv_Next, PTL DEF Spec

-----------------------------------------------------------------------------
(* The theorems of the flow. *)

\* Whatever the interleaving, every call on its way to the server, in it or
\* on its way back is the one remembered under its id, so that its answer
\* will be receipted (proxy.py:130-136,149-158).
THEOREM InFlightRemembered == Spec => []InFlightIsPending
<1>1. FlowInv => InFlightIsPending
  <2> SUFFICES ASSUME FlowInv, NEW c \in Calls,
                      c \in Piped \cup executing \cup {l.of : l \in RangeOf(fromServer)}
               PROVE  pending[Id[c]] # None /\ pending[Id[c]].call = c
    BY DEF InFlightIsPending, Piped
  <2>1. CASE c \in Piped \cup executing
    BY <2>1 DEF FlowInv, Remembered
  <2>2. CASE \E l \in RangeOf(fromServer) : l.of = c
    <3>1. PICK l \in RangeOf(fromServer) : l.of = c
      BY <2>2
    <3>2. l \in ServerLines
      BY FlowTypes DEF RangeOf
    <3>3. c # None
      BY ProxyAssumption DEF Requests
    <3>4. l.kind # "request"
      BY <3>1, <3>2, <3>3 DEF ServerLines
    <3>5. c \in Replied
      BY <3>1, <3>4 DEF Replied, AnswersIn
    <3> QED
      BY <3>5 DEF FlowInv, Remembered
  <2> QED
    BY <2>1, <2>2
<1> QED
  BY <1>1, FlowInv_Always, PTL

\* No entry of _pending is overwritten by another call's while its own
\* answer is still to come (proxy.py:130,149): ids of outstanding calls
\* differ, and only outstanding calls are remembered.
THEOREM EntriesNotOverwritten == Spec => PendingNotOverwritten
<1>1. FlowInv /\ [Next]_vars =>
          [\A i \in Ids : pending[i] # None /\ pending'[i] # pending[i]
              => pending'[i] = None]_vars
  <2> SUFFICES ASSUME FlowInv, [Next]_vars, NEW i \in Ids,
                      pending[i] # None, pending'[i] # pending[i]
               PROVE  pending'[i] = None
    OBVIOUS
  <2>1. Move
    BY Effects
  <2>2. pending \in [Ids -> PendingCalls \cup {None}]
    BY FlowTypes
  <2>3. CASE Starts
    BY <2>3 DEF Starts
  <2>4. ASSUME NEW c \in Calls, Records(c) PROVE pending'[i] = None
    BY <2>2, <2>4 DEF Records
  <2>5. ASSUME NEW m \in Requests, Forwards(m) PROVE pending'[i] = None
    <3>1. m \in Calls /\ i = Id[m]
      BY <2>2, <2>5 DEF Forwards
    <3>2. m \in (Unread \cup InHand) \cap outstanding
      BY <2>5 DEF Forwards, Leaves, FlowInv, IdsApart, NotYet
    <3>3. Id[pending[i].call] = i /\ pending[i].call \in outstanding \ (Unread \cup InHand)
      BY DEF FlowInv, Remembered
    <3>4. i # NoId
      BY ProxyAssumption
    <3> QED
      BY <3>1, <3>2, <3>3, <3>4 DEF FlowInv, IdsApart
  <2>6. CASE UNCHANGED pending
    BY <2>6
  <2> QED
    BY <2>1, <2>3, <2>4, <2>5, <2>6 DEF Move, Loses, Sends, Asks, Blocks, Executes,
       Responds, Relays, Hears, Dies
<1> QED
  BY <1>1, FlowInv_Always, PTL DEF Spec, PendingNotOverwritten

-----------------------------------------------------------------------------
(* The log: what a step may add to it. *)

Receipted == {r.body.call : r \in Log}

\* What ReceiptsFaithful says of a receipt
Faithful(body) ==
    LET c == body.call IN
    /\ body.rule_id = Decision[c].rule_id /\ body.decision = Decision[c].action
    /\ IF body.response = None
          THEN c \notin executed \cup Piped /\ Decision[c].action # "allow"
          ELSE body.response = c /\ c \in executed /\ Decision[c].action # "deny"

\* A receipt is filed of a call the client sent, once nothing of the call is
\* left upstream of the log; while a session runs also not beside it.
Filing ==
    /\ Receipted \subseteq Calls \cap RangeOf(sent)
    /\ Receipted \cap (Piped \cup executing) = {}
    /\ Running => Receipted \cap (Unread \cup InHand \cup Replied) = {}

FilesInv == FlowInv /\ Filing /\ OneReceiptPerCall /\ ReceiptsFaithful

\* At most one receipt is new, the last one, and it says this.
Adds(body) ==
    \A i \in 1 .. Len(lines') : lines'[i] # Garbage =>
        \/ i \in 1 .. Len(lines) /\ lines'[i] = lines[i]
        \/ i = Len(lines) + 1 /\ lines'[i].body = body

LEMMA WriteAdds ==
    ASSUME TypeOK, NEW body, NEW extent,
           Chain!Write(Chain!build_receipt(prev_hash[Proxy], body), extent),
           extent \in Chain!Extents
    PROVE  Adds(body)
<1> DEFINE receipt == Chain!build_receipt(prev_hash[Proxy], body)
<1>1. lines \in Seq(Chain!Receipts \cup {Garbage}) /\ Len(lines) \in Nat
  BY DEF TypeOK, Chain!TypeOK
<1>2. receipt.body = body
  BY DEF Chain!build_receipt
<1>3. ASSUME NEW line, lines' = Chain!Written(line), line = Garbage \/ line = receipt
      PROVE  Adds(body)
  <2>1. CASE ended
    <3>1. lines' = Append(lines, line)
      BY <1>3, <2>1 DEF Chain!Written
    <3>2. /\ Len(lines') = Len(lines) + 1 /\ lines'[Len(lines) + 1] = line
          /\ \A i \in 1 .. Len(lines) : lines'[i] = lines[i]
      BY <1>1, <3>1
    <3>3. 1 .. Len(lines) + 1 = (1 .. Len(lines)) \cup {Len(lines) + 1}
      BY <1>1
    <3> QED
      BY <1>2, <1>3, <3>2, <3>3 DEF Adds
  <2>2. CASE ~ended
    <3>1. lines' = [lines EXCEPT ![Len(lines)] = Garbage]
      BY <1>3, <2>2 DEF Chain!Written
    <3>2. Len(lines') = Len(lines)
      BY <1>1, <3>1
    <3>3. \A i \in 1 .. Len(lines) : lines'[i] = Garbage \/ lines'[i] = lines[i]
      BY <1>1, <3>1
    <3> QED
      BY <3>2, <3>3 DEF Adds
  <2> QED
    BY <2>1, <2>2
<1>4. CASE UNCHANGED lines
  BY <1>4 DEF Adds
<1> QED
  BY <1>3, <1>4 DEF Chain!Write, Chain!Extents

\* An append of this, whole or cut short
Appends(body) ==
    \/ Chain!append(Proxy, body)
    \/ \E extent \in Raised : Chain!append_raises(Proxy, body, extent)
    \/ \E extent \in Torn : Chain!append_dies(Proxy, body, extent)

LEMMA AppendAdds == ASSUME TypeOK, NEW body, Appends(body) PROVE Adds(body)
<1>1. PICK extent \in Chain!Extents :
          Chain!Write(Chain!build_receipt(prev_hash[Proxy], body), extent)
  BY LogAssumption DEF Appends, Chain!append, Chain!append_raises, Chain!append_dies, Chain!Extents
<1> QED
  BY <1>1, WriteAdds

LEMMA AddsToLog ==
    ASSUME TypeOK, NEW body, Adds(body)
    PROVE  /\ \A r \in Log' : r \in Log \/ r.body = body
           /\ Receipted' \subseteq Receipted \cup {body.call}
           /\ OneReceiptPerCall /\ body.call \notin Receipted => OneReceiptPerCall'
<1>1. Len(lines) \in Nat
  BY DEF TypeOK, Chain!TypeOK
<1>2. ASSUME NEW r \in Log' PROVE r \in Log \/ r.body = body
  <2>1. PICK i \in 1 .. Len(lines') : r = lines'[i] /\ lines'[i] # Garbage
    BY <1>2 DEF Log
  <2>2. CASE i \in 1 .. Len(lines) /\ lines'[i] = lines[i]
    BY <2>1, <2>2 DEF Log
  <2>3. CASE lines'[i].body = body
    BY <2>1, <2>3
  <2> QED
    BY <2>1, <2>2, <2>3 DEF Adds
<1>3. Receipted' \subseteq Receipted \cup {body.call}
  BY <1>2 DEF Receipted
<1>4. ASSUME OneReceiptPerCall, body.call \notin Receipted,
             NEW i \in 1 .. Len(lines'), NEW j \in 1 .. Len(lines'),
             lines'[i] # Garbage, lines'[j] # Garbage,
             lines'[i].body.call = lines'[j].body.call
      PROVE  i = j
  <2>1. ASSUME NEW k \in 1 .. Len(lines), lines[k] # Garbage
        PROVE  lines[k].body.call # body.call
    BY <1>4, <2>1 DEF Receipted, Log
  <2>2. \A k \in {i, j} : \/ k \in 1 .. Len(lines) /\ lines'[k] = lines[k]
                          \/ k = Len(lines) + 1 /\ lines'[k].body = body
    BY <1>4 DEF Adds
  <2>3. CASE i \in 1 .. Len(lines) /\ lines'[i] = lines[i]
    <3>1. j \in 1 .. Len(lines) /\ lines'[j] = lines[j]
      BY <1>4, <2>1, <2>2, <2>3
    <3> QED
      BY <1>4, <2>3, <3>1 DEF OneReceiptPerCall
  <2>4. CASE i = Len(lines) + 1 /\ lines'[i].body = body
    BY <1>4, <2>1, <2>2, <2>4
  <2> QED
    BY <2>2, <2>3, <2>4
<1> QED
  BY <1>2, <1>3, <1>4 DEF OneReceiptPerCall

\* Only a call that is read, in hand or answered is filed, truly.
Filable(c, body) ==
    /\ body.call = c /\ c \in Calls \cap RangeOf(sent)
    /\ c \notin Receipted \cup Piped' \cup executing'
    /\ Running' => c \notin Unread' \cup InHand' \cup Replied'
    /\ Faithful(body)'

Files(c) == \E body \in Bodies : Filable(c, body) /\ Appends(body)

LEMMA BlockedFilable ==
    ASSUME FilesInv, Running, NEW c \in Calls, NEW approver \in Approvers,
           c \in Unread \cup InHand, Decision[c].action # "allow",
           Piped' \subseteq Piped, UNCHANGED executed, executing' \subseteq executing,
           Running' => c \notin Unread' \cup InHand' /\ Replied' \subseteq Replied
    PROVE  Filable(c, BlockedBody(c, approver))
<1> DEFINE body == BlockedBody(c, approver)
<1>1. /\ body.call = c /\ body.rule_id = Decision[c].rule_id
      /\ body.decision = Decision[c].action /\ body.response = None
  BY DEF BlockedBody
<1>2. c \in RangeOf(sent)
  BY DEF FilesInv, FlowInv, IdsApart, NotYet
<1>3. c \notin Receipted \cup Piped \cup executing \cup executed \cup Replied
  BY DEF FilesInv, Filing, FlowInv, Apart, NotYet
<1>4. Faithful(body)'
  BY <1>1, <1>3 DEF Faithful
<1> QED
  BY <1>1, <1>2, <1>3, <1>4 DEF Filable

LEMMA AnsweredFilable ==
    ASSUME FilesInv, Running, NEW c \in Calls, c \in Replied,
           NEW body, body = AnsweredBody(pending[Id[c]], c),
           Piped' \subseteq Piped, UNCHANGED executed, executing' \subseteq executing,
           Running' => /\ c \notin Replied'
                       /\ Unread' \subseteq Unread /\ InHand' \subseteq InHand
    PROVE  Filable(c, body) /\ body \in Bodies
<1> DEFINE entry == pending[Id[c]]
<1>1. entry # None /\ entry.call = c
  BY DEF FilesInv, FlowInv, Remembered
<1>2. Id[c] \in Ids /\ c \in Requests /\ c # None
  BY ProxyAssumption DEF Requests
<1>3. entry \in PendingCalls
  BY <1>1, <1>2, FlowTypes DEF FilesInv
<1>4. entry.rule_id = Decision[c].rule_id /\ entry.decision = Decision[c].action
  BY <1>1, <1>3, PendingOf
<1>5. /\ body.call = entry.call /\ body.rule_id = entry.rule_id
      /\ body.decision = entry.decision /\ body.response = c
  BY DEF AnsweredBody
<1>6. c \in executed /\ c \in RangeOf(sent)
  BY DEF FilesInv, FlowInv, Apart, IdsApart
<1>7. c \notin Receipted \cup Piped \cup executing \cup Unread \cup InHand
  BY <1>6 DEF FilesInv, Filing, FlowInv, Apart, NotYet
<1>8. Decision[c].action # "deny"
  BY <1>6 DEF FilesInv, FlowInv, Gate
<1>9. Faithful(body)'
  BY <1>1, <1>2, <1>4, <1>5, <1>6, <1>8 DEF Faithful
<1> QED
  BY <1>1, <1>2, <1>3, <1>5, <1>6, <1>7, <1>9, AnsweredType DEF Filable

\* A step leaves the log alone or files one call.
LEMMA MoveFiles ==
    ASSUME FilesInv, Move
    PROVE  UNCHANGED lines \/ \E c \in Calls : Files(c)
<1>1. TypeOK
  BY DEF FilesInv, FlowInv
<1>2. ASSUME NEW c \in Calls, NEW approver \in Approvers, Blocks(c, approver)
      PROVE  Files(c)
  <2>1. /\ Running /\ c \in Unread \cup InHand /\ c \notin Unread' \cup InHand'
        /\ Decision[c].action # "allow" /\ UNCHANGED executed
        /\ Piped' \subseteq Piped /\ executing' \subseteq executing /\ Replied' \subseteq Replied
    BY <1>2 DEF Blocks, Leaves, Within
  <2>2. Filable(c, BlockedBody(c, approver))
    BY <2>1, BlockedFilable
  <2>3. Appends(BlockedBody(c, approver))
    BY <1>2 DEF Blocks, Appends
  <2> QED
    BY <2>2, <2>3, BlockedType DEF Files
<1>3. ASSUME NEW c \in Calls, Records(c) PROVE UNCHANGED lines \/ Files(c)
  <2>1. /\ Running /\ c \in Replied /\ c \notin Replied' /\ UNCHANGED executed
        /\ Piped' \subseteq Piped /\ executing' \subseteq executing
        /\ Unread' \subseteq Unread /\ InHand' \subseteq InHand
    BY <1>3 DEF Records, Within
  <2> PICK body : body = AnsweredBody(pending[Id[c]], c)
    OBVIOUS
  <2>2. Filable(c, body) /\ body \in Bodies
    BY <2>1, AnsweredFilable
  <2>3. UNCHANGED lines \/ Appends(body)
    BY <1>3 DEF Records, Appends
  <2> QED
    BY <2>2, <2>3 DEF Files
<1>4. ASSUME NEW c \in Calls, NEW body \in Bodies, Dies(c, body) PROVE Files(c)
  <2>1. /\ Running /\ ~Running' /\ UNCHANGED executed
        /\ Piped' \subseteq Piped /\ executing' \subseteq executing
    BY <1>4 DEF Dies, Within
  <2>2. Filable(c, body)
    <3>1. CASE /\ c \in Unread \cup InHand /\ Decision[c].action # "allow"
               /\ \E approver \in Approvers : body = BlockedBody(c, approver)
      BY <2>1, <3>1, BlockedFilable
    <3>2. CASE c \in Replied /\ body = AnsweredBody(pending[Id[c]], c)
      BY <2>1, <3>2, AnsweredFilable
    <3> QED
      BY <1>4, <3>1, <3>2 DEF Dies
  <2>3. Appends(body)
    BY <1>4 DEF Dies, Appends
  <2> QED
    BY <2>2, <2>3 DEF Files
<1>5. CASE UNCHANGED lines
  BY <1>5
<1> QED
  BY <1>2, <1>3, <1>4, <1>5 DEF Move, Loses, Starts, Sends, Forwards, Executes, Responds,
     Hears, Relays, Asks

\* What is filed stays out of the way of the steps.
LEMMA MoveKeepsApartFromFiled ==
    ASSUME FilesInv, Move
    PROVE  /\ RangeOf(sent) \subseteq RangeOf(sent')
           /\ Receipted \cap (Piped' \cup executing') = {}
           /\ Running' => Receipted \cap (Unread' \cup InHand' \cup Replied') = {}
           /\ executed \subseteq executed' /\ Receipted \cap executed' \subseteq executed
<1> USE DEF FilesInv, Filing, Within
<1>1. CASE Loses \/ Starts
  BY <1>1 DEF Loses, Starts, NotYet
<1>2. ASSUME NEW m \in Requests, Sends(m) \/ Hears(m)
      PROVE  /\ RangeOf(sent) \subseteq RangeOf(sent')
             /\ Receipted \cap (Piped' \cup executing') = {}
             /\ Running' => Receipted \cap (Unread' \cup InHand' \cup Replied') = {}
             /\ executed \subseteq executed' /\ Receipted \cap executed' \subseteq executed
  BY <1>2 DEF Sends, Hears
<1>3. ASSUME NEW m \in Requests, Forwards(m)
      PROVE  /\ RangeOf(sent) \subseteq RangeOf(sent')
             /\ Receipted \cap (Piped' \cup executing') = {}
             /\ Running' => Receipted \cap (Unread' \cup InHand' \cup Replied') = {}
             /\ executed \subseteq executed' /\ Receipted \cap executed' \subseteq executed
  BY <1>3 DEF Forwards, Leaves
<1>4. ASSUME NEW m \in Requests, Executes(m) \/ Responds(m)
      PROVE  /\ RangeOf(sent) \subseteq RangeOf(sent')
             /\ Receipted \cap (Piped' \cup executing') = {}
             /\ Running' => Receipted \cap (Unread' \cup InHand' \cup Replied') = {}
             /\ executed \subseteq executed' /\ Receipted \cap executed' \subseteq executed
  BY <1>4 DEF Executes, Responds
<1>5. CASE \/ \E line \in ClientLines : Relays(line)
           \/ \E c \in Calls : \/ Asks(c) \/ Records(c)
                               \/ \E approver \in Approvers : Blocks(c, approver)
                               \/ \E body \in Bodies : Dies(c, body)
  BY <1>5 DEF Relays, Asks, Records, Blocks, Dies
<1> QED
  BY <1>1, <1>2, <1>3, <1>4, <1>5 DEF Move

LEMMA FilesInv_Init == Init => FilesInv
<1> SUFFICES ASSUME Init PROVE FilesInv
  OBVIOUS
<1>1. lines = <<>>
  BY DEF Init, Chain!Init
<1>2. Log = {}
  BY <1>1 DEF Log
<1>3. OneReceiptPerCall
  BY <1>1 DEF OneReceiptPerCall
<1>4. Filing /\ ReceiptsFaithful
  BY <1>2 DEF Filing, Receipted, ReceiptsFaithful
<1> QED
  BY <1>3, <1>4, FlowInv_Init DEF FilesInv

LEMMA FilesInv_Next == FilesInv /\ [Next]_vars => FilesInv'
<1> SUFFICES ASSUME FilesInv, [Next]_vars PROVE FilesInv'
  OBVIOUS
<1>1. FlowInv' /\ Move /\ TypeOK
  BY FlowInv_Next, Effects DEF FilesInv, FlowInv
<1>2. UNCHANGED lines \/ \E c \in Calls : Files(c)
  BY <1>1, MoveFiles
<1>3. /\ RangeOf(sent) \subseteq RangeOf(sent')
      /\ Receipted \cap (Piped' \cup executing') = {}
      /\ Running' => Receipted \cap (Unread' \cup InHand' \cup Replied') = {}
      /\ executed \subseteq executed' /\ Receipted \cap executed' \subseteq executed
  BY <1>1, MoveKeepsApartFromFiled
<1>4. ASSUME NEW r \in Log PROVE Faithful(r.body)'
  <2>1. Faithful(r.body) /\ r.body.call \in Receipted
    BY DEF FilesInv, ReceiptsFaithful, Faithful, Piped, Receipted
  <2> QED
    BY <1>3, <2>1 DEF Faithful
<1>5. ReceiptsFaithful' <=> \A r \in Log' : Faithful(r.body)'
  BY DEF ReceiptsFaithful, Faithful, Piped
<1>6. CASE UNCHANGED lines
  <2>1. UNCHANGED <<Log, Receipted>> /\ OneReceiptPerCall'
    BY <1>6 DEF Log, Receipted, FilesInv, OneReceiptPerCall
  <2>2. Filing'
    BY <1>3, <2>1 DEF Filing, FilesInv
  <2> QED
    BY <1>1, <1>4, <1>5, <2>1, <2>2 DEF FilesInv
<1>7. ASSUME NEW c \in Calls, NEW body \in Bodies, Filable(c, body), Appends(body)
      PROVE  FilesInv'
  <2>1. /\ \A r \in Log' : r \in Log \/ r.body = body
        /\ Receipted' \subseteq Receipted \cup {body.call}
        /\ OneReceiptPerCall /\ body.call \notin Receipted => OneReceiptPerCall'
    BY <1>1, <1>7, AppendAdds, AddsToLog
  <2>2. OneReceiptPerCall'
    BY <1>7, <2>1 DEF FilesInv, Filable
  <2>3. Filing'
    BY <1>3, <1>7, <2>1 DEF Filing, FilesInv, Filable
  <2>4. ReceiptsFaithful'
    BY <1>4, <1>5, <1>7, <2>1 DEF Filable
  <2> QED
    BY <1>1, <2>2, <2>3, <2>4 DEF FilesInv
<1> QED
  BY <1>2, <1>6, <1>7 DEF Files

LEMMA FilesInv_Always == Spec => []FilesInv
BY FilesInv_Init, FilesInv_Next, PTL DEF Spec

\* However ids are reused, answers reordered and appends cut short, a call
\* gets one receipt at most, also across restarts (proxy.py:230).
THEOREM ReceiptedOnce == Spec => []OneReceiptPerCall
BY FilesInv_Always, PTL DEF FilesInv

\* A receipt carries the policy's decision on its own call, the response to
\* that very call, and a null response only if the call never reached the
\* server (SCHEMA.md:41-46; proxy.py:195-245).
THEOREM ReceiptsTellTruth == Spec => []ReceiptsFaithful
BY FilesInv_Always, PTL DEF FilesInv

-----------------------------------------------------------------------------
(* The log: what it keeps. *)

\* How appends may fail for every receipt to be legible: one that raises has
\* written nothing or the whole line, and a crash leaves nothing, an
\* unfinished line or a whole one.
WholeLines ==
    /\ Raised \subseteq {"nothing", "line"}
    /\ Torn \subseteq {"nothing", "prefix", "line"}

\* Only the last line of a log whose writer died may be garbage.
WholeLog ==
    /\ prev_hash[Proxy] # Closed => ended
    /\ \A i \in 1 .. Len(lines) : lines[i] = Garbage => i = Len(lines) /\ ~ended
    /\ ~ended => lines # <<>> /\ lines[Len(lines)] = Garbage

\* A write by an open writer: it appends a line, or nothing.
LEMMA WholeWrite ==
    ASSUME TypeOK, WholeLog, prev_hash[Proxy] # Closed,
           NEW body \in Bodies, NEW extent \in {"nothing", "prefix", "line"},
           Chain!Write(Chain!build_receipt(prev_hash[Proxy], body), extent)
    PROVE  /\ Log \subseteq Log'
           /\ extent = "line" => \E r \in Log' : r.body = body
           /\ extent # "prefix" => ended'
           /\ \A i \in 1 .. Len(lines') : lines'[i] = Garbage => i = Len(lines') /\ ~ended'
           /\ ~ended' => lines' # <<>> /\ lines'[Len(lines')] = Garbage
<1> DEFINE receipt == Chain!build_receipt(prev_hash[Proxy], body)
<1>1. /\ lines \in Seq(Chain!Receipts \cup {Garbage}) /\ Len(lines) \in Nat
      /\ uuids \in Nat /\ prev_hash[Proxy] \in Chain!Hashes
  BY DEF TypeOK, Chain!TypeOK
<1>2. receipt \in Chain!Receipts /\ receipt.body = body
  BY <1>1 DEF Chain!build_receipt, Chain!Receipts
<1>3. receipt # Garbage
  BY <1>2, LogAssumption
<1>4. ended /\ \A i \in 1 .. Len(lines) : lines[i] # Garbage
  BY DEF WholeLog
<1>5. ASSUME NEW line, lines' = Append(lines, line)
      PROVE  /\ Len(lines') = Len(lines) + 1 /\ lines'[Len(lines')] = line
             /\ \A i \in 1 .. Len(lines) : i \in 1 .. Len(lines') /\ lines'[i] = lines[i]
             /\ \A i \in 1 .. Len(lines') : i = Len(lines') \/ i \in 1 .. Len(lines)
             /\ Len(lines') \in 1 .. Len(lines') /\ lines' # <<>>
  BY <1>1, <1>5
<1>6. CASE extent = "nothing"
  <2>1. UNCHANGED <<lines, ended>>
    BY <1>6 DEF Chain!Write
  <2> QED
    BY <1>4, <1>6, <2>1 DEF Log
<1>7. CASE extent = "prefix"
  <2>1. lines' = Append(lines, Garbage) /\ ended' = FALSE
    BY <1>4, <1>7 DEF Chain!Write, Chain!Written
  <2> QED
    BY <1>4, <1>5, <1>7, <2>1 DEF Log
<1>8. CASE extent = "line"
  <2>1. lines' = Append(lines, receipt) /\ ended' = TRUE
    BY <1>4, <1>8 DEF Chain!Write, Chain!Written
  <2>2. receipt \in Log'
    BY <1>3, <1>5, <2>1 DEF Log
  <2>3. Log \subseteq Log'
    BY <1>5, <2>1 DEF Log
  <2>4. \A i \in 1 .. Len(lines') : lines'[i] # Garbage
    BY <1>3, <1>4, <1>5, <2>1
  <2> QED
    BY <1>2, <1>8, <2>1, <2>2, <2>3, <2>4
<1> QED
  BY <1>6, <1>7, <1>8

LEMMA AppendWhole ==
    ASSUME TypeOK, WholeLog, NEW body \in Bodies, Chain!append(Proxy, body)
    PROVE  \E r \in Log' : r.body = body
BY WholeWrite DEF Chain!append

\* The file keeps its receipts and only its last line may be garbage.
LEMMA WholeStep ==
    ASSUME WholeLines, TypeOK, WholeLog, [Next]_vars
    PROVE  WholeLog' /\ Log \subseteq Log'
<1> DEFINE Kept == WholeLog' /\ Log \subseteq Log'
<1>1. prev_hash \in [{Proxy} -> Chain!Hashes \cup {Closed}]
  BY DEF TypeOK, Chain!TypeOK
<1>2. [Chain!Next]_(Chain!vars)
  BY ChainSteps
<1>3. CASE Chain!Open(Proxy)
  <2>1. ended /\ UNCHANGED <<lines, ended>>
    BY <1>3 DEF Chain!Open, WholeLog
  <2> QED
    BY <2>1 DEF WholeLog, Log
<1>4. CASE Chain!Close(Proxy)
  <2>1. UNCHANGED <<lines, ended>> /\ prev_hash'[Proxy] = Closed
    BY <1>1, <1>4 DEF Chain!Close
  <2> QED
    BY <2>1 DEF WholeLog, Log
<1>5. ASSUME NEW body \in Bodies, Chain!append(Proxy, body) PROVE Kept
  BY <1>5, WholeWrite DEF Chain!append, WholeLog
<1>6. ASSUME NEW body \in Bodies, NEW extent, Chain!append_raises(Proxy, body, extent)
      PROVE  Kept
  <2>1. /\ extent \in {"nothing", "prefix", "line"} /\ extent # "prefix"
        /\ prev_hash[Proxy] # Closed
        /\ Chain!Write(Chain!build_receipt(prev_hash[Proxy], body), extent)
    BY <1>6 DEF WholeLines, Chain!append_raises
  <2> QED
    BY <2>1, WholeWrite DEF WholeLog
<1>7. ASSUME NEW body \in Bodies, NEW extent, Chain!append_dies(Proxy, body, extent)
      PROVE  Kept
  <2>1. /\ extent \in {"nothing", "prefix", "line"} /\ prev_hash[Proxy] # Closed
        /\ Chain!Write(Chain!build_receipt(prev_hash[Proxy], body), extent)
    BY <1>7 DEF WholeLines, Chain!append_dies
  <2>2. prev_hash'[Proxy] = Closed
    BY <1>1, <1>7 DEF Chain!append_dies
  <2> QED
    BY <2>1, <2>2, WholeWrite DEF WholeLog
<1>8. CASE UNCHANGED Chain!vars
  BY <1>8 DEF Chain!vars, WholeLog, Log
<1> QED
  BY <1>2, <1>3, <1>4, <1>5, <1>6, <1>7, <1>8 DEF Chain!Next

\* A receipt says what a line tells the client.
SaidOf(line) ==
    \E r \in Log : /\ r.body.call = line.of
                   /\ r.body.response = IF line.kind = "blocked" THEN None ELSE line.of

\* The line that goes with an append is receipted by it.
LEMMA WrittenIsSaid ==
    ASSUME FlowInv, WholeLog, Move,
           NEW line \in RangeOf(toClient'), line.of \in Calls
    PROVE  line \in RangeOf(toClient) \/ SaidOf(line)'
<1>0. TypeOK
  BY DEF FlowInv
<1>1. ASSUME NEW c \in Calls, NEW approver \in Approvers, Blocks(c, approver),
             line \notin RangeOf(toClient)
      PROVE  SaidOf(line)'
  <2>1. Chain!append(Proxy, BlockedBody(c, approver)) /\ line = Blocked(c)
    BY <1>1 DEF Blocks, Writes
  <2>2. \E r \in Log' : r.body = BlockedBody(c, approver)
    BY <1>0, <2>1, AppendWhole, BlockedType
  <2>3. /\ BlockedBody(c, approver).call = c /\ BlockedBody(c, approver).response = None
        /\ Blocked(c).kind = "blocked" /\ Blocked(c).of = c
    BY DEF BlockedBody, Blocked
  <2> QED
    BY <2>1, <2>2, <2>3 DEF SaidOf
<1>2. ASSUME NEW c \in Calls, Records(c), line \notin RangeOf(toClient)
      PROVE  SaidOf(line)'
  <2>1. PICK body : body = AnsweredBody(pending[Id[c]], c)
    OBVIOUS
  <2>2. /\ Chain!append(Proxy, body)
        /\ line = [kind |-> "response", id |-> Id[c], of |-> c] /\ c \in Replied
    BY <1>2, <2>1 DEF Records, Writes
  <2>3. pending[Id[c]] # None /\ pending[Id[c]].call = c /\ Id[c] \in Ids /\ c \in Requests
    BY <2>2, ProxyAssumption DEF FlowInv, Remembered, Requests
  <2>4. body \in Bodies
    BY <2>1, <2>3, FlowTypes, AnsweredType
  <2>5. body.call = c /\ body.response = c
    BY <2>1, <2>3 DEF AnsweredBody
  <2>6. \E r \in Log' : r.body = body
    BY <1>0, <2>2, <2>4, AppendWhole
  <2>7. line.kind # "blocked" /\ line.of = c
    BY <2>2
  <2> QED
    BY <2>5, <2>6, <2>7 DEF SaidOf
<1>3. ASSUME NEW l \in ClientLines, Relays(l) PROVE line \in RangeOf(toClient)
  BY <1>3 DEF Relays, Writes
<1>4. ASSUME NEW m \in Requests,
             Sends(m) \/ Forwards(m) \/ Executes(m) \/ Responds(m) \/ Hears(m)
      PROVE  line \in RangeOf(toClient)
  BY <1>4 DEF Sends, Forwards, Executes, Responds, Hears, Writes
<1>5. CASE Loses \/ Starts
  BY <1>5 DEF Loses, Starts, Writes
<1>6. ASSUME NEW c \in Calls, Asks(c) \/ \E body \in Bodies : Dies(c, body)
      PROVE  line \in RangeOf(toClient)
  BY <1>6 DEF Asks, Dies, Writes
<1> QED
  BY <1>1, <1>2, <1>3, <1>4, <1>5, <1>6 DEF Move

LEMMA AnsweredWasTold ==
    ASSUME Move, NEW c \in answered', c \notin answered
    PROVE  \E line \in RangeOf(toClient) : line.of = c
BY DEF Move, Loses, Starts, Sends, Forwards, Executes, Responds, Hears, Relays, Asks,
       Records, Blocks, Dies

ToldInv == FlowInv /\ WholeLog /\ ReceiptBeforeAnswer

LEMMA ToldInv_Next == ASSUME WholeLines PROVE ToldInv /\ [Next]_vars => ToldInv'
<1> SUFFICES ASSUME ToldInv, [Next]_vars PROVE ToldInv'
  OBVIOUS
<1>1. FlowInv' /\ Move /\ WholeLog' /\ Log \subseteq Log'
  BY FlowInv_Next, Effects, WholeStep DEF ToldInv, FlowInv
<1>2. ReceiptBeforeAnswer <=>
          /\ \A c \in Calls \cap answered : \E r \in Log : r.body.call = c
          /\ \A line \in RangeOf(toClient) : line.of \in Calls => SaidOf(line)
  BY DEF ReceiptBeforeAnswer, SaidOf
<1>3. ReceiptBeforeAnswer' <=>
          /\ \A c \in Calls \cap answered' : \E r \in Log' : r.body.call = c
          /\ \A line \in RangeOf(toClient') : line.of \in Calls => SaidOf(line)'
  BY DEF ReceiptBeforeAnswer, SaidOf
<1>4. ASSUME NEW line \in RangeOf(toClient), line.of \in Calls PROVE SaidOf(line)'
  BY <1>1, <1>2, <1>4 DEF ToldInv, SaidOf
<1>5. ASSUME NEW line \in RangeOf(toClient'), line.of \in Calls PROVE SaidOf(line)'
  BY <1>1, <1>4, <1>5, WrittenIsSaid DEF ToldInv
<1>6. ASSUME NEW c \in Calls \cap answered' PROVE \E r \in Log' : r.body.call = c
  <2>1. CASE c \in answered
    BY <1>1, <1>2, <2>1 DEF ToldInv
  <2>2. CASE c \notin answered
    <3>1. PICK line \in RangeOf(toClient) : line.of = c
      BY <1>1, <2>2, AnsweredWasTold
    <3>2. SaidOf(line)'
      BY <1>4, <3>1
    <3> QED
      BY <3>1, <3>2 DEF SaidOf
  <2> QED
    BY <2>1, <2>2
<1> QED
  BY <1>1, <1>3, <1>5, <1>6 DEF ToldInv

LEMMA ToldInv_Init == Init => ToldInv
<1> SUFFICES ASSUME Init PROVE ToldInv
  OBVIOUS
<1>1. lines = <<>> /\ ended = TRUE /\ answered = {} /\ toClient = <<>>
  BY DEF Init, Chain!Init
<1>2. WholeLog
  BY <1>1 DEF WholeLog
<1>3. ReceiptBeforeAnswer
  BY <1>1 DEF ReceiptBeforeAnswer, RangeOf
<1> QED
  BY <1>2, <1>3, FlowInv_Init DEF ToldInv

\* Whatever the client has been told about a call, by the server or by the
\* proxy, a receipt saying so was in the log before and is there still
\* (proxy.py:195-214, 234-245).
THEOREM ReceiptPrecedesAnswer == ASSUME WholeLines PROVE Spec => []ReceiptBeforeAnswer
<1>1. ToldInv => ReceiptBeforeAnswer
  BY DEF ToldInv
<1> QED
  BY <1>1, ToldInv_Init, ToldInv_Next, PTL DEF Spec

-----------------------------------------------------------------------------
(* Permission: yeses are counted. *)

Yes == {c \in Calls : typed[c] = "y"}

Gated == {c \in Calls \cap (executed \cup Piped) : Decision[c].action = "approve"}

\* The calls whose yes no prompt has read yet
Queued == {line.to : line \in {l \in RangeOf(tty) : l.says = "y"}}

\* Each call's prompt is shown once and answered once.
AnsweredOnce ==
    /\ \A c \in Calls : typed[c] # "unseen" => c \in RangeOf(sent) \ Unread
    /\ \A i, j \in 1 .. Len(tty) : tty[i].to = tty[j].to => i = j
    /\ \A line \in RangeOf(tty) : typed[line.to] = line.says

\* Every call that got past its prompt used up a yes of its own; so will
\* those that are read but not used, and those that are not read.
Counted ==
    /\ IsFiniteSet(Gated) /\ IsFiniteSet(Queued) /\ IsFiniteSet(Yes)
    /\ Cardinality(Gated) + Cardinality(Queued) + (IF Credit THEN 1 ELSE 0)
           <= Cardinality(Yes)

PermitInv == FlowInv /\ AnsweredOnce /\ Counted

\* A call gets past its prompt only by the pump taking an approval.
LEMMA GatedOfMoves ==
    ASSUME FlowInv, Move
    PROVE  \/ Gated' \subseteq Gated
           \/ \E c \in Calls : Gated' \subseteq Gated \cup {c} /\ Credit /\ Prompt!Take
<1>1. ASSUME NEW m \in Requests, Forwards(m)
      PROVE  \/ Gated' \subseteq Gated
             \/ \E c \in Calls : Gated' \subseteq Gated \cup {c} /\ Credit /\ Prompt!Take
  <2>1. executed' \cup Piped' \subseteq executed \cup Piped \cup {m}
    BY <1>1 DEF Forwards, Within
  <2>2. CASE m \in Calls /\ Decision[m].action = "approve"
    BY <1>1, <2>1, <2>2 DEF Forwards, Gated
  <2>3. CASE ~(m \in Calls /\ Decision[m].action = "approve")
    BY <2>1, <2>3 DEF Gated
  <2> QED
    BY <2>2, <2>3
<1>2. CASE executed' \cup Piped' \subseteq executed \cup Piped
  BY <1>2 DEF Gated
<1> QED
  BY <1>1, <1>2 DEF Move, Loses, Starts, Sends, Executes, Responds, Hears, Relays, Asks,
     Records, Blocks, Dies, Within, NotYet

LEMMA UnreadOfMoves ==
    ASSUME FlowInv, Move
    PROVE  /\ RangeOf(sent) \subseteq RangeOf(sent')
           /\ \A m \in Unread' : m \in Unread \/ m \notin RangeOf(sent)
BY DEF Move, Loses, Starts, Sends, Forwards, Executes, Responds, Hears, Relays, Asks,
       Records, Blocks, Dies, Within, NotYet

\* What a step may do to the prompt and the terminal
Rests == UNCHANGED <<tty, typed>> /\ (Credit' => Credit)

Prompts(c) ==
    /\ c \in Unread /\ c \notin Unread'
    /\ \A d \in Calls : d # c => typed'[d] = typed[d]
    /\ typed'[c] \in {typed[c], "seen"}
    /\ UNCHANGED tty /\ ~Credit'

Reads ==
    /\ tty # <<>> /\ tty' = Tail(tty) /\ UNCHANGED typed
    /\ ~Credit /\ (Credit' => Head(tty).says = "y")

Types(c, says) ==
    /\ typed[c] = "seen"
    /\ typed' = [typed EXCEPT ![c] = says]
    /\ tty' = Append(tty, [to |-> c, says |-> says])
    /\ Credit' => Credit

LEMMA PromptMoves ==
    ASSUME FlowInv, [Next]_vars
    PROVE  \/ Rests \/ Reads
           \/ \E c \in Calls : Prompts(c) \/ \E says \in {"y", "n"} : Types(c, says)
<1>1. CASE UNCHANGED <<tty, typed>> /\ (clientPump' # "approval" \/ result' = None)
  BY <1>1 DEF Rests, Credit
<1>2. CASE UNCHANGED <<tty, typed, result, clientPump>>
  BY <1>2 DEF Rests, Credit
<1>3. CASE \/ PassThrough \/ ClientLineFails \/ ApprovalReturns \/ ApprovalRaises
           \/ DrainServer \/ ClientPumpDrained \/ ClientEOF \/ Start \/ Crash
           \/ \E c \in Calls : AllowCall(c) \/ DenyCall(c)
  BY <1>1, <1>3 DEF PassThrough, ClientLineFails, ApprovalReturns, ApprovalRaises,
     DrainServer, ClientPumpDrained, AfterDrain, ClientEOF, Start, Crash, AllowCall, DenyCall, Forward,
     _record_and_block, Prompt!Take, Prompt!Kill, memory, promptVars
<1>4. ASSUME NEW c \in Calls, AskApproval(c) PROVE Prompts(c)
  <2>1. c \in Unread /\ c \notin Unread'
    BY <1>4, AskApprovalEffect DEF Asks
  <2>2. typed \in [Calls -> {"unseen", "seen", "y", "n"}]
    BY DEF FlowInv, TypeOK, Prompt!TypeOK
  <2>3. Prompt!request_approval(c)
    BY <1>4 DEF AskApproval
  <2>4. UNCHANGED tty /\ ~Credit'
    <3>1. UNCHANGED tty /\ (result' = None \/ result' = Prompt!NoTtyResult)
      BY <2>3 DEF Prompt!request_approval
    <3>2. ~ Prompt!NoTtyResult.approved
      BY DEF Prompt!NoTtyResult
    <3> QED
      BY <3>1, <3>2 DEF Credit
  <2>5. UNCHANGED typed \/ typed' = [typed EXCEPT ![c] = "seen"]
    BY <2>3 DEF Prompt!request_approval
  <2>6. \A d \in Calls : d # c => typed'[d] = typed[d]
    BY <2>2, <2>5
  <2>7. typed'[c] \in {typed[c], "seen"}
    BY <2>2, <2>5
  <2> QED
    BY <2>1, <2>4, <2>6, <2>7 DEF Prompts
<1>5. CASE ServerPumpStep
  BY <1>2, <1>5 DEF ServerPumpStep, RelayLine, RecordAnswer, ServerLineFails, ServerEOF,
     ServerPumpDrained, besideServerPump, promptVars
<1>6. CASE Run
  BY <1>1, <1>2, <1>6 DEF Run, CloseStdin, Terminate, Exit, memory, promptVars
<1>7. CASE PromptThread
  <2>1. UNCHANGED <<clientPump, typed>> /\ result = None
    BY <1>7 DEF PromptThread, Prompt!ReadAnswer, Prompt!PromptTimeout, Prompt!Prompting
  <2>2. CASE Prompt!PromptTimeout
    BY <2>1, <2>2 DEF Prompt!PromptTimeout, Prompt!TtyResult, Rests, Credit
  <2>3. CASE Prompt!ReadAnswer
    <3>1. /\ tty # <<>> /\ tty' = Tail(tty)
          /\ result'.approved = (Head(tty).says = "y")
      BY <2>3 DEF Prompt!ReadAnswer, Prompt!TtyResult
    <3> QED
      BY <2>1, <3>1 DEF Reads, Credit
  <2> QED
    BY <1>7, <2>2, <2>3 DEF PromptThread
<1>8. CASE Human
  <2>1. PICK c \in Calls, says \in {"y", "n"} : Prompt!Type(c, says)
    BY <1>8 DEF Human
  <2>2. UNCHANGED <<clientPump, result>>
    BY <1>8, <2>1 DEF Human, Prompt!Type
  <2>3. Types(c, says)
    BY <2>1, <2>2 DEF Types, Prompt!Type, Credit
  <2> QED
    BY <2>3
<1>9. CASE \/ ClientReceive \/ ClientClose \/ ServerReceive \/ ServerExit \/ Respond
           \/ \E m \in Requests : ClientSend(m)
           \/ \E i \in Ids : ServerRequest(i)
  BY <1>2, <1>9 DEF ClientReceive, ClientClose, ServerReceive, ServerExit, Respond,
     ServerRespond, ClientSend, ServerRequest, proxyVars, memory, promptVars
<1>10. CASE UNCHANGED vars
  BY <1>2, <1>10 DEF vars, proxyVars, memory, promptVars
<1> QED
  BY <1>3, <1>4, <1>5, <1>6, <1>7, <1>8, <1>9, <1>10 DEF Next, ClientPumpStep

LEMMA PromptTypes ==
    ASSUME FlowInv
    PROVE  /\ typed \in [Calls -> {"unseen", "seen", "y", "n"}]
           /\ tty \in Seq(Prompt!Lines)
           /\ \A line \in RangeOf(tty) : line.to \in Calls /\ line.says \in {"y", "n"}
<1>1. tty \in Seq(Prompt!Lines) /\ typed \in [Calls -> {"unseen", "seen", "y", "n"}]
  BY DEF FlowInv, TypeOK, Prompt!TypeOK
<1>2. \A line \in RangeOf(tty) : line \in Prompt!Lines
  BY <1>1 DEF RangeOf
<1> QED
  BY <1>1, <1>2 DEF Prompt!Lines

\* The terminal after a step: its yeses, and those of the human
LEMMA RestsYes ==
    ASSUME PermitInv, [Next]_vars, Rests
    PROVE  AnsweredOnce' /\ Queued' = Queued /\ Yes' = Yes
<1>1. UNCHANGED <<tty, typed>>
  BY DEF Rests
<1>2. /\ RangeOf(sent) \subseteq RangeOf(sent')
      /\ \A m \in Unread' : m \in Unread \/ m \notin RangeOf(sent)
  BY UnreadOfMoves, Effects DEF PermitInv
<1> QED
  BY <1>1, <1>2 DEF PermitInv, AnsweredOnce, Queued, Yes

LEMMA PromptsYes ==
    ASSUME PermitInv, [Next]_vars, NEW c \in Calls, Prompts(c)
    PROVE  AnsweredOnce' /\ Queued' = Queued /\ Yes' = Yes
<1>1. /\ RangeOf(sent) \subseteq RangeOf(sent')
      /\ \A m \in Unread' : m \in Unread \/ m \notin RangeOf(sent)
  BY UnreadOfMoves, Effects DEF PermitInv
<1>2. typed[c] = "unseen" /\ c \in RangeOf(sent)
  BY DEF Prompts, PermitInv, AnsweredOnce, FlowInv, IdsApart, NotYet
<1>3. /\ UNCHANGED tty /\ typed'[c] \in {"unseen", "seen"}
      /\ \A d \in Calls : d # c => typed'[d] = typed[d]
  BY <1>2 DEF Prompts
<1>4. ASSUME NEW line \in RangeOf(tty) PROVE line.to # c /\ typed'[line.to] = line.says
  <2>1. line.to \in Calls /\ line.says \in {"y", "n"} /\ typed[line.to] = line.says
    BY PromptTypes DEF PermitInv, AnsweredOnce
  <2>2. line.to # c
    BY <1>2, <2>1
  <2> QED
    BY <1>3, <2>1, <2>2
<1>5. ASSUME NEW d \in Calls, typed'[d] # "unseen" PROVE d \in RangeOf(sent') \ Unread'
  <2>1. CASE d = c
    BY <1>1, <1>2, <2>1 DEF Prompts
  <2>2. CASE d # c
    BY <1>1, <1>3, <1>5, <2>2 DEF PermitInv, AnsweredOnce
  <2> QED
    BY <2>1, <2>2
<1>6. AnsweredOnce'
  BY <1>3, <1>4, <1>5 DEF PermitInv, AnsweredOnce
<1>7. Queued' = Queued
  BY <1>3 DEF Queued
<1>8. ASSUME NEW d \in Calls PROVE typed'[d] = "y" <=> typed[d] = "y"
  BY <1>2, <1>3
<1>9. Yes' = Yes
  BY <1>8 DEF Yes
<1> QED
  BY <1>6, <1>7, <1>9

LEMMA ReadsYes ==
    ASSUME PermitInv, [Next]_vars, Reads
    PROVE  /\ AnsweredOnce' /\ Yes' = Yes /\ Queued' \subseteq Queued
           /\ Head(tty).says = "y" =>
                 Head(tty).to \in Queued /\ Head(tty).to \notin Queued'
<1>1. tty # <<>> /\ tty' = Tail(tty) /\ UNCHANGED typed
  BY DEF Reads
<1>2. tty \in Seq(Prompt!Lines)
  BY PromptTypes DEF PermitInv
<1>3. /\ Head(tty) \in RangeOf(tty) /\ RangeOf(Tail(tty)) \subseteq RangeOf(tty)
      /\ Head(tty) = tty[1]
  BY <1>1, <1>2, TailRange
<1>4. \A i \in 1 .. Len(Tail(tty)) :
          i + 1 \in 1 .. Len(tty) /\ i + 1 # 1 /\ Tail(tty)[i] = tty[i + 1]
  BY <1>1, <1>2
<1>5. 1 \in 1 .. Len(tty)
  BY <1>1, <1>2
<1>6. \A i, j \in 1 .. Len(tty) : tty[i].to = tty[j].to => i = j
  BY DEF PermitInv, AnsweredOnce
<1>7. \A i \in 1 .. Len(Tail(tty)) : Tail(tty)[i].to # Head(tty).to
  BY <1>3, <1>4, <1>5, <1>6
<1>8. ASSUME NEW i \in 1 .. Len(Tail(tty)), NEW j \in 1 .. Len(Tail(tty)),
             Tail(tty)[i].to = Tail(tty)[j].to
      PROVE  i = j
  <2>1. i + 1 = j + 1
    BY <1>4, <1>6, <1>8
  <2> QED
    BY <2>1
<1>9. /\ RangeOf(sent) \subseteq RangeOf(sent')
      /\ \A m \in Unread' : m \in Unread \/ m \notin RangeOf(sent)
  BY UnreadOfMoves, Effects DEF PermitInv
<1>10. AnsweredOnce'
  BY <1>1, <1>3, <1>8, <1>9 DEF PermitInv, AnsweredOnce
<1>11. Yes' = Yes /\ Queued' \subseteq Queued
  BY <1>1, <1>3 DEF Yes, Queued
<1>12. Head(tty).says = "y" => Head(tty).to \in Queued
  BY <1>3 DEF Queued
<1>13. Head(tty).to \notin Queued'
  BY <1>1, <1>7 DEF Queued, RangeOf
<1> QED
  BY <1>10, <1>11, <1>12, <1>13

LEMMA TypesYes ==
    ASSUME PermitInv, [Next]_vars, NEW c \in Calls, NEW says \in {"y", "n"}, Types(c, says)
    PROVE  /\ AnsweredOnce'
           /\ \/ Yes' = Yes /\ Queued' = Queued
              \/ c \notin Yes /\ Yes' = Yes \cup {c} /\ Queued' = Queued \cup {c}
<1> DEFINE line == [to |-> c, says |-> says]
<1>1. /\ typed[c] = "seen" /\ typed' = [typed EXCEPT ![c] = says]
      /\ tty' = Append(tty, line)
  BY DEF Types
<1>2. /\ typed \in [Calls -> {"unseen", "seen", "y", "n"}] /\ tty \in Seq(Prompt!Lines)
      /\ \A l \in RangeOf(tty) : l.to \in Calls /\ l.says \in {"y", "n"}
  BY PromptTypes DEF PermitInv
<1>3. line \in Prompt!Lines /\ line.to = c /\ line.says = says
  BY DEF Prompt!Lines
<1>4. RangeOf(tty') = RangeOf(tty) \cup {line}
  BY <1>1, <1>2, <1>3, AppendRange
<1>5. typed'[c] = says /\ \A d \in Calls : d # c => typed'[d] = typed[d]
  BY <1>1, <1>2
<1>6. \A l \in RangeOf(tty) : l.to # c
  BY <1>1, <1>2 DEF PermitInv, AnsweredOnce
<1>7. \A l \in RangeOf(tty') : typed'[l.to] = l.says
  BY <1>2, <1>3, <1>4, <1>5, <1>6 DEF PermitInv, AnsweredOnce
<1>8. \A i, j \in 1 .. Len(tty') : tty'[i].to = tty'[j].to => i = j
  <2>1. /\ Len(tty) \in Nat /\ Len(tty') = Len(tty) + 1 /\ tty'[Len(tty) + 1] = line
        /\ \A i \in 1 .. Len(tty) : tty'[i] = tty[i]
    BY <1>1, <1>2
  <2>2. 1 .. Len(tty) + 1 = (1 .. Len(tty)) \cup {Len(tty) + 1}
    BY <2>1
  <2>3. \A i \in 1 .. Len(tty) : tty[i].to # c
    BY <1>6 DEF RangeOf
  <2>4. \A i, j \in 1 .. Len(tty) : tty[i].to = tty[j].to => i = j
    BY DEF PermitInv, AnsweredOnce
  <2> QED
    BY <1>3, <2>1, <2>2, <2>3, <2>4
<1>9. /\ RangeOf(sent) \subseteq RangeOf(sent')
      /\ \A m \in Unread' : m \in Unread \/ m \notin RangeOf(sent)
  BY UnreadOfMoves, Effects DEF PermitInv
<1>10. \A d \in Calls : typed'[d] # "unseen" => typed[d] # "unseen"
  BY <1>1, <1>5
<1>11. AnsweredOnce'
  BY <1>7, <1>8, <1>9, <1>10 DEF PermitInv, AnsweredOnce
<1>12. CASE says = "y"
  <2>1. c \notin Yes /\ Yes' = Yes \cup {c}
    BY <1>1, <1>5, <1>12 DEF Yes
  <2>2. Queued' = Queued \cup {c}
    BY <1>3, <1>4, <1>12 DEF Queued
  <2> QED
    BY <1>11, <2>1, <2>2
<1>13. CASE says = "n"
  <2>1. Yes' = Yes
    BY <1>1, <1>5, <1>13 DEF Yes
  <2>2. Queued' = Queued
    BY <1>3, <1>4, <1>13 DEF Queued
  <2> QED
    BY <1>11, <2>1, <2>2
<1> QED
  BY <1>12, <1>13

\* A subset, and a set with one element more or less, is finite and counts.
LEMMA SubsetCounts ==
    ASSUME NEW S, NEW T, IsFiniteSet(S), T \subseteq S
    PROVE  /\ IsFiniteSet(T) /\ Cardinality(T) \in Nat /\ Cardinality(S) \in Nat
           /\ Cardinality(T) <= Cardinality(S)
           /\ \A x : x \in S /\ x \notin T => Cardinality(T) + 1 <= Cardinality(S)
<1>1. IsFiniteSet(T) /\ Cardinality(T) <= Cardinality(S)
  BY FS_Subset
<1>2. Cardinality(T) \in Nat /\ Cardinality(S) \in Nat
  BY <1>1, FS_CardinalityType
<1>3. ASSUME NEW x, x \in S, x \notin T PROVE Cardinality(T) + 1 <= Cardinality(S)
  <2>1. T # S
    BY <1>3
  <2>2. Cardinality(T) # Cardinality(S)
    BY <2>1, FS_Subset
  <2> QED
    BY <1>1, <1>2, <2>2
<1> QED
  BY <1>1, <1>2, <1>3

LEMMA OneMoreCounts ==
    ASSUME NEW S, NEW T, NEW x, IsFiniteSet(S), T \subseteq S \cup {x}
    PROVE  /\ IsFiniteSet(T) /\ Cardinality(T) \in Nat /\ Cardinality(S) \in Nat
           /\ Cardinality(T) <= Cardinality(S) + 1
<1>1. IsFiniteSet(S \cup {x}) /\ Cardinality(S) \in Nat
  BY FS_AddElement, FS_CardinalityType
<1>2. Cardinality(S \cup {x}) <= Cardinality(S) + 1
  BY <1>1, FS_AddElement
<1>3. /\ IsFiniteSet(T) /\ Cardinality(T) \in Nat /\ Cardinality(S \cup {x}) \in Nat
      /\ Cardinality(T) <= Cardinality(S \cup {x})
  BY <1>1, SubsetCounts
<1> QED
  BY <1>1, <1>2, <1>3

LEMMA Counted_Next == PermitInv /\ [Next]_vars => AnsweredOnce' /\ Counted'
<1> SUFFICES ASSUME PermitInv, [Next]_vars PROVE AnsweredOnce' /\ Counted'
  OBVIOUS
<1> DEFINE g == Cardinality(Gated)
           q == Cardinality(Queued)
           y == Cardinality(Yes)
           credit == IF Credit THEN 1 ELSE 0
<1>1. /\ IsFiniteSet(Gated) /\ IsFiniteSet(Queued) /\ IsFiniteSet(Yes)
      /\ g + q + credit <= y
  BY DEF PermitInv, Counted
<1>2. g \in Nat /\ q \in Nat /\ y \in Nat
  BY <1>1, FS_CardinalityType
<1>3. \/ Gated' \subseteq Gated
      \/ \E c \in Calls : Gated' \subseteq Gated \cup {c} /\ Credit /\ Prompt!Take
  BY GatedOfMoves, Effects DEF PermitInv
<1>4. CASE \E c \in Calls : Gated' \subseteq Gated \cup {c} /\ Credit /\ Prompt!Take
  <2>1. Rests /\ Credit /\ ~Credit'
    BY <1>4 DEF Rests, Prompt!Take, Credit
  <2>2. AnsweredOnce' /\ Queued' = Queued /\ Yes' = Yes
    BY <2>1, RestsYes
  <2>3. IsFiniteSet(Gated') /\ Cardinality(Gated') \in Nat /\ Cardinality(Gated') <= g + 1
    BY <1>1, <1>4, OneMoreCounts
  <2>4. credit = 1 /\ (IF Credit' THEN 1 ELSE 0) = 0
    BY <2>1
  <2>5. Cardinality(Gated') + q + 0 <= y
    BY <1>1, <1>2, <2>3, <2>4
  <2> QED
    BY <1>1, <2>2, <2>3, <2>4, <2>5 DEF Counted
<1>5. CASE Gated' \subseteq Gated
  <2>1. IsFiniteSet(Gated') /\ Cardinality(Gated') \in Nat /\ Cardinality(Gated') <= g
    BY <1>1, <1>5, SubsetCounts
  <2>2. ASSUME Queued' = Queued, Yes' = Yes, Credit' => Credit PROVE Counted'
    <3>1. (IF Credit' THEN 1 ELSE 0) <= credit /\ (IF Credit' THEN 1 ELSE 0) \in {0, 1}
      BY <2>2
    <3>2. Cardinality(Gated') + q + (IF Credit' THEN 1 ELSE 0) <= y
      BY <1>1, <1>2, <2>1, <3>1
    <3> QED
      BY <1>1, <2>1, <2>2, <3>2 DEF Counted
  <2>3. CASE Rests
    BY <2>2, <2>3, RestsYes DEF Rests
  <2>4. ASSUME NEW c \in Calls, Prompts(c) PROVE AnsweredOnce' /\ Counted'
    BY <2>2, <2>4, PromptsYes DEF Prompts
  <2>5. CASE Reads
    <3>1. /\ AnsweredOnce' /\ Yes' = Yes /\ Queued' \subseteq Queued
          /\ Head(tty).says = "y" =>
                Head(tty).to \in Queued /\ Head(tty).to \notin Queued'
      BY <2>5, ReadsYes
    <3>2. IsFiniteSet(Queued') /\ Cardinality(Queued') \in Nat /\ Cardinality(Queued') <= q
      BY <1>1, <3>1, SubsetCounts
    <3>3. Credit' => Cardinality(Queued') + 1 <= q
      BY <1>1, <2>5, <3>1, SubsetCounts DEF Reads
    <3>4. Cardinality(Queued') + (IF Credit' THEN 1 ELSE 0) <= q
      BY <1>2, <3>2, <3>3
    <3>5. credit = 0 /\ (IF Credit' THEN 1 ELSE 0) \in Nat
      BY <2>5 DEF Reads
    <3>6. Cardinality(Gated') + Cardinality(Queued') + (IF Credit' THEN 1 ELSE 0) <= y
      BY <1>1, <1>2, <2>1, <3>2, <3>4, <3>5
    <3> QED
      BY <1>1, <2>1, <3>1, <3>2, <3>6 DEF Counted
  <2>6. ASSUME NEW c \in Calls, NEW says \in {"y", "n"}, Types(c, says)
        PROVE  AnsweredOnce' /\ Counted'
    <3>1. /\ AnsweredOnce'
          /\ \/ Yes' = Yes /\ Queued' = Queued
             \/ c \notin Yes /\ Yes' = Yes \cup {c} /\ Queued' = Queued \cup {c}
      BY <2>6, TypesYes
    <3>2. Credit' => Credit
      BY <2>6 DEF Types
    <3>3. CASE c \notin Yes /\ Yes' = Yes \cup {c} /\ Queued' = Queued \cup {c}
      <4>1. IsFiniteSet(Yes') /\ Cardinality(Yes') = y + 1
        BY <1>1, <3>3, FS_AddElement
      <4>2. IsFiniteSet(Queued') /\ Cardinality(Queued') \in Nat /\ Cardinality(Queued') <= q + 1
        BY <1>1, <3>3, OneMoreCounts
      <4>3. (IF Credit' THEN 1 ELSE 0) <= credit /\ (IF Credit' THEN 1 ELSE 0) \in {0, 1}
        BY <3>2
      <4>4. Cardinality(Gated') + Cardinality(Queued') + (IF Credit' THEN 1 ELSE 0)
                <= Cardinality(Yes')
        BY <1>1, <1>2, <2>1, <4>1, <4>2, <4>3
      <4> QED
        BY <2>1, <3>1, <4>1, <4>2, <4>4 DEF Counted
    <3> QED
      BY <2>2, <3>1, <3>2, <3>3
  <2> QED
    BY <2>3, <2>4, <2>5, <2>6, RestsYes, PromptMoves DEF PermitInv
<1> QED
  BY <1>3, <1>4, <1>5

LEMMA PermitInv_Always == Spec => []PermitInv
<1>1. Init => PermitInv
  <2> SUFFICES ASSUME Init PROVE PermitInv
    OBVIOUS
  <2>1. /\ tty = <<>> /\ typed = [c \in Calls |-> "unseen"]
        /\ executed = {} /\ toServer = <<>> /\ clientPump = "done"
    BY DEF Init, Prompt!Init
  <2>2. AnsweredOnce
    BY <2>1 DEF AnsweredOnce, RangeOf
  <2>3. Gated = {} /\ Queued = {} /\ Yes = {} /\ ~Credit
    BY <2>1 DEF Gated, Piped, Queued, Yes, Credit, RangeOf
  <2>4. Counted
    BY <2>3, FS_EmptySet DEF Counted
  <2> QED
    BY <2>2, <2>4, FlowInv_Init DEF PermitInv
<1>2. PermitInv /\ [Next]_vars => PermitInv'
  BY Counted_Next, FlowInv_Next DEF PermitInv
<1> QED
  BY <1>1, <1>2, PTL DEF Spec

\* The server never sees a call that policy denied, and it sees no more
\* approval-gated calls than the human answered with a yes, however late
\* (README.md:66-68; proxy.py:122-180, approval.py:24-83).
THEOREM OnlyPermittedReach == Spec => []OnlyPermittedReachServer
<1>1. PermitInv => OnlyPermittedReachServer
  <2> SUFFICES ASSUME PermitInv PROVE OnlyPermittedReachServer
    OBVIOUS
  <2>1. \A c \in Calls \cap (executed \cup RangeOf(toServer)) : Decision[c].action # "deny"
    BY DEF PermitInv, FlowInv, Gate, Piped
  <2>2. Cardinality(Gated) \in Nat /\ Cardinality(Queued) \in Nat /\ Cardinality(Yes) \in Nat
    BY FS_CardinalityType DEF PermitInv, Counted
  <2>3. Cardinality(Gated) + Cardinality(Queued) + (IF Credit THEN 1 ELSE 0)
            <= Cardinality(Yes)
    BY DEF PermitInv, Counted
  <2>4. (IF Credit THEN 1 ELSE 0) \in {0, 1}
    OBVIOUS
  <2>5. Cardinality(Gated) <= Cardinality(Yes)
    BY <2>2, <2>3, <2>4
  <2> QED
    BY <2>1, <2>5 DEF OnlyPermittedReachServer, Gated, Yes, Piped
<1> QED
  BY <1>1, PermitInv_Always, PTL

-----------------------------------------------------------------------------
(* The promises: MCPProxy implements AuditedCalls. *)

\* The legible lines are those that are not garbage.
LEMMA LegibleIs ==
    ASSUME TypeOK, WholeLog
    PROVE  /\ Legible \in Nat /\ Legible <= Len(lines)
           /\ \A i \in 1 .. Len(lines) : i \in 1 .. Legible <=> lines[i] # Garbage
           /\ ended => Legible = Len(lines)
<1>1. lines \in Seq(Chain!Receipts \cup {Garbage}) /\ Len(lines) \in Nat
      /\ (lines # <<>> => Len(lines) \in 1 .. Len(lines))
  BY DEF TypeOK, Chain!TypeOK
<1>2. \A i \in 1 .. Len(lines) : lines[i] = Garbage => i = Len(lines) /\ ~ended
  BY DEF WholeLog
<1>3. CASE lines # <<>> /\ lines[Len(lines)] = Garbage
  <2>1. Legible = Len(lines) - 1 /\ ~ended
    BY <1>1, <1>2, <1>3 DEF Legible
  <2> QED
    BY <1>1, <1>2, <1>3, <2>1
<1>4. CASE ~(lines # <<>> /\ lines[Len(lines)] = Garbage)
  <2>1. Legible = Len(lines)
    BY <1>4 DEF Legible
  <2>2. \A i \in 1 .. Len(lines) : lines[i] # Garbage
    BY <1>1, <1>2, <1>4
  <2> QED
    BY <1>1, <2>1, <2>2
<1> QED
  BY <1>3, <1>4

LEMMA FiledIsReceipted ==
    ASSUME TypeOK, WholeLog
    PROVE  /\ Audit!Filed = Receipted
           /\ Trail \in [1 .. Legible -> {Trail[i] : i \in 1 .. Legible}]
           /\ Len(Trail) = Legible
<1>1. /\ Legible \in Nat /\ Legible <= Len(lines) /\ Len(lines) \in Nat
      /\ \A i \in 1 .. Len(lines) : i \in 1 .. Legible <=> lines[i] # Garbage
  BY LegibleIs DEF TypeOK, Chain!TypeOK
<1>2. Trail \in [1 .. Legible -> {Trail[i] : i \in 1 .. Legible}]
  BY DEF Trail
<1>3. Len(Trail) = Legible
  BY <1>1, <1>2
<1>4. \A i \in 1 .. Legible : Trail[i].call = lines[i].body.call
  BY DEF Trail, Entry
<1>5. \A i \in 1 .. Legible : i \in 1 .. Len(lines)
  BY <1>1
<1>6. Audit!Filed = {lines[i].body.call : i \in 1 .. Legible}
  BY <1>3, <1>4 DEF Audit!Filed
<1>7. Receipted = {lines[i].body.call : i \in 1 .. Legible}
  BY <1>1, <1>5 DEF Receipted, Log
<1> QED
  BY <1>2, <1>3, <1>6, <1>7

\* A receipt that is appended is an entry of the trail.
LEMMA TrailGrows ==
    ASSUME Legible \in Nat, NEW body,
           Legible' = Legible + 1, \A i \in 1 .. Legible : lines'[i] = lines[i],
           lines'[Legible + 1].body = body
    PROVE  Trail' = Append(Trail, Entry(body))
<1> DEFINE S == {Trail[i] : i \in 1 .. Legible} \cup {Entry(body)}
<1>1. Trail \in [1 .. Legible -> S] /\ DOMAIN Trail = 1 .. Legible
  BY DEF Trail
<1>2. Trail \in Seq(S) /\ Len(Trail) = Legible
  BY <1>1
<1>3. Trail' = [i \in 1 .. Legible + 1 |-> Entry(lines'[i].body)]
  BY DEF Trail, Entry
<1>4. \A i \in 1 .. Legible : Trail'[i] = Trail[i] /\ Trail[i] \in S
  <2>1. \A i \in 1 .. Legible : i \in 1 .. Legible + 1
    OBVIOUS
  <2> QED
    BY <1>3, <2>1 DEF Trail
<1>5. Trail'[Legible + 1] = Entry(body)
  <2>1. Legible + 1 \in 1 .. Legible + 1
    OBVIOUS
  <2> QED
    BY <1>3, <2>1
<1>6. 1 .. Legible + 1 = (1 .. Legible) \cup {Legible + 1}
  OBVIOUS
<1>7. Trail' \in [1 .. Legible + 1 -> S]
  BY <1>3, <1>4, <1>5, <1>6
<1>8. Trail' \in Seq(S) /\ Len(Trail') = Legible + 1
  BY <1>7
<1>9. Append(Trail, Entry(body)) \in Seq(S) /\ Len(Append(Trail, Entry(body))) = Legible + 1
  BY <1>2
<1>10. \A i \in 1 .. Legible : Append(Trail, Entry(body))[i] = Trail[i]
  BY <1>2
<1>11. Append(Trail, Entry(body))[Legible + 1] = Entry(body)
  BY <1>2
<1>12. \A i \in 1 .. Legible + 1 : Trail'[i] = Append(Trail, Entry(body))[i]
  BY <1>4, <1>5, <1>6, <1>10, <1>11
<1> QED
  BY <1>8, <1>9, <1>12, SeqEqual

LEMMA SameTrail ==
    ASSUME Legible' = Legible, \A i \in 1 .. Legible : lines'[i] = lines[i]
    PROVE  Trail' = Trail
BY DEF Trail, Entry

LEMMA TrailAppends ==
    ASSUME WholeLines, TypeOK, WholeLog, NEW body \in Bodies, Appends(body)
    PROVE  Trail' = Trail \/ Trail' = Append(Trail, Entry(body))
<1> DEFINE receipt == Chain!build_receipt(prev_hash[Proxy], body)
<1>1. PICK extent \in {"nothing", "prefix", "line"} : Chain!Write(receipt, extent)
  BY DEF Appends, WholeLines, Chain!append, Chain!append_raises, Chain!append_dies
<1>2. ended
  BY DEF Appends, Chain!append, Chain!append_raises, Chain!append_dies, WholeLog
<1>3. lines \in Seq(Chain!Receipts \cup {Garbage}) /\ Len(lines) \in Nat
  BY DEF TypeOK, Chain!TypeOK
<1>4. Legible = Len(lines)
  BY <1>2, LegibleIs
<1>5. receipt.body = body
  BY DEF Chain!build_receipt
<1>6. receipt # Garbage
  <2>1. uuids \in Nat /\ prev_hash[Proxy] \in Chain!Hashes
    BY DEF TypeOK, Chain!TypeOK, Appends, Chain!append, Chain!append_raises,
           Chain!append_dies
  <2>2. receipt \in Chain!Receipts
    BY <2>1 DEF Chain!build_receipt, Chain!Receipts
  <2> QED
    BY <2>2, LogAssumption
<1>7. ASSUME NEW line, lines' = Append(lines, line)
      PROVE  /\ Len(lines') = Len(lines) + 1 /\ lines'[Len(lines) + 1] = line
             /\ \A i \in 1 .. Len(lines) : lines'[i] = lines[i]
             /\ Len(lines') \in 1 .. Len(lines') /\ lines' # <<>>
  BY <1>3, <1>7
<1>8. CASE UNCHANGED lines
  <2>1. Legible' = Legible
    BY <1>8 DEF Legible
  <2> QED
    BY <1>8, <2>1, SameTrail
<1>9. CASE lines' = Append(lines, Garbage)
  <2>1. /\ Len(lines') = Len(lines) + 1 /\ lines'[Len(lines')] = Garbage
        /\ \A i \in 1 .. Len(lines) : lines'[i] = lines[i]
        /\ lines' # <<>>
    BY <1>7, <1>9
  <2>2. Legible' = Legible
    BY <1>3, <1>4, <2>1 DEF Legible
  <2> QED
    BY <1>4, <2>1, <2>2, SameTrail
<1>10. CASE lines' = Append(lines, receipt)
  <2>1. /\ Len(lines') = Len(lines) + 1 /\ lines'[Len(lines) + 1] = receipt
        /\ \A i \in 1 .. Len(lines) : lines'[i] = lines[i]
    BY <1>7, <1>10
  <2>2. Legible' = Legible + 1
    BY <1>3, <1>4, <1>6, <2>1 DEF Legible
  <2> QED
    BY <1>3, <1>4, <1>5, <2>1, <2>2, TrailGrows
<1> QED
  BY <1>1, <1>2, <1>8, <1>9, <1>10 DEF Chain!Write, Chain!Written

PromiseInv == FilesInv /\ ToldInv

LEMMA QuietMoves ==
    ASSUME UNCHANGED lines
    PROVE  UNCHANGED Trail
BY DEF Trail, Legible, Entry

\* The receipt of a call is filed as AuditedCalls files it.
LEMMA FilesPromise ==
    ASSUME WholeLines, PromiseInv, NEW c \in Calls, Files(c),
           UNCHANGED <<sent, answered, executed>>
    PROVE  [Audit!Next]_(Audit!vars)
<1>1. PICK body \in Bodies : Filable(c, body) /\ Appends(body)
  BY DEF Files
<1>2. TypeOK /\ WholeLog
  BY DEF PromiseInv, ToldInv, FlowInv
<1>3. Trail' = Trail \/ Trail' = Append(Trail, Entry(body))
  BY <1>1, <1>2, TrailAppends
<1>4. CASE Trail' = Trail
  BY <1>4 DEF Audit!vars
<1>5. CASE Trail' = Append(Trail, Entry(body))
  <2>1. c \in (Calls \cap RangeOf(sent)) \ Audit!Filed
    BY <1>1, <1>2, FiledIsReceipted DEF Filable
  <2>2. body.call = c /\ (body.response = None <=> c \notin executed)
    <3>1. body.call = c /\ Faithful(body)'
      BY <1>1 DEF Filable
    <3>2. c # None
      BY ProxyAssumption DEF Requests
    <3> QED
      BY <3>1, <3>2 DEF Faithful
  <2>3. Entry(body) =
            [call |-> c,
             outcome |-> IF c \in Calls \cap executed THEN "answered" ELSE "blocked"]
    BY <2>2 DEF Entry
  <2>4. Audit!File(c)
    BY <1>5, <2>1, <2>3 DEF Audit!File
  <2> QED
    BY <2>4 DEF Audit!Next
<1> QED
  BY <1>3, <1>4, <1>5

LEMMA PromiseStep ==
    ASSUME WholeLines, PromiseInv, [Next]_vars
    PROVE  [Audit!Next]_(Audit!vars)
<1>1. Move
  BY Effects DEF PromiseInv, FilesInv
<1>2. TypeOK /\ WholeLog /\ FlowInv /\ FilesInv
  BY DEF PromiseInv, ToldInv, FlowInv
<1>3. Audit!Filed = Receipted
  BY <1>2, FiledIsReceipted
<1>4. ASSUME UNCHANGED <<sent, answered, executed, lines>> PROVE [Audit!Next]_(Audit!vars)
  BY <1>4, QuietMoves DEF Audit!vars
<1>5. ASSUME NEW m \in Requests, Sends(m) PROVE [Audit!Next]_(Audit!vars)
  <2>1. /\ m \notin RangeOf(sent) /\ RangeOf(sent') = RangeOf(sent) \cup {m}
        /\ UNCHANGED <<answered, executed, Trail>>
    BY <1>5, QuietMoves DEF Sends
  <2>2. CASE m \in Calls
    <3>1. Audit!Submit(m)
      BY <2>1, <2>2 DEF Audit!Submit
    <3> QED
      BY <2>2, <3>1 DEF Audit!Next
  <2>3. CASE m \notin Calls
    BY <2>1, <2>3 DEF Audit!vars
  <2> QED
    BY <2>2, <2>3
<1>6. ASSUME NEW m \in Requests, Executes(m) PROVE [Audit!Next]_(Audit!vars)
  <2>1. /\ m \in Piped /\ executed' = executed \cup {m}
        /\ UNCHANGED <<sent, answered, Trail>>
    BY <1>6, QuietMoves DEF Executes
  <2>2. CASE m \in Calls
    <3>1. m \in RangeOf(sent) /\ m \notin executed /\ Decision[m].action # "deny"
      BY <1>2, <2>1, <2>2 DEF FlowInv, IdsApart, Apart, NotYet, Gate
    <3>2. m \notin Receipted
      BY <1>2, <2>1 DEF FilesInv, Filing
    <3>3. Audit!Execute(m)
      BY <1>3, <2>1, <2>2, <3>1, <3>2 DEF Audit!Execute
    <3> QED
      BY <2>2, <3>3 DEF Audit!Next
  <2>3. CASE m \notin Calls
    BY <2>1, <2>3 DEF Audit!vars
  <2> QED
    BY <2>2, <2>3
<1>7. ASSUME NEW m \in Requests, Hears(m) PROVE [Audit!Next]_(Audit!vars)
  <2>1. /\ \E line \in RangeOf(toClient) : line.of = m
        /\ answered' = answered \cup {m}
        /\ UNCHANGED <<sent, executed, Trail>>
    BY <1>7, QuietMoves DEF Hears
  <2>2. CASE m \in Calls \ answered
    <3>1. m \in Receipted
      BY <2>1, <2>2 DEF PromiseInv, ToldInv, ReceiptBeforeAnswer, Receipted
    <3>2. Audit!Tell(m)
      BY <1>3, <2>1, <2>2, <3>1 DEF Audit!Tell
    <3> QED
      BY <2>2, <3>2 DEF Audit!Next
  <2>3. CASE m \notin Calls \ answered
    BY <2>1, <2>3 DEF Audit!vars
  <2> QED
    BY <2>2, <2>3
<1>8. ASSUME UNCHANGED <<sent, answered, executed>> PROVE [Audit!Next]_(Audit!vars)
  BY <1>1, <1>2, <1>4, <1>8, MoveFiles, FilesPromise
<1> QED
  BY <1>1, <1>4, <1>5, <1>6, <1>7, <1>8 DEF Move, Loses, Starts, Forwards, Responds, Relays,
     Asks, Records, Blocks, Dies

\* In all its interleavings, crashes and restarts the proxy keeps the
\* promises of AuditedCalls (proxy.py:122-245): a call is filed once, as
\* executed or as blocked, and the client is told only what is filed.
THEOREM PromisesKept == ASSUME WholeLines PROVE Spec => KeepsPromises
<1>1. Init => PromiseInv /\ Audit!Init
  <2> SUFFICES ASSUME Init PROVE PromiseInv /\ Audit!Init
    OBVIOUS
  <2>1. ToldInv
    BY ToldInv_Init
  <2>2. lines = <<>> /\ sent = <<>> /\ executed = {} /\ answered = {}
    BY DEF Init, Chain!Init
  <2>3. Legible = 0
    BY <2>2 DEF Legible
  <2>4. Trail = <<>>
    BY <2>3 DEF Trail
  <2>5. RangeOf(sent) = {}
    BY <2>2 DEF RangeOf
  <2> QED
    BY <2>1, <2>2, <2>4, <2>5, FilesInv_Init DEF PromiseInv, Audit!Init
<1>2. PromiseInv /\ [Next]_vars => PromiseInv' /\ [Audit!Next]_(Audit!vars)
  BY FilesInv_Next, ToldInv_Next, PromiseStep DEF PromiseInv
<1> QED
  BY <1>1, <1>2, PTL DEF Spec, KeepsPromises, Audit!Spec
=============================================================================
