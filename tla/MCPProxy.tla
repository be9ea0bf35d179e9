------------------------------ MODULE MCPProxy ------------------------------
(***************************************************************************)
(* `opensteps wrap`: src/opensteps/proxy.py between an MCP client and the  *)
(* MCP server it spawned, with the receipt log and the approval prompt.    *)
(*                                                                         *)
(*    client --fromClient--> client pump --toServer--> server              *)
(*    client <--toClient---- server pump <--fromServer--                   *)
(*                                                                         *)
(* run() starts two pump tasks and waits for the first to end; everything  *)
(* runs on one event loop, so what a handler does between two awaits is    *)
(* one action.  A handler suspends in three places: readline, drain of     *)
(* either stream, and the approval thread.  chain.append holds the chain   *)
(* lock without awaiting, so the lock is never contended.                  *)
(*                                                                         *)
(* A session is one process.  Sessions follow one another on the same log  *)
(* and the same terminal; each spawns its own server and serves its own    *)
(* client.                                                                 *)
(***************************************************************************)
EXTENDS Naturals, Sequences, FiniteSets

CONSTANTS
    Calls,        \* tools/call requests, each sent at most once
    Others,       \* every other line a client sends; passed through
    Id,           \* the JSON-RPC id of each, NoId for a notification
    Ids,
    NoId,
    Decision,     \* what Policy.evaluate says of each call
    Rules,        \* rule ids, "default" among them
    Failing,      \* lines whose handling raises before it does anything
    Fates,        \* what may be wrong with a line of the server
    ServerAsks,   \* ids of requests the server sends on its own
    ServerDies,   \* whether the server may exit at any time
    ProxyDies,    \* whether the proxy may be killed at any time
    HighWater,    \* lines a stream buffers before drain suspends
    MaxSessions,  \* bound on the sessions in one behaviour
    Proxy,        \* the one ChainWriter of a session
    None, NoHash, Closed, Garbage, Raised, Torn,  \* see ChainWriter
    User, Ttys, TypesLate                         \* see Approval

Requests == Calls \cup Others

Decisions == [action : {"allow", "deny", "approve"}, rule_id : Rules]

NoApprover == [approved |-> FALSE, approver_id |-> None, method |-> "none"]

Approvers ==
    {NoApprover} \cup
    {[approved |-> b, approver_id |-> User, method |-> "cli"] : b \in BOOLEAN}

\* PendingCall of a call; its tool and request_hash are those of the call
PendingCall(c, approver) ==
    [call |-> c, rule_id |-> Decision[c].rule_id, decision |-> Decision[c].action,
     approver_id |-> approver.approver_id, approver_method |-> approver.method,
     approver_decision |-> IF Decision[c].action = "approve" THEN "approved" ELSE None]

\* What a receipt says of a blocked call, whose response_hash is null
BlockedBody(c, approver) ==
    [call |-> c, response |-> None, rule_id |-> Decision[c].rule_id,
     decision |-> Decision[c].action, approver_id |-> approver.approver_id,
     approver_method |-> approver.method,
     approver_decision |-> IF Decision[c].action = "approve" THEN "rejected" ELSE None]

\* What it says of a call the server answered; response is the request whose
\* result response_hash hashes
AnsweredBody(call, response) ==
    [call |-> call.call, response |-> response, rule_id |-> call.rule_id,
     decision |-> call.decision, approver_id |-> call.approver_id,
     approver_method |-> call.approver_method,
     approver_decision |-> call.approver_decision]

PendingCalls == {PendingCall(c, approver) : c \in Calls, approver \in Approvers}

Bodies ==
    {BlockedBody(c, approver) : c \in Calls, approver \in Approvers} \cup
    {AnsweredBody(call, response) : call \in PendingCalls, response \in Requests}

\* of is the request a response answers, which the proxy cannot see
ServerLines ==
    [kind : {"response"}, id : Ids, of : Requests,
     fate : {"plain", "unhashable", "oversize"}] \cup
    [kind : {"request"}, id : Ids, of : {None}, fate : {"plain"}]

ClientLines ==
    [kind : {"response", "request", "blocked"}, id : Ids \cup {NoId},
     of : Requests \cup {None}]

ASSUME ProxyAssumption ==
    /\ Id \in [Requests -> Ids \cup {NoId}]
    /\ \A c \in Calls : Id[c] \in Ids
    /\ Decision \in [Calls -> Decisions]
    /\ Calls \cap Others = {}
    /\ None \notin Requests \cup Bodies \cup PendingCalls
    /\ None # "approved" /\ None # "rejected"
    /\ NoId \notin Ids
    /\ Failing \subseteq Requests
    /\ "plain" \in Fates /\ Fates \subseteq {"plain", "unhashable", "oversize"}
    /\ ServerAsks \subseteq Ids
    /\ ServerDies \in BOOLEAN /\ ProxyDies \in BOOLEAN
    /\ HighWater \in Nat /\ MaxSessions \in Nat
    /\ Ttys \subseteq BOOLEAN /\ TypesLate \in BOOLEAN

VARIABLES
    \* the client
    client,       \* "open", or "closed" once it closed its end
    sent,         \* history: what it sent, in order
    outstanding,  \* sent in this session and not answered
    answered,     \* history: what it got an answer to
    \* the four streams
    fromClient, toServer, fromServer, toClient,
    \* the wrapped server
    server,       \* "up" or "down"
    stdin,        \* its stdin: "open" or "closed"
    executing,    \* requests it read and has not answered
    executed,     \* history: requests it ever read
    asks,         \* ids it may still send requests with
    \* the proxy
    main,         \* where run() is
    clientPump, serverPump,  \* where the pump tasks are suspended
    pending,      \* _pending, None for an absent key
    sessions,
    \* the receipt log and the approval prompt
    lines, ended, prev_hash, uuids,
    asking, result, tty, typed

clientVars == <<client, sent, outstanding, answered>>
serverVars == <<server, executing, executed, asks>>
chainVars == <<lines, ended, prev_hash, uuids>>
promptVars == <<asking, result, tty, typed>>
memory == <<pending, chainVars, promptVars>>
proxyVars == <<main, clientPump, serverPump, sessions, memory>>
outsideVars == <<clientVars, serverVars, stdin>>
streams == <<fromClient, toServer, fromServer, toClient>>
vars == <<outsideVars, streams, proxyVars>>

\* What the client pump, and the server pump, never change
besideClientPump == <<outsideVars, fromServer, main, serverPump, sessions>>
besideServerPump == <<outsideVars, fromClient, toServer, main, clientPump, sessions, promptVars>>

Chain == INSTANCE ChainWriter WITH Writers <- {Proxy}, OneWriter <- TRUE
Prompt == INSTANCE Approval

ASSUME LogAssumption ==
    /\ Raised \subseteq Chain!Extents /\ Torn \subseteq Chain!Extents
    /\ NoHash \notin Nat /\ Closed \notin Nat /\ NoHash # Closed
    /\ Garbage \notin Chain!Receipts
    /\ None \notin Prompt!ApprovalResults

RangeOf(s) == {s[i] : i \in 1 .. Len(s)}

Init ==
    /\ client = "closed" /\ sent = <<>> /\ outstanding = {} /\ answered = {}
    /\ fromClient = <<>> /\ toServer = <<>> /\ fromServer = <<>> /\ toClient = <<>>
    /\ server = "down" /\ stdin = "closed"
    /\ executing = {} /\ executed = {} /\ asks = {}
    /\ main = "down" /\ clientPump = "done" /\ serverPump = "done"
    /\ pending = [i \in Ids |-> None]
    /\ sessions = 0
    /\ Chain!Init /\ Prompt!Init

-----------------------------------------------------------------------------
(* The client and the server, as the MCP stdio transport lets them behave. *)

Running == main \in {"waiting", "closing", "terminating"}

\* A client sends a request, never under the id of one that is outstanding.
ClientSend(m) ==
    /\ Running /\ client = "open"
    /\ m \notin RangeOf(sent)
    /\ \A n \in outstanding : Id[n] # Id[m] \/ Id[m] = NoId
    /\ sent' = Append(sent, m)
    /\ outstanding' = outstanding \cup {m}
    /\ fromClient' = Append(fromClient, m)
    /\ UNCHANGED <<client, answered, toServer, fromServer, toClient, serverVars, stdin,
                   proxyVars>>

\* The client takes a line; an answer is the one to its outstanding request
\* of that id.
ClientReceive ==
    /\ toClient # <<>>
    /\ LET line == Head(toClient)
           done == {n \in outstanding : Id[n] = line.id /\ line.kind # "request"}
       IN  /\ outstanding' = outstanding \ done
           /\ answered' = answered \cup done
    /\ toClient' = Tail(toClient)
    /\ UNCHANGED <<client, sent, fromClient, toServer, fromServer, serverVars, stdin,
                   proxyVars>>

ClientClose ==
    /\ Running /\ client = "open"
    /\ client' = "closed"
    /\ UNCHANGED <<sent, outstanding, answered, streams, serverVars, stdin, proxyVars>>

\* The server reads a line and starts to work on it.
ServerReceive ==
    /\ server = "up" /\ toServer # <<>>
    /\ executing' = executing \cup {Head(toServer)}
    /\ executed' = executed \cup {Head(toServer)}
    /\ toServer' = Tail(toServer)
    /\ UNCHANGED <<clientVars, fromClient, fromServer, toClient, server, stdin, asks,
                   proxyVars>>

\* It answers what it works on in any order, each request once.
ServerRespond(m, fate) ==
    /\ server = "up" /\ m \in executing /\ Id[m] # NoId
    /\ executing' = executing \ {m}
    /\ fromServer' = Append(fromServer,
           [kind |-> "response", id |-> Id[m], of |-> m, fate |-> fate])
    /\ UNCHANGED <<clientVars, fromClient, toServer, toClient, server, stdin, executed,
                   asks, proxyVars>>

\* It sends requests of its own, whose ids are its own too.
ServerRequest(i) ==
    /\ server = "up" /\ i \in asks
    /\ asks' = asks \ {i}
    /\ fromServer' = Append(fromServer,
           [kind |-> "request", id |-> i, of |-> None, fate |-> "plain"])
    /\ UNCHANGED <<clientVars, fromClient, toServer, toClient, server, stdin,
                   executing, executed, proxyVars>>

\* It exits when its stdin ends, when it is terminated, or of its own accord.
ServerExit ==
    /\ server = "up"
    /\ \/ stdin = "closed" /\ toServer = <<>>
       \/ main = "terminating"
       \/ ServerDies
    /\ server' = "down"
    /\ executing' = {}
    /\ toServer' = <<>>
    /\ UNCHANGED <<clientVars, fromClient, fromServer, toClient, stdin, executed, asks,
                   proxyVars>>

-----------------------------------------------------------------------------
(* Lines the proxy writes. *)

ServerReads == server = "up" /\ stdin = "open"

\* _write_server up to its drain: a closed or broken pipe drops the line
_write_server(m) ==
    toServer' = IF ServerReads THEN Append(toServer, m) ELSE toServer

_write_client(line) == toClient' = Append(toClient, line)

Passed(line) == [kind |-> line.kind, id |-> line.id, of |-> line.of]

Blocked(c) == [kind |-> "blocked", id |-> Id[c], of |-> c]

-----------------------------------------------------------------------------
(* The client pump. *)

Reading == clientPump = "read" /\ fromClient # <<>>

\* _handle_client_line of anything but a tools/call
PassThrough ==
    /\ Reading
    /\ Head(fromClient) \in Others \ Failing
    /\ fromClient' = Tail(fromClient)
    /\ _write_server(Head(fromClient))
    /\ clientPump' = "drain_server"
    /\ UNCHANGED <<besideClientPump, toClient, memory>>

\* A line that is too long, or a call that cannot be hashed or evaluated:
\* the exception ends the pump.
ClientLineFails ==
    /\ Reading
    /\ Head(fromClient) \in Failing
    /\ fromClient' = Tail(fromClient)
    /\ clientPump' = "done"
    /\ UNCHANGED <<besideClientPump, toServer, toClient, memory>>

NextCall(c, action) ==
    /\ Reading
    /\ c = Head(fromClient)
    /\ c \in Calls \ Failing
    /\ Decision[c].action = action
    /\ fromClient' = Tail(fromClient)

\* Mutants of Remember: nothing is remembered, or the call as it came
Remember_not(c, approver) == UNCHANGED pending
Remember_bare(c, approver) == pending' = [pending EXCEPT ![Id[c]] = c]

\* _pending[msg["id"]] = PendingCall(...)
Remember(c, approver) == pending' = [pending EXCEPT ![Id[c]] = PendingCall(c, approver)]

Forward(c, approver) ==
    /\ Remember(c, approver)
    /\ _write_server(c)
    /\ clientPump' = "drain_server"
    /\ UNCHANGED <<toClient, chainVars>>

\* Mutant of _record_and_block: the client is told, nothing is recorded
_record_and_block_unlogged(c, approver) ==
    /\ _write_client(Blocked(c))
    /\ clientPump' = "drain_client"
    /\ UNCHANGED <<toServer, pending, chainVars>>

\* The receipt first, then the tool error for the client; a failing append
\* ends the pump.
_record_and_block(c, approver) ==
    /\ \/ /\ Chain!append(Proxy, BlockedBody(c, approver))
          /\ _write_client(Blocked(c))
          /\ clientPump' = "drain_client"
       \/ /\ \E extent \in Raised :
                Chain!append_raises(Proxy, BlockedBody(c, approver), extent)
          /\ clientPump' = "done"
          /\ UNCHANGED toClient
    /\ UNCHANGED <<toServer, pending>>

AllowCall(c) ==
    /\ NextCall(c, "allow")
    /\ Forward(c, NoApprover)
    /\ UNCHANGED <<besideClientPump, promptVars>>

DenyCall(c) ==
    /\ NextCall(c, "deny")
    /\ _record_and_block(c, NoApprover)
    /\ UNCHANGED <<besideClientPump, promptVars>>

AskApproval(c) ==
    /\ NextCall(c, "approve")
    /\ Prompt!request_approval(c)
    /\ clientPump' = "approval"
    /\ UNCHANGED <<besideClientPump, toServer, toClient, pending, chainVars>>

\* Mutant of Approved: a result of whatever kind
Approved_regardless == TRUE

Approved == result.approved

\* The pump resumes with the thread's result.
ApprovalReturns ==
    /\ clientPump = "approval" /\ result # None
    /\ Prompt!Take
    /\ IF Approved THEN Forward(asking, result)
                   ELSE _record_and_block(asking, result)
    /\ UNCHANGED <<besideClientPump, fromClient>>

\* The thread raised instead, over a line it cannot decode or a user it
\* cannot name (approval.py:46,68); the exception ends the pump.
ApprovalRaises ==
    /\ clientPump = "approval" /\ result \notin {None, Prompt!NoTtyResult}
    /\ Prompt!Take
    /\ clientPump' = "done"
    /\ UNCHANGED <<besideClientPump, fromClient, toServer, toClient, pending, chainVars>>

\* drain returns once the transport has resumed writing.
BelowMark(stream) == Len(stream) <= HighWater

\* drain of the server's stdin returns, or raises once the pipe is gone
DrainServer ==
    /\ clientPump = "drain_server"
    /\ ServerReads => BelowMark(toServer)
    /\ clientPump' \in IF ServerReads THEN {"read"} ELSE {"read", "done"}
    /\ UNCHANGED <<besideClientPump, fromClient, toServer, toClient, memory>>

\* drain of the client's stream, which may raise once the client is gone
Drained(pump) ==
    /\ pump = "drain_client"
    /\ BelowMark(toClient) \/ client = "closed"

AfterDrain == IF client = "open" THEN {"read"} ELSE {"read", "done"}

ClientPumpDrained ==
    /\ Drained(clientPump)
    /\ clientPump' \in AfterDrain
    /\ UNCHANGED <<besideClientPump, fromClient, toServer, toClient, memory>>

\* readline returns b"" at the end of the client's stream
ClientEOF ==
    /\ clientPump = "read" /\ fromClient = <<>> /\ client = "closed"
    /\ clientPump' = "done"
    /\ UNCHANGED <<besideClientPump, fromClient, toServer, toClient, memory>>

-----------------------------------------------------------------------------
(* The server pump. *)

ServerLine(line) ==
    /\ serverPump = "read" /\ fromServer # <<>>
    /\ line = Head(fromServer)
    /\ fromServer' = Tail(fromServer)

\* Mutant of IsAnswer: any line whose id is pending
IsAnswer_any_kind(line) == pending[line.id] # None

IsAnswer(line) == line.kind = "response" /\ pending[line.id] # None

\* Not the answer to a pending call: verbatim to the client
RelayLine ==
    /\ \E line \in RangeOf(fromServer) :
          /\ ServerLine(line)
          /\ line.fate # "oversize" /\ ~IsAnswer(line)
          /\ _write_client(Passed(line))
    /\ serverPump' = "drain_client"
    /\ UNCHANGED <<besideServerPump, pending, chainVars>>

\* Mutant of Pop: the entry is read and stays
Pop_not(i) == UNCHANGED pending

Pop(i) == pending' = [pending EXCEPT ![i] = None]

\* Mutant of AppendFails: a receipt that cannot be written is let pass
AppendFails_best_effort(line) ==
    /\ _write_client(Passed(line))
    /\ serverPump' = "drain_client"

\* The exception of an append leaves the pump before the line is delivered.
AppendFails(line) == serverPump' = "done" /\ UNCHANGED toClient

\* The answer to a pending call: popped, hashed, receipted, delivered; an
\* exception on the way ends the pump.
RecordAnswer ==
    /\ \E line \in RangeOf(fromServer) :
          /\ ServerLine(line)
          /\ line.fate # "oversize" /\ IsAnswer(line)
          /\ Pop(line.id)
          /\ LET body == AnsweredBody(pending[line.id], line.of) IN
             \/ /\ line.fate = "plain"
                /\ Chain!append(Proxy, body)
                /\ _write_client(Passed(line))
                /\ serverPump' = "drain_client"
             \/ /\ line.fate = "plain"
                /\ \E extent \in Raised : Chain!append_raises(Proxy, body, extent)
                /\ AppendFails(line)
             \/ /\ line.fate = "unhashable"
                /\ serverPump' = "done"
                /\ UNCHANGED <<toClient, chainVars>>
    /\ UNCHANGED besideServerPump

\* readline raises on a line beyond its limit
ServerLineFails ==
    /\ \E line \in RangeOf(fromServer) : ServerLine(line) /\ line.fate = "oversize"
    /\ serverPump' = "done"
    /\ UNCHANGED <<besideServerPump, toClient, pending, chainVars>>

ServerEOF ==
    /\ serverPump = "read" /\ fromServer = <<>> /\ server = "down"
    /\ serverPump' = "done"
    /\ UNCHANGED <<besideServerPump, fromServer, toClient, pending, chainVars>>

ServerPumpDrained ==
    /\ Drained(serverPump)
    /\ serverPump' \in AfterDrain
    /\ UNCHANGED <<besideServerPump, fromServer, toClient, pending, chainVars>>

-----------------------------------------------------------------------------
(* run() and the process around it. *)

\* Mutant of OpenLog: the log is truncated
OpenLog_truncates ==
    /\ lines' = <<>> /\ ended' = TRUE
    /\ prev_hash' = [prev_hash EXCEPT ![Proxy] = NoHash]
    /\ UNCHANGED uuids

OpenLog == Chain!Open(Proxy)

\* _cmd_wrap: a new process opens the log and spawns its server.  The one
\* before it is gone, its prompt thread included.
Start ==
    /\ main \in {"down", "exited", "crashed"}
    /\ server = "down" /\ (asking = None \/ result # None)
    /\ sessions < MaxSessions
    /\ OpenLog
    /\ Prompt!Kill
    /\ sessions' = sessions + 1
    /\ client' = "open" /\ outstanding' = {}
    /\ fromClient' = <<>> /\ toServer' = <<>> /\ fromServer' = <<>> /\ toClient' = <<>>
    /\ server' = "up" /\ stdin' = "open" /\ executing' = {} /\ asks' = ServerAsks
    /\ main' = "waiting" /\ clientPump' = "read" /\ serverPump' = "read"
    /\ pending' = [i \in Ids |-> None]
    /\ UNCHANGED <<sent, answered, executed>>

\* Mutant of FirstCompleted: asyncio.wait for all of them
FirstCompleted_all == clientPump = "done" /\ serverPump = "done"

FirstCompleted == "done" \in {clientPump, serverPump}

\* One pump has ended: close the server's stdin
CloseStdin ==
    /\ main = "waiting" /\ FirstCompleted
    /\ main' = "closing"
    /\ stdin' = "closed"
    /\ UNCHANGED <<clientVars, streams, serverVars, clientPump, serverPump, sessions, memory>>

\* wait_for runs into its 5 s and the server gets SIGTERM
Terminate ==
    /\ main = "closing" /\ server = "up"
    /\ main' = "terminating"
    /\ UNCHANGED <<outsideVars, streams, clientPump, serverPump, sessions, memory>>

\* The server has exited: the pumps are cancelled where they are and run()
\* returns.  A prompt thread goes on until it has its result.
Exit ==
    /\ main \in {"closing", "terminating"} /\ server = "down"
    /\ main' = "exited"
    /\ clientPump' = "done" /\ serverPump' = "done"
    /\ Chain!Close(Proxy)
    /\ UNCHANGED <<outsideVars, streams, pending, sessions, promptVars>>

\* The receipts whose append could be under way
NextBodies ==
    {BlockedBody(c, NoApprover) : c \in
        {c \in Calls \ Failing :
            Reading /\ c = Head(fromClient) /\ Decision[c].action = "deny"}}
    \cup {BlockedBody(c, result) : c \in
        {c \in Calls : clientPump = "approval" /\ c = asking /\ result # None /\ ~Approved}}
    \cup {AnsweredBody(pending[line.id], line.of) : line \in
        {line \in RangeOf(fromServer) :
            /\ serverPump = "read" /\ line = Head(fromServer)
            /\ line.fate = "plain" /\ IsAnswer(line)}}

\* The process is killed, perhaps inside an append; its server reads the end
\* of its stdin.
Crash ==
    /\ ProxyDies /\ Running
    /\ \/ Chain!Close(Proxy)
       \/ \E body \in NextBodies, extent \in Torn : Chain!append_dies(Proxy, body, extent)
    /\ main' = "crashed" /\ clientPump' = "done" /\ serverPump' = "done"
    /\ stdin' = "closed" /\ client' = "closed"
    /\ Prompt!Kill
    /\ UNCHANGED <<sent, outstanding, answered, streams, serverVars, pending, sessions>>

PromptThread ==
    /\ Prompt!ReadAnswer \/ Prompt!PromptTimeout
    /\ UNCHANGED <<outsideVars, streams, main, clientPump, serverPump, pending, sessions,
                   chainVars>>

Human ==
    /\ \E c \in Calls, says \in {"y", "n"} : Prompt!Type(c, says)
    /\ UNCHANGED <<outsideVars, streams, main, clientPump, serverPump, pending, sessions,
                   chainVars>>

-----------------------------------------------------------------------------

ClientPumpStep ==
    \/ PassThrough \/ ClientLineFails \/ ApprovalReturns \/ ApprovalRaises
    \/ DrainServer \/ ClientPumpDrained \/ ClientEOF
    \/ \E c \in Calls : AllowCall(c) \/ DenyCall(c) \/ AskApproval(c)

ServerPumpStep ==
    RelayLine \/ RecordAnswer \/ ServerLineFails \/ ServerEOF \/ ServerPumpDrained

Run == CloseStdin \/ Terminate \/ Exit

Respond == \E m \in executing, fate \in Fates : ServerRespond(m, fate)

Next ==
    \/ ClientPumpStep \/ ServerPumpStep \/ Run \/ PromptThread
    \/ Start \/ Crash
    \/ \E m \in Requests : ClientSend(m)
    \/ ClientReceive \/ ClientClose
    \/ ServerReceive \/ Respond \/ ServerExit
    \/ \E i \in Ids : ServerRequest(i)
    \/ Human

\* The event loop runs every task that can run, and the select of a prompt
\* ends; a live server reads its stdin, answers and dies of SIGTERM; a
\* client that has not closed reads what it gets.
Fairness ==
    /\ WF_vars(ClientPumpStep) /\ WF_vars(ServerPumpStep) /\ WF_vars(Run)
    /\ WF_vars(PromptThread)
    /\ WF_vars(ServerReceive) /\ WF_vars(Respond)
    /\ WF_vars(main = "terminating" /\ ServerExit)
    /\ WF_vars(client = "open" /\ ClientReceive)

Spec == Init /\ [][Next]_vars

FairSpec == Spec /\ Fairness

-----------------------------------------------------------------------------
(* Properties. *)

\* The types of the streams, the session and the proxy's memory
\* (proxy.py:41-59).
ProxyTypeOK ==
    /\ client \in {"open", "closed"}
    /\ sent \in Seq(Requests)
    /\ outstanding \subseteq Requests /\ answered \subseteq Requests
    /\ fromClient \in Seq(Requests) /\ toServer \in Seq(Requests)
    /\ fromServer \in Seq(ServerLines) /\ toClient \in Seq(ClientLines)
    /\ server \in {"up", "down"} /\ stdin \in {"open", "closed"}
    /\ executing \subseteq Requests /\ executed \subseteq Requests
    /\ asks \subseteq Ids
    /\ main \in {"down", "waiting", "closing", "terminating", "exited", "crashed"}
    /\ clientPump \in {"read", "approval", "drain_server", "drain_client", "done"}
    /\ serverPump \in {"read", "drain_client", "done"}
    /\ pending \in [Ids -> PendingCalls \cup {None}]
    /\ sessions \in Nat

TypeOK == ProxyTypeOK /\ Chain!TypeOK /\ Prompt!TypeOK

Log == {lines[i] : i \in 1 .. Len(lines)} \ {Garbage}

\* proxy.py:195-214 and 234-245: whatever the client has been told about a
\* call, by the server or by the proxy, a receipt saying so was in the log
\* before.
ReceiptBeforeAnswer ==
    /\ \A c \in Calls \cap answered : \E r \in Log : r.body.call = c
    /\ \A line \in RangeOf(toClient) : line.of \in Calls =>
          \E r \in Log : /\ r.body.call = line.of
                         /\ r.body.response = IF line.kind = "blocked" THEN None ELSE line.of

\* proxy.py:230: however ids are reused and answers reordered, a call gets
\* one receipt at most, also across restarts.
OneReceiptPerCall ==
    \A i, j \in 1 .. Len(lines) :
        lines[i] # Garbage /\ lines[j] # Garbage /\ lines[i].body.call = lines[j].body.call
            => i = j

\* SCHEMA.md:41-46: a receipt carries the policy's decision on its own call,
\* the response to that very call, and a null response only if the call
\* never reached the server.
ReceiptsFaithful ==
    \A r \in Log :
        LET c == r.body.call IN
        /\ r.body.rule_id = Decision[c].rule_id /\ r.body.decision = Decision[c].action
        /\ IF r.body.response = None
              THEN c \notin executed \cup RangeOf(toServer) /\ Decision[c].action # "allow"
              ELSE r.body.response = c /\ c \in executed /\ Decision[c].action # "deny"

\* README.md:66-68: the server never sees a call that policy denied, and it
\* sees no more approval-gated calls than the human answered with a yes.
OnlyPermittedReachServer ==
    LET seen == Calls \cap (executed \cup RangeOf(toServer))
        gated == {c \in seen : Decision[c].action = "approve"}
    IN  /\ \A c \in seen : Decision[c].action # "deny"
        /\ Cardinality(gated) <= Cardinality({c \in Calls : typed[c] = "y"})

\* proxy.py:130-136,149-158: while a session lasts, every call on its way to
\* the server, in it or on its way back is the one remembered under its id,
\* so that its answer will be receipted.
InFlightIsPending ==
    main \in {"waiting", "closing", "terminating"} =>
        \A c \in Calls :
            c \in RangeOf(toServer) \cup executing \cup {l.of : l \in RangeOf(fromServer)}
                => pending[Id[c]] # None /\ pending[Id[c]].call = c

\* proxy.py:130,149: an entry of _pending is never overwritten by another
\* call's while its own answer is still to come.
PendingNotOverwritten ==
    [][\A i \in Ids : pending[i] # None /\ pending'[i] # pending[i]
            => pending'[i] = None]_vars

\* The chain of the log survives the proxy's crashes and restarts: every
\* step of the proxy is a step of ChainWriter or leaves the log alone.
LogIsChain == Chain!Spec

\* What a receipt says, as AuditedCalls files it
Entry(body) ==
    [call |-> body.call,
     outcome |-> IF body.response = None THEN "blocked" ELSE "answered"]

\* The lines but an unfinished last one
Legible ==
    IF lines # <<>> /\ lines[Len(lines)] = Garbage THEN Len(lines) - 1 ELSE Len(lines)

Trail == [i \in 1 .. Legible |-> Entry(lines[i].body)]

Audit == INSTANCE AuditedCalls WITH
    Denied <- {c \in Calls : Decision[c].action = "deny"},
    submitted <- Calls \cap RangeOf(sent),
    executed <- Calls \cap executed,
    trail <- Trail,
    told <- Calls \cap answered

\* The proxy keeps the promises of AuditedCalls (proxy.py:122-245): in all
\* its interleavings, crashes and restarts a call is filed once, as executed
\* or as blocked, and the client is told only what is filed.
KeepsPromises == Audit!Spec

\* SCHEMA.md:69-73 across crashes and restarts of the proxy: at most the last
\* line of the log is damaged, and every line before it verifies.
LogLinkedButTail == Chain!ChainLinkedButTail

\* README.md:64-68: while a session lasts every request is answered, by the
\* server or by a block notice (proxy.py:107-245).
RequestsEnd ==
    \A m \in Requests : m \in outstanding /\ Id[m] # NoId ~> m \notin outstanding \/ main # "waiting"

\* proxy.py:72-86: once the client has hung up or a pump has died the proxy
\* exits, a server that ignores the end of its stdin notwithstanding.
SessionEnds ==
    /\ Running /\ client = "closed" ~> ~Running
    /\ Running /\ "done" \in {clientPump, serverPump} ~> ~Running

\* README.md:3-5,20: when the proxy has exited of its own accord, every call
\* the server was given has a receipt.
EveryCallReceipted ==
    main = "exited" => \A c \in Calls \cap executed : \E r \in Log : r.body.call = c

\* approval.py:4-6: an approval-gated call reaches the server only if the
\* human said yes to its own prompt.
ApprovedByItsAnswer ==
    \A c \in Calls \cap (executed \cup RangeOf(toServer)) :
        Decision[c].action = "approve" => typed[c] = "y"
=============================================================================
