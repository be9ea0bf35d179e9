------------------------------- MODULE Gateway -------------------------------
(***************************************************************************)
(* The legacy backend's gateway, its approvals and its policies, on the    *)
(* event chain of Ledger and with the engine of PolicyEngine:              *)
(* legacy/backend/app/services/gateway.py, approvals.py and policies.py,   *)
(* api/gateway.py, api/approvals.py, api/policies.py and connectors/.      *)
(*                                                                         *)
(* Workers handle HTTP requests concurrently, each in a transaction of its *)
(* own.  A handler is a sequence of database round trips; job[w].at is the *)
(* one it is about to make.  What a transaction writes becomes visible at  *)
(* its commit.  Only append takes a lock, and the INSERT of a policy waits *)
(* for it: an approval may change between the moment decide or             *)
(* list_approvals reads it and the moment they write, and the text of a    *)
(* policy while a call that it decided is under way.                       *)
(*                                                                         *)
(* One tenant, one run, agents and users that exist and may act, requests  *)
(* with good signatures: a request that fails those checks returns before  *)
(* it touches the database (gateway.py:53-63).                             *)
(***************************************************************************)
EXTENDS PolicyEngine, Sequences, FiniteSetsExt

CONSTANTS
    Workers,
    Calls,       \* scopes: <<agent, tool, action, resource>>
    Supported,   \* those that some connector can carry out
    Documents,   \* policies that somebody may have saved or try to save
    InitialPolicies,    \* the policy table at the start
    None,
    Failures,    \* whether a handler may raise, or the process die, anywhere
    MaxJobs,     \* bound on the requests handled
    NoHash, Free, Jumps    \* see Ledger

PolicyDecisions == {"allowed", "denied", "approval_required"}

EventTypes ==
    {"agent.request_received", "policy.evaluated", "tool_call.failed",
     "approval.required", "tool_call.requested", "tool_call.completed",
     "approval.granted", "approval.rejected"}

\* parent is a parent_event_id; an approval has the id of its approval.required
\* event, which is its requested_event_id
Data == [type : EventTypes, call : Calls, approval : Nat \cup {None},
         decision : PolicyDecisions \cup {None}, parent : Nat \cup {None}]

Statuses == {"pending", "approved", "rejected", "expired"}

Approvals == [status : Statuses, scope : Calls]

ASSUME GatewayAssumption ==
    /\ Supported \subseteq Calls
    /\ \A call \in Calls : DOMAIN call = 1 .. 4
    /\ \A document \in Documents : DOMAIN document.rules \subseteq Nat
    /\ InitialPolicies \subseteq Seq([document : Documents, committed : BOOLEAN])
    /\ None \notin Nat \cup Calls \cup PolicyDecisions
    /\ Failures \in BOOLEAN
    /\ MaxJobs \in Nat

VARIABLES
    events, staged, lock, sharers, clock, ids,   \* see Ledger
    approvals,   \* the committed approvals, by id
    overdue,     \* those whose expires_at has passed
    policies,    \* the policies by created_at, each [document, committed]
    job,         \* what each worker is doing
    jobs,        \* how many requests have been taken
    executed     \* history: what the connectors did, each
                 \* [call, approval, decision, request]

ledgerVars == <<events, staged, lock, sharers, clock, ids>>
tables == <<approvals, overdue, policies>>
vars == <<ledgerVars, tables, job, jobs, executed>>

L == INSTANCE Ledger WITH Sessions <- Workers

ASSUME LegacyLedgerAssumption ==
    NoHash \notin Nat /\ Free \notin Workers /\ Jumps \subseteq Int

Idle == [at |-> "idle", call |-> None, approval |-> None, status |-> None,
         parent |-> None, decision |-> None, policy |-> 0, expiring |-> {}]

Init ==
    /\ L!Init
    /\ approvals = <<>>
    /\ overdue = {}
    /\ policies \in InitialPolicies
    /\ job = [w \in Workers |-> Idle]
    /\ jobs = 0
    /\ executed = {}

Begin(w, new) ==
    /\ job[w] = Idle
    /\ jobs < MaxJobs
    /\ jobs' = jobs + 1
    /\ job' = [job EXCEPT ![w] = new]

\* The job w has when it goes on to the next round trip
At(w, next) == [job[w] EXCEPT !.at = next]

\* ledger_service.append of an event about the job, whose child the next one is
Log(w, type, approval, new) ==
    /\ L!append(w, [type |-> type, call |-> new.call, approval |-> approval,
                    decision |-> new.decision, parent |-> new.parent])
    /\ job' = [job EXCEPT ![w] = [new EXCEPT !.parent = ids + 1]]
    /\ UNCHANGED <<tables, jobs, executed>>

\* The transaction is rolled back: the handler raises
Drop(w) ==
    /\ L!Rollback(w)
    /\ job' = [job EXCEPT ![w] = Idle]
    /\ UNCHANGED <<tables, jobs, executed>>

-----------------------------------------------------------------------------
(* POST /policies and PUT /policies/{id} *)

\* created_at is stamped before the INSERT is sent.
create_policy(w, document) ==
    /\ Accepted(document)
    /\ Begin(w, [Idle EXCEPT !.at = "insert", !.policy = Len(policies) + 1])
    /\ policies' = Append(policies, [document |-> document, committed |-> FALSE])
    /\ UNCHANGED <<ledgerVars, approvals, overdue, executed>>

\* Mutant of InsertPolicy: the INSERT does not wait for the tenant row
InsertPolicy_unlocked(w) ==
    /\ job[w].at = "insert"
    /\ job' = [job EXCEPT ![w].at = "save"]
    /\ UNCHANGED <<ledgerVars, tables, jobs, executed>>

InsertPolicy(w) ==
    /\ job[w].at = "insert"
    /\ L!insert(w)
    /\ job' = [job EXCEPT ![w].at = "save"]
    /\ UNCHANGED <<tables, jobs, executed>>

\* One UPDATE, which locks no tenant
update_policy(p, document) ==
    /\ jobs < MaxJobs
    /\ policies[p].committed /\ policies[p].document # document
    /\ Accepted(document)
    /\ policies' = [policies EXCEPT ![p].document = document]
    /\ jobs' = jobs + 1
    /\ UNCHANGED <<ledgerVars, approvals, overdue, job, executed>>

\* The policy that evaluate takes, 0 for none
Newest == Max({0} \cup {p \in DOMAIN policies : policies[p].committed})

evaluate(call) ==
    IF Newest = 0 THEN "denied" ELSE evaluate_document(policies[Newest].document, call)

-----------------------------------------------------------------------------
(* POST /gateway/tool-call *)

Unknown == 0    \* the id of no approval

ToolCall(w, c, a) ==
    /\ Begin(w, [Idle EXCEPT !.at = "receive", !.call = c, !.approval = a])
    /\ UNCHANGED <<ledgerVars, tables, executed>>

Receive(w) ==
    /\ job[w].at = "receive"
    /\ Log(w, "agent.request_received", None, At(w, "evaluate"))

Evaluate(w) ==
    /\ job[w].at = "evaluate"
    /\ \E decision \in {evaluate(job[w].call)} \ {"raises"} :
          Log(w, "policy.evaluated", None,
              [job[w] EXCEPT !.at = "authorize", !.policy = Newest, !.decision = decision])

EvaluateRaises(w) ==
    job[w].at = "evaluate" /\ evaluate(job[w].call) = "raises" /\ Drop(w)

\* Mutant of Deny: the refusal is not recorded
Deny_silently(w) ==
    /\ job[w].at = "authorize" /\ job[w].decision = "denied"
    /\ job' = [job EXCEPT ![w].at = "commit"]
    /\ UNCHANGED <<ledgerVars, tables, jobs, executed>>

Deny(w) ==
    /\ job[w].at = "authorize" /\ job[w].decision = "denied"
    /\ Log(w, "tool_call.failed", None, At(w, "commit"))

\* Mutant of validate_approval: the scope is not compared
validate_approval_any_scope(a, c) ==
    a \in DOMAIN approvals /\ approvals[a].status = "approved" /\ a \notin overdue

\* What validate_approval reads is committed by other transactions.
validate_approval(a, c) ==
    /\ a \in DOMAIN approvals
    /\ approvals[a].status = "approved"
    /\ a \notin overdue
    /\ approvals[a].scope = c

RefuseApproval(w) ==
    /\ job[w].at = "authorize" /\ job[w].decision # "denied"
    /\ job[w].approval \in DOMAIN approvals
    /\ ~validate_approval(job[w].approval, job[w].call)
    /\ Log(w, "tool_call.failed", job[w].approval, At(w, "commit"))

\* The event of the refusal refers to the approval, which the foreign key
\* events.approval_id does not let it do if there is none (0001_initial.py).
RefuseUnknown(w) ==
    /\ job[w].at = "authorize" /\ job[w].decision # "denied"
    /\ job[w].approval \notin DOMAIN approvals \cup {None}
    /\ Drop(w)

\* The event, and an Approval that is committed with it
RequireApproval(w) ==
    /\ job[w].at = "authorize" /\ job[w].decision = "approval_required"
    /\ job[w].approval = None
    /\ Log(w, "approval.required", None, At(w, "create"))

Request(w) ==
    /\ job[w].at = "authorize" /\ job[w].decision # "denied"
    /\ IF job[w].approval = None
          THEN job[w].decision = "allowed"
          ELSE validate_approval(job[w].approval, job[w].call)
    /\ Log(w, "tool_call.requested", job[w].approval, At(w, "execute"))

\* What connector.execute may do: whether it acts, and whether it returns.  A
\* call that no connector supports raises before anything is done.
execute(call) ==
    [acts : {FALSE}, next : {"fail"}]
    \cup IF call \in Supported THEN [acts : {TRUE}, next : {"complete", "fail"}] ELSE {}

Execute(w) ==
    /\ job[w].at = "execute"
    /\ \E result \in execute(job[w].call) :
          /\ job' = [job EXCEPT ![w].at = result.next]
          /\ executed' = IF result.acts
                THEN executed \cup {[call |-> job[w].call, approval |-> job[w].approval,
                                     decision |-> job[w].decision, request |-> job[w].parent]}
                ELSE executed
    /\ UNCHANGED <<ledgerVars, tables, jobs>>

Complete(w) ==
    job[w].at = "complete" /\ Log(w, "tool_call.completed", job[w].approval, At(w, "commit"))

Fail(w) ==
    job[w].at = "fail" /\ Log(w, "tool_call.failed", job[w].approval, At(w, "commit"))

-----------------------------------------------------------------------------
(* POST /approvals/{id}/approve and /reject *)

\* Mutant of ReadApproval: the status is the verb of the URL
ReadApproval_verb(w, a, status) ==
    /\ a \in DOMAIN approvals
    /\ approvals[a].status = "pending"
    /\ Begin(w, IF a \in overdue
                THEN [Idle EXCEPT !.at = "expire", !.expiring = {a}]
                ELSE [Idle EXCEPT !.at = "decide", !.call = approvals[a].scope,
                                  !.approval = a, !.parent = a,
                                  !.status = IF status = "approved" THEN "approve" ELSE "reject"])
    /\ UNCHANGED <<ledgerVars, tables, executed>>

\* decide reads the approval: a settled one is refused, an overdue one is
\* marked so, a pending one is to be decided.
ReadApproval(w, a, status) ==
    /\ a \in DOMAIN approvals
    /\ approvals[a].status = "pending"
    /\ Begin(w, IF a \in overdue
                THEN [Idle EXCEPT !.at = "expire", !.expiring = {a}]
                ELSE [Idle EXCEPT !.at = "decide", !.call = approvals[a].scope,
                                  !.approval = a, !.status = status, !.parent = a])
    /\ UNCHANGED <<ledgerVars, tables, executed>>

\* Mutant of Decide: the event does not say what was decided
Decide_always_granted(w) ==
    /\ job[w].at = "decide"
    /\ Log(w, "approval.granted", job[w].approval, At(w, "settle"))

Decide(w) ==
    /\ job[w].at = "decide"
    /\ Log(w, IF job[w].status = "approved" THEN "approval.granted" ELSE "approval.rejected",
           job[w].approval, At(w, "settle"))

(* GET /approvals *)

list_approvals(w) ==
    LET due == {a \in overdue : approvals[a].status = "pending"} IN
    /\ due # {}
    /\ Begin(w, [Idle EXCEPT !.at = "expire", !.expiring = due])
    /\ UNCHANGED <<ledgerVars, tables, executed>>

\* The UPDATE, which looks at nothing but the ids
Expire(w) ==
    /\ job[w].at = "expire"
    /\ approvals' = [a \in DOMAIN approvals |->
           IF a \in job[w].expiring THEN [approvals[a] EXCEPT !.status = "expired"]
                                    ELSE approvals[a]]
    /\ job' = [job EXCEPT ![w] = Idle]
    /\ UNCHANGED <<ledgerVars, overdue, policies, jobs, executed>>

-----------------------------------------------------------------------------

Done == {"commit", "create", "settle", "save"}

\* Mutant of CommitWork: the handler returns without db.commit and leaves its
\* transaction open
CommitWork_leaks(w) ==
    /\ job[w].at \in Done
    /\ job' = [job EXCEPT ![w] = Idle]
    /\ UNCHANGED <<ledgerVars, tables, jobs, executed>>

\* What the transaction wrote besides events
Saved(w) ==
    /\ approvals' =
          CASE job[w].at = "create" ->
                   [a \in DOMAIN approvals \cup {job[w].parent} |->
                       IF a = job[w].parent THEN [status |-> "pending", scope |-> job[w].call]
                                            ELSE approvals[a]]
            [] job[w].at = "settle" -> [approvals EXCEPT ![job[w].approval].status = job[w].status]
            [] OTHER -> approvals
    /\ policies' = IF job[w].at = "save" THEN [policies EXCEPT ![job[w].policy].committed = TRUE]
                                         ELSE policies

\* db.commit
CommitWork(w) ==
    /\ job[w].at \in Done
    /\ L!Commit(w)
    /\ Saved(w)
    /\ job' = [job EXCEPT ![w] = Idle]
    /\ UNCHANGED <<overdue, jobs, executed>>

\* The handler raises, or the process or the connection dies
Abort(w) == Failures /\ job[w] # Idle /\ Drop(w)

\* Time passes an expires_at.
Overdue(a) ==
    /\ a \in DOMAIN approvals \ overdue
    /\ overdue' = overdue \cup {a}
    /\ UNCHANGED <<ledgerVars, approvals, policies, job, jobs, executed>>

Handle(w) ==
    \/ InsertPolicy(w) \/ Receive(w) \/ Evaluate(w) \/ EvaluateRaises(w) \/ Deny(w)
    \/ RefuseApproval(w) \/ RefuseUnknown(w) \/ RequireApproval(w)
    \/ Request(w) \/ Execute(w) \/ Complete(w) \/ Fail(w)
    \/ Decide(w) \/ Expire(w) \/ CommitWork(w)

Take(w) ==
    \/ \E c \in Calls, a \in DOMAIN approvals \cup {None, Unknown} : ToolCall(w, c, a)
    \/ \E a \in DOMAIN approvals, status \in {"approved", "rejected"} : ReadApproval(w, a, status)
    \/ list_approvals(w)
    \/ \E document \in Documents : create_policy(w, document)

Next ==
    \/ \E w \in Workers : Handle(w) \/ Take(w) \/ Abort(w)
    \/ \E a \in DOMAIN approvals : Overdue(a)
    \/ \E p \in DOMAIN policies, document \in Documents : update_policy(p, document)

\* A handler that can go on goes on; the row lock is granted to a worker that
\* waits for it while it keeps coming free.
Spec == Init /\ [][Next]_vars /\ \A w \in Workers : SF_vars(Handle(w))

-----------------------------------------------------------------------------

\* The types of the approvals and of the handlers (approvals.py:38-82).
TypeOK ==
    /\ L!TypeOK
    /\ \A a \in DOMAIN approvals : a \in Nat /\ approvals[a] \in Approvals
    /\ overdue \subseteq DOMAIN approvals
    /\ jobs \in 0 .. MaxJobs
    /\ policies \in Seq([document : Documents, committed : BOOLEAN])
    /\ executed \subseteq [call : Supported, approval : Nat \cup {None},
                          decision : PolicyDecisions, request : Nat]

Committed(types) == {e \in L!RangeOf(events) : e.data.type \in types}

Children(e, types) == {f \in Committed(types) : f.data.parent = e.id}

\* legacy/README.md:171-174: whatever the interleaving of calls, decisions,
\* expiries and policy changes, a connector acts only on a call that policy
\* allowed or that an approval of this very call, on record as granted,
\* permitted, and that policy did not deny even so.
ExecutedOnlyIfPermitted ==
    \A x \in executed :
        \/ x.decision = "allowed" /\ x.approval = None
        \/ /\ x.decision # "denied"
           /\ \E e \in Committed({"approval.granted"}) :
                 e.data.approval = x.approval /\ e.data.call = x.call

\* policies.py:63-72: from its evaluation to its commit a call is under the
\* newest policy, as a new one cannot be inserted meanwhile.  (What that
\* policy says may be rewritten.)
PolicyInForce ==
    \A w \in Workers : job[w].decision # None => job[w].policy = Newest

\* The round trips that begin with an append
Appends == {"receive", "evaluate", "authorize", "complete", "fail", "decide"}

\* w waits for the tenant row.
Waits(w) ==
    \/ job[w].at = "insert" /\ lock \notin {Free, w}
    \/ job[w].at \in Appends /\ ~ (lock \in {Free, w} /\ sharers \subseteq {w})

Blockers(w) == ({lock} \cup sharers) \ {Free, w}

\* ledger.py:35, api/policies.py:28-30: whoever waits for the tenant row waits
\* for handlers that are in the middle of a request and wait for nobody.  Unlike
\* the handlers of runs and checkpoints, those of calls, decisions and policies
\* cannot deadlock, as none inserts before it appends.
NoDeadlock ==
    \A w \in Workers : Waits(w) =>
        /\ Blockers(w) # {}
        /\ \A v \in Blockers(w) : job[v] # Idle /\ ~Waits(v)

\* gateway.py:75-210: the record of a call is whole. Each received call has
\* one evaluation, each evaluation one consequence, each request to a
\* connector one outcome, and a completion means that the connector acted.
TrailWhole ==
    /\ \A e \in Committed({"agent.request_received"}) :
          Cardinality(Children(e, {"policy.evaluated"})) = 1
    /\ \A e \in Committed({"policy.evaluated"}) :
          Cardinality(Children(e, {"tool_call.failed", "approval.required",
                                   "tool_call.requested"})) = 1
    /\ \A e \in Committed({"tool_call.requested"}) :
          Cardinality(Children(e, {"tool_call.completed", "tool_call.failed"})) = 1
    /\ \A e \in Committed({"tool_call.completed"}) :
          \E x \in executed : x.request = e.data.parent

Decisions(a) == {e \in Committed({"approval.granted", "approval.rejected"}) : e.data.approval = a}

\* approvals.py:53-81: an approval stays pending only while the chain has no
\* decision on it, and one that is approved or rejected is what the last
\* decision on the chain says, also when two decide at once.  Of an expired one
\* this says only that its time is up: list_approvals (approvals.py:30-34)
\* writes `expired` over a decision committed after it read the approval, and
\* the chain goes on saying that it was granted.
DecidedStatusMatchesTrail ==
    \A a \in DOMAIN approvals :
        LET decisions == Decisions(a)
            last == CHOOSE e \in decisions : \A f \in decisions \ {e} : L!Before(f, e)
        IN  CASE approvals[a].status = "pending"  -> decisions = {}
              [] approvals[a].status = "approved" ->
                     decisions # {} /\ last.data.type = "approval.granted"
              [] approvals[a].status = "rejected" ->
                     decisions # {} /\ last.data.type = "approval.rejected"
              [] approvals[a].status = "expired"  -> a \in overdue

\* legacy/README.md:152-153: the chain verifies, whatever handlers interleave
\* or roll back.
LedgerVerifies == L!verify

\* Every request is answered (gateway.py:50-210, approvals.py:18-82): no
\* handler waits for the tenant row for ever.
EveryHandlerReturns == \A w \in Workers : job[w] # Idle ~> job[w] = Idle

\* approvals.py:53-54, legacy/README.md:171: an approval is decided once.
DecidedOnce == \A a \in DOMAIN approvals : Cardinality(Decisions(a)) <= 1
=============================================================================
