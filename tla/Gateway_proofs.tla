--------------------------- MODULE Gateway_proofs ---------------------------
(***************************************************************************)
(* The legacy gateway, for every set of workers, calls and policies, with  *)
(* handlers that fail anywhere, and over a clock of any kind unless a      *)
(* theorem says otherwise.                                                 *)
(*                                                                         *)
(* Typed      the types, and the order of the ids (OrderInv of             *)
(*            Ledger_proofs)                                               *)
(* Phased     what a handler has written when it is about to make a given  *)
(*            round trip: because of the row lock, the events of a         *)
(*            transaction stand one behind the other in the chain          *)
(* Anchored   every approval has its event                                 *)
(* the rest   one invariant for each theorem, on top of these three        *)
(***************************************************************************)
EXTENDS Gateway, FiniteSetTheorems, WellFoundedInduction, TLAPS

P == INSTANCE Ledger_proofs WITH Sessions <- Workers

-----------------------------------------------------------------------------
(* The invariants *)

\* The chain that w would commit
Whole(w) == events \o staged[w]

LastOf(chain) == chain[Len(chain)]

\* A handler at one of these has written no event yet.
Quiet == {"idle", "insert", "save", "receive", "decide", "expire"}

\* A handler at one of these goes on with a call that policy did decide.
Deciding == {"authorize", "create", "execute", "complete", "fail"}

Places == Quiet \cup Deciding \cup {"evaluate", "commit", "settle"}

Jobs == [at : Places, call : Calls \cup {None}, approval : Nat \cup {None},
         status : {"approved", "rejected", None}, parent : Nat \cup {None},
         decision : PolicyDecisions \cup {None}, policy : Nat, expiring : SUBSET Nat]

Versions == [document : Documents, committed : BOOLEAN]

Executions == [call : Supported, approval : Nat \cup {None},
               decision : PolicyDecisions, request : Nat]

\* What a handler at its place knows
Knows(w) ==
    /\ job[w].at \in Deciding \cup {"receive", "evaluate", "decide", "settle"}
          => job[w].call \in Calls
    /\ job[w].at \in Deciding => job[w].decision # None
    /\ job[w].at \in Quiet \cup {"evaluate", "settle"} => job[w].decision = None
    /\ job[w].at \in {"decide", "settle"} =>
          /\ job[w].approval \in DOMAIN approvals
          /\ approvals[job[w].approval].scope = job[w].call
          /\ job[w].status \in {"approved", "rejected"}
    /\ job[w].at \notin Quiet => job[w].parent \in Nat
    /\ job[w].at \in {"insert", "save"} => job[w].policy \in DOMAIN policies
    /\ job[w].expiring \subseteq overdue

Typed ==
    /\ P!OrderInv
    /\ job \in [Workers -> Jobs]
    /\ jobs \in 0 .. MaxJobs
    /\ policies \in Seq(Versions)
    /\ approvals \in [DOMAIN approvals -> Approvals]
    /\ DOMAIN approvals \subseteq Nat
    /\ overdue \subseteq DOMAIN approvals
    /\ executed \subseteq Executions
    /\ \A w \in Workers : Knows(w)

Decisive == {"approval.granted", "approval.rejected"}

Verdict(status) == IF status = "approved" THEN "approval.granted" ELSE "approval.rejected"

\* The events that a handler which is about to make a round trip wrote last
Latest(at) ==
    CASE at = "evaluate" -> {"agent.request_received"}
      [] at = "authorize" -> {"policy.evaluated"}
      [] at = "create" -> {"approval.required"}
      [] at \in {"execute", "complete", "fail"} -> {"tool_call.requested"}
      [] at = "commit" -> {"tool_call.completed", "tool_call.failed"}
      [] at = "settle" -> Decisive
      [] OTHER -> {}

\* What w has written so far
Wrote(w) ==
    IF job[w].at \in Quiet THEN staged[w] = <<>>
    ELSE /\ staged[w] # <<>>
         /\ LastOf(staged[w]).data.type \in Latest(job[w].at)
         /\ LastOf(staged[w]).id = job[w].parent
         /\ IF job[w].at = "settle"
            THEN /\ Len(staged[w]) = 1
                 /\ LastOf(staged[w]).data.type = Verdict(job[w].status)
                 /\ LastOf(staged[w]).data.call = job[w].call
                 /\ LastOf(staged[w]).data.approval = job[w].approval
            ELSE \A i \in 1 .. Len(staged[w]) : staged[w][i].data.type \notin Decisive

Phased == \A w \in Workers : Wrote(w)

\* An approval has the id of an event on the chain.
Anchored == \A a \in DOMAIN approvals : \E i \in 1 .. Len(events) : events[i].id = a

\* Which events may come right behind one, {} if none needs to
Follow(type) ==
    CASE type = "agent.request_received" -> {"policy.evaluated"}
      [] type = "policy.evaluated" ->
             {"tool_call.failed", "approval.required", "tool_call.requested"}
      [] type = "tool_call.requested" -> {"tool_call.completed", "tool_call.failed"}
      [] OTHER -> {}

Answering ==
    {"policy.evaluated", "tool_call.failed", "approval.required",
     "tool_call.requested", "tool_call.completed"}

\* Event i of the chain is a child of the one before it, if of any
Attached(chain, i) ==
    chain[i].data.type \in Answering => i > 1 /\ chain[i].data.parent = chain[i - 1].id

\* What event i of the chain calls for comes behind it
Followed(chain, i) ==
    Follow(chain[i].data.type) # {} =>
        i < Len(chain) /\ chain[i + 1].data.type \in Follow(chain[i].data.type)

\* Nothing is missing from a chain, or nothing but behind its last event
Closed(chain) ==
    \A i \in 1 .. Len(chain) : Attached(chain, i) /\ Followed(chain, i)

Open(chain) ==
    \A i \in 1 .. Len(chain) : Attached(chain, i) /\ (i < Len(chain) => Followed(chain, i))

\* A completed event stands for something done.
Acted(id, done) == \E x \in done : x.request = id

Honest(chain, done) ==
    \A i \in 1 .. Len(chain) :
        chain[i].data.type = "tool_call.completed" => Acted(chain[i].data.parent, done)

Trail ==
    /\ Closed(events) /\ Honest(events, executed)
    /\ \A w \in Workers :
          /\ Open(Whole(w)) /\ Honest(Whole(w), executed)
          /\ job[w].at = "complete" => Acted(job[w].parent, executed)

\* The chain has the call on record as granted, under this approval.
Grants(chain, approval, call) ==
    \E i \in 1 .. Len(chain) :
        /\ chain[i].data.type = "approval.granted"
        /\ chain[i].data.approval = approval /\ chain[i].data.call = call

Permitted(chain, decision, approval, call) ==
    \/ decision = "allowed" /\ approval = None
    \/ decision # "denied" /\ Grants(chain, approval, call)

Permits ==
    /\ \A a \in DOMAIN approvals :
          approvals[a].status = "approved" => Grants(events, a, approvals[a].scope)
    /\ \A w \in Workers :
          job[w].at = "execute" => Permitted(events, job[w].decision, job[w].approval, job[w].call)
    /\ \A x \in executed : Permitted(events, x.decision, x.approval, x.call)

\* The event decides about the approval.
About(e, a) == e.data.type \in Decisive /\ e.data.approval = a

\* What a chain says of an approval that has this status and maybe is overdue
Says(chain, a, status, late) ==
    CASE status = "pending" -> \A i \in 1 .. Len(chain) : ~About(chain[i], a)
      [] status \in {"approved", "rejected"} ->
             \E i \in 1 .. Len(chain) :
                 /\ About(chain[i], a) /\ chain[i].data.type = Verdict(status)
                 /\ \A j \in i + 1 .. Len(chain) : ~About(chain[j], a)
      [] OTHER -> late

Words ==
    /\ \A i \in 1 .. Len(events) :
          events[i].data.type \in Decisive => events[i].data.approval \in DOMAIN approvals
    /\ \A a \in DOMAIN approvals : Says(events, a, approvals[a].status, a \in overdue)

\* The transactions that are about to commit a policy hold the tenant row.
Shares == \A w \in Workers : job[w].at = "save" => w \in sharers

\* Who holds the tenant row has written and goes on; who shares it commits next.
Holding ==
    /\ lock # Free => job[lock].at \notin Quiet
    /\ \A w \in sharers : job[w].at = "save"

-----------------------------------------------------------------------------
(* The policy engine *)

LEMMA LeastOf ==
    ASSUME NEW S \in SUBSET Nat, S # {}
    PROVE  \E i \in S : \A j \in S : i <= j
<1> DEFINE R == OpToRel(<, Nat)
<1>1. PICK i \in S : \A j \in S : ~(<<j, i>> \in R)
  <2>1. IsWellFoundedOn(R, Nat)
    BY NatLessThanWellFounded
  <2> HIDE DEF R
  <2> QED
    BY <2>1, WFMin, Zenon
<1>2. \A j \in S : ~(j < i)
  BY <1>1 DEF OpToRel
<1> QED
  BY <1>2

LEMMA GreatestOf ==
    ASSUME NEW n \in Nat, NEW S \in SUBSET (0 .. n), S # {}
    PROVE  Max(S) \in S
<1> DEFINE T == {n - i : i \in S}
<1>1. T \in SUBSET Nat /\ T # {}
  <2>1. \A i \in S : n - i \in Nat
    OBVIOUS
  <2> QED
    BY <2>1
<1>2. PICK m \in T : \A j \in T : m <= j
  BY <1>1, LeastOf
<1>3. PICK i \in S : m = n - i
  OBVIOUS
<1>4. \A j \in S : i >= j
  BY <1>2, <1>3
<1> QED
  BY <1>4 DEF Max

LEMMA FirstOtherIn ==
    ASSUME NEW results, DOMAIN results \subseteq Nat, NEW go, NEW S, NEW default \in S,
           \A i \in DOMAIN results : results[i] \in S \cup {go}
    PROVE  FirstOther(results, go, default) \in S
<1> DEFINE First(i) == results[i] # go /\ \A j \in DOMAIN results : j < i => results[j] = go
           first == CHOOSE i \in DOMAIN results : First(i)
<1>1. CASE \A i \in DOMAIN results : results[i] = go
  BY <1>1 DEF FirstOther
<1>2. CASE \E i \in DOMAIN results : results[i] # go
  <2> DEFINE others == {i \in DOMAIN results : results[i] # go}
  <2>1. PICK i \in others : \A j \in others : i <= j
    <3>1. others \in SUBSET Nat /\ others # {}
      BY <1>2
    <3> HIDE DEF others
    <3> QED
      BY <3>1, LeastOf
  <2>2. ASSUME NEW j \in DOMAIN results, j < i PROVE results[j] = go
    <3>1. j \in Nat /\ i \in Nat
      OBVIOUS
    <3>2. ~(i <= j)
      BY <2>2, <3>1
    <3> QED
      BY <2>1, <3>2
  <2>3. i \in DOMAIN results /\ First(i)
    BY <2>2
  <2>4. first \in DOMAIN results /\ First(first)
    <3> HIDE DEF First
    <3> QED
      BY <2>3
  <2>5. FirstOther(results, go, default) = results[first]
    BY <1>2 DEF FirstOther
  <2> QED
    BY <2>4, <2>5
<1> QED
  BY <1>1, <1>2

LEMMA DecidedIn ==
    ASSUME NEW effect
    PROVE  Decided(effect) \in PolicyDecisions \cup {"raises"}
BY DEF Decided, valid_effects, PolicyDecisions

LEMMA EvaluateDocumentIn ==
    ASSUME NEW document \in Documents, NEW call \in Calls
    PROVE  evaluate_document(document, call) \in PolicyDecisions \cup {"raises"}
<1> DEFINE S == PolicyDecisions \cup {"raises", "continue"}
<1>1. ASSUME NEW rule PROVE Outcome(rule, call) \in S
  <2> DEFINE results == [i \in DOMAIN call |-> _matches(rule.patterns[i], call[i])]
  <2>1. CASE Decided(rule.effect) = "raises"
    BY <2>1 DEF Outcome
  <2>2. CASE Decided(rule.effect) # "raises"
    <3>1. DOMAIN results \subseteq Nat
      BY GatewayAssumption
    <3>2. \A i \in DOMAIN results : results[i] \in S \cup {"matches"}
      BY DEF _matches
    <3>3. Decided(rule.effect) \in S
      BY DecidedIn
    <3>4. FirstOther(results, "matches", Decided(rule.effect)) \in S
      <4> HIDE DEF results, S
      <4> QED
        BY <3>1, <3>2, <3>3, FirstOtherIn
    <3> QED
      BY <2>2, <3>4 DEF Outcome
  <2> QED
    BY <2>1, <2>2
<1> DEFINE results == [i \in DOMAIN document.rules |-> Outcome(document.rules[i], call)]
           default == Decided(document.default)
           T == PolicyDecisions \cup {"raises"}
<1>2. DOMAIN results \subseteq Nat
  BY GatewayAssumption
<1>3. \A i \in DOMAIN results : results[i] \in T \cup {"continue"}
  BY <1>1
<1>4. default \in T
  BY DecidedIn
<1>5. FirstOther(results, "continue", default) \in T
  <2> HIDE DEF results, T, default
  <2> QED
    BY <1>2, <1>3, <1>4, FirstOtherIn
<1> QED
  BY <1>5 DEF evaluate_document

LEMMA NewestIn ==
    ASSUME policies \in Seq(Versions)
    PROVE  Newest \in 0 .. Len(policies)
<1> DEFINE S == {0} \cup {p \in DOMAIN policies : policies[p].committed}
<1>1. Len(policies) \in Nat /\ S \in SUBSET (0 .. Len(policies)) /\ S # {}
  OBVIOUS
<1>2. Max(S) \in S
  <2> HIDE DEF S
  <2> QED
    BY <1>1, GreatestOf
<1> QED
  BY <1>1, <1>2 DEF Newest

LEMMA EvaluateIn ==
    ASSUME policies \in Seq(Versions), NEW call \in Calls, evaluate(call) # "raises"
    PROVE  evaluate(call) \in PolicyDecisions
<1>1. CASE Newest = 0
  BY <1>1 DEF evaluate, PolicyDecisions
<1>2. CASE Newest # 0
  <2>1. Newest \in 1 .. Len(policies)
    BY <1>2, NewestIn
  <2>2. policies[Newest] \in Versions
    BY <2>1
  <2>3. policies[Newest].document \in Documents
    BY <2>2 DEF Versions
  <2> QED
    BY <1>2, <2>3, EvaluateDocumentIn DEF evaluate
<1> QED
  BY <1>1, <1>2

-----------------------------------------------------------------------------
(* The ledger of the gateway is the ledger of Ledger_proofs. *)

LEMMA Constants == P!LedgerConstants
BY LegacyLedgerAssumption DEF P!LedgerConstants

LEMMA SameOperators ==
    /\ L!TypeOK <=> P!TypeOK
    /\ L!verify <=> P!verify
    /\ \A s : L!RangeOf(s) = P!RangeOf(s)
    /\ \A e, f : L!Before(e, f) <=> P!Before(e, f)
<1>1. \A s : L!RangeOf(s) = P!RangeOf(s)
  BY DEF L!RangeOf, P!RangeOf
<1>2. \A e, f : L!Before(e, f) <=> P!Before(e, f)
  BY DEF L!Before, P!Before
<1>3. L!TypeOK <=> P!TypeOK
  BY DEF L!TypeOK, P!TypeOK, L!Events, P!Events
<1>4. L!verify <=> P!verify
  BY DEF L!verify, P!verify, L!RangeOf, P!RangeOf, L!Before, P!Before
<1> QED
  BY <1>1, <1>2, <1>3, <1>4

LEMMA SameActions ==
    ASSUME NEW w \in Workers
    PROVE  /\ L!insert(w) => P!insert(w)
           /\ L!Commit(w) => P!Commit(w)
           /\ L!Rollback(w) => P!Rollback(w)
           /\ \A data \in Data : L!append(w, data) => P!append(w, data)
<1>1. L!End(w) => P!End(w)
  BY DEF L!End, P!End
<1>2. \A data \in Data : L!append(w, data) => P!append(w, data)
  BY DEF L!append, P!append, L!latest_hash, P!latest_hash, L!RangeOf, P!RangeOf, L!Before, P!Before
<1> QED
  BY <1>1, <1>2 DEF L!insert, P!insert, L!Commit, P!Commit, L!Rollback, P!Rollback

-----------------------------------------------------------------------------
(* What a step does *)

\* The handlers as records: a job that goes on keeps all but what is changed.
LEMMA JobMoves ==
    ASSUME NEW j \in Jobs, NEW a \in Places,
           NEW n, n = [j EXCEPT !.at = a]
    PROVE  /\ n \in Jobs /\ n.at = a /\ n.call = j.call /\ n.approval = j.approval
           /\ n.status = j.status /\ n.parent = j.parent /\ n.decision = j.decision
           /\ n.policy = j.policy /\ n.expiring = j.expiring
BY DEF Jobs

\* The job of a handler whose call has been decided
AfterDecision(j, p, d) == [j EXCEPT !.at = "authorize", !.policy = p, !.decision = d]

LEMMA JobEvaluates ==
    ASSUME NEW j \in Jobs, NEW p \in Nat, NEW d \in PolicyDecisions
    PROVE  LET n == AfterDecision(j, p, d) IN
           /\ n \in Jobs /\ n.at = "authorize" /\ n.call = j.call /\ n.approval = j.approval
           /\ n.status = j.status /\ n.parent = j.parent /\ n.decision = d
           /\ n.policy = p /\ n.expiring = j.expiring
<1>1. "authorize" \in Places
  BY DEF Places, Deciding
<1> QED
  BY <1>1 DEF Jobs, AfterDecision

LEMMA JobWrites ==
    ASSUME NEW j \in Jobs, NEW id \in Nat,
           NEW n, n = [j EXCEPT !.parent = id]
    PROVE  /\ n \in Jobs /\ n.at = j.at /\ n.call = j.call /\ n.approval = j.approval
           /\ n.status = j.status /\ n.parent = id /\ n.decision = j.decision
           /\ n.policy = j.policy /\ n.expiring = j.expiring
BY DEF Jobs

LEMMA IdleTyped ==
    /\ Idle \in Jobs /\ Idle.at = "idle" /\ Idle.decision = None /\ Idle.expiring = {}
    /\ Idle.policy = 0
BY DEF Idle, Jobs, Places, Quiet

LEMMA JobField ==
    ASSUME NEW j \in Jobs
    PROVE  /\ j.at \in Places /\ j.call \in Calls \cup {None} /\ j.approval \in Nat \cup {None}
           /\ j.status \in {"approved", "rejected", None} /\ j.parent \in Nat \cup {None}
           /\ j.decision \in PolicyDecisions \cup {None} /\ j.policy \in Nat
           /\ j.expiring \subseteq Nat
BY DEF Jobs

\* The events that handlers write: of what type, about which approval, and what
\* is to be done then
Logs(w, type, approval, new) ==
    \/ /\ job[w].at = "receive" /\ type = "agent.request_received" /\ approval = None
       /\ new = At(w, "evaluate")
    \/ /\ job[w].at = "evaluate" /\ type = "policy.evaluated" /\ approval = None
       /\ evaluate(job[w].call) # "raises"
       /\ new = [job[w] EXCEPT !.at = "authorize", !.policy = Newest,
                               !.decision = evaluate(job[w].call)]
    \/ /\ job[w].at = "authorize" /\ type = "tool_call.failed"
       /\ approval \in {None, job[w].approval} /\ new = At(w, "commit")
    \/ /\ job[w].at = "authorize" /\ type = "approval.required" /\ approval = None
       /\ new = At(w, "create")
    \/ /\ job[w].at = "authorize" /\ type = "tool_call.requested"
       /\ approval = job[w].approval /\ new = At(w, "execute")
       /\ job[w].decision # "denied"
       /\ IF job[w].approval = None
             THEN job[w].decision = "allowed"
             ELSE validate_approval(job[w].approval, job[w].call)
    \/ /\ job[w].at = "complete" /\ type = "tool_call.completed"
       /\ approval = job[w].approval /\ new = At(w, "commit")
    \/ /\ job[w].at = "fail" /\ type = "tool_call.failed"
       /\ approval = job[w].approval /\ new = At(w, "commit")
    \/ /\ job[w].at = "decide" /\ type = Verdict(job[w].status)
       /\ approval = job[w].approval /\ new = At(w, "settle")

\* Those writes, and no others
LEMMA Writers ==
    ASSUME NEW w \in Workers,
           \/ Receive(w) \/ Evaluate(w) \/ Deny(w) \/ RefuseApproval(w) \/ RequireApproval(w)
           \/ Request(w) \/ Complete(w) \/ Fail(w) \/ Decide(w)
    PROVE  \E type, approval, new :
              Logs(w, type, approval, new) /\ Log(w, type, approval, new)
<1>1. CASE Receive(w)
  BY <1>1 DEF Receive, Logs
<1>2. CASE Evaluate(w)
  <2>1. evaluate(job[w].call) # "raises" /\ job[w].at = "evaluate"
    BY <1>2 DEF Evaluate
  <2>2. Log(w, "policy.evaluated", None,
            [job[w] EXCEPT !.at = "authorize", !.policy = Newest,
                           !.decision = evaluate(job[w].call)])
    BY <1>2 DEF Evaluate
  <2> QED
    BY <2>1, <2>2 DEF Logs
<1>3. CASE Deny(w) \/ RefuseApproval(w)
  BY <1>3 DEF Deny, RefuseApproval, Logs
<1>4. CASE RequireApproval(w)
  BY <1>4 DEF RequireApproval, Logs
<1>5. CASE Request(w)
  BY <1>5 DEF Request, Logs
<1>6. CASE Complete(w) \/ Fail(w)
  BY <1>6 DEF Complete, Fail, Logs
<1>7. CASE Decide(w)
  BY <1>7 DEF Decide, Logs, Verdict
<1> QED
  BY <1>1, <1>2, <1>3, <1>4, <1>5, <1>6, <1>7

\* What may follow a place, as far as the events and the decision go
LEMMA LogTable ==
    ASSUME Typed, NEW w \in Workers, NEW type, NEW approval, NEW new,
           Logs(w, type, approval, new)
    PROVE  /\ new \in Jobs /\ new.call = job[w].call /\ new.call \in Calls
           /\ new.approval = job[w].approval /\ new.status = job[w].status
           /\ new.parent = job[w].parent /\ new.expiring = job[w].expiring
           /\ type \in EventTypes /\ approval \in Nat \cup {None}
           /\ new.at \in {"evaluate", "authorize", "commit", "create", "execute", "settle"}
           /\ new.at \in Deciding => new.decision # None
           /\ new.at \in {"evaluate", "settle"} => new.decision = None
           /\ type \in Latest(new.at)
           /\ IF new.at = "settle"
              THEN job[w].at = "decide" /\ type = Verdict(job[w].status) /\ approval = job[w].approval
              ELSE type \notin Decisive /\ job[w].at \notin {"decide", "settle"}
<1> DEFINE j == job[w]
<1>0. /\ j \in Jobs /\ Knows(w) /\ j.approval \in Nat \cup {None}
      /\ Newest \in Nat
      /\ \A call \in Calls : evaluate(call) # "raises" => evaluate(call) \in PolicyDecisions
  BY JobField, NewestIn, EvaluateIn DEF Typed
<1>1. None \notin PolicyDecisions
  BY GatewayAssumption
<1> DEFINE Goes(a) ==
              /\ new \in Jobs /\ new.at = a /\ new.call = j.call /\ new.approval = j.approval
              /\ new.status = j.status /\ new.parent = j.parent /\ new.expiring = j.expiring
<1>2. ASSUME NEW a \in Places, new = At(w, a) PROVE Goes(a) /\ new.decision = j.decision
  BY <1>0, <1>2, JobMoves DEF At
<1>3. CASE /\ j.at = "receive" /\ type = "agent.request_received" /\ approval = None
           /\ new = At(w, "evaluate")
  <2>1. Goes("evaluate") /\ new.decision = j.decision
    BY <1>2, <1>3 DEF Places
  <2>2. j.call \in Calls /\ j.decision = None
    BY <1>0, <1>3 DEF Knows, Quiet
  <2> QED
    BY <1>3, <2>1, <2>2 DEF EventTypes, Latest, Decisive, Deciding
<1>4. CASE /\ j.at = "evaluate" /\ type = "policy.evaluated" /\ approval = None
           /\ evaluate(j.call) # "raises"
           /\ new = [j EXCEPT !.at = "authorize", !.policy = Newest,
                              !.decision = evaluate(j.call)]
  <2>1. j.call \in Calls
    BY <1>0, <1>4 DEF Knows
  <2>2. evaluate(j.call) \in PolicyDecisions
    BY <1>0, <1>4, <2>1
  <2>3. Goes("authorize") /\ new.decision # None
    <3>1. new = AfterDecision(j, Newest, evaluate(j.call))
      BY <1>4 DEF AfterDecision
    <3>2. Goes("authorize") /\ new.decision = evaluate(j.call)
      BY <1>0, <2>2, <3>1, JobEvaluates
    <3> QED
      BY <1>1, <2>2, <3>2
  <2> QED
    BY <1>4, <2>1, <2>3 DEF EventTypes, Latest, Decisive, Deciding
<1>5. CASE j.at \in {"authorize", "complete", "fail"}
  <2>1. PICK a \in {"commit", "create", "execute"} : new = At(w, a) /\ type \in Latest(a)
    BY <1>5 DEF Logs, Latest
  <2>2. Goes(a) /\ new.decision = j.decision
    BY <1>2, <2>1 DEF Places, Deciding
  <2>3. j.call \in Calls /\ j.decision # None
    BY <1>0, <1>5 DEF Knows, Deciding
  <2>4. approval \in Nat \cup {None}
    BY <1>0, <1>5 DEF Logs
  <2>5. type \in EventTypes /\ type \notin Decisive
    BY <1>5 DEF Logs, EventTypes, Decisive
  <2> QED
    BY <1>5, <2>1, <2>2, <2>3, <2>4, <2>5 DEF Deciding
<1>6. CASE /\ j.at = "decide" /\ type = Verdict(j.status)
           /\ approval = j.approval /\ new = At(w, "settle")
  <2>1. Goes("settle") /\ new.decision = j.decision
    BY <1>2, <1>6 DEF Places
  <2>2. j.call \in Calls /\ j.decision = None
    BY <1>0, <1>6 DEF Knows, Quiet
  <2>3. type \in EventTypes /\ type \in Decisive
    BY <1>6 DEF Verdict, EventTypes, Decisive
  <2> QED
    BY <1>0, <1>6, <2>1, <2>2, <2>3 DEF Latest, Deciding
<1> QED
  <2> HIDE DEF Goes
  <2> QED
    BY <1>3, <1>4, <1>5, <1>6 DEF Logs

-----------------------------------------------------------------------------
(* The types are kept. *)

\* One event written: e is what w appended, and what w goes on with is new.
Logged(w, type, approval, new, e) ==
    /\ e \in P!Events /\ e.id = ids + 1
    /\ e.data.type = type /\ e.data.approval = approval
    /\ e.data.call = new.call /\ e.data.parent = job[w].parent
    /\ lock' = w /\ sharers' = sharers /\ sharers \subseteq {w}
    /\ staged' = [staged EXCEPT ![w] = Append(staged[w], e)]
    /\ events' = events /\ events \o staged'[w] = Append(events \o staged[w], e)
    /\ \A v \in Workers \ {w} : staged[v] = <<>> /\ staged'[v] = <<>>
    /\ job' = [job EXCEPT ![w] = [new EXCEPT !.parent = ids + 1]]
    /\ UNCHANGED <<tables, jobs, executed>>

LEMMA LogEffect ==
    ASSUME Typed, NEW w \in Workers, NEW type, NEW approval, NEW new,
           Logs(w, type, approval, new), Log(w, type, approval, new)
    PROVE  /\ P!OrderInv' /\ \E data \in Data : L!append(w, data)
           /\ \E e : Logged(w, type, approval, new, e)
<1> DEFINE data == [type |-> type, call |-> new.call, approval |-> approval,
                    decision |-> new.decision, parent |-> new.parent]
<1>1. data \in Data
  <2>1. /\ type \in EventTypes /\ new.call \in Calls /\ approval \in Nat \cup {None}
        /\ new.decision \in PolicyDecisions \cup {None} /\ new.parent \in Nat \cup {None}
    BY LogTable, JobField
  <2> QED
    BY <2>1 DEF Data
<1>0. L!append(w, data)
  BY DEF Log
<1>2. P!append(w, data)
  BY <1>0, <1>1, SameActions
<1>3. P!OrderInv'
  BY <1>1, <1>2, Constants, P!OrderAppend DEF Typed
<1>4. \E e \in P!Events :
              /\ e.id = ids + 1 /\ e.data = data
              /\ e.timestamp = clock' /\ \E jump \in Jumps : clock' = clock + jump
              /\ e.previous_hash = P!latest_hash(P!RangeOf(events \o staged[w]))
              /\ ids' = ids + 1 /\ lock' = w
              /\ staged' = [staged EXCEPT ![w] = Append(staged[w], e)]
              /\ events \o staged'[w] = Append(events \o staged[w], e)
              /\ \A t \in Workers \ {w} : staged[t] = <<>> /\ staged'[t] = <<>>
              /\ events' = events /\ sharers' = sharers /\ sharers \subseteq {w}
  BY <1>1, <1>2, Constants, P!AppendEffect DEF Typed
<1>5. PICK e \in P!Events :
              /\ e.id = ids + 1 /\ e.data = data
              /\ lock' = w /\ sharers' = sharers /\ sharers \subseteq {w}
              /\ staged' = [staged EXCEPT ![w] = Append(staged[w], e)]
              /\ events \o staged'[w] = Append(events \o staged[w], e)
              /\ \A t \in Workers \ {w} : staged[t] = <<>> /\ staged'[t] = <<>>
              /\ events' = events
  BY <1>4
<1>6. new.parent = job[w].parent
  BY LogTable
<1>7. e.data.type = type /\ e.data.approval = approval
      /\ e.data.call = new.call /\ e.data.parent = job[w].parent
  BY <1>5, <1>6
<1>8. /\ job' = [job EXCEPT ![w] = [new EXCEPT !.parent = ids + 1]]
      /\ UNCHANGED <<tables, jobs, executed>>
  BY DEF Log
<1> HIDE DEF data
<1>9. Logged(w, type, approval, new, e)
  BY <1>5, <1>7, <1>8 DEF Logged
<1> QED
  BY <1>0, <1>1, <1>3, <1>9

\* What another worker knows stays true.
LEMMA KnowsStays ==
    ASSUME NEW v, Knows(v), job'[v] = job[v], overdue \subseteq overdue',
           \A a \in DOMAIN approvals :
              a \in DOMAIN approvals' /\ approvals'[a].scope = approvals[a].scope,
           DOMAIN policies \subseteq DOMAIN policies'
    PROVE  Knows(v)'
BY DEF Knows

\* The job of a worker that has written an event
LEMMA LogJob ==
    ASSUME Typed, NEW w \in Workers, NEW type, NEW approval, NEW new, NEW e,
           Logs(w, type, approval, new), Logged(w, type, approval, new, e)
    PROVE  /\ job' \in [Workers -> Jobs] /\ \A v \in Workers \ {w} : job'[v] = job[v]
           /\ job'[w].at = new.at /\ job'[w].call = new.call
           /\ job'[w].approval = new.approval /\ job'[w].status = new.status
           /\ job'[w].parent = ids + 1 /\ job'[w].decision = new.decision
           /\ job'[w].policy = new.policy /\ job'[w].expiring = new.expiring
<1>1. PICK after : /\ after = [new EXCEPT !.parent = ids + 1]
                   /\ job' = [job EXCEPT ![w] = after]
  BY DEF Logged
<1>2. ids + 1 \in Nat /\ new \in Jobs
  BY LogTable DEF Typed, P!OrderInv, P!TypeOK
<1>3. /\ after \in Jobs /\ after.at = new.at /\ after.call = new.call
      /\ after.approval = new.approval /\ after.status = new.status
      /\ after.parent = ids + 1 /\ after.decision = new.decision
      /\ after.policy = new.policy /\ after.expiring = new.expiring
  <2> DEFINE id == ids + 1
  <2> HIDE DEF id
  <2> QED
    BY <1>1, <1>2, JobWrites DEF id
<1>4. job' \in [Workers -> Jobs] /\ job'[w] = after /\ \A v \in Workers \ {w} : job'[v] = job[v]
  BY <1>1, <1>3 DEF Typed
<1> QED
  BY <1>3, <1>4

LEMMA TypedLog ==
    ASSUME Typed, NEW w \in Workers, NEW type, NEW approval, NEW new,
           Logs(w, type, approval, new), Log(w, type, approval, new)
    PROVE  Typed'
<1>1. P!OrderInv' /\ UNCHANGED <<tables, jobs, executed>>
  BY LogEffect DEF Log
<1>2. PICK e : Logged(w, type, approval, new, e)
  BY LogEffect
<1>3. /\ job' \in [Workers -> Jobs] /\ \A v \in Workers \ {w} : job'[v] = job[v]
      /\ job'[w].at = new.at /\ job'[w].call = new.call
      /\ job'[w].approval = new.approval /\ job'[w].status = new.status
      /\ job'[w].parent = ids + 1 /\ job'[w].decision = new.decision
      /\ job'[w].expiring = new.expiring
  BY <1>2, LogJob
<1>4. Knows(w)'
  <2>1. /\ new.at \in {"evaluate", "authorize", "commit", "create", "execute", "settle"}
        /\ new.at \in Deciding => new.decision # None
        /\ new.at \in {"evaluate", "settle"} => new.decision = None
        /\ new.at = "settle" => job[w].at = "decide"
        /\ new.call \in Calls /\ new.call = job[w].call
        /\ new.approval = job[w].approval /\ new.status = job[w].status
        /\ new.expiring = job[w].expiring
    BY LogTable
  <2>2. new.at \notin Quiet
    BY <2>1 DEF Quiet
  <2>3. new.at = "settle" => /\ new.approval \in DOMAIN approvals
                             /\ approvals[new.approval].scope = new.call
                             /\ new.status \in {"approved", "rejected"}
    BY <2>1 DEF Typed, Knows
  <2>4. new.expiring \subseteq overdue
    BY <2>1 DEF Typed, Knows
  <2>5. ids + 1 \in Nat
    BY DEF Typed, P!OrderInv, P!TypeOK
  <2> QED
    BY <1>1, <1>3, <2>1, <2>2, <2>3, <2>4, <2>5 DEF Knows, tables
<1>5. ASSUME NEW v \in Workers \ {w} PROVE Knows(v)'
  BY <1>1, <1>3, KnowsStays DEF Typed, tables
<1> QED
  BY <1>1, <1>3, <1>4, <1>5 DEF Typed, tables

\* A request taken: new is the job of the worker that took it.
Started(w, new) ==
    /\ job[w] = Idle /\ job' = [job EXCEPT ![w] = new] /\ new \in Jobs
    /\ jobs' = jobs + 1 /\ jobs < MaxJobs
    /\ new.at \in {"receive", "expire", "decide", "insert"} /\ new.decision = None
    /\ new.at \in {"receive", "decide"} => new.call \in Calls
    /\ new.at = "decide" => /\ new.approval \in DOMAIN approvals
                            /\ approvals[new.approval].scope = new.call
                            /\ new.status \in {"approved", "rejected"}
    /\ new.at = "insert" => new.policy \in DOMAIN policies'
    /\ new.expiring \subseteq overdue
    /\ policies' \in Seq(Versions) /\ DOMAIN policies \subseteq DOMAIN policies'
    /\ {p \in DOMAIN policies' : policies'[p].committed} =
           {p \in DOMAIN policies : policies[p].committed}
    /\ UNCHANGED <<ledgerVars, approvals, overdue, executed>>

\* The jobs that requests start
Receiving(c, a) == [Idle EXCEPT !.at = "receive", !.call = c, !.approval = a]

Judging(a, c, status) ==
    [Idle EXCEPT !.at = "decide", !.call = c, !.approval = a, !.status = status, !.parent = a]

Expiring(due) == [Idle EXCEPT !.at = "expire", !.expiring = due]

Inserting(p) == [Idle EXCEPT !.at = "insert", !.policy = p]

LEMMA StartPlaces == {"receive", "expire", "decide", "insert"} \subseteq Places
BY DEF Places, Quiet

LEMMA ReceivingJob ==
    ASSUME NEW c \in Calls, NEW a \in Nat \cup {None}
    PROVE  LET n == Receiving(c, a) IN
           n \in Jobs /\ n.at = "receive" /\ n.call = c /\ n.expiring = {} /\ n.decision = None
<1>1. Receiving(c, a) \in Jobs
  BY StartPlaces, IdleTyped DEF Receiving, Jobs
<1>2. LET n == Receiving(c, a) IN
      n.at = "receive" /\ n.call = c /\ n.expiring = {} /\ n.decision = None
  BY DEF Receiving, Idle
<1> QED
  BY <1>1, <1>2

LEMMA JudgingJob ==
    ASSUME NEW a \in Nat, NEW c \in Calls, NEW status \in {"approved", "rejected"}
    PROVE  LET n == Judging(a, c, status) IN
           /\ n \in Jobs /\ n.at = "decide" /\ n.call = c /\ n.approval = a
           /\ n.status = status /\ n.expiring = {} /\ n.decision = None
<1>1. Judging(a, c, status) \in Jobs
  BY StartPlaces, IdleTyped DEF Judging, Jobs
<1>2. LET n == Judging(a, c, status) IN
      /\ n.at = "decide" /\ n.call = c /\ n.approval = a
      /\ n.status = status /\ n.expiring = {} /\ n.decision = None
  BY DEF Judging, Idle
<1> QED
  BY <1>1, <1>2

LEMMA ExpiringJob ==
    ASSUME NEW due \in SUBSET Nat
    PROVE  LET n == Expiring(due) IN
           n \in Jobs /\ n.at = "expire" /\ n.expiring = due /\ n.decision = None
BY StartPlaces, IdleTyped DEF Expiring, Jobs

LEMMA InsertingJob ==
    ASSUME NEW p \in Nat
    PROVE  LET n == Inserting(p) IN
           n \in Jobs /\ n.at = "insert" /\ n.policy = p /\ n.expiring = {} /\ n.decision = None
BY StartPlaces, IdleTyped DEF Inserting, Jobs

\* A request that changes no table
LEMMA StartedBy ==
    ASSUME Typed, NEW w, NEW new \in Jobs, Begin(w, new), UNCHANGED <<ledgerVars, tables, executed>>,
           new.at \in {"receive", "expire", "decide"}, new.decision = None,
           new.at \in {"receive", "decide"} => new.call \in Calls,
           new.at = "decide" => /\ new.approval \in DOMAIN approvals
                                /\ approvals[new.approval].scope = new.call
                                /\ new.status \in {"approved", "rejected"},
           new.expiring \subseteq overdue
    PROVE  Started(w, new)
<1>1. policies' = policies /\ approvals' = approvals /\ overdue' = overdue
  BY DEF tables
<1>2. policies' \in Seq(Versions) /\ DOMAIN policies \subseteq DOMAIN policies'
  BY <1>1 DEF Typed
<1>3. {p \in DOMAIN policies' : policies'[p].committed} =
            {p \in DOMAIN policies : policies[p].committed}
  BY <1>1
<1>4. /\ job[w] = Idle /\ job' = [job EXCEPT ![w] = new] /\ jobs' = jobs + 1 /\ jobs < MaxJobs
  BY DEF Begin
<1> QED
  BY <1>1, <1>2, <1>3, <1>4, Zenon DEF Started

LEMMA StartEffect ==
    ASSUME Typed, NEW w \in Workers, Take(w)
    PROVE  \E new : Started(w, new)
<1>0. /\ policies \in Seq(Versions) /\ DOMAIN approvals \subseteq Nat
      /\ approvals \in [DOMAIN approvals -> Approvals] /\ overdue \subseteq DOMAIN approvals
  BY DEF Typed
<1>1. ASSUME NEW c \in Calls, NEW a \in DOMAIN approvals \cup {None, Unknown}, ToolCall(w, c, a)
      PROVE  \E new : Started(w, new)
  <2> DEFINE new == Receiving(c, a)
  <2>1. /\ new \in Jobs /\ new.at = "receive" /\ new.decision = None /\ new.call \in Calls
        /\ new.expiring = {}
    <3>1. a \in Nat \cup {None}
      BY <1>0 DEF Unknown
    <3> QED
      BY <3>1, ReceivingJob
  <2>2. Begin(w, new) /\ UNCHANGED <<ledgerVars, tables, executed>>
    BY <1>1 DEF ToolCall, Receiving
  <2> HIDE DEF new
  <2>3. Started(w, new)
    BY <2>1, <2>2, StartedBy
  <2> QED
    BY <2>3
<1>2. ASSUME NEW due, due \subseteq overdue, Begin(w, Expiring(due)),
             UNCHANGED <<ledgerVars, tables, executed>>
      PROVE  \E new : Started(w, new)
  <2> DEFINE new == Expiring(due)
  <2>1. due \in SUBSET Nat
    BY <1>0, <1>2
  <2>2. /\ new \in Jobs /\ new.at = "expire" /\ new.decision = None /\ new.expiring \subseteq overdue
    BY <1>2, <2>1, ExpiringJob
  <2>3. Begin(w, new) /\ UNCHANGED <<ledgerVars, tables, executed>>
    BY <1>2
  <2> HIDE DEF new
  <2>4. Started(w, new)
    BY <2>2, <2>3, StartedBy
  <2> QED
    BY <2>4
<1>3. ASSUME NEW a \in DOMAIN approvals, NEW status \in {"approved", "rejected"},
             ReadApproval(w, a, status)
      PROVE  \E new : Started(w, new)
  <2>1. CASE a \in overdue
    <3>1. {a} \subseteq overdue /\ Begin(w, Expiring({a})) /\ UNCHANGED <<ledgerVars, tables, executed>>
      BY <1>3, <2>1 DEF ReadApproval, Expiring
    <3> QED
      BY <3>1, <1>2
  <2>2. CASE a \notin overdue
    <3> DEFINE c == approvals[a].scope
               new == Judging(a, c, status)
    <3>1. c \in Calls /\ a \in Nat
      BY <1>0 DEF Approvals
    <3>2. Begin(w, new) /\ UNCHANGED <<ledgerVars, tables, executed>>
      BY <1>3, <2>2 DEF ReadApproval, Judging
    <3>3. /\ new \in Jobs /\ new.at = "decide" /\ new.decision = None /\ new.call = c
          /\ new.approval = a /\ new.status \in {"approved", "rejected"} /\ new.expiring = {}
      <4> HIDE DEF c
      <4> QED
        BY <3>1, JudgingJob
    <3>4. /\ new.approval \in DOMAIN approvals /\ approvals[new.approval].scope = new.call
          /\ new.call \in Calls
      BY <3>1, <3>3
    <3> HIDE DEF new, c
    <3>5. new.expiring \subseteq overdue
      BY <3>3
    <3>6. Started(w, new)
      BY <3>2, <3>3, <3>4, <3>5, StartedBy
    <3> QED
      BY <3>6
  <2> QED
    BY <2>1, <2>2
<1>4. CASE list_approvals(w)
  <2> DEFINE due == {a \in overdue : approvals[a].status = "pending"}
  <2>1. due \subseteq overdue /\ Begin(w, Expiring(due)) /\ UNCHANGED <<ledgerVars, tables, executed>>
    BY <1>4 DEF list_approvals, Expiring
  <2> HIDE DEF due
  <2> QED
    BY <2>1, <1>2
<1>5. ASSUME NEW document \in Documents, create_policy(w, document)
      PROVE  \E new : Started(w, new)
  <2> DEFINE n == Len(policies) + 1
             version == [document |-> document, committed |-> FALSE]
             new == Inserting(n)
  <2>1. n \in Nat
    BY <1>0
  <2>2. /\ new \in Jobs /\ new.at = "insert" /\ new.decision = None /\ new.policy = n
        /\ new.expiring = {}
    <3> HIDE DEF n
    <3> QED
      BY <2>1, InsertingJob
  <2>3. /\ Begin(w, new) /\ UNCHANGED <<ledgerVars, approvals, overdue, executed>>
        /\ policies' = Append(policies, version)
    BY <1>5 DEF create_policy, Inserting
  <2>4. version \in Versions /\ version.committed = FALSE
    BY DEF Versions
  <2> HIDE DEF new, version
  <2>5. /\ policies' \in Seq(Versions) /\ DOMAIN policies' = DOMAIN policies \cup {n}
        /\ n \notin DOMAIN policies /\ policies'[n] = version
        /\ \A p \in DOMAIN policies : policies'[p] = policies[p]
    BY <1>0, <2>3, <2>4
  <2> HIDE DEF n
  <2>6. {p \in DOMAIN policies' : policies'[p].committed} =
            {p \in DOMAIN policies : policies[p].committed}
    BY <2>4, <2>5
  <2>7. Started(w, new)
    BY <2>2, <2>3, <2>5, <2>6 DEF Started, Begin
  <2> QED
    BY <2>7
<1> QED
  BY <1>1, <1>3, <1>4, <1>5 DEF Take

LEMMA TypedStart ==
    ASSUME Typed, NEW w \in Workers, NEW new, Started(w, new)
    PROVE  Typed'
<1>1. P!OrderInv'
  <2>1. UNCHANGED P!vars
    BY DEF Started, ledgerVars, P!vars
  <2> QED
    BY <2>1, P!OrderStutter DEF Typed
<1>2. job' \in [Workers -> Jobs] /\ job'[w] = new /\ \A v \in Workers \ {w} : job'[v] = job[v]
  BY DEF Typed, Started
<1>3. jobs' \in 0 .. MaxJobs
  BY GatewayAssumption DEF Typed, Started
<1>4. Knows(w)'
  BY <1>2 DEF Started, Knows, Quiet, Deciding
<1>5. ASSUME NEW v \in Workers \ {w} PROVE Knows(v)'
  BY <1>2, KnowsStays DEF Typed, Started
<1> QED
  BY <1>1, <1>2, <1>3, <1>4, <1>5 DEF Typed, Started

LEMMA MovesTo ==
    ASSUME Typed, NEW w \in Workers, NEW a \in Places, job' = [job EXCEPT ![w].at = a]
    PROVE  /\ job' \in [Workers -> Jobs] /\ \A v \in Workers \ {w} : job'[v] = job[v]
           /\ job'[w].at = a /\ job'[w].call = job[w].call
           /\ job'[w].approval = job[w].approval /\ job'[w].status = job[w].status
           /\ job'[w].parent = job[w].parent /\ job'[w].decision = job[w].decision
           /\ job'[w].policy = job[w].policy /\ job'[w].expiring = job[w].expiring
<1>1. PICK n : n = [job[w] EXCEPT !.at = a] /\ job' = [job EXCEPT ![w] = n]
  OBVIOUS
<1>2. job[w] \in Jobs
  BY DEF Typed
<1>3. /\ n \in Jobs /\ n.at = a /\ n.call = job[w].call /\ n.approval = job[w].approval
      /\ n.status = job[w].status /\ n.parent = job[w].parent /\ n.decision = job[w].decision
      /\ n.policy = job[w].policy /\ n.expiring = job[w].expiring
  BY <1>1, <1>2, JobMoves
<1>4. job' \in [Workers -> Jobs] /\ job'[w] = n /\ \A v \in Workers \ {w} : job'[v] = job[v]
  BY <1>1, <1>3 DEF Typed
<1> QED
  BY <1>3, <1>4

\* A worker that is done, one way or the other
LEMMA Rests ==
    ASSUME Typed, NEW w \in Workers, job' = [job EXCEPT ![w] = Idle]
    PROVE  /\ job' \in [Workers -> Jobs] /\ job'[w] = Idle /\ Knows(w)'
           /\ \A v \in Workers \ {w} : job'[v] = job[v]
<1>1. /\ job' \in [Workers -> Jobs] /\ job'[w] = Idle
      /\ \A v \in Workers \ {w} : job'[v] = job[v]
  BY IdleTyped DEF Typed
<1>2. Knows(w)'
  BY <1>1, IdleTyped DEF Knows, Quiet, Deciding
<1> QED
  BY <1>1, <1>2

LEMMA TypedInsert ==
    ASSUME Typed, NEW w \in Workers, InsertPolicy(w)
    PROVE  Typed'
<1>1. P!OrderInv' /\ UNCHANGED <<tables, jobs, executed>>
  BY Constants, SameActions, P!OrderInsert DEF Typed, InsertPolicy
<1>2. job[w].at = "insert" /\ job' = [job EXCEPT ![w].at = "save"]
  BY DEF InsertPolicy
<1>3. "save" \in Places
  BY DEF Places, Quiet
<1>4. /\ job' \in [Workers -> Jobs] /\ \A v \in Workers \ {w} : job'[v] = job[v]
      /\ job'[w].at = "save" /\ job'[w].policy = job[w].policy
      /\ job'[w].decision = job[w].decision /\ job'[w].expiring = job[w].expiring
  BY <1>2, <1>3, MovesTo
<1>5. Knows(w)'
  BY <1>1, <1>2, <1>4 DEF Typed, Knows, Quiet, Deciding, tables
<1>6. ASSUME NEW v \in Workers \ {w} PROVE Knows(v)'
  BY <1>1, <1>4, KnowsStays DEF Typed, tables
<1> QED
  BY <1>1, <1>4, <1>5, <1>6 DEF Typed, tables

\* What a connector does: at least what execute says
LEMMA ExecuteEffect ==
    ASSUME Typed, NEW w \in Workers, Execute(w)
    PROVE  \E next \in {"complete", "fail"} :
              /\ job[w].at = "execute" /\ job' = [job EXCEPT ![w].at = next]
              /\ LET x == [call |-> job[w].call, approval |-> job[w].approval,
                           decision |-> job[w].decision, request |-> job[w].parent]
                 IN  /\ \/ executed' = executed \cup {x} /\ x \in Executions
                        \/ executed' = executed
                     /\ next = "complete" => executed' = executed \cup {x}
              /\ UNCHANGED <<ledgerVars, tables, jobs>>
<1> DEFINE x == [call |-> job[w].call, approval |-> job[w].approval,
                 decision |-> job[w].decision, request |-> job[w].parent]
<1>1. PICK result \in execute(job[w].call) :
              /\ job' = [job EXCEPT ![w].at = result.next]
              /\ executed' = IF result.acts THEN executed \cup {x} ELSE executed
  BY DEF Execute
<1>2. /\ result.next \in {"complete", "fail"}
      /\ result.acts => job[w].call \in Supported
      /\ result.next = "complete" => result.acts
  BY DEF execute
<1>3. ASSUME result.acts PROVE x \in Executions
  <2>1. /\ job[w].approval \in Nat \cup {None} /\ job[w].decision \in PolicyDecisions \cup {None}
    BY JobField DEF Typed
  <2>2. job[w].decision # None /\ job[w].parent \in Nat
    BY DEF Typed, Knows, Execute, Deciding, Quiet
  <2> QED
    BY <1>2, <1>3, <2>1, <2>2 DEF Executions
<1>4. job[w].at = "execute" /\ UNCHANGED <<ledgerVars, tables, jobs>>
  BY DEF Execute
<1> HIDE DEF x
<1>5. /\ (executed' = executed \cup {x} /\ x \in Executions) \/ executed' = executed
      /\ result.next = "complete" => executed' = executed \cup {x}
  BY <1>1, <1>2, <1>3
<1> QED
  BY <1>1, <1>2, <1>4, <1>5 DEF x

LEMMA TypedExecute ==
    ASSUME Typed, NEW w \in Workers, Execute(w)
    PROVE  Typed'
<1>1. PICK next \in {"complete", "fail"} :
              /\ job[w].at = "execute" /\ job' = [job EXCEPT ![w].at = next]
              /\ executed' \subseteq executed \cup Executions
              /\ UNCHANGED <<ledgerVars, tables, jobs>>
  BY ExecuteEffect, Zenon
<1>2. P!OrderInv'
  BY <1>1, P!OrderStutter DEF Typed, ledgerVars, P!vars
<1>3. next \in Places
  BY DEF Places, Deciding
<1>4. /\ job' \in [Workers -> Jobs] /\ \A v \in Workers \ {w} : job'[v] = job[v]
      /\ job'[w].at = next /\ job'[w].call = job[w].call
      /\ job'[w].parent = job[w].parent /\ job'[w].decision = job[w].decision
      /\ job'[w].expiring = job[w].expiring
  BY <1>1, <1>3, MovesTo
<1>5. Knows(w)'
  <2>1. Knows(w)
    BY DEF Typed
  <2> QED
    BY <1>1, <1>4, <2>1 DEF Knows, Quiet, Deciding, tables
<1>6. ASSUME NEW v \in Workers \ {w} PROVE Knows(v)'
  BY <1>1, <1>4, KnowsStays DEF Typed, tables
<1>7. executed' \subseteq Executions
  BY <1>1 DEF Typed
<1> QED
  BY <1>1, <1>2, <1>4, <1>5, <1>6, <1>7 DEF Typed, tables

\* The status of an approval changes, to one of the four.
LEMMA TypedExpire ==
    ASSUME Typed, NEW w \in Workers, Expire(w)
    PROVE  /\ Typed' /\ DOMAIN approvals' = DOMAIN approvals
           /\ \A a \in DOMAIN approvals :
                 /\ approvals'[a].scope = approvals[a].scope
                 /\ approvals'[a].status = IF a \in job[w].expiring THEN "expired"
                                                                    ELSE approvals[a].status
<1>1. /\ job' = [job EXCEPT ![w] = Idle]
      /\ UNCHANGED <<ledgerVars, overdue, policies, jobs, executed>>
      /\ approvals' = [a \in DOMAIN approvals |->
              IF a \in job[w].expiring THEN [approvals[a] EXCEPT !.status = "expired"]
                                       ELSE approvals[a]]
  BY DEF Expire
<1>2. P!OrderInv'
  BY <1>1, P!OrderStutter DEF Typed, ledgerVars, P!vars
<1>3. ASSUME NEW r \in Approvals
      PROVE  LET x == [r EXCEPT !.status = "expired"] IN
             x \in Approvals /\ x.scope = r.scope /\ x.status = "expired"
  BY DEF Approvals, Statuses
<1>4. /\ approvals' \in [DOMAIN approvals -> Approvals] /\ DOMAIN approvals' = DOMAIN approvals
      /\ \A a \in DOMAIN approvals :
            /\ approvals'[a].scope = approvals[a].scope
            /\ approvals'[a].status = IF a \in job[w].expiring THEN "expired"
                                                               ELSE approvals[a].status
  <2>1. \A a \in DOMAIN approvals : approvals[a] \in Approvals
    BY DEF Typed
  <2> QED
    BY <1>1, <1>3, <2>1
<1>5. ASSUME NEW v \in Workers \ {w} PROVE Knows(v)'
  BY <1>1, <1>4, Rests, KnowsStays DEF Typed
<1>6. Typed'
  BY <1>1, <1>2, <1>4, <1>5, Rests DEF Typed
<1> QED
  BY <1>4, <1>6

\* The chain that w would commit: what is on record, and behind it what w wrote
LEMMA WholeChain ==
    ASSUME Typed, NEW w \in Workers
    PROVE  /\ events \in Seq(P!Events) /\ staged[w] \in Seq(P!Events)
           /\ Whole(w) \in Seq(P!Events)
           /\ Len(events) \in Nat /\ Len(staged[w]) \in Nat
           /\ Len(Whole(w)) = Len(events) + Len(staged[w])
           /\ \A i \in 1 .. Len(events) : Whole(w)[i] = events[i]
           /\ \A i \in 1 .. Len(staged[w]) : Whole(w)[Len(events) + i] = staged[w][i]
           /\ staged[w] # <<>> => LastOf(Whole(w)) = LastOf(staged[w])
           /\ staged[w] = <<>> => Whole(w) = events
<1>1. events \in Seq(P!Events) /\ staged[w] \in Seq(P!Events)
  BY DEF Typed, P!OrderInv, P!TypeOK
<1>2. /\ Whole(w) \in Seq(P!Events)
      /\ Len(events) \in Nat /\ Len(staged[w]) \in Nat
      /\ Len(Whole(w)) = Len(events) + Len(staged[w])
      /\ \A i \in 1 .. Len(events) : Whole(w)[i] = events[i]
      /\ \A i \in 1 .. Len(staged[w]) : Whole(w)[Len(events) + i] = staged[w][i]
  BY <1>1 DEF Whole
<1>3. staged[w] # <<>> => LastOf(Whole(w)) = LastOf(staged[w])
  <2>1. staged[w] # <<>> => Len(staged[w]) \in 1 .. Len(staged[w])
    BY <1>1
  <2> QED
    BY <1>2, <2>1 DEF LastOf
<1>4. staged[w] = <<>> => Whole(w) = events
  BY <1>1 DEF Whole
<1> QED
  BY <1>1, <1>2, <1>3, <1>4

\* The id that the last written event gives to an approval is not in use.
LEMMA FreshApproval ==
    ASSUME Typed, Phased, Anchored, NEW w \in Workers, job[w].at \notin Quiet
    PROVE  job[w].parent \notin DOMAIN approvals
<1> SUFFICES ASSUME job[w].parent \in DOMAIN approvals PROVE FALSE
  OBVIOUS
<1>1. PICK i \in 1 .. Len(events) : events[i].id = job[w].parent
  BY DEF Anchored
<1>2. staged[w] # <<>> /\ LastOf(staged[w]).id = job[w].parent
  BY DEF Phased, Wrote
<1> DEFINE n == Len(Whole(w))
<1>3. Whole(w)[n].id = job[w].parent /\ Whole(w)[i].id = job[w].parent
  BY <1>1, <1>2, WholeChain DEF LastOf
<1>4. n \in 1 .. Len(Whole(w)) /\ i \in 1 .. Len(Whole(w)) /\ i # n
  <2>1. Len(staged[w]) # 0
    BY <1>2, WholeChain
  <2> QED
    BY <2>1, WholeChain
<1>5. Whole(w) \in Seq(P!Events) /\ ids \in Nat /\ P!Ordered(Whole(w), ids)
  BY WholeChain DEF Typed, P!OrderInv, P!TypeOK, P!Sound, Whole
<1> HIDE DEF n
<1>6. i = n
  BY <1>3, <1>4, <1>5, P!OrderedDistinct
<1> QED
  BY <1>4, <1>6

\* What the end of a transaction does to the chain
LEMMA EndsEffect ==
    ASSUME Typed, NEW w \in Workers, L!Commit(w) \/ L!Rollback(w)
    PROVE  /\ P!OrderInv' /\ staged' \in [Workers -> Seq(P!Events)]
           /\ staged'[w] = <<>> /\ \A v \in Workers \ {w} : staged'[v] = staged[v]
           /\ staged[w] # <<>> => \A v \in Workers \ {w} : staged[v] = <<>>
           /\ L!Commit(w) => events' = Whole(w)
           /\ L!Rollback(w) => events' = events
           /\ lock' = IF lock = w THEN Free ELSE lock
           /\ sharers' = sharers \ {w}
<1>1. P!OrderInv'
  BY Constants, SameActions, P!OrderCommit, P!OrderRollback DEF Typed
<1>2. P!End(w)
  BY SameActions DEF P!Commit, P!Rollback
<1>3. /\ staged' \in [Workers -> Seq(P!Events)]
      /\ staged'[w] = <<>> /\ \A v \in Workers \ {w} : staged'[v] = staged[v]
      /\ lock' = IF lock = w THEN Free ELSE lock
  BY <1>2, Constants, P!EndTyped DEF Typed, P!OrderInv
<1>4. staged[w] # <<>> => \A v \in Workers \ {w} : staged[v] = <<>>
  BY DEF Typed, P!OrderInv
<1>5. /\ L!Commit(w) => events' = Whole(w)
      /\ L!Rollback(w) => events' = events
      /\ sharers' = sharers \ {w}
  BY DEF L!Commit, L!Rollback, L!End, Whole
<1> QED
  BY <1>1, <1>3, <1>4, <1>5

LEMMA TypedDrop ==
    ASSUME Typed, NEW w \in Workers, Drop(w)
    PROVE  Typed'
<1>1. /\ P!OrderInv' /\ job' = [job EXCEPT ![w] = Idle]
      /\ UNCHANGED <<tables, jobs, executed>>
  BY EndsEffect DEF Drop
<1>2. ASSUME NEW v \in Workers \ {w} PROVE Knows(v)'
  BY <1>1, <1>2, Rests, KnowsStays DEF Typed, tables
<1> QED
  BY <1>1, <1>2, Rests DEF Typed, tables

\* What a commit does to the approvals: one more, one decided, or nothing
LEMMA SavedApprovals ==
    ASSUME Typed, Phased, Anchored, NEW w \in Workers, job[w].at \in Done, Saved(w)
    PROVE  /\ approvals' \in [DOMAIN approvals' -> Approvals]
           /\ DOMAIN approvals' \subseteq Nat /\ DOMAIN approvals \subseteq DOMAIN approvals'
           /\ \A a \in DOMAIN approvals :
                 /\ approvals'[a].scope = approvals[a].scope
                 /\ approvals'[a].status =
                       IF job[w].at = "settle" /\ a = job[w].approval THEN job[w].status
                                                                      ELSE approvals[a].status
           /\ job[w].at = "create" =>
                 /\ DOMAIN approvals' = DOMAIN approvals \cup {job[w].parent}
                 /\ job[w].parent \notin DOMAIN approvals
                 /\ approvals'[job[w].parent].status = "pending"
           /\ job[w].at # "create" => DOMAIN approvals' = DOMAIN approvals
<1>0. /\ approvals \in [DOMAIN approvals -> Approvals] /\ DOMAIN approvals \subseteq Nat
      /\ \A a \in DOMAIN approvals : approvals[a] \in Approvals
      /\ Knows(w)
  BY DEF Typed
<1>1. CASE job[w].at = "create"
  <2> DEFINE id == job[w].parent
             row == [status |-> "pending", scope |-> job[w].call]
  <2>1. id \notin DOMAIN approvals /\ id \in Nat
    BY <1>0, <1>1, FreshApproval DEF Knows, Quiet
  <2>2. row \in Approvals /\ row.status = "pending"
    BY <1>0, <1>1 DEF Knows, Approvals, Statuses, Deciding
  <2>3. approvals' = [a \in DOMAIN approvals \cup {id} |-> IF a = id THEN row ELSE approvals[a]]
    BY <1>1 DEF Saved
  <2> HIDE DEF id, row
  <2>4. /\ DOMAIN approvals' = DOMAIN approvals \cup {id} /\ approvals'[id] = row
        /\ \A a \in DOMAIN approvals : approvals'[a] = approvals[a]
        /\ \A a \in DOMAIN approvals' : approvals'[a] \in Approvals
    BY <1>0, <2>1, <2>2, <2>3
  <2>5. approvals' \in [DOMAIN approvals' -> Approvals]
    BY <2>3, <2>4
  <2> QED
    BY <1>0, <1>1, <2>1, <2>2, <2>4, <2>5 DEF id
<1>2. CASE job[w].at = "settle"
  <2>1. /\ job[w].approval \in DOMAIN approvals /\ job[w].status \in Statuses
    BY <1>0, <1>2 DEF Knows, Statuses
  <2>2. PICK row : /\ row = [approvals[job[w].approval] EXCEPT !.status = job[w].status]
                   /\ approvals' = [approvals EXCEPT ![job[w].approval] = row]
    BY <1>2 DEF Saved
  <2>3. /\ row \in Approvals /\ row.status = job[w].status
        /\ row.scope = approvals[job[w].approval].scope
    <3> DEFINE old == approvals[job[w].approval]
               status == job[w].status
    <3>1. old \in Approvals /\ status \in Statuses /\ row = [old EXCEPT !.status = status]
      BY <1>0, <2>1, <2>2
    <3> HIDE DEF old, status
    <3>2. row \in Approvals /\ row.status = status /\ row.scope = old.scope
      BY <3>1 DEF Approvals
    <3> QED
      BY <3>2 DEF old, status
  <2>4. /\ approvals' \in [DOMAIN approvals -> Approvals] /\ approvals'[job[w].approval] = row
        /\ DOMAIN approvals' = DOMAIN approvals
        /\ \A a \in DOMAIN approvals : a # job[w].approval => approvals'[a] = approvals[a]
    BY <1>0, <2>1, <2>2, <2>3
  <2> QED
    BY <1>0, <1>2, <2>3, <2>4
<1>3. CASE job[w].at \notin {"create", "settle"}
  <2>1. approvals' = approvals
    BY <1>3 DEF Saved
  <2> QED
    BY <1>0, <1>3, <2>1
<1> QED
  BY <1>1, <1>2, <1>3

LEMMA SavedPolicies ==
    ASSUME Typed, NEW w \in Workers, job[w].at \in Done, Saved(w)
    PROVE  /\ policies' \in Seq(Versions) /\ DOMAIN policies' = DOMAIN policies
           /\ job[w].at # "save" => policies' = policies
<1>0. policies \in Seq(Versions) /\ Knows(w)
  BY DEF Typed
<1>1. CASE job[w].at = "save"
  <2>1. PICK row : /\ row = [policies[job[w].policy] EXCEPT !.committed = TRUE]
                   /\ policies' = [policies EXCEPT ![job[w].policy] = row]
    BY <1>1 DEF Saved
  <2>2. job[w].policy \in DOMAIN policies
    BY <1>0, <1>1 DEF Knows
  <2>3. row \in Versions
    <3> DEFINE old == policies[job[w].policy]
    <3>1. old \in Versions
      BY <1>0, <2>2
    <3> QED
      BY <2>1, <3>1 DEF Versions
  <2> QED
    BY <1>0, <1>1, <2>1, <2>2, <2>3
<1>2. CASE job[w].at # "save"
  BY <1>0, <1>2 DEF Saved
<1> QED
  BY <1>1, <1>2

LEMMA TypedCommit ==
    ASSUME Typed, Phased, Anchored, NEW w \in Workers, CommitWork(w)
    PROVE  Typed'
<1>1. /\ P!OrderInv' /\ job' = [job EXCEPT ![w] = Idle]
      /\ UNCHANGED <<overdue, jobs, executed>> /\ job[w].at \in Done /\ Saved(w)
  BY EndsEffect DEF CommitWork
<1>2. /\ approvals' \in [DOMAIN approvals' -> Approvals]
      /\ DOMAIN approvals' \subseteq Nat /\ DOMAIN approvals \subseteq DOMAIN approvals'
      /\ \A a \in DOMAIN approvals :
            a \in DOMAIN approvals' /\ approvals'[a].scope = approvals[a].scope
  BY <1>1, SavedApprovals
<1>3. policies' \in Seq(Versions) /\ DOMAIN policies' = DOMAIN policies
  BY <1>1, SavedPolicies
<1>4. ASSUME NEW v \in Workers \ {w} PROVE Knows(v)'
  BY <1>1, <1>2, <1>3, Rests, KnowsStays DEF Typed
<1>5. overdue' \subseteq DOMAIN approvals'
  BY <1>1, <1>2 DEF Typed
<1> QED
  BY <1>1, <1>2, <1>3, <1>4, <1>5, Rests DEF Typed

LEMMA TypedOverdue ==
    ASSUME Typed, NEW a \in DOMAIN approvals, Overdue(a)
    PROVE  Typed'
<1>1. UNCHANGED <<ledgerVars, approvals, policies, job, jobs, executed>> /\ overdue' = overdue \cup {a}
  BY DEF Overdue
<1>2. P!OrderInv'
  BY <1>1, P!OrderStutter DEF Typed, ledgerVars, P!vars
<1>3. ASSUME NEW v \in Workers PROVE Knows(v)'
  BY <1>1, KnowsStays DEF Typed
<1> QED
  BY <1>1, <1>2, <1>3 DEF Typed

LEMMA TypedUpdate ==
    ASSUME Typed, NEW p \in DOMAIN policies, NEW document \in Documents, update_policy(p, document)
    PROVE  /\ Typed' /\ Newest' = Newest
<1>0. policies \in Seq(Versions) /\ policies[p] \in Versions
  BY DEF Typed
<1>1. /\ UNCHANGED <<ledgerVars, approvals, overdue, job, executed>>
      /\ jobs < MaxJobs /\ jobs' = jobs + 1
  BY DEF update_policy
<1>2. PICK row : /\ row = [policies[p] EXCEPT !.document = document]
                 /\ policies' = [policies EXCEPT ![p] = row]
  BY DEF update_policy
<1>3. row \in Versions /\ row.committed = policies[p].committed
  BY <1>0, <1>2 DEF Versions
<1>4. /\ policies' \in Seq(Versions) /\ DOMAIN policies' = DOMAIN policies
      /\ \A q \in DOMAIN policies : policies'[q].committed = policies[q].committed
  BY <1>0, <1>2, <1>3
<1>5. Newest' = Newest
  <2>1. {q \in DOMAIN policies' : policies'[q].committed} =
            {q \in DOMAIN policies : policies[q].committed}
    BY <1>4
  <2> QED
    BY <2>1 DEF Newest
<1>6. P!OrderInv'
  BY <1>1, P!OrderStutter DEF Typed, ledgerVars, P!vars
<1>7. ASSUME NEW v \in Workers PROVE Knows(v)'
  BY <1>1, <1>4, KnowsStays DEF Typed
<1>8. jobs' \in 0 .. MaxJobs
  BY <1>1, GatewayAssumption DEF Typed
<1>9. Typed'
  BY <1>1, <1>4, <1>6, <1>7, <1>8 DEF Typed
<1> QED
  BY <1>5, <1>9

LEMMA TypedStutter ==
    ASSUME Typed, UNCHANGED vars
    PROVE  Typed'
<1>1. UNCHANGED <<ledgerVars, tables, job, jobs, executed>>
  BY DEF vars
<1>2. P!OrderInv'
  BY <1>1, P!OrderStutter DEF Typed, ledgerVars, P!vars
<1>3. ASSUME NEW v \in Workers PROVE Knows(v)'
  BY <1>1, KnowsStays DEF Typed, tables
<1> QED
  BY <1>1, <1>2, <1>3 DEF Typed, tables

LEMMA TypedInit ==
    ASSUME Init
    PROVE  Typed
<1>1. P!OrderInv
  <2>1. P!Init
    BY DEF Init, L!Init, P!Init
  <2> QED
    BY <2>1, Constants, P!OrderInit
<1>2. policies \in Seq(Versions)
  BY GatewayAssumption DEF Init, Versions
<1>3. job \in [Workers -> Jobs] /\ \A w \in Workers : job[w] = Idle
  BY IdleTyped DEF Init
<1>4. approvals \in [DOMAIN approvals -> Approvals] /\ DOMAIN approvals = {} /\ overdue = {}
      /\ executed = {} /\ jobs = 0
  BY DEF Init
<1>5. ASSUME NEW w \in Workers PROVE Knows(w)
  BY <1>3, IdleTyped DEF Knows, Quiet, Deciding
<1> QED
  BY <1>1, <1>2, <1>3, <1>4, <1>5, GatewayAssumption DEF Typed

\* The kinds of steps
LEMMA Steps ==
    ASSUME Typed, [Next]_vars
    PROVE  \/ \E w \in Workers : \E type, approval, new :
                 Logs(w, type, approval, new) /\ Log(w, type, approval, new)
           \/ \E w \in Workers : \E new : Started(w, new)
           \/ \E w \in Workers :
                 InsertPolicy(w) \/ Execute(w) \/ Expire(w) \/ CommitWork(w) \/ Drop(w)
           \/ \E a \in DOMAIN approvals : Overdue(a)
           \/ \E p \in DOMAIN policies, document \in Documents : update_policy(p, document)
           \/ UNCHANGED vars
<1>1. ASSUME NEW w \in Workers, Handle(w)
      PROVE  \/ \E type, approval, new :
                   Logs(w, type, approval, new) /\ Log(w, type, approval, new)
             \/ InsertPolicy(w) \/ Execute(w) \/ Expire(w) \/ CommitWork(w) \/ Drop(w)
  <2>1. \/ \/ Receive(w) \/ Evaluate(w) \/ Deny(w) \/ RefuseApproval(w) \/ RequireApproval(w)
           \/ Request(w) \/ Complete(w) \/ Fail(w) \/ Decide(w)
        \/ InsertPolicy(w) \/ Execute(w) \/ Expire(w) \/ CommitWork(w)
        \/ EvaluateRaises(w) \/ RefuseUnknown(w)
    BY <1>1 DEF Handle
  <2>2. EvaluateRaises(w) \/ RefuseUnknown(w) => Drop(w)
    BY DEF EvaluateRaises, RefuseUnknown
  <2> QED
    BY <2>1, <2>2, Writers, Zenon
<1>2. ASSUME NEW w \in Workers, Take(w) PROVE \E new : Started(w, new)
  BY <1>2, StartEffect
<1>3. ASSUME NEW w \in Workers, Abort(w) PROVE Drop(w)
  BY <1>3 DEF Abort
<1> QED
  BY <1>1, <1>2, <1>3, Zenon DEF Next

-----------------------------------------------------------------------------
(* What handlers have written, and the approvals' ids *)

LEMMA Appended ==
    ASSUME NEW chain \in Seq(P!Events), NEW e \in P!Events, NEW longer, longer = Append(chain, e)
    PROVE  /\ Len(chain) \in Nat /\ Len(longer) = Len(chain) + 1 /\ longer # <<>>
           /\ LastOf(longer) = e
           /\ \A i \in 1 .. Len(chain) : longer[i] = chain[i]
BY DEF LastOf

LEMMA WroteStays ==
    ASSUME NEW v, Wrote(v), staged'[v] = staged[v], job'[v] = job[v]
    PROVE  Wrote(v)'
BY DEF Wrote, LastOf

\* Steps that write no event
LEMMA PhasedQuiet ==
    ASSUME Typed, Phased, NEW w \in Workers, \A v \in Workers \ {w} : job'[v] = job[v],
           \A v \in Workers \ {w} : staged'[v] = staged[v],
           job'[w].at \in Quiet, staged'[w] = <<>>
    PROVE  Phased'
<1>1. Wrote(w)'
  BY DEF Wrote
<1>2. ASSUME NEW v \in Workers \ {w} PROVE Wrote(v)'
  BY WroteStays DEF Phased
<1> QED
  BY <1>1, <1>2 DEF Phased

LEMMA PhasedLog ==
    ASSUME Typed, Phased, NEW w \in Workers, NEW type, NEW approval, NEW new, NEW e,
           Logs(w, type, approval, new), Logged(w, type, approval, new, e)
    PROVE  Phased'
<1>0. staged \in [Workers -> Seq(P!Events)] /\ staged[w] \in Seq(P!Events)
  BY DEF Typed, P!OrderInv, P!TypeOK
<1>1. /\ \A v \in Workers \ {w} : job'[v] = job[v]
      /\ job'[w].at = new.at /\ job'[w].call = new.call
      /\ job'[w].approval = new.approval /\ job'[w].status = new.status
      /\ job'[w].parent = ids + 1
  BY LogJob
<1>2. /\ e \in P!Events /\ e.id = ids + 1 /\ e.data.type = type /\ e.data.approval = approval
      /\ e.data.call = new.call
      /\ staged'[w] = Append(staged[w], e)
      /\ \A v \in Workers \ {w} : staged'[v] = staged[v]
  BY <1>0 DEF Logged
<1>3. /\ new.at \notin Quiet /\ type \in Latest(new.at)
      /\ new.approval = job[w].approval /\ new.status = job[w].status
      /\ IF new.at = "settle"
         THEN job[w].at = "decide" /\ type = Verdict(job[w].status) /\ approval = job[w].approval
         ELSE type \notin Decisive /\ job[w].at \notin {"decide", "settle"}
  BY LogTable DEF Quiet
<1>4. /\ staged'[w] # <<>> /\ Len(staged'[w]) = Len(staged[w]) + 1
      /\ LastOf(staged'[w]) = e
      /\ \A i \in 1 .. Len(staged[w]) : staged'[w][i] = staged[w][i]
  <2> DEFINE chain == staged[w]
             longer == staged'[w]
  <2>1. chain \in Seq(P!Events) /\ e \in P!Events /\ longer = Append(chain, e)
    BY <1>0, <1>2
  <2> HIDE DEF chain, longer
  <2>2. /\ Len(longer) = Len(chain) + 1 /\ longer # <<>> /\ LastOf(longer) = e
        /\ \A i \in 1 .. Len(chain) : longer[i] = chain[i]
    BY <2>1, Appended
  <2> QED
    BY <2>2 DEF chain, longer
<1>5. CASE new.at = "settle"
  <2>1. staged[w] = <<>>
    BY <1>3, <1>5 DEF Phased, Wrote, Quiet
  <2>2. Len(staged'[w]) = 1
    BY <1>4, <2>1
  <2>3. Wrote(w)'
    BY <1>1, <1>2, <1>3, <1>4, <1>5, <2>2 DEF Wrote, LastOf
  <2> QED
    BY <1>1, <1>2, <2>3, WroteStays DEF Phased
<1>6. CASE new.at # "settle"
  <2>1. \A i \in 1 .. Len(staged[w]) : staged[w][i].data.type \notin Decisive
    BY <1>3, <1>6 DEF Phased, Wrote
  <2>2. \A i \in 1 .. Len(staged'[w]) : staged'[w][i].data.type \notin Decisive
    <3> TAKE i \in 1 .. Len(staged'[w])
    <3>1. CASE i \in 1 .. Len(staged[w])
      BY <1>4, <2>1, <3>1
    <3>2. CASE i = Len(staged[w]) + 1
      BY <1>2, <1>3, <1>4, <1>6, <3>2 DEF LastOf
    <3> QED
      BY <1>0, <1>4, <3>1, <3>2
  <2>3. Wrote(w)'
    BY <1>1, <1>2, <1>3, <1>4, <1>6, <2>2 DEF Wrote, LastOf
  <2> QED
    BY <1>1, <1>2, <2>3, WroteStays DEF Phased
<1> QED
  BY <1>5, <1>6

LEMMA AnchoredStays ==
    ASSUME Anchored, events' = events, DOMAIN approvals' = DOMAIN approvals
    PROVE  Anchored'
BY DEF Anchored

\* The two and the types, which need each other
Base == Typed /\ Phased /\ Anchored

LEMMA BaseLog ==
    ASSUME Base, NEW w \in Workers, NEW type, NEW approval, NEW new,
           Logs(w, type, approval, new), Log(w, type, approval, new)
    PROVE  Base'
<1>1. PICK e : Logged(w, type, approval, new, e)
  BY LogEffect DEF Base
<1>2. Phased'
  BY <1>1, PhasedLog DEF Base
<1>3. Anchored'
  BY <1>1, AnchoredStays DEF Base, Logged, tables
<1> QED
  BY <1>2, <1>3, TypedLog DEF Base

LEMMA BaseStart ==
    ASSUME Base, NEW w \in Workers, NEW new, Started(w, new)
    PROVE  Base'
<1>1. /\ job' = [job EXCEPT ![w] = new] /\ new.at \in Quiet /\ job[w].at \in Quiet
      /\ staged' = staged /\ events' = events /\ approvals' = approvals
  BY IdleTyped DEF Started, Quiet, ledgerVars
<1>2. job'[w].at \in Quiet /\ \A v \in Workers \ {w} : job'[v] = job[v]
  BY <1>1 DEF Base, Typed
<1>3. staged[w] = <<>>
  BY <1>1 DEF Base, Phased, Wrote
<1> QED
  BY <1>1, <1>2, <1>3, PhasedQuiet, AnchoredStays, TypedStart DEF Base

LEMMA BaseInsert ==
    ASSUME Base, NEW w \in Workers, InsertPolicy(w)
    PROVE  Base'
<1>1. /\ job' = [job EXCEPT ![w].at = "save"] /\ job[w].at \in Quiet
      /\ staged' = staged /\ events' = events /\ approvals' = approvals
  BY DEF InsertPolicy, L!insert, tables, Quiet
<1>2. job'[w].at \in Quiet /\ \A v \in Workers \ {w} : job'[v] = job[v]
  <2>1. "save" \in Quiet /\ "save" \in Places
    BY DEF Quiet, Places
  <2> QED
    BY <1>1, <2>1, MovesTo DEF Base
<1>3. staged[w] = <<>>
  BY <1>1 DEF Base, Phased, Wrote
<1> QED
  BY <1>1, <1>2, <1>3, PhasedQuiet, AnchoredStays, TypedInsert DEF Base

LEMMA BaseExecute ==
    ASSUME Base, NEW w \in Workers, Execute(w)
    PROVE  Base'
<1>1. PICK next \in {"complete", "fail"} :
              /\ job[w].at = "execute" /\ job' = [job EXCEPT ![w].at = next]
              /\ UNCHANGED <<ledgerVars, tables, jobs>>
  BY ExecuteEffect, Zenon DEF Base
<1>2. staged' = staged /\ events' = events /\ approvals' = approvals
  BY <1>1 DEF ledgerVars, tables
<1>3. /\ \A v \in Workers \ {w} : job'[v] = job[v]
      /\ job'[w].at = next /\ job'[w].parent = job[w].parent
  <2>1. next \in Places
    BY DEF Places, Deciding
  <2> QED
    BY <1>1, <2>1, MovesTo DEF Base
<1>4. Wrote(w)'
  <2>1. Wrote(w)
    BY DEF Base, Phased
  <2>2. next \notin Quiet /\ "execute" \notin Quiet /\ Latest(next) = Latest("execute")
    BY DEF Quiet, Latest
  <2> QED
    BY <1>1, <1>2, <1>3, <2>1, <2>2 DEF Wrote, LastOf
<1>5. Phased'
  BY <1>2, <1>3, <1>4, WroteStays DEF Base, Phased
<1> QED
  BY <1>2, <1>5, AnchoredStays, TypedExecute DEF Base

LEMMA BaseExpire ==
    ASSUME Base, NEW w \in Workers, Expire(w)
    PROVE  Base'
<1>1. /\ job' = [job EXCEPT ![w] = Idle] /\ job[w].at \in Quiet
      /\ staged' = staged /\ events' = events
  BY DEF Expire, ledgerVars, Quiet
<1>2. job'[w].at \in Quiet /\ \A v \in Workers \ {w} : job'[v] = job[v]
  BY <1>1, IdleTyped, Rests DEF Base, Quiet
<1>3. staged[w] = <<>>
  BY <1>1 DEF Base, Phased, Wrote
<1>4. Typed' /\ DOMAIN approvals' = DOMAIN approvals
  BY TypedExpire DEF Base
<1> QED
  BY <1>1, <1>2, <1>3, <1>4, PhasedQuiet, AnchoredStays DEF Base

LEMMA BaseDrop ==
    ASSUME Base, NEW w \in Workers, Drop(w)
    PROVE  Base'
<1>1. /\ job' = [job EXCEPT ![w] = Idle] /\ events' = events /\ approvals' = approvals
      /\ staged'[w] = <<>> /\ \A v \in Workers \ {w} : staged'[v] = staged[v]
  BY EndsEffect DEF Drop, tables, Base
<1>2. job'[w].at \in Quiet /\ \A v \in Workers \ {w} : job'[v] = job[v]
  BY <1>1, IdleTyped, Rests DEF Base, Quiet
<1> QED
  BY <1>1, <1>2, PhasedQuiet, AnchoredStays, TypedDrop DEF Base

LEMMA BaseCommit ==
    ASSUME Base, NEW w \in Workers, CommitWork(w)
    PROVE  Base'
<1>1. /\ job' = [job EXCEPT ![w] = Idle] /\ events' = Whole(w)
      /\ staged'[w] = <<>> /\ \A v \in Workers \ {w} : staged'[v] = staged[v]
      /\ job[w].at \in Done /\ Saved(w)
  BY EndsEffect DEF CommitWork, Base
<1>2. job'[w].at \in Quiet /\ \A v \in Workers \ {w} : job'[v] = job[v]
  BY <1>1, IdleTyped, Rests DEF Base, Quiet
<1>3. Phased'
  BY <1>1, <1>2, PhasedQuiet DEF Base
<1>4. ASSUME NEW a \in DOMAIN approvals PROVE \E i \in 1 .. Len(events') : events'[i].id = a
  <2>1. PICK i \in 1 .. Len(events) : events[i].id = a
    BY DEF Base, Anchored
  <2>2. i \in 1 .. Len(Whole(w)) /\ Whole(w)[i].id = a
    BY <2>1, WholeChain DEF Base
  <2> QED
    BY <1>1, <2>2
<1>5. CASE job[w].at = "create"
  <2>1. DOMAIN approvals' = DOMAIN approvals \cup {job[w].parent}
    BY <1>1, <1>5, SavedApprovals DEF Base
  <2>2. staged[w] # <<>> /\ LastOf(staged[w]).id = job[w].parent
    BY <1>5 DEF Base, Phased, Wrote, Quiet
  <2>3. Len(Whole(w)) \in 1 .. Len(Whole(w)) /\ Whole(w)[Len(Whole(w))].id = job[w].parent
    <3>1. Len(staged[w]) # 0
      BY <2>2, WholeChain DEF Base
    <3> QED
      BY <2>2, <3>1, WholeChain DEF Base, LastOf
  <2>4. Anchored'
    BY <1>1, <1>4, <2>1, <2>3 DEF Anchored
  <2> QED
    BY <1>3, <2>4, TypedCommit DEF Base
<1>6. CASE job[w].at # "create"
  <2>1. DOMAIN approvals' = DOMAIN approvals
    BY <1>1, <1>6, SavedApprovals DEF Base
  <2>2. Anchored'
    BY <1>4, <2>1 DEF Anchored
  <2> QED
    BY <1>3, <2>2, TypedCommit DEF Base
<1> QED
  BY <1>5, <1>6

\* Steps in which no handler moves
LEMMA BaseStays ==
    ASSUME Base, Typed', events' = events, staged' = staged, job' = job, approvals' = approvals
    PROVE  Base'
<1>1. Phased'
  BY WroteStays DEF Base, Phased
<1> QED
  BY <1>1, AnchoredStays DEF Base

LEMMA BaseNext ==
    ASSUME Base, [Next]_vars
    PROVE  Base'
<1>1. ASSUME NEW a \in DOMAIN approvals, Overdue(a) PROVE Base'
  BY <1>1, BaseStays, TypedOverdue DEF Base, Overdue, ledgerVars
<1>2. ASSUME NEW p \in DOMAIN policies, NEW document \in Documents, update_policy(p, document)
      PROVE  Base'
  BY <1>2, BaseStays, TypedUpdate DEF Base, update_policy, ledgerVars
<1>3. CASE UNCHANGED vars
  BY <1>3, BaseStays, TypedStutter DEF Base, vars, ledgerVars, tables
<1>4. Typed
  BY DEF Base
<1> QED
  BY <1>1, <1>2, <1>3, <1>4, Steps, BaseLog, BaseStart, BaseInsert, BaseExecute, BaseExpire,
     BaseDrop, BaseCommit, Zenon

LEMMA BaseInit ==
    ASSUME Init
    PROVE  Base
<1>1. /\ \A w \in Workers : job[w] = Idle /\ staged[w] = <<>>
      /\ DOMAIN approvals = {}
  BY DEF Init, L!Init
<1>2. Phased
  BY <1>1, IdleTyped DEF Phased, Wrote, Quiet
<1> QED
  BY <1>1, <1>2, TypedInit DEF Base, Anchored

-----------------------------------------------------------------------------
(* The trail *)

\* Steps that write no event and end no transaction
LEMMA TrailStays ==
    ASSUME Trail, events' = events, staged' = staged, executed \subseteq executed',
           \A w \in Workers : job'[w].at = "complete" => Acted(job'[w].parent, executed')
    PROVE  Trail'
<1>1. ASSUME NEW chain, Honest(chain, executed) PROVE Honest(chain, executed')
  BY <1>1 DEF Honest, Acted
<1>2. \A w \in Workers : Whole(w)' = Whole(w)
  BY DEF Whole
<1> QED
  BY <1>1, <1>2 DEF Trail

LEMMA ClosedOpen ==
    ASSUME NEW chain, Closed(chain)
    PROVE  Open(chain)
BY DEF Closed, Open

\* An event that comes right behind the one that calls for it
LEMMA OpenAppend ==
    ASSUME NEW chain \in Seq(P!Events), Open(chain), NEW e \in P!Events,
           e.data.type \in Answering => chain # <<>> /\ e.data.parent = LastOf(chain).id,
           chain # <<>> => \/ Follow(LastOf(chain).data.type) = {}
                           \/ e.data.type \in Follow(LastOf(chain).data.type)
    PROVE  Open(Append(chain, e))
<1> DEFINE longer == Append(chain, e)
           n == Len(chain)
<1>1. /\ n \in Nat /\ Len(longer) = n + 1 /\ longer[n + 1] = e
      /\ \A i \in 1 .. n : longer[i] = chain[i]
      /\ chain # <<>> <=> n > 0
      /\ n > 0 => LastOf(chain) = chain[n]
  BY DEF LastOf
<1> HIDE DEF longer, n
<1>2. ASSUME NEW i \in 1 .. n PROVE Attached(longer, i)
  <2>1. Attached(chain, i)
    BY DEF Open, n
  <2>2. i > 1 => i - 1 \in 1 .. n
    BY <1>1
  <2> QED
    BY <1>1, <2>1, <2>2 DEF Attached
<1>3. ASSUME NEW i \in 1 .. n, i < n PROVE Followed(longer, i)
  <2>1. Followed(chain, i) /\ i + 1 \in 1 .. n
    BY <1>1, <1>3 DEF Open, n
  <2>2. i < Len(longer) /\ longer[i] = chain[i] /\ longer[i + 1] = chain[i + 1]
    BY <1>1, <2>1
  <2> QED
    BY <2>1, <2>2 DEF Followed
<1>4. n > 0 => Followed(longer, n)
  <2> SUFFICES ASSUME n > 0 PROVE Followed(longer, n)
    OBVIOUS
  <2>1. n < Len(longer) /\ longer[n] = chain[n] /\ LastOf(chain) = chain[n] /\ chain # <<>>
    BY <1>1
  <2> QED
    BY <1>1, <2>1 DEF Followed
<1>5. Attached(longer, n + 1)
  <2> SUFFICES ASSUME e.data.type \in Answering
               PROVE  n + 1 > 1 /\ e.data.parent = longer[n + 1 - 1].id
    BY <1>1 DEF Attached
  <2>1. n > 0 /\ n + 1 - 1 = n /\ longer[n] = LastOf(chain) /\ e.data.parent = LastOf(chain).id
    BY <1>1
  <2>2. n + 1 > 1
    BY <1>1, <2>1
  <2> QED
    BY <2>1, <2>2
<1>6. ASSUME NEW i \in 1 .. Len(longer)
      PROVE  Attached(longer, i) /\ (i < Len(longer) => Followed(longer, i))
  <2>1. CASE i = n + 1
    BY <1>1, <1>5, <2>1
  <2>2. CASE i \in 1 .. n - 1
    <3>1. i \in 1 .. n /\ i < n
      BY <1>1, <2>2
    <3> QED
      BY <1>2, <1>3, <3>1
  <2>3. CASE i = n /\ n > 0
    BY <1>2, <1>4, <2>3
  <2> QED
    BY <1>1, <2>1, <2>2, <2>3
<1> QED
  BY <1>6 DEF Open, longer

\* What a handler writes is what its last event calls for.
LEMMA LogFollows ==
    ASSUME NEW w, NEW type, NEW approval, NEW new, Logs(w, type, approval, new)
    PROVE  /\ type \in Answering => job[w].at \notin Quiet
           /\ job[w].at \notin Quiet => \A t \in Latest(job[w].at) : type \in Follow(t)
           /\ type = "tool_call.completed" => job[w].at = "complete"
<1>1. CASE job[w].at \in {"receive", "decide"}
  BY <1>1 DEF Logs, Quiet, Answering, Verdict
<1>2. CASE job[w].at = "evaluate"
  BY <1>2 DEF Logs, Quiet, Latest, Follow
<1>3. CASE job[w].at = "authorize"
  BY <1>3 DEF Logs, Quiet, Latest, Follow
<1>4. CASE job[w].at \in {"complete", "fail"}
  BY <1>4 DEF Logs, Quiet, Latest, Follow
<1> QED
  BY <1>1, <1>2, <1>3, <1>4 DEF Logs

LEMMA TrailLog ==
    ASSUME Base, Trail, NEW w \in Workers, NEW type, NEW approval, NEW new, NEW e,
           Logs(w, type, approval, new), Logged(w, type, approval, new, e)
    PROVE  Trail'
<1> DEFINE chain == Whole(w)
<1>1. /\ e \in P!Events /\ e.data.type = type /\ e.data.parent = job[w].parent
      /\ events' = events /\ executed' = executed
      /\ Whole(w)' = Append(chain, e)
      /\ \A v \in Workers \ {w} : staged'[v] = staged[v]
  BY DEF Logged, Whole
<1>2. Typed /\ chain \in Seq(P!Events) /\ Open(chain) /\ Honest(chain, executed)
  BY WholeChain DEF Base, Trail
<1>3. type \in Answering => chain # <<>> /\ e.data.parent = LastOf(chain).id
  <2> SUFFICES ASSUME type \in Answering
               PROVE  chain # <<>> /\ e.data.parent = LastOf(chain).id
    OBVIOUS
  <2>1. staged[w] # <<>> /\ LastOf(staged[w]).id = job[w].parent
    BY LogFollows DEF Base, Phased, Wrote
  <2>2. LastOf(chain) = LastOf(staged[w]) /\ Len(staged[w]) # 0
    BY <1>2, <2>1, WholeChain
  <2>3. Len(chain) # 0
    BY <1>2, <2>2, WholeChain
  <2> QED
    BY <1>1, <2>1, <2>2, <2>3
<1>4. chain # <<>> => \/ Follow(LastOf(chain).data.type) = {}
                      \/ type \in Follow(LastOf(chain).data.type)
  <2>1. CASE job[w].at \in Quiet
    <3>1. chain = events
      BY <1>2, <2>1, WholeChain DEF Base, Phased, Wrote
    <3>2. chain # <<>> => Followed(chain, Len(chain))
      BY <1>2, <3>1 DEF Trail, Closed
    <3> QED
      BY <1>2, <3>2 DEF Followed, LastOf
  <2>2. CASE job[w].at \notin Quiet
    <3>1. LastOf(staged[w]).data.type \in Latest(job[w].at) /\ staged[w] # <<>>
      BY <2>2 DEF Base, Phased, Wrote
    <3>2. LastOf(chain) = LastOf(staged[w])
      BY <1>2, <3>1, WholeChain
    <3> QED
      BY <2>2, <3>1, <3>2, LogFollows
  <2> QED
    BY <2>1, <2>2
<1> HIDE DEF chain
<1>5. Open(Append(chain, e))
  BY <1>1, <1>2, <1>3, <1>4, OpenAppend
<1>6. Honest(Append(chain, e), executed)
  <2>1. \A i \in 1 .. Len(chain) : Append(chain, e)[i] = chain[i]
    BY <1>1, <1>2, Appended
  <2>2. /\ Len(Append(chain, e)) = Len(chain) + 1 /\ Len(chain) \in Nat
        /\ Append(chain, e)[Len(chain) + 1] = e
    BY <1>1, <1>2, Appended DEF LastOf
  <2>3. type = "tool_call.completed" => Acted(e.data.parent, executed)
    BY <1>1, LogFollows DEF Trail
  <2>4. ASSUME NEW i \in 1 .. Len(Append(chain, e)),
               Append(chain, e)[i].data.type = "tool_call.completed"
        PROVE  Acted(Append(chain, e)[i].data.parent, executed)
    <3>1. CASE i = Len(chain) + 1
      BY <1>1, <2>2, <2>3, <2>4, <3>1
    <3>2. CASE i \in 1 .. Len(chain)
      BY <1>2, <2>1, <2>4, <3>2 DEF Honest
    <3> QED
      BY <2>2, <3>1, <3>2
  <2> QED
    BY <2>4 DEF Honest
<1>7. /\ \A v \in Workers \ {w} : job'[v] = job[v]
      /\ job'[w].at # "complete"
  <2>1. new.at # "complete"
    BY <1>2, LogTable
  <2> QED
    BY <1>2, <2>1, LogJob
<1>8. ASSUME NEW v \in Workers
      PROVE  /\ Open(Whole(v)') /\ Honest(Whole(v)', executed')
             /\ job'[v].at = "complete" => Acted(job'[v].parent, executed')
  <2>1. CASE v = w
    BY <1>1, <1>5, <1>6, <1>7, <2>1
  <2>2. CASE v # w
    <3>1. Whole(v)' = Whole(v)
      BY <1>1, <2>2 DEF Whole
    <3> QED
      BY <1>1, <1>7, <2>2, <3>1 DEF Trail
  <2> QED
    BY <2>1, <2>2
<1> QED
  BY <1>1, <1>8 DEF Trail

\* The end of a transaction, seen from the others
LEMMA OthersStay ==
    ASSUME Base, NEW w \in Workers, NEW v \in Workers \ {w}, L!Commit(w) \/ L!Rollback(w)
    PROVE  Whole(v)' = Whole(v) \/ Whole(v)' = events'
<1>1. /\ staged'[v] = staged[v]
      /\ staged[w] # <<>> => staged[v] = <<>>
      /\ events' = Whole(w) \/ events' = events
  BY EndsEffect DEF Base
<1>2. events \in Seq(P!Events) /\ Whole(w) \in Seq(P!Events)
  BY WholeChain DEF Base
<1>3. CASE staged[w] = <<>>
  <2>1. events' = events
    BY <1>1, <1>2, <1>3, WholeChain DEF Base
  <2> QED
    BY <1>1, <2>1 DEF Whole
<1>4. CASE staged[w] # <<>>
  BY <1>1, <1>2, <1>4 DEF Whole
<1> QED
  BY <1>3, <1>4

LEMMA TrailEnds ==
    ASSUME Base, Trail, NEW w \in Workers, L!Commit(w) \/ L!Rollback(w),
           job' = [job EXCEPT ![w] = Idle], executed' = executed,
           Closed(events'), Honest(events', executed)
    PROVE  Trail'
<1>1. job'[w].at # "complete" /\ \A v \in Workers \ {w} : job'[v] = job[v]
  BY IdleTyped, Rests DEF Base
<1>2. Whole(w)' = events'
  <2>1. staged'[w] = <<>> /\ P!OrderInv'
    BY EndsEffect DEF Base
  <2>2. events' \in Seq(P!Events)
    BY <2>1 DEF P!OrderInv, P!TypeOK
  <2> QED
    BY <2>1, <2>2 DEF Whole
<1>3. ASSUME NEW v \in Workers
      PROVE  /\ Open(Whole(v)') /\ Honest(Whole(v)', executed)
             /\ job'[v].at = "complete" => Acted(job'[v].parent, executed)
  <2>1. Open(events') /\ Open(Whole(v)) /\ Honest(Whole(v), executed)
    BY ClosedOpen DEF Trail
  <2>2. Whole(v)' = Whole(v) \/ Whole(v)' = events'
    BY <1>2, OthersStay
  <2>3. job'[v].at = "complete" => Acted(job'[v].parent, executed)
    BY <1>1 DEF Trail
  <2> QED
    BY <2>1, <2>2, <2>3
<1> QED
  BY <1>3 DEF Trail

LEMMA TrailCommit ==
    ASSUME Base, Trail, NEW w \in Workers, CommitWork(w)
    PROVE  Trail'
<1>1. /\ L!Commit(w) /\ job' = [job EXCEPT ![w] = Idle] /\ executed' = executed
      /\ job[w].at \in Done /\ events' = Whole(w)
  BY EndsEffect DEF CommitWork, Base
<1>2. Open(Whole(w)) /\ Honest(Whole(w), executed)
  BY DEF Trail
<1>3. Closed(Whole(w))
  <2>1. CASE job[w].at = "save"
    <3>1. Whole(w) = events
      BY <2>1, WholeChain DEF Base, Phased, Wrote, Quiet
    <3> QED
      BY <3>1 DEF Trail
  <2>2. CASE job[w].at # "save"
    <3>1. staged[w] # <<>> /\ LastOf(staged[w]).data.type \in Latest(job[w].at)
      BY <1>1, <2>2 DEF Base, Phased, Wrote, Quiet, Done
    <3>2. Follow(LastOf(Whole(w)).data.type) = {}
      <4>1. Follow(LastOf(staged[w]).data.type) = {}
        BY <1>1, <2>2, <3>1 DEF Done, Latest, Follow, Decisive
      <4> QED
        BY <3>1, <4>1, WholeChain DEF Base
    <3>3. Followed(Whole(w), Len(Whole(w)))
      BY <3>2 DEF Followed, LastOf
    <3>4. Len(Whole(w)) \in Nat
      BY WholeChain DEF Base
    <3>5. \A i \in 1 .. Len(Whole(w)) : i < Len(Whole(w)) \/ i = Len(Whole(w))
      BY <3>4
    <3> QED
      BY <1>2, <3>3, <3>5 DEF Open, Closed
  <2> QED
    BY <2>1, <2>2
<1> QED
  BY <1>1, <1>2, <1>3, TrailEnds

LEMMA TrailDrop ==
    ASSUME Base, Trail, NEW w \in Workers, Drop(w)
    PROVE  Trail'
<1>1. /\ L!Rollback(w) /\ job' = [job EXCEPT ![w] = Idle] /\ executed' = executed
      /\ events' = events
  BY EndsEffect DEF Drop, Base
<1> QED
  BY <1>1, TrailEnds DEF Trail

LEMMA TrailExecute ==
    ASSUME Base, Trail, NEW w \in Workers, Execute(w)
    PROVE  Trail'
<1> DEFINE x == [call |-> job[w].call, approval |-> job[w].approval,
                 decision |-> job[w].decision, request |-> job[w].parent]
<1>1. PICK next \in {"complete", "fail"} :
              /\ job' = [job EXCEPT ![w].at = next]
              /\ executed' = executed \cup {x} \/ executed' = executed
              /\ next = "complete" => executed' = executed \cup {x}
              /\ UNCHANGED <<ledgerVars, tables, jobs>>
  <2> HIDE DEF x
  <2> QED
    BY ExecuteEffect, Zenon DEF Base, x
<1>2. staged' = staged /\ events' = events /\ executed \subseteq executed'
  BY <1>1 DEF ledgerVars
<1>3. /\ \A v \in Workers \ {w} : job'[v] = job[v]
      /\ job'[w].at = next /\ job'[w].parent = job[w].parent
  <2>1. next \in Places
    BY DEF Places, Deciding
  <2> QED
    BY <1>1, <2>1, MovesTo DEF Base
<1>4. next = "complete" => Acted(job[w].parent, executed')
  <2>1. x.request = job[w].parent
    OBVIOUS
  <2> HIDE DEF x
  <2>2. next = "complete" => x \in executed'
    BY <1>1
  <2> QED
    BY <2>1, <2>2 DEF Acted
<1>5. ASSUME NEW v \in Workers, job'[v].at = "complete" PROVE Acted(job'[v].parent, executed')
  <2>1. CASE v = w
    BY <1>3, <1>4, <1>5, <2>1
  <2>2. CASE v # w
    BY <1>2, <1>3, <1>5, <2>2 DEF Trail, Acted
  <2> QED
    BY <2>1, <2>2
<1> QED
  BY <1>2, <1>5, TrailStays

LEMMA TrailNext ==
    ASSUME Base, Trail, [Next]_vars
    PROVE  Trail'
<1>0. Typed
  BY DEF Base
<1>1. ASSUME NEW w \in Workers, NEW type, NEW approval, NEW new,
             Logs(w, type, approval, new), Log(w, type, approval, new)
      PROVE  Trail'
  BY <1>0, <1>1, LogEffect, TrailLog
<1>2. ASSUME NEW w \in Workers, events' = events, staged' = staged, executed' = executed,
             \A v \in Workers \ {w} : job'[v] = job[v], job'[w].at # "complete"
      PROVE  Trail'
  BY <1>2, TrailStays DEF Trail
<1>3. ASSUME NEW w \in Workers, NEW new, Started(w, new) PROVE Trail'
  <2>1. /\ job' = [job EXCEPT ![w] = new] /\ new.at # "complete"
        /\ staged' = staged /\ events' = events /\ executed' = executed
    BY <1>3 DEF Started, ledgerVars
  <2>2. job'[w].at # "complete" /\ \A v \in Workers \ {w} : job'[v] = job[v]
    BY <1>0, <2>1 DEF Typed
  <2> QED
    BY <1>2, <2>1, <2>2
<1>4. ASSUME NEW w \in Workers, InsertPolicy(w) PROVE Trail'
  <2>1. /\ job' = [job EXCEPT ![w].at = "save"] /\ "save" \in Places
        /\ staged' = staged /\ events' = events /\ executed' = executed
    BY <1>4 DEF InsertPolicy, L!insert, Quiet, Places
  <2>2. job'[w].at = "save" /\ \A v \in Workers \ {w} : job'[v] = job[v]
    BY <1>0, <2>1, MovesTo
  <2> QED
    BY <1>2, <2>1, <2>2
<1>5. ASSUME NEW w \in Workers, Expire(w) PROVE Trail'
  <2>1. /\ job' = [job EXCEPT ![w] = Idle]
        /\ staged' = staged /\ events' = events /\ executed' = executed
    BY <1>5 DEF Expire, ledgerVars
  <2>2. job'[w].at # "complete" /\ \A v \in Workers \ {w} : job'[v] = job[v]
    BY <1>0, <2>1, IdleTyped, Rests
  <2> QED
    BY <1>2, <2>1, <2>2
<1>6. ASSUME events' = events, staged' = staged, executed' = executed, job' = job
      PROVE  Trail'
  BY <1>6, TrailStays DEF Trail
<1>7. ASSUME NEW a \in DOMAIN approvals, Overdue(a) PROVE Trail'
  BY <1>6, <1>7 DEF Overdue, ledgerVars
<1>8. ASSUME NEW p \in DOMAIN policies, NEW document \in Documents, update_policy(p, document)
      PROVE  Trail'
  BY <1>6, <1>8 DEF update_policy, ledgerVars
<1>9. CASE UNCHANGED vars
  BY <1>6, <1>9 DEF vars, ledgerVars
<1> QED
  BY <1>0, <1>1, <1>3, <1>4, <1>5, <1>7, <1>8, <1>9, Steps, TrailExecute, TrailCommit, TrailDrop,
     Zenon

LEMMA TrailInit ==
    ASSUME Init
    PROVE  Trail
<1>1. /\ events = <<>> /\ \A w \in Workers : job[w] = Idle /\ Whole(w) = <<>>
  <2>1. events = <<>> /\ \A w \in Workers : staged[w] = <<>> /\ job[w] = Idle
    BY DEF Init, L!Init
  <2>2. <<>> \o <<>> = <<>>
    OBVIOUS
  <2> QED
    BY <2>1, <2>2 DEF Whole
<1>2. Closed(<<>>) /\ Open(<<>>) /\ Honest(<<>>, executed)
  BY DEF Closed, Open, Honest
<1> QED
  BY <1>1, <1>2, IdleTyped DEF Trail

\* The one event that comes behind an event and was called for by it
LEMMA OneChild ==
    ASSUME Base, Trail, NEW t, NEW types, Follow(t) = types, types # {},
           types \subseteq Answering, NEW e \in Committed({t})
    PROVE  Cardinality(Children(e, types)) = 1
<1>1. events \in Seq(P!Events) /\ ids \in Nat /\ P!Ordered(events, ids) /\ Len(events) \in Nat
  BY DEF Base, Typed, P!OrderInv, P!TypeOK, P!Sound
<1>2. PICK i \in 1 .. Len(events) : e = events[i] /\ events[i].data.type = t
  BY DEF Committed, L!RangeOf
<1>3. i + 1 \in 1 .. Len(events) /\ events[i + 1].data.type \in types
  <2>1. Followed(events, i)
    BY DEF Trail, Closed
  <2>2. i < Len(events) /\ events[i + 1].data.type \in types
    BY <1>2, <2>1 DEF Followed
  <2> QED
    BY <1>1, <2>2
<1> DEFINE f == events[i + 1]
<1>4. f.data.parent = e.id
  <2>1. Attached(events, i + 1)
    BY <1>3 DEF Trail, Closed
  <2>2. (i + 1) - 1 = i
    OBVIOUS
  <2> QED
    BY <1>2, <1>3, <2>1, <2>2 DEF Attached
<1>5. f \in Children(e, types)
  BY <1>3, <1>4 DEF Children, Committed, L!RangeOf
<1>6. ASSUME NEW g \in Children(e, types) PROVE g = f
  <2>1. PICK j \in 1 .. Len(events) : g = events[j]
    BY DEF Children, Committed, L!RangeOf
  <2>2. g.data.type \in types /\ g.data.parent = e.id
    BY DEF Children, Committed
  <2>3. j > 1 /\ events[j - 1].id = events[i].id
    BY <1>2, <2>1, <2>2 DEF Trail, Closed, Attached
  <2>4. j - 1 \in 1 .. Len(events)
    BY <2>3
  <2>5. j - 1 = i
    BY <1>1, <2>3, <2>4, P!OrderedDistinct
  <2>6. j = i + 1
    BY <2>5
  <2> QED
    BY <2>1, <2>6
<1> HIDE DEF f
<1>7. Children(e, types) = {f}
  BY <1>5, <1>6
<1> QED
  BY <1>7, FS_Singleton

LEMMA TrailIsWholeHere ==
    ASSUME Base, Trail
    PROVE  TrailWhole
<1>1. /\ Follow("agent.request_received") = {"policy.evaluated"}
      /\ Follow("policy.evaluated") =
             {"tool_call.failed", "approval.required", "tool_call.requested"}
      /\ Follow("tool_call.requested") = {"tool_call.completed", "tool_call.failed"}
  BY DEF Follow
<1>2. ASSUME NEW e \in Committed({"agent.request_received"})
      PROVE  Cardinality(Children(e, {"policy.evaluated"})) = 1
  BY <1>1, OneChild DEF Answering
<1>3. ASSUME NEW e \in Committed({"policy.evaluated"})
      PROVE  Cardinality(Children(e, {"tool_call.failed", "approval.required",
                                      "tool_call.requested"})) = 1
  BY <1>1, OneChild DEF Answering
<1>4. ASSUME NEW e \in Committed({"tool_call.requested"})
      PROVE  Cardinality(Children(e, {"tool_call.completed", "tool_call.failed"})) = 1
  BY <1>1, OneChild DEF Answering
<1>5. ASSUME NEW e \in Committed({"tool_call.completed"})
      PROVE  \E x \in executed : x.request = e.data.parent
  <2>1. PICK i \in 1 .. Len(events) : e = events[i]
    BY DEF Committed, L!RangeOf
  <2>2. e.data.type = "tool_call.completed"
    BY DEF Committed
  <2> QED
    BY <2>1, <2>2 DEF Trail, Honest, Acted
<1> QED
  BY <1>2, <1>3, <1>4, <1>5 DEF TrailWhole

-----------------------------------------------------------------------------
(* The permits *)

LEMMA GrantsMore ==
    ASSUME Base, NEW w \in Workers, NEW a, NEW c, Grants(events, a, c)
    PROVE  Grants(Whole(w), a, c)
<1>1. PICK i \in 1 .. Len(events) :
              /\ events[i].data.type = "approval.granted"
              /\ events[i].data.approval = a /\ events[i].data.call = c
  BY DEF Grants
<1>2. i \in 1 .. Len(Whole(w)) /\ Whole(w)[i] = events[i]
  BY WholeChain DEF Base
<1> QED
  BY <1>1, <1>2 DEF Grants

LEMMA PermitsStays ==
    ASSUME Base, Permits, events' = events \/ \E w \in Workers : events' = Whole(w),
           \A a \in DOMAIN approvals' : approvals'[a].status = "approved" =>
              \/ /\ a \in DOMAIN approvals /\ approvals[a].status = "approved"
                 /\ approvals'[a].scope = approvals[a].scope
              \/ Grants(events', a, approvals'[a].scope),
           \A v \in Workers : job'[v].at = "execute" =>
              \/ job'[v] = job[v]
              \/ Permitted(events', job'[v].decision, job'[v].approval, job'[v].call),
           \A x \in executed' :
              x \in executed \/ Permitted(events', x.decision, x.approval, x.call)
    PROVE  Permits'
<1>1. ASSUME NEW a, NEW c, Grants(events, a, c) PROVE Grants(events', a, c)
  BY <1>1, GrantsMore
<1>2. ASSUME NEW d, NEW a, NEW c, Permitted(events, d, a, c) PROVE Permitted(events', d, a, c)
  BY <1>1, <1>2 DEF Permitted
<1> QED
  BY <1>1, <1>2 DEF Permits

\* An approval read as approved, and of this call
LEMMA PermitsRequest ==
    ASSUME Base, Permits, NEW w \in Workers, NEW type, NEW approval, NEW new, NEW e,
           Logs(w, type, approval, new), Logged(w, type, approval, new, e),
           new.at = "execute"
    PROVE  Permitted(events, new.decision, new.approval, new.call)
<1>0. job[w] \in Jobs /\ Typed
  BY DEF Base, Typed
<1>1. \/ \E a \in {"evaluate", "commit", "create", "settle"} : new = At(w, a)
      \/ new = AfterDecision(job[w], Newest, evaluate(job[w].call)) /\ job[w].at = "evaluate"
      \/ /\ new = At(w, "execute") /\ job[w].decision # "denied"
         /\ IF job[w].approval = None
               THEN job[w].decision = "allowed"
               ELSE validate_approval(job[w].approval, job[w].call)
  BY DEF Logs, AfterDecision
<1>2. ASSUME NEW a \in {"evaluate", "commit", "create", "settle", "execute"}, new = At(w, a)
      PROVE  /\ new.at = a /\ new.decision = job[w].decision
             /\ new.approval = job[w].approval /\ new.call = job[w].call
  <2>1. a \in Places
    BY DEF Places, Deciding
  <2> QED
    BY <1>0, <1>2, <2>1, JobMoves DEF At
<1>3. job[w].at = "evaluate" => new.at # "execute"
  BY <1>0, <1>2 DEF Logs, AfterDecision, Jobs
<1>4. /\ new = At(w, "execute") /\ job[w].decision # "denied"
      /\ IF job[w].approval = None
            THEN job[w].decision = "allowed"
            ELSE validate_approval(job[w].approval, job[w].call)
  BY <1>1, <1>2, <1>3
<1>5. CASE job[w].approval = None
  BY <1>2, <1>4, <1>5 DEF Permitted
<1>6. CASE job[w].approval # None
  <2>1. Grants(events, job[w].approval, job[w].call)
    BY <1>4, <1>6 DEF validate_approval, Permits
  <2> QED
    BY <1>2, <1>4, <2>1 DEF Permitted
<1> QED
  BY <1>5, <1>6

LEMMA PermitsLog ==
    ASSUME Base, Permits, NEW w \in Workers, NEW type, NEW approval, NEW new, NEW e,
           Logs(w, type, approval, new), Logged(w, type, approval, new, e)
    PROVE  Permits'
<1>1. events' = events /\ approvals' = approvals /\ executed' = executed
  BY DEF Logged, tables
<1>2. /\ \A v \in Workers \ {w} : job'[v] = job[v]
      /\ job'[w].at = new.at /\ job'[w].call = new.call
      /\ job'[w].approval = new.approval /\ job'[w].decision = new.decision
  BY LogJob DEF Base
<1>3. job'[w].at = "execute" =>
          Permitted(events', job'[w].decision, job'[w].approval, job'[w].call)
  BY <1>1, <1>2, PermitsRequest
<1> QED
  BY <1>1, <1>2, <1>3, PermitsStays

LEMMA PermitsExecute ==
    ASSUME Base, Permits, NEW w \in Workers, Execute(w)
    PROVE  Permits'
<1> DEFINE x == [call |-> job[w].call, approval |-> job[w].approval,
                 decision |-> job[w].decision, request |-> job[w].parent]
<1>1. PICK next \in {"complete", "fail"} :
              /\ job[w].at = "execute" /\ job' = [job EXCEPT ![w].at = next]
              /\ executed' = executed \cup {x} \/ executed' = executed
              /\ UNCHANGED <<ledgerVars, tables, jobs>>
  <2> HIDE DEF x
  <2> QED
    BY ExecuteEffect, Zenon DEF Base, x
<1>2. events' = events /\ approvals' = approvals
  BY <1>1 DEF ledgerVars, tables
<1>3. job'[w].at # "execute" /\ \A v \in Workers \ {w} : job'[v] = job[v]
  <2>1. next \in Places
    BY DEF Places, Deciding
  <2> QED
    BY <1>1, <2>1, MovesTo DEF Base
<1>4. Permitted(events', x.decision, x.approval, x.call)
  BY <1>1, <1>2 DEF Permits
<1> HIDE DEF x
<1>5. \A y \in executed' : y \in executed \/ Permitted(events', y.decision, y.approval, y.call)
  BY <1>1, <1>4
<1> QED
  BY <1>2, <1>3, <1>5, PermitsStays

LEMMA PermitsCommit ==
    ASSUME Base, Permits, NEW w \in Workers, CommitWork(w)
    PROVE  Permits'
<1>1. /\ job' = [job EXCEPT ![w] = Idle] /\ executed' = executed
      /\ job[w].at \in Done /\ Saved(w) /\ events' = Whole(w)
  BY EndsEffect DEF CommitWork, Base
<1>2. job'[w].at # "execute" /\ \A v \in Workers \ {w} : job'[v] = job[v]
  BY <1>1, IdleTyped, Rests DEF Base
<1>3. /\ \A a \in DOMAIN approvals :
            /\ approvals'[a].scope = approvals[a].scope
            /\ approvals'[a].status =
                  IF job[w].at = "settle" /\ a = job[w].approval THEN job[w].status
                                                                 ELSE approvals[a].status
      /\ job[w].at = "create" =>
            /\ DOMAIN approvals' = DOMAIN approvals \cup {job[w].parent}
            /\ approvals'[job[w].parent].status = "pending"
      /\ job[w].at # "create" => DOMAIN approvals' = DOMAIN approvals
  BY <1>1, SavedApprovals DEF Base
<1>4. ASSUME job[w].at = "settle", job[w].status = "approved"
      PROVE  Grants(Whole(w), job[w].approval, approvals[job[w].approval].scope)
  <2>1. /\ staged[w] # <<>> /\ LastOf(staged[w]).data.type = "approval.granted"
        /\ LastOf(staged[w]).data.call = job[w].call
        /\ LastOf(staged[w]).data.approval = job[w].approval
    BY <1>4 DEF Base, Phased, Wrote, Quiet, Verdict
  <2>2. LastOf(Whole(w)) = LastOf(staged[w]) /\ Len(Whole(w)) \in 1 .. Len(Whole(w))
    <3>1. Len(staged[w]) # 0
      BY <2>1, WholeChain DEF Base
    <3> QED
      BY <2>1, <3>1, WholeChain DEF Base
  <2>3. approvals[job[w].approval].scope = job[w].call
    BY <1>4 DEF Base, Typed, Knows
  <2> QED
    BY <2>1, <2>2, <2>3 DEF Grants, LastOf
<1>5. ASSUME NEW a \in DOMAIN approvals', approvals'[a].status = "approved"
      PROVE  \/ /\ a \in DOMAIN approvals /\ approvals[a].status = "approved"
                /\ approvals'[a].scope = approvals[a].scope
             \/ Grants(events', a, approvals'[a].scope)
  <2>1. a \in DOMAIN approvals
    BY <1>3, <1>5
  <2>2. CASE job[w].at = "settle" /\ a = job[w].approval
    <3>1. job[w].status = "approved" /\ approvals'[a].scope = approvals[a].scope
      BY <1>3, <1>5, <2>1, <2>2
    <3> QED
      BY <1>1, <1>4, <2>2, <3>1
  <2>3. CASE ~(job[w].at = "settle" /\ a = job[w].approval)
    BY <1>3, <1>5, <2>1, <2>3
  <2> QED
    BY <2>2, <2>3
<1> QED
  BY <1>1, <1>2, <1>5, PermitsStays

LEMMA PermitsNext ==
    ASSUME Base, Permits, [Next]_vars
    PROVE  Permits'
<1>0. Typed
  BY DEF Base
<1>1. ASSUME NEW w \in Workers, NEW type, NEW approval, NEW new,
             Logs(w, type, approval, new), Log(w, type, approval, new)
      PROVE  Permits'
  BY <1>0, <1>1, LogEffect, PermitsLog
<1>2. ASSUME NEW w \in Workers, events' = events, approvals' = approvals, executed' = executed,
             \A v \in Workers \ {w} : job'[v] = job[v], job'[w].at # "execute"
      PROVE  Permits'
  BY <1>2, PermitsStays
<1>3. ASSUME NEW w \in Workers, NEW new, Started(w, new) PROVE Permits'
  <2>1. /\ job' = [job EXCEPT ![w] = new] /\ new.at # "execute"
        /\ approvals' = approvals /\ events' = events /\ executed' = executed
    BY <1>3 DEF Started, ledgerVars
  <2>2. job'[w].at # "execute" /\ \A v \in Workers \ {w} : job'[v] = job[v]
    BY <1>0, <2>1 DEF Typed
  <2> QED
    BY <1>2, <2>1, <2>2
<1>4. ASSUME NEW w \in Workers, InsertPolicy(w) PROVE Permits'
  <2>1. /\ job' = [job EXCEPT ![w].at = "save"] /\ "save" \in Places
        /\ approvals' = approvals /\ events' = events /\ executed' = executed
    BY <1>4 DEF InsertPolicy, L!insert, Quiet, Places, tables
  <2>2. job'[w].at = "save" /\ \A v \in Workers \ {w} : job'[v] = job[v]
    BY <1>0, <2>1, MovesTo
  <2> QED
    BY <1>2, <2>1, <2>2
<1>5. ASSUME NEW w \in Workers, Drop(w) PROVE Permits'
  <2>1. /\ job' = [job EXCEPT ![w] = Idle]
        /\ approvals' = approvals /\ events' = events /\ executed' = executed
    BY <1>5 DEF Drop, L!Rollback, tables
  <2>2. job'[w].at # "execute" /\ \A v \in Workers \ {w} : job'[v] = job[v]
    BY <1>0, <2>1, IdleTyped, Rests
  <2> QED
    BY <1>2, <2>1, <2>2
<1>6. ASSUME NEW w \in Workers, Expire(w) PROVE Permits'
  <2>1. /\ job' = [job EXCEPT ![w] = Idle] /\ events' = events /\ executed' = executed
    BY <1>6 DEF Expire, ledgerVars
  <2>2. job'[w].at # "execute" /\ \A v \in Workers \ {w} : job'[v] = job[v]
    BY <1>0, <2>1, IdleTyped, Rests
  <2>3. ASSUME NEW a \in DOMAIN approvals', approvals'[a].status = "approved"
        PROVE  /\ a \in DOMAIN approvals /\ approvals[a].status = "approved"
               /\ approvals'[a].scope = approvals[a].scope
    BY <1>0, <1>6, <2>3, TypedExpire
  <2> QED
    BY <2>1, <2>2, <2>3, PermitsStays
<1>7. ASSUME events' = events, approvals' = approvals, executed' = executed, job' = job
      PROVE  Permits'
  BY <1>7, PermitsStays
<1>8. ASSUME NEW a \in DOMAIN approvals, Overdue(a) PROVE Permits'
  BY <1>7, <1>8 DEF Overdue, ledgerVars
<1>9. ASSUME NEW p \in DOMAIN policies, NEW document \in Documents, update_policy(p, document)
      PROVE  Permits'
  BY <1>7, <1>9 DEF update_policy, ledgerVars
<1>10. CASE UNCHANGED vars
  BY <1>7, <1>10 DEF vars, ledgerVars, tables
<1> QED
  BY <1>0, <1>1, <1>3, <1>4, <1>5, <1>6, <1>8, <1>9, <1>10, Steps, PermitsExecute, PermitsCommit,
     Zenon

LEMMA PermitsInit ==
    ASSUME Init
    PROVE  Permits
<1>1. executed = {} /\ DOMAIN approvals = {} /\ \A w \in Workers : job[w] = Idle
  BY DEF Init
<1> QED
  BY <1>1, IdleTyped DEF Permits

LEMMA PermitsSuffice ==
    ASSUME Base, Permits
    PROVE  ExecutedOnlyIfPermitted
<1> SUFFICES ASSUME NEW x \in executed, x.decision # "denied", Grants(events, x.approval, x.call)
             PROVE  \E e \in Committed({"approval.granted"}) :
                       e.data.approval = x.approval /\ e.data.call = x.call
  BY DEF ExecutedOnlyIfPermitted, Permits, Permitted
<1>1. PICK i \in 1 .. Len(events) :
              /\ events[i].data.type = "approval.granted"
              /\ events[i].data.approval = x.approval /\ events[i].data.call = x.call
  BY DEF Grants
<1>2. events[i] \in Committed({"approval.granted"})
  BY <1>1 DEF Committed, L!RangeOf
<1> QED
  BY <1>1, <1>2

-----------------------------------------------------------------------------
(* The policy in force *)

Ruled == Shares /\ PolicyInForce

\* A handler whose call has been decided has written events, and so holds the
\* tenant row; nobody else has inserted anything.
LEMMA DecidedHolds ==
    ASSUME Base, NEW w \in Workers, job[w].decision # None
    PROVE  sharers \subseteq {w}
<1>1. job[w].at \notin Quiet
  BY DEF Base, Typed, Knows
<1>2. staged[w] # <<>>
  BY <1>1 DEF Base, Phased, Wrote
<1>3. lock = w /\ sharers \subseteq (IF lock = Free THEN Workers ELSE {lock})
  BY <1>2 DEF Base, Typed, P!OrderInv, P!TypeOK
<1>4. lock # Free
  BY <1>3, LegacyLedgerAssumption
<1> QED
  BY <1>3, <1>4

LEMMA RuledStays ==
    ASSUME Ruled, Newest' = Newest, NEW w \in Workers,
           \A v \in Workers \ {w} : job'[v] = job[v] /\ (v \in sharers => v \in sharers'),
           job'[w].at = "save" => w \in sharers',
           job'[w].decision # None => job'[w].policy = Newest
    PROVE  Ruled'
BY DEF Ruled, Shares, PolicyInForce

LEMMA SameNewest ==
    ASSUME policies' = policies
    PROVE  Newest' = Newest
BY DEF Newest

LEMMA RuledLog ==
    ASSUME Base, Ruled, NEW w \in Workers, NEW type, NEW approval, NEW new, NEW e,
           Logs(w, type, approval, new), Logged(w, type, approval, new, e)
    PROVE  Ruled'
<1>0. job[w] \in Jobs /\ Typed /\ Newest \in Nat
  BY NewestIn DEF Base, Typed
<1>1. policies' = policies /\ sharers' = sharers
  BY DEF Logged, tables
<1>2. /\ \A v \in Workers \ {w} : job'[v] = job[v]
      /\ job'[w].at = new.at /\ job'[w].decision = new.decision /\ job'[w].policy = new.policy
  BY <1>0, LogJob
<1>3. new.at # "save"
  BY <1>0, LogTable
<1>4. new.decision # None => new.policy = Newest
  <2>1. CASE job[w].at = "evaluate"
    <3>1. /\ new = AfterDecision(job[w], Newest, evaluate(job[w].call))
          /\ evaluate(job[w].call) \in PolicyDecisions
      <4>1. job[w].call \in Calls /\ evaluate(job[w].call) # "raises"
        BY <1>0, <2>1 DEF Typed, Knows, Logs
      <4> QED
        BY <1>0, <2>1, <4>1, EvaluateIn DEF Logs, AfterDecision, Typed
    <3> QED
      BY <1>0, <3>1, JobEvaluates
  <2>2. CASE job[w].at # "evaluate"
    <3>1. PICK a \in {"evaluate", "commit", "create", "execute", "settle"} : new = At(w, a)
      BY <2>2 DEF Logs
    <3>2. a \in Places
      BY DEF Places, Deciding
    <3>3. new.decision = job[w].decision /\ new.policy = job[w].policy
      BY <1>0, <3>1, <3>2, JobMoves DEF At
    <3> QED
      BY <3>3 DEF Ruled, PolicyInForce
  <2> QED
    BY <2>1, <2>2
<1> QED
  BY <1>1, <1>2, <1>3, <1>4, SameNewest, RuledStays

LEMMA RuledCommit ==
    ASSUME Base, Ruled, NEW w \in Workers, CommitWork(w)
    PROVE  Ruled'
<1>0. Typed /\ Phased /\ Anchored
  BY DEF Base
<1>1. /\ job' = [job EXCEPT ![w] = Idle] /\ job[w].at \in Done /\ Saved(w)
      /\ sharers' = sharers \ {w}
  BY <1>0, EndsEffect DEF CommitWork
<1>2. /\ job'[w] = Idle /\ Idle.at # "save" /\ Idle.decision = None
      /\ \A v \in Workers \ {w} : job'[v] = job[v]
  BY <1>0, <1>1, IdleTyped, Rests
<1>3. CASE job[w].at = "save"
  <2>1. w \in sharers
    BY <1>3 DEF Ruled, Shares
  <2>2. \A v \in Workers \ {w} : job[v].decision = None
    BY <2>1, DecidedHolds
  <2> QED
    BY <1>1, <1>2, <2>2 DEF Ruled, Shares, PolicyInForce
<1>4. CASE job[w].at # "save"
  <2>1. Newest' = Newest
    BY <1>0, <1>1, <1>4, SavedPolicies, SameNewest
  <2> QED
    BY <1>1, <1>2, <2>1, RuledStays
<1> QED
  BY <1>3, <1>4

LEMMA RuledNext ==
    ASSUME Base, Ruled, [Next]_vars
    PROVE  Ruled'
<1>0. Typed
  BY DEF Base
<1>1. ASSUME NEW w \in Workers, NEW type, NEW approval, NEW new,
             Logs(w, type, approval, new), Log(w, type, approval, new)
      PROVE  Ruled'
  BY <1>0, <1>1, LogEffect, RuledLog
<1>2. ASSUME NEW w \in Workers, NEW new, Started(w, new) PROVE Ruled'
  <2>1. /\ job' = [job EXCEPT ![w] = new] /\ new.at # "save" /\ new.decision = None
        /\ sharers' = sharers
    BY <1>2 DEF Started, ledgerVars
  <2>2. job'[w] = new /\ \A v \in Workers \ {w} : job'[v] = job[v]
    BY <1>0, <2>1 DEF Typed
  <2>3. Newest' = Newest
    BY <1>2 DEF Started, Newest
  <2> QED
    BY <2>1, <2>2, <2>3, RuledStays
<1>3. ASSUME NEW w \in Workers, InsertPolicy(w) PROVE Ruled'
  <2>1. /\ job' = [job EXCEPT ![w].at = "save"] /\ "save" \in Places
        /\ job[w].at \in Quiet /\ sharers' = sharers \cup {w} /\ policies' = policies
    BY <1>3 DEF InsertPolicy, L!insert, Quiet, Places, tables
  <2>2. /\ job'[w].decision = job[w].decision /\ job[w].decision = None
        /\ \A v \in Workers \ {w} : job'[v] = job[v]
    BY <1>0, <2>1, MovesTo DEF Typed, Knows
  <2> QED
    BY <2>1, <2>2, SameNewest, RuledStays
<1>4. ASSUME NEW w \in Workers, job' = [job EXCEPT ![w] = Idle], policies' = policies,
             \A v \in Workers \ {w} : v \in sharers => v \in sharers'
      PROVE  Ruled'
  <2>1. /\ job'[w] = Idle /\ Idle.at # "save" /\ Idle.decision = None
        /\ \A v \in Workers \ {w} : job'[v] = job[v]
    BY <1>0, <1>4, IdleTyped, Rests
  <2> QED
    BY <1>4, <2>1, SameNewest, RuledStays
<1>5. ASSUME NEW w \in Workers, Drop(w) PROVE Ruled'
  BY <1>4, <1>5 DEF Drop, L!Rollback, L!End, tables
<1>6. ASSUME NEW w \in Workers, Expire(w) PROVE Ruled'
  BY <1>4, <1>6 DEF Expire, ledgerVars
<1>7. ASSUME NEW w \in Workers, Execute(w) PROVE Ruled'
  <2>1. PICK next \in {"complete", "fail"} :
                /\ job' = [job EXCEPT ![w].at = next]
                /\ UNCHANGED <<ledgerVars, tables, jobs>>
    BY <1>0, <1>7, ExecuteEffect, Zenon
  <2>2. next \in Places /\ next # "save"
    BY DEF Places, Deciding
  <2>3. /\ job'[w].at = next /\ job'[w].decision = job[w].decision
        /\ job'[w].policy = job[w].policy /\ \A v \in Workers \ {w} : job'[v] = job[v]
    BY <1>0, <2>1, <2>2, MovesTo
  <2>4. policies' = policies /\ sharers' = sharers
    BY <2>1 DEF tables, ledgerVars
  <2>5. job'[w].decision # None => job'[w].policy = Newest
    BY <2>3 DEF Ruled, PolicyInForce
  <2> QED
    BY <2>2, <2>3, <2>4, <2>5, SameNewest, RuledStays
<1>8. ASSUME Newest' = Newest, job' = job, sharers' = sharers PROVE Ruled'
  BY <1>8 DEF Ruled, Shares, PolicyInForce
<1>9. ASSUME NEW a \in DOMAIN approvals, Overdue(a) PROVE Ruled'
  BY <1>8, <1>9, SameNewest DEF Overdue, ledgerVars
<1>10. ASSUME NEW p \in DOMAIN policies, NEW document \in Documents, update_policy(p, document)
       PROVE  Ruled'
  BY <1>0, <1>8, <1>10, TypedUpdate DEF update_policy, ledgerVars
<1>11. CASE UNCHANGED vars
  BY <1>8, <1>11, SameNewest DEF vars, ledgerVars, tables
<1> QED
  BY <1>0, <1>1, <1>2, <1>3, <1>5, <1>6, <1>7, <1>9, <1>10, <1>11, Steps, RuledCommit, Zenon

LEMMA RuledInit ==
    ASSUME Init
    PROVE  Ruled
<1>1. \A w \in Workers : job[w] = Idle
  BY DEF Init
<1> QED
  BY <1>1, IdleTyped DEF Ruled, Shares, PolicyInForce

-----------------------------------------------------------------------------
(* Who waits for whom *)

LEMMA RowTyped ==
    ASSUME Typed
    PROVE  /\ lock \in Workers \cup {Free} /\ sharers \subseteq Workers /\ Free \notin Workers
           /\ lock # Free => sharers \subseteq {lock}
BY LegacyLedgerAssumption DEF Typed, P!OrderInv, P!TypeOK

LEMMA HoldingMoves ==
    ASSUME Typed, Holding, NEW w \in Workers,
           \A v \in Workers \ {w} : job'[v] = job[v],
           lock' \in {lock, w}, sharers' \subseteq sharers \cup {w},
           lock' = w => job'[w].at \notin Quiet,
           w \in sharers' => job'[w].at = "save"
    PROVE  Holding'
BY RowTyped DEF Holding

LEMMA HoldingEnds ==
    ASSUME Typed, Holding, NEW w \in Workers, L!Commit(w) \/ L!Rollback(w),
           job' = [job EXCEPT ![w] = Idle]
    PROVE  Holding'
<1>1. \A v \in Workers \ {w} : job'[v] = job[v]
  BY DEF Typed
<1>2. lock' = (IF lock = w THEN Free ELSE lock) /\ sharers' = sharers \ {w}
  BY EndsEffect
<1> QED
  BY <1>1, <1>2, RowTyped DEF Holding

LEMMA HoldingNext ==
    ASSUME Typed, Holding, [Next]_vars
    PROVE  Holding'
<1>0. Free \notin Workers
  BY RowTyped
<1>1. ASSUME NEW w \in Workers, NEW type, NEW approval, NEW new,
             Logs(w, type, approval, new), Log(w, type, approval, new)
      PROVE  Holding'
  <2>1. PICK e : Logged(w, type, approval, new, e)
    BY <1>1, LogEffect
  <2>2. /\ new.at \in {"evaluate", "authorize", "commit", "create", "execute", "settle"}
        /\ new \in Jobs
    BY <1>1, LogTable
  <2>3. lock' = w /\ sharers' = sharers /\ sharers \subseteq {w}
    BY <2>1 DEF Logged
  <2>4. /\ \A v \in Workers \ {w} : job'[v] = job[v]
        /\ job'[w].at = new.at
    BY <1>1, <2>1, LogJob
  <2>5. w \notin sharers
    <3>1. job[w].at # "save"
      BY <1>1 DEF Logs
    <3> QED
      BY <3>1 DEF Holding
  <2>6. job'[w].at \notin Quiet
    BY <2>2, <2>4 DEF Quiet
  <2> QED
    BY <2>3, <2>4, <2>5, <2>6, HoldingMoves
<1>2. ASSUME NEW w \in Workers, NEW new, Started(w, new) PROVE Holding'
  <2>1. job[w].at = "idle" /\ lock' = lock /\ sharers' = sharers
    BY <1>2, IdleTyped DEF Started, ledgerVars
  <2>2. \A v \in Workers \ {w} : job'[v] = job[v]
    BY <1>2 DEF Typed, Started
  <2>3. lock # w /\ w \notin sharers
    BY <1>0, <2>1 DEF Holding, Quiet
  <2> QED
    BY <2>1, <2>2, <2>3, HoldingMoves
<1>3. ASSUME NEW w \in Workers, InsertPolicy(w) PROVE Holding'
  <2>1. /\ job[w].at = "insert" /\ lock \in {Free, w} /\ lock' = lock
        /\ sharers' = sharers \cup {w} /\ job' = [job EXCEPT ![w].at = "save"]
    BY <1>3 DEF InsertPolicy, L!insert
  <2>2. "save" \in Places /\ "insert" \in Quiet
    BY DEF Places, Quiet
  <2>3. job'[w].at = "save" /\ \A v \in Workers \ {w} : job'[v] = job[v]
    BY <2>1, <2>2, MovesTo
  <2>4. lock # w
    BY <1>0, <2>1, <2>2 DEF Holding
  <2> QED
    BY <2>1, <2>3, <2>4, HoldingMoves
<1>4. ASSUME NEW w \in Workers, Execute(w) PROVE Holding'
  <2>1. PICK next \in {"complete", "fail"} :
                /\ job[w].at = "execute" /\ job' = [job EXCEPT ![w].at = next]
                /\ UNCHANGED <<ledgerVars, tables, jobs>>
    BY <1>4, ExecuteEffect, Zenon
  <2>2. next \in Places /\ next \notin Quiet
    BY DEF Places, Deciding, Quiet
  <2>3. job'[w].at = next /\ \A v \in Workers \ {w} : job'[v] = job[v]
    BY <2>1, <2>2, MovesTo
  <2>4. lock' = lock /\ sharers' = sharers /\ w \notin sharers
    BY <2>1 DEF ledgerVars, Holding
  <2> QED
    BY <2>2, <2>3, <2>4, HoldingMoves
<1>5. ASSUME NEW w \in Workers, Expire(w) PROVE Holding'
  <2>1. job[w].at = "expire" /\ lock' = lock /\ sharers' = sharers /\ job' = [job EXCEPT ![w] = Idle]
    BY <1>5 DEF Expire, ledgerVars
  <2>2. \A v \in Workers \ {w} : job'[v] = job[v]
    BY <2>1 DEF Typed
  <2>3. lock # w /\ w \notin sharers
    BY <1>0, <2>1 DEF Holding, Quiet
  <2> QED
    BY <2>1, <2>2, <2>3, HoldingMoves
<1>6. ASSUME NEW w \in Workers, CommitWork(w) \/ Drop(w) PROVE Holding'
  BY <1>6, HoldingEnds DEF CommitWork, Drop
<1>7. ASSUME job' = job, UNCHANGED ledgerVars PROVE Holding'
  BY <1>7 DEF Holding, ledgerVars
<1>8. ASSUME NEW a \in DOMAIN approvals, Overdue(a) PROVE Holding'
  BY <1>7, <1>8 DEF Overdue
<1>9. ASSUME NEW p \in DOMAIN policies, NEW document \in Documents, update_policy(p, document)
      PROVE  Holding'
  BY <1>7, <1>9 DEF update_policy
<1>10. CASE UNCHANGED vars
  BY <1>7, <1>10 DEF vars
<1> QED
  BY <1>1, <1>2, <1>3, <1>4, <1>5, <1>6, <1>8, <1>9, <1>10, Steps, Zenon

LEMMA HoldingInit ==
    ASSUME Init
    PROVE  Holding
BY DEF Init, L!Init, Holding

\* A holder's next append has the row already, and who shares it appends no more.
LEMMA HoldingMatches ==
    ASSUME Typed, Holding
    PROVE  NoDeadlock
<1> SUFFICES ASSUME NEW w \in Workers, Waits(w)
             PROVE  /\ Blockers(w) # {}
                    /\ \A v \in Blockers(w) : job[v] # Idle /\ ~Waits(v)
  BY DEF NoDeadlock
<1>1. Blockers(w) # {}
  <2>1. CASE lock \notin {Free, w}
    BY <2>1 DEF Blockers
  <2>2. CASE lock \in {Free, w}
    <3>1. PICK v \in sharers : v # w
      BY <2>2 DEF Waits
    <3> QED
      BY <3>1, RowTyped DEF Blockers
  <2> QED
    BY <2>1, <2>2
<1>2. ASSUME NEW v \in Blockers(w) PROVE job[v] # Idle /\ ~Waits(v)
  <2>1. CASE lock # Free
    <3>1. v = lock /\ sharers \subseteq {v}
      BY <1>2, <2>1, RowTyped DEF Blockers
    <3>2. job[v].at \notin Quiet
      BY <2>1, <3>1 DEF Holding
    <3> QED
      BY <3>1, <3>2, IdleTyped DEF Waits, Quiet
  <2>2. CASE lock = Free
    <3>1. job[v].at = "save"
      BY <1>2, <2>2 DEF Blockers, Holding
    <3> QED
      BY <3>1, IdleTyped DEF Waits, Appends
  <2> QED
    BY <2>1, <2>2
<1> QED
  BY <1>1, <1>2

-----------------------------------------------------------------------------
(* The last word on an approval *)

\* A chain that grows by events which are not about an approval says the same
\* of it.
LEMMA SaysMore ==
    ASSUME Base, NEW w \in Workers, NEW a, NEW status, NEW late,
           Says(events, a, status, late),
           \A i \in 1 .. Len(staged[w]) : ~About(staged[w][i], a)
    PROVE  Says(Whole(w), a, status, late)
<1> DEFINE chain == Whole(w)
           n == Len(events)
<1>0. /\ n \in Nat /\ Len(staged[w]) \in Nat /\ Len(chain) = n + Len(staged[w])
      /\ \A i \in 1 .. n : chain[i] = events[i]
      /\ \A i \in 1 .. Len(staged[w]) : chain[n + i] = staged[w][i]
  BY WholeChain DEF Base
<1> HIDE DEF chain, n
<1>1. ASSUME NEW i \in 1 .. Len(chain), i > n PROVE ~About(chain[i], a)
  <2>1. i - n \in 1 .. Len(staged[w]) /\ n + (i - n) = i
    BY <1>0, <1>1
  <2>2. chain[i] = staged[w][i - n]
    BY <1>0, <2>1
  <2> QED
    BY <2>1, <2>2
<1>2. CASE status = "pending"
  <2>1. \A i \in 1 .. n : ~About(events[i], a)
    BY <1>2 DEF Says, n
  <2>2. ASSUME NEW i \in 1 .. Len(chain) PROVE ~About(chain[i], a)
    BY <1>0, <1>1, <2>1
  <2> QED
    BY <1>2, <2>2 DEF Says, chain
<1>3. CASE status \in {"approved", "rejected"}
  <2>1. PICK i \in 1 .. n :
                /\ About(events[i], a) /\ events[i].data.type = Verdict(status)
                /\ \A j \in i + 1 .. n : ~About(events[j], a)
    BY <1>3 DEF Says, n
  <2>2. i \in 1 .. Len(chain) /\ chain[i] = events[i]
    BY <1>0
  <2>3. ASSUME NEW j \in i + 1 .. Len(chain) PROVE ~About(chain[j], a)
    <3>1. CASE j > n
      BY <1>0, <1>1, <3>1
    <3>2. CASE j \in i + 1 .. n
      <4>1. j \in 1 .. n
        BY <3>2
      <4> QED
        BY <1>0, <2>1, <3>2, <4>1
    <3> QED
      BY <1>0, <3>1, <3>2
  <2> QED
    BY <1>3, <2>1, <2>2, <2>3 DEF Says, chain
<1>4. CASE status \notin {"pending", "approved", "rejected"}
  BY <1>4 DEF Says
<1> QED
  BY <1>2, <1>3, <1>4

LEMMA WordsStays ==
    ASSUME Words, events' = events, approvals' = approvals, overdue \subseteq overdue'
    PROVE  Words'
<1>1. ASSUME NEW chain, NEW a, NEW status, Says(chain, a, status, a \in overdue)
      PROVE  Says(chain, a, status, a \in overdue')
  BY <1>1 DEF Says
<1> QED
  BY <1>1 DEF Words

LEMMA WordsExpire ==
    ASSUME Base, Words, NEW w \in Workers, Expire(w)
    PROVE  Words'
<1>1. events' = events /\ overdue' = overdue
  BY DEF Expire, ledgerVars
<1>2. /\ DOMAIN approvals' = DOMAIN approvals
      /\ \A a \in DOMAIN approvals :
            approvals'[a].status = IF a \in job[w].expiring THEN "expired" ELSE approvals[a].status
  BY TypedExpire DEF Base
<1>3. job[w].expiring \subseteq overdue
  BY DEF Base, Typed, Knows
<1>4. ASSUME NEW a \in DOMAIN approvals, a \in overdue
      PROVE  Says(events, a, "expired", a \in overdue)
  BY <1>4 DEF Says
<1>5. ASSUME NEW a \in DOMAIN approvals
      PROVE  Says(events, a, approvals'[a].status, a \in overdue)
  BY <1>2, <1>3, <1>4 DEF Words
<1>6. \A i \in 1 .. Len(events) :
          events[i].data.type \in Decisive => events[i].data.approval \in DOMAIN approvals
  BY DEF Words
<1> QED
  BY <1>1, <1>2, <1>5, <1>6 DEF Words

LEMMA WordsCommit ==
    ASSUME Base, Words, NEW w \in Workers, CommitWork(w)
    PROVE  Words'
<1> DEFINE chain == Whole(w)
           n == Len(events)
           m == Len(staged[w])
<1>0. Typed /\ Phased /\ Anchored /\ Knows(w) /\ Wrote(w)
  BY DEF Base, Phased, Typed
<1>1. /\ job[w].at \in Done /\ Saved(w) /\ events' = chain /\ overdue' = overdue
  BY <1>0, EndsEffect DEF CommitWork
<1>2. /\ n \in Nat /\ m \in Nat /\ Len(chain) = n + m
      /\ \A i \in 1 .. n : chain[i] = events[i]
      /\ \A i \in 1 .. m : chain[n + i] = staged[w][i]
  BY <1>0, WholeChain
<1>3. /\ DOMAIN approvals \subseteq DOMAIN approvals'
      /\ \A a \in DOMAIN approvals :
            approvals'[a].status =
               IF job[w].at = "settle" /\ a = job[w].approval THEN job[w].status
                                                              ELSE approvals[a].status
      /\ job[w].at = "create" =>
            /\ DOMAIN approvals' = DOMAIN approvals \cup {job[w].parent}
            /\ job[w].parent \notin DOMAIN approvals
            /\ approvals'[job[w].parent].status = "pending"
      /\ job[w].at # "create" => DOMAIN approvals' = DOMAIN approvals
  BY <1>0, <1>1, SavedApprovals
<1>4. /\ \A i \in 1 .. n :
            events[i].data.type \in Decisive => events[i].data.approval \in DOMAIN approvals
      /\ \A a \in DOMAIN approvals : Says(events, a, approvals[a].status, a \in overdue)
  BY DEF Words
<1>5. CASE job[w].at = "settle"
  <2> DEFINE last == staged[w][1]
             c == job[w].approval
  <2>1. /\ m = 1 /\ last.data.type = Verdict(job[w].status) /\ last.data.approval = c
    BY <1>0, <1>5 DEF Wrote, Quiet, LastOf
  <2>2. /\ c \in DOMAIN approvals /\ job[w].status \in {"approved", "rejected"}
        /\ Verdict(job[w].status) \in Decisive
    BY <1>0, <1>5 DEF Knows, Verdict, Decisive
  <2>3. /\ Len(chain) = n + 1 /\ chain[n + 1] = last /\ About(last, c)
        /\ \A a : a # c => ~About(last, a)
    BY <1>2, <2>1, <2>2 DEF About
  <2> HIDE DEF chain, n, m, last, c
  <2>4. Says(chain, c, job[w].status, c \in overdue)
    <3>1. n + 1 \in 1 .. Len(chain) /\ \A j \in n + 2 .. Len(chain) : FALSE
      BY <1>2, <2>3
    <3>2. (n + 1) + 1 = n + 2
      BY <1>2
    <3>3. chain[n + 1].data.type = Verdict(job[w].status) /\ About(chain[n + 1], c)
      BY <2>1, <2>3
    <3> QED
      BY <2>2, <3>1, <3>2, <3>3 DEF Says
  <2>5. ASSUME NEW a \in DOMAIN approvals, a # c
        PROVE  Says(chain, a, approvals[a].status, a \in overdue)
    <3>1. \A i \in 1 .. Len(staged[w]) : ~About(staged[w][i], a)
      <4>1. \A i \in 1 .. m : i = 1
        BY <2>1
      <4> QED
        BY <2>3, <2>5, <4>1 DEF m, last
    <3> QED
      BY <1>4, <3>1, SaysMore DEF chain
  <2>6. ASSUME NEW a \in DOMAIN approvals'
        PROVE  Says(chain, a, approvals'[a].status, a \in overdue)
    <3>1. a \in DOMAIN approvals
      BY <1>3, <1>5
    <3>2. approvals'[a].status = IF a = c THEN job[w].status ELSE approvals[a].status
      BY <1>3, <1>5, <3>1 DEF c
    <3> QED
      BY <2>4, <2>5, <3>1, <3>2
  <2>7. ASSUME NEW i \in 1 .. Len(chain), chain[i].data.type \in Decisive
        PROVE  chain[i].data.approval \in DOMAIN approvals'
    <3>1. CASE i = n + 1
      BY <1>3, <2>1, <2>2, <2>3, <3>1
    <3>2. CASE i \in 1 .. n
      BY <1>2, <1>3, <1>4, <2>7, <3>2
    <3> QED
      BY <1>2, <2>3, <3>1, <3>2
  <2> QED
    BY <1>1, <2>6, <2>7 DEF Words
<1>6. CASE job[w].at # "settle"
  <2>1. \A i \in 1 .. m : staged[w][i].data.type \notin Decisive
    BY <1>0, <1>6 DEF Wrote
  <2>2. \A a : \A i \in 1 .. Len(staged[w]) : ~About(staged[w][i], a)
    BY <2>1 DEF About
  <2> HIDE DEF chain, n, m
  <2>3. ASSUME NEW i \in 1 .. Len(chain), chain[i].data.type \in Decisive
        PROVE  chain[i].data.approval \in DOMAIN approvals
    <3>1. CASE i \in 1 .. n
      BY <1>2, <1>4, <2>3, <3>1
    <3>2. CASE i \notin 1 .. n
      <4>1. i - n \in 1 .. m /\ n + (i - n) = i
        BY <1>2, <3>2
      <4>2. chain[i] = staged[w][i - n]
        BY <1>2, <4>1
      <4> QED
        BY <2>1, <2>3, <4>1, <4>2
    <3> QED
      BY <3>1, <3>2
  <2>4. ASSUME NEW a \in DOMAIN approvals
        PROVE  Says(chain, a, approvals'[a].status, a \in overdue)
    <3>1. approvals'[a].status = approvals[a].status
      BY <1>3, <1>6
    <3> QED
      BY <1>4, <2>2, <3>1, SaysMore DEF chain
  <2>5. ASSUME NEW a \in DOMAIN approvals' \ DOMAIN approvals
        PROVE  Says(chain, a, approvals'[a].status, a \in overdue)
    <3>1. approvals'[a].status = "pending"
      BY <1>3
    <3>2. \A i \in 1 .. Len(chain) : ~About(chain[i], a)
      BY <2>3 DEF About
    <3> QED
      BY <3>1, <3>2 DEF Says
  <2> QED
    BY <1>1, <1>3, <2>3, <2>4, <2>5 DEF Words
<1> QED
  BY <1>5, <1>6

LEMMA WordsNext ==
    ASSUME Base, Words, [Next]_vars
    PROVE  Words'
<1>0. Typed
  BY DEF Base
<1>1. ASSUME NEW w \in Workers, NEW type, NEW approval, NEW new,
             Logs(w, type, approval, new), Log(w, type, approval, new)
      PROVE  Words'
  <2>1. UNCHANGED tables /\ events' = events
    BY <1>1 DEF Log, L!append
  <2> QED
    BY <2>1, WordsStays DEF tables
<1>2. ASSUME NEW w \in Workers, NEW new, Started(w, new) PROVE Words'
  BY <1>2, WordsStays DEF Started, ledgerVars
<1>3. ASSUME NEW w \in Workers, InsertPolicy(w) \/ Drop(w) PROVE Words'
  BY <1>3, WordsStays DEF InsertPolicy, L!insert, Drop, L!Rollback, tables
<1>4. ASSUME NEW w \in Workers, Execute(w) PROVE Words'
  BY <1>4, WordsStays DEF Execute, ledgerVars, tables
<1>5. ASSUME NEW a \in DOMAIN approvals, Overdue(a) PROVE Words'
  BY <1>5, WordsStays DEF Overdue, ledgerVars
<1>6. ASSUME NEW p \in DOMAIN policies, NEW document \in Documents, update_policy(p, document)
      PROVE  Words'
  BY <1>6, WordsStays DEF update_policy, ledgerVars
<1>7. CASE UNCHANGED vars
  BY <1>7, WordsStays DEF vars, ledgerVars, tables
<1> QED
  BY <1>0, <1>1, <1>2, <1>3, <1>4, <1>5, <1>6, <1>7, Steps, WordsExpire, WordsCommit, Zenon

LEMMA WordsInit ==
    ASSUME Init
    PROVE  Words
BY DEF Init, L!Init, Words

-----------------------------------------------------------------------------
(* The ledger's own steps *)

LEMMA LedgerStep ==
    ASSUME Base, [Next]_vars
    PROVE  [L!Next]_(L!vars)
<1>0. Typed /\ (UNCHANGED ledgerVars => UNCHANGED L!vars)
  BY DEF Base, ledgerVars, L!vars
<1>1. ASSUME NEW w \in Workers, NEW type, NEW approval, NEW new,
             Logs(w, type, approval, new), Log(w, type, approval, new)
      PROVE  L!Next
  BY <1>0, <1>1, LogEffect DEF L!Next
<1>2. ASSUME NEW w \in Workers, InsertPolicy(w) \/ CommitWork(w) \/ Drop(w) PROVE L!Next
  BY <1>2 DEF InsertPolicy, CommitWork, Drop, L!Next
<1>3. ASSUME NEW w \in Workers, NEW new, Started(w, new) PROVE UNCHANGED ledgerVars
  BY <1>3 DEF Started
<1>4. ASSUME NEW w \in Workers, Execute(w) \/ Expire(w) PROVE UNCHANGED ledgerVars
  BY <1>4 DEF Execute, Expire
<1>5. ASSUME NEW a \in DOMAIN approvals, Overdue(a) PROVE UNCHANGED ledgerVars
  BY <1>5 DEF Overdue
<1>6. ASSUME NEW p \in DOMAIN policies, NEW document \in Documents, update_policy(p, document)
      PROVE  UNCHANGED ledgerVars
  BY <1>6 DEF update_policy
<1>7. UNCHANGED vars => UNCHANGED ledgerVars
  BY DEF vars
<1> QED
  BY <1>0, <1>1, <1>2, <1>3, <1>4, <1>5, <1>6, <1>7, Steps, Zenon

LEMMA ChainStep ==
    ASSUME P!ClockForwards, Base, P!ChainInv, [Next]_vars
    PROVE  P!ChainInv'
<1>1. [L!Next]_(L!vars)
  BY LedgerStep
<1>2. [P!Next]_(P!vars)
  BY <1>1, SameActions DEF L!Next, P!Next, L!vars, P!vars
<1> QED
  BY <1>2, Constants, P!ChainNext DEF Base, Typed

\* On a linked chain, an approval that a decision made approved or rejected is
\* what the last decision says.
LEMMA WordsMatch ==
    ASSUME Base, Words, P!ChainInv
    PROVE  DecidedStatusMatchesTrail
<1>1. ASSUME NEW i \in 1 .. Len(events), NEW j \in 1 .. Len(events)
      PROVE  L!Before(events[j], events[i]) <=> j < i
  BY SameOperators, P!LinkedBefore DEF Base, Typed
<1>2. \A a : \A e : e \in Decisions(a) <=> \E i \in 1 .. Len(events) : e = events[i] /\ About(e, a)
  BY DEF Decisions, Committed, L!RangeOf, About, Decisive
<1>3. ASSUME NEW a \in DOMAIN approvals
      PROVE  LET last == CHOOSE e \in Decisions(a) : \A f \in Decisions(a) \ {e} : L!Before(f, e)
             IN  CASE approvals[a].status = "pending"  -> Decisions(a) = {}
                   [] approvals[a].status = "approved" ->
                          Decisions(a) # {} /\ last.data.type = "approval.granted"
                   [] approvals[a].status = "rejected" ->
                          Decisions(a) # {} /\ last.data.type = "approval.rejected"
                   [] approvals[a].status = "expired"  -> a \in overdue
  <2> DEFINE D == Decisions(a)
             Last(e) == \A f \in D \ {e} : L!Before(f, e)
             status == approvals[a].status
  <2>1. Says(events, a, status, a \in overdue) /\ status \in Statuses
    <3>1. approvals[a] \in Approvals
      BY DEF Base, Typed
    <3> QED
      BY <3>1 DEF Words, Approvals
  <2>2. CASE status = "pending"
    <3>1. D = {}
      BY <1>2, <2>1, <2>2 DEF Says
    <3> QED
      BY <2>2, <3>1
  <2>3. CASE status \in {"approved", "rejected"}
    <3>1. PICK i \in 1 .. Len(events) :
                  /\ About(events[i], a) /\ events[i].data.type = Verdict(status)
                  /\ \A j \in i + 1 .. Len(events) : ~About(events[j], a)
      BY <2>1, <2>3 DEF Says
    <3>2. events[i] \in D
      BY <1>2, <3>1
    <3>3. ASSUME NEW f \in D \ {events[i]} PROVE L!Before(f, events[i]) /\ ~L!Before(events[i], f)
      <4>1. PICK j \in 1 .. Len(events) : f = events[j] /\ About(events[j], a)
        BY <1>2
      <4>2. j # i /\ ~(j \in i + 1 .. Len(events))
        BY <3>1, <4>1
      <4>3. j < i
        BY <4>2
      <4> QED
        BY <1>1, <4>1, <4>3
    <3> HIDE DEF D
    <3>4. Last(events[i]) /\ \A e \in D : Last(e) => e = events[i]
      BY <3>2, <3>3
    <3>5. (CHOOSE e \in D : Last(e)) = events[i]
      <4> HIDE DEF Last
      <4> QED
        BY <3>2, <3>4
    <3>6. (CHOOSE e \in D : Last(e)).data.type = Verdict(status) /\ D # {}
      BY <3>1, <3>2, <3>5
    <3> QED
      BY <2>3, <3>6 DEF D, Verdict
  <2>4. CASE status = "expired"
    BY <2>1, <2>4 DEF Says
  <2> QED
    BY <2>1, <2>2, <2>3, <2>4 DEF Statuses
<1> QED
  BY <1>3 DEF DecidedStatusMatchesTrail

-----------------------------------------------------------------------------

\* The approvals and the handlers keep their types, whatever interleaves,
\* fails or rolls back (approvals.py:38-82).
THEOREM GatewayTyped == Spec => []TypeOK
<1>1. Base => TypeOK
  <2> SUFFICES ASSUME Base PROVE TypeOK
    OBVIOUS
  <2>1. L!TypeOK
    BY SameOperators DEF Base, Typed, P!OrderInv
  <2> QED
    BY <2>1 DEF Base, Typed, TypeOK, Versions, Executions
<1>2. Init => Base
  BY BaseInit
<1>3. Base /\ [Next]_vars => Base'
  BY BaseNext
<1> QED
  BY <1>1, <1>2, <1>3, PTL DEF Spec

\* The gateway writes the chain through the operations of the ledger alone:
\* its transactions are sessions of LedgerService (gateway.py:75-210,
\* ledger.py:33-52).
THEOREM UsesTheLedger == Spec => L!Spec
<1>1. Init => Base /\ L!Init
  BY BaseInit DEF Init
<1>2. Base /\ [Next]_vars => Base'
  BY BaseNext
<1>3. Base /\ [Next]_vars => [L!Next]_(L!vars)
  BY LedgerStep
<1> QED
  BY <1>1, <1>2, <1>3, PTL DEF Spec, L!Spec

\* The record of a call is whole, however the handlers of other calls, of
\* decisions and of policies interleave with it, and wherever they fail
\* (gateway.py:75-210).
THEOREM TrailIsWhole == Spec => []TrailWhole
<1>1. Init => Base /\ Trail
  BY BaseInit, TrailInit
<1>2. Base /\ Trail /\ [Next]_vars => (Base /\ Trail)'
  BY BaseNext, TrailNext
<1>3. Base /\ Trail => TrailWhole
  BY TrailIsWholeHere
<1> QED
  BY <1>1, <1>2, <1>3, PTL DEF Spec

\* Nothing is executed but what policy allowed or what an approval of this
\* very call, granted on record, permitted (legacy/README.md:171-174).
THEOREM OnlyPermittedExecuted == Spec => []ExecutedOnlyIfPermitted
<1>1. Init => Base /\ Permits
  BY BaseInit, PermitsInit
<1>2. Base /\ Permits /\ [Next]_vars => (Base /\ Permits)'
  BY BaseNext, PermitsNext
<1>3. Base /\ Permits => ExecutedOnlyIfPermitted
  BY PermitsSuffice
<1> QED
  BY <1>1, <1>2, <1>3, PTL DEF Spec

\* No policy comes into force between the evaluation of a call and its commit:
\* whoever inserts one waits for the tenant row (policies.py:63-72).
THEOREM PolicyStaysInForce == Spec => []PolicyInForce
<1>1. Init => Base /\ Ruled
  BY BaseInit, RuledInit
<1>2. Base /\ Ruled /\ [Next]_vars => (Base /\ Ruled)'
  BY BaseNext, RuledNext
<1>3. Ruled => PolicyInForce
  BY DEF Ruled
<1> QED
  BY <1>1, <1>2, <1>3, PTL DEF Spec

\* Whoever waits for the tenant row waits for handlers that go on: calls,
\* decisions and policy changes do not deadlock (ledger.py:35,
\* api/policies.py:28-30).
THEOREM HandlersNeverDeadlock == Spec => []NoDeadlock
<1>1. Init => Base /\ Holding
  BY BaseInit, HoldingInit
<1>2. Base /\ Holding /\ [Next]_vars => (Base /\ Holding)'
  BY BaseNext, HoldingNext DEF Base
<1>3. Base /\ Holding => NoDeadlock
  BY HoldingMatches DEF Base
<1> QED
  BY <1>1, <1>2, <1>3, PTL DEF Spec

\* The chain under the gateway verifies, as long as the clock runs forwards
\* (legacy/README.md:152-153).
THEOREM ChainVerifies ==
    ASSUME P!ClockForwards
    PROVE  Spec => []LedgerVerifies
<1>1. Init => Base /\ P!ChainInv
  BY BaseInit, P!ChainInit DEF Init, L!Init, P!Init
<1>2. Base /\ P!ChainInv /\ [Next]_vars => (Base /\ P!ChainInv)'
  BY BaseNext, ChainStep
<1>3. Base /\ P!ChainInv => LedgerVerifies
  BY SameOperators, Constants, P!LinkedVerifies DEF Base, Typed, LedgerVerifies
<1> QED
  BY <1>1, <1>2, <1>3, PTL DEF Spec

\* As long as the clock runs forwards, no decision on the chain is about a
\* pending approval, and an approved or rejected one is what the last decision
\* says (approvals.py:53-81).  An expired one has only its time up: its status
\* may stand over a decision (approvals.py:30-34).
THEOREM DecidedStatusIsLastWord ==
    ASSUME P!ClockForwards
    PROVE  Spec => []DecidedStatusMatchesTrail
<1>1. Init => Base /\ Words /\ P!ChainInv
  BY BaseInit, WordsInit, P!ChainInit DEF Init, L!Init, P!Init
<1>2. Base /\ Words /\ P!ChainInv /\ [Next]_vars => (Base /\ Words /\ P!ChainInv)'
  BY BaseNext, WordsNext, ChainStep
<1>3. Base /\ Words /\ P!ChainInv => DecidedStatusMatchesTrail
  BY WordsMatch
<1> QED
  BY <1>1, <1>2, <1>3, PTL DEF Spec

=============================================================================
