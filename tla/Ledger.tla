------------------------------- MODULE Ledger -------------------------------
(***************************************************************************)
(* The legacy backend's event chain of one tenant:                         *)
(* legacy/backend/app/services/ledger.py on PostgreSQL (READ COMMITTED).   *)
(*                                                                         *)
(* Every HTTP request runs in a database session of its own.  append locks *)
(* the tenant row until the transaction ends, reads the latest event, and  *)
(* writes one that names its hash.  Events are ordered by their timestamp, *)
(* which is the wall clock of the backend.  An event is [id, timestamp,    *)
(* previous_hash, data]; SHA-256 is ideal, so its hash is its id.          *)
(*                                                                         *)
(* The tenant row is locked in two ways, both until the transaction ends:  *)
(* by append FOR UPDATE, and FOR KEY SHARE by every INSERT of a row whose  *)
(* tenant_id refers to it.  Two transactions that have both inserted and   *)
(* then append wait for each other; PostgreSQL aborts one of them.         *)
(***************************************************************************)
EXTENDS Integers, Sequences

CONSTANTS
    Sessions,    \* database sessions
    Data,        \* what an event can say
    NoHash,      \* None as a previous_hash
    Free,        \* no session holds the tenant row
    Jumps        \* by how much the clock can differ between two events

VARIABLES
    events,      \* the committed events, in the order of the commits
    staged,      \* each session's events that are flushed and not committed
    lock,        \* the session that holds the tenant row FOR UPDATE, or Free
    sharers,     \* the sessions that hold it FOR KEY SHARE
    clock,       \* the last reading of the wall clock
    ids          \* how many event ids have been drawn

vars == <<events, staged, lock, sharers, clock, ids>>

Events == [id : Nat, timestamp : Int, previous_hash : Nat \cup {NoHash}, data : Data]

RangeOf(s) == {s[i] : i \in 1 .. Len(s)}

\* ORDER BY timestamp, id.  Ids are random (uuid4), so equal timestamps may
\* stand in either order, and a chain with some need not verify; here they
\* stand in the order drawn, and with Jumps = {1} there are none.
Before(e, f) ==
    e.timestamp < f.timestamp \/ (e.timestamp = f.timestamp /\ e.id < f.id)

latest_hash(S) ==
    IF S = {} THEN NoHash ELSE (CHOOSE e \in S : \A f \in S \ {e} : Before(f, e)).id

Init ==
    /\ events = <<>>
    /\ staged = [s \in Sessions |-> <<>>]
    /\ lock = Free
    /\ sharers = {}
    /\ clock = 0
    /\ ids = 0

\* Mutant of append: the tenant row is not locked
append_unlocked(s, data) ==
    /\ UNCHANGED <<lock, sharers>>
    /\ \E jump \in Jumps : clock' = clock + jump
    /\ ids' = ids + 1
    /\ staged' = [staged EXCEPT ![s] = Append(@,
           [id |-> ids + 1, timestamp |-> clock',
            previous_hash |-> latest_hash(RangeOf(events) \cup RangeOf(staged[s])),
            data |-> data])]
    /\ UNCHANGED events

\* An INSERT that refers to the tenant, once the row lock is granted
insert(s) ==
    /\ lock \in {Free, s}
    /\ sharers' = sharers \cup {s}
    /\ UNCHANGED <<events, staged, lock, clock, ids>>

\* LedgerService.append, once the row lock is granted
append(s, data) ==
    /\ lock \in {Free, s} /\ sharers \subseteq {s}
    /\ lock' = s
    /\ \E jump \in Jumps : clock' = clock + jump
    /\ ids' = ids + 1
    /\ staged' = [staged EXCEPT ![s] = Append(@,
           [id |-> ids + 1, timestamp |-> clock',
            previous_hash |-> latest_hash(RangeOf(events) \cup RangeOf(staged[s])),
            data |-> data])]
    /\ UNCHANGED <<events, sharers>>

\* s waits in append for somebody who waits there for s
Deadlocked(s) == s \in sharers /\ sharers # {s}

End(s) ==
    /\ staged' = [staged EXCEPT ![s] = <<>>]
    /\ lock' = IF lock = s THEN Free ELSE lock
    /\ sharers' = sharers \ {s}
    /\ UNCHANGED <<clock, ids>>

Commit(s) == events' = events \o staged[s] /\ End(s)

Rollback(s) == UNCHANGED events /\ End(s)

\* LedgerService.verify: an event's previous_hash is that of the one before it
\* in the order of the timestamps.  Nobody changes a row, so the other check,
\* of its own hash, finds nothing.
verify ==
    \A e \in RangeOf(events) :
        LET earlier == {f \in RangeOf(events) : Before(f, e)} IN
        IF earlier = {} THEN e.previous_hash = NoHash
        ELSE \E f \in earlier : /\ e.previous_hash = f.id
                               /\ \A g \in earlier \ {f} : Before(g, f)

Next ==
    \E s \in Sessions :
        insert(s) \/ (\E data \in Data : append(s, data)) \/ Commit(s) \/ Rollback(s)

Spec == Init /\ [][Next]_vars

-----------------------------------------------------------------------------

\* The types of the tables and of the row lock (ledger.py:33-52).
TypeOK ==
    /\ events \in Seq(Events)
    /\ staged \in [Sessions -> Seq(Events)]
    /\ lock \in Sessions \cup {Free}
    /\ sharers \subseteq (IF lock = Free THEN Sessions ELSE {lock})
    /\ clock \in Int
    /\ ids \in Nat
=============================================================================
