----------------------------- MODULE Checkpoints -----------------------------
(***************************************************************************)
(* The legacy backend's checkpoints over the event chain of Ledger, beside *)
(* the handlers of Runs: legacy/backend/app/services/checkpoints.py and    *)
(* api/checkpoints.py.                                                     *)
(*                                                                         *)
(* create reads the events, then the latest checkpoint, in two statements  *)
(* that see different moments of the database; it shares the tenant row    *)
(* when it inserts its checkpoint and takes it when it appends its event.  *)
(*                                                                         *)
(* The clock runs forwards here (Jumps = {1}), so the order of timestamps  *)
(* is that of the commits and an event is known by its place in events.    *)
(* An event's hash is <<its id>>, and the root is what Merkle makes of the *)
(* hashes of the events covered.                                           *)
(***************************************************************************)
EXTENDS Integers, Sequences

CONSTANTS
    Handlers, RunIds, None,   \* see Runs
    Checkpointers, \* handlers of POST /checkpoints
    MaxRequests,   \* bound on the requests of a behaviour
    NoHash, Free

VARIABLES
    events, staged, lock, sharers, clock, ids,   \* see Ledger
    runs, serving,   \* see Runs
    checkpoints,   \* the committed checkpoints: [from, to,
                   \* event_count, root, created_at]
    job,           \* what each checkpointer is doing
    requests       \* how many requests have been taken

ledgerVars == <<events, staged, lock, sharers, clock, ids>>
runVars == <<runs, serving>>
vars == <<ledgerVars, runVars, checkpoints, job, requests>>

M == INSTANCE Merkle

R == INSTANCE Runs WITH Sessions <- Handlers \cup Checkpointers, Jumps <- {1}

ASSUME CheckpointsAssumption ==
    /\ Handlers \cap Checkpointers = {}
    /\ NoHash \notin Nat /\ Free \notin Handlers \cup Checkpointers
    /\ None \notin RunIds
    /\ MaxRequests \in Nat

NoRange == [from |-> 0, to |-> 0, event_count |-> 0, root |-> <<>>, created_at |-> 0]

Idle == [at |-> "idle", seen |-> 0, new |-> NoRange]

Init ==
    /\ R!L!Init
    /\ R!Init
    /\ checkpoints = {}
    /\ job = [c \in Checkpointers |-> Idle]
    /\ requests = 0

Request == requests < MaxRequests /\ requests' = requests + 1

\* A handler of Runs takes a request.
ServeRun(h) ==
    /\ Request
    /\ \E r \in RunIds : R!create_run(h, r) \/ R!complete_run(h, r)
    /\ UNCHANGED <<checkpoints, job>>

\* events = list(...)
ReadEvents(c) ==
    /\ Request
    /\ job[c] = Idle
    /\ job' = [job EXCEPT ![c] = [Idle EXCEPT !.at = "read", !.seen = Len(events)]]
    /\ UNCHANGED <<ledgerVars, runVars, checkpoints>>

\* The checkpoint that ends where the latest one, by created_at, does
LastCovered ==
    IF checkpoints = {} THEN 0
    ELSE (CHOOSE p \in checkpoints : \A q \in checkpoints : q.created_at <= p.created_at).to

\* A checkpoint over the events from one place up to another.  created_at is
\* stamped as the INSERT is sent (models.py:165), and the code makes no round
\* trip between the read of the previous checkpoint and that.
Checkpoint(from, to) ==
    [from |-> from, to |-> to, event_count |-> to - from + 1, created_at |-> clock,
     root |-> M!compute_merkle_root([i \in 1 .. to - from + 1 |-> <<events[from + i - 1].id>>])]

\* Mutant of CoverRange: the boundary event is covered again
CoverRange_from_boundary(c) ==
    Checkpoint(IF LastCovered = 0 THEN 1 ELSE LastCovered, job[c].seen)

\* Mutant of CoverRange: the boundaries are swapped
CoverRange_swapped(c) ==
    [Checkpoint(LastCovered + 1, job[c].seen) EXCEPT !.from = job[c].seen,
                                                    !.to = LastCovered + 1]

\* The events read that come after the latest checkpoint
CoverRange(c) == Checkpoint(LastCovered + 1, job[c].seen)

\* previous = ...; the events after it are to be covered.  A previous
\* checkpoint beyond the events read, or none after it, is a ValueError: 409.
ReadPrevious(c) ==
    /\ job[c].at = "read"
    /\ job' = [job EXCEPT ![c] =
           IF LastCovered >= job[c].seen THEN Idle
           ELSE [at |-> "insert", seen |-> job[c].seen, new |-> CoverRange(c)]]
    /\ UNCHANGED <<ledgerVars, runVars, checkpoints, requests>>

\* db.add(checkpoint), db.flush
InsertCheckpoint(c) ==
    /\ job[c].at = "insert"
    /\ R!L!insert(c)
    /\ job' = [job EXCEPT ![c].at = "append"]
    /\ UNCHANGED <<runVars, checkpoints, requests>>

AppendCreated(c) ==
    /\ job[c].at = "append"
    /\ R!L!append(c, [type |-> "checkpoint.created",
                      run |-> events[job[c].new.to].data.run])
    /\ job' = [job EXCEPT ![c].at = "commit"]
    /\ UNCHANGED <<runVars, checkpoints, requests>>

CommitCheckpoint(c) ==
    /\ job[c].at = "commit"
    /\ R!L!Commit(c)
    /\ checkpoints' = checkpoints \cup {job[c].new}
    /\ job' = [job EXCEPT ![c] = Idle]
    /\ UNCHANGED <<runVars, requests>>

\* The handler raises or dies before its commit.
AbortCheckpoint(c) ==
    /\ job[c] # Idle
    /\ R!L!Rollback(c)
    /\ job' = [job EXCEPT ![c] = Idle]
    /\ UNCHANGED <<runVars, checkpoints, requests>>

\* PostgreSQL breaks a deadlock.
Victim ==
    \/ \E c \in Checkpointers :
          job[c].at = "append" /\ R!L!Deadlocked(c) /\ AbortCheckpoint(c)
    \/ \E h \in Handlers : R!RunVictim(h) /\ UNCHANGED <<checkpoints, job, requests>>

CreateCheckpoint(c) ==
    ReadPrevious(c) \/ InsertCheckpoint(c) \/ AppendCreated(c) \/ CommitCheckpoint(c)

HandleRun(h) == R!Handle(h) /\ UNCHANGED <<checkpoints, job, requests>>

AbortRun(h) == R!AbortRun(h) /\ UNCHANGED <<checkpoints, job, requests>>

Next ==
    \/ \E h \in Handlers : ServeRun(h) \/ HandleRun(h) \/ AbortRun(h)
    \/ \E c \in Checkpointers : ReadEvents(c) \/ CreateCheckpoint(c) \/ AbortCheckpoint(c)
    \/ Victim

\* A handler that can go on goes on, row locks are granted in turn, and
\* PostgreSQL looks for deadlocks.
Spec ==
    /\ Init /\ [][Next]_vars
    /\ \A h \in Handlers : SF_vars(HandleRun(h))
    /\ \A c \in Checkpointers : SF_vars(CreateCheckpoint(c))
    /\ WF_vars(Victim)

-----------------------------------------------------------------------------

\* The types of the checkpoints and of their handlers (checkpoints.py:26-79).
TypeOK ==
    /\ R!TypeOK
    /\ \A p \in checkpoints : p.from \in Nat \ {0} /\ p.to \in p.from .. Len(events)
    /\ \A c \in Checkpointers : job[c].at \in {"idle", "read", "insert", "append", "commit"}

\* legacy/README.md:178: a checkpoint covers the events since the previous
\* one: no committed event up to the last boundary is left out or covered
\* twice.
CoveredOnce ==
    \A i \in 1 .. Len(events) :
        (\E p \in checkpoints : i <= p.to) =>
            \E p \in checkpoints : /\ i \in p.from .. p.to
                                   /\ \A q \in checkpoints \ {p} : i \notin q.from .. q.to

\* checkpoints.py:48-66, merkle.py:4-15: root and event_count of a checkpoint
\* fix the events that the chain still holds between its two boundaries, in
\* their order, whatever was appended or rolled back while it was made.  (The
\* root alone does not: with its last event repeated, an odd number of events
\* has the same root.)
RootsMatchChain ==
    \A p \in checkpoints :
        M!LeavesOf(p.root, p.event_count) =
            [i \in 1 .. p.to - p.from + 1 |-> <<events[p.from + i - 1].id>>]

\* runs.py:23-37,73-87: the runs and the chain tell the same story; see Runs.
RunsMatchTrail == R!RunsMatchTrail

At(s) == IF s \in Handlers THEN serving[s].at ELSE job[s].at

\* s waits for the tenant row.
Waits(s) ==
    \/ At(s) = "insert" /\ lock \notin {Free, s}
    \/ At(s) = "append" /\ ~ (lock \in {Free, s} /\ sharers \subseteq {s})

Blockers(s) == ({lock} \cup sharers) \ {Free, s}

\* ledger.py:35, runs.py:25, checkpoints.py:68: whoever waits for the tenant row
\* waits for handlers that are in the middle of a request, and each of them can
\* go on or is in a deadlock that PostgreSQL sees.  Nobody waits for a
\* transaction that was left open, or in a circle that nothing breaks.
WaitsAreBroken ==
    \A s \in Handlers \cup Checkpointers : Waits(s) =>
        /\ Blockers(s) # {}
        /\ \A t \in Blockers(s) :
              /\ At(t) \in {"append", "commit"}
              /\ Waits(t) => At(t) = "append" /\ R!L!Deadlocked(t)

\* Handlers that insert before they append can deadlock on the tenant row
\* (runs.py:24-26, checkpoints.py:67-69); every request returns all the same.
EveryRequestReturns ==
    /\ \A h \in Handlers : serving[h] # R!Idle ~> serving[h] = R!Idle
    /\ \A c \in Checkpointers : job[c] # Idle ~> job[c] = Idle
=============================================================================
