-------------------------------- MODULE Runs --------------------------------
(***************************************************************************)
(* The runs of the legacy backend, on the event chain of Ledger:           *)
(* legacy/backend/app/api/runs.py.                                         *)
(*                                                                         *)
(* Handlers serve requests concurrently.  create_run inserts its run, and  *)
(* with that shares the tenant row, before it appends; complete_run reads  *)
(* the run without a lock and writes it when it has the tenant row.        *)
(***************************************************************************)
EXTENDS Integers, Sequences, FiniteSets

CONSTANTS
    Handlers,    \* handlers of POST /runs and POST /runs/{id}/complete
    Sessions,    \* all database sessions, the handlers' among them
    RunIds,      \* runs that may be created
    None,
    NoHash, Free, Jumps    \* see Ledger

VARIABLES
    events, staged, lock, sharers, clock, ids,   \* see Ledger
    runs,        \* the committed runs: the status of each
    serving      \* what each handler is doing

ledgerVars == <<events, staged, lock, sharers, clock, ids>>

Data == [type : {"run.started", "run.completed", "checkpoint.created"}, run : RunIds]

L == INSTANCE Ledger

Idle == [at |-> "idle", run |-> None, status |-> None]

Init ==
    /\ runs = <<>>
    /\ serving = [h \in Handlers |-> Idle]

Serve(h, new) == serving[h] = Idle /\ serving' = [serving EXCEPT ![h] = new]

create_run(h, r) ==
    /\ r \notin DOMAIN runs /\ \A g \in Handlers : serving[g].run # r
    /\ Serve(h, [at |-> "insert", run |-> r, status |-> "running"])
    /\ UNCHANGED <<ledgerVars, runs>>

\* db.add(run), db.flush
InsertRun(h) ==
    /\ serving[h].at = "insert"
    /\ L!insert(h)
    /\ serving' = [serving EXCEPT ![h].at = "append"]
    /\ UNCHANGED runs

\* The run is read; a completed one is a 409.
complete_run(h, r) ==
    /\ r \in DOMAIN runs /\ runs[r] = "running"
    /\ Serve(h, [at |-> "append", run |-> r, status |-> "completed"])
    /\ UNCHANGED <<ledgerVars, runs>>

AppendEvent(h) ==
    /\ serving[h].at = "append"
    /\ L!append(h, [type |-> IF serving[h].status = "running" THEN "run.started"
                                                              ELSE "run.completed",
                    run |-> serving[h].run])
    /\ serving' = [serving EXCEPT ![h].at = "commit"]
    /\ UNCHANGED runs

Save(h) ==
    runs' = [r \in DOMAIN runs \cup {serving[h].run} |->
                IF r = serving[h].run THEN serving[h].status ELSE runs[r]]

\* Mutant of CommitRun: the handler returns and keeps its transaction open
CommitRun_leaks(h) ==
    /\ serving[h].at = "commit"
    /\ serving' = [serving EXCEPT ![h] = Idle]
    /\ UNCHANGED <<ledgerVars, runs>>

\* Mutant of CommitRun: committed before the event is appended
CommitRun_early(h) ==
    /\ serving[h].at \in {"append", "commit"}
    /\ L!Commit(h)
    /\ Save(h)
    /\ serving' = [serving EXCEPT ![h] = Idle]

\* db.commit
CommitRun(h) ==
    /\ serving[h].at = "commit"
    /\ L!Commit(h)
    /\ Save(h)
    /\ serving' = [serving EXCEPT ![h] = Idle]

\* The handler raises, or its process dies
AbortRun(h) ==
    /\ serving[h] # Idle
    /\ L!Rollback(h)
    /\ serving' = [serving EXCEPT ![h] = Idle]
    /\ UNCHANGED runs

\* PostgreSQL breaks a deadlock.
RunVictim(h) == serving[h].at = "append" /\ L!Deadlocked(h) /\ AbortRun(h)

Handle(h) == InsertRun(h) \/ AppendEvent(h) \/ CommitRun(h)

-----------------------------------------------------------------------------

\* The types of the runs and of their handlers (runs.py:17-88).
TypeOK ==
    /\ L!TypeOK
    /\ DOMAIN runs \subseteq RunIds
    /\ \A r \in DOMAIN runs : runs[r] \in {"running", "completed"}
    /\ \A h \in Handlers : serving[h].at \in {"idle", "insert", "append", "commit"}

Of(r, type) == {e \in L!RangeOf(events) : e.data.run = r /\ e.data.type = type}

\* runs.py:23-37,73-87: the table of runs and the chain tell the same story,
\* whatever raises, dies or falls victim to a deadlock in between.  A run
\* exists if and only if the chain has its one run.started, ahead of anything
\* else about it, and is completed if and only if the chain says so.
RunsMatchTrail ==
    \A r \in RunIds :
        /\ Cardinality(Of(r, "run.started")) = IF r \in DOMAIN runs THEN 1 ELSE 0
        /\ Of(r, "run.completed") # {} <=> r \in DOMAIN runs /\ runs[r] = "completed"
        /\ \A e \in L!RangeOf(events) : e.data.run = r =>
              \A s \in Of(r, "run.started") : s = e \/ L!Before(s, e)
=============================================================================
