# OpenSteps in TLA+

OpenSteps (`src/opensteps`) is a proxy between an MCP client and an MCP server.
It evaluates a policy on every `tools/call`, asks a human where the policy says
so, and appends a signed, hash-chained receipt of each call to a JSONL log that
anybody with the public key can verify. `legacy/` holds an earlier version: a
FastAPI gateway with an event ledger in PostgreSQL. This directory models both,
model-checks them with TLC and proves the central properties with TLAPS.

Line numbers are those of this commit; file names without a directory are under
`src/opensteps` or, for the legacy part, `legacy/backend/app`.

## 1. Inventory

| Component | State | Operations | Interacts with | Correct when |
|---|---|---|---|---|
| Receipt log `receipts.py` | the file; `_prev_hash` of each `ChainWriter` | open (reads the tail), `append` | proxy (one writer per process), verifier (reads the file) | every line is linked to the one before; the cached hash is the tail's; a crash damages the last line at most |
| MCP proxy `proxy.py` | `_pending`, two pump tasks, four streams, the child process | one handler per client line and per server line, `run`'s shutdown | client, server, log, prompt, policy | receipts precede answers, one per call, about the right call; only permitted calls reach the server; requests and sessions end |
| Approval `approval.py` | a prompt thread, the terminal's queue | `request_approval` | client pump (suspended meanwhile), a human | one yes approves one call; nothing else does; a prompt ends |
| Verifier `verify.py` | loop variables | `verify_receipt`, `verify_chain` | reads any file | accepts exactly the files whose lines, blank ones aside, are linked, and reports the first bad line |
| Policy `policy.py` | rules | `load`, `evaluate` | client pump | first match wins; well-typed policies and calls never raise |
| CLI and keys `cli.py`, `keys.py` | two key files | `keygen`, `wrap`, `verify` | all of the above, as processes that share a directory | a log that only `wrap` wrote, once it has receipts, is refused only for a torn tail or after a second `keygen` |
| Canonical JSON and hashing | - | serialise, hash | log, verifier | - |
| Legacy ledger `services/ledger.py` | `events`, tenant row lock | `append`, `verify` | every handler of the backend | the chain verifies whatever handlers interleave, and a deadlock on the row ends |
| Legacy gateway and approvals `services/gateway.py`, `services/approvals.py`, `api/approvals.py`, `connectors/` | `approvals`, open transactions | tool call, approve, reject, list | ledger, policy, connectors | connectors act on permitted calls only; the record of a call is whole; approvals that are pending, approved or rejected agree with the chain |
| Legacy checkpoints `services/checkpoints.py`, `core/merkle.py` | `checkpoints` | create | ledger | every event up to the last boundary is covered once; root and count fix the events |
| Legacy policies `services/policies.py`, `api/policies.py` | `policies` | evaluate, create, update | gateway | a call is decided by a document that was in force while it ran |
| Legacy runs `api/runs.py` | `runs` | create, complete | ledger | table and chain agree on every run |
| Legacy agents/users/tenants APIs, frontend; demo, tests | rows | CRUD | - | - |

What makes it hard: two tasks on one event loop that suspend in `readline`,
`drain` and the approval thread; a client that reuses ids and a server that
answers in any order, asks questions under its own ids, dies or hangs; sessions
that are killed inside an append and restart on the same log; answers typed
after their prompt is gone; and, in the legacy backend, transactions that read
before they lock, expire and decide concurrently, and act on the outside before
they commit. `PROJECT.json` lists each hazard at its line with the properties
that watch it.

## 2. Modules

| Module | Models | Used by |
|---|---|---|
| `ChainWriter` | the log and its writers | `CommandLine` (extended), `MCPProxy` (as `Chain`, one writer) |
| `CommandLine` | `keygen`, `wrap` and `verify` on one directory | - |
| `Approval` | the prompt thread and the terminal | `MCPProxy` (as `Prompt`) |
| `AuditedCalls` | abstract: what `wrap` promises about calls | `MCPProxy` (as `Audit`) |
| `MCPProxy` | the proxy with client, server, log and prompt | - |
| `VerifyChain` | the verifier's loop over any file | - |
| `Policy` | `Policy.load` and `evaluate` | - |
| `Ledger` | the legacy event chain of one tenant and its row lock | `Gateway`, `Runs` (as `L`) |
| `PolicyEngine` | `evaluate_document` and what the policies API accepts | `Gateway` (extended) |
| `Gateway` | tool calls, decisions, expiries, policy changes as concurrent handlers | - |
| `Runs` | creating and completing runs as concurrent handlers | `Checkpoints` (as `R`) |
| `Checkpoints` | checkpoints beside the handlers of `Runs` | - |
| `Merkle` | the Merkle root, and the leaves read back from one | `Checkpoints` (as `M`) |
| `MC...` | values of the constants for TLC | the runs |
| `..._proofs` | theorems | - |

Definitions named `X_something` before a definition `X`, each with a comment
that begins "Mutant of", are deliberately wrong variants of `X`. No
specification uses them. Each is the evidence that some property can fail: put
in the place of `X` it makes TLC report that property violated.

### ChainWriter

The file is a sequence `lines` of receipts and `Garbage` (bytes that are not
JSON) with a flag `ended`: whether it ends in a newline. A receipt is its uuid,
its `prev_hash` and a `body`. SHA-256 is ideal: the hash of a receipt is its
uuid, since two receipts never have the same one. `Open` is `__init__` with
`_tail_hash` (a `Garbage` tail makes `json.loads` raise: no `Open`); `append`
writes and advances the cache; `append_raises` is an exception of write, flush
or fsync after which the process lives; `append_dies` is the death of the
process inside `append`. How far the bytes got is `nothing`, `prefix`,
`no_newline` or `line`. `Raised` and `Torn` say which of these a configuration
allows; the theorems say under which faults a property holds (`CleanFaults`).

### Approval

`request_approval` starts the thread; with no terminal it has its result at
once. `ReadAnswer` is `select` and `readline`, `PromptTimeout` the timeout,
`Take` the caller's resumption. The terminal is in canonical mode: its queue
`tty` outlives a prompt. `Type` is the human, who answers a prompt they saw,
perhaps after it timed out (`TypesLate`).

### CommandLine

`ChainWriter` with the commands around it. A key is the number of the `keygen`
that drew it, and the body of a receipt is the key that signed it. `keygen`
opens, truncates and writes its two files one file operation at a time
(`generate_keypair`, `WritePrivate`, `OpenPublic`, `WritePublic`) and may die
between any two (`KeygenDies`); loading a file that holds no key raises, so
`_cmd_wrap` and `_cmd_verify` have `load` in their guard. `_cmd_wrap` keeps the
key and the tail it read when it started; what it does between its appends is
`MCPProxy`. `verify` goes line by line (`VerifyLine`, `VerifyEnds`) over a file
that a `wrap` may be appending to; a receipt is smaller than the buffer it is
written through, so only a crash leaves part of one. `VerifySingle` is
`--single`.

### MCPProxy

Everything runs on one event loop, so the code between two awaits is one
action. The pumps are suspended where `clientPump` and `serverPump` say: in
`readline` ("read"), in a `drain`, in the approval thread. The client pump's
actions are `PassThrough`, `AllowCall`, `DenyCall`, `AskApproval`,
`ApprovalReturns`, `ApprovalRaises` (the thread raised over a line it cannot
decode or a user it cannot name), `DrainServer`, `ClientPumpDrained`, `ClientEOF`
and `ClientLineFails` (an exception before anything was done); the server pump's
are `RelayLine`, `RecordAnswer`, `ServerPumpDrained`, `ServerEOF` and
`ServerLineFails`. `Start`, `CloseStdin`, `Terminate` and `Exit` are `run`.
`chain.append` holds the chain lock without awaiting anything, so the lock is
never contended and is not modelled. `Crash` kills the process, possibly inside
one of the appends it could be in (`NextBodies`).

The environment is external: a client sends each request once, under an id that
none of its outstanding requests has (JSON-RPC requires no more), and may close
at any time. The server reads, answers each request once in any order, sends
requests of its own under any ids, and may exit (`ServerDies`). Every line that
is not a `tools/call` is a member of `Others`, and so is a `tools/call` without an id or
in a batch, as `_handle_client_line` passes these on like any other. A server line carries its `fate`:
`plain`, `unhashable` (JCS raises) or `oversize` (readline raises). When a pipe
is closed or a client gone, a drain may or may not raise; both are allowed.

`AuditedCalls` says what remains when streams, pumps, sessions and hashes are
abstracted away: a call is submitted, maybe executed, filed once as answered or
blocked, and only then told to the client. It does not promise that everything
executed is filed. `Audit!Spec` under the refinement mapping at the end of
`MCPProxy` is the property `KeepsPromises`; `Chain!Spec` is `LogIsChain`.

### VerifyChain, Policy

`VerifyChain` reads any file: `Signed` receipts of any `Logs` that were written
with the key, `Altered` ones (any change, as signatures are unforgeable),
`Garbage`, `Uncanonical` (verification raises) and blank lines.

`Policy` evaluates one call against one policy, a rule a step, as the loop does.
A value is tagged with its JSON type, because operators tell types apart (a
Boolean is no number as an argument of `max`, `True == 1` for `equals`) and
because the types that nothing checks decide what raises: `fnmatchcase` takes
strings only, `in` finds parts of a string and keys of a mapping, an argument is
compared with whatever the bound is. `load` looks at which keys a rule has, so
the policies of the run have globs, params and operands of other types too, and
its calls a tool that is no string or arguments that are no object. `Outcome` is
what a rule makes of a call, up to the first glob or condition that settles it:
it holds, fails or raises.

### Ledger, PolicyEngine, Gateway, Runs, Checkpoints, Merkle

PostgreSQL at READ COMMITTED: what a session flushed is `staged` until it
commits. `append` waits for the tenant's row lock, which its transaction keeps
to the end, reads the latest event by timestamp and writes one that names its
hash. An INSERT of a row that refers to the tenant (`insert`) takes a weaker lock of
the same row, which any number of transactions may hold (`sharers`) and which
keeps the stronger one out. Two transactions that share the row and both want
to append wait for each other (`Deadlocked`); PostgreSQL aborts one of them.
An event's hash is its id. `Jumps` is by how much the wall clock may differ
between two events.

In `Gateway` a handler is a sequence of database round trips (`job[w].at`).
`Evaluate` reads the tenant's newest policy and takes `PolicyEngine`'s outcome,
which may be an exception (`EvaluateRaises`): rules are validated only when they
are reached. `create_policy` and `update_policy` accept a document that does not
raise for one made-up call, and a later call may still make it raise. A list of
globs is what its globs match in front of the first that is not one, and whether
there is such a one (`raises`), as `any` stops at the first match. A call may come
with the id of an approval of its own or of another call, or of none (`Unknown`),
for which the foreign key of the refusal's event fails and the transaction is
rolled back (`RefuseUnknown`). `Execute` is the connector, which raises for a call it does not support and otherwise may
raise before or after it acted. An approval has the id of its
`approval.required` event; the comparison of `expires_at` with the clock is the
set `overdue`. One tenant, one run, known agents and users: requests that fail
those checks return before the database is written.

In `Runs`, `create_run` inserts its row before it appends and `complete_run`
reads the status without a lock. `Checkpoints` takes the requests of both and
those of `create`, whose two reads are two steps that precede the lock. `Merkle`
computes the root level by level, with the hash of two digests as the pair of
them, and reads the leaves back from a root (`LeavesOf`); `Height` is how often
the length of a level is halved before one digest is left.

## 3. Runs

Every bound is a CONSTANT of the configuration. States are distinct states.

| Run | States | Shows |
|---|---|---|
| `chain_crash` | 55k | keygens that die, one wrap after another with faults before and inside a write, a verifier beside them: `ChainLinkedButTail`, `CacheIsTail`, `RefusedForCause`, `AppendOnly` |
| `proxy_calls` | 2.6M | two calls to approve and one allowed, beside another request; ids shared, late human answers, a server request under an id in use: `ReceiptBeforeAnswer`, `OneReceiptPerCall`, `ReceiptsFaithful`, `InFlightIsPending`, `PendingNotOverwritten`, `OnlyPermittedReachServer` |
| `proxy_live` | 142k | high-water mark 0, so that every write suspends; handlers and appends that raise, a server that dies, no terminal: `RequestsEnd`, `SessionEnds`, and still `ReceiptBeforeAnswer` |
| `proxy_restarts` | 56k | two sessions, kills inside appends: refinement of `ChainWriter` (`LogIsChain`) and of `AuditedCalls` (`KeepsPromises`) |
| `verify` | 18k | every file of up to four lines over two logs: `AcceptedIsPrefix`, `ValidIffLinked`, `FailsAtFirstBadLine` |
| `policy` | 650k | every policy of up to two rules of a set that uses every operator and operands, globs and params of types that nothing refuses: `FirstMatchWins`, `WellTypedNeverRaises` |
| `gateway` | 278k | two workers, four requests, failures anywhere, policies created and rewritten meanwhile: `ExecutedOnlyIfPermitted`, `TrailWhole`, `DecidedStatusMatchesTrail`, `LedgerVerifies`, `PolicyInForce`, `NoDeadlock`, `EveryHandlerReturns` |
| `checkpoints` | 105k | one checkpoint at a time, two handlers of runs, two runs, six requests, deadlocks: `CoveredOnce`, `RootsMatchChain`, `RunsMatchTrail`, `WaitsAreBroken`, `EveryRequestReturns` |

Why the bounds are enough: the hazards of the log need a tail, a writer that
goes and one that comes: four appends, and a second keygen beside them. Those of
the proxy need two calls in flight that share an id or race, and a third,
blocked one beside them; two sessions show a restart. A stream's mark of 1 (or
0) makes drain suspend with one line buffered. Files of four lines can swap,
repeat, splice and cut two logs of three and two receipts. Two rules and two
conditions show fall-through. Two workers show each race of the backend, and
four jobs let one request, two decisions and a retry meet. Two handlers and a
checkpointer can close a cycle on the tenant row; six requests complete a run
that two checkpoints cover.

`CHECK_DEADLOCK FALSE` everywhere: a log that is not appended to, a session that
has exited, a file that has been verified, a backend without requests stop
legitimately. That requests, sessions and handlers do not stop too early is what
the liveness properties say; the loops of `verify_chain` and `evaluate` run over
a finite list and have none.

One disagreement shows in a run that passes: `docs/SCHEMA.md:79-82` refuses a
file with a line that is not a JSON object, and a blank line is not one, while
`verify.py:71` skips blank lines. `ValidIffLinked` in `verify` states what the
code does, over files with blank lines anywhere.

The runs that expect a violation check what the repository says of the program
and the code does not do:

| Run | Statement | What TLC shows |
|---|---|---|
| `chain_two_writers` | every chain produced is accepted (`docs/SCHEMA.md:4-5`) | two `wrap` processes on one log fork it |
| `proxy_late` | only an explicit yes approves (`approval.py:4-6`) | a late yes approves the next call |
| `proxy_unrecorded` | every call becomes a receipt (`README.md:3-5`) | a session ends while a call is with the server |
| `gateway_decide` | an approval is decided once (`api/approvals.py:53-54`) | two concurrent decisions succeed |

Known edges of what the passing runs assume or do not ask for:

- `Raised` and `Torn` in `chain_crash` and `proxy_restarts`: no append raises
  after it wrote something, and none dies exactly between a receipt and its
  newline. After the first the cached hash is stale while the process lives on;
  after the second the next receipt shares a line (`receipts.py:139-143`). That
  nothing but this line is lost is `DamageStaysLocal`, a theorem.
- `Jumps = {1}` in `gateway` and `checkpoints`: the wall clock runs forwards.
  Event order is timestamp order (`services/ledger.py:39,62`), so a clock that
  is set back breaks verification, and so may two events of one microsecond,
  as ties are broken by random ids.
- `RefusedForCause` is about logs with receipts: of an empty one `verify` says
  that it has none (`verify.py:109-112`), which `docs/SCHEMA.md:91` makes invalid.
- `list_approvals` writes `expired` over a status that it read before
  (`api/approvals.py:30-34`), perhaps over a decision committed since: then the
  row says expired and the chain granted. `DecidedStatusMatchesTrail` asks of an
  expired approval only that its time is up.
- `ExecutedOnlyIfPermitted` asks for a grant of the call on the chain; that the
  approval had not expired when it was checked is a guard of `Request` that no
  property repeats, as it may expire before the connector acts.
- `OneReceiptPerCall` is checked within a session, and proved over any number of
  them (`ReceiptedOnce`). `ClientSend` never reuses the id of an outstanding
  request, which would overwrite its entry (`proxy.py:130`).
- `complete_run` checks the status without a lock (`api/runs.py:73-76`): two at
  once append `run.completed` twice. `RunsMatchTrail` asks for one of
  `run.started` and for at least one of `run.completed`.
- An approval is not consumed by the call it permits
  (`services/approvals.py:20`): `ExecutedOnlyIfPermitted` lets a retry execute
  again under the same approval.
- `PolicyInForce` speaks of policies being inserted while a call runs; an update
  is read at one moment by the call and audited at another.
- One checkpointer in `checkpoints`: nothing is locked before
  `services/checkpoints.py:34` reads, and two at once cover the same events.
- `TypesLate = TRUE` in `proxy_calls`: with it only the count of
  `OnlyPermittedReachServer` holds, as `proxy_late` shows.
- No property orders receipts: they stand in the order of answers and block
  notices, not of calls. None asks that a log be complete at its end: a verifier
  cannot see that the last receipts are gone.

### Fairness

`MCPProxy!Fairness`: the event loop runs each pump and `run` whenever they can
go on, and `select` has a timeout (all of this is the code's and asyncio's
scheduling). Of the environment only what the transport needs: a live server
reads its stdin, answers what it works on and dies of SIGTERM; a client that has
not closed reads. So the circle of client, proxy and server that all wait in a
write (`proxy.py:250,255`) cannot close in the runs, and nothing is shown about
peers that stop reading. Nothing makes a client send or close, a human answer, or a
server exit on its own. `run` waits without a timeout after SIGTERM
(`proxy.py:83`): against a server that ignores SIGTERM `SessionEnds` fails, and
the fairness assumes there is none. `Gateway`: strong fairness per worker,
because the row lock comes free again and again and PostgreSQL grants it in
order of arrival. `Checkpoints`: the same per handler, and PostgreSQL's deadlock
detection is weakly fair (`Victim`): without it `EveryRequestReturns` fails, as
two handlers that inserted wait for each other.

## 4. Proofs

| Theorem | States | Argument |
|---|---|---|
| `ChainTyped`, `ProxyTyped`, `VerifierTyped`, `PolicyTyped`, `LedgerTyped`, `GatewayTyped`, `CheckpointsKeepTypes` | `TypeOK` | one lemma per action |
| `ChainSurvivesCrashes`, `CacheNeverStale`, `LogNeverRewritten` | `ChainLinkedButTail`, `CacheIsTail`, `AppendOnly` | Log |
| `CommandsImplementChainWriter` | `CommandSpec => Spec` | Commands |
| `RefusedOnlyForCause` | `RefusedForCause` | Commands |
| `ProxyImplementsChainWriter`, `ProxyLogSurvives` | `LogIsChain`, `LogLinkedButTail` | Proxy |
| `InFlightRemembered`, `EntriesNotOverwritten` | `InFlightIsPending`, `PendingNotOverwritten` | Calls |
| `ReceiptedOnce`, `ReceiptsTellTruth` | `OneReceiptPerCall`, `ReceiptsFaithful` | Receipts |
| `ReceiptPrecedesAnswer` | `ReceiptBeforeAnswer` | Receipts |
| `OnlyPermittedReach` | `OnlyPermittedReachServer` | Permits |
| `PromisesKept` | `KeepsPromises` | Promises |
| `VerifierSound` | `AcceptedIsPrefix` | Verifier |
| `VerdictExact`, `FailureLocated` | `ValidIffLinked`, `FailsAtFirstBadLine` | Verifier |
| `EvaluateIsFirstMatch`, `WellTypedPoliciesNeverRaise` | `FirstMatchWins`, `WellTypedNeverRaises` | Policy |
| `LedgerVerified`, `ChainVerifies` | `verify` of `Ledger`, `LedgerVerifies` | Ledger |
| `UsesTheLedger`, `CheckpointsUseTheLedger` | the handlers implement `Ledger` | Gateway, Checkpoints |
| `TrailIsWhole`, `OnlyPermittedExecuted`, `PolicyStaysInForce`, `DecidedStatusIsLastWord` | `TrailWhole`, `ExecutedOnlyIfPermitted`, `PolicyInForce`, `DecidedStatusMatchesTrail` | Gateway |
| `FinishedNeverRewritten`, `DamageStaysLocal`, `ProxyDamageStaysLocal` | lines that end in a newline stay; legible neighbours stay linked, whatever is damaged | Damage |
| `HandlersNeverDeadlock`, `NobodyWaitsInVain` | `NoDeadlock`, `WaitsAreBroken` | Waiting |
| `RunsTellTheTrail`, `EventsCoveredOnce` | `RunsMatchTrail`, `CoveredOnce` | Checkpoints |
| `RootsOfTheChain` | root and count are of the events between the boundaries | Checkpoints |
| `RootFixesLeaves` | the root of n >= 1 digests and n give back the digests | Roots |
| `RootsFixTheChain` | `RootsMatchChain` | Roots |

They hold for every value of the constants that satisfies the ASSUMEs of the
modules: any number of writers, calls, ids, sessions, logs, files, rules,
workers, documents, handlers and checkpointers. A theorem that needs more says
so with ASSUME:

| Assumption | Means | Needed by |
|---|---|---|
| `CleanFaults` | one writer at a time; an append that raises wrote nothing, none dies between a receipt and its newline | the theorems on the log, `RefusedOnlyForCause`, `ProxyLogSurvives` |
| `NoLateRaise` | one writer at a time, none of whose appends raises after it wrote its whole line; deaths anywhere | `DamageStaysLocal` |
| `"line" \notin Raised` | the second half of `NoLateRaise`; the proxy is one writer | `ProxyDamageStaysLocal` |
| `WholeLines` | no append dies between a receipt and its newline; one that raises wrote nothing or all of its line | `ReceiptPrecedesAnswer`, `PromisesKept` |
| `ClockForwards` | the clock runs forwards from one event to the next | `LedgerVerified`, `ChainVerifies`, `DecidedStatusIsLastWord` |
| `OneCheckpointer` | checkpoints are created one at a time | `EventsCoveredOnce` |

Where one is missing the theorem fails, not the proof: section 3 says why.
`Checkpoints` fixes `Jumps` to `{1}` itself, as `created_at` is the clock too.

*Log.* `ChainLinkedButTail` is not inductive: that an append links depends on
the cache being the tail, and that only on nobody else writing. The invariant is
the conjunction of `TypeOK`, `ChainLinkedButTail`, `CacheIsTail` and `OneOpen`.
Without `CleanFaults` the invariant fails, and `chain_two_writers` shows that
one writer at a time is needed too. `AppendOnly` follows from `CacheIsTail`: a
writer that is open finds a file that ends in a newline, so its bytes go to a
line of their own.

*Damage.* Without `CleanFaults` lines in the middle of the file may be damaged:
one that lacks its newline is completed by the next append, in a later session
perhaps, and becomes garbage. What remains is that a receipt which stands behind
another names its hash (`NeighboursLinked`). The invariant (`DamageInv`) adds what
the cache is then: where the file ends in a newline it is the hash of the last
line, or that line is garbage, and where it does not, the next append damages the
line it completes (`CacheFits`). An append that raises after its newline breaks
this, as the next receipt then names the same predecessor, hence `NoLateRaise`.
That a line with a newline is never changed needs none of it.

*Commands.* The implementation needs the keys only: a `wrap` that has the log
open signs with a key that was drawn, so its receipt is one of `ChainWriter`'s
(`KeysInv`). `RefusedForCause` then rests on three parts (`CommandInv`): the
log's invariant; that every receipt was signed with a drawn key, so that one key
in all means no bad signature; and that what the verifier has read is the start
of the log and `prev_hash` the hash of its last line (`AtLine`). The last stays
true under a `wrap` that appends beside it because the log only grows, and a
verdict stays right because nothing is appended to a torn tail.

*Proxy.* That the proxy implements `ChainWriter` needs no invariant about calls:
each action either leaves the log's four variables alone or takes one step of
`Chain`, with a body of `Bodies`. The typing invariant supplies the last part
(what is in `pending` is a `PendingCall`, what comes from a prompt an
`ApprovalResult`). With it the log's theorem carries over to the proxy.

*Calls.* A request on its way is in one of six places: not yet read by the
proxy (`Unread`), in the hands of the client pump (`InHand`), on the server's
stdin (`Piped`), with the server (`executing`), answered (`Replied`), and on the
client's stdout (`Told`). The invariant `FlowInv` says that the places are disjoint
(`Apart`), that ids tell apart what is outstanding (`IdsApart`), and that every
entry of `_pending` is that of the outstanding call of its id, and every call in
flight has one (`Remembered`). `InFlightIsPending` alone is not inductive: an
answer removes the entry of its id, which is its own only because no other
outstanding call has the id. The proof goes through the places: `Effects` shows
that each of the actions is one of a dozen moves between them (`Move`), and
`MoveFlow` that a move keeps the invariant, so that streams and pumps are looked
at once and ids once.

*Receipts.* A receipt is filed only when the call is upstream of the log no more
(`Filing`), so none is filed again, and `Remembered` makes the entry that
`RecordAnswer` takes the one of the call answered (`FilesInv`).
`ReceiptBeforeAnswer` needs that what an append wrote is a legible line of its
own and stays one: the invariant adds that only the last line of a log whose
writer died may be garbage (`WholeLog`).

*Permits.* No denied call gets past the proxy (`Gate`). For calls a human has
to approve, the invariant counts: those beyond the prompt are at most the yeses
typed, less the ones that are still in the terminal or in a result that the pump
has not taken (`PermitInv`). It says one yes per call and not which, as a late
answer is taken for the next prompt (`proxy_late`).

*Promises.* Every move is one step of `AuditedCalls` under the refinement
mapping or changes nothing of it, a crash inside an append included.

*Verifier.* For `AcceptedIsPrefix` the invariant relates `accepted` to one log
and to `prev_hash`: the receipts accepted are the start of some log and
`prev_hash` is the hash of its last one. The next receipt accepted names that
hash; hashes are injective and a receipt stands in one place of one log, so it
is the next of the same log. The verdict is compared with what the file says of
each line by itself (`ReadInv`): as long as there is none, every line read that
is not blank is good and names the hash of the one before it, and `index` is
their number.

*Policy.* The invariant says that no rule before `rule` matches (`Position`).
`Outcome` follows the globs and conditions up to the first that does not hold,
and a rule matches as a whole exactly if its outcome is `holds` (`HoldsIffMatches`),
so that the rule at which the loop stops is the least that matches. An outcome of
`raises` is taken back to the glob or the condition that raised, and that to the
type of a glob, a param, an operand or the call (`RaisesIllTyped`).

*Ledger.* `OrderInv` holds whatever the clock does: a session that has appended
holds the row lock, so only one has anything staged, and ids stand in drawing
order on the chain that any session would commit. With a clock that runs
forwards timestamps stand in the same order, so the event that `append` reads as
the latest is the last one (`ChainInv`).

*Gateway.* Three parts serve every theorem (`Typed`, `Phased`, `Anchored`): what
a handler knows at each round trip, that the events of a transaction stand one
behind the other on the chain because of the row lock, and that every approval
has its event. The last is there because an approval takes the id of an event:
without it a new one could take the place of an old. On top of them there is one
invariant per theorem. `Trail` takes a chain with its staged end and asks for the
consequence of every event but the last, and of the last too once committed.
`Permits` keeps the grant on the chain that an approval or an execution
stands for. For `PolicyInForce` the transaction that is about to commit a policy
shares the tenant row (`Shares`), which a call that has written excludes. `Words`
says of every pending, approved or rejected approval what the last decision about
it is; two decisions may race for it, but the later event is the later commit.

*Checkpoints.* Similar, with `Told` for runs: creating a run is the business of
one handler, and the run is in the table only with its event. `Rooted` says that
root and count are those of the hashes of the chain between the boundaries, of a
checkpoint in the table as of one under way: the chain only grows, so they stay
so. `Covered` says that checkpoints stand one behind the other and that the one
under way starts where the last ended; this takes one checkpointer, as nothing
is locked between the read of the last checkpoint and the commit.

*Waiting.* Whoever holds the tenant row, or shares it, stands at a certain round
trip of its request (`Holding`). In `Gateway` those that share it are policies
about to commit and those that hold it have appended, and neither waits: so
nobody waits for one who waits. Handlers of runs and checkpoints share it and
then append, and there the invariant says that who waits for one that waits has
a deadlock before it, which `Victim` breaks. Both say too that nobody waits for a
transaction that was left open. They are the safety half of `EveryHandlerReturns`
and `EveryRequestReturns`.

*Roots.* By the theorem on handlers a root is computed of the events between its
boundaries; what is left is that a tree has one sequence of leaves. The levels
are given by recursive functions, which have to be shown to exist, and induction
over a level or a place in one goes by the least element of a set of naturals, on
which the property fails, rather than by a theorem with an operator for
parameter. The widths of the levels halve and reach 1, so `Height` is defined; a
level read back from the one above it starts with the original and repeats its
last digest at most; and so down to the leaves, where `n` cuts the padding off.

Only model-checked: the liveness properties `RequestsEnd`, `SessionEnds`,
`EveryHandlerReturns` and `EveryRequestReturns`, as liveness under fairness is out
of the prover's reach. Every other property of a passing run is proved. What is
proved of `ChainWriter` holds of `CommandLine` by `CommandsImplementChainWriter`.

## 5. Plan

Order of work, most important behaviour first. Done: 1. `ChainWriter` and its
proofs; 2. `Approval`; 3. `MCPProxy` composed of both, with `AuditedCalls`;
4. `VerifyChain`; 5. `Policy`; 6. `Ledger`, `Gateway`, `Checkpoints`, `Merkle`;
7. `CommandLine` and its proofs, `PolicyEngine`, `Runs`; 8. the proofs about calls
and receipts, that `MCPProxy` implements `AuditedCalls`, and those of `VerifyChain`
and `Policy`; 9. the proofs of the legacy backend; 10. the proofs about Merkle
roots, about who waits for whom on the tenant row, and about the log under the
faults that `CleanFaults` leaves out.

Left open:

1. Model: let `Policy` supply `Decision` of a proxy run, so that one
   configuration follows a call from rule to receipt; feed the logs a proxy run
   leaves behind to the verifier.
2. Prove: that a log of the proxy is one the verifier accepts up to its tail, as
   one theorem over `MCPProxy` and `VerifyChain` (`ProxyLogSurvives` and
   `VerdictExact` are its two halves).

## 6. Not modelled

PEM, Ed25519, JCS and SHA-256 themselves (ideal), base64 and field checks of one
receipt (one kind of bad line), message texts and logging, command-line parsing,
JSON-RPC batches (passed through like any other line), what a connector does
outside, the APIs of tenants, users and agents (inserts of one row that nothing
changes later: the models start with them in place), schemas, migrations,
database wiring, configuration, frontend, examples, demo. `PROJECT.json` gives
the reason for each.
