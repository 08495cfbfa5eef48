# ToolGuard: verification project

TLA+ models of the ToolGuard core (`src/packages`), the TLC runs that check
them on small instances, and TLAPS proofs of the results that matter most.
`PROJECT.json` lists components, runs, mutants, the source lines each
definition models, findings, hazards and theorems.

## The system

ToolGuard stands between agents ("harnesses") and the tools they call. A call
arrives through an adapter, goes through a **core session** that decides
whether and how often the tool runs, and leaves evidence behind.

| Component | State it keeps | Operations | Talks to |
|---|---|---|---|
| Core session (`core/src/session.ts`) | circuit map, failure counts, retry fingerprints, sequence number | `executeToolCall`, `failToolCall`, `mediateSuccessfulCall`, `preflight`, `exportReport`, `emit...` | registry (lookup, validation), downstream tool (execute with abort signal), recorder, bus |
| Evidence recorder (`evidence.ts`) | events and ledger in memory; `events.jsonl`, `ledger.jsonl`, coverage history, artifact files | `appendEvent`, `appendLedgerEntry`, `writeArtifact`, list operations | file system, run index |
| Event bus (`events.ts`) | listeners | `subscribe`, `publish` | server, tests, CLI forwarder |
| Run index (`run-index.ts`) | records per call in memory, `run-index.jsonl` shared by all sessions of a root | `ingestEvent`, `listRecords` | file system |
| Core server (`server.ts`) | session, open `/events` responses | HTTP API, event stream, ingestion, sidecar calls, replay requests, exports | session, recorder, UI, Python client, CLI |
| Bundle and report (`bundle.ts`, `report.ts`) | files of a bundle, manifest | export, validate, replay decision | recorder, session |
| Side effects (`side-effects.ts`, `observed-impact.ts`) | none | classify, fingerprint, blast radius, loop classification | session |
| Classifier, registry, redaction, policy simulator | registry map | pure decisions | session |
| CLI wrapper (`cli/src/run.ts`) | one child process group, timers, flags | spawn, terminate, classify, report, forward events | session, operating system, server |
| MCP adapter (`mcp-adapter/src/index.ts`) | routes, sticky preflight findings, registry entries | initialise, preflight, call, close | downstream MCP servers, session |
| Python adapters | none per call (a failure counter in `health.py`) | `call_tool`, framework wrappers | sidecar endpoint |
| UI (`ui/src`) | fetched views, streamed events | event stream consumer, screens | server |
| Views (topology, triage, diagnostics, context, visibility, metrics, doctor, routes) | none (coverage history for the doctor) | functions from events to reports | recorder |

What is hard here: everything is asynchronous. JavaScript runs one callback at
a time, but calls, preflights and HTTP requests interleave at every `await`;
deadlines, cancellations and late tool results race; evidence writes fail in
the middle of a decision; several sessions share files without locks; and
processes, their descendants, signals and timers run outside the event loop.

What makes each component correct:

* **session** - a call is answered once, in bounded time; its tool runs no more
  often than the call allows; circuit books are consistent across concurrent
  calls; events give a complete account; a success is backed by evidence.
* **recorder and stream** - what the log file has stands where the log has it,
  though whole files are rewritten without an order; a timeline misses nothing
  and shows what it gets in order, forwarded events included.
* **run index** - it says what the events say, never runs ahead of them, and
  keeps history, or it is known by whose write it does not.
* **process supervisor** - a truthful answer in the end, a dead process group,
  one termination per reason.
* **bundle** - files, hashes and replay decision describe one moment.
* **router, sidecar** - a call reaches the tool it names, and only a probe lifts
  a verdict about a server's health; a client that gives up can find out what
  became of its call.
* **views** - topology, triage, ledger and coverage matrix agree with each other
  and with what happened, across restarts; what verification, server and doctor
  say of a receipt is the same.

## Modules

| Module | Models | Role |
|---|---|---|
| `MediatedCall` | what a caller is promised | abstract specification |
| `FailureClassification` | columns of the recovery table the session acts on | constants |
| `CoreSession` | `session.ts` | specification, implements `MediatedCall` |
| `EvidenceLog` | `appendEvent`, bus, `GET /events`, the UI's stream consumer | specification |
| `RunIndex` | `run-index.ts` and the queue in `evidence.ts` | specification |
| `ProcessSupervisor` | `executeProcess` of the CLI against the session's deadline | specification |
| `McpRouter` | `mcp-adapter/src/index.ts` over any downstream servers | specification; takes the session at the word of `MediatedCall` (INSTANCE) |
| `EvidenceBundle` | both exports of `bundle.ts`, `report.ts`, against a live session and another export | specification |
| `CoreServer` | `server.ts` with the session behind it | specification, composes the view modules below |
| `CoreEvents` | events and ledger entries as the views read them | data of `CoreServer` |
| `SideEffects` | `side-effects.ts`, `observed-impact.ts` | operators |
| `TopologyView` | `topology.ts` | operators |
| `FailureViews` | `diagnostics.ts`, `triage.ts`, `metrics.ts`, health | operators |
| `CoverageView` | the coverage matrix of `/api/integrations` | operators |
| `Receipts` | receipts of verified integrations and who believes them, doctor, route inventory, host passports | operators |
| `ServerRequests` | methods, bodies, checks and statuses of every endpoint | operators |
| `ServerViews` | served files, traces, impact, export pages, validation dashboard | operators |
| `BundleViews` | contained paths, artifact copies, recipes, reproducibility | operators |
| `VisibilityInterop` | visibility of an event, OpenTelemetry export, JSONL import | operators |
| `CliCommand` | arguments, command classes, captured output, exit codes of the CLI | operators |
| `CoreSessionProofs`, `EvidenceLogProofs`, `RunIndexProofs`, `McpRouterProofs`, `EvidenceBundleProofs`, `CoreServerProofs` | | theorems about the specifications |
| `CliProofs` | | theorems about `ProcessSupervisor` and `CliCommand` |
| `ServerProofs` | | theorems about `ServerRequests`, `ServerViews`, `BundleViews`, `VisibilityInterop`, `Receipts` |
| `MC...` | | instances for TLC, and bounded checks of the operators as assumptions |

**Steps.** The code between two awaits is one action. Awaits on which no
decision depends (several events or artifacts in a row) are folded into the
step they lead to. Operators named *Slip* in a comment are deliberate mistakes
used by the mutants in `PROJECT.json`; no specification uses them.

**CoreSession.** `pc` is the point of `executeToolCall` a call waits at:
`attempt` (before the circuit is asked), `admitted` (the policy event is being
written), `executing` (inside `executeWithAbort`), then `succeeded`,
`crediting`, `closing`, `unsafe`, `failed`, `debiting`, `opening`, `denied`,
`rejected`, `deciding` (the retry loop) and `returning`. A circuit changes in
the map first; in `opening` and `closing` its event is being written, which is
when events of concurrent calls can cross. `open`, `openedAt` and `failures` are the
maps `#circuit` and `#failures`; `fingerprints` is `#retryFingerprints`;
`running` holds the attempts whose tool has not settled, also when nobody waits
for them any more. Every evidence write may fail: inside the `try` of
`#executeAttempt` the catch block takes over (`FailAttempt`), elsewhere the
call's promise rejects (`Reject`).

**MediatedCall.** An accepted call gets a budget of tool runs, spends at most
it, and ends with one outcome that never changes; success only for a call whose
tool ran. `CoreSession` defines `outcome`, `budget` and `runs` from its own
state and checks `Caller!Spec`. `McpRouter` uses the same module for the session
it calls, so the two compose.

**EvidenceLog.** Each emitter goes through `mkdir`, `open` (which truncates),
`write`, `publish`. The text made before the write is a sequence of pieces, two
for a line; `writeFile` gives it to the file system in calls of at most
`ChunkSize` (512 KiB in Node.js), each writes its part at its own place (`Put`),
and a failing one may have written some of it. So lines can be torn, and a
truncation between two calls of another writer leaves a hole. A posted emitter
forwards events of another session, with the numbers they have there. A client's
`/events` response first gets the log, then live events; `view` is the state
array of the UI, sorted by number and then by time.

**RunIndex.** Per session: the queue `#runIndexWrites`, the store's map, the
flag `#loaded`, a read in progress, and the temporary file. An event is its call
and its place among the call's events. `listRecords` shares flag and read with
the ingestion, and the server lists through the session that makes calls
(`server.ts:183`): while a list is reading the file, `#loaded` is set already, so
an ingestion goes on with the records it has. `blind` remembers the sessions that
did. A failing write, or a failing read an ingestion waits for, ends
the ingestions of that session; a crash loses memory, not the file.

**ProcessSupervisor.** The clock ticks in quarters of a second (the delay of the
SIGKILL timer). A program is a set of processes (leader, descendants with and
without the output pipes, and one that left the group but holds the pipes) and
the set of those that ignore SIGTERM. `kills[r]` is the SIGKILL timer of
termination `r`: a second termination overwrites the variable but not the timer.

**McpRouter.** `create` initialises and lists one server after the other; a
virtual name belongs to the last tool registered under it. A call looks up its
route, asks for the health verdict if the route has none (the question and the
storing of the answer are two steps, so verdicts of overlapping probes cross),
and hands over to the session under a name (`asked`), which the session looks up
in the registry all tools share. The stub of a blocked call has its place there
under a name of its own, unless a tool has it (`BlockedName`). `close` does not
wait for what is under way.

**EvidenceBundle.** An export is a sequence of steps (mark, report, copies,
views, manifest, ...) between which calls go on writing artifacts, ledger
entries and events, and another export uses the same directory; an operation may
fail. Recorded texts may have Markdown links to somewhere else: one in a failure
card makes the issue packet, and with it the export, fail
(`assertContainedIssuePacketLinks`); one in a text only the other views show makes
the bundle invalid (`validateContainedLinks`). Files are their contents, so a hash is right exactly if the file still is
what it was.

**CoreServer.** `RequestOf` gives each request's properties, among them what its
tool may do; `log` and `ledger` are the recorder's. A handler is one step up to
the wait for its tool and one after it. Events count for every view when they
are in the log; the coverage history gets them later (`unwritten`, `Write`), and
the handler goes on after that (`Settled`). The process may be ended at any time
(`Restart`): what is unwritten is lost then, and a rewriting of the history that
is under way leaves the file with its first lines only, or none. `content` has
two parts: what a look at a workspace covers, and what it passes over (ignored
directories, `run_*`, what cannot be listed, what comes after 500 entries); tools
write to both. Views are operators over `log` and `ledger`, read in every state
by the properties.

## Runs

| Run | Shows |
|---|---|
| `core_session` | budgets, circuit consistency, circuit events, account, evidence of success, refinement of `MediatedCall`; every action of the module |
| `core_session_live` | every call with a deadline, and every cancelled one, is answered |
| `evidence_log` | whatever rewrites overlap or fail halfway, the file has every piece in its place or a hole, and a small file is whole lines; log keeps every emitter's order; with forwarded events among its own, whose numbers and times are another session's, the timeline is complete and in order, and what was published is shown in the end |
| `evidence_log_overlap` | violation: an acknowledged event is missing from the file |
| `run_index` | two sessions that make calls under one root, one of them listed meanwhile: each one's list is right, the index is never ahead of the events and keeps history, finished calls are indexed, and one is taken back only by the other's write or a blind one |
| `process_supervisor` | truthful answers, one termination per reason, deadline as a safety net, answer and dead group in the end |
| `mcp_router` | what runs is the tool claimed, or, of a blocked call, one a server lists under the stub's name; only probes lift verdicts, closed servers rest |
| `evidence_bundle` | an undisturbed bundle is invalid for a link to somewhere else only, replay safety covers the copied ledger, copies match the events |
| `evidence_bundle_stale` | violation: replay instructions of an earlier export remain |
| `core_server` | graph without dangling edges, what a client was told is what the log says, a cleared effect was none as far as the look goes, severity never drops; where requests came one at a time, what is written to the coverage history keeps every claim over a restart, also with a process that may end before or during the write |
| `core_server_passports` | violation: a receipt of one host is claimed for another |
| `core_server_unwatched` | violation: counter-evidence against a mutation that took place |

The modules of operators are checked over bounded inputs by named assumptions
of the MC modules, evaluated with each run of them. `MCProcessSupervisor` holds
those about `CliCommand` and the requests: `OptionsAreRead`,
`LinesAreUnderstood`, `TestedCommands`. `MCEvidenceBundle`: `AttemptsAreTraces`,
`ImportsAreAccountedFor`, `ContainedPathsStayBelow`, `DifferencesAreFound`,
`RecipesFollowTheLedger`, `VisibilityIsOfEvents`. `MCCoreServer`:
`RawFilesAreMarked`, `TracesAreWhole`, `ImpactAddsUp`.

**Bounds and why they are enough.**

* `core_session`: two calls meet at one circuit; the threshold is two and
  retries are one, so a circuit opens within one call or between two, closes by
  a late success, and is probed. One call more adds no new pair of interleaving
  steps; the invariants are proved for any number. The clock needs two values,
  in and after the window; one failing write is one at every possible place.
  Requests are chosen one per path through the entry points.
* `evidence_log`: two streams with two events each make every overlap of two
  rewrites with every pair of text lengths; a write call takes two lines, so that
  texts take one call or two; the second event of a stream is one of a type the
  timeline does not listen for. One stream forwards: its numbers are those of the
  other and its times are earlier. One client, one break of its connection, one
  fault.
* `run_index`: two sessions with one call each, one of them listed, one old
  record; one call fails up to twice (`Failing`, `MaxFailures`), the other does
  not; one fault. Several calls of one session, more sessions and more faults are
  covered by the proofs.
* `process_supervisor`: the horizon is the moment the last SIGKILL timer can be
  due; the programs are all trees over the four kinds of process whose silent
  descendants heed SIGTERM. A timeout of two ticks and a grace of four keep the
  order of the real values (SIGKILL after 250 ms, the session's deadline
  1000 ms after the wrapper's).
* `mcp_router`: two servers, tools under one virtual name, within a server
  and across both, a tool under the name of that name's stub, and a name nobody
  has; two calls, one retry, two changes of health (down and up again, or both
  servers).
* `evidence_bundle`: two exports of either kind in one directory, two calls (one
  safe to replay, one not) and an ingested one, two attempts, texts with and
  without links, one fault; contents and exports are symmetric.
* `core_server`: any two of ten kinds of request (calls, the seed run, a replay,
  verifications, an import, a simulation) besides an ingested event, a write of
  tools to either part of a workspace, one tick, one failing check, one retry
  of a call, and one restart, which is one at every point of these. A
  rewriting of the history that is under way leaves nothing, the lines up to one
  in the middle, or all of them (`CutAt`).

`CHECK_DEADLOCK FALSE` is set because calls end, events run out, exports finish
and processes die: the systems really stop.

**Fairness.** The event loop runs the callbacks it holds and its timers fire:
weak fairness of the steps after an await and of the deadline. File operations,
answers of health probes and reconnects of an `EventSource` end. Callers, users,
programs, health of servers, failing writes and, in `CoreSession`, downstream
tools owe nothing. No property uses strong fairness.

## Findings

Four places where code and documentation or tests disagree, each shown by a
run that finds the violation; `PROJECT.json` quotes the lines.

* `evidence.ts:91`: whole files rewritten without an order, so an acknowledged
  event may be missing from a log that is called append-only.
* `bundle.ts:180`: replay instructions are written and never removed.
* `server.ts:3122`: a receipt is believed by its config hash, and six hosts
  have the same configuration text.
* `observed-impact.ts:158`: no observed change is recorded as counter-evidence
  also where nothing was looked at.

Met while modelling and part of the models, without a sentence of the
repository against them:

* A probe that fails after the open window does not open the circuit again; a
  call reported as a retry loop is retried all the same.
* Five event types the server emits have no listener in the timeline
  (`api.ts:191`).
* `RunIndexStore.#loaded` is set before the file is read: a list request racing
  a session's first event makes the session write an index without the old
  records, and the older records of the file replace newer ones in its memory;
  two sessions with calls under one root take back each other's records. The
  properties of `RunIndex` name these cases as their exceptions, and the run
  reaches them.
* `writeFile` tears: a failing or overlapped rewrite of an `events.jsonl` of more
  than 512 KiB can leave half a line or a hole; `coverage-history.jsonl` is
  truncated before it is rewritten, so a process that ends then loses the claims
  of all earlier runs.
* The look at a workspace passes over ignored directories and everything after
  500 entries: a call that wrote only there and timed out is cleared to no effect.
* A blocked call whose stub's name a downstream tool has runs that tool
  (`index.ts:335`).
* A Markdown link in a failing tool's message ends every export of the run
  halfway, or makes its bundle invalid.
* What is kept of a cut output is longer than the limit, by the mark and by what
  a cut character becomes (`run.ts:476`).
* A silent descendant that ignores SIGTERM survives the wrapper.
* The router declares every call idempotent, so a tool that is not may run
  twice. Commands of node, pnpm and npm count as repeatable too: one that timed
  out is run again.
* Exit codes 2, 124, 127 and 130 of the wrapper may also be the process's own;
  `lastProcessSummary` may be set after it is read (`run.ts:236`); events
  forwarded after an export are not waited for.
* A request that names only its host is completed with Cline's metadata; failed
  verification receipts refresh old evidence (`server.ts:3012`); refused sidecar
  requests count as producing evidence (`server.ts:910`).
* An unreadable body of `PUT /api/policies` is no draft; the GET requests for a
  report export, the topology and the narrative add events.
* Trace correlation takes the first id it finds, of whatever kind; the
  OpenTelemetry `parentSpanId` hashes a `parentId` that matches no event; an
  import calls an unusable traceparent "provided", and a nested value that is
  no text makes it fail after part of the file was recorded.
* Reproducibility compares a value with itself when a bundle is made, and a
  validation depends on the process that validates; the passport of an event
  overrides a receipt's; a ledger line that cannot be parsed leaves no routes.
* `App.tsx` fetches all views every five seconds without ordering the answers.

## Proofs

Checked by TLAPS for every value of the constants that the named assumptions
allow. `SessionAssumption`, `LogAssumption`, `IndexAssumption`,
`SupervisorAssumption`, `RouterAssumption`, `CoverageAssumption` and
`BundleAssumption` are ranges of configuration values (the last also says that
`Nobody` is no export). `EventAssumption` and `ServerAssumption` say what a request
is, and that identifiers are made once: calls, tasks and forwarded calls are
different, and a verification's probe has an id of its own (`createId`). The
assumptions say nothing about behaviour.

Every invariant and action property of a passing run is stated by a theorem.

* `CoreSessionProofs`: `TypeCorrect`, `BreakerConsistent`, `ExecutionsBounded`,
  `SessionImplementsCall`. `TypeOK` is inductive. The circuit invariant is too,
  given `TypeOK`: the count and the map change together or not at all
  (`BreakerStep`). `WithinBudget` is not inductive: it has to be said that a
  call has started at most one execution per attempt, and none of the present
  attempt before it gets past `admitted`; that a call after a first attempt is
  repeatable; that refused requests never get past `attempt`; and, for the
  refinement, that a call on its way to success has run its tool. This is
  `CallInv`, one conjunct per call, and each action touches one call
  (`ActorStep`, `CallStep`). The refinement then maps every action to a step of
  `MediatedCall` or to a stutter (`AbstractStep`), by cases on the actor.
  Also `AccountComplete`, `SuccessBacked`, `CircuitEventsTrue`: the account is
  only complete at the end; the invariant says for every phase which events are
  already published (`Books`), and exempts a call once one of its writes has
  failed. Evidence of a success is needed after failures too, so it stands
  beside the books (`Backed`). For the circuits, the calls that have changed the
  map and not yet published are counted on their side of the balance
  (`AnnouncingCounts`): opening or closing moves a call there, publishing moves it
  on (`CircuitStep`), and a write that fails leaves the premise of the property.
* `EvidenceLogProofs`: `PiecesInPlace`, `SmallFileWhole`, `LogKeepsOrder`. Every
  text an emitter writes was a snapshot of the log and so the text of a prefix of
  it for ever (`PrefixInv`, `TextOfPrefix`). A write call puts pieces where the
  log has them (`PutProperties`), so unordered rewrites in any number of calls,
  with failures halfway, lose events and leave holes, but displace nothing. While
  the text fits one call and nothing failed, a file is whole lines of one prefix
  or the longer of two (`SmallInv`). The order of the log needs that an emitter's event in flight is
  newer than what it has in the log (`EmittedInv`). `LogTypeCorrect`,
  `TimelineComplete`, `TimelineOrdered`: the timeline's invariant (`TimelineInv`)
  adds that whatever is published or waits for its write is in the log
  (`ClientInv`, `UnderWay`), as is what wire and view hold, and that no two
  events of this session have one number (`NumberInv`); forwarded ones may have
  any. A new connection gets the whole log, so it misses nothing; an event put
  before the first later one, by number and time, keeps the order.
  `LoneEmitterOnDisk`
  complements the finding of `evidence_log_overlap`: with one emitter and no
  fault the file is the log or the snapshot being written, so an acknowledged
  event is in it. It takes overlap or a failed write to lose one.
* `RunIndexProofs`: `IndexTypeCorrect`, `IndexSaysThePast`, `EarlierRunsSurvive`,
  `IndexSaysThePresent`, `FinishedTakenBackByOthers`, for any number of sessions
  that make calls, are listed, or both. Each excepts, in its property, the
  sessions in `blind`, which took events in while a list was reading the file.
  Updating a record event by event gives the record of the history
  (`UpdatedFollows`), if the history is lawful (`ToldInv`) and no event is skipped
  or taken twice. The latter is `MemoryInv`: for some `n`, memory has the first
  `n` events of a call and the queue exactly the others, so the next in the queue
  is number `n + 1` (`NextEvent`). It has to survive the reading of the file,
  which replaces records in memory: before its session has read the file nothing
  anywhere speaks of a call (`Unborn`), since records only move between file,
  memory, reads and temporary files (`HeldMoves`). That old records survive needs
  that every copy which may be written back has them (`OldInv`). Of a session
  alone with its calls, the disk is what memory is, or will be with the next
  rename (`SavedInv`).
* `CliProofs`: `SupervisorTypeCorrect`, `AnswerTruthful`,
  `BoundedTermination`, `DeadlineIsSafetyNet`. The strengthening relates the
  timer to flags and clock (`TimerInv`: an armed timer is not overdue, which
  needs the urgency of `Tick`), rounds to flags (`RoundsInv`), and pays for each
  SIGKILL in advance: signals sent plus timers armed never exceed two per round
  (`SignalInv`). `AnswerInv` ties answer and outcome to the flags.
* `McpRouterProofs`: `OnlyClaimedToolRuns`, `OnlyProbesLiftVerdicts`,
  `ClosedServersRest`, from one invariant (`RouterInvariant`): a call claims a
  tool only once it has been let in, has run nothing before and nothing but
  what it claims afterwards, unless it was blocked; registry and routes agree on
  every name a server lists (`TablesAgree`), the names of stubs included.
* `EvidenceBundleProofs`: `BundleTypeCorrect`, `QuietExportsAreValid`,
  `CopiesAreOfTheEvents`, `SafeBundlesAreCovered`. For an export nobody disturbs
  the invariant (`QuietInv`) says stage by stage what is in the bundle so far
  (`Progress`): the report's finding that every cited file is intact carries over
  to the copies only while the owner of the directory is the export itself, and
  the manifest's hashes are those of the files until someone else writes; what is
  left to make it invalid are its links, which the property says. Replay
  safety needs no quiet session, only exports one at a time (`OrderInv`): the
  ledger in the bundle is a past ledger, the decision is about a later and so
  longer one, and a manifest left behind by a failed export keeps the hash of a
  ledger its own decision covered.
* `CoreServerProofs`: `CoreTypesCorrect`, `ClientsAreTold`, `GraphsAreClosed`,
  `ClearedOnlyIfQuiet`, `SeverityIsKept`, `ClaimsSurviveRestart`,
  `WatchedCounterEvidence`. The invariant (`IInv`) has, beside types, three parts. `LogInv`:
  an event of this core's own kinds names one of its calls, sanitized output
  comes after the raw result it was made of (`Sound`), and, while requests come
  one at a time, an event the matrix counts is in the history or is still to be
  written there. `LedgerInv`: an entry's call and attempt are
  mentioned by an event, and the artifacts it links are shown by one.
  `CallInv`, per call: what the client was told is what the log concludes of the
  call, and what its failure card links to is shown. One lemma says what
  publishing a list of events does to them (`Published`), one that a step of one
  call leaves the others alone (`Bystander`). That severity never drops does not
  follow from the last failure, which may be rated lower than the one before; it
  needs that the log only grows within a session (`Grown`), that the type of a
  group never changes, and that the score of a second occurrence outweighs what a
  card can lose (`ScoreGrows`). `ClearedOnlyIfQuiet` and `WatchedCounterEvidence`
  follow an entry back to the two looks it was made of, and speak of what the look
  covers; the second is the complement of `core_server_unwatched`: where files are
  looked at, counter-evidence is true of every entry, so what the run finds comes
  from not looking.
* `ServerProofs`, `CliProofs`: theorems about operators, each relating pieces of
  code written apart: the three judgements of a receipt; the passports a receipt
  speaks for; what the replay lab offers against what the server does; parents in
  a trace; imports that add up; traces handed on;
  the check of a contained path against `path.resolve` (`ContainedStaysBelow`);
  the mark of untrusted files against the path that is really served
  (`RawFilesAlwaysMarked`); replay recipes against the ledger; a validation
  against the environment it was made in; visibility against events and
  receipts; destructive commands against policy and classification; the exit
  code; what is kept of a cut output; the words after `--`. What `Resolve`
  computes for lists of any length is proved by showing that the set of places up
  to which a property holds has no first gap (`EveryPlace`), which needs no
  induction theorem with an operator parameter.

Only model-checked: liveness (`AnswerBounded`, `HeardIsShown`,
`FinishedIsIndexed`, `Answered`, `GroupDies`),
which rests on fairness and `ENABLED`, outside the prover's reach. Of the bounded checks of operators,
`OptionsAreRead`, `LinesAreUnderstood`, `TestedCommands` (concrete command lines),
`ImpactAddsUp` (the sums of the impact page) and the parts of `TracesAreWhole` about which events a page shows have no theorem.

## Not modelled

* Redaction and the patterns that recognise secrets: what they do is in the
  contents of strings.
* Wording and layout: failure cards, narratives, Markdown reports, issue
  packets, labels of the topology, rendering in the UI.
* Story mode, demos, chaos fixtures, the observability configuration and the
  repository scripts: scripts without state of their own.
* The MCP SDK's framing and the probes' own input and output: external.
* Below the grain of the models: handlers of `CoreServer` are atomic up to the
  wait for their tool (how the events of two calls interleave is
  `CoreSession`'s subject); a view asked for while a handler's events are being
  written may in the code count only the first of them; when two handlers write
  the coverage history at a time, `history` in `CoreServer` is what it holds at
  most; `events.jsonl` and ledger file are `EvidenceLog`'s and `EvidenceBundle`'s;
  a file that cannot be read ends the look at a workspace with an exception, which
  `CoreServer` leaves out; configuration hashes are equal only for equal texts.

## Plan

What would come next, in order: the fetches of `App.tsx` against a server that
changes (stale answers overwriting newer ones); the coverage history as a file
two cores write at a time; and `TracesAreWhole` for logs of any length.
