# A TLA+ model of kin-lsp

`kin-lsp` asks language servers what a source file means and turns their answers
into relations of a code graph.  What it answers is only worth something if three
things hold that no single test shows: frames written to a server's stdin are
never torn, reordered or followed by another after a failure, whoever is
cancelled; what is silence of a server is never taken for an answer, nor a
failure for silence; and a server, its documents and its process are given back
on every way out.  This directory models the parts of the crate these depend on,
checks them with TLC on small instances, and proves the most important ones with
TLAPS for all instances.

Line numbers refer to the files of `src/src/`.

## 1. The system

| Part | Code | State | Operations | Talks to |
|---|---|---|---|---|
| JSON-RPC client | `client.rs` | waiter map, id counter, bounded channel (64), one write permit, failure flag | `request`, `notify`, `close_documents`, the writer task, the reader task, `fail_writer` | the server's pipes; every caller |
| Server lifecycle | `lifecycle.rs` | child process, capabilities, stderr tail, `drained` notification | `start`, `shutdown`, `probe_readiness_with`, the stderr drain | the client, the process, the registry |
| Documents of a pass | `enrichment.rs` 540-690 | the set `open` | `ensure_open`, `close_all`, `Drop` | the client |
| Identifier scan | `file_enrichment.rs` 35-81, `enrichment.rs` 395-436 | none | `identifier_positions_in_line`, `member_expression_at` | used by the passes |
| Spatial index | `enrichment.rs` 43-160 | entities by file | `new`, `find_at`, `entities_in_file` | used by the passes |
| Passes about an entity | `enrichment.rs` 203-393, 980-1046 | edges | calls, overrides, references | client, index |
| Passes about identifiers | `enrichment.rs` 438-978, `file_enrichment.rs` 85-345 | edges, keys already emitted | `enrich_entity_uses_type`, `enrich_file_definitions`, the equivalence join `member_export_bindings` | client, index, documents, scan |
| Enrichment proof | `proof.rs` | entries by language, gaps | `record_*`, `file_*`, `finish`, `verify_citable` | fed by a driver outside the crate |
| Provider registry | `registry.rs` 100-700 | candidates, required, disabled | `with_defaults`, `apply_config`, `resolve_with`, `known_binaries` | PATH; the probe |
| Provenance | `registry.rs` 702-783 | none | `to_relation_evidence`, `from_relation_evidence`, `stamp_lsp_provenance` | evidence of relations |
| Server discovery | `discovery.rs` | a static table | `discover_servers`, `detect_version` | PATH; a run of `--version` |
| Cache, adapters, protocol, errors | the rest | a map; static commands; types | | |

**Interaction.**  A driver outside this crate resolves a server (registry),
starts it (lifecycle), runs passes over files one after the other, and records
the outcome (proof).  A pass holds no lock: it awaits the client.  All frames go
through one channel to one writer task.  `request` and `notify` first take the
only permit, which travels with the message and is released by the writer;
`close_documents` takes none, because it is called from `Drop`.  One reader task
hands responses to waiters by id.  Two tasks beside the client, the drain of
stderr and the drain of waiters that `fail_writer` spawns, race with everything.

**What is hard.**  Any future can be dropped at any `await` (a timeout drops
one, too).  The failure flag is read at one point and used at a later one.  The
waiter map is drained by three tasks.  Closes overtake the queue for the permit.
Time limits are nested.  Configs are layered, and fail half way.  Discovery and
the registry describe the same servers in two tables.  Columns are counted in
characters here and in units of UTF-16 by the server.

**What makes each part correct.**

- Client: one normal frame at a time; the slot comes back; a waiter exists
  whenever an answer could come, and is left behind by a dropped request only; an
  acknowledgment is a barrier; nothing is begun after a failure; every call returns.
- Lifecycle: the error carries the server's last words; no process outlives its
  handle; the probe ends; the server is not blocked on stderr.
- Documents: a query finds its document open; nothing is opened twice; nothing
  stays open, however the pass ends.
- Scan and index: the words of the line, where the server looks too, the right
  file, and its innermost entity.
- Passes: an error is an error; an edge is what the server said; an export is
  bound on two agreeing answers only.
- Proof: clean exactly if the calls, in any order, say so.
- Registry and discovery: the last choice wins; nothing is lost; what is found,
  or advised, can be started.
- Provenance: a stamp comes back from the evidence it was put on.

## 2. The modules

| Module | Models | Run by |
|---|---|---|
| `JsonRpcClient` | `client.rs`, whole | `client_safety`, `client_live`, `client_blocked`, `client_server_asks` |
| `OrderedOutbox` | what the write side of `client.rs` promises (abstract) | as a property of `client_live`; used by `ScopedDocuments` |
| `ScopedDocuments` | the documents of passes, over `OrderedOutbox` | `documents` |
| `LspServer` | `lifecycle.rs` | `server` |
| `LineScan`, `EntityIndex` | the pure functions of the scan and of the index | through `PureAnswers` and the passes |
| `Provenance` | the stamps of `registry.rs` and their way back | through the next |
| `PureAnswers` | those functions over all small inputs | `pure_answers` |
| `EntityPasses`, `DefinitionPasses` | the passes; the second extends the first | `passes`, `definitions_site` |
| `CitableProof` | `proof.rs`, and the capabilities a server reports (`lifecycle.rs` 265-331) | `citable`, `citable_silent` |
| `ProviderRegistry` | `registry.rs`, and `discover_servers` beside it | `registry` |
| `JsonRpcClientProofs`, `OrderedOutboxProofs`, `ScopedDocumentsProofs`, `LspServerProofs`, `PureAnswersProofs`, `DefinitionPassesProofs`, `CitableProofTheorems`, `ProviderRegistryProofs` | proofs | |
| `MC...` | values of the constants for TLC | |

`PROJECT.json` names, for every definition, the lines it stands for.

### JsonRpcClient

A call is one use of `request`, `notify` or `close_documents`.  `pc[x]` is the
`await` where it is suspended:

| `pc` | code |
|---|---|
| `idle` | not called; `Start` registers the waiter (177) |
| `acquire` | `slot.acquire_owned()` (257) |
| `check`, `send` | the flag (263) and `try_send` (266): no await between them, but another thread can step in |
| `refused` | `try_send` gave the message back: it and its permit are gone, `fail_writer` is still to run (270-272) |
| `ack` | the write acknowledgment (280) |
| `reply` | the oneshot under the ten seconds (192) |
| `unregister` | `waiters.lock().await.remove` on the error paths (187-200) |

`wpc` is the writer task: `recv`, `check` (the flag), `write`, and after a failed
write `poison` (set the flag), `drain` (wake the waiters), then `ack` (tell the
caller), `drop` (the message and its permit go out of scope), `dead`.  A batch of
closes is one message of several frames; `written` counts them, so a batch that
fails half way is a state of the model.  `fail_writer` is `FailWriter`: it sets
`aborted` and `draining`; `WriterAborted` takes effect at an await of the writer
only, and `SpawnedDrain` is the task it spawns.  When the writer ends, the
channel is closed and what is in it is dropped with its permit and
acknowledgments (`WriterDies`).  `Cancel` drops a call at any of its awaits and,
like the code, cleans nothing up.  The server responds to what it has read;
`ServerAsks` is a request of the server's own whose id is one of ours, and
`ReaderDies` the end of its stdout; `ServerTalks` and `StdoutEnds` say whether a
run has them.  A response's result and its error object are one `answer`: the
request returns either as it is.

Left out: ids are unique by `fetch_add` and stand for the call; framing and JSON
(a message that does not parse ends the reader: `ReaderDies`); dropping the last
handle of the client.

### OrderedOutbox

Items are accepted, delivered frame by frame in the order of acceptance, and
confirmed, refused or given up.  Three modes: open, failing (what was begun may
end, nothing is begun), closed.  `JsonRpcClient` defines `OutboxMode` and the
frame counts, and instantiates it: `Outbox == INSTANCE OrderedOutbox WITH ...`.

### ScopedDocuments

`pc[p]` is where a pass is: `ready` in the loop over candidates, `opening`/
`opened` in `ensure_open`, `asking`/`asked`/`reply` in the candidate's query,
`finish`/`closing` in `close_all`.  `open[p]` is the field of that name; a
document enters it *before* the first await, as at 638.  `held` is what the
server has open.  The client appears as the outbox it is proved to implement,
together with the permit (`SlotFree`) and the channel's bound (`Room`, `Full`,
which overlap by one because the writer may have taken a message off the
channel or not).  `Cancel` is the pass's future being dropped, with the `Drop`
of `ScopedDocuments`.

### LspServer

`phase` is where the probe, `start`, then `shutdown`, is suspended: `resolve` and
`version` are the resolution before the probe's limit is set (385), `settle` is
`with_stderr` waiting for the end of stderr (40-50).  Time is a clock: a timer
that is due fires before the clock moves on, and everything else takes as long
as it likes.  Stderr is numbered bytes; `tail` is the bounded buffer; `permit` is
the stored notification of `drained` (`notify_one`).  The calls of the client
appear by what they return.

### LineScan, EntityIndex, Provenance, PureAnswers

A line is a sequence of kinds of character; columns are numbers of characters.
The loop over a line is two functions of how far it has gone: `InString` is its
flag and `Found` its result so far.  `Lexed` is the reference: the line as a compiler reads it.  A path is a sequence
of pieces, cut so that a suffix of the string is a suffix of the sequence; the
order in which the hash map enumerates files is part of the index, arbitrary
and fixed.  `LooksAt` is the server's reading of a column: an `Emoji` is one
character and two units.  A rule of evidence is the sequence of the pieces the
functions tell apart (the tag, the separators, the words); `Part` and
`KeyAndValue` cut it as `split(';')` and `split_once('=')` do.  `PureAnswers` takes
one input per behaviour: it scans a line, asks an index, or stamps a list of
evidence.

### EntityPasses, DefinitionPasses

`arm` is which pass runs.  An entity pass goes `begin`, `prepare`, `query`.  The
passes over identifiers go through `Positions` with `at`: `receiver` (is this the
name of a module?), `module`, `member`, `candidate` (the join), or `plain`.  The
file pass ends with the calls of each of its entities, with the actions of
`EntityPasses`.  Every query may fail at every step (error response, timeout, or
an answer that does not decode), and may answer any list of up to `MaxAnswer`
locations.  Without a capability a query is not asked and finds nothing (`Asks`).
The history variables `proven`, `namesModule`, `answers` and `failures` record
what the server said, so that the edges can be compared with it.

Left out: the columns an entity pass asks at, and the evidence of its edges;
opening and closing documents (that is `ScopedDocuments`; here only whether the
provider has the text); relation ids.

### CitableProof

The driver may call the recorder in any order about any language; `log` is what
it called.  The verdict is defined from the record as `verify_citable` does, and
compared with the log.  A probe reports what `probed_capabilities` makes of one of
`Servers`: to every capability a server answers with nothing, `false`, `true` or
options, and `Supports` takes the last two for support.  Left out: names, counts
that no verdict uses, sorting.

### ProviderRegistry

`apply_config` reads a config entry by entry: `Override`, `Require` and `Disable`
each read one, `Fails` stops at a slug that is no language's or a provider that is
not registered, and what was applied before stays.  The order of a config's three
lists is `stage`.  `PathChanges` is the host.  Resolution, `known_binaries` and
`discover_servers` are queries: `Resolves`, `Resolution`, `KnownBinaries`,
`Discovered`.  The tables are constants; `TablesAssumption` is what the test at
registry.rs:1087 asserts of the two in the code, and `MCProviderRegistry` holds the
entries of the languages that have two providers or share one.

## 3. What is checked

Bounds are the constants of each `.cfg`.  Deadlock is checked in all passing
runs: each specification has an explicit last step (`Finished`, `Done`, `Ended`)
for the states where it may stop, so a stop elsewhere is an error.

### Passing runs

| Run | Instance | Shows |
|---|---|---|
| `client_safety` | 2 requests, 1 notification, 1 batch of 2 closes, channel of 1; requests symmetric; 2.3 million states | `OneNormalFrame`, `NobodyIsStuck`, `NoOrphanedRequest`, `OnlyDroppedRequestsLinger`, `NoWaiterAfterFailure`, `AnswersAreResponses` (of a server that asks nothing), `AckIsBarrier`, `NoOvertaking`, `NothingBegunAfterFailure` |
| `client_live` | 1 request and 1 notification for the one slot, batches of 1 and of 0 closes, channel of 1, a stdout that stays open, a server that sends requests of its own; 682 000 states | `EveryCallReturns`, `FailureReleasesEveryone`, and the refinement `ImplementsOutbox` |
| `documents` | 2 passes, the enriched file, 2 known documents and an unknown one, 2 queries per pass, channel of 1; 96 000 states | `QueriesFindDocuments`, `NeverReopened`, `AnswerLeavesNothing`, `CloseIsOwed`, `DocumentsAreClosed` |
| `server` | tail, chunk and pipe of 2 bytes, 5 bytes in all, limits 1 < 2 = 2 < 4; 18 000 states | `TailIsLastWords`, `NoLostWakeup`, `LastWordsComplete`, `NoServerLeftBehind`, `ProbeEnds`, `StderrNeverBlocks` |
| `pure_answers` | all lines of up to 5 characters; all indexes of up to 3 entities in 2 files of which one's name ends in the other's, in every map order, asked by relative, absolute and outside paths; evidence with stamps and without; 286 000 states | `FindsTheWords`, `WordsAreLookedAt`, `MemberIsNext`, `InnermostWins`, `FilesAreToldApart`, `StampsComeBack` |
| `passes` | 4 files, 6 entities, 3 identifiers, 7 locations, one of a file whose name ends in another's and one of a file outside that looks indexed, answers of up to 2; all capability sets and 3 providers; 200 000 states | `FailuresAreErrors`, `EdgesAreAnswers`, `MemberEdgesAreProven`, `ModulesAreNotUsed`, `NamedOnce` |
| `citable` | 2 languages, 4 servers that answer 2 capabilities differently, 4 calls; 331 000 states | `CitableMeansClean`, `FailuresStay` |
| `registry` | 4 languages, 6 overrides, 2 configs of up to 3 entries, 5 executables; 164 000 states | `NothingLost`, `ChoiceWins`, `DiscoveredResolves`, `AdviceHolds` |

Type invariants are proved (section 5) rather than run.  Every property is guarded
by a mutant in `PROJECT.json`: a plausible bug in the code it is about, under which
the same run finds it violated.

**Why the bounds are enough.**
*Client*: the conflicts are between two holders of the permit, between a holder
and a batch that bypasses it, and between either and a full channel; with three
calls for one permit, a channel of one and a batch of two frames, each of these
occurs with cancellation and failure at every step.  The order properties and the
refinement do not rest on the bounds: they are proved (section 5).  For liveness
a request and a notification contend for the slot, so that one waits in `acquire`
while the other's frame is queued, being written, failing or abandoned; a batch of
one close can block the writer, and the other batch then overflow the channel
behind a queued frame.  A third caller would wait where the second does.  The end
of stdout and batches that fail half way are in `client_safety`.
*Documents*: what can go wrong is between a pass and its successor and between
two documents of a pass; a third of either meets the same states of the outbox.
*Server*: 5 bytes are more than tail and pipe together, so the tail wraps and the
server blocks; the limits keep the order of 250 ms < 10 s = 10 s < 30 s.  The
clock's bound lies behind the last limit.
*Pure answers*: an escape, a quote, a word and a dot with a neighbour on each
side fit in five characters; three spans can be nested, equal and disjoint.
A provider's name of three pieces holds a separator between two words; rules of three
pieces can begin with the tag, with a later version of it, or with neither.
*Passes*: answers of two locations tell "any" from "all" and "first" from "each";
the positions contain a module member, a plain use of the same export, and a line
that is in no entity.  The file has one entity, so its calls loop is gone through
once.  `/w/sub/bin` is indexed behind `bin`, and is taken for it; `/dep/bin` is
taken for it too, and `/dep/r` for nothing.
*Citable*: the entries of languages are independent (proved); four calls hold two
probes, a failure and a gap.
*Registry*: a config of three entries overrides twice and fails after it; the second
config reorders what the first reordered.

### Runs that find a violation

Each is a disagreement between a statement of the repository and its code.

- `client_blocked` (`RequestsTimeOut`): "Send a request and wait for the response
  (with 10s timeout)" (client.rs:171).  The limit covers only the wait for the
  response.  Waiting for the permit and for the write has no limit: a server that
  stops reading its stdin blocks the caller without end.
- `client_server_asks` (`AnswersAreResponses`): "Responses are dispatched by ID"
  (client.rs:7).  Every message with an integer id counts as a response, so a
  request of the server's own with the same number completes ours with null.
- `definitions_site` (`EvidenceIsCallSite`): "The call site, not the definition."
  (enrichment.rs:148).  The evidence of a plain type use carries the range of the
  type's definition under the name of the user's file.
- `citable_silent` (`NothingSilentlyUnenriched`): "a citable run may never
  silently degrade to unenriched" (proof.rs:10).  A file attempted with neither
  outcome leaves the verdict clean.

### Other divergences met while modelling

The model follows the code in these; no run is about them.

- A request registered after the reader died finds no one to answer it and waits
  its ten seconds (client.rs:148).
- A pass dropped between entering a document and queueing its open sends a
  `didClose` without a `didOpen` (enrichment.rs:638).
- An answer to `initialize` that does not decode is taken for a server without
  capabilities (lifecycle.rs:167), though a usable server is one that "reported
  the capabilities" (344).
- The client's ten seconds make the handshake's thirty (lifecycle.rs:150)
  unreachable for a silent server, and the probe's ten seconds can cut off the
  250 ms in which the last words are collected.
- An error of the `initialized` notification carries no stderr (173).
- `shutdown` drops the child as soon as `exit` is written, so a server that takes
  its time is killed (262).
- A line of code that begins with a star is skipped (file_enrichment.rs:40); a
  string that ends in an escaped backslash hides the rest of its line (52);
  see also the columns, below.
- "A position that maps to nothing now produces no edge" (enrichment.rs:264), but
  the search by suffix (83) can map it to another file: one of the workspace whose
  name ends in, or is the end of, the path's, or an indexed `src/lib.rs` for a
  dependency's.  Which one can depend on the order of a hash map.
  `FilesAreToldApart` and `EdgesAreAnswers` say exactly how far the paths are told
  apart.
- Of two equal spans the first listed wins, not the nested one (enrichment.rs:122).
- The target of `Overrides` is the entity at the supertype's name, a class and not
  its method (367).
- `disabled` is not read by `resolve_with` (registry.rs:668).
- The run of `--version` inside the resolution has no limit (discovery.rs:71): the
  probe can hang before its ten seconds begin (lifecycle.rs:385).
- An error in a config leaves the entries before it applied (registry.rs:541-607).
- `resolve_with` returns the first candidate whose binary is there; if that one
  does not start, no other is tried.
- Discovery gives `pylsp` the argument `--stdio` (discovery.rs:26), the registry
  none (registry.rs:441).  `DiscoveredResolves` is about binaries only.
- `src/README.md` says that the gap type is "not wired" and that nothing calls the
  registry's resolution outside unit tests (line 56); `probe_readiness_with`
  resolves through it and returns the gap (lifecycle.rs:385).
- `is_lsp_evidence` looks at the beginning of the rule only, so a rule of a later
  version passes for a stamp that cannot be read (registry.rs:767); a provider whose
  name has a semicolon does not come back.  `StampsComeBack` says how far it holds.
- After a character that takes two units of UTF-16 every column sent to the server
  is off by one (file_enrichment.rs:66).  `WordsAreLookedAt` says exactly when.
- The cache is keyed by content alone, and the path it stores beside a result is
  never read (cache.rs:19-25): two files of one content would share relations that
  name one of them.  Nothing uses it.
- The key under which a file pass drops repetitions holds how the target was
  reached, so one relation id may be returned twice (file_enrichment.rs:264-270).
  `passes` claims no uniqueness for the file pass.

## 4. Fairness

- `JsonRpcClient!FairSpec`: weak fairness of each task: of every call under way
  (`CallerRuns`), of the writer (`WriterRuns`) and of the drain that `fail_writer`
  spawns, because the runtime polls them and timers fire.  For the slot that is
  enough: each call takes it once, so after finitely many turns of others it stays
  free until the one that waits takes it.  Nothing is assumed of callers (they need
  not call, and may be cancelled), of the server, or of the write in progress.
  `EveryCallReturns` has the premise `ServerReads`: the write in progress ends.
  `FailureReleasesEveryone` does without it, because the abort ends the write.
- `ScopedDocuments!FairSpec`: passes are polled, the writer delivers or fails.  A
  document is closed again unless the client fails.
- `LspServer!FairSpec`: time passes, timers fire, the drain reads; the server need
  not do anything.  `ProbeEnds` has the premise that the run of `--version` ends,
  which no limit enforces.

No liveness is claimed of the other modules: they are loops over finite input.

## 5. What is proved

TLAPS checks these for every number of calls and messages, every capacity, every
batch.

**The client** (`JsonRpcClientProofs`; assumption `ConstantsAssumption`: the kinds
of call are disjoint, batches have a size, the channel has a place).

- `TypeCorrect`: also that the channel keeps its bound.
- `OneNormalFrameHolds`, `SlotComesBackHolds`.  `OneNormalFrame` is not inductive:
  a cancelled caller no longer says who holds the permit.  `SlotInv` adds that a
  pending message of a call *is* the owner of the permit (`Held`), that a message
  is in the channel or in the writer's hand at most once (`Once`), that a caller
  before `try_send` is in neither (`Fresh`), and that the writer's hand is empty in
  `recv` (`EmptyHand`).
- `NoOrphanedRequestHolds`: inductive with the types.
- `OnlyDroppedRequestsLingerHolds`, from `WaiterInv`: a waiter in the map has an
  empty oneshot and a request under way, or one that was dropped.
- `AnswersAreResponsesHold`, from `AnswerInv`, if the server sends no requests.
- `NoWaiterAfterFailureHolds` needs `FailureInv`: after the announcement no
  registered request is acknowledged, nor its message in a write that may still
  succeed.
- `FailClosed`: the action property, from the types.
- `NobodyIsStuckHolds`: while a call is under way, a caller, a timer or a task of the
  client can take a step, or the server is to read.  It is the safety half of
  `EveryCallReturns` and `FailureReleasesEveryone`: no cycle of waiting between
  slot, channel, acknowledgments and waiter map, whoever was dropped.  Who waits
  for the slot waits for a pending message (`SlotComesBack`); who waits for an
  acknowledgment has it, or has its message in the channel or with a writer that
  has yet to tell it (`AckIsOwed`); a writer that ended left nothing in the channel
  (`NothingLeft`).  A client that failed without an abort failed in the writer, which
  goes on to end (`AbortIsOwed`), so after a failure nobody waits for the server.
  `WaitInv` is these together, inductive with `SlotInv`.

**The outbox** (`OrderedOutboxProofs`; hypothesis `Sizes`).  `OutboxInv`: nothing is
accepted twice, what is not accepted is untouched, confirmed items are whole, and
an item is begun only when its predecessors are confirmed.  `AckIsBarrierHolds`
and `NoOvertakingHolds` follow.  `NobodyIsForgottenHolds`: while an accepted item has
been told nothing, the outbox is failing or it is some item's turn.  The turn is the
first untold item's; `ToldInv` (an open outbox has told nothing but confirmations, a
closed one has told everybody) makes its predecessors confirmed ones.

**The refinement** (in `JsonRpcClientProofs`).  `ClientImplementsOutbox`:
`Spec => Outbox!OutboxSpec`.  `PathInv` ties the tasks to the history: the channel
holds exactly the suffix of `accepted` not yet taken, the writer's hand is the
last one taken, everything before was acknowledged "ok", and what the writer
believes of its write is true.  Each action is then a step of the outbox or a
stutter (`RefinementStep`).  `ClientAckIsBarrier` and `ClientNoOvertaking` carry the
outbox's theorems over.  `ScopedDocuments` uses the outbox in the client's place.

**The documents** (`ScopedDocumentsProofs`; assumption `DocsAssumption`), for any
number of passes.  The outbox delivers in order, so what the server has open is
decided by a prefix of the accepted messages (`HeldInv`).  About that sequence alone
`LogInv` says that passes do not interleave, that what a pass opened is closed before
the next says anything, and that a query has its document's open before it and no
close between.  `PassInv` and `OpenInv` tie `open[p]` to it: what a pass accepted and
did not close is in `open[p]`, the document it is about to open included.  With the
outbox's own invariant this is inductive (`DocsInv`), and gives `QueriesFindDocumentsHolds`, `NeverReopenedHolds`,
`AnswerLeavesNothingHolds` and `CloseIsOwedHolds`: what the server has open is in the
set of a pass that is not over, or its close is accepted and still to be written.
`NothingLeaksHolds` is what this comes to at the end.  `PassesShareAnOutbox` is
`Spec => Outbox!OutboxSpec`: the passes use the outbox as it may be used, so its
theorems hold of theirs.  `PassesGoOnHolds` takes `NobodyIsForgotten` over that way:
a pass that waits for its turn to send, or for an acknowledgment, waits for an
outbox that can go on.  `PassesGoOn` and `NothingLeaks` are stated beside their proofs
and are part of no run.

**The server** (`LspServerProofs`; assumption `LimitsAssumption`).
`TailIsLastWordsHolds` rests on lemmas about runs of bytes: the tail is the last of
what was drained.  `EndInv` says that the end of stderr is seen after everything was
drained and the process is gone, and that the notification is stored until it is
taken: `NoLostWakeupHolds`, `NoServerLeftBehindHolds`, `LastWordsAreComplete`.

**The pure answers** (`PureAnswersProofs`; assumptions `TextAssumption`,
`EvidenceAssumption`, `IndexAssumption`), for lines, indexes, rules and names of any
length.  What a recursive function computes is proved by looking at the least place
where it would be wrong: `LeastExists` is the well-foundedness of `<`, `UpTo` the
induction over places it gives, and `BuiltUp` says that a function defined step by
step exists, without which its defining equation could not be used.  Three small
invariants say that what is reported is the answer to what was asked (`ScanInv`,
`LookupInv`, `EvidenceInv`); the rest is about the answers.
- `FindsTheWordsHolds`: by `ScanAgrees` the flag of the scan and the state of `Lexed`
  agree at every column, if every backslash escapes something.
- `WordsAreLookedAtHolds`: the server looks at the column exactly if no character of two
  units comes before it (`LooksAtColumn`).
- `MemberIsNextHolds`: the member's column is the next the scan picks, as nothing
  between the two is in a string or begins a word.
- `InnermostWinsHolds`: among the spans that hold a line there is one of least
  length, so the search finds one and none lies properly inside it.
- `FilesAreToldApartHolds`: the map enumerates every indexed name, so the first
  look-alike exists if there is one (`FirstOfIsIn`), and is the file itself if there
  is no other.  `IndexAssumption` says that names are not empty.
- `StampsComeBackHolds`: by `RuleReads` a stamp comes back from its rule for every
  provider name without a semicolon, separators of other kinds included.

**The passes** (`DefinitionPassesProofs`; assumptions `PassesAssumption`,
`PositionsAssumption`), for any index, positions and answers.  `PassInv` holds where a
pass may be (`PlaceInv`), that nothing found survives a failure (`FailInv`), that an
export is bound on two answers (`BoundInv`), that edges and known modules are of
identifiers already passed (`AtInv`, `ModulesInv`), and that keys cover the edges
(`KeysInv`, `SourcesInv`).  From it `FailuresAreErrorsHolds`, `MemberEdgesAreProvenHolds`,
`ModulesAreNotUsedHolds`, `NamedOnceHolds`.  `EdgesAreAnswersHolds` rests on
`TargetLooksAlike`: what a location maps to holds its line, in a file that looks like
its path, for any names of files and any order of the map.

**The verdict** (`CitableProofTheorems`; assumption `ProofAssumption`).
`RecordFaithful`: the record matches the calls in any order (`RecordMatchesCalls`
is inductive with the types).  From it `VerdictSound` (the verdict is clean exactly
when the calls and the servers' answers say so) and `FailuresKept`.  `TypeCorrect`
bounds the counters by the number of calls.

**The registry** (`ProviderRegistryProofs`; assumptions `RegistryAssumption`,
`TablesAssumption`).  `RegistryInv`: a language's candidates are a rearrangement of
its defaults, none has lost a binary, and the one chosen last is in front with the
config's binaries first.  It survives every entry of a config, so also a config that
fails: `NothingLostHolds`, `ChoiceWinsAlways`, `DiscoveredResolvesHolds`,
`AdviceHoldsAlways`.

**Only model-checked**: the liveness properties `EveryCallReturns`,
`FailureReleasesEveryone`, `DocumentsAreClosed`, `ProbeEnds` and `StderrNeverBlocks`,
since the prover has no `ENABLED` or fairness, and the four expected violations.
Every other property of a run is a theorem.

## 6. What is not modelled

- `cache.rs`: a map behind `get`, `insert`, `invalidate` and `clear` that nothing in
  the crate uses.  What a hit is worth depends on the driver.
- Adapters, error types, serde declarations: static commands and types.
- Framing and JSON: a message is whole or the reader ends.
- `EntityIndex::find_by_name`, which has no caller.
- A server that closes its pipes while its process goes on appears in `LspServer`
  as an error of the handshake or an exit; a read error of stderr, which would end the
  drain of a running server (lifecycle.rs:68), does not appear.
- Encoding of file URIs (`protocol.rs` 150-170).
- Two passes at once on one server: each has its own set of open documents, so
  they would open and close each other's; nothing in the crate runs two.
- The driver: who calls registry, probe, passes and recorder in which order is
  decided outside the crate, so there is no code to compose them from.

## 7. Plan

The order was: the client and its outbox; the passes' documents above it; the
lifecycle; the pure functions; the passes; the verdict; the registry and discovery;
provenance; then the proofs in the same order.  Every safety property is now both
run and proved, those of the pure functions too.  Left, should the code grow there:

1. Overlapping passes on one server, as an instance of `ScopedDocuments` without the
   order of `StartPass`, once something in the crate runs two.
2. The driver, with the cache, once it lives beside this code: a required language
   that resolves but does not start must reach the verdict as a gap.
