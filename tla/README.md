# Verification of EvalRank

TLA+ specifications, TLC configurations and TLAPS proofs for the code of this
repository. Paths are relative to the repository; `H` is
`boards/content-safety-classification/harness.py`, `S` is
`boards/site-translation/harness.py`, `R` is `scripts/reference_server.py`.

## 1. The system

EvalRank publishes model rankings and decision receipts. Two things run: the
*board harnesses*, which score models by calling providers through OpenRouter and
are started weekly by two workflows, and the *reference server*, which serves the
published documents and receipts and is used through two SDKs, a CLI and an MCP
server. The rest is a library of contracts that both sides validate documents with.

| Component | State it keeps | Operations | Interacts with | What is hard |
|---|---|---|---|---|
| Content-safety classification (`H` 194-304) | `Classifier.mode`, `Classifier.unavailable`, shared by threads without a lock | `classify`, `score_model` | a thread pool; the provider, through HTTP | interleaved reads and writes of `mode`, replies to requests built in an older mode, retries, exceptions in one thread of a pool |
| Content-safety score (`H` 257-287) | none | `score` | called by `score_model` | empty classes, the error ceiling, error verdicts of two datasets |
| Board file (`H` 329-401, `S` 655-790) | `results` in memory, `results.json`, a lock | `_load_results`, `merge`, `_one`, `run` | worker threads; the file system; earlier and later runs | lost updates, torn files, kills, harness changes between runs, one model that raises |
| Site-translation scoring (`S` 400-603) | per-call and per-panel lists | `translate`, `judge`, `panel_score`, `summarize`, `score_model` | two thread pools; translator and judge providers | quorum of judges, partial failure of one language, attribution of verdicts by position |
| Weekly workflows (`.github/workflows/*-board.yml`) | the branch, each job's checkout | the steps of a job | each other, through one branch; the repository's secret; the model listing | push races, aborts, an exception in the harness |
| Reference server (`R`) | `shared_receipts` behind `shared_receipts_lock` | `do_GET`, `do_POST`, `retain_receipt`, `receipt_bytes`, the derived reads and health | one thread per connection; SDK clients | clients that stall or go in the middle of a request, lost responses, repeated requests, restart, who holds the lock meanwhile |
| Decision contracts (`packages/core/.../decision_contracts.py`) | immutable records | validation, `projected_cost_microusd`, `DecisionReceiptV2.create`, `from_dict` | SDKs, server, golden builder | exact arithmetic at the safe-integer limit, agreement of many fields, identity of a normalised body |
| Read contracts (`.../read_contracts.py`) | immutable records | `verify_*_semantics`, the descriptor of a snapshot set | SDKs, server | counts, states and gaps that constrain each other; evidence that expires |
| Canonical JSON, aggregation identity | none | `canonical_json`, digests, the seed of the bootstrap | contracts, TypeScript twin | order independence of digests |
| Public contracts (`.../contracts.py`) | immutable records | problem details, hashes of discovered entries | SDKs | what is part of a hash and what is not |
| Python SDK, CLI, MCP (`packages/{sdk-python,cli,mcp}`) | a base URL, a timeout | one method per endpoint; exit codes; `isError` | reference server | a valid answer to another question; a problem reported for something that was done, or no response at all |
| TypeScript SDK (`packages/sdk-ts`) | the same | the same | reference server | disagreement with the Python twin |
| Scripts, catalog, schemas, docs | files | generators, a linter | - | - |

What makes each part correct:

- *Classification.* A model that has been asked with reasoning on is never again
  asked with it off; a row says `reasoning_off` only if all its verdicts were obtained
  that way; a call falls back at most once; a row is ranked only if enough items were
  answered; whatever happens, `score_model` leaves no thread behind.
- *Score.* A ranked model scores 1 exactly when everything it answered is right, and 1/2 when it flags
  everything, however few items of a class it answered.
- *Site scoring.* A language's score is that of its own segments and judges; a ranked row is
  translated whole; a model that is unavailable costs nothing more.
- *Board file.* No row is lost; rows scored under different identities are not
  mixed; a ranked row is not scored again; a crash costs at most what was not written.
- *Workflows.* A refresh never takes a committed row back; a green job means a complete
  board; a steady model is eventually recorded.
- *Reference server.* A receipt reported as shared can be fetched until the server
  restarts, with the content it was shared with; the table only grows, and only by
  valid requests; every request that has arrived ends, whatever clients of others do.
- *Contracts.* A receipt's id names what the receipt says, in whatever order its sets are
  written; no document is read in two ways, and only known spellings are read by one language
  alone; a cost is exact or absent; a digest does not depend on the order of sets; a count can be
  recovered from its ratio.
- *Reads.* Nothing is shown in a top set that has not earned it; an accepted leaderboard, and a
  read as it was opened from one, marks stale evidence; what is derived from a leaderboard or from the
  manifest is accepted by the verifier of the other package; and a read under a leaderboard's id claims
  no more than that leaderboard.
- *Clients.* A call is told what it asked for or a problem of its own; a problem means that
  nothing was published on the caller's behalf. A caller that gets no response cannot know;
  if it makes a shared decision again and that returns, the receipt is in the table.

The list of hazards, each at its line, is in `PROJECT.json`.

## 2. Modules

| Module | Models | Composes |
|---|---|---|
| `ModelScore` | what `score_model` promises its caller (abstract) | |
| `Classifier` | `Classifier.classify`, `score_model`, the pool | refines `ModelScore` |
| `Classifier_proofs` | theorems about `Classifier` | extends `Classifier` |
| `ContentScore` | `score` | |
| `ContentScore_proofs` | theorems about `ContentScore` | extends `ContentScore` |
| `SiteScore` | `translate`, `judge`, the panel, `score_model` of the site board, its pools | refines `ModelScore` |
| `SiteScore_proofs` | theorems about `SiteScore` | extends `SiteScore` |
| `BoardFile` | the `run` command of both harnesses | uses the promise of `ModelScore` |
| `BoardFile_proofs` | theorems about `BoardFile` | extends `BoardFile` |
| `BoardRefresh` | the two weekly workflows | uses the promise of `BoardFile` |
| `BoardRefresh_proofs` | theorems about `BoardRefresh` | extends `BoardRefresh` |
| `ReceiptServer` | the reference server: its handlers, its table, its lock | |
| `SdkClient` | the Python SDK, the command line and the MCP server, calling the server | extends `ReceiptServer` |
| `SdkClient_proofs` | theorems about the server, and about clients and server together | extends `SdkClient` |
| `PortableJson` | canonical JSON, its hash, the order of texts, as the contracts use them | |
| `DecisionReceipt` | `DecisionReceiptV2` in Python: create, validate, normalise, read | extends `PortableJson` |
| `DecisionReceiptTs` | the same receipt in the TypeScript SDK | extends `PortableJson` |
| `Publication` | a receipt's way through authors, editors and readers | instantiates both |
| `Publication_proofs` | theorems about receipts and both readers | extends `Publication` |
| `Evidence` | observations, configurations, aggregations, discovered entries: validation and identity | extends `PortableJson` |
| `EvidenceRecords` | such a record's way from who made it to a reader | extends `Evidence` |
| `ReadContracts` | the verifiers of leaderboards, entity details, comparisons, health | extends `Evidence` |
| `PublicReads` | a publisher, the reads the server derives, hands that edit them, readers | extends `ReadContracts` |
| `ProjectedCost` | usage, price schedules and the cost of one under the other | extends `PortableJson` |
| `PublicDocuments` | receipts, reads, records and costs in one specification | extends the four |
| `PublicDocuments_proofs` | theorems about records, reads and costs | extends `PublicDocuments`, `Publication_proofs` |
| `MC*` | instances: sets of replies, requests, datasets, pools of models, documents | |

### Classifier

`mode` and `unavailable` are the attributes of the `Classifier` object. Call 0 is the probe
(`H` 292), calls 1 .. N are the items. A call is `"ready"` at the top of the loop
(`H` 225), `"posted"` between the moment `_body` reads `mode` and the moment the reply is
in, and `"switching"` between the test of `mode` (`H` 234 or 252) and its
assignment: these are the points at which another thread's write makes a
difference. A step handles the reply, makes every assignment the code makes for it, and goes
to the next attempt, returns or raises. Replies are twelve classes, those the code
tells apart; `"malformed"` stands for a body that is not UTF-8, or is JSON of another
shape, for which `classify` has no handler. The pool hands items out in order,
`pool.map` yields results in order, and meeting an exception cancels what has not
started, the last item first, before the `with` block waits for the rest. `sent`,
`last` and `verdict` are what a call did, kept for the properties.

`MAX_ERROR_RATE` is the ratio `ErrorNum / ErrorDen`. The five error statuses that are
retried are one class, back-off sleeps are not modelled (they change no state).

### ContentScore

A state machine that takes one verdict after another in any of its values and counts
it the way `score` does for its dataset, then computes the score. Ratios are
exact pairs; the published row rounds them to six digits after they have been compared.
`ContentScoreAssumption` is what the board's data have: every class (the unsafe or the safe items of a
dataset) is larger than the number of errors a ranked row may have, 52 against classes of 200 and more.

### SiteScore

A call is one `translate` or `judge` with all attempts of `complete`, which share nothing with
other calls and so are one step. `reply` is the list a provider returned (a text is
reduced to whether the deterministic check passes it), `end` says why there is none, `result` is the
dictionary the call returned. `asked` and `reply` are the history the properties are stated
over: `ScoresAreThePanels` says what a row should be from what was asked and answered, the code's
`Judged` says what it is from the position of a job in its list. Verdicts count eightfold, so that the
mean of two of them is an integer. `Batch` is the list the current pool runs; `Start`, `MeetException`,
`Cancel` and `Reraise` are the pool, as in `Classifier`. One call may end in any way the code
tells apart: a list, no list after the last attempt, 404, or an exception that nothing catches
(bytes that are not UTF-8, a verdict that cannot be a dictionary key).

### BoardFile

One variable per piece of state of `main`: the file (`Absent`, `Torn`, or a board), the
results in memory, the lock, where each worker is. `identity` is what a score depends on
(prompt, item set, dataset, judge panel, ...): each row remembers the identity it was scored
under. Writing is two steps, because `write_text` truncates and then writes. A kill
may happen in any state of a run; it leaves the file as it is. `ChangeHarness` is a commit that
changes one of those keys between two runs. The variable `site` selects the harness: the
two `main`s differ in that the site board's scores excluded rows again (`S` 763) and
catches exceptions of `score_model` (`S` 777-781).

### BoardRefresh

The steps of a job are checkout, the test for the key, the harness, the tests, the commit and
push. The branch is its rows per board (`tree`), and `current[b]` says that no push happened since the
checkout of `b`'s job: git accepts the push exactly then. The jobs of one board are serialised
(`concurrency`), the two boards' jobs are not. Scoring is one step, because the checkout is
thrown away with the job whatever happens inside.

### ReceiptServer

A connection sends one request: it is `"sending"` until the handler has read the request line, the
headers and what its method reads of the body (`Arrive`). A client may stop there for ever, for
`rfile.read` has no timeout, or go (`BreakOff`). Later it may time out or lose the connection at any
point of the handler (`GiveUp`, remembered in `gone`), which does not notice and finishes its work.
`Malformed`, `Undecided`, `PostAnswer` and `GetAnswer` are the
tests the handlers make before they need the table, in their order, and the problem (status and
code) of the first that fails; `Other` is the methods that answer 405. `Acquire`, `Store` and
`Look` are the lock and the dictionary. A response reaches the client (`Deliver`) or is written for nobody
(`Lose`). `promised` is what clients know: ids for which a 200 was received. `owed`
marks a request that was sent after its id was promised. Requests repeat freely, so
retries and duplicates need no action of their own. A restart forgets the table and what was
promised: nothing is claimed across it.

### SdkClient

A call names its surface (SDK, command line, MCP server), its method and what it asks for.
`Raises` is the SDK's own tests before it sends anything, `RequestOf` the request it sends,
`Reads` and `ReadsProblem` how it validates what comes back, `Outcome` what it tells its caller: a
document, a problem, or an exception. `Unanswered` is the exception of a call that gets no response: an
`OSError` from `urlopen` or `read`, which nothing in the SDK catches, whatever the server has done by then.
`ExitCode` and `IsError` are what the two programs make of it.
`Follow` is not a step of its own: it is what a step of the server or its client means for the call;
`told` is what the caller was told, `kept` that a receipt was added to the table for it. Of the calls that are over
those that asked to share are remembered until the connection is used again, because only of them something may
have been kept without the caller's knowing. Of the other clients, `OtherRequests` is what they send.

### DecisionReceipt, DecisionReceiptTs, Publication

A JSON object is a record and an optional field that was not sent is missing from its domain, so
the order of keys, which canonical JSON removes, does not exist; arrays are sequences, and sorting the ones
that are sets is done as the code does it. A hash is injective. Each module is a reader: `FromDict` and
`Parse` give an object or `Rejected`, from the definitions of its own language, whose tests are written
in its own order. Ratios and costs are integers; prices, latencies and
display names are not told apart. What a pattern takes is a set of texts: `SnapshotIds` and `Timestamps` are
what Python's patterns take, `PythonOnly` what of it TypeScript's refuse. `Create` hashes the parts before the
constructor normalises them, as the code does: `Objects` are the parts, `BodyDict` sorts them for the hash, `Normal` is
what the constructor keeps. `Publication` is the document on the wire: Python creates it, a hand
replaces a field by another value, `Rehash` gives it the id that the SDK's `receiptId` computes,
`Forward` replaces it by what some reader makes of it, as every client does that hands a
receipt on. What an author writes and a hand puts into a field has the type of that field
(`PublicationAssumption`): a value of another type is refused by the JSON layer of both languages.

### ReadContracts, PublicReads

A leaderboard is a record with its groups, a group its entries, its explorer views and its eligibility
summary; scores are percentages, instants numbers, citations the family they cite. The verifiers are
predicates with one conjunct per test of the code, and the helpers that the code shares between
documents are shared here. `Descriptor` is the constructor of `SnapshotSetDescriptorV1`, its hash the
snapshot set's id. `PublicReads` holds what `R` derives: `EntityDetail` and `CompareResult` from a row
of a leaderboard, `FromView` with them for a view, and `HealthRow` from the manifest. A
publisher issues what the verifier accepts; then the page may be replaced by any read derived
from it (`Open`), edited field by field, promoted into a top set, and its descriptor and id derived
anew. Readers' verdict is a function of the page, so reading is not an action.

`R` serves one detail per entity and one comparison, written out as constants beside its constant leaderboard
(`R` 515-558); the model projects either from any leaderboard its publisher may issue, which is a generalisation:
`DerivedIsAccepted` says of reads that this projection is right, and of health what the server itself computes.

`StaleIsDisclosed` says what an expired view shows: on a leaderboard each
view marks its own rows; a read names its view by family and feed, and two views of a group may have one
name, so its rows are marked when all the views that it may show have expired. On a leaderboard it holds whatever a
hand wrote, because the verifier ties rows and gaps to the expiry. A detail or a comparison carries no expiry, and
its verifier accepts one whose `evidence_stale` was taken off: of reads the property speaks as they were
opened, and of an edited one it says nothing.

`PublicReadsAssumption` is what the code has by construction: a group has the fields that the
server writes, a publisher has the passport of each configuration it ranks, an edit writes a value of the
field's type and leaves the kind of document alone, and a manifest is finite and names a cell once.

### Evidence, EvidenceRecords

A decimal is its digits and its scale, in the one spelling the code takes: `0.50` is refused (`IsDecimal`).
`IsRoundedRatio` is the rule that ties a proportion to its counts, half to even. `ReadConfiguration`
checks the id of a configuration against its passport, which is normalised first; `InputDigest` and
`BootstrapSeed` are the aggregation's; `Fingerprint` and `ContentHash` are the two hashed records of
discovery. `EvidenceRecords` makes a record, edits a copy of it, and asks whether identity
and meaning still agree. Each record has the fields of its kind, a metric those of its own, and an edit
makes no other kind of record and keeps a list a list (`EvidenceRecordsAssumption`).

### ProjectedCost

The cost of a usage under a schedule, with the ceiling at the end and `Null` where a rate that
is needed is missing. Amounts, rates and times to live are safe integers, as the constructors demand, and
`Null` and an exception are not integers (`ProjectedCostAssumption`). A run of an offer is a sequence of
tasks, whose usages add up and whose costs are billed one by one.

### PublicDocuments

The four kinds of document share readers, canonical JSON and hashes, but no state: one behaviour
follows one kind.

## 3. Runs

| Run | Question | Instance |
|---|---|---|
| `classifier` | one score: what its row may say, the pool, the promise to the caller | 2 items, 2 threads, 3 attempts, all replies, ceiling 1/2 |
| `classifier_retry` | is every refusal retried at low effort? | 2 items; violated, see section 6 |
| `classifier_aborts` | does unparseable output only count as an error? | 2 items; violated |
| `site_score` | one score of the site board with failing calls and judges | 2 languages, 3 judges, 2 segments, 2 threads, ceiling 1/4 |
| `content_score` | what the score means | 9 items in two datasets, every verdict sequence |
| `board_file` | the file through runs, kills and changes, both harnesses | 3 models, 2 workers, one flaky model, 2 keys, 1 change of each, 1 kill |
| `board_kill` | does an interrupted run keep its progress? | 2 models; violated |
| `board_mixing` | does any change start a new board? | 2 models; violated |
| `weekly_refresh` | both workflows on one branch | 2 candidates, one flaky, 1 outside push, 1 abort, 2 edits |
| `content_refresh` | does the weekly job commit the candidates? | 1 candidate; violated |
| `receipts` | the server under concurrent clients of every surface, which stall, go and call again; lost answers, a restart | 2 connections, 2 receipts, 11 calls, 8 requests of other clients |
| `publication` | do identity and content stay together, is any claim unearned, is stale evidence marked, do both languages agree, are costs exact? | 184 drafts of receipts, 8 leaderboards, every manifest of one cell's groups and feeds, 12 records, 48 schedules with 2 tasks; 3 edits |

Why the bounds are enough. In `Classifier` a race on `mode` needs two threads; with two items and
the probe one call can raise while another runs or while another is still queued, so
that it is cancelled or started; three attempts leave room for a fallback on the first, a busy answer on
the second and a refusal on the last; at a ceiling of 1/2 one error of two is exactly on
it. The proofs cover every number of items, threads and attempts. In `SiteScore` two languages and three judges
are six jobs for two threads, so that jobs of both languages interleave and a position among the jobs can be
mistaken; three judges give panels of none, one, two and three votes; one error of four is on the
ceiling, two are above, and a failed language is two. In `BoardFile` two
workers contend for the lock while a third model is queued, which is also the
smallest case in which an exception at one place meets finished, running and queued models;
one change of each key and one kill give every order of run, kill and change
around one board. In `BoardRefresh` the two boards' jobs are the two actors, one candidate
raises and one does not; two edits let the key or the judge's listing go away and come back. In
`ReceiptServer` two connections are the smallest contention for the lock and two receipts the
smallest table in which a lookup can find the wrong one; there is a request for each way through
the handlers, and a call for each way through the client; a shared decision meets the lookup of its
receipt, a repetition of itself, and the same decision shared by another client.

In `PublicDocuments` three edits (`MaxEdits`, `MaxReadEdits`, `MaxRecordEdits`)
reach from an abstention to a pick (outcome, reasons, selections), from a preview to a claim
(summary, evidence, entries) and from one ratio to another with its counts; every value a field
can be refused for occurs, beside two orders of every set, a snapshot id with a line terminator and a timestamp in the
digits of another script. The leaderboards are one group alone and two
beside each other, with one view, two that agree and two that do not, expired or not on the day, and
one that must not be published. Four numbers are scaled, because TLC's integers have 32 bits and because
their size matters only in relation to the others: `RatioDigits = 1` for 6 (denominators up to 10), `Million = 10`
tokens, `SecondsPerHour = 6`, and `MaxSafeInteger = 14`, so that costs fall on both sides of
it. Two tasks (`MaxTasks`) are the smallest sum that can lose or gain by rounding.

`CHECK_DEADLOCK FALSE` appears three times: a board that a kill has torn cannot be loaded by any later
run (that is the finding of `board_kill`), `score` returns once, and a document that no reader accepts
goes no further once its edits are used up.

## 4. Fairness

* `Classifier`: each call, each start of a queued item and `score_model` itself are weakly fair:
  the operating system schedules threads, and `urlopen` has a timeout of 90 s, so a
  request ends in a reply or in a transport error. No particular reply is obliged to come.
* `SiteScore`: `score_model` and its calls together are weakly fair: some thread is scheduled, and a
  request ends because `_fetch` has a timeout. That suffices, as no call waits for another.
* `BoardFile`: `main` and each worker are weakly fair, the former because the workflow runs the
  harness every week. Kills and changes are not obliged to happen.
* `BoardRefresh`: each job is weakly fair: the cron fires weekly and steps end
  (`timeout-minutes`). There is no fairness between the outcomes of a push, and none for the
  environment.
* `ReceiptServer`: the steps of a handler that has its request, and the writing of its answer, are weakly fair: a
  response fits the socket's buffer, so that nobody has to read it. The lock is strongly
  fair: a thread that waits while others take and release it gets it in the end. Clients owe nothing, not even
  the rest of a request: the handler reads it without a timeout (`R` 238, 246), so neither `Arrive`
  nor `BreakOff` is fair, and `EveryRequestEnds` begins when the request has arrived. `SdkClient` adds none.
* The documents have no liveness: nobody is obliged to write or to read.

## 5. Proofs

`Classifier_proofs` proves, for every number of items, threads and attempts, every error
ceiling below 1 and every set of replies (`ClassifierAssumption`):

* `TypeCorrect`, `Invariance`, `EndsInvariance`: types and the two inductive invariants below;
* `FallBackTheorem`, `NeverBackToOffTheorem`, `OffRowTheorem`, `NoWorkTheorem`, `UnservableTheorem`,
  `RaisesTheorem`, `AnsweredTheorem`: all safety properties of the run `classifier`;
* `Refinement`: `Spec => Abstract!Spec`, the safety half of `ImplementsModelScore`.

The invariant is `IInv == TypeOK /\ ModeInv /\ PhaseInv`. None of the properties is inductive
by itself. `OffRowIsPure` speaks of the moment the row is made; what makes it true is an
earlier fact, that a request with reasoning on exists only if `mode` has already
been set (`ModeInv`), and a later one, that nobody writes `mode` once the row is
made, because no call is active then (`PhaseInv`: what `score_model`'s phase says of where its calls may
be). `NeverBackToOff` follows from `ModeInv` and from `Post` being the only action that writes
`sent`. The refinement needs both: a fallback after the row would be a step of `ModelScore` that does
not exist. `EndInv` and `UnservableInv` add what a call ended with: a verdict rests on an answer, a
404 of the probe keeps everything else queued, an exception is some call's. `AnsweredTheorem` needs
arithmetic besides: the items are covered by the errors and the answered ones, so that their
cardinalities add up to at least `N` (`EnoughAnswers`); that a board of errors only is excluded needs
the ceiling to be below 1 (`AllErrorsExcluded`).

`BoardFile_proofs` proves, for every set of models, every number of workers and every choice of keys,
through any number of runs, kills and changes of the harness:

* `TypeCorrect` and `Invariance`: `Spec => []TypeOK`, `Spec => []IInv`;
* `NoLostRowTheorem`, `NeverMixesTheorem`, `TornTheorem`, `FileIsKeptTheorem`, `RankedRowTheorem`:
  the safety properties the run `board_file` checks.

Its invariant is a conjunction of named parts. `NoLostRow` is about the workers that are done; what keeps it
is that every worker past `Merge` has its row in memory (`MemoryInv`), that only the owner of the lock is between
`Merge` and the end of the write (`LockInv`), and that the file is the memory whenever the lock is free (`FileInv`).
`NeverMixesCompared` needs what ties a
running harness to the board in its memory (`IdentityInv`): the keys cannot change during a run, and a
loaded board whose keys differ is dropped before the first row. `RankedRowIsFinal` is an action property and
needs that no worker is on its way to a model whose row was ranked when the run started (`TodoInv`,
`RowInv`). `IdleInv` says that nobody is inside when no run is.

`BoardRefresh_proofs` proves `NoCommittedRowLostTheorem` and `GreenJobTheorem` for any candidates and any
number of weeks, pushes, aborts and edits. A push replaces the whole tree, so it loses nothing only
because a job that git lets push started from the present head: `CurrentInv` says that its checkout keeps every
row of the branch, and the harness adds rows or ranks excluded ones (`HarnessRows`). A green job that
pushed nothing had nothing the branch lacks (`UnscoredInv`).

`SdkClient_proofs` proves, for any connections, receipts, requests and restarts, the safety properties
of the run `receipts` about the server (`PromisesAreKeptTheorem`, `TableOnlyGrowsTheorem`), mutual exclusion
(`MutualExclusion`), and that the `RuntimeError` of `retain_receipt` is never raised (`NoCollision`: a
receipt is kept under its own id and ids are content addresses, which is part of
`ReceiptServerAssumption`). The invariant follows a request: who is on the way to the table has a
request for it (`PlaceInv`), a 200 is given only for what is in the table (`AnswerInv`), and a lookup of
what was promised before finds it (`OwedInv`); `PromisesAreKept` is its last conjunct.

Its second half, about clients, builds on the first, since every step of clients and server is a step of the
server (`ServerSpec`): `AnsweredAsAskedTheorem` and `PublishedAsToldTheorem` hold for any calls and any other
clients. A connection's request is the request of its call (`CallInv`); what was kept for it is what it answers
with (`KeptInv`); what a caller was told is what its call made of that answer, or that none came; and each of `do_POST`'s and `do_GET`'s answers fits the call it is given to (`PostFits`, `GetFits`).

`SiteScore_proofs` proves, for any number of languages, segments, judges, threads and attempts and any
replies, all safety properties of the run `site_score`, and the safety half of its refinement of `ModelScore`
(`Refinement`). The inductive invariant says which calls the current pool may run and what a call that ended has
left, and the row that follows. `MedianIsMiddle` is about the panel: what the code takes from the sorted
votes has at most half of the votes on either side. `ScoresTheorem` then ties the position of a job in its list to
the segment and judge it belongs to. `RankedTheorem` counts: the segments of one failed language alone are
above the ceiling, which is the assumption `L * ErrorNum < ErrorDen` on the constants.

`Publication_proofs` proves `IdentityTheorem`, `TwinsTheorem` and `ForwardedTheorem` for any drafts, edits
and order on texts. Its lemmas on sorting carry the most weight: the sort of a list of distinct texts is the only
ascending arrangement of its elements (`SortingArranges`, `AscendingIsUnique`), so that two lists have one sort
exactly if they have the same elements (`SortingForgetsOrder`). Both readers normalise a document of the
right types to one body (`PyReads`, `TsReads`, `TwinsOfPlain`), their patterns differ on the texts of
`PythonOnly` and on no others (`TwinPatterns`), and what is normal already is read as it is
(`CanonicalIsRead`). With the invariant `IssuedIsCanonical`, an id that fits is the hash of the body that was issued;
hashes are injective, so the bodies are equal, and so is what they say.

`PublicDocuments_proofs` proves the same of the other documents. Receipts keep their theorems beside them
(`ReceiptsTheorem`). `RecordsTheorem` follows from the injective hash of sorted content. For reads the
invariant is `ReadInv`: what was published verifies and has the shape its publisher gives it, what is on the wire has the
fields of its kind, and a page that nobody edited is one of the server's derivations. `ClaimsTheorem`: an accepted page
under the issued id has the issued descriptor, so its groups have the issued evidence ids, and the verifier
lets an evidence id go with one strength of claim. `ClaimsAreEarned` follows the gates of the verifier
from a row in the top set back to counts of evidence. `StaleTheorem` rests on the verifier for leaderboards,
and for details and comparisons on how `Open` projects them from one that the verifier accepts. `DerivationsAreAccepted` is the other direction:
each test of each verifier follows from how the server derives the page and from what the publisher's own
verification of the leaderboard has established; for health it needs the cardinalities of the
feeds of a cell.

Two of its theorems are arithmetic. `CostsTheorem` compares one ceiling with a sum of ceilings. Before
rounding, costs are additive: what is written to the caches is summed over times to live, and the sum over a
union splits (`SumsAddUp`, by induction on subsets), so `NumeratorsAdd`. The invariant `QuoteInv` keeps what has been billed
between the cost before rounding and the same plus `tasks * (d - 1)`, in units of 1/d microusd; a ceiling is the least
integer above (`CeilingIsLeast`), so the cost of all tasks is at most what was billed and less than one
microusd per further task below. `CountsTheorem`: if two counts are written as one value, both within half a unit
in its last place, then their difference times 10^scale is at most the denominator. With at least
`RatioDigits` digits that leaves only a denominator equal to 10^scale, where ratios are exact and differ
(`RatiosDiffer`); with fewer digits the rule demands exact ratios.

`ContentScore_proofs` proves both properties of the metric for any number of items and datasets. The
invariant is the tally: each counter is the number of items that were counted under it, so that a class
loses to errors only what the row reports as errors, and a ranked row has an answered item in every class. Then
recall and fpr are what they should be in each dataset, and a mean of values of one half, or of values between 0 and 1, is
followed through the sum of ratios (`IsFold`).

Sums, powers and folds are recursive functions, of which a prover knows nothing but that they are chosen. That such a function
exists is proved first, from finite approximations (`SumExists`, `FoldExists`, `PowersExist`); then it has the
equations it was defined by.

Induction over data is used where a least counterexample gives it: a non-empty set of naturals has a smallest
element (`LeastElement`, `Smallest`, from the library's `WFMin`), which needs no operator as a parameter.

Only model-checked is liveness (termination inside `ImplementsModelScore`,
`SteadyModelsAreRecorded`, `SiteRecordsSteadyModels`, `EveryRequestEnds`, the refinements' fairness), which is
out of the prover's reach, as is ENABLED. Every other property of a passing run is a theorem. Modules other than
`Classifier` and `BoardFile` have no separate type invariant among their runs; the proofs carry their own (`Types`).

## 6. Where the code and its documents differ

Five runs show a sentence of the repository violated by what the code does (`findings` in
`PROJECT.json` quotes them with the trace's outline): a refused call that is not retried
at low effort because another thread has changed `mode` meanwhile; an unparseable body
that raises; a kill that tears `results.json`; a dataset change that continues the old board;
a content-board job whose push is rejected by the other board's, every week.

Smaller differences were seen while modelling and have no run of their own.

*Boards.* When an item, not the probe, meets a 404, the row's mode is taken after the pool (`H` 301), so
that the row is labelled `unavailable` although some verdicts are real; and such a row is
ranked if the errors stay below the ceiling, while the comment at `H` 294 speaks of
unavailable models as excluded. The site board's README says that a score is the mean over all 600 segments; the
code leaves a segment that is an error out of the mean (`S` 540-549), so a row with errors below the ceiling is a
mean over fewer. As on the other board, a body that is not UTF-8 raises, and so does a verdict that is an
object or a list.

*Receipts.* Python and TypeScript disagree on four spellings (the predicate `Portable` of `Publication`). An
exclusion with `"reasoning_effort": null` or `"detail": null` is read by Python
(`decision_contracts.py` 1311-1330: the null is taken for an absent field, and dropped before hashing, so the id
still fits) and refused by TypeScript (`decision-contracts.ts` 1430-1434) and by the schema. An integer
written `1.0` is read by TypeScript and refused by Python. These two disappear as soon as a reader hands the
receipt on. The other two do not: the `.` of `^explorer_.+$` takes a carriage return, U+2028 and U+2029 in Python
(`decision_contracts.py` 1003, 1385) and not in TypeScript (`decision-contracts.ts` 1293), and the `\d` of a timestamp
takes the digits of every script in Python (`decision_contracts.py` 1655-1661) and ASCII ones in TypeScript
(`decision-contracts.ts` 369). A receipt with such a text can be created, is read and handed on by Python and is refused by
TypeScript. `TwinsAgree` shows that no document is read in two ways, and that without these spellings both take
or refuse it; `ForwardedIsAccepted` that of a receipt that is handed on only the last two are left.

*Reads.* `verify_entity_detail_semantics` and `verify_compare_result_semantics` (`read_contracts.py` 475-558) tie
`evidence_stale` to nothing: a stale detail or comparison whose marks and gaps were taken off is accepted. `schemas/README.md:19` and `tests/test_public_read_schemas.py:33-40` say that a leaderboard may carry an
optional `positional_consensus`; `verify_leaderboard_semantics` (`read_contracts.py` 322-330, and its TypeScript
twin) refuses every field it does not name. Nothing tests that a group's explorer views differ in their family and
feed, by which a client selects one. A group whose identity is unresolved can be opened as an entity detail
and not as a comparison. The year 0000 is a timestamp for TypeScript and not for Python.

*Records.* A proportion that is not exact needs six digits, so its counts can be recovered for denominators up to
a million (`CountsAreRecoverable`), not beyond. `RawEntry` and `CapabilityFingerprintInput` accept floats in
their values, which canonical JSON then refuses: such a record is valid and cannot be hashed.

*Clients.* The command line catches `ValueError` and the API's errors: a response that never comes is an uncaught
`URLError` or timeout, so its exit code is Python's 1, which is also the command line's own for a problem. A caller that
goes by the exit code alone cannot tell "refused, nothing published" from "no response, perhaps published"; the error
stream tells them apart. The MCP server lets the exception through, and the SDK's caller gets it. `decide` catches `TypeError` too, the other commands
do not.

## 7. Not modelled

Item selection, download and checksums, and the candidate rule (pure functions of pinned bytes and of the
listing); the deterministic checks of the site board (regular expressions over text); formats of slugs,
versions, links and timestamps; the other fields of `ServingOfferV1` and the two dated facts beside
it, and of `UseCaseCatalog` (field-by-field validation of immutable records); the fixtures (constant
documents); the truncation of the bootstrap's seed to 53 bits (seeds are told apart by what is hashed). The TypeScript
verifiers of reads and its aggregation identity are line-by-line twins of the Python ones, and a model
of them would be the same text twice; only the receipt, whose two validators are written differently, has
both. The repository's scripts (generators and a linter: functions of files), catalog, schemas and documents.
Timing is not modelled except as outcomes (a timeout is a transport error or a lost answer). `write_text` may fail for
want of space as well as be killed: `BoardFile` has the kill only, after which the file is as torn.

## 8. Plan

Done: every module of section 2, with proofs of all safety properties that the passing runs check.

Next, most important first:

1. Action properties of the documents: what `Rehash`, `Forward` and `RehashPage` may never change, stated and proved
   as steps rather than as states.
2. `BoardRefresh` over `BoardFile`: that the harness step of a job does what the board file promises, as a
   refinement, where today it is an assumption of the composition that both modules state alike.
3. The steps behind the liveness properties that are safety: what each step of a call, a worker or a
   handler must decrease, as action properties with proofs.
4. Items and candidates of both boards, if a property over more than one run can be stated of them.
