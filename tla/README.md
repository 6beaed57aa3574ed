# Ideas Lake in TLA+

The lake (`src/lake/`) ingests papers and run logs into a graph of ideas. Callers post work over
HTTP; a durable queue holds it; a pool of threads fetches and parses (phase 1); one writer links
the parsed theses into ideas with the help of an LLM arbiter (phase 2); a search index and a set
of read paths serve the result. This directory holds TLA+ models of that machinery, TLC
configurations that check them on small instances, and TLAPS proofs of the results that matter
most for every instance.

Contents: [1 inventory](#1-inventory) · [2 modules](#2-modules-and-the-code) ·
[3 runs](#3-runs-bounds-and-what-they-show) · [4 fairness](#4-fairness) ·
[5 proofs](#5-proofs) · [6 disagreements](#6-where-code-and-its-promises-disagree) ·
[7 not modelled](#7-what-is-not-modelled) · [8 plan](#8-plan).

## 1. Inventory

State in *italics* survives the death of the process.

| part | state | operations | correct when |
| --- | --- | --- | --- |
| writer lock, `writer_lock.py` | *lock file with a pid*, OS flock, nesting depth | acquire, release | one process writes the lake; the file names it; an inner release does not unlock |
| job queue, `queue.py` | *`queue.db`: status, stage, attempts, dedup key, payload hash per row* | enqueue, claim, stage, release, finish (+ prune), retry, recover | a job is in one pair of hands; outcomes are final; attempts count real failures; one live job per key |
| ingest workers, `api/workers.py` | fetch threads, writer thread, `_stop`; *payload and staging files, staging cursors* | start, stop, fetch_step, write_step | every accepted job settles; "ok" means something is in the graph; parsed work is not lost |
| ingest slot, `api/jobs.py` | one current job per process, a ring of records | start, exclusive | one linking pass at a time |
| submission routes, `api/routes.py` | none of their own | POST /fetch, /run, /ingest/phase2, /admin/... | a caller is answered with their own job |
| run-log intake, `ingest/runlog.py` | *staging file of a run* | from_payload, drain_run | every mutant is converted or counted under one reason; -1000 is never a number |
| corpus file, `ingest/run.py` | *`staging.jsonl`, its cursor* | phase1, phase2 with a limit | the cursor passes no line that was not offered; side-by-side parses lose nothing |
| linking pass, `ingest/run.py`, `ingest/link.py` | *cursor, `pending_link.jsonl`*; groups, plan, watermark | phase2, link_batch, _reconcile_index, _advance | a line behind the cursor is stored or pending; the arbiter sees the whole store; a replay changes nothing |
| graph store, `neo4j_store.py`, `graph_client.py` | *ideas, theses, sources, co-citation* | create/update idea, split, co-cite, set_trust, delete | no idea without a leaf; pairs of a source complete and counted once |
| idea upkeep, `ingest/split.py`, `rederive.py`, `trust.py` | the `dirty` flag in the store | split sweep, re-derivation, judging | a split never empties or merges an idea; a clean idea was judged over its leaves; text and vector agree |
| thesis index, `index.py` | *`index.db`: two joined tables*; a matrix per process | index_theses, reconcile, reset, search_theses | both tables agree; hits name what was ranked; a cached matrix is current |
| hypothesis merger, `idea_merger.py`, `idea_edges.py` | in store and index | write_hypothesis, backfill | a stored hypothesis can be found; a backfill counts no source twice |
| operations, `ops.py` | none | reindex, health, CRUD | a repair repairs |
| ranking and retrieval, `retrieve/` | *a log of requests* | search, rank, neighbours, padding | an answer is full when it can be; the quota yields only to need; the log is the answer |
| vault export, `vault.py` | *vault folder, marker, build directories* | export | the old vault or the new one, never a half; foreign notes stay |
| document intake, `ingest/fetch.py`, `parse.py`, `generalize.py` | *cache of parses* | one document to drafts | (text work) |
| throttle, `api/app.py` | window per client | middleware | no more than the limit per window |
| research agent, `research/` | budget of one question | loop over search | terminates within budget |
| LLM and embedding clients, schemas, loader, demo, tools, self-checks | – | – | outside the running core |

**Interaction.** Routes call the queue under its own lock. Fetch threads and the writer share
the queue, the files and, in the process, the slot; processes share files, the flock and the
two databases. The writer's pass writes store and index in separate transactions, and ends with
the upkeep of the ideas it touched. Requests, edits over HTTP, the export, the hypothesis tool and
the backfill run beside a pass and take neither slot nor lock.

**What is hard.** No operation of the queue checks the caller or the row's status, so
exclusivity is a protocol of several threads over crashes. A job's outcome, its files and the
graph are three durable things updated one after the other. A stop may time out over a
thread that still works. The pass decides over an index that lags the store, and the upkeep writes
what a model answered about an idea it read a minute earlier. A listing is read page by page
from a store that moves. The writes that record a failure may fail themselves. Python's `sqlite3`
begins a transaction before an INSERT and not before DDL, and a process creates the tables of the index
only when it opens it. The full list, at its lines, is `hazards` in `PROJECT.json`; every entry names the
properties that would catch it or says why none does.

## 2. Modules and the code

| module | models | state ↔ code |
| --- | --- | --- |
| `WriterLock` | `writer_lock.acquire`, `release` in several processes, one step per system call (open, flock, write pid) | `level` = `_depth`, `holder` = owner of the flock, `pidFile` = file content |
| `WriterMutex` | what the lock promises: a writer enters an unwritten lake, and leaves it before another enters | abstract specification, refined by `WriterLock` and by the levels of `IngestWorkers` |
| `JobTable` | the SQL operations of `queue.py`; one step each, since `_LOCK` covers each | one function per column; rows are numbered in insertion order, so "oldest" is the smallest number |
| `JobQueue` | the table under its callers' protocol: claim, then stage / release / finish / retry; writes of an outcome that raise (`RecordLost`); process deaths, `recover()` row by row before the threads start | `held` = the local `job` of a worker's step; `spent`, `gaveUp`, `lost` are history |
| `JobLifecycle` | what a polling caller is promised: accepted → parsed → ingested or failed → forgotten | abstract specification, refined by `JobQueue` through `Phase` |
| `IngestWorkers` | threads step by step over `JobTable`, files, cursors, slot, lock and graph, in one or two processes | `pc` = the statement a thread is at; `payload`, `staging`, `cursor` = the files; `slot` = `jobs._current`; `lost` (jobs whose last write raised) is history |
| `RunLog` | `runlog.from_payload`: which mutants of a batch are converted, in which order, under which reason the others are counted (operators only) | a batch is the sequence of its mutants; an output is its number of changes |
| `Corpus` | phase 1 in threads (read, replace, append) and phase 2 with a limit over one staging file; the report of an outcome (`POST /sources`) | `staging`, `cursor`, `tmp` = the files; `kept` = what a thread read; `group`, `todo`, `mark` = the pass; `latest`, `cut`, `reported` are history |
| `Phase2` | one linking pass: repair, groups, decisions, one transaction and one index write per idea, co-citation, splits, watermark; a rebuild that raises or is cut at any statement; raise or death after any step; `ops.reindex`; the hypothesis tool beside it | `home` = thesis → idea in the store, `index` = the same in `index.db`, `plan` = decisions of `link_batch` not yet written, `snap` = rows of `all_theses()`; `tables` = which of the two tables is there and whether they agree; `blind` (a rebuild of a sweep raised since the last repair) is history |
| `IdeaUpkeep` | the second half of a pass: co-citation pairs with weight and evidence, split, re-derivation, judge with its cap; `PATCH` of an idea and the backfill tool beside them | `text`, `vector`, `counted` (= `rederived_at_leaf_count`), `score`, `dirty` = fields of the node; `edges` = `RELATED`; `cur` = what a sweep read of its idea; `tool` = the backfill; `raced` is history |
| `ThesisIndex` | `index.py` in several processes, one step per SQL statement or transaction | `idx`, `fts` = the two tables; `cache`/`cached` = `_MATS`; `foreign`/`since` = whether `data_version` moved since it was read for the matrix / by this search |
| `Fusion` | reciprocal rank fusion, min-max fusion, one candidate per idea, the candidates shown to the arbiter (operators only) | an arm is a sequence, best first; a score is a fraction |
| `Retrieve` | a request from the gate to its line in the log, one step per read, while a job links, splits, judges and rebuilds | `order`, `deferred`, `targets`, `out` = the locals of `rank`; `idx`, `home`, `trusted`, `edges` = index and store; `near` is history |
| `VaultExport` | two exports into one folder, one step per page and per move, over a lake that is written and split meanwhile | `marker`, `entry`, `stray` = the folder; `build`, `left` = build directories of live and dead runs; `counted`, `got`, `notes` = the locals; `asOf`, `vault`, `torn` are history |
| `*_proofs` | theorems and proofs | – |
| `MC*` | model values for TLC; the bounded checks of the operators as `ASSUME` | – |

An action is a handler step between two points where another actor may come in or the process
may die. How the modules fit together:

* `IngestWorkers` EXTENDS `JobTable` and so composes queue, files, slot, lock and graph; in it the lock is its
  counter only; counter and lock refine the same `WriterMutex`. `MCIngestWorkers` takes the lines of its batch from
  `RunLog`.
* `Phase2` opens up what is one step (`LinkSource`) in `IngestWorkers`; `Corpus` opens up the file that pass
  consumes and drops what linking does with a line; `IdeaUpkeep` opens up what `Phase2` takes as one split and one
  edge, and drops the index.
* `ThesisIndex` opens up what is one write to `index` in `Phase2`; `Fusion` what is an order in `Retrieve` and a
  free choice of the arbiter in `Phase2`.
* `IngestWorkers` takes one source as one line and one group, and an arbiter that accepts or refuses it whole;
  `Phase2` drops these.

Abstractions: a thesis is its unique key (source and text hash) or, in the index, a value
standing for id, text and vector. Retrieval shows every idea (in `Phase2`) or every row (in
`ThesisIndex`), so every decision the real window allows is there. LLM answers are choices.
Splits choose any bisection. In `IdeaUpkeep` a text is a value, a vector is the text it was made from, a
score is the set of leaves it was given for. In `VaultExport` a note is the node it is about. Wording and
logging are left out.

Operators whose comment begins "Bug:" are defect variants of the operator next to them;
no action uses them. They are the mutants of `PROJECT.json`, which show that each property depends
on the code it is about.

## 3. Runs, bounds and what they show

| run | instance | shows |
| --- | --- | --- |
| `writer_lock` | 3 processes, 3 levels | `ImplementsMutex` (refinement), `PidNamesWriter`, `InnerReleaseKeepsLock` |
| `job_queue` | 3 jobs, 2 keys, 2 fetchers + writer, 2 attempts, ring of 1, ceiling 2 | `HandedOutOnce`, `OneLiveJobPerKey`, `GaveUpForCause` and `ImplementsLifecycle` (refinement) |
| `ingest_run` | 1 process with 2 starts, 2 jobs (an article and a batch of two sources sharing one); 1.8 M states | `TypeOK`, `OkHasLeaf`, `StagedKeepsItsWork`, `OkFetchOffered`, `RunningIsHeld` |
| `ingest_overlap` | 2 processes, 3 starts, an article, 1 manual job; 0.4 M states | `PhaseTwoExclusive`, `EveryJobSettles` |
| `corpus` | 2 sources of 1 or 2 lines, 2 texts, the server alone, 2 phase 1s, 1 stop; 0.4 M states | `CursorSkipsNothing`, `NothingLost`, `EveryLineIsOffered` |
| `phase2` | 5 lines of 2 interleaved sources with one repeated text, ceiling 2, 4 ideas, 1 hypothesis, 2 raises, deaths or reindexes, rebuilds may raise; 5.7 M states | `IndexHoldsNoGhost`, `CursorMeansDone`, `SourceIsCited`, `LinkSeesTheStore` |
| `phase2_live` | 3 lines, ceiling 1, 1 hypothesis, 2 raises, deaths or reindexes, rebuilds may raise; 1.7 M states | `Drained`, `IndexHeals` |
| `upkeep` | 3 leaves of 2 sources, 2 ideas, 2 texts, ceiling 2, re-derivation every 2 leaves, 1 idea judged per pass, 1 edit, 1 abort, the backfill; 0.4 M states | `CleanMeansJudged`, `CounterNotAhead`, `DriftNeedsRace`, `WeightIsEarned`, `EveryIdeaIsJudged` |
| `thesis_index` | 2 processes that both rebuild, 2 leaves, 3 batches, snapshots in two orders and with a leaf less | `CountsTell`, `HitIsWhatWasRanked`, `MatrixIsFresh` |
| `index_repair` | 1 process with one repair | violation of `RepairKeepsOldIndex` (section 6) |
| `retrieve` | 3 leaves, 3 ideas, 4 possible edges, answers of 1 to 3, 2 hits from the index, a quota of half, 2 writes; 2.7 M states | `TypeOK`, `RecallFirst`, `QuotaGivesWay`, `LogIsTheAnswer`, `NoGhost` |
| `vault_export` | 2 exports of one run each, 1 death, a lake of 2 sources, 1 idea, 2 leaves with room for one more of each, 2 writes, pages of 1; 2.6 M states | `OneSwap`, `VaultIsWhole`, `SwapsInTheLake`, `ForeignStays` |

Three runs also evaluate operators over all small inputs, as `ASSUME`s of their MC module:

* `MCIngestWorkers` – `RunLogsConvert`: over all logs of two rows (of one program or two, dead, unmeasured, measured,
  with and without parents) and all of two rows whose parent comes behind them, the counters of the report add
  up to the mutants, the marker -1000 is never used as a number, a limit keeps the largest changes, and the order of the
  log does not matter. `BatchIsTwoSources`: the batch of the run is what the conversion makes of a log.
* `MCRetrieve` – `ArmsAreFused`: a document no arm ranks below another is below it in neither fusion;
  `CandidatesAreOrdered`: an idea comes where its best thesis does; `VolumeIsPricedOut`: a leaf more never moves an
  idea up in the arbiter's draw; `WindowHidesNewIdea`: see section 6.
* `MCIdeaUpkeep` – `ClustersAreBisections`: the ways to cluster an idea are those of the code's repeated bisection.

Bounds. Three processes are the first number at which a refused writer, a holder and a
newcomer coexist. Two attempts give a first failure, a retry and a giving-up. Three rows over a
ceiling of two and a ring of one reach a full queue, a re-used key and a pruned row. Two starts
are one crash or stop and one recovery; the third lets one of two overlapping processes die as well. The
five lines hold a source whose lines surround another's (a watermark with a gap), a
text met twice in one source, and enough leaves to pass the ceiling, split, and pass it again. Two
raises or deaths break a pass and its replay, or leave the index without a table and restart the process that
would not create it again; rebuilds that raise inside a sweep are not bounded. Two leaves in two orders suffice to give one rowid two meanings. Two phase 1s
are a parse and a re-parse that is shorter or longer, the second one around a pass that left a cursor behind. Three
leaves over a ceiling of two split one idea and leave it a pair of leaves to be re-derived for; one judged idea per pass
is a cap that bites with two. Pages of one put a write between any two rows of a listing. Three ideas for an
answer of three with two hits reach neighbours, padding and an answer cut short. Larger instances were run
once: `vault_export` with two runs of each export and one write (3.6 M states), `retrieve` with four leaves and
three hits (8.5 M), `upkeep` with three ideas, two judged per pass and one leaf whose idea is never answered for
(`Refused = {l2}`; `EveryIdeaIsJudged` holds, 1.1 M).

`MaxStarts`, `MaxManual`, `MaxAborts`, `MaxJobs`, `MaxDepth`, `MaxPhase1`, `MaxStops`, `MaxEdits`, `MaxWrites`,
`MaxRuns` and `MaxDeaths` are the only caps; each is a guard on the actor it bounds and never on what follows from its
action. `CHECK_DEADLOCK FALSE` stands where a bounded number of starts or jobs lets the system come to rest.
`SYMMETRY` is used in safety runs alone: on the idea ids of `Phase2` (random in the code and
never ordered), on the processes of `ThesisIndex` and on the exports of `VaultExport` (each may do everything).

## 4. Fairness

`IngestWorkers!FairSpec`: weak fairness of each thread's next step (the OS schedules
threads), of a manual job's thread, of the boot sequence (the supervisor restarts the process),
of the end of `stop()` (its joins have timeouts) and of the exit after it. A single step,
claiming included, is never blocked by another thread for ever, so weak fairness is enough. Callers,
operators, crashes and the outcome of a phase are not fair: a job settles because attempts
run out, not because the arbiter is kind. Nor is it fair that a write succeeds: the one that ends a step may raise
every time, and `EveryJobSettles` then lets the job wait for the next start (`Abandoned`: its write raised, its
row says "running", no thread has it, and a process is up). Once a process is started again the job settles or is
abandoned anew.

`Phase2!FairSpec`: weak fairness of the pass as a whole, which says that passes keep coming
(the writer loop, retried jobs, the `POST /ingest/phase2` an operator repeats) and that a started
one goes on, and that a reindex that has begun ends. Nothing in it prefers a branch: refusals, raises and deaths (up to
the bound) stay possible, the split sweep and each rebuild in it may fail each time, and the hypothesis tool may stop
between its two writes. `Drained` and `IndexHeals` are properties of a lake that is being ingested into, over an index
whose tables are whole again at last; that they become so is not fair: passes alone do not bring a missing table
back (section 6), a restart, a later rebuild or an operator may.

`Corpus!FairSpec`: weak fairness of each parsing thread, of the end of phase 1 and of a started pass, strong
fairness of the step that starts one, because phase 1 takes the same slot again and again. The limit of a pass is any
number: what a limit leaves over is taken by later passes.

`IdeaUpkeep!FairSpec`: weak fairness of a started job, which may fail at every call to the model; strong fairness
of starting a pass (every ingested article starts one, and the slot is busy in between); and, per idea, strong
fairness of the judge's answer: a model that is asked about an idea again and again answers at last. With as many
ideas it refuses for ever as a pass judges the property fails (section 6: one, and a cap of one); the run has no such
idea, the larger instance of section 3 has one under a cap of two. Edits, the backfill and aborts are not fair.

`Retrieve`, `VaultExport`, `WriterLock`, `JobQueue` and `ThesisIndex` state no fairness: their properties are of safety.

## 5. Proofs

TLAPS checks these for every value of the constants, under the named assumptions of the modules (`LockAssumption`,
`TableAssumption`, `Phase2Assumption`, `IndexAssumption`, `CorpusAssumption`, `UpkeepAssumption`, `VaultAssumption`,
`WorkersAssumption`, `RetrieveAssumption`: the types of the constants, special values outside the sets they are
special for; for the workers that what may be posted is a body under a key, with at least one line; for retrieval that
a lake has finitely many ideas and leaves; and for the index that a batch or snapshot never names a leaf twice, which
its callers guarantee by taking rows keyed by id). `TypeCorrect` is a theorem of each; the queue's is `QueueTypes`,
retrieval's `AnswerTypes`, the lock's a part of `LockInvariant`.

* **`JobQueue_proofs`** – no operation checks its caller, so "the row a worker updates is the row it claimed"
  (`Hands`), "no running row without a worker" (`NoOrphan`) and the account of attempts (`Account`) are proved
  together as `QueueInv`. The exception of `NoOrphan` is exact: a running row of a served queue that no worker has is one whose
last write raised, and none of those is held. Gives `QueueTypes` (attempts stay in 0..MaxAttempts), `ClaimIsExclusive`, `DedupHolds`,
  `GivesUpForCause`, and `QueueImplementsLifecycle`: every step of the queue, prune and recovery included, is a step
  of `JobLifecycle` or a stutter.
* **`IngestWorkers_proofs`** – three parts.
  *The lock* (`WriterLock`, which has names of its own so that one module can extend both). The levels say nothing of
  a process between flock and pid, so `LockInv` ties flock, position and level: who owns the flock is exactly who is
  past flock() or counts a level. Gives `WriterExclusion`, `LockIsAMutex` (the lock refines `WriterMutex`: a writer
  enters an unwritten lake only, and leaves by its last release or by its death), `PidIsTheWriters`, `NestedRelease`
  (an action property).
  *The processes*, any number of them, overlapping as they like. `ProcInv` accounts for the levels of the lock thread
  by thread (`LevelsOf`: one of `start()`, one per pass that links), for the slot and for the threads. Gives
  `OnePass`, `RunningRowsAreHeld` (with the same exception) and `WorkersShareTheMutex`: what the workers count refines the same `WriterMutex`,
  so what they assume of the lock is what the lock gives.
  *The jobs*, under the hypothesis `Alone`, that one process follows another. `JobInv` follows a job from its payload
  over its staging file and its cursor to its leaf: a file belongs to the key it was written for, a pass holds the
  lines of the job in its hands and the cursor is behind it, whatever fails, is retried, stops or dies in between.
  Gives `JobsKeepTheirWork`, `StagedWorkIsKept`, `OkMeansALeaf`, `OkFetchWasTaken`, `TypeCorrect`. `Alone` is needed:
  with two processes TLC refutes the last four (section 6).
* **`Corpus_proofs`** – under the hypothesis that the server is the only process (`Procs = {Server}`), which is
  needed. While a thread is between its read and its replacement the cursor is 0, because phase 1 drops it first and
  holds the slot until its threads are done; while a pass runs the file does not move and `PassInv` ties its rows, its
  mark and what it did to the file. The step that writes the cursor takes the least line not done (`LeastNumber`), so
  what lies before it is done (`Watermark`). `FileInv` follows what each thread has in its hands of the others' lines,
  so that no replacement loses them, whatever is appended side by side. Gives `CursorIsSound` and, under the same
  hypothesis, `LinesOfTheLastParse`.
* **`Phase2_proofs`** – `PassInv`. A line is planned only if its leaf is in no transaction yet, which hangs on the
  hashes seen (`PlanFresh`, `SeenKnown`); a line of the source is always to be read, planned or settled (`LinesKept`,
  for the cursor); whatever is written to the index was read from the store or committed first (`SnapHoldsNoGhost`,
  `HypStored`); the missing pairs are in hand (`PairsInHand`). Gives `StoreHasNoBareIdea`, `IndexFollowsStore`,
  `CursorIsSound`, `CitationIsComplete`, `LinksAreKept`. `IndexInStep` says where in a pass the index agrees with the
  store or is `blind`, and where the rows in hand do; a pass that ends early, a table that is missing and a restart
  lead back to the repair before anything is linked. Gives `ArbiterSeesTheStore`, without a hypothesis.
* **`IdeaUpkeep_proofs`** – `SlotInv`: what a sweep read of an idea stays true until it writes, since only the job in
  the slot moves leaves; what may change under it is the text, and then the idea is in `raced`. With it every write is
  judged against the store of its own moment. `Counts` and `Drift` carry the counter and the vector through land,
  split, derivation, judge and edit; `Earned` bounds the weight of an edge by the leaves of its evidence: an increment
  fits the leaves of its source, and is added only while the source is no evidence. Gives `EdgesAreEarned`,
  `CleanIsJudged`, `CounterBehind`, `DriftIsRace`, `CocitationIsSymmetric`.
* **`ThesisIndex_proofs`** – every statement adds the same rows to both tables or empties one of them, so one table
  always contains the other (`Nested`): equal counts mean equal tables (`CountsAreEnough`). A search that passed the
  check saw `thesis_fts` inside `idx_thesis`, and both only grow together until a table is dropped (`SearchInv`); a
  matrix whose version stands is the file's (`MatrixInv`). Gives `MatrixFollowsFile` and `HitsAreRanked`.
* **`VaultExport_proofs`** – a run creates its build directory before it looks for others, so of two runs past the
  look the second has seen the first (`OnePast`): `SwapsExclude`. Each move of a swap leaves the entries before it new
  and those behind it old, which with `OnePast` gives `FolderIsWhole`; a run passes its first check only over a folder
  whose notes an export wrote, and marks it (`ForeignInv`): `ForeignNotesStay`. A listing is read in pages while the
  lake grows, and `ReadInv` says what the pages read so far and those to come make of it (`ReadersKnowTheLake`): what
  is swapped in has a note for each node that was counted and for no other, and the two ends of each leaf agree
  (`TheSwapIsTheLake`).
* **`Retrieve_proofs`** – the scan of the candidates is a recursive function, and what it returns takes an induction.
  The induction theorems of the library take a predicate, which no prover here can instantiate; `Induction` takes a
  set of numbers instead and follows from `WFMin`. With it `Iterates` gives the scan its existence and `ScannedIs`
  what it returns: it has filled the answer or looked at all candidates, and took no more without trust than the
  quota. `StoreInv` says that the store never loses an idea and index and edges follow it, so that a request whose
  reads are interleaved with a job's writes never reads of an idea that is not there; `RoomLeft`, `Targeted` and
  `Answered` say what the request knows behind each of its reads. Gives `ShortAnswersAreComplete`, `QuotaIsRespected`,
  `LogKeepsTheAnswer`, `NothingReadIsGone`, `AnswerTypes`.

Some of the proved results are not in a run any more, because a stronger neighbour is: the type invariants,
`NoBareIdea`, `LeavesStay`, `EdgesBothWays`.

Only model-checked: all liveness (`EveryJobSettles`, `Drained`, `IndexHeals`, `EveryLineIsOffered`,
`EveryIdeaIsJudged`; the prover does neither fairness nor ENABLED), and the operators of `RunLog` and `Fusion`, which
fold over sequences and are evaluated over bounded inputs. `Clusters` in `IdeaUpkeep` and the bisections of `Phase2`
are used by the proofs only through the guards of their splits: a non-empty, proper part of the leaves moves. Every
safety property of a passing run is a theorem, for all constants; those of the jobs and of the corpus file for one
process at a time.

## 6. Where code and its promises disagree

One is a run that expects a violation of a sentence of the repository, quoted in `findings`:
`index_repair`, `index.py:374` – the DROPs of `_rebuild` commit on their own; a failure after them
leaves the index empty.

The others are stated in their modules and kept out of the runs; where a row says "without", the property of a run loses
the exception it states. Each is refuted when it takes the
place of the properties in the configuration named, as an INVARIANT unless it says otherwise (a PROPERTY without `SYMMETRY`). (A) is `IngestRun.cfg`
with `Posts <- PostOneRun`, `MaxStarts = 1`; (B) is `Phase2.cfg` with `Syntheses = {}`, `MaxAborts = 0`; (C) is `Phase2.cfg` with `Staging <- ShortStaging`, `MaxLeaves = 1`, `MaxAborts = 0`.

| property | configuration | line | what happens |
| --- | --- | --- | --- |
| `QueuedRunHasPayload` | (A) | `api/workers.py:151` | the clean-up of a finished run deletes the payload a re-post of the same id has just written |
| `OkRunCovered` | (A) | `ingest/runlog.py:484` | a re-posted batch inherits the cursor of its failed predecessor and can end "ok" over a source it never took |
| `StagedHasStaging` | `IngestRun.cfg` | `ingest/run.py:475` | death between the unlink of the staging file and `finish()`: the job is recovered to "staged" without its file and ends failed although its work is in the graph |
| `AnswerIsYours` | `IngestRun.cfg` | `queue.py:167` | `/fetch` and `/run` share one dedup namespace; a batch is answered with a fetch job and dropped |
| `StagedKeepsItsWork` | `IngestOverlap.cfg` | `api/workers.py:395` | the fetch thread that outlived `stop()` drops the staging file of a job the next process has staged |
| `OkFetchOffered` | `IngestOverlap.cfg`, `MaxJobs = 2` | `api/workers.py:395` | the same thread moves files and cursor under a pass of the next process |
| `TypeOK` | `IngestOverlap.cfg` | `queue.py:233` | the same thread stages the row the next process has claimed; its attempts go to 0 and the claimer's `release()` takes one more |
| `JobInOneHand` | `IngestOverlap.cfg` | `api/workers.py:395` | `stop()` releases the lock over a live fetch thread; the next process hands its job out again |
| `CursorSkipsNothing`, `NothingLost` | `Corpus.cfg` with `Procs = {server, cli}` | `ingest/run.py:41` | the command-line phase 1 takes no slot and rewrites the file under a running pass |
| `OutcomeKept` | `Corpus.cfg` | `neo4j_store.py:309` | `write_source` replaces the whole node: a reported outcome is overwritten by the copy in the staging line |
| `LinkSeesTheStore` without `~blind` | (B) | `ingest/run.py:300` | a rebuild that raises after a committed split is swallowed, and the next source is linked over that index |
| `TablesHeal` (PROPERTY) | `Phase2Live.cfg` | `index.py:375` | "Repaired by the next phase2 pass" (`split.py:146`): a rebuild that raises between its DROPs and CREATEs leaves the index without a table, and every later pass of that process raises at its first look into it |
| `RunningIsHeld` without `lost`, `EveryJobSettles` without `Abandoned` (PROPERTY) | `IngestRun.cfg`, `IngestOverlap.cfg` | `api/workers.py:332` | a raise of `finish()`, `retry()` or `release()` while a failure, a busy slot or the end of a job is recorded (lines 146, 149, 301, 320) reaches `_loop()`, which prints it: the row says "running" until the next start |
| `HypothesisFindable` | (C) | `ingest/split.py:140` | a rebuild from rows read earlier drops a hypothesis indexed in between |
| `PendingIsNowhere` | `Phase2.cfg` | `ingest/link.py:91` | a refused thesis that a retry links stays in `pending_link.jsonl` |
| `RepeatIngestSamePairs` (PROPERTY) | `Phase2.cfg` | `ingest/run.py:292` | a repeated ingest after a split co-cites other ideas than the first did |
| `VectorFitsText` | `IdeaUpkeep.cfg` | `ingest/rederive.py:69` | an edit between the read and the write of a re-derivation: the old text's vector beside the new text |
| `OverTriggerIsDirty` | `IdeaUpkeep.cfg` | `ingest/run.py:613` | the judge lowers the flag of an idea whose re-derivation is due and was not reached |
| `EveryIdeaIsJudged` (PROPERTY) | `IdeaUpkeep.cfg` with `Refused = {l1}` | `ingest/trust.py:190` | an idea the model never answers for stays the oldest dirty one and, at a cap of one, holds back all others |
| `BrokenIsNotEmpty` | `Retrieve.cfg` | `retrieve/api.py:205` | the index is counted, a repair drops it and fails, the search finds nothing: an empty answer and not an error |
| `LagIsNotAWipe` (PROPERTY) | `Retrieve.cfg` | `retrieve/api.py:205` | the first leaf of a lake between store and index is reported as a wiped index |
| `NewIdeaIsSeen` | `ASSUME WindowHidesNewIdea` | `ingest/link.py:98` | "the next thesis of this source must be able to see this idea": ten ideas that are in the index and in the batch fill the window of ten before a new idea that is closest of all |

With two batches posted under one id with disjoint sources, two processes and one attempt also end a job "ok" without a leaf
(`OkHasLeaf`): the thread of the first parses the payload of the second batch, stages its own row, which the recovery
had given up, and that row ends "ok" over lines that are not its own.

What mends a missing table depends on which one it is. `_con()` creates tables when a process opens the index
(`index.py:37-50`) and not again. A restart mends an index without either table or without `thesis_fts`; without
`idx_thesis` alone it creates an empty one beside the old rows of `thesis_fts` ("orphans"), where counts differ and
each insert clashes. `ops.reindex` begins with `index.count()` (`ops.py:155`), which needs `idx_thesis`, so the repair
of "a degraded health check" raises exactly where that table is missing; after a restart it mends the orphans. A rebuild
that succeeds later in the same sweep mends all of them.

Found in reading, with no definition of their own: the audit log of a hypothesis says
`persisted: false` when the index raises after the commit (`idea_merger.py:295`); a split of a synthesized idea gives its
leaf to a child of origin "extracted", which may then be a parent of further hypotheses (`ingest/split.py:119`).

## 7. What is not modelled

* Text work: fetching, parsing, prompting, embedding, leak terms, code names, the reading of a CSV, trace files. A
  call is a choice between an answer and an exception.
* Reading routes, listings, authentication, schemas, the loader of a remote graph: no state of the running system.
  The throttle is one dictionary under one lock, in one function.
* The self-checks, the end-to-end console and the demo. They are more than half of the lines of the
  implementation, test or show it, and have nothing of their own to check; the share of lines the map
  covers is low for that reason.
* The research agent: a loop with a fixed number of rounds over searches; its only writes are POSTs to the queue.
* The sampling of parents, the `derived_from` edges and the depth limit of the hypothesis merger: it appears by its two
  writes (`Phase2`) and by its backfill (`IdeaUpkeep`).
* The dial of the index (a projection), BM25 and cosine as numbers, the rewriting of queries and its cache, the ring of
  `api/jobs.py`.
* Two writes in one step. When `finish("ok")` raises after its UPDATE and before its prune, the row reads "ok" for a
  moment and then "failed"; `Finish` shows the second only.
* An exception in the append of a phase 1 that lives on (`ingest/run.py:146-147`, a full disk): it loses the lines it has
  just taken out, as the death between the two steps does, which is modelled. `NothingLost` excuses the death by
  `cut` and would have to excuse this too.
* Ideas ingested before there was a judge, clean with a score nobody gave (`ingest/trust.py:156-161`): `IdeaUpkeep` starts
  with an empty lake.
* A human who adds notes to an unmarked folder between the first check of an export and its marker: they are lost at
  `_clear`.
* `workers.start()` called a second time in one process after a stop that timed out: no caller does.
* Power loss inside SQLite or Neo4j: a committed transaction stays committed.

## 8. Plan

Done: lock, queue and its lifecycle, workers, run-log conversion, corpus file, linking pass, upkeep, index, fusion, retrieval, export;
the proofs of section 5: every safety property of a passing run.

Next, the most important first:

1. An abstract lake, a set of linked theses that only grows, with `Phase2` and `IdeaUpkeep` shown to refine it; an index
   as a function of the store, refined by `ThesisIndex` in the absence of failed rebuilds.
2. `Fusion` and `RunLog` as recursive functions, with what they return proved by the induction of `Retrieve_proofs`.
3. `Synthesis`: parents, `derived_from` edges and depth of `idea_merger.py` beside splits.
4. `JobSlot`: the ring of records and its eviction; `Throttle`; the loop of the research agent.
