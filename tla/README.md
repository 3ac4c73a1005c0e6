# Verification of bisfin in TLA+

bisfin keeps point-in-time-correct market data in PostgreSQL and backtests on
frozen extracts of it. This directory models the parts that decide whether that
data can be trusted: who may write what, what survives a failure, and which
evidence a reader gets. Modules are checked by TLC on small instances and by
TLAPS for every instance where a theorem exists. Paths such as
`ingestion/service.py` are relative to `src/bisfin/` in the repository;
`PROJECT.json` maps every definition to its lines.

## 1. The system

| component | state it keeps | operations | talks to |
|---|---|---|---|
| daily-bar ingestion (`ingestion/service.py`) | `ingest.ingestion_batch`, `ingest.raw_event`, `market.bar_series`, `market.bar_revision`, month partitions | `ingest()`: transaction A (start), provider call, B (acquisition), C (canonicalization), two failure handlers, replay by request id | BrsApi client, parser, repositories through a unit of work |
| BrsApi client and parser (`integrations/brsapi/`) | none | fetch, parse envelope, validate rows, duplicate policy | ingestion, catalog bootstrap |
| catalog bootstrap (`catalog/bootstrap.py`) | catalog tables, a batch and raw events of its own | start, symbol validation, evidence, apply, fail, replay | catalog writer repository, BrsApi symbol client |
| calendar import (`calendar/importer.py`) | `catalog.trading_session`, a batch and raw events | start, evidence, locked session upserts, fail, replay | trading-calendar repository |
| point-in-time reads (migration 0003, `bar_repository.py`) | none | `market.bars_as_of` in public and system mode | every reader |
| snapshot builder (`snapshots/builder.py`, `artifacts.py`) | `catalog.data_snapshot(_component)`, staging and final directories | build: look up or replay, insert BUILDING, export, manifest, publish, freeze; clean up, mark FAILED | bar tables (read), file system |
| snapshot verifier (`snapshots/verifier.py`) | none | compare row, files and database | backtest service |
| backtest engine (`backtest/engine.py`, `selector.py`, `accounting.py`, `strategies.py`) | portfolio, pending orders, decisions, fills | one event loop over visibility instants | artifact files only |
| backtest service and run repository (`backtest/service.py`) | `backtest.run` and bindings | preflight, QUEUED, RUNNING, simulate, persist, SUCCEEDED or FAILED, replay | verifier, engine, ledger |
| backtest ledger (`backtest_ledger_repository.py`, migration 0002) | orders, fills, cash, lots, marks | persist, with deferred accounting triggers | backtest service |
| unit of work (`db/unit_of_work.py`, `transaction.py`) | one connection and transaction | enter, commit, roll back, exit | all services |
| configuration, logging, CLI, DTOs, manifests, migration registry | none that a property is about | | |

The processes share nothing but the database and the artifact root. Each caller
is synchronous; concurrency comes from several of them running at once.

### What is hard, and what makes each part correct

* **Ingestion.** Batches of several workers meet at the same bars, months and
  series; a transaction can fail after part of its writes, a commit can succeed
  without its acknowledgement, a worker can stop anywhere. Correct means: one
  worker per batch; a final batch is final; bars come only from batches that
  ended SUCCEEDED or PARTIAL, all at once; revision numbers have no gaps and
  neighbours differ; nothing is available before it could have been known; every
  started batch ends.
* **Parser.** Rows arrive in any order, repeated or contradictory. Correct
  means: the result does not depend on order or repetition, and everything it
  lets through satisfies the table's checks (one refused INSERT would fail the
  whole reply).
* **Snapshots.** Components are read while ingestion commits; the directory is
  published before the row is frozen. Correct means: a frozen row always
  verifies, its components are one cut of the database, evidence never changes,
  one builder per code, failures leave nothing half-recorded.
* **Backtests.** Bars become visible in any order, together or corrected; orders
  wait for bars and compete for cash; the schedule grows while the loop walks
  over it. Correct means: decisions use only what was visible and the books their
  due fills leave, no order vanishes between decision and fill, the loop ends, and
  what is written afterwards passes the triggers and adds up.
* **Runs.** Calls race for a run code and for the one version of the strategy;
  three transactions lie around the simulation, and each may fail or lose its
  acknowledgement. Correct means: no half-recorded run, equal specifications have
  equal results, every call returns.
* **Catalog and calendar.** Several writers meet at references, symbols, ISINs
  and sessions, each under advisory locks; manifests arrive in any order. Correct
  means: the history of an instrument stays one chain, a failed batch leaves
  nothing but its evidence, every batch ends, nobody waits in a circle.

`PROJECT.json` lists the hazards one by one, each at its line, with the property
that watches it or the reason none does yet.

## 2. Modules

| module | models | kind |
|---|---|---|
| `DailyBarParser` | `parse_candlestick_envelope`, `parse_unadjusted_daily_candles` | pure operators |
| `DailyBarPayloads` | a response body, built of any rows in any order, and its parsing | state machine |
| `DailyBarIngestion` | `BrsApiDailyBarIngestionService` and its repositories | state machine |
| `BarHistory` | what readers of `bar_revision` may rely on | abstract specification |
| `DailyBarIngestion_proofs` | types, batches, publication and times of `DailyBarIngestion` | proofs |
| `DailyBarRevisions_proofs` | its revisions, verdicts, replies, the refinement of `BarHistory` and its lock order; extends the one above | proofs |
| `DailyBarParser_proofs` | the parser, for payloads of any rows and length | proofs |
| `BacktestLedger_proofs` | the engine, the ledger and the replay | proofs |
| `SnapshotBuilder_proofs`, `BacktestRuns_proofs`, `CatalogBootstrap_proofs`, `CalendarImport_proofs` | theorems about these modules | proofs |
| `SnapshotBuilder` | `SnapshotBuilder.build`, artifact writer, repositories, verifier comparisons | state machine |
| `ArtifactBarSelector` | `backtest/selector.py` | pure operators |
| `ReferenceEngine` | `ReferenceBacktestSimulator.simulate`, portfolio, strategy | state machine |
| `PointInTimeReplay` | two calls of `simulate` side by side on two datasets | composition |
| `BacktestLedger` | what `persist()` writes of a finished simulation, and the triggers of migration 0002 | composition with `ReferenceEngine` |
| `BacktestRuns` | `ReferenceBacktestService.run` and the run repository | state machine |
| `CatalogBootstrap` | `CatalogBootstrapService.bootstrap`, the catalog writer, the overlap triggers | state machine |
| `CalendarImport` | `TradingCalendarImportService.import_calendar` and its repository | state machine |
| `MCDailyBarIngestion`, `MCDailyBarParser`, `MCSnapshotBuilder`, `MCReferenceEngine`, `MCPointInTimeReplay`, `MCBacktestLedger`, `MCBacktestRuns`, `MCCatalogBootstrap`, `MCCalendarImport` | instances for TLC | model checking |

`MCDailyBarIngestion` composes the parser with the service: the provider replies
it gives to `DailyBarIngestion` are computed by `DailyBarParser` from payloads.
`DailyBarIngestion` instantiates `BarHistory` with a refinement mapping.
`BacktestLedger` extends `ReferenceEngine`: its steps begin where the engine's end,
so what is recorded is a journal the engine really made. `BacktestRuns` stands
beside it: whether a simulation can be recorded is its constant `Runnable`, and
what it meets in the database is its subject.

A definition whose comment begins "Faulty variant" is no part of a
specification. It is a plausible mistake in the definition below it, kept to show
that a property notices it; `PROJECT.json` pairs them under `mutants`.

### DailyBarIngestion and the code

`batch`, `raw`, `revisions`, `series` and `partitions` are committed tables.
`job` holds the locals of a call and the uncommitted writes of transaction C,
`held` its locks, `pc` the place in `ingest()`. `reply` is what the caller was
told.

| action | code |
|---|---|
| `CreateBatch`, `RejectRequest`, `ReplayResult` | transaction A, `_start_batch`, `create_batch_if_absent` |
| `FetchAndParse` | the provider call, with every `except` branch of `_run_started_batch` |
| `PersistAcquisition`, `PersistEmptyAcquisition` | transaction B |
| `FinalizeNoData`, `FinalizeExpectedFailure` | the expected endings without canonicalization |
| `ValidateRows` | first loop of `_canonicalize` |
| `LockMonth`, `CreatePartition` | `ensure_month_partitions`, `market.create_bar_month_partition` |
| `StampRow`, `EnsureSeries`, `LockBar`, `AppendRevision` | second loop, one step per lock it may wait for |
| `FinishBatch` | the finalizing UPDATE and commit of C |
| `MarkCanonicalizationFailure`, `MarkStartedFailure` | the two exception handlers |
| `FinalizeRejected`, `UnexpectedError`, `DeadlockVictim`, `Crash` | failures: a CHECK or a status guard refuses, a statement or commit fails, PostgreSQL aborts a deadlock, the process stops |
| `Tick`, `StepClockBack` | the wall clock |

A, B and the finalizing transactions touch only rows of their own batch, so each
is one step; C is one step per lock and per row because that is where workers
meet. A commit has three outcomes: applied, rolled back, and applied but
reported as failed.

Abstractions: OHLCV values are small tuples; `Stored` is the rounding of
NUMERIC(38,18); the catalog and the calendar are the constant function
`Resolution`; PostgreSQL's lock manager is a conflict table and a deadlock
detector without queueing order; creating a raw-event partition is inside the
single step of B. A failure of A before its commit leaves nothing and is not an
action. `KeyboardInterrupt` and the like escape both `except Exception` clauses
and behave as a crash.

### SnapshotBuilder and the code

`snapshot` is the row and its components, `directory` and `staging` the file
system, `log` the commits of ingestion in order, so that a REPEATABLE READ view
is a prefix of it. `Lookup` is the first transaction (with `_resolve_existing`),
`CreateBuilding` the insert under the unique constraint, `ReadComponent` one
round of `_build_components`, `WriteManifest`, `Publish` (the rename), `Freeze`,
and for the failure path `Cleanup` and `MarkFailed`. `ArtifactIssues` and
`Drift` are the verifier's two comparisons. Content stands for its hash. One
output root serves all callers. `DEPRECATED`, which no code sets, is left out.

### ReferenceEngine and the code

`upcoming` is the part of `all_times` the index has not reached, `pending` the
dictionary of orders by execution instant, `filling` and `deciding` what the two
inner loops have left, `decisions`, `orders` and `fills` the journal. `data` is
chosen from `Datasets` at the start and never changes.

| action | code |
|---|---|
| `NextInstant` | one round of the `while` loop: `pending.pop`, sorted by `semantic_key`, and the decision events of the instant |
| `FillOrder` | `price_fill` and `apply_fill` for one order, or the `continue` after a refusal |
| `Decide` | one decision: inputs, strategy, sizing, `next_execution_bar`, scheduling |
| `ValuePositions` | `_final_valuations`, with its error |

Abstractions: instants and amounts are natural numbers; the instances use prices
for which every division is exact, as the code's Decimals are. A position holds
its cost instead of its average cost. The order of semantic keys, which are
compared as text, is `KeyRank`. Rates are not negative and otherwise free, as in
the validators: above 100 % a sale's price, or what it brings, is negative, and so
may cash be (`FillAmount`, `SalesPay`, `Cash`; section 5). Decision hashes are left out: the journal keeps what they are computed from.

`PointInTimeReplay` runs two instances of the engine side by side, each on a
dataset of its own, and compares the journals up to every instant until which the
datasets agree. `NoLookAhead` is stated for execution bars that do not become
visible before ones that open earlier (`PublishedInOrder`; together is allowed).
Otherwise `next_execution_bar`, which searches by opening, waits for a bar whose
late publication is not known yet, and two runs that agree so far may differ. The
instances include such datasets, and without the condition the run fails.

### BacktestLedger and the code

`ledger` is what the run has in the database: nothing, everything, or FAILED.
`Persist` is `persist()` with `mark_succeeded` in its one transaction; one operator
per table says which rows it writes (`DecisionRow`, `SignalRow`, `OrderRow` with
`OrderEvents`, `FillRow`, `CashEntries`, `PositionLedger`, `TradeRow`,
`SnapshotRow`, `EquityPoint`) and `Summary` is `_summary`. `Recordable` is what may
go wrong: no first event, a sale without an entry, or a trigger or check of
migrations 0001 and 0002 (`DatabaseAccepts`); then `MarkFailed`. Identifiers, hashes and
metadata are left out, and amounts are not rounded.

### BacktestRuns and the code

`run` and `ledger` are committed rows by run code, `strategy` the registered hash
of `strategies.py`, `inserted` the rows a call has inserted and not committed,
which make others wait.

| action | code |
|---|---|
| `Prepare` | `_preflight` and `_load_selectors`: read only |
| `RequireRunnable` | `require_runnable`: replay, in progress, conflict |
| `RegisterStrategy` | `ensure_strategy_version` |
| `CreateQueued` | `resolve_universe_id`, `validate_instrument_series`, `create_queued`, `insert_bindings` |
| `CommitQueued`, `RollBackQueued` | the commit of the first transaction and its failure |
| `MarkRunning`, `Simulate`, `Persist` | the second transaction, the simulation, the third transaction |
| `RollBack`, `FailBeforeRun`, `Crash`, `RemoveArtifact` | failures |
| `MarkFailed` | `_mark_failed`, whose own failure is swallowed |

A result is named by what determines it, the semantic specification of the run
and the source of the strategy; that this determines it is `NoLookAhead` and the
determinism of `ReferenceEngine`.

### CatalogBootstrap and the code

`catalog` holds the committed rows: references, instruments, identifier intervals
and specification versions, keyed as their primary keys are. `work` holds the
uncommitted rows of transaction C, `locks` its advisory locks.

| action | code |
|---|---|
| `Begin` | transaction A: audit provider and feeds, `create_batch_if_absent`, replay |
| `RecordEvidence` | `_validate_symbols` and transaction B |
| `EnsureReference` | `ensure_currency` to `ensure_timeframe`, one lock after the other |
| `LockSymbol`, `ResolveInstrument` | `apply_instrument`: locks, look-up by ISIN before symbol, creation, conflicts |
| `Rename` | `_apply_rename` |
| `Specify` | `_apply_specification` |
| `CommitCatalog` | `finalize_batch` and the commit of C |
| `FinalizeFailure` | `_finalize_failure`: FAILED after a conflict, QUARANTINED after a failed check |
| `Fail` | a statement, a commit or the process fails |

`Overlaps` is the trigger on identifiers. One provider owns all identifiers and all
instruments are on one venue; attributes that are only compared together are one
value. Every manifest names all reference rows, where the code allows any of them:
they are locked in one order either way. The trigger on specifications is never reached, because
`_apply_specification` itself allows only adjacent versions. Universe members,
which the bootstrap does not write, are left out.

### CalendarImport and the code

`session` is `catalog.trading_session` of one venue, whose row `BootstrapVenue`
writes. `Begin`, `RecordEvents` are transactions A and B; `LockSession` is one round
of `acquire_session_locks`, `EnsureSession` one of `ensure_session`, `Conflict` its
error, `CommitSessions` the end of C, `FinalizeConflict` the handler. A session's
times, settlement date and metadata are one value.

## 3. Runs

| run | instance | result |
|---|---|---|
| `ingest_safety` | 2 workers, 2 requests, 2 months of which one has no partition, up to 2 faults per request, 1 crash, fairness | passes, about 138,000 states |
| `ingest_clock` | 2 workers, 2 requests, 2 instruments with new series that exchanged their symbols, 5 months of which one has no partition, duplicates, a closed day, an unknown day, a clock that steps back | passes, about 428,000 states |
| `parser` | all payloads of up to 3 rows from a set with one row per validation rule | passes, about 101,000 states |
| `snapshot_safety` | 2 builders, 2 codes, 2 specifications, 2 faults at any place, 1 crash, an occupied directory, fairness | passes, about 510,000 states |
| `backtest_ledger` | 2 instruments, about 12,500 datasets: 4 bars with any closes at any instants, corrections, 5 bars one by one, executions from another series that lack a bar, have one more or are visible earlier; cash that two buys may exhaust; from the first decision to the tables | passes, about 186,000 states |
| `engine_replay` | every pair of 144 datasets of 3 or 4 bars, one by one with or without a correction, together, late, or crossed | passes, about 175,000 states |
| `backtest_runs` | 3 calls, 2 codes, 3 specifications of which one cannot be simulated and one not resolved, 2 installed programs, up to 2 faults of one call, crashes of all, fairness | passes, about 394,000 states |
| `catalog_bootstrap` | 3 calls, 2 ISINs, 3 symbols, times 0 to 3, 11 manifests, 3 reference rows, a fault, fairness | passes, about 87,000 states |
| `calendar_import` | 3 calls, 3 dates, ranges that overlap in one, two and three dates, up to 2 faults per call, fairness | passes, about 40,000 states |
| `ingest_asof`, `engine_settled`, `ledger_trade_pnl` | smallest instances that show a disagreement | violated, see section 5 |

What the properties say, beyond types:

* `RevisionsPublished`, `VerdictsAgree`: a rolled-back C leaves nothing; batch
  headers, verdicts on raw events and revisions agree, and a revision belongs to
  the instrument its symbol named that day.
* `RevisionsWellNumbered` (no gap, no repetition, neighbours differ) and
  `CommittedRowsAreNewest`: the bar lock and the read after it do their work.
* `FinalBatchesAreFinal`, `RepliesStayTrue`: request ids are idempotent and
  errors truthful, lost acknowledgements included.
* `SortedLocksNeverDeadlock`: months, and bars under them, are locked without
  circles; every deadlock of transaction C has someone in it who waits for the table
  that the creation of a partition locks, or for a series that is being created.
  Both kinds occur in `ingest_clock`.
* `StartedBatchesEnd`: a started batch ends unless its worker stops or a handler
  fails too.
* `AvailabilityOrdered`: no time precedes what it depends on, even when the clock
  is set back.
* `ImplementsBarHistory`: the refinement.
* `OrderAndRepetitionIgnored`, `CandidatesPassTableChecks`: the parser.
* `FrozenVerifies`, `ConsistentCut`, `EvidenceIsImmutable`, `NoHalfBuilds`,
  `CodesAreClaimedOnce`, `BuildsEnd`: snapshots.
* `BooksBalance`: decisions, cash, positions, realized results and the journal of
  fills tell the same story, refusals included.
* `TimelyRunsAreRecorded`: no order lost, the target kept, signals and orders in
  agreement, no sale refused and, unless slippage is above 100 %, no run refused by
  the database, for instruments without lag whose execution bars become visible one
  by one and whose signal bars are among them, visible at the same instants
  (`OneByOne`). Without that condition it fails: section 5.
* `LedgersTellOneStory`: cash entries, position entries, trades, snapshots, equity
  and summary add up to each other.
* `LoopProgresses`: each step of the loop moves on, so it ends.
* `NoLookAhead`: what the engine decided and filled by an instant does not depend on
  later rows, neither new bars nor corrections.
* `FailuresLeaveNoHalfRun`: SUCCEEDED exactly with a ledger, and a run is left
  RUNNING or QUEUED only by a crash or as many failures as that takes.
* `ResultsAreReproducible`: a result, recorded or returned, is what its
  specification and the registered strategy give.
* `CallsReturn`: no call waits for ever for rows another has not committed, and no
  transition finds its run changed by another.
* `HistoriesAreChains`: symbols and specifications of an instrument follow each
  other without gap or overlap, each instrument has one ISIN for ever, and no
  identifier has two owners at a time.
* `HistoryIsAppendOnly`, `SuccessMeansResolvable`: intervals only ever get closed;
  when a bootstrap succeeds its instruments resolve, by ISIN and by symbol, to one
  another.
* `OnlySucceededWrites`, `SucceededIsStored`: a catalog row is written exactly when
  its batch succeeds. Every step that adds an instrument, a name, a specification or
  a reference, or closes a name or a specification, is the one by which a batch
  becomes SUCCEEDED, with its evidence, and each of these rows is stated by an item of
  that batch's manifest for that instrument; only the audit provider is written with
  the batch (`Starts`). And all that the manifest of a SUCCEEDED batch states is there
  and stays, whatever later bootstraps rename or close.
* `CalendarIsSound`: the calendar is exactly what the successful batches state, and
  no session is inserted by two transactions.
* `BatchesEnd` (in both): a batch ends, a conflict included, unless its call failed
  (for the catalog: or the database refused a row).

**Bounds.** Conflicts between batches are pairwise, so two workers reach them. Two
faults per request are what it takes to fail a step and then its handler, and a
third has nothing left to hit. Two values per bar give a first reading, a
correction and its reversal. Two commits of ingestion fall before, between and
after the reads of two components. In the engine the strategy compares two
closes, so four bars give a buy, its fill, a sale and its fill, and five a second
buy. The engine is deterministic: a run over all datasets of a shape is all it
can do with them. Three calls of the other services are one that has committed and
two that race, or a cycle of three. Three references have the provider, one before
it and one after it; three symbols allow a rename, another, and a name taken in the
meantime. `MaxFaults`, `MaxCrashes`, `MaxClock` and the faults per call are the only
caps, and they are constants. Symmetry is used only in runs without liveness, over
workers and requests, which no definition tells apart.

**Fairness.** Weak fairness of `Proceed` for each worker, builder or call: a running
synchronous call keeps executing, and PostgreSQL ends every deadlock (in the
ingestion; in the other modules there is none). `Proceed` includes no failure
of a statement and no crash, except that a commit may be applied without being
acknowledged. Nothing is assumed of callers, of the clock, of ingestion (for
snapshots) or of faults. Weak fairness is enough because a call waiting for a lock is
only ever waiting for another running one, whose own step is fair, or is in a
deadlock; it cannot be overtaken for ever, because requests are finite and each is
run once.

## 4. Proofs

TLC checks the instances of section 3; the theorems hold for every number of
workers, calls, requests, rows, codes, values, faults and crashes.

| module | theorem | statement |
|---|---|---|
| `DailyBarIngestion_proofs` | `TypeCorrect` | `TypeOK` |
| | `FinalBatchesNeverChange` | no step changes a final batch or its raw events |
| | `BatchesHaveOneWorker` | `OneWorkerPerBatch`: two calls never run one batch |
| | `OnlySuccessPublishes` | `RevisionsPublished` |
| | `AvailabilityNeverEarly` | `AvailabilityOrdered`, with a clock that may be set back |
| `DailyBarRevisions_proofs` | `EveryRevisionTraceable`, `NumbersAreGapless` | a conjunct each of `VerdictsAgree` and `RevisionsWellNumbered` |
| | `RevisionsAreChanges` | `RevisionsWellNumbered`, if no value is rounded |
| | `CommitsAreNewest` | `CommittedRowsAreNewest` |
| | `IngestionImplementsBarHistory` | `ImplementsBarHistory`, if no value is rounded |
| | `HeadersVerdictsRevisionsAgree` | `VerdictsAgree` |
| | `CallersAreToldTheTruth` | `RepliesStayTrue` |
| | `SortedLocksAreSafe` | `SortedLocksNeverDeadlock` |
| `DailyBarParser_proofs` | `OrderIsIgnored`, `CandidatesPass` | `OrderAndRepetitionIgnored`, `CandidatesPassTableChecks` |
| | `RepliesAreWellFormed` | what the ingestion assumes of a reply, of everything the parser returns |
| `SnapshotBuilder_proofs` | `TypeCorrect`, `ClaimedOnce`, `FrozenAlwaysVerifies`, `CutsAreConsistent`, `NothingHalfBuilt`, `EvidenceNeverChanges` | `TypeOK`, `CodesAreClaimedOnce`, `FrozenVerifies`, `ConsistentCut`, `NoHalfBuilds`, `EvidenceIsImmutable` |
| `BacktestRuns_proofs` | `TypeCorrect`, `NoHalfRuns`, `Reproducible` | `TypeOK`, `FailuresLeaveNoHalfRun`, `ResultsAreReproducible` |
| `CatalogBootstrap_proofs` | `TypeCorrect`, `HistoriesChained`, `AppendOnly` | `TypeOK`, `HistoriesAreChains`, `HistoryIsAppendOnly` |
| | `WritesHaveSucceeded`, `SuccessStored` | `OnlySucceededWrites`, `SucceededIsStored` |
| | `SuccessResolves` | `SuccessMeansResolvable`, if a manifest names every ISIN once |
| `CalendarImport_proofs` | `TypeCorrect`, `CalendarAlwaysSound` | `TypeOK`, `CalendarIsSound` |
| `BacktestLedger_proofs` | `EngineTypes`, `EngineProgresses`, `EngineBooksBalance` | `TypeOK`, `LoopProgresses`, `BooksBalance` |
| | `JournalKept` | the journal is consistent: an order belongs to its decision and is filled at most once, at its bar's visibility |
| | `TimelyRecords` | `TimelyRunsAreRecorded` |
| | `LedgersAgree` | `LedgersTellOneStory` |
| | `NothingAhead` | `NoLookAhead` |

**Assumptions**, all evaluated by TLC in the runs:

* `ConstantTypes`, `SnapshotConstants`, `RunConstants`, `CatalogConstants`,
  `CalendarConstants`: the
  constants have the types their comments say, and `None` is none of the values it is
  compared with;
* `EngineConstants`: every component has finitely many rows and at least one, the fast
  window is shorter than the slow one, `EventFrom` is positive and before `EventTo`,
  and rates are not negative. That cash is never negative is stated for rates under
  which a sale never costs more than it brings (`SalesPay`), everything else for all;
* `RepliesWellFormed`: what the parser guarantees of a reply. `RepliesAreWellFormed`
  proves it of `ParseCandles`, up to dates and values being those of the model; the
  ingest runs evaluate it on replies the parser computes;
* `StoredIsStable`: a value that NUMERIC(38,18) has rounded is not rounded again;
* `WorkersFinite`: finitely many calls run at a time.

Two theorems have the hypothesis `Representable`: no value of a reply is rounded when
it is stored. It is needed: `append_revision_if_changed` compares candidates as they
were parsed, so that two readings which are rounded to the same value both become
revisions (section 5). Prices and volumes of the exchange have a few digits, and the
instances satisfy it. Numbering, publication, verdicts, replies and the commit's
comparison do not depend on it.

`SuccessResolves` has the hypothesis `IsinsNamedOnce`, which the manifests of the run
satisfy. Validation does not ask for it, and without it the property fails (section 5).
`OneByOne` and `PublishedInOrder` are part of the properties that need them; many
datasets of the runs satisfy them, and others do not.

**Inductive invariants.** None of the properties is inductive; each invariant below
was checked by TLC before it was proved, and has one lemma per action.

* `TypeInv`, `SafetyInv` (ingestion). That `FinishBatch` writes a typed batch needs the
  worker's verdicts to cover its rows, and that `LockBar` takes a lock of the model
  needs pending rows to be resolved: `JobOK(place, job)` says this for each place of
  the code. `SafetyInv` adds what holds of uncommitted revisions and that a running
  call's batch exists with its symbol. A step keeps every batch it does not own
  (`BatchesKept`); a worker comes by a request only by inserting its batch
  (`RequestsKept`); only the commit of C adds revisions (`RevisionsOnlyByFinish`).
* `RevisionInv`. A row is numbered by what was read before the commit, so its number is
  right only if nothing was committed in between: a worker writes to a bar only under
  the bar's lock, what it has read and written there is a well-numbered history, and a
  row it has canonicalized is the newest of it (`LocksOK`); bar locks are exclusive
  (`BarLocksExclusive`); a reply has one usable row per date (`RowsOK`). From this a
  commit appends at most one change per bar, which is also the step of `BarHistory`;
  the refinement maps a bar to the sequence of its values and a batch to its status.
* `VerdictInv` adds that the counts of a final header are those of its raw events, that
  a running call agrees with what B stored, and that replies name their batch.
* `LockInv` adds that months are locked in ascending order, that a row is written only
  under its month, and that month locks are exclusive. In a group that waits for no
  table and no series everyone waits for a month: a bar is locked only under its
  month, so whoever waits for one would share that month with its holder. Whoever
  holds a wanted month wants a later one, which a finite group cannot keep up
  (`SomeoneIsHighest`, by well-foundedness of strict inclusion of finite sets).
* `SnapInv`. Each builder's place says which row, staging directory and components are
  its own; what it has read is one cut, the visible prefix of the log; a FROZEN row is
  what its directory holds. A reader's cut stays one while ingestion commits because
  the log only grows.
* `RunInv`. Each place of a call is tied to the status of its run and to the failures it
  has met (`Progress`), uncommitted rows exclude each other (`InsertsAreAlone`), and
  what was returned was recorded.
* `CatalogInv`. Transaction C holds the provider's lock from the reference rows to its
  end, so one call at most is behind them and the committed instruments do not change
  under it (`OneApplies`, `OpenKept`). What it reads of its own and the committed rows
  together is sound after every step, except that a new instrument has no
  specification yet (`ViewOK`): the lemmas `CreateView`, `RenameView` and
  `SpecifyView` show that the rows of a step, under the conditions its code and the
  trigger check, keep intervals disjoint and chains whole, and only close or add. Its
  commit therefore publishes a sound continuation of the history. A step keeps what
  other calls rely on (`OthersKept`): a batch is written only by its owner.
  `ResolvedInv` adds that the items a transaction has passed are named by its rows: an
  item closes only rows of its own instrument, which no other item of the manifest
  identifies (`IsinsAreDistinct`), and of the rows of one identifier at most one is
  active, so that the look-up finds it (`OwnerIs`). `WrittenInv` says of the rows a
  transaction has not committed yet that each is stated by an item it has passed, and
  that what these items state is among them; `RefsInv` says the same of references,
  which stay as they are once locked. With what `Continues` says of later commits,
  `StoredInv` follows: what a SUCCEEDED batch stated remains.
* `ImportInv`. What a transaction has ensured lies under its locks, locks are disjoint,
  and the calendar is what the SUCCEEDED batches state. That the next date to lock
  exists needs a least element of a set of numbers (`LeastNatural`).
* `PayloadInv`: the result is that of the payload. Which bars a payload yields is
  shown to depend on the set of its rows alone: a date goes on if its rows are
  accepted and say the same, and of equal rows the first stands for the others
  (that there is a first one is shown by well-foundedness).
* `EngineInv`. Instants to come lie ahead of `now` and belong to a row, waiting orders
  have a bar and a number of their own, orders being tried are those of `now`, and the
  journal is not ahead of it (`ScheduleAhead`, `OrdersWait`, `OrdersDue`,
  `JournalPast`). That a decision sees all fills of its instant rests on it.
* `Books`. `BooksBalance` sums a journal; `Books` says of each prefix what its sum is,
  and a fill changes both sides by the same amount. `CashBooked` says the same of the
  rows that `persist()` will write: fee, tax and price of a fill, booked one by one,
  move the cash by what `apply_fill` moved it.
* `JournalInv` ties orders to decisions and fills to orders; `TimelyInv` says that where
  bars come one by one an instrument has at most one open order, made for the whole
  target, and that its fills are purchases and sales in turn (`TradesAre`). That is
  what no sale without an entry, and no refused trigger, needs.
* `RecordInv`, `StoryInv`: the tables are written once, of a finished simulation, and
  then agree.
* `ReplayInv`. Both calls are `Sound`; up to an instant until which the datasets agree
  the calls differ only in what concerns later ones (`InStep`), and once they are past
  it what they had written by then is the same and stays (`Past`). `NoLookAhead`,
  which speaks of calls that have ended, is not inductive. An order may
  wait for a bar beyond the instant, about which the datasets need not agree: then
  both calls have such an order, or one has none, and in neither is it filled by the
  instant (`OrdersAlike`). Steps are written as a relation between two records
  (`Steps`), which both copies of the engine are shown to satisfy (`FirstSteps`,
  `OtherSteps`), so that one set of lemmas serves both.

**Sums.** The properties of engine and ledger add up sets with the library's folds. The
recursion under them is a function over finite subsets; `SumOf` characterises it as
the one function that adds an element's amount to the sum of the rest, and facts about
sums (of equal, shifted, split or joined families) follow from a smallest subset that
contradicts them (`SmallestSet`, by well-foundedness of strict inclusion).

**Model-checked only.** Liveness (`StartedBatchesEnd`, `BuildsEnd`, `CallsReturn`,
`BatchesEnd`), which the prover does not treat. Every invariant and every action
property of a passing run has a theorem.

## 5. Findings

1. **A correction can stay invisible to `bars_as_of`** (`service.py:623`, run
   `ingest_asof`). Revision numbers follow commits, `available_at` follows
   receipts, and two batches may commit in the other order. The artifact selector
   (`backtest/selector.py:48`) goes by the number and picks the other revision.
2. **An order can be lost** (`backtest/engine.py:215`, run `engine_settled`).
   When signal and execution bar become visible together, as all bars of one
   backfill do, the order waits under an instant whose orders were taken already.
   The ledger calls it INSUFFICIENT_CASH.
3. **Slippage is charged twice to a trade** (`backtest_ledger_repository.py:331`,
   run `ledger_trade_pnl`). `net_pnl` of a round trip subtracts the slippage of both
   legs from a result computed with execution prices, which contain it;
   `_closed_trade_pnls` counts wins and losses with it. With the slippage given
   back the trades explain what the positions realized (`LedgersTellOneStory`).

Met while modelling; a run of the named module with the stated property reaches it,
and it is not kept as one:

* creating a month partition can deadlock (`bar_writer_repository.py:95`): the
  months are sorted ("stable deadlock-safe order"), but `CREATE TABLE ... PARTITION
  OF` also locks `bar_revision` exclusively. PostgreSQL aborts one side, whose batch
  becomes FAILED;
* creating series can deadlock (`bar_writer_repository.py:140`): series are inserted
  in the order of the provider's rows. Two batches that first see two instruments
  under exchanged symbols, with no month in common, each insert one series and wait
  for the other. An attempt to prove that only partitions deadlock led to it;
  `SortedLocksNeverDeadlock` says that nothing else does;
* pending orders are not counted (`backtest/engine.py:184`): with a lag of two bars
  the position passes the target, and a later sale raises "Reference sell has no
  matching entry fill.";
* signals and executions may come from different series (`backtest/engine.py:189`).
  Where the execution series lacks a bar, has one more, or becomes visible earlier
  than the signal, an order waits for a bar beyond the next decision: it can be lost
  or take the position past its target. A proof attempt that did not ask signal bars
  to be among the execution bars led to it;
* fills of one instant follow their decisions (`backtest/engine.py:120`), not their
  instruments as `docs/reference_backtest_engine_fa.md:46` says;
* `_final_valuations` (`backtest/engine.py:273`) values at `event_to` a position
  that includes fills made after `event_to`, so position entries up to the snapshot's
  time do not add up to it (`LedgersTellOneStory` adds up all entries, whatever their
  time);
* cost rates have no upper bound (`backtest/contracts.py:61`) and `apply_fill` asks for
  cash before a buy only (`backtest/accounting.py:87`). With commission and sales tax
  of more than 100 % together a sale makes cash negative (`accounting.py:111`),
  although the portfolio is one of "no leverage" (`accounting.py:73`). With slippage of
  more than 100 % its price is negative, and so are commission and tax, which the
  CHECKs of `backtest.fill` refuse: the run ends FAILED after it was simulated;
* a rename back to a symbol the instrument had on `identifier_valid_from`
  (`catalog_writer_repository.py:299`) finds the old interval, skips the rename and
  ends SUCCEEDED; `docs/catalog_bootstrap_fa.md:9` says an explicit rename opens the
  new interval. A manifest whose `identifier_valid_from` lies in the other symbol's
  interval does rename (`RenameBack` in `MCCatalogBootstrap`);
* a manifest may name an ISIN twice, as validation asks only for unique stable keys
  (`catalog/manifest.py:346`). A later item that renames the instrument from an
  earlier date then takes away the symbol the earlier item stated, and the bootstrap
  ends SUCCEEDED although that item no longer resolves (`SuccessMeansResolvable`);
* a rename locks the previous symbol after the ISIN, a listing a symbol before it.
  Two bootstraps would wait for each other if `_ensure_references` did not take the
  provider's lock first and keep it, which runs the apply transactions of one
  provider one after the other (without that lock `BatchesEnd` is violated);
  `tests/integration/test_catalog_calendar_concurrency.py` calls
  `apply_instrument` without it and expects writes that are not serialized;
* a row the database refuses in a bootstrap, such as a listing dated before the
  interval of the same symbol, is not a `CatalogConflictError`: the batch stays
  RUNNING and its request id cannot be used again (`catalog/bootstrap.py:187`);
* a request id used again with another manifest replays the earlier status under the
  new manifest's name (`catalog/bootstrap.py:132`), and likewise in the calendar;
* running an old manifest again after a change of specification conflicts, because
  the version it states has been closed meanwhile; stating the latest specification
  with an earlier date is accepted and changes nothing;
* a failure between the commit of QUEUED and that of RUNNING leaves a run that
  `_mark_failed`, which asks for RUNNING, cannot fail (`backtest/service.py:133`);
* a clock set back behind `started_at` makes every finalizing UPDATE violate a
  CHECK, and the batch stays RUNNING;
* a crash leaves RUNNING, BUILDING and QUEUED rows that nothing resumes;
* `append_revision_if_changed` (`bar_writer_repository.py:206`) compares unrounded
  candidates with rounded rows, so a price of more than 18 fractional digits adds
  a revision each time it is ingested;
* `cleanup_incomplete` (`snapshots/builder.py:97`) runs unguarded before
  `_mark_failed`; when the removal fails the row stays BUILDING.

## 6. Plan

The state machines above cover the services, and the theorems of section 4 their
safety. What would come next: the symbol metadata of the catalog bootstrap as a
conversion of its own, and a composition of `SnapshotBuilder` with `BacktestRuns`
through the verifier instead of the constant `Runnable`.

**Not modelled.** Configuration, logging, connection and health checks, CLI, DTOs,
table declarations and migration tooling: no state a property is about. Text
normalization, JSON and time-zone parsing and hashing: conversions of one document,
whose outcome is a precondition (`ValidManifest`, `ValidCalendar`, `Dataset`) or a
verdict (`doc.verdict`). HTTP: only the outcomes the service tells apart.

## 7. Running it

    tlc -workers 2 -config ingest_safety.cfg MCDailyBarIngestion
    tlc -workers 2 -config ingest_clock.cfg MCDailyBarIngestion
    tlc -workers 2 -config parser.cfg MCDailyBarParser
    tlc -workers 2 -config snapshot_safety.cfg MCSnapshotBuilder
    tlc -workers 2 -config backtest_ledger.cfg MCBacktestLedger
    tlc -workers 2 -config engine_replay.cfg MCPointInTimeReplay
    tlc -workers 2 -config backtest_runs.cfg MCBacktestRuns
    tlc -workers 2 -config catalog_bootstrap.cfg MCCatalogBootstrap
    tlc -workers 2 -config calendar_import.cfg MCCalendarImport
    tlapm CalendarImport_proofs.tla
    tlapm CatalogBootstrap_proofs.tla
    tlapm BacktestRuns_proofs.tla
    tlapm SnapshotBuilder_proofs.tla
    tlapm DailyBarIngestion_proofs.tla
    tlapm DailyBarRevisions_proofs.tla
    tlapm DailyBarParser_proofs.tla
    tlapm BacktestLedger_proofs.tla
