------------------------- MODULE DailyBarIngestion -------------------------
(***************************************************************************)
(* The BrsApi daily-bar ingestion service (ingestion/service.py) and the   *)
(* repositories it writes through, run by concurrent workers against one   *)
(* PostgreSQL database.                                                    *)
(*                                                                         *)
(* A request runs through three short transactions: A starts the batch,    *)
(* B stores the acquisition (batch header and one raw event per provider   *)
(* row), C validates the rows, appends bar revisions and finalizes the     *)
(* batch.  The provider is called between A and B with no transaction      *)
(* open.  A, B and the finalizing transactions touch only rows of their    *)
(* own batch and are single steps; C takes locks and is a step per lock    *)
(* and per row.  What C has written is in the worker's record until the    *)
(* commit, and is dropped by a rollback.                                   *)
(*                                                                         *)
(* Faults: a statement or a commit may fail (the transaction is rolled     *)
(* back), a commit may be applied and still be reported as failed, and a   *)
(* worker may crash at any point.                                          *)
(***************************************************************************)
EXTENDS Integers, Sequences, FiniteSets

CONSTANTS
    Workers,            \* concurrent callers of ingest()
    RequestIds,         \* request_id values; (feed_id, request_id) names a batch
    Symbols,            \* normalized provider symbols
    Instruments,        \* catalog instruments; each has one daily RAW series
    Dates,              \* Gregorian trading dates
    Months,             \* first days of the months of Dates, as numbers
    Values,             \* canonical OHLCV tuples
    None,               \* SQL NULL, and "nobody"
    Resolution,         \* [Symbols -> [Dates -> SessionResolution \cup {None}]]
    MonthOf,            \* [Dates -> Months]
    Stored,             \* [Values -> Values]: a tuple as NUMERIC(38,18) keeps it
    Replies,            \* [Symbols -> SUBSET Reply]: what a provider call may return
    InitialSeries,      \* instruments whose daily series exists already
    InitialPartitions,  \* months whose bar_revision partition exists already
    MaxClock,           \* bound on the wall clock
    MaxFaults,          \* bound on the faults of one request
    MaxCrashes,         \* bound on the requests whose worker crashes
    ClockMayStepBack    \* whether the wall clock can be set back

SessionResolution == [instrument : Instruments, valid : BOOLEAN, close : Nat]

ParsedRow == [accepted : BOOLEAN, include : BOOLEAN,
              date : Dates \cup {None}, value : Values \cup {None}]

ReplyOutcome == {"rows", "no_data", "provider_error", "malformed",
                 "contract_error", "http_error", "transport_error"}

Reply == [outcome : ReplyOutcome, rows : Seq(ParsedRow)]

\* What DailyBarParser guarantees of a reply: rows come with the outcome
\* "rows" only, an accepted row has a date and values, only accepted rows are
\* canonicalized, and at most one per date.
ReplyWellFormed(reply) ==
    /\ reply \in Reply
    /\ reply.outcome # "rows" => reply.rows = <<>>
    /\ \A i \in DOMAIN reply.rows :
          /\ reply.rows[i].accepted =>
                reply.rows[i].date \in Dates /\ reply.rows[i].value \in Values
          /\ reply.rows[i].include => reply.rows[i].accepted
    /\ \A i, j \in DOMAIN reply.rows :
          reply.rows[i].include /\ reply.rows[j].include
            /\ reply.rows[i].date = reply.rows[j].date => i = j

ASSUME ConstantTypes ==
    /\ None \notin Workers \cup RequestIds \cup Symbols \cup Instruments
    /\ None \notin Dates /\ None \notin Values
    /\ Months \subseteq Int
    /\ MonthOf \in [Dates -> Months]
    /\ Stored \in [Values -> Values]
    /\ Resolution \in [Symbols -> [Dates -> SessionResolution \cup {None}]]
    /\ InitialSeries \subseteq Instruments
    /\ InitialPartitions \subseteq Months
    /\ MaxClock \in Nat /\ MaxFaults \in Nat /\ MaxCrashes \in Nat
    /\ ClockMayStepBack \in BOOLEAN
    /\ None \notin SessionResolution

\* Finitely many callers run at a time.
ASSUME WorkersFinite == IsFiniteSet(Workers)

\* What is rounded already is not rounded again.
ASSUME StoredIsStable == \A x \in Values : Stored[Stored[x]] = Stored[x]

ASSUME RepliesWellFormed ==
    /\ DOMAIN Replies = Symbols
    /\ \A s \in Symbols : \A reply \in Replies[s] : ReplyWellFormed(reply)

VARIABLES
    batch,       \* ingest.ingestion_batch, by request id
    raw,         \* ingest.raw_event: the raw rows of each batch, in order
    revisions,   \* market.bar_revision: committed revisions
    series,      \* market.bar_series: instruments with a daily RAW series
    partitions,  \* months with a bar_revision partition
    held,        \* locks held by the open transaction of each worker
    pc,          \* where each worker is in ingest()
    job,         \* the locals and the uncommitted writes of each worker
    reply,       \* what the last ingest() call of each worker told its caller
    clock,       \* the wall clock the service reads
    faults,      \* faults each request has met
    crashed      \* requests whose worker stopped without running its handlers

tables == <<batch, raw, revisions, series, partitions>>
vars == <<batch, raw, revisions, series, partitions, held, pc, job, reply,
          clock, faults, crashed>>

-----------------------------------------------------------------------------
(* Batches, raw events, revisions, locks and worker state *)

Terminal == {"SUCCEEDED", "PARTIAL", "FAILED", "QUARANTINED"}

Batch == [status : Terminal \cup {"ABSENT", "RUNNING"},
          symbol : Symbols \cup {None}, started_at : Nat,
          received : Nat, accepted : Nat, rejected : Nat]

NoBatch == [status |-> "ABSENT", symbol |-> None, started_at |-> 0,
            received |-> 0, accepted |-> 0, rejected |-> 0]

ValidationStatus == {"PENDING", "ACCEPTED", "REJECTED"}
RawEvent == [row : ParsedRow, status : ValidationStatus]

Revision == [instrument : Instruments, date : Dates, revision_no : Nat \ {0},
             value : Values, available_at : Nat, system_available_at : Nat,
             request : RequestIds]

\* Locks of transaction C: the month and bar advisory locks, the uncommitted
\* bar_series row, and the table lock on bar_revision, which CREATE TABLE ...
\* PARTITION OF takes exclusively and every read or insert takes shared.
MonthLock(m) == <<"month", m>>
SeriesLock(i) == <<"series", i>>
BarLock(i, d) == <<"bar", i, d>>
TableExclusive == <<"table", "exclusive">>
TableShared == <<"table", "shared">>

Lock == {MonthLock(m) : m \in Months} \cup {SeriesLock(i) : i \in Instruments}
          \cup {BarLock(i, d) : i \in Instruments, d \in Dates}
          \cup {TableExclusive, TableShared}

ConflictsWith(lock) ==
    IF lock = TableExclusive THEN {TableExclusive, TableShared}
    ELSE IF lock = TableShared THEN {TableExclusive}
    ELSE {lock}

Canonicalizing == {"month", "partition", "stamp", "series", "bar", "append", "finish"}
Place == Canonicalizing \cup
         {"idle", "fetch", "acquire", "acquire_empty", "finalize_failure",
          "finalize_no_data", "validate", "canonicalization_failed", "started_failed"}

Job == [request : RequestIds \cup {None}, symbol : Symbols \cup {None},
        rows : Seq(ParsedRow), received_at : Nat, status : Terminal \cup {None},
        checks : Seq(ValidationStatus), months : SUBSET Months,
        system_available_at : Nat, accepted : Nat, rejected : Nat,
        revs : SUBSET Revision]

NoJob == [request |-> None, symbol |-> None, rows |-> <<>>, received_at |-> 0,
          status |-> None, checks |-> <<>>, months |-> {},
          system_available_at |-> 0, accepted |-> 0, rejected |-> 0, revs |-> {}]

CallerReply == [kind : {"none", "result", "conflict", "canonicalization_error", "error"},
                request : RequestIds \cup {None}, status : Terminal \cup {None},
                accepted : Nat, rejected : Nat]

NoReply == [kind |-> "none", request |-> None, status |-> None,
            accepted |-> 0, rejected |-> 0]

TypeOK ==
    /\ batch \in [RequestIds -> Batch]
    /\ raw \in [RequestIds -> Seq(RawEvent)]
    /\ revisions \subseteq Revision
    /\ series \subseteq Instruments
    /\ partitions \subseteq Months
    /\ held \in [Workers -> SUBSET Lock]
    /\ pc \in [Workers -> Place]
    /\ job \in [Workers -> Job]
    /\ reply \in [Workers -> CallerReply]
    /\ clock \in Nat
    /\ faults \in [RequestIds -> Nat]
    /\ crashed \subseteq RequestIds

Init ==
    /\ batch = [r \in RequestIds |-> NoBatch]
    /\ raw = [r \in RequestIds |-> <<>>]
    /\ revisions = {}
    /\ series = InitialSeries
    /\ partitions = InitialPartitions
    /\ held = [w \in Workers |-> {}]
    /\ pc = [w \in Workers |-> "idle"]
    /\ job = [w \in Workers |-> NoJob]
    /\ reply = [w \in Workers |-> NoReply]
    /\ clock = 0
    /\ faults = [r \in RequestIds |-> 0]
    /\ crashed = {}

-----------------------------------------------------------------------------
(* Leaving a step: replies, rollback, commit *)

ResultOf(r, b) == [kind |-> "result", request |-> r, status |-> b.status,
                   accepted |-> b.accepted, rejected |-> b.rejected]

Told(kind, r) == [NoReply EXCEPT !.kind = kind, !.request = r]

Return(w, answer) ==
    /\ pc' = [pc EXCEPT ![w] = "idle"]
    /\ job' = [job EXCEPT ![w] = NoJob]
    /\ reply' = [reply EXCEPT ![w] = answer]

\* Faulty variant: a failure of transaction B is taken for one of C.
HandlerCanonicalizesB(place) ==
    IF place \in Canonicalizing \cup {"validate", "acquire"}
    THEN "canonicalization_failed" ELSE "started_failed"

\* The handler an exception raised at a place reaches: the except clause of
\* _run_started_batch around _canonicalize, else the one of ingest().
Handler(place) ==
    IF place \in Canonicalizing \cup {"validate"}
    THEN "canonicalization_failed" ELSE "started_failed"

\* The locals that survive a rollback: the parsed response, not the writes.
RolledBack(j) == [j EXCEPT !.checks = <<>>, !.months = {}, !.revs = {},
                           !.system_available_at = 0,
                           !.accepted = 0, !.rejected = 0]

\* Faulty variant: only the exceptions of _canonicalize are handled.
RaiseUnhandled(w) ==
    /\ held' = [held EXCEPT ![w] = {}]
    /\ IF Handler(pc[w]) = "started_failed"
       THEN Return(w, Told("error", job[w].request))
       ELSE /\ pc' = [pc EXCEPT ![w] = Handler(pc[w])]
            /\ job' = [job EXCEPT ![w] = RolledBack(job[w])]
            /\ UNCHANGED reply

\* An exception leaves the unit of work, which rolls back and releases every
\* lock.  _mark_unexpected_started_failure swallows its own exceptions.
Raise(w) ==
    /\ held' = [held EXCEPT ![w] = {}]
    /\ IF pc[w] = "started_failed"
       THEN Return(w, Told("error", job[w].request))
       ELSE /\ pc' = [pc EXCEPT ![w] = Handler(pc[w])]
            /\ job' = [job EXCEPT ![w] = RolledBack(job[w])]
            /\ UNCHANGED reply

Fault(w) ==
    /\ faults[job[w].request] < MaxFaults
    /\ faults' = [faults EXCEPT ![job[w].request] = @ + 1]

\* The commit of a transaction that is followed by more work, and of one that
\* ends the call.  The second disjunct is a commit PostgreSQL applied but
\* whose acknowledgement was lost: the code sees an exception.
CommitThen(w, place) ==
    \/ /\ pc' = [pc EXCEPT ![w] = place]
       /\ UNCHANGED <<held, job, reply, faults>>
    \/ Fault(w) /\ Raise(w)

CommitAndReturn(w, answer) ==
    \/ /\ held' = [held EXCEPT ![w] = {}]
       /\ Return(w, answer)
       /\ UNCHANGED faults
    \/ Fault(w) /\ Raise(w)

\* Faulty variant: the UPDATE names the batch and not the status it expects.
CanFinalizeAnyStatus(r) == clock >= batch[r].started_at

\* UPDATE ... WHERE status = 'RUNNING' finds its row, and the CHECK
\* finished_at >= started_at of the batch table accepts the clock's time.
CanFinalize(r) == batch[r].status = "RUNNING" /\ clock >= batch[r].started_at

FinalizedBatch(r, status, received, accepted, rejected) ==
    [batch[r] EXCEPT !.status = status, !.received = received,
                     !.accepted = accepted, !.rejected = rejected]

FinalizeBatch(r, status, received, accepted, rejected) ==
    /\ CanFinalize(r)
    /\ batch' = [batch EXCEPT ![r] =
                    FinalizedBatch(r, status, received, accepted, rejected)]

-----------------------------------------------------------------------------
(* Transaction A: _start_batch *)

\* The batch is inserted and A commits.  When the acknowledgement is lost the
\* exception is outside every handler of ingest(): the batch is stranded.
StartBatch(w, r, s) ==
    /\ batch' = [batch EXCEPT ![r] = [NoBatch EXCEPT !.status = "RUNNING",
                                                     !.symbol = s,
                                                     !.started_at = clock]]
    /\ \/ /\ pc' = [pc EXCEPT ![w] = "fetch"]
          /\ job' = [job EXCEPT ![w] = [NoJob EXCEPT !.request = r, !.symbol = s]]
          /\ reply' = [reply EXCEPT ![w] = NoReply]
          /\ UNCHANGED <<faults, crashed>>
       \/ /\ faults[r] < MaxFaults
          /\ faults' = [faults EXCEPT ![r] = @ + 1]
          /\ crashed' = crashed \cup {r}
          /\ Return(w, Told("error", r))

\* Faulty variant: a FAILED batch is run again for its request.
CreateBatchRetry(w, r, s) ==
    /\ pc[w] = "idle"
    /\ batch[r].status \in {"ABSENT", "FAILED"}
    /\ StartBatch(w, r, s)
    /\ UNCHANGED <<raw, revisions, series, partitions, held, clock>>

CreateBatch(w, r, s) ==
    /\ pc[w] = "idle"
    /\ batch[r].status = "ABSENT"
    /\ StartBatch(w, r, s)
    /\ UNCHANGED <<raw, revisions, series, partitions, held, clock>>

RejectRequest(w, r, s) ==
    /\ pc[w] = "idle"
    /\ batch[r].status # "ABSENT"
    /\ batch[r].symbol # s \/ batch[r].status = "RUNNING"
    /\ Return(w, Told("conflict", r))
    /\ UNCHANGED <<tables, held, clock, faults, crashed>>

ReplayResult(w, r, s) ==
    /\ pc[w] = "idle"
    /\ batch[r].status \in Terminal
    /\ batch[r].symbol = s
    /\ Return(w, ResultOf(r, batch[r]))
    /\ UNCHANGED <<tables, held, clock, faults, crashed>>

-----------------------------------------------------------------------------
(* The provider call and transaction B *)

PlaceAfter(outcome) ==
    CASE outcome = "transport_error" -> "finalize_failure"
      [] outcome \in {"rows", "no_data"} -> "acquire"
      [] OTHER -> "acquire_empty"

\* Faulty variant: the exception for malformed JSON has no except clause of its
\* own, and the status stays unset.
FailureStatusUnset(outcome) ==
    CASE outcome \in {"rows", "no_data", "malformed"} -> None
      [] outcome = "contract_error" -> "QUARANTINED"
      [] OTHER -> "FAILED"

\* The status an expected failure is finalized with.
FailureStatus(outcome) ==
    CASE outcome \in {"rows", "no_data"} -> None
      [] outcome \in {"malformed", "contract_error"} -> "QUARANTINED"
      [] OTHER -> "FAILED"

FetchAndParse(w) ==
    /\ pc[w] = "fetch"
    /\ \E answer \in Replies[job[w].symbol] :
          /\ job' = [job EXCEPT ![w].rows = answer.rows,
                                ![w].received_at = clock,
                                ![w].status = FailureStatus(answer.outcome)]
          /\ pc' = [pc EXCEPT ![w] = PlaceAfter(answer.outcome)]
    /\ UNCHANGED <<tables, held, reply, clock, faults, crashed>>

PersistAcquisition(w) ==
    LET r == job[w].request
        rows == job[w].rows
    IN  /\ pc[w] = "acquire"
        /\ batch[r].status = "RUNNING"
        /\ raw' = [raw EXCEPT ![r] =
                     [i \in DOMAIN rows |-> [row |-> rows[i], status |-> "PENDING"]]]
        /\ batch' = [batch EXCEPT ![r].received = Len(rows)]
        /\ CommitThen(w, IF rows = <<>> THEN "finalize_no_data" ELSE "validate")
        /\ UNCHANGED <<revisions, series, partitions, clock, crashed>>

PersistEmptyAcquisition(w) ==
    LET r == job[w].request
    IN  /\ pc[w] = "acquire_empty"
        /\ batch[r].status = "RUNNING"
        /\ batch' = [batch EXCEPT ![r].received = 0]
        /\ CommitThen(w, "finalize_failure")
        /\ UNCHANGED <<raw, revisions, series, partitions, clock, crashed>>

FinalizeNoData(w) ==
    LET r == job[w].request
    IN  /\ pc[w] = "finalize_no_data"
        /\ FinalizeBatch(r, "SUCCEEDED", 0, 0, 0)
        /\ CommitAndReturn(w, ResultOf(r, batch'[r]))
        /\ UNCHANGED <<raw, revisions, series, partitions, clock, crashed>>

FinalizeExpectedFailure(w) ==
    LET r == job[w].request
    IN  /\ pc[w] = "finalize_failure"
        /\ FinalizeBatch(r, job[w].status, batch[r].received, 0, 0)
        /\ CommitAndReturn(w, ResultOf(r, batch'[r]))
        /\ UNCHANGED <<raw, revisions, series, partitions, clock, crashed>>

-----------------------------------------------------------------------------
(* Transaction C: _canonicalize *)

\* Faulty variant: the session close is not compared with the reply's time.
RowCheckWithoutClose(j, i) ==
    LET row == j.rows[i]
        resolution == Resolution[j.symbol][row.date]
    IN  IF ~row.accepted THEN "REJECTED"
        ELSE IF ~row.include THEN "ACCEPTED"
        ELSE IF resolution = None THEN "REJECTED"
        ELSE IF ~resolution.valid THEN "REJECTED"
        ELSE "PENDING"

\* The first loop's verdict on row i; "PENDING" rows become resolved_rows.
RowCheck(j, i) ==
    LET row == j.rows[i]
        resolution == Resolution[j.symbol][row.date]
    IN  IF ~row.accepted THEN "REJECTED"
        ELSE IF ~row.include THEN "ACCEPTED"
        ELSE IF resolution = None THEN "REJECTED"
        ELSE IF ~resolution.valid \/ j.received_at < resolution.close
             THEN "REJECTED"
        ELSE "PENDING"

RowsChecked(checks, status) == {i \in DOMAIN checks : checks[i] = status}

ValidateRows(w) ==
    LET checks == [i \in DOMAIN job[w].rows |-> RowCheck(job[w], i)]
        months == {MonthOf[job[w].rows[i].date] : i \in RowsChecked(checks, "PENDING")}
    IN  /\ pc[w] = "validate"
        /\ job' = [job EXCEPT
                     ![w].checks = checks,
                     ![w].months = months,
                     ![w].accepted = Cardinality(RowsChecked(checks, "ACCEPTED")),
                     ![w].rejected = Cardinality(RowsChecked(checks, "REJECTED"))]
        /\ pc' = [pc EXCEPT ![w] = IF months = {} THEN "finish" ELSE "month"]
        /\ UNCHANGED <<tables, held, reply, clock, faults, crashed>>

\* Faulty variant: the advisory locks are not taken.
CanLockTableOnly(w, lock) ==
    lock \in {TableExclusive, TableShared} =>
        \A v \in Workers \ {w} : held[v] \cap ConflictsWith(lock) = {}

CanLock(w, lock) == \A v \in Workers \ {w} : held[v] \cap ConflictsWith(lock) = {}

Acquire(w, lock) ==
    /\ CanLock(w, lock)
    /\ held' = [held EXCEPT ![w] = @ \cup {lock}]

\* Faulty variant: the months are taken from the set without sorting it.
NextMonthUnsorted(w, m) == m \in job[w].months

\* ensure_month_partitions goes through the distinct months in sorted order.
NextMonth(w, m) == m \in job[w].months /\ \A n \in job[w].months : m <= n

LockMonth(w) ==
    /\ pc[w] = "month"
    /\ \E m \in Months : NextMonth(w, m) /\ Acquire(w, MonthLock(m))
    /\ pc' = [pc EXCEPT ![w] = "partition"]
    /\ UNCHANGED <<tables, job, reply, clock, faults, crashed>>

\* create_bar_month_partition: nothing to do when the partition exists, else
\* DDL that keeps bar_revision locked until the transaction ends.
CreatePartition(w) ==
    /\ pc[w] = "partition"
    /\ \E m \in Months :
          /\ NextMonth(w, m)
          /\ \/ m \in partitions /\ UNCHANGED held
             \/ m \notin partitions /\ Acquire(w, TableExclusive)
          /\ job' = [job EXCEPT ![w].months = @ \ {m}]
          /\ pc' = [pc EXCEPT ![w] =
                      IF job[w].months = {m} THEN "stamp" ELSE "month"]
    /\ UNCHANGED <<tables, reply, clock, faults, crashed>>

\* The second loop takes resolved_rows in provider order.
CurrentRow(w, i) ==
    LET pending == RowsChecked(job[w].checks, "PENDING")
    IN  i \in pending /\ \A k \in pending : i <= k

\* Faulty variant: the instrument is resolved once, for the first row.
InstrumentOfFirstRow(j, i) == Resolution[j.symbol][j.rows[1].date].instrument

InstrumentOf(j, i) == Resolution[j.symbol][j.rows[i].date].instrument

PlaceAfterRow(w, i) ==
    IF RowsChecked(job[w].checks, "PENDING") = {i} THEN "finish" ELSE "stamp"

StampRow(w) ==
    /\ pc[w] = "stamp"
    /\ \E i \in DOMAIN job[w].checks :
          /\ CurrentRow(w, i)
          /\ \/ /\ clock >= job[w].received_at
                /\ job' = [job EXCEPT ![w].system_available_at = clock]
                /\ pc' = [pc EXCEPT ![w] = "series"]
             \/ /\ clock < job[w].received_at
                /\ job' = [job EXCEPT ![w].checks[i] = "REJECTED",
                                      ![w].rejected = @ + 1]
                /\ pc' = [pc EXCEPT ![w] = PlaceAfterRow(w, i)]
    /\ UNCHANGED <<tables, held, reply, clock, faults, crashed>>

\* get_or_create_daily_raw_series: INSERT ... ON CONFLICT DO NOTHING waits for
\* another transaction that has inserted the same series and not ended.
EnsureSeries(w) ==
    /\ pc[w] = "series"
    /\ \E i \in DOMAIN job[w].checks :
          /\ CurrentRow(w, i)
          /\ \/ InstrumentOf(job[w], i) \in series /\ UNCHANGED held
             \/ /\ InstrumentOf(job[w], i) \notin series
                /\ Acquire(w, SeriesLock(InstrumentOf(job[w], i)))
    /\ pc' = [pc EXCEPT ![w] = "bar"]
    /\ UNCHANGED <<tables, job, reply, clock, faults, crashed>>

\* append_revision_if_changed: first the advisory lock on the bar ...
LockBar(w) ==
    /\ pc[w] = "bar"
    /\ \E i \in DOMAIN job[w].checks :
          /\ CurrentRow(w, i)
          /\ Acquire(w, BarLock(InstrumentOf(job[w], i), job[w].rows[i].date))
    /\ pc' = [pc EXCEPT ![w] = "append"]
    /\ UNCHANGED <<tables, job, reply, clock, faults, crashed>>

RevisionsOf(revs, i, d) == {v \in revs : v.instrument = i /\ v.date = d}

IsLatest(v, revs) == v \in revs /\ \A u \in revs : u.revision_no <= v.revision_no

\* Faulty variant: only volumes are compared.
UnchangedVolume(v, j, i) == v.value[5] = j.rows[i].value[5]

\* The comparison over _COMPARISON_FIELDS: the values of the bar, none of the
\* availability or batch columns.
Unchanged(v, j, i) == v.value = j.rows[i].value

\* ... then a read of the newest visible revision, and an insert of the next
\* one unless the candidate's values equal it.  The candidate is compared as
\* parsed, with the newest revision as stored.
AppendRevision(w) ==
    /\ pc[w] = "append"
    /\ Acquire(w, TableShared)
    /\ \E i \in DOMAIN job[w].checks :
          LET row == job[w].rows[i]
              visible == RevisionsOf(revisions \cup job[w].revs,
                                     InstrumentOf(job[w], i), row.date)
              Inserted(n) == {[instrument |-> InstrumentOf(job[w], i),
                               date |-> row.date, revision_no |-> n,
                               value |-> Stored[row.value],
                               available_at |-> job[w].received_at,
                               system_available_at |-> job[w].system_available_at,
                               request |-> job[w].request]}
              Write(new) == job' = [job EXCEPT ![w].revs = @ \cup new,
                                                 ![w].checks[i] = "ACCEPTED",
                                                 ![w].accepted = @ + 1]
          IN  /\ CurrentRow(w, i)
              /\ \/ visible = {} /\ Write(Inserted(1))
                 \/ \E latest \in visible :
                       /\ IsLatest(latest, visible)
                       /\ Write(IF Unchanged(latest, job[w], i) THEN {}
                                  ELSE Inserted(latest.revision_no + 1))
              /\ pc' = [pc EXCEPT ![w] = PlaceAfterRow(w, i)]
    /\ UNCHANGED <<tables, reply, clock, faults, crashed>>

\* Faulty variant: one rejected row quarantines the batch.
TerminalStatusStrict(accepted, rejected) ==
    IF rejected > 0 THEN "QUARANTINED" ELSE "SUCCEEDED"

TerminalStatus(accepted, rejected) ==
    IF accepted > 0 /\ rejected > 0 THEN "PARTIAL"
    ELSE IF accepted > 0 THEN "SUCCEEDED"
    ELSE IF rejected > 0 THEN "QUARANTINED"
    ELSE "SUCCEEDED"

\* The batch is finalized and everything C wrote is committed with it.
FinishBatch(w) ==
    LET r == job[w].request
        j == job[w]
    IN  /\ pc[w] = "finish"
        /\ FinalizeBatch(r, TerminalStatus(j.accepted, j.rejected),
                         Len(j.rows), j.accepted, j.rejected)
        /\ raw' = [raw EXCEPT ![r] =
                     [i \in DOMAIN j.checks |-> [row |-> j.rows[i], status |-> j.checks[i]]]]
        /\ revisions' = revisions \cup j.revs
        /\ series' = series \cup {i \in Instruments : SeriesLock(i) \in held[w]}
        /\ partitions' = partitions \cup {m \in Months : MonthLock(m) \in held[w]}
        /\ CommitAndReturn(w, ResultOf(r, batch'[r]))
        /\ UNCHANGED <<clock, crashed>>

-----------------------------------------------------------------------------
(* Failure handlers *)

MarkCanonicalizationFailure(w) ==
    LET r == job[w].request
    IN  /\ pc[w] = "canonicalization_failed"
        /\ FinalizeBatch(r, "FAILED", Len(job[w].rows), 0, 0)
        /\ CommitAndReturn(w, Told("canonicalization_error", r))
        /\ UNCHANGED <<raw, revisions, series, partitions, clock, crashed>>

MarkStartedFailure(w) ==
    LET r == job[w].request
    IN  /\ pc[w] = "started_failed"
        /\ FinalizeBatch(r, "FAILED", batch[r].received, batch[r].accepted,
                         batch[r].rejected)
        /\ CommitAndReturn(w, Told("error", r))
        /\ UNCHANGED <<raw, revisions, series, partitions, clock, crashed>>

Finalizing == {"finish", "finalize_failure", "finalize_no_data",
               "canonicalization_failed", "started_failed"}

\* InvalidStateTransitionError (the batch is final already) or a violated
\* CHECK (the clock is behind started_at); _mark_unexpected_started_failure
\* sees the first case before it writes and returns.
FinalizeRejected(w) ==
    /\ pc[w] \in Finalizing
    /\ ~CanFinalize(job[w].request)
    /\ Raise(w)
    /\ UNCHANGED <<tables, clock, faults, crashed>>

-----------------------------------------------------------------------------
(* Faults of the database and of workers, and the clock *)

\* A statement or a commit that fails, or any other exception the service does
\* not expect: the provider client's and the parser's included.
UnexpectedError(w) ==
    /\ pc[w] # "idle"
    /\ Fault(w)
    /\ Raise(w)
    /\ UNCHANGED <<tables, clock, crashed>>

\* The locks a worker's next statement waits for (at most one).
Wants(w) ==
    CASE pc[w] = "month" -> {MonthLock(m) : m \in {n \in Months : NextMonth(w, n)}}
      [] pc[w] = "partition" ->
            IF \E m \in Months : NextMonth(w, m) /\ m \notin partitions
            THEN {TableExclusive} ELSE {}
      [] pc[w] = "series" ->
            {SeriesLock(InstrumentOf(job[w], i)) :
               i \in {k \in DOMAIN job[w].checks :
                        CurrentRow(w, k) /\ InstrumentOf(job[w], k) \notin series}}
      [] pc[w] = "bar" ->
            {BarLock(InstrumentOf(job[w], i), job[w].rows[i].date) :
               i \in {k \in DOMAIN job[w].checks : CurrentRow(w, k)}}
      [] pc[w] = "append" -> {TableShared}
      [] OTHER -> {}

WaitsFor(u, v) ==
    u # v /\ \E lock \in Wants(u) : held[v] \cap ConflictsWith(lock) # {}

\* Every member of a deadlocked group waits for a member of the group.
Deadlocked(group) ==
    group # {} /\ \A u \in group : \E v \in group : WaitsFor(u, v)

\* PostgreSQL ends a deadlock by aborting one transaction of a cycle (40P01).
DeadlockVictim(w) ==
    /\ \E group \in SUBSET Workers :
          /\ w \in group
          /\ Deadlocked(group)
          /\ \A part \in SUBSET group : Deadlocked(part) => part = group
    /\ faults' = [faults EXCEPT ![job[w].request] = @ + 1]
    /\ Raise(w)
    /\ UNCHANGED <<tables, clock, crashed>>

\* The process stops: its connection closes, the transaction is rolled back,
\* and no handler runs.
Crash(w) ==
    /\ pc[w] # "idle"
    /\ Cardinality(crashed) < MaxCrashes
    /\ crashed' = crashed \cup {job[w].request}
    /\ held' = [held EXCEPT ![w] = {}]
    /\ Return(w, NoReply)
    /\ UNCHANGED <<tables, clock, faults>>

Tick ==
    /\ clock < MaxClock
    /\ clock' = clock + 1
    /\ UNCHANGED <<tables, held, pc, job, reply, faults, crashed>>

StepClockBack ==
    /\ ClockMayStepBack
    /\ clock > 0
    /\ clock' = clock - 1
    /\ UNCHANGED <<tables, held, pc, job, reply, faults, crashed>>

Request(w) ==
    \E r \in RequestIds, s \in Symbols :
        CreateBatch(w, r, s) \/ RejectRequest(w, r, s) \/ ReplayResult(w, r, s)

Canonicalize(w) ==
    \/ ValidateRows(w) \/ LockMonth(w) \/ CreatePartition(w) \/ StampRow(w)
    \/ EnsureSeries(w) \/ LockBar(w) \/ AppendRevision(w) \/ FinishBatch(w)

Proceed(w) ==
    \/ FetchAndParse(w)
    \/ PersistAcquisition(w) \/ PersistEmptyAcquisition(w)
    \/ FinalizeNoData(w) \/ FinalizeExpectedFailure(w)
    \/ Canonicalize(w)
    \/ MarkCanonicalizationFailure(w) \/ MarkStartedFailure(w)
    \/ FinalizeRejected(w) \/ DeadlockVictim(w)

Next ==
    \/ \E w \in Workers : Request(w) \/ Proceed(w) \/ UnexpectedError(w) \/ Crash(w)
    \/ Tick \/ StepClockBack

Spec == Init /\ [][Next]_vars

\* A running worker keeps executing statements, and PostgreSQL resolves every
\* deadlock; nothing obliges a caller to send a request or the clock to move.
LiveSpec == Spec /\ \A w \in Workers : WF_vars(Proceed(w))

-----------------------------------------------------------------------------
(* Properties *)

RawWith(r, status) == {i \in DOMAIN raw[r] : raw[r][i].status = status}

\* The counts on a batch header are the counts of its raw events.  A batch that
\* transaction C finalized has a verdict on every row; a batch that is running
\* or failed has none, so a rolled-back C left nothing behind.
CountsAgree ==
    \A r \in RequestIds :
        /\ batch[r].received = Len(raw[r])
        /\ batch[r].accepted = Cardinality(RawWith(r, "ACCEPTED"))
        /\ batch[r].rejected = Cardinality(RawWith(r, "REJECTED"))
        /\ batch[r].status \in {"SUCCEEDED", "PARTIAL", "QUARANTINED"} =>
              RawWith(r, "PENDING") = {}
        /\ batch[r].status \in {"RUNNING", "FAILED"} =>
              RawWith(r, "PENDING") = DOMAIN raw[r]

\* A canonical revision exists only for a batch that ended SUCCEEDED or
\* PARTIAL: no crash, fault, deadlock or lost acknowledgement publishes bars of
\* a batch that then reads FAILED.
RevisionsPublished ==
    \A v \in revisions : batch[v.request].status \in {"SUCCEEDED", "PARTIAL"}

\* A revision comes from a raw event of its batch that reads ACCEPTED, and belongs
\* to the instrument the batch's symbol named on that date.
RevisionsTraceable ==
    \A v \in revisions : \E i \in RawWith(v.request, "ACCEPTED") :
        LET row == raw[v.request][i].row
        IN  /\ row.date = v.date
            /\ Stored[row.value] = v.value
            /\ Resolution[batch[v.request].symbol][v.date].instrument = v.instrument

\* Headers, verdicts and revisions tell one story, whatever failed and whoever had
\* the symbol when (service.py _canonicalize,
\* _mark_unexpected_canonicalization_failure).
VerdictsAgree == CountsAgree /\ RevisionsTraceable

\* The revisions of one bar are numbered 1, 2, ... without a gap and without a
\* number used twice, whatever the workers' interleaving (append_revision_if_changed).
RevisionNumbersGapless ==
    \A i \in Instruments, d \in Dates :
        LET revs == RevisionsOf(revisions, i, d)
        IN  {v.revision_no : v \in revs} = 1..Cardinality(revs)

\* Revisions with consecutive numbers have different values: an ingestion of
\* unchanged data adds no revision.
AdjacentRevisionsDiffer ==
    \A u, v \in revisions :
        u.instrument = v.instrument /\ u.date = v.date
          /\ v.revision_no = u.revision_no + 1 => u.value # v.value

\* The revisions of a bar are its changes, in order: no number is missing or used
\* twice, and none repeats its predecessor, with any number of batches at work
\* (append_revision_if_changed).
RevisionsWellNumbered == RevisionNumbersGapless /\ AdjacentRevisionsDiffer

\* A revision is not available before its session closed, nor to the system
\* before the public, even when the clock is set back during the ingestion.
AvailabilityOrdered ==
    \A v \in revisions :
        /\ v.system_available_at >= v.available_at
        /\ v.available_at >= Resolution[batch[v.request].symbol][v.date].close

\* Two calls never run the same batch (create_batch_if_absent).
OneWorkerPerBatch ==
    \A u, v \in Workers :
        job[u].request = job[v].request /\ u # v => job[u].request = None

\* A result names the final status and counts of its batch.
ResultsStayTrue ==
    \A w \in Workers : reply[w].kind = "result" =>
        LET b == batch[reply[w].request]
        IN  /\ b.status = reply[w].status /\ b.status \in Terminal
            /\ b.accepted = reply[w].accepted /\ b.rejected = reply[w].rejected

\* DailyBarCanonicalizationError says "Raw BrsApi acquisition was preserved, but
\* canonicalization failed": the batch is FAILED, its raw events are all there
\* without a verdict, and no bar came from it.
CanonicalizationErrorIsTrue ==
    \A w \in Workers : reply[w].kind = "canonicalization_error" =>
        LET r == reply[w].request
        IN  /\ batch[r].status = "FAILED"
            /\ raw[r] # <<>> /\ RawWith(r, "PENDING") = DOMAIN raw[r]
            /\ \A v \in revisions : v.request # r

\* What a caller was told of a batch, result or error, stays true whatever other
\* calls do later (DailyBarIngestionService.ingest).
RepliesStayTrue == ResultsStayTrue /\ CanonicalizationErrorIsTrue

\* "Lock and create each UTC month in a stable deadlock-safe order": the locks of
\* months and bars never form a cycle of their own, although rows are written in
\* provider order, because a bar is locked only under the lock of its month.  Every
\* deadlock of transaction C has a worker in it that waits for the table bar_revision,
\* which the creation of a partition locks, or for a series that another
\* transaction is creating (see the README).
SortedLocksNeverDeadlock ==
    \A group \in SUBSET Workers :
        Deadlocked(group) =>
            \E u \in group :
                Wants(u) \cap ({TableExclusive, TableShared}
                                  \cup {SeriesLock(i) : i \in Instruments}) # {}

\* A final batch never changes again, and neither do its raw events.
FinalBatchesAreFinal ==
    [][\A r \in RequestIds : batch[r].status \in Terminal =>
          batch'[r] = batch[r] /\ raw'[r] = raw[r]]_vars

\* At the moment a batch commits, the newest revision of the bar of each row it
\* canonicalized has that row's values: no concurrent batch slipped in between.
CommittedRowsAreNewest ==
    [][\A r \in RequestIds :
          batch[r].status = "RUNNING" /\ batch'[r].status \in {"SUCCEEDED", "PARTIAL"} =>
            \A i \in DOMAIN raw'[r] :
               raw'[r][i].status = "ACCEPTED" /\ raw'[r][i].row.include =>
                  LET row == raw'[r][i].row
                      revs == RevisionsOf(revisions',
                                Resolution[batch[r].symbol][row.date].instrument, row.date)
                  IN  \E v \in revs : IsLatest(v, revs) /\ v.value = Stored[row.value]]_vars

\* Every started batch reaches a final status, deadlocks and a fault included,
\* unless its worker crashed or it met a second fault in a handler: the clauses
\* of ingest() leave no batch RUNNING for good.
StartedBatchesEnd ==
    \A r \in RequestIds :
        batch[r].status = "RUNNING" ~>
            batch[r].status \in Terminal \/ r \in crashed \/ faults[r] >= 2

\* market.bars_as_of(..., PUBLIC_REPLAY): among the revisions of a bar available
\* at the cutoff, the one with the latest available_at, then the highest number.
AsOfPublic(i, d, cutoff) ==
    LET eligible == {v \in RevisionsOf(revisions, i, d) : v.available_at <= cutoff}
    IN  {v \in eligible : \A u \in eligible :
            \/ u.available_at < v.available_at
            \/ u.available_at = v.available_at /\ u.revision_no <= v.revision_no}

\* "A cutoff before the correction returns the previous revision, a cutoff after
\* it the new one": what bars_as_of returns is the newest revision available.
AsOfReturnsNewestRevision ==
    \A i \in Instruments, d \in Dates, cutoff \in 0..MaxClock :
        \A v \in AsOfPublic(i, d, cutoff), u \in RevisionsOf(revisions, i, d) :
            u.available_at <= cutoff => u.revision_no <= v.revision_no

\* The value of revision n among the revisions of a bar.
ValueAt(revs, n) == (CHOOSE v \in revs : v.revision_no = n).value

\* The bar history as its readers see it, and the service as its implementation.
History ==
    [b \in Instruments \X Dates |->
        LET revs == RevisionsOf(revisions, b[1], b[2])
        IN  [n \in 1..Cardinality(revs) |-> ValueAt(revs, n)]]

Abstract == INSTANCE BarHistory
    WITH Bars <- Instruments \X Dates, Requests <- RequestIds,
         history <- History, status <- [r \in RequestIds |-> batch[r].status]

\* Every step of the service is a step of the abstract bar history: a batch
\* publishes all its changes at once, each appends a value that differs from the
\* bar's newest one, and only a batch that ends SUCCEEDED or PARTIAL publishes.
ImplementsBarHistory == Abstract!Spec
=============================================================================
