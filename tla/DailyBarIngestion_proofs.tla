---------------------- MODULE DailyBarIngestion_proofs ----------------------
(***************************************************************************)
(* Proofs about DailyBarIngestion, for every set of workers, requests,     *)
(* symbols, dates and replies, and for every bound on faults, crashes and  *)
(* the clock.                                                              *)
(***************************************************************************)
EXTENDS DailyBarIngestion, FiniteSetTheorems, TLAPS

-----------------------------------------------------------------------------
(* The inductive invariant *)

\* A row the second loop of _canonicalize will write: it has a date, values
\* and a session that was closed when the reply came in.
RowResolved(j, i) ==
    /\ j.rows[i].date \in Dates
    /\ j.rows[i].value \in Values
    /\ Resolution[j.symbol][j.rows[i].date] \in SessionResolution
    /\ Resolution[j.symbol][j.rows[i].date].close <= j.received_at

\* An uncommitted revision is of the worker's own request, was counted as an
\* accepted row, and respects the order of availability.
WriteOK(j, v) ==
    /\ v.request = j.request
    /\ j.accepted > 0
    /\ v.system_available_at >= v.available_at
    /\ v.available_at >= Resolution[j.symbol][v.date].close

\* What holds of the locals of a worker that is at a given place.
JobOK(place, j) ==
    /\ place # "idle" => j.request \in RequestIds /\ j.symbol \in Symbols
    /\ place \in {"acquire_empty", "finalize_failure"} => j.status \in Terminal
    /\ \A i \in DOMAIN j.rows :
          j.rows[i].accepted => j.rows[i].date \in Dates /\ j.rows[i].value \in Values
    /\ place \in Canonicalizing =>
          /\ DOMAIN j.checks = DOMAIN j.rows
          /\ \A i \in DOMAIN j.checks : j.checks[i] = "PENDING" => RowResolved(j, i)
    /\ place \in {"series", "bar", "append"} => j.system_available_at >= j.received_at
    /\ place \notin Canonicalizing => j.revs = {}
    /\ \A v \in j.revs : WriteOK(j, v)

JobsOK == \A w \in Workers : JobOK(pc[w], job[w])

TypeInv == TypeOK /\ JobsOK

-----------------------------------------------------------------------------
(* Lemmas about the operators the actions are built from *)

\* The rows with a given verdict can be counted.
LEMMA CheckedCount ==
    ASSUME NEW checks \in Seq(ValidationStatus), NEW status
    PROVE  Cardinality(RowsChecked(checks, status)) \in Nat
<1>1. DOMAIN checks = 1..Len(checks) /\ Len(checks) \in Nat
  OBVIOUS
<1>2. IsFiniteSet(1..Len(checks))
  BY <1>1, FS_Interval
<1>3. RowsChecked(checks, status) \subseteq 1..Len(checks)
  BY <1>1 DEF RowsChecked
<1> QED
  BY <1>2, <1>3, FS_Subset, FS_CardinalityType

\* RowCheck yields a verdict, and leaves pending only rows that are resolved.
LEMMA RowCheckResolves ==
    ASSUME NEW j \in Job, NEW i \in DOMAIN j.rows, j.symbol \in Symbols,
           j.rows[i].accepted => j.rows[i].date \in Dates /\ j.rows[i].value \in Values
    PROVE  /\ RowCheck(j, i) \in ValidationStatus
           /\ RowCheck(j, i) = "PENDING" => RowResolved(j, i)
<1>1. RowCheck(j, i) \in ValidationStatus
  BY DEF RowCheck, ValidationStatus
<1>2. ASSUME RowCheck(j, i) = "PENDING"
      PROVE  RowResolved(j, i)
  <2> DEFINE row == j.rows[i]
             resolution == Resolution[j.symbol][row.date]
  <2>1. /\ row.accepted /\ resolution # None /\ resolution.valid
        /\ ~(j.received_at < resolution.close)
    BY <1>2 DEF RowCheck
  <2>2. row.date \in Dates /\ row.value \in Values
    BY <2>1
  <2>3. resolution \in SessionResolution
    BY <2>1, <2>2, ConstantTypes
  <2>4. resolution.close \in Nat /\ j.received_at \in Nat
    BY <2>3 DEF SessionResolution, Job
  <2> QED
    BY <2>1, <2>2, <2>3, <2>4 DEF RowResolved
<1> QED
  BY <1>1, <1>2

\* A worker moves to another place with other locals; the others stay.
LEMMA WorkerStep ==
    ASSUME TypeInv, NEW w \in Workers, NEW p \in Place, NEW j \in Job, JobOK(p, j),
           pc' = [pc EXCEPT ![w] = p], job' = [job EXCEPT ![w] = j]
    PROVE  pc' \in [Workers -> Place] /\ job' \in [Workers -> Job] /\ JobsOK'
<1>1. pc' \in [Workers -> Place] /\ job' \in [Workers -> Job]
  BY DEF TypeInv, TypeOK
<1>2. \A v \in Workers : JobOK(pc'[v], job'[v])
  <2> TAKE v \in Workers
  <2>1. CASE v = w
    BY <2>1 DEF TypeInv, TypeOK
  <2>2. CASE v # w
    BY <2>2 DEF TypeInv, TypeOK, JobsOK
  <2> QED
    BY <2>1, <2>2
<1> QED
  BY <1>1, <1>2 DEF JobsOK

\* A worker without a call of ingest() is well-formed.
LEMMA NoJobOK == NoJob \in Job /\ JobOK("idle", NoJob)
<1>1. <<>> \in Seq(ParsedRow) /\ <<>> \in Seq(ValidationStatus)
  OBVIOUS
<1>2. NoJob \in Job
  BY <1>1 DEF NoJob, Job
<1>3. JobOK("idle", NoJob)
  BY DEF JobOK, NoJob, Canonicalizing
<1> QED
  BY <1>2, <1>3

\* Returning from ingest() leaves an idle, well-formed worker.
LEMMA ReturnStep ==
    ASSUME TypeInv, NEW w \in Workers, NEW answer \in CallerReply, Return(w, answer)
    PROVE  /\ pc' \in [Workers -> Place] /\ job' \in [Workers -> Job]
           /\ reply' \in [Workers -> CallerReply] /\ JobsOK'
<1>1. "idle" \in Place
  BY DEF Place
<1>2. reply' \in [Workers -> CallerReply]
  BY DEF Return, TypeInv, TypeOK
<1> QED
  BY <1>1, <1>2, NoJobOK, WorkerStep DEF Return

\* An exception rolls the transaction back and reaches a well-formed handler.
LEMMA RaiseStep ==
    ASSUME TypeInv, NEW w \in Workers, pc[w] # "idle", Raise(w)
    PROVE  /\ pc' \in [Workers -> Place] /\ job' \in [Workers -> Job]
           /\ reply' \in [Workers -> CallerReply] /\ held' \in [Workers -> SUBSET Lock]
           /\ JobsOK'
<1>0. pc[w] \in Place /\ job[w] \in Job /\ JobOK(pc[w], job[w])
  BY DEF TypeInv, TypeOK, JobsOK
<1>1. held' \in [Workers -> SUBSET Lock]
  BY DEF Raise, TypeInv, TypeOK
<1>2. CASE pc[w] = "started_failed"
  <2>1. Told("error", job[w].request) \in CallerReply
    BY <1>0 DEF Told, NoReply, CallerReply, Job
  <2>2. Return(w, Told("error", job[w].request))
    BY <1>2 DEF Raise
  <2> QED
    BY <1>1, <2>1, <2>2, ReturnStep
<1>3. CASE pc[w] # "started_failed"
  <2> DEFINE p == Handler(pc[w])
             j == RolledBack(job[w])
  <2>1. p \in Place /\ p \notin Canonicalizing
        /\ p \notin {"idle", "acquire_empty", "finalize_failure"}
    BY DEF Handler, Place, Canonicalizing
  <2>2. <<>> \in Seq(ValidationStatus)
    OBVIOUS
  <2>3. j \in Job
    BY <1>0, <2>2 DEF RolledBack, Job
  <2>4. /\ j.request = job[w].request /\ j.symbol = job[w].symbol
        /\ j.rows = job[w].rows /\ j.revs = {}
    BY <1>0 DEF RolledBack, Job
  <2>5. JobOK(p, j)
    <3> HIDE DEF p, j
    <3> QED BY <1>0, <2>1, <2>4 DEF JobOK, Canonicalizing
  <2>6. pc' = [pc EXCEPT ![w] = p] /\ job' = [job EXCEPT ![w] = j] /\ reply' = reply
    BY <1>3 DEF Raise
  <2>7. reply' \in [Workers -> CallerReply]
    BY <2>6 DEF TypeInv, TypeOK
  <2> HIDE DEF p, j
  <2> QED
    BY <1>1, <2>1, <2>3, <2>5, <2>6, <2>7, WorkerStep
<1> QED
  BY <1>2, <1>3

\* Counting a fault keeps the counters natural.
LEMMA FaultStep ==
    ASSUME TypeInv, NEW w \in Workers, Fault(w), job[w].request \in RequestIds
    PROVE  faults' \in [RequestIds -> Nat]
BY DEF Fault, TypeInv, TypeOK

\* A commit that continues, or is reported as failed, keeps the worker well-formed.
LEMMA CommitThenStep ==
    ASSUME TypeInv, NEW w \in Workers, NEW p \in Place, pc[w] # "idle",
           JobOK(p, job[w]), CommitThen(w, p)
    PROVE  /\ pc' \in [Workers -> Place] /\ job' \in [Workers -> Job]
           /\ reply' \in [Workers -> CallerReply] /\ held' \in [Workers -> SUBSET Lock]
           /\ faults' \in [RequestIds -> Nat] /\ JobsOK'
<1>0. job[w] \in Job /\ job[w].request \in RequestIds
  BY DEF TypeInv, TypeOK, JobsOK, JobOK
<1>1. CASE pc' = [pc EXCEPT ![w] = p] /\ UNCHANGED <<held, job, reply, faults>>
  <2>1. job' = [job EXCEPT ![w] = job[w]]
    BY <1>1 DEF TypeInv, TypeOK
  <2>2. pc' \in [Workers -> Place] /\ job' \in [Workers -> Job] /\ JobsOK'
    BY <1>0, <1>1, <2>1, WorkerStep
  <2> QED
    BY <1>1, <2>2 DEF TypeInv, TypeOK
<1>2. CASE Fault(w) /\ Raise(w)
  BY <1>0, <1>2, FaultStep, RaiseStep
<1> QED
  BY <1>1, <1>2 DEF CommitThen

\* A commit that ends ingest(), or is reported as failed, does too.
LEMMA CommitAndReturnStep ==
    ASSUME TypeInv, NEW w \in Workers, NEW answer \in CallerReply, pc[w] # "idle",
           CommitAndReturn(w, answer)
    PROVE  /\ pc' \in [Workers -> Place] /\ job' \in [Workers -> Job]
           /\ reply' \in [Workers -> CallerReply] /\ held' \in [Workers -> SUBSET Lock]
           /\ faults' \in [RequestIds -> Nat] /\ JobsOK'
<1>0. job[w].request \in RequestIds
  BY DEF TypeInv, TypeOK, JobsOK, JobOK
<1>1. CASE held' = [held EXCEPT ![w] = {}] /\ Return(w, answer) /\ UNCHANGED faults
  BY <1>1, ReturnStep DEF TypeInv, TypeOK
<1>2. CASE Fault(w) /\ Raise(w)
  BY <1>0, <1>2, FaultStep, RaiseStep
<1> QED
  BY <1>1, <1>2 DEF CommitAndReturn

\* A finalized batch is a batch, and can be reported to the caller.
LEMMA FinalizeStep ==
    ASSUME TypeInv, NEW r \in RequestIds, NEW status \in Terminal,
           NEW received \in Nat, NEW accepted \in Nat, NEW rejected \in Nat,
           FinalizeBatch(r, status, received, accepted, rejected)
    PROVE  /\ batch' \in [RequestIds -> Batch]
           /\ ResultOf(r, batch'[r]) \in CallerReply
<1>1. batch[r] \in Batch
  BY DEF TypeInv, TypeOK
<1> DEFINE b == FinalizedBatch(r, status, received, accepted, rejected)
<1>2. /\ b \in Batch /\ b.status = status /\ b.accepted = accepted
      /\ b.rejected = rejected
  BY <1>1 DEF FinalizedBatch, Batch
<1> HIDE DEF b
<1>3. batch' = [batch EXCEPT ![r] = b]
  BY DEF FinalizeBatch, b
<1>4. batch' \in [RequestIds -> Batch] /\ batch'[r] = b
  BY <1>2, <1>3 DEF TypeInv, TypeOK
<1> QED
  BY <1>2, <1>4 DEF ResultOf, CallerReply

\* What an exception tells the caller is a reply.
LEMMA ToldType ==
    ASSUME NEW kind \in {"conflict", "canonicalization_error", "error"},
           NEW r \in RequestIds
    PROVE  Told(kind, r) \in CallerReply
BY DEF Told, NoReply, CallerReply

\* Taking a lock keeps the sets of held locks typed.
LEMMA AcquireType ==
    ASSUME TypeInv, NEW w \in Workers, NEW lock \in Lock, Acquire(w, lock)
    PROVE  held' \in [Workers -> SUBSET Lock]
BY DEF Acquire, TypeInv, TypeOK

\* Every lock transaction C takes is a lock of the model.
LEMMA LocksTyped ==
    /\ \A m \in Months : MonthLock(m) \in Lock
    /\ \A i \in Instruments : SeriesLock(i) \in Lock
    /\ \A i \in Instruments, d \in Dates : BarLock(i, d) \in Lock
    /\ TableExclusive \in Lock /\ TableShared \in Lock
BY DEF Lock

-----------------------------------------------------------------------------
(* Every action preserves the types and what holds of the jobs *)

\* Transaction A starts a well-formed batch and call.
LEMMA CreateBatchTyped ==
    ASSUME TypeInv, NEW w \in Workers, NEW r \in RequestIds, NEW s \in Symbols,
           CreateBatch(w, r, s)
    PROVE  TypeInv'
<1> DEFINE b == [NoBatch EXCEPT !.status = "RUNNING", !.symbol = s, !.started_at = clock]
           j == [NoJob EXCEPT !.request = r, !.symbol = s]
<1>1. b \in Batch
  BY DEF NoBatch, Batch, TypeInv, TypeOK
<1>2. batch' = [batch EXCEPT ![r] = b]
  BY DEF CreateBatch, StartBatch
<1>3. batch' \in [RequestIds -> Batch]
  <2> HIDE DEF b
  <2> QED BY <1>1, <1>2 DEF TypeInv, TypeOK
<1>4. UNCHANGED <<raw, revisions, series, partitions, held, clock>>
  BY DEF CreateBatch
<1>5. CASE /\ pc' = [pc EXCEPT ![w] = "fetch"] /\ job' = [job EXCEPT ![w] = j]
           /\ reply' = [reply EXCEPT ![w] = NoReply] /\ UNCHANGED <<faults, crashed>>
  <2>1. j \in Job
    BY NoJobOK DEF NoJob, Job
  <2>2. /\ j.request = r /\ j.symbol = s /\ j.rows = <<>> /\ j.revs = {}
    BY DEF NoJob
  <2>3. JobOK("fetch", j) /\ "fetch" \in Place
    <3> HIDE DEF j
    <3> QED BY <2>2 DEF JobOK, Canonicalizing, Place
  <2>4. pc' \in [Workers -> Place] /\ job' \in [Workers -> Job] /\ JobsOK'
    <3> HIDE DEF j
    <3> QED BY <1>5, <2>1, <2>3, WorkerStep
  <2>5. NoReply \in CallerReply
    BY DEF NoReply, CallerReply
  <2>6. reply' \in [Workers -> CallerReply]
    BY <1>5, <2>5 DEF TypeInv, TypeOK
  <2> QED
    BY <1>3, <1>4, <1>5, <2>4, <2>6 DEF TypeInv, TypeOK
<1>6. CASE /\ faults' = [faults EXCEPT ![r] = @ + 1] /\ crashed' = crashed \cup {r}
           /\ Return(w, Told("error", r))
  <2>1. faults' \in [RequestIds -> Nat] /\ crashed' \subseteq RequestIds
    BY <1>6 DEF TypeInv, TypeOK
  <2> QED
    BY <1>3, <1>4, <1>6, <2>1, ToldType, ReturnStep DEF TypeInv, TypeOK
<1> QED
  BY <1>5, <1>6 DEF CreateBatch, StartBatch

\* Every outcome of a request, started, refused or replayed, is typed.
LEMMA RequestTyped ==
    ASSUME TypeInv, NEW w \in Workers, Request(w)
    PROVE  TypeInv'
<1> PICK r \in RequestIds, s \in Symbols :
        CreateBatch(w, r, s) \/ RejectRequest(w, r, s) \/ ReplayResult(w, r, s)
  BY DEF Request
<1>1. CASE RejectRequest(w, r, s)
  BY <1>1, ToldType, ReturnStep DEF RejectRequest, TypeInv, TypeOK, tables
<1>2. CASE ReplayResult(w, r, s)
  <2>1. ResultOf(r, batch[r]) \in CallerReply
    BY <1>2 DEF ReplayResult, ResultOf, CallerReply, TypeInv, TypeOK, Batch
  <2> QED
    BY <1>2, <2>1, ReturnStep DEF ReplayResult, TypeInv, TypeOK, tables
<1> QED
  BY <1>1, <1>2, CreateBatchTyped

\* The provider's reply gives the worker well-formed rows.
LEMMA FetchTyped ==
    ASSUME TypeInv, NEW w \in Workers, FetchAndParse(w)
    PROVE  TypeInv'
<1>0. job[w] \in Job /\ JobOK("fetch", job[w]) /\ job[w].symbol \in Symbols
  BY DEF FetchAndParse, TypeInv, TypeOK, JobsOK, JobOK
<1>1. PICK answer \in Replies[job[w].symbol] :
        /\ job' = [job EXCEPT ![w].rows = answer.rows, ![w].received_at = clock,
                              ![w].status = FailureStatus(answer.outcome)]
        /\ pc' = [pc EXCEPT ![w] = PlaceAfter(answer.outcome)]
  BY DEF FetchAndParse
<1> DEFINE j == [job[w] EXCEPT !.rows = answer.rows, !.received_at = clock,
                               !.status = FailureStatus(answer.outcome)]
           p == PlaceAfter(answer.outcome)
<1>2. ReplyWellFormed(answer)
  BY <1>0, RepliesWellFormed
<1>3. answer.outcome \in ReplyOutcome /\ answer.rows \in Seq(ParsedRow)
  BY <1>2 DEF ReplyWellFormed, Reply
<1>4. FailureStatus(answer.outcome) \in Terminal \cup {None}
  BY DEF FailureStatus, Terminal
<1>5. /\ p \in Place /\ p # "idle" /\ p \notin Canonicalizing
      /\ p \in {"acquire_empty", "finalize_failure"} =>
            FailureStatus(answer.outcome) \in Terminal
  BY <1>3 DEF PlaceAfter, FailureStatus, ReplyOutcome, Place, Canonicalizing, Terminal
<1>6. j \in Job
  BY <1>0, <1>3, <1>4 DEF Job, TypeInv, TypeOK
<1>7. /\ j.request = job[w].request /\ j.symbol = job[w].symbol
      /\ j.rows = answer.rows /\ j.revs = job[w].revs
      /\ j.status = FailureStatus(answer.outcome) /\ j.accepted = job[w].accepted
  BY <1>0 DEF Job
<1>8. \A i \in DOMAIN answer.rows :
          answer.rows[i].accepted =>
             answer.rows[i].date \in Dates /\ answer.rows[i].value \in Values
  BY <1>2 DEF ReplyWellFormed
<1>9. job' = [job EXCEPT ![w] = j] /\ pc' = [pc EXCEPT ![w] = p]
  BY <1>1 DEF TypeInv, TypeOK
<1> HIDE DEF j, p
<1>10. JobOK(p, j)
  BY <1>0, <1>5, <1>7, <1>8 DEF JobOK, WriteOK, Canonicalizing
<1>11. pc' \in [Workers -> Place] /\ job' \in [Workers -> Job] /\ JobsOK'
  BY <1>5, <1>6, <1>9, <1>10, WorkerStep
<1> QED
  BY <1>11 DEF FetchAndParse, TypeInv, TypeOK, tables

\* Transaction B stores one raw event per row.
LEMMA PersistTyped ==
    ASSUME TypeInv, NEW w \in Workers,
           PersistAcquisition(w) \/ PersistEmptyAcquisition(w)
    PROVE  TypeInv'
<1> DEFINE r == job[w].request
           rows == job[w].rows
<1>0. /\ pc[w] # "idle" /\ job[w] \in Job /\ JobOK(pc[w], job[w]) /\ r \in RequestIds
      /\ batch[r] \in Batch
  BY DEF PersistAcquisition, PersistEmptyAcquisition, TypeInv, TypeOK, JobsOK, JobOK
<1>1. CASE PersistAcquisition(w)
  <2> DEFINE p == IF rows = <<>> THEN "finalize_no_data" ELSE "validate"
             b == [batch[r] EXCEPT !.received = Len(rows)]
             events == [i \in DOMAIN rows |-> [row |-> rows[i], status |-> "PENDING"]]
  <2>1. rows \in Seq(ParsedRow) /\ Len(rows) \in Nat
    BY <1>0 DEF Job
  <2>2. events \in Seq(RawEvent)
    <3>1. DOMAIN rows = 1..Len(rows) /\ \A i \in DOMAIN rows : rows[i] \in ParsedRow
      BY <2>1
    <3>2. \A i \in DOMAIN rows : [row |-> rows[i], status |-> "PENDING"] \in RawEvent
      BY <3>1 DEF RawEvent, ValidationStatus
    <3> QED
      BY <2>1, <3>1, <3>2
  <2>3. b \in Batch
    BY <1>0, <2>1 DEF Batch
  <2>4. batch' = [batch EXCEPT ![r] = b] /\ raw' = [raw EXCEPT ![r] = events]
    BY <1>1 DEF PersistAcquisition, TypeInv, TypeOK
  <2>5. batch' \in [RequestIds -> Batch] /\ raw' \in [RequestIds -> Seq(RawEvent)]
    <3> HIDE DEF b, events
    <3> QED BY <1>0, <2>2, <2>3, <2>4 DEF TypeInv, TypeOK
  <2>6. p \in Place /\ JobOK(p, job[w])
    BY <1>0, <1>1 DEF PersistAcquisition, JobOK, Place, Canonicalizing
  <2>7. CommitThen(w, p) /\ UNCHANGED <<revisions, series, partitions, clock, crashed>>
    BY <1>1 DEF PersistAcquisition
  <2> HIDE DEF p, b, events
  <2> QED
    BY <1>0, <2>5, <2>6, <2>7, CommitThenStep DEF TypeInv, TypeOK
<1>2. CASE PersistEmptyAcquisition(w)
  <2> DEFINE b == [batch[r] EXCEPT !.received = 0]
  <2>1. b \in Batch
    BY <1>0 DEF Batch
  <2>2. batch' = [batch EXCEPT ![r] = b]
    BY <1>2 DEF PersistEmptyAcquisition, TypeInv, TypeOK
  <2>3. batch' \in [RequestIds -> Batch]
    <3> HIDE DEF b
    <3> QED BY <1>0, <2>1, <2>2 DEF TypeInv, TypeOK
  <2>4. "finalize_failure" \in Place /\ JobOK("finalize_failure", job[w])
    BY <1>0, <1>2 DEF PersistEmptyAcquisition, JobOK, Place, Canonicalizing
  <2>5. /\ CommitThen(w, "finalize_failure")
        /\ UNCHANGED <<raw, revisions, series, partitions, clock, crashed>>
    BY <1>2 DEF PersistEmptyAcquisition
  <2> QED
    BY <1>0, <2>3, <2>4, <2>5, CommitThenStep DEF TypeInv, TypeOK
<1> QED
  BY <1>1, <1>2

\* The four short finalizing transactions keep the types.
LEMMA FinalizersTyped ==
    ASSUME TypeInv, NEW w \in Workers,
           \/ FinalizeNoData(w) \/ FinalizeExpectedFailure(w)
           \/ MarkCanonicalizationFailure(w) \/ MarkStartedFailure(w)
    PROVE  TypeInv'
<1> DEFINE r == job[w].request
<1>0. /\ pc[w] # "idle" /\ job[w] \in Job /\ JobOK(pc[w], job[w]) /\ r \in RequestIds
      /\ batch[r] \in Batch /\ Len(job[w].rows) \in Nat
  <2>1. pc[w] # "idle"
    BY DEF FinalizeNoData, FinalizeExpectedFailure, MarkCanonicalizationFailure,
           MarkStartedFailure
  <2>2. job[w] \in Job /\ JobOK(pc[w], job[w]) /\ r \in RequestIds
    BY <2>1 DEF TypeInv, TypeOK, JobsOK, JobOK
  <2>3. job[w].rows \in Seq(ParsedRow)
    BY <2>2 DEF Job
  <2> QED
    BY <2>1, <2>2, <2>3 DEF TypeInv, TypeOK
<1>1. /\ 0 \in Nat /\ "FAILED" \in Terminal /\ "SUCCEEDED" \in Terminal
      /\ batch[r].received \in Nat /\ batch[r].accepted \in Nat
      /\ batch[r].rejected \in Nat
  BY <1>0 DEF Terminal, Batch
<1>2. UNCHANGED <<raw, revisions, series, partitions, clock, crashed>>
  BY DEF FinalizeNoData, FinalizeExpectedFailure, MarkCanonicalizationFailure,
         MarkStartedFailure
<1>3. CASE FinalizeNoData(w)
  <2>1. batch' \in [RequestIds -> Batch] /\ ResultOf(r, batch'[r]) \in CallerReply
    BY <1>0, <1>1, <1>3, FinalizeStep DEF FinalizeNoData
  <2> QED
    BY <1>0, <1>2, <1>3, <2>1, CommitAndReturnStep DEF FinalizeNoData, TypeInv, TypeOK
<1>4. CASE FinalizeExpectedFailure(w)
  <2>1. job[w].status \in Terminal
    BY <1>0, <1>4 DEF FinalizeExpectedFailure, JobOK
  <2>2. batch' \in [RequestIds -> Batch] /\ ResultOf(r, batch'[r]) \in CallerReply
    BY <1>0, <1>1, <1>4, <2>1, FinalizeStep DEF FinalizeExpectedFailure
  <2> QED
    BY <1>0, <1>2, <1>4, <2>2, CommitAndReturnStep
       DEF FinalizeExpectedFailure, TypeInv, TypeOK
<1>5. CASE MarkCanonicalizationFailure(w)
  <2>1. batch' \in [RequestIds -> Batch]
    BY <1>0, <1>1, <1>5, FinalizeStep DEF MarkCanonicalizationFailure
  <2> QED
    BY <1>0, <1>2, <1>5, <2>1, ToldType, CommitAndReturnStep
       DEF MarkCanonicalizationFailure, TypeInv, TypeOK
<1>6. CASE MarkStartedFailure(w)
  <2>1. batch' \in [RequestIds -> Batch]
    BY <1>0, <1>1, <1>6, FinalizeStep DEF MarkStartedFailure
  <2> QED
    BY <1>0, <1>2, <1>6, <2>1, ToldType, CommitAndReturnStep
       DEF MarkStartedFailure, TypeInv, TypeOK
<1> QED
  BY <1>3, <1>4, <1>5, <1>6

\* After the first loop of _canonicalize every pending row is resolved.
LEMMA ValidateTyped ==
    ASSUME TypeInv, NEW w \in Workers, ValidateRows(w)
    PROVE  TypeInv'
<1> DEFINE rows == job[w].rows
           checks == [i \in DOMAIN rows |-> RowCheck(job[w], i)]
           months == {MonthOf[rows[i].date] : i \in RowsChecked(checks, "PENDING")}
           j == [job[w] EXCEPT !.checks = checks, !.months = months,
                   !.accepted = Cardinality(RowsChecked(checks, "ACCEPTED")),
                   !.rejected = Cardinality(RowsChecked(checks, "REJECTED"))]
           p == IF months = {} THEN "finish" ELSE "month"
<1>0. /\ pc[w] = "validate" /\ job[w] \in Job /\ JobOK("validate", job[w])
      /\ job[w].symbol \in Symbols /\ rows \in Seq(ParsedRow)
  BY DEF ValidateRows, TypeInv, TypeOK, JobsOK, JobOK, Job
<1>1. \A i \in DOMAIN rows :
        /\ RowCheck(job[w], i) \in ValidationStatus
        /\ RowCheck(job[w], i) = "PENDING" => RowResolved(job[w], i)
  BY <1>0, RowCheckResolves DEF JobOK
<1>2. checks \in Seq(ValidationStatus) /\ DOMAIN checks = DOMAIN rows
  <2>1. DOMAIN rows = 1..Len(rows) /\ Len(rows) \in Nat
    BY <1>0
  <2> QED
    BY <1>1, <2>1
<1>3. \A i \in DOMAIN checks : checks[i] = "PENDING" => RowResolved(job[w], i)
  BY <1>1
<1>4. months \subseteq Months
  BY <1>3, ConstantTypes DEF RowsChecked, RowResolved
<1>5. /\ Cardinality(RowsChecked(checks, "ACCEPTED")) \in Nat
      /\ Cardinality(RowsChecked(checks, "REJECTED")) \in Nat
  <2> HIDE DEF checks
  <2> QED BY <1>2, CheckedCount
<1>6. j \in Job
  <2> HIDE DEF checks, months
  <2> QED BY <1>0, <1>2, <1>4, <1>5 DEF Job
<1>7. /\ j.request = job[w].request /\ j.symbol = job[w].symbol /\ j.rows = rows
      /\ j.received_at = job[w].received_at /\ j.checks = checks
      /\ j.accepted \in Nat /\ j.revs = job[w].revs
  <2> HIDE DEF checks, months
  <2> QED BY <1>0, <1>5 DEF Job
<1>8. job' = [job EXCEPT ![w] = j] /\ pc' = [pc EXCEPT ![w] = p]
  BY DEF ValidateRows, TypeInv, TypeOK
<1>9. p \in {"finish", "month"} /\ p \in Place /\ p \in Canonicalizing /\ j.revs = {}
  BY <1>0, <1>7 DEF Place, Canonicalizing, JobOK
<1>10. JobOK(p, j)
  <2>1. \A i \in DOMAIN j.checks : j.checks[i] = "PENDING" => RowResolved(j, i)
    <3> HIDE DEF checks, months, j
    <3> QED BY <1>3, <1>7 DEF RowResolved
  <2> HIDE DEF checks, months, j, p
  <2> QED
    BY <1>0, <1>2, <1>7, <1>9, <2>1 DEF JobOK
<1>11. pc' \in [Workers -> Place] /\ job' \in [Workers -> Job] /\ JobsOK'
  <2> HIDE DEF checks, months, j, p
  <2> QED BY <1>6, <1>8, <1>9, <1>10, WorkerStep
<1> QED
  BY <1>11 DEF ValidateRows, TypeInv, TypeOK, tables

\* A step of transaction C that leaves its locals alone.
LEMMA PlaceOnly ==
    ASSUME TypeInv, NEW w \in Workers, NEW p \in Place, pc[w] # "idle",
           JobOK(p, job[w]), pc' = [pc EXCEPT ![w] = p], job' = job
    PROVE  pc' \in [Workers -> Place] /\ job' \in [Workers -> Job] /\ JobsOK'
<1>1. job[w] \in Job /\ job' = [job EXCEPT ![w] = job[w]]
  BY DEF TypeInv, TypeOK
<1> QED
  BY <1>1, WorkerStep

\* Taking a month lock keeps the types.
LEMMA LockMonthTyped ==
    ASSUME TypeInv, NEW w \in Workers, LockMonth(w)
    PROVE  TypeInv'
<1>1. "partition" \in Place /\ JobOK("partition", job[w]) /\ pc[w] # "idle"
  BY DEF LockMonth, Place, TypeInv, JobsOK, JobOK, Canonicalizing
<1>2. held' \in [Workers -> SUBSET Lock]
  BY LocksTyped, AcquireType DEF LockMonth
<1> QED
  BY <1>1, <1>2, PlaceOnly DEF LockMonth, TypeInv, TypeOK, tables

\* Creating a partition, or finding it, keeps the types.
LEMMA CreatePartitionTyped ==
    ASSUME TypeInv, NEW w \in Workers, CreatePartition(w)
    PROVE  TypeInv'
<1>1. PICK m \in Months :
        /\ \/ m \in partitions /\ UNCHANGED held
           \/ m \notin partitions /\ Acquire(w, TableExclusive)
        /\ job' = [job EXCEPT ![w].months = @ \ {m}]
        /\ pc' = [pc EXCEPT ![w] = IF job[w].months = {m} THEN "stamp" ELSE "month"]
  BY DEF CreatePartition
<1> DEFINE p == IF job[w].months = {m} THEN "stamp" ELSE "month"
           j == [job[w] EXCEPT !.months = @ \ {m}]
<1>2. pc[w] = "partition" /\ job[w] \in Job /\ JobOK("partition", job[w])
  BY DEF CreatePartition, TypeInv, TypeOK, JobsOK
<1>3. held' \in [Workers -> SUBSET Lock]
  BY <1>1, LocksTyped, AcquireType DEF TypeInv, TypeOK
<1>4. j \in Job
  BY <1>2 DEF Job
<1>5. /\ j.request = job[w].request /\ j.symbol = job[w].symbol
      /\ j.rows = job[w].rows /\ j.received_at = job[w].received_at
      /\ j.checks = job[w].checks /\ j.accepted = job[w].accepted
      /\ j.revs = job[w].revs
  BY <1>2 DEF Job
<1>6. p \in {"stamp", "month"} /\ p \in Place
  BY DEF Place, Canonicalizing
<1>7. job' = [job EXCEPT ![w] = j] /\ pc' = [pc EXCEPT ![w] = p]
  BY <1>1 DEF TypeInv, TypeOK
<1> HIDE DEF p, j
<1>8. JobOK(p, j)
  BY <1>2, <1>5, <1>6 DEF JobOK, RowResolved, WriteOK, Canonicalizing
<1>9. pc' \in [Workers -> Place] /\ job' \in [Workers -> Job] /\ JobsOK'
  BY <1>4, <1>6, <1>7, <1>8, WorkerStep
<1> QED
  BY <1>3, <1>9 DEF CreatePartition, TypeInv, TypeOK, tables

\* A stamped row is not available to the system before its receipt.
LEMMA StampRowTyped ==
    ASSUME TypeInv, NEW w \in Workers, StampRow(w)
    PROVE  TypeInv'
<1>1. PICK i \in DOMAIN job[w].checks :
        /\ CurrentRow(w, i)
        /\ \/ /\ clock >= job[w].received_at
              /\ job' = [job EXCEPT ![w].system_available_at = clock]
              /\ pc' = [pc EXCEPT ![w] = "series"]
           \/ /\ clock < job[w].received_at
              /\ job' = [job EXCEPT ![w].checks[i] = "REJECTED", ![w].rejected = @ + 1]
              /\ pc' = [pc EXCEPT ![w] = PlaceAfterRow(w, i)]
  BY DEF StampRow
<1>2. /\ pc[w] = "stamp" /\ job[w] \in Job /\ JobOK("stamp", job[w]) /\ clock \in Nat
      /\ job[w].checks \in Seq(ValidationStatus) /\ job[w].received_at \in Nat
  BY DEF StampRow, TypeInv, TypeOK, JobsOK, Job
<1>3. CASE /\ clock >= job[w].received_at
           /\ job' = [job EXCEPT ![w].system_available_at = clock]
           /\ pc' = [pc EXCEPT ![w] = "series"]
  <2> DEFINE j == [job[w] EXCEPT !.system_available_at = clock]
  <2>1. j \in Job
    BY <1>2 DEF Job
  <2>2. /\ j.request = job[w].request /\ j.symbol = job[w].symbol
        /\ j.rows = job[w].rows /\ j.received_at = job[w].received_at
        /\ j.checks = job[w].checks /\ j.accepted = job[w].accepted
        /\ j.revs = job[w].revs /\ j.system_available_at = clock
    BY <1>2 DEF Job
  <2>3. job' = [job EXCEPT ![w] = j] /\ "series" \in Place
    BY <1>3 DEF TypeInv, TypeOK, Place, Canonicalizing
  <2> HIDE DEF j
  <2>4. JobOK("series", j)
    BY <1>2, <1>3, <2>2 DEF JobOK, RowResolved, WriteOK, Canonicalizing
  <2>5. pc' \in [Workers -> Place] /\ job' \in [Workers -> Job] /\ JobsOK'
    BY <1>3, <2>1, <2>3, <2>4, WorkerStep
  <2> QED
    BY <2>5 DEF StampRow, TypeInv, TypeOK, tables
<1>4. CASE /\ job' = [job EXCEPT ![w].checks[i] = "REJECTED", ![w].rejected = @ + 1]
           /\ pc' = [pc EXCEPT ![w] = PlaceAfterRow(w, i)]
  <2> DEFINE checks == [job[w].checks EXCEPT ![i] = "REJECTED"]
             j == [job[w] EXCEPT !.checks = checks, !.rejected = @ + 1]
             p == PlaceAfterRow(w, i)
  <2>1. checks \in Seq(ValidationStatus) /\ DOMAIN checks = DOMAIN job[w].checks
    BY <1>2 DEF ValidationStatus
  <2>2. \A k \in DOMAIN checks : checks[k] = "PENDING" => job[w].checks[k] = "PENDING"
    BY <1>2
  <2>3. j \in Job
    <3>1. job[w].rejected + 1 \in Nat
      BY <1>2 DEF Job
    <3> HIDE DEF checks
    <3> QED BY <1>2, <2>1, <3>1 DEF Job
  <2>4. /\ j.request = job[w].request /\ j.symbol = job[w].symbol
        /\ j.rows = job[w].rows /\ j.received_at = job[w].received_at
        /\ j.checks = checks /\ j.accepted = job[w].accepted /\ j.revs = job[w].revs
    BY <1>2 DEF Job
  <2>5. p \in {"finish", "stamp"} /\ p \in Place
    BY DEF PlaceAfterRow, Place, Canonicalizing
  <2>6. job' = [job EXCEPT ![w] = j] /\ pc' = [pc EXCEPT ![w] = p]
    BY <1>2, <1>4 DEF TypeInv, TypeOK
  <2> HIDE DEF checks, j, p
  <2>7. JobOK(p, j)
    BY <1>2, <2>1, <2>2, <2>4, <2>5 DEF JobOK, RowResolved, WriteOK, Canonicalizing
  <2>8. pc' \in [Workers -> Place] /\ job' \in [Workers -> Job] /\ JobsOK'
    BY <2>3, <2>5, <2>6, <2>7, WorkerStep
  <2> QED
    BY <2>8 DEF StampRow, TypeInv, TypeOK, tables
<1> QED
  BY <1>1, <1>3, <1>4

\* The row a worker is writing has a session, and its bar is a lockable one.
LEMMA CurrentRowTyped ==
    ASSUME TypeInv, NEW w \in Workers, pc[w] \in Canonicalizing,
           NEW i \in DOMAIN job[w].checks, CurrentRow(w, i)
    PROVE  /\ RowResolved(job[w], i)
           /\ InstrumentOf(job[w], i) \in Instruments
<1>1. JobOK(pc[w], job[w]) /\ job[w].checks[i] = "PENDING"
  BY DEF TypeInv, JobsOK, CurrentRow, RowsChecked
<1>2. RowResolved(job[w], i)
  BY <1>1 DEF JobOK
<1> QED
  BY <1>2 DEF RowResolved, InstrumentOf, SessionResolution

\* Finding or creating the series keeps the types.
LEMMA EnsureSeriesTyped ==
    ASSUME TypeInv, NEW w \in Workers, EnsureSeries(w)
    PROVE  TypeInv'
<1>1. /\ "bar" \in Place /\ JobOK("bar", job[w]) /\ pc[w] # "idle"
      /\ pc[w] \in Canonicalizing
  BY DEF EnsureSeries, Place, TypeInv, JobsOK, JobOK, Canonicalizing
<1>2. held' \in [Workers -> SUBSET Lock]
  BY <1>1, CurrentRowTyped, LocksTyped, AcquireType DEF EnsureSeries, TypeInv, TypeOK
<1> QED
  BY <1>1, <1>2, PlaceOnly DEF EnsureSeries, TypeInv, TypeOK, tables

\* Taking a bar lock keeps the types.
LEMMA LockBarTyped ==
    ASSUME TypeInv, NEW w \in Workers, LockBar(w)
    PROVE  TypeInv'
<1>1. /\ "append" \in Place /\ JobOK("append", job[w]) /\ pc[w] # "idle"
      /\ pc[w] \in Canonicalizing
  BY DEF LockBar, Place, TypeInv, JobsOK, JobOK, Canonicalizing
<1>2. PICK i \in DOMAIN job[w].checks :
        /\ CurrentRow(w, i)
        /\ Acquire(w, BarLock(InstrumentOf(job[w], i), job[w].rows[i].date))
  BY DEF LockBar
<1>3. BarLock(InstrumentOf(job[w], i), job[w].rows[i].date) \in Lock
  BY <1>1, <1>2, CurrentRowTyped, LocksTyped DEF RowResolved
<1>4. held' \in [Workers -> SUBSET Lock]
  BY <1>2, <1>3, AcquireType
<1> QED
  BY <1>1, <1>4, PlaceOnly DEF LockBar, TypeInv, TypeOK, tables

\* What AppendRevision adds: nothing, or one revision of the row it handles.
NewRevision(w, i, n) ==
    [instrument |-> InstrumentOf(job[w], i), date |-> job[w].rows[i].date,
     revision_no |-> n, value |-> Stored[job[w].rows[i].value],
     available_at |-> job[w].received_at,
     system_available_at |-> job[w].system_available_at,
     request |-> job[w].request]

\* What append_revision_if_changed adds: at most the next revision of the row.
LEMMA AppendShape ==
    ASSUME TypeInv, NEW w \in Workers, AppendRevision(w)
    PROVE  \E i \in DOMAIN job[w].checks : \E new \in SUBSET Revision :
              /\ CurrentRow(w, i)
              /\ \A v \in new : \E n \in Nat \ {0} : v = NewRevision(w, i, n)
              /\ job' = [job EXCEPT ![w].revs = @ \cup new,
                                    ![w].checks[i] = "ACCEPTED",
                                    ![w].accepted = @ + 1]
              /\ pc' = [pc EXCEPT ![w] = PlaceAfterRow(w, i)]
<1>0. /\ job[w] \in Job /\ pc[w] = "append" /\ pc[w] \in Canonicalizing
      /\ job[w].request \in RequestIds
  BY DEF AppendRevision, TypeInv, TypeOK, JobsOK, JobOK, Canonicalizing
<1> DEFINE Visible(i) == RevisionsOf(revisions \cup job[w].revs,
                                     InstrumentOf(job[w], i), job[w].rows[i].date)
           Write(i, new) == job' = [job EXCEPT ![w].revs = @ \cup new,
                                               ![w].checks[i] = "ACCEPTED",
                                               ![w].accepted = @ + 1]
<1>1. PICK i \in DOMAIN job[w].checks :
        /\ CurrentRow(w, i)
        /\ \/ Visible(i) = {} /\ Write(i, {NewRevision(w, i, 1)})
           \/ \E latest \in Visible(i) :
                 /\ IsLatest(latest, Visible(i))
                 /\ Write(i, IF Unchanged(latest, job[w], i) THEN {}
                             ELSE {NewRevision(w, i, latest.revision_no + 1)})
        /\ pc' = [pc EXCEPT ![w] = PlaceAfterRow(w, i)]
  BY DEF AppendRevision, NewRevision
<1>2. ASSUME NEW n \in Nat \ {0}
      PROVE  NewRevision(w, i, n) \in Revision
  <2>1. RowResolved(job[w], i) /\ InstrumentOf(job[w], i) \in Instruments
    BY <1>0, <1>1, CurrentRowTyped
  <2>2. Stored[job[w].rows[i].value] \in Values
    BY <2>1, ConstantTypes DEF RowResolved
  <2>3. job[w].received_at \in Nat /\ job[w].system_available_at \in Nat
    BY <1>0 DEF Job
  <2> QED
    BY <1>0, <2>1, <2>2, <2>3 DEF NewRevision, Revision, RowResolved
<1>3. CASE Visible(i) = {} /\ Write(i, {NewRevision(w, i, 1)})
  <2> DEFINE new == {NewRevision(w, i, 1)}
  <2>1. 1 \in Nat \ {0}
    OBVIOUS
  <2>2. new \in SUBSET Revision /\ \A v \in new : v = NewRevision(w, i, 1)
    BY <1>2, <2>1
  <2>3. Write(i, new)
    BY <1>3
  <2> HIDE DEF new
  <2> QED
    BY <1>1, <2>1, <2>2, <2>3
<1>4. CASE \E latest \in Visible(i) :
             /\ IsLatest(latest, Visible(i))
             /\ Write(i, IF Unchanged(latest, job[w], i) THEN {}
                         ELSE {NewRevision(w, i, latest.revision_no + 1)})
  <2>1. PICK latest \in Visible(i) :
           Write(i, IF Unchanged(latest, job[w], i) THEN {}
                   ELSE {NewRevision(w, i, latest.revision_no + 1)})
    BY <1>4
  <2>2. latest \in Revision
    BY <1>0, <2>1 DEF RevisionsOf, Job, TypeInv, TypeOK
  <2>3. latest.revision_no + 1 \in Nat \ {0}
    BY <2>2 DEF Revision
  <2> DEFINE new == IF Unchanged(latest, job[w], i) THEN {}
                    ELSE {NewRevision(w, i, latest.revision_no + 1)}
  <2>4. /\ new \in SUBSET Revision
        /\ \A v \in new : v = NewRevision(w, i, latest.revision_no + 1)
    BY <1>2, <2>3
  <2>5. Write(i, new)
    BY <2>1
  <2> HIDE DEF new
  <2> QED
    BY <1>1, <2>3, <2>4, <2>5
<1> QED
  BY <1>1, <1>3, <1>4

\* Appending a revision, or none, keeps the uncommitted writes well-formed.
LEMMA AppendTyped ==
    ASSUME TypeInv, NEW w \in Workers, AppendRevision(w)
    PROVE  TypeInv'
<1>0. /\ job[w] \in Job /\ pc[w] = "append" /\ pc[w] \in Canonicalizing
      /\ JobOK("append", job[w])
      /\ job[w].checks \in Seq(ValidationStatus) /\ job[w].revs \subseteq Revision
      /\ job[w].accepted \in Nat /\ job[w].accepted + 1 \in Nat
      /\ job[w].received_at \in Nat /\ job[w].system_available_at \in Nat
  <2>1. pc[w] = "append" /\ pc[w] \in Canonicalizing
    BY DEF AppendRevision, Canonicalizing
  <2>2. job[w] \in Job /\ JobOK("append", job[w])
    BY <2>1 DEF TypeInv, TypeOK, JobsOK
  <2> QED
    BY <2>1, <2>2 DEF Job
<1>1. PICK i \in DOMAIN job[w].checks, new \in SUBSET Revision :
        /\ CurrentRow(w, i)
        /\ \A v \in new : \E n \in Nat \ {0} : v = NewRevision(w, i, n)
        /\ job' = [job EXCEPT ![w].revs = @ \cup new, ![w].checks[i] = "ACCEPTED",
                              ![w].accepted = @ + 1]
        /\ pc' = [pc EXCEPT ![w] = PlaceAfterRow(w, i)]
  BY AppendShape
<1> DEFINE checks == [job[w].checks EXCEPT ![i] = "ACCEPTED"]
           revs == job[w].revs \cup new
           j == [job[w] EXCEPT !.revs = revs, !.checks = checks, !.accepted = @ + 1]
           p == PlaceAfterRow(w, i)
<1>2. checks \in Seq(ValidationStatus) /\ DOMAIN checks = DOMAIN job[w].checks
  BY <1>0 DEF ValidationStatus
<1>3. \A k \in DOMAIN checks : checks[k] = "PENDING" => job[w].checks[k] = "PENDING"
  BY <1>0
<1>4. revs \in SUBSET Revision
  BY <1>0
<1>5. j \in Job
  <2> HIDE DEF checks, revs
  <2> QED BY <1>0, <1>2, <1>4 DEF Job
<1>6. /\ j.request = job[w].request /\ j.symbol = job[w].symbol
      /\ j.rows = job[w].rows /\ j.received_at = job[w].received_at
      /\ j.checks = checks /\ j.accepted = job[w].accepted + 1 /\ j.revs = revs
  BY <1>0 DEF Job
<1>7. p \in {"finish", "stamp"} /\ p \in Place
  BY DEF PlaceAfterRow, Place, Canonicalizing
<1>8. job' = [job EXCEPT ![w] = j] /\ pc' = [pc EXCEPT ![w] = p]
  BY <1>0, <1>1 DEF TypeInv, TypeOK
<1> HIDE DEF checks, j, p
<1>9. \A v \in new : WriteOK(j, v)
  <2>1. RowResolved(job[w], i)
    BY <1>0, <1>1, CurrentRowTyped
  <2> SUFFICES ASSUME NEW v \in new PROVE WriteOK(j, v)
    OBVIOUS
  <2>2. /\ v.request = job[w].request /\ v.date = job[w].rows[i].date
        /\ v.available_at = job[w].received_at
        /\ v.system_available_at = job[w].system_available_at
    BY <1>1 DEF NewRevision
  <2>3. job[w].system_available_at >= job[w].received_at
    BY <1>0 DEF JobOK
  <2>4. Resolution[job[w].symbol][v.date].close \in Nat
    BY <2>1, <2>2 DEF RowResolved, SessionResolution
  <2> QED
    BY <1>0, <1>6, <2>1, <2>2, <2>3, <2>4 DEF WriteOK, RowResolved
<1>10. \A v \in job[w].revs : WriteOK(j, v)
  BY <1>0, <1>6 DEF JobOK, WriteOK
<1>11. JobOK(p, j)
  <2>1. \A k \in DOMAIN j.checks : j.checks[k] = "PENDING" => RowResolved(j, k)
    BY <1>0, <1>2, <1>3, <1>6 DEF JobOK, RowResolved
  <2> QED
    BY <1>0, <1>2, <1>6, <1>7, <1>9, <1>10, <2>1 DEF JobOK, Canonicalizing
<1>12. pc' \in [Workers -> Place] /\ job' \in [Workers -> Job] /\ JobsOK'
  BY <1>5, <1>7, <1>8, <1>11, WorkerStep
<1>13. held' \in [Workers -> SUBSET Lock]
  BY LocksTyped, AcquireType DEF AppendRevision
<1> QED
  BY <1>12, <1>13 DEF AppendRevision, TypeInv, TypeOK, tables

\* The commit of transaction C keeps the types.
LEMMA FinishTyped ==
    ASSUME TypeInv, NEW w \in Workers, FinishBatch(w)
    PROVE  TypeInv'
<1> DEFINE r == job[w].request
           j == job[w]
           events == [i \in DOMAIN j.checks |-> [row |-> j.rows[i], status |-> j.checks[i]]]
<1>0. /\ pc[w] = "finish" /\ j \in Job /\ JobOK("finish", j) /\ r \in RequestIds
      /\ DOMAIN j.checks = DOMAIN j.rows
  BY DEF FinishBatch, TypeInv, TypeOK, JobsOK, JobOK, Canonicalizing
<1>1. /\ j.rows \in Seq(ParsedRow) /\ j.checks \in Seq(ValidationStatus)
      /\ Len(j.rows) \in Nat /\ j.accepted \in Nat /\ j.rejected \in Nat
      /\ j.revs \subseteq Revision
  BY <1>0 DEF Job
<1>2. TerminalStatus(j.accepted, j.rejected) \in Terminal
  BY DEF TerminalStatus, Terminal
<1>3. batch' \in [RequestIds -> Batch] /\ ResultOf(r, batch'[r]) \in CallerReply
  BY <1>0, <1>1, <1>2, FinalizeStep DEF FinishBatch
<1>4. events \in Seq(RawEvent)
  <2>1. /\ DOMAIN j.checks = 1..Len(j.checks) /\ Len(j.checks) \in Nat
        /\ \A i \in DOMAIN j.checks : j.checks[i] \in ValidationStatus
        /\ \A i \in DOMAIN j.rows : j.rows[i] \in ParsedRow
    BY <1>1
  <2>2. \A i \in DOMAIN j.checks : [row |-> j.rows[i], status |-> j.checks[i]] \in RawEvent
    BY <1>0, <2>1 DEF RawEvent
  <2> QED
    BY <2>1, <2>2
<1>5. raw' \in [RequestIds -> Seq(RawEvent)]
  <2>1. raw' = [raw EXCEPT ![r] = events]
    BY DEF FinishBatch
  <2> HIDE DEF events
  <2> QED
    BY <1>0, <1>4, <2>1 DEF TypeInv, TypeOK
<1>6. /\ revisions' \subseteq Revision /\ series' \subseteq Instruments
      /\ partitions' \subseteq Months
  BY <1>1 DEF FinishBatch, TypeInv, TypeOK
<1>7. CommitAndReturn(w, ResultOf(r, batch'[r])) /\ UNCHANGED <<clock, crashed>>
  BY DEF FinishBatch
<1>8. pc[w] # "idle"
  BY <1>0
<1> QED
  BY <1>3, <1>5, <1>6, <1>7, <1>8, CommitAndReturnStep DEF TypeInv, TypeOK

\* Rejected finalizations, faults and deadlocks keep the types.
LEMMA RaisersTyped ==
    ASSUME TypeInv, NEW w \in Workers,
           FinalizeRejected(w) \/ UnexpectedError(w) \/ DeadlockVictim(w)
    PROVE  TypeInv'
<1>1. pc[w] # "idle"
  <2>1. CASE FinalizeRejected(w)
    BY <2>1 DEF FinalizeRejected, Finalizing
  <2>2. CASE UnexpectedError(w)
    BY <2>2 DEF UnexpectedError
  <2>3. CASE DeadlockVictim(w)
    BY <2>3 DEF DeadlockVictim, Deadlocked, WaitsFor, Wants
  <2> QED
    BY <2>1, <2>2, <2>3
<1>2. job[w].request \in RequestIds
  BY <1>1 DEF TypeInv, TypeOK, JobsOK, JobOK
<1>3. Raise(w) /\ UNCHANGED <<tables, clock, crashed>>
  BY DEF FinalizeRejected, UnexpectedError, DeadlockVictim
<1>4. faults' \in [RequestIds -> Nat]
  <2>1. CASE FinalizeRejected(w)
    BY <2>1 DEF FinalizeRejected, TypeInv, TypeOK
  <2>2. CASE UnexpectedError(w)
    BY <1>2, <2>2, FaultStep DEF UnexpectedError
  <2>3. CASE DeadlockVictim(w)
    BY <1>2, <2>3 DEF DeadlockVictim, TypeInv, TypeOK
  <2> QED
    BY <2>1, <2>2, <2>3
<1> QED
  BY <1>1, <1>3, <1>4, RaiseStep DEF TypeInv, TypeOK, tables

\* A crash keeps the types.
LEMMA CrashTyped ==
    ASSUME TypeInv, NEW w \in Workers, Crash(w)
    PROVE  TypeInv'
<1>1. NoReply \in CallerReply /\ job[w].request \in RequestIds
  BY DEF Crash, NoReply, CallerReply, TypeInv, TypeOK, JobsOK, JobOK
<1>2. held' \in [Workers -> SUBSET Lock] /\ crashed' \subseteq RequestIds
  BY <1>1 DEF Crash, TypeInv, TypeOK
<1> QED
  BY <1>1, <1>2, ReturnStep DEF Crash, TypeInv, TypeOK, tables

\* The clock stays a natural number, and concerns nothing else.
LEMMA ClockTyped ==
    ASSUME TypeInv, Tick \/ StepClockBack
    PROVE  TypeInv'
<1>1. clock' \in Nat
  BY DEF Tick, StepClockBack, TypeInv, TypeOK
<1>2. UNCHANGED <<tables, held, pc, job, reply, faults, crashed>>
  BY DEF Tick, StepClockBack
<1>3. JobsOK'
  BY <1>2 DEF TypeInv, JobsOK
<1> QED
  BY <1>1, <1>2, <1>3 DEF TypeInv, TypeOK, tables

\* The type invariant holds initially.
LEMMA InitTyped == Init => TypeInv
<1> SUFFICES ASSUME Init PROVE TypeInv
  OBVIOUS
<1>1. /\ NoBatch \in Batch /\ NoReply \in CallerReply /\ "idle" \in Place
      /\ <<>> \in Seq(RawEvent)
  BY DEF NoBatch, Batch, NoReply, CallerReply, Place
<1>2. TypeOK
  BY <1>1, NoJobOK, ConstantTypes DEF Init, TypeOK
<1>3. JobsOK
  BY NoJobOK DEF Init, JobsOK
<1> QED
  BY <1>2, <1>3 DEF TypeInv

\* The type invariant is inductive.
LEMMA NextTyped == TypeInv /\ [Next]_vars => TypeInv'
<1> SUFFICES ASSUME TypeInv, [Next]_vars PROVE TypeInv'
  OBVIOUS
<1>1. CASE UNCHANGED vars
  BY <1>1 DEF vars, TypeInv, TypeOK, JobsOK
<1>2. ASSUME NEW w \in Workers, Request(w) PROVE TypeInv'
  BY <1>2, RequestTyped
<1>3. ASSUME NEW w \in Workers, Proceed(w) PROVE TypeInv'
  BY <1>3, FetchTyped, PersistTyped, FinalizersTyped, ValidateTyped, LockMonthTyped,
     CreatePartitionTyped, StampRowTyped, EnsureSeriesTyped, LockBarTyped, AppendTyped,
     FinishTyped, RaisersTyped
     DEF Proceed, Canonicalize
<1>4. ASSUME NEW w \in Workers, UnexpectedError(w) PROVE TypeInv'
  BY <1>4, RaisersTyped
<1>5. ASSUME NEW w \in Workers, Crash(w) PROVE TypeInv'
  BY <1>5, CrashTyped
<1>6. CASE Tick \/ StepClockBack
  BY <1>6, ClockTyped
<1> QED
  BY <1>1, <1>2, <1>3, <1>4, <1>5, <1>6 DEF Next

\* The tables, the locks and the locals of every worker stay in their types,
\* with any number of workers, requests, faults and crashes.
THEOREM TypeCorrect == Spec => []TypeOK
<1>1. Spec => []TypeInv
  BY InitTyped, NextTyped, PTL DEF Spec
<1>2. TypeInv => TypeOK
  BY DEF TypeInv
<1> QED
  BY <1>1, <1>2, PTL

-----------------------------------------------------------------------------
(* What a step may do to a batch, to the revisions and to a job *)

\* finalize_batch changes one RUNNING batch, and not its symbol.
LEMMA FinalizeChanges ==
    ASSUME TypeInv, NEW q \in RequestIds, NEW status, NEW received, NEW accepted,
           NEW rejected, FinalizeBatch(q, status, received, accepted, rejected)
    PROVE  /\ batch[q].status = "RUNNING"
           /\ batch'[q].symbol = batch[q].symbol
           /\ batch'[q].status = status
           /\ \A r \in RequestIds \ {q} : batch'[r] = batch[r]
<1>1. batch[q] \in Batch
  BY DEF TypeInv, TypeOK
<1>2. /\ FinalizedBatch(q, status, received, accepted, rejected).symbol = batch[q].symbol
      /\ FinalizedBatch(q, status, received, accepted, rejected).status = status
  BY <1>1 DEF FinalizedBatch, Batch
<1> QED
  BY <1>2 DEF FinalizeBatch, CanFinalize, TypeInv, TypeOK

\* A step changes the header or the raw events of a batch only from ABSENT or
\* RUNNING; a started batch keeps its symbol and is never absent again.
BatchKept(r) ==
    /\ batch[r].status # "ABSENT" =>
          batch'[r].symbol = batch[r].symbol /\ batch'[r].status # "ABSENT"
    /\ batch[r].status \notin {"ABSENT", "RUNNING"} =>
          batch'[r] = batch[r] /\ raw'[r] = raw[r]

\* A step that touches neither table keeps every batch.
LEMMA UnchangedBatchesKept ==
    ASSUME UNCHANGED <<batch, raw>>
    PROVE  \A r \in RequestIds : BatchKept(r)
BY DEF BatchKept

\* Only the worker of a batch writes to it, and only while it is RUNNING.
LEMMA WriterKeepsBatches ==
    ASSUME TypeInv, NEW q \in RequestIds, batch[q].status = "RUNNING",
           batch'[q].symbol = batch[q].symbol, batch'[q].status # "ABSENT",
           \A r \in RequestIds \ {q} : batch'[r] = batch[r] /\ raw'[r] = raw[r]
    PROVE  \A r \in RequestIds : BatchKept(r)
BY DEF BatchKept

\* Transaction B writes only to its own RUNNING batch.
LEMMA PersistKeepsBatches ==
    ASSUME TypeInv, NEW w \in Workers,
           PersistAcquisition(w) \/ PersistEmptyAcquisition(w)
    PROVE  \A r \in RequestIds : BatchKept(r)
<1> DEFINE q == job[w].request
<1>1. q \in RequestIds /\ batch[q] \in Batch
  BY DEF PersistAcquisition, PersistEmptyAcquisition, TypeInv, TypeOK, JobsOK, JobOK
<1>2. PICK n : batch' = [batch EXCEPT ![q].received = n]
  BY DEF PersistAcquisition, PersistEmptyAcquisition
<1>3. batch[q].status = "RUNNING"
  BY DEF PersistAcquisition, PersistEmptyAcquisition
<1>4. /\ batch'[q].symbol = batch[q].symbol /\ batch'[q].status = "RUNNING"
      /\ \A r \in RequestIds \ {q} : batch'[r] = batch[r]
  BY <1>1, <1>2, <1>3 DEF TypeInv, TypeOK, Batch
<1>5. \A r \in RequestIds \ {q} : raw'[r] = raw[r]
  BY <1>1 DEF PersistAcquisition, PersistEmptyAcquisition, TypeInv, TypeOK
<1> QED
  BY <1>1, <1>3, <1>4, <1>5, WriterKeepsBatches

\* Every finalization writes only to its own RUNNING batch.
LEMMA FinalizersKeepBatches ==
    ASSUME TypeInv, NEW w \in Workers,
           \/ FinalizeNoData(w) \/ FinalizeExpectedFailure(w) \/ FinishBatch(w)
           \/ MarkCanonicalizationFailure(w) \/ MarkStartedFailure(w)
    PROVE  \A r \in RequestIds : BatchKept(r)
<1> DEFINE q == job[w].request
<1>1. /\ q \in RequestIds /\ batch[q] \in Batch
      /\ pc[w] = "finalize_failure" => job[w].status \in Terminal
  BY DEF FinalizeNoData, FinalizeExpectedFailure, FinishBatch, MarkCanonicalizationFailure,
         MarkStartedFailure, TypeInv, TypeOK, JobsOK, JobOK
<1>2. \E status \in Terminal : \E received, accepted, rejected :
         FinalizeBatch(q, status, received, accepted, rejected)
  <2>1. TerminalStatus(job[w].accepted, job[w].rejected) \in Terminal
        /\ "FAILED" \in Terminal /\ "SUCCEEDED" \in Terminal
    BY DEF TerminalStatus, Terminal
  <2>2. CASE FinalizeNoData(w)
    BY <2>1, <2>2 DEF FinalizeNoData
  <2>3. CASE FinalizeExpectedFailure(w)
    BY <1>1, <2>3 DEF FinalizeExpectedFailure
  <2>4. CASE FinishBatch(w)
    BY <2>1, <2>4 DEF FinishBatch
  <2>5. CASE MarkCanonicalizationFailure(w)
    BY <2>1, <2>5 DEF MarkCanonicalizationFailure
  <2>6. CASE MarkStartedFailure(w)
    BY <2>1, <2>6 DEF MarkStartedFailure
  <2> QED
    BY <2>2, <2>3, <2>4, <2>5, <2>6
<1>3. /\ batch[q].status = "RUNNING" /\ batch'[q].symbol = batch[q].symbol
      /\ batch'[q].status \in Terminal
      /\ \A r \in RequestIds \ {q} : batch'[r] = batch[r]
  BY <1>1, <1>2, FinalizeChanges
<1>4. \A r \in RequestIds \ {q} : raw'[r] = raw[r]
  BY DEF FinalizeNoData, FinalizeExpectedFailure, FinishBatch, MarkCanonicalizationFailure,
         MarkStartedFailure, TypeInv, TypeOK
<1>5. batch'[q].status # "ABSENT"
  BY <1>3 DEF Terminal
<1> QED
  BY <1>1, <1>3, <1>4, <1>5, WriterKeepsBatches

\* Every step of the service keeps every batch.
LEMMA BatchesKept ==
    ASSUME TypeInv, Next
    PROVE  \A r \in RequestIds : BatchKept(r)
<1>1. ASSUME NEW w \in Workers, NEW q \in RequestIds, NEW s \in Symbols,
             CreateBatch(w, q, s)
      PROVE  \A r \in RequestIds : BatchKept(r)
  <2>1. /\ batch[q].status = "ABSENT" /\ raw' = raw
        /\ \A r \in RequestIds \ {q} : batch'[r] = batch[r]
    BY <1>1 DEF CreateBatch, StartBatch, TypeInv, TypeOK
  <2> QED
    BY <2>1 DEF BatchKept
<1>2. ASSUME NEW w \in Workers, NEW q \in RequestIds, NEW s \in Symbols,
             RejectRequest(w, q, s) \/ ReplayResult(w, q, s)
      PROVE  \A r \in RequestIds : BatchKept(r)
  BY <1>2, UnchangedBatchesKept DEF RejectRequest, ReplayResult, tables
<1>3. ASSUME NEW w \in Workers, Proceed(w)
      PROVE  \A r \in RequestIds : BatchKept(r)
  <2>1. CASE \/ FetchAndParse(w) \/ ValidateRows(w) \/ LockMonth(w) \/ CreatePartition(w)
             \/ StampRow(w) \/ EnsureSeries(w) \/ LockBar(w) \/ AppendRevision(w)
             \/ FinalizeRejected(w) \/ DeadlockVictim(w)
    <3>1. UNCHANGED tables
      BY <2>1 DEF FetchAndParse, ValidateRows, LockMonth, CreatePartition, StampRow,
         EnsureSeries, LockBar, AppendRevision, FinalizeRejected, DeadlockVictim
    <3> QED
      BY <3>1, UnchangedBatchesKept DEF tables
  <2> QED
    BY <1>3, <2>1, PersistKeepsBatches, FinalizersKeepBatches DEF Proceed, Canonicalize
<1>4. ASSUME NEW w \in Workers, UnexpectedError(w) \/ Crash(w)
      PROVE  \A r \in RequestIds : BatchKept(r)
  BY <1>4, UnchangedBatchesKept DEF UnexpectedError, Crash, tables
<1>5. ASSUME Tick \/ StepClockBack
      PROVE  \A r \in RequestIds : BatchKept(r)
  BY <1>5, UnchangedBatchesKept DEF Tick, StepClockBack, tables
<1> QED
  BY <1>1, <1>2, <1>3, <1>4, <1>5 DEF Next, Request

\* A batch that has a final status never changes again, nor do its raw events:
\* no handler, replay, late worker or reused request id can touch it.
THEOREM FinalBatchesNeverChange == Spec => FinalBatchesAreFinal
<1> DEFINE Final == \A r \in RequestIds : batch[r].status \in Terminal =>
                       batch'[r] = batch[r] /\ raw'[r] = raw[r]
<1>1. TypeInv /\ [Next]_vars => [Final]_vars
  <2> SUFFICES ASSUME TypeInv, Next PROVE Final
    OBVIOUS
  <2> QED
    BY BatchesKept DEF BatchKept, Terminal
<1>2. Spec => []TypeInv
  BY InitTyped, NextTyped, PTL DEF Spec
<1> QED
  BY <1>1, <1>2, PTL DEF Spec, FinalBatchesAreFinal

-----------------------------------------------------------------------------
(* Batches have one worker, and revisions come from batches that succeeded *)

\* A worker's batch exists and was created for the worker's symbol.
Owned(j) ==
    j.request # None =>
        /\ j.request \in RequestIds
        /\ batch[j.request].status # "ABSENT"
        /\ batch[j.request].symbol = j.symbol

SafetyInv ==
    /\ TypeInv
    /\ \A w \in Workers : Owned(job[w])
    /\ OneWorkerPerBatch
    /\ RevisionsPublished
    /\ AvailabilityOrdered

\* The worker keeps its request or gives it up.
SameRequest(w) ==
    \/ job'[w].request = None
    \/ job'[w].request = job[w].request /\ job'[w].symbol = job[w].symbol

\* A call that returns gives its request up.
LEMMA ReturnKeepsRequests ==
    ASSUME TypeInv, NEW u \in Workers, NEW answer, Return(u, answer)
    PROVE  \A w \in Workers : SameRequest(w)
BY DEF Return, NoJob, SameRequest, TypeInv, TypeOK

\* An exception keeps the worker's request, or gives it up.
LEMMA RaiseKeepsRequests ==
    ASSUME TypeInv, NEW u \in Workers, Raise(u)
    PROVE  \A w \in Workers : SameRequest(w)
<1>1. CASE pc[u] = "started_failed"
  BY <1>1, ReturnKeepsRequests DEF Raise
<1>2. CASE pc[u] # "started_failed"
  <2>1. job[u] \in Job /\ job' = [job EXCEPT ![u] = RolledBack(job[u])]
    BY <1>2 DEF Raise, TypeInv, TypeOK
  <2>2. /\ RolledBack(job[u]).request = job[u].request
        /\ RolledBack(job[u]).symbol = job[u].symbol
    BY <2>1 DEF RolledBack, Job
  <2> QED
    BY <2>1, <2>2 DEF SameRequest, TypeInv, TypeOK
<1> QED
  BY <1>1, <1>2

\* A commit keeps the worker's request, or gives it up.
LEMMA CommitKeepsRequests ==
    ASSUME TypeInv, NEW u \in Workers, NEW x,
           CommitThen(u, x) \/ CommitAndReturn(u, x)
    PROVE  \A w \in Workers : SameRequest(w)
BY ReturnKeepsRequests, RaiseKeepsRequests DEF CommitThen, CommitAndReturn, SameRequest

\* A running worker never changes to another request.
LEMMA ProceedKeepsRequests ==
    ASSUME TypeInv, NEW u \in Workers, Proceed(u)
    PROVE  \A w \in Workers : SameRequest(w)
<1>0. job[u] \in Job
  BY DEF TypeInv, TypeOK
<1>1. CASE \/ PersistAcquisition(u) \/ PersistEmptyAcquisition(u) \/ FinalizeNoData(u)
           \/ FinalizeExpectedFailure(u) \/ FinishBatch(u)
           \/ MarkCanonicalizationFailure(u) \/ MarkStartedFailure(u)
  <2>1. \E x : CommitThen(u, x) \/ CommitAndReturn(u, x)
    BY <1>1 DEF PersistAcquisition, PersistEmptyAcquisition, FinalizeNoData,
       FinalizeExpectedFailure, FinishBatch, MarkCanonicalizationFailure, MarkStartedFailure
  <2> QED
    BY <2>1, CommitKeepsRequests
<1>2. CASE LockMonth(u) \/ EnsureSeries(u) \/ LockBar(u)
  BY <1>2 DEF LockMonth, EnsureSeries, LockBar, SameRequest
<1>3. CASE FinalizeRejected(u) \/ DeadlockVictim(u)
  BY <1>3, RaiseKeepsRequests DEF FinalizeRejected, DeadlockVictim
<1>4. CASE \/ FetchAndParse(u) \/ ValidateRows(u) \/ CreatePartition(u) \/ StampRow(u)
           \/ AppendRevision(u)
  <2>1. /\ \A w \in Workers \ {u} : job'[w] = job[w]
        /\ job'[u].request = job[u].request /\ job'[u].symbol = job[u].symbol
    <3>1. CASE FetchAndParse(u)
      BY <1>0, <3>1 DEF FetchAndParse, TypeInv, TypeOK, Job
    <3>2. CASE ValidateRows(u)
      BY <1>0, <3>2 DEF ValidateRows, TypeInv, TypeOK, Job
    <3>3. CASE CreatePartition(u)
      BY <1>0, <3>3 DEF CreatePartition, TypeInv, TypeOK, Job
    <3>4. CASE StampRow(u)
      BY <1>0, <3>4 DEF StampRow, TypeInv, TypeOK, Job
    <3>5. CASE AppendRevision(u)
      <4>1. PICK i \in DOMAIN job[u].checks, new \in SUBSET Revision :
              /\ CurrentRow(u, i)
              /\ \A v \in new : \E n \in Nat \ {0} : v = NewRevision(u, i, n)
              /\ job' = [job EXCEPT ![u].revs = @ \cup new, ![u].checks[i] = "ACCEPTED",
                                    ![u].accepted = @ + 1]
              /\ pc' = [pc EXCEPT ![u] = PlaceAfterRow(u, i)]
        BY <3>5, AppendShape
      <4> DEFINE j == [job[u] EXCEPT !.revs = @ \cup new, !.checks[i] = "ACCEPTED",
                                     !.accepted = @ + 1]
      <4>2. job' = [job EXCEPT ![u] = j]
        BY <4>1 DEF TypeInv, TypeOK
      <4>3. j.request = job[u].request /\ j.symbol = job[u].symbol
        BY <1>0 DEF Job
      <4> HIDE DEF j
      <4> QED
        BY <4>2, <4>3 DEF TypeInv, TypeOK
    <3> QED
      BY <1>4, <3>1, <3>2, <3>3, <3>4, <3>5
  <2> QED
    BY <2>1 DEF SameRequest
<1> QED
  BY <1>1, <1>2, <1>3, <1>4 DEF Proceed, Canonicalize

\* A worker gets a batch only by creating it.
NewOwner(u, r, s) ==
    /\ batch[r].status = "ABSENT"
    /\ batch'[r].status = "RUNNING" /\ batch'[r].symbol = s
    /\ job'[u].request = r /\ job'[u].symbol = s
    /\ \A w \in Workers \ {u} : job'[w] = job[w]

\* A worker comes by a request only by inserting its batch.
LEMMA RequestsKept ==
    ASSUME TypeInv, Next
    PROVE  \/ \A w \in Workers : SameRequest(w)
           \/ \E u \in Workers, r \in RequestIds, s \in Symbols : NewOwner(u, r, s)
<1>1. ASSUME NEW u \in Workers, NEW r \in RequestIds, NEW s \in Symbols,
             CreateBatch(u, r, s), ~ Return(u, Told("error", r))
      PROVE  NewOwner(u, r, s)
  <2>1. /\ batch[r].status = "ABSENT"
        /\ batch' = [batch EXCEPT ![r] = [NoBatch EXCEPT !.status = "RUNNING",
                                            !.symbol = s, !.started_at = clock]]
        /\ job' = [job EXCEPT ![u] = [NoJob EXCEPT !.request = r, !.symbol = s]]
    BY <1>1 DEF CreateBatch, StartBatch
  <2>2. batch'[r].status = "RUNNING" /\ batch'[r].symbol = s
    BY <2>1 DEF NoBatch, TypeInv, TypeOK
  <2>3. /\ job'[u].request = r /\ job'[u].symbol = s
        /\ \A w \in Workers \ {u} : job'[w] = job[w]
    BY <2>1 DEF NoJob, TypeInv, TypeOK
  <2> QED
    BY <2>1, <2>2, <2>3 DEF NewOwner
<1>2. ASSUME NEW u \in Workers, Request(u)
      PROVE  \/ \A w \in Workers : SameRequest(w)
             \/ \E r \in RequestIds, s \in Symbols : NewOwner(u, r, s)
  BY <1>1, <1>2, ReturnKeepsRequests DEF Request, RejectRequest, ReplayResult
<1>3. ASSUME NEW u \in Workers, UnexpectedError(u) \/ Crash(u)
      PROVE  \A w \in Workers : SameRequest(w)
  BY <1>3, RaiseKeepsRequests, ReturnKeepsRequests DEF UnexpectedError, Crash
<1>4. ASSUME Tick \/ StepClockBack
      PROVE  \A w \in Workers : SameRequest(w)
  BY <1>4 DEF Tick, StepClockBack, SameRequest
<1> QED
  BY <1>2, <1>3, <1>4, ProceedKeepsRequests DEF Next

\* Batch ownership is inductive.
LEMMA OwnershipInductive ==
    ASSUME SafetyInv, Next, TypeInv'
    PROVE  (\A w \in Workers : Owned(job[w])') /\ OneWorkerPerBatch'
<1>0. TypeInv
  BY DEF SafetyInv
<1>1. CASE \A w \in Workers : SameRequest(w)
  <2>1. \A w \in Workers : Owned(job[w])'
    BY <1>0, <1>1, BatchesKept DEF SafetyInv, Owned, SameRequest, BatchKept
  <2>2. OneWorkerPerBatch'
    BY <1>1 DEF SafetyInv, OneWorkerPerBatch, SameRequest
  <2> QED
    BY <2>1, <2>2
<1>2. CASE \E u \in Workers, r \in RequestIds, s \in Symbols : NewOwner(u, r, s)
  <2> PICK u \in Workers, r \in RequestIds, s \in Symbols : NewOwner(u, r, s)
    BY <1>2
  <2>1. \A w \in Workers : Owned(job[w])'
    <3> TAKE w \in Workers
    <3>1. CASE w = u
      BY <3>1 DEF NewOwner, Owned
    <3>2. CASE w # u
      BY <1>0, <3>2, BatchesKept DEF NewOwner, SafetyInv, Owned, BatchKept
    <3> QED
      BY <3>1, <3>2
  <2>2. \A w \in Workers \ {u} : job'[w].request # r
    BY ConstantTypes DEF NewOwner, SafetyInv, Owned
  <2>3. OneWorkerPerBatch'
    BY <2>2 DEF NewOwner, SafetyInv, OneWorkerPerBatch
  <2> QED
    BY <2>1, <2>3
<1> QED
  BY <1>0, <1>1, <1>2, RequestsKept

\* The batch of a committed revision stays as it was.
LEMMA OldRevisionsKept ==
    ASSUME SafetyInv, Next, NEW v \in revisions
    PROVE  /\ batch'[v.request].status \in {"SUCCEEDED", "PARTIAL"}
           /\ batch'[v.request].symbol = batch[v.request].symbol
<1>1. v.request \in RequestIds /\ batch[v.request].status \in {"SUCCEEDED", "PARTIAL"}
  BY DEF SafetyInv, TypeInv, TypeOK, Revision, RevisionsPublished
<1>2. BatchKept(v.request)
  BY <1>1, BatchesKept DEF SafetyInv
<1> QED
  BY <1>1, <1>2 DEF BatchKept

\* What transaction C publishes when it commits.
LEMMA FinishPublishes ==
    ASSUME SafetyInv, NEW w \in Workers, FinishBatch(w), NEW v \in job[w].revs
    PROVE  /\ batch'[v.request].status \in {"SUCCEEDED", "PARTIAL"}
           /\ v.system_available_at >= v.available_at
           /\ v.available_at >= Resolution[batch'[v.request].symbol][v.date].close
<1> DEFINE r == job[w].request
<1>1. /\ TypeInv /\ job[w] \in Job /\ JobOK("finish", job[w]) /\ r \in RequestIds
      /\ Owned(job[w])
  BY DEF SafetyInv, FinishBatch, TypeInv, TypeOK, JobsOK, JobOK
<1>2. WriteOK(job[w], v)
  BY <1>1 DEF JobOK
<1>3. batch[r].symbol = job[w].symbol
  <2>1. r # None
    BY <1>1, ConstantTypes
  <2> QED
    BY <1>1, <2>1 DEF Owned
<1>4. /\ batch'[r].symbol = batch[r].symbol
      /\ batch'[r].status = TerminalStatus(job[w].accepted, job[w].rejected)
  BY <1>1, FinalizeChanges DEF FinishBatch
<1>5. TerminalStatus(job[w].accepted, job[w].rejected) \in {"SUCCEEDED", "PARTIAL"}
  BY <1>2 DEF WriteOK, TerminalStatus
<1> QED
  BY <1>2, <1>3, <1>4, <1>5 DEF WriteOK

\* Only the commit of transaction C adds revisions.
LEMMA RevisionsOnlyByFinish ==
    ASSUME Next
    PROVE  \/ revisions' = revisions
           \/ \E w \in Workers : FinishBatch(w) /\ revisions' = revisions \cup job[w].revs
<1>1. ASSUME NEW w \in Workers, Proceed(w), ~FinishBatch(w)
      PROVE  revisions' = revisions
  BY <1>1 DEF Proceed, Canonicalize, tables, FetchAndParse, PersistAcquisition,
     PersistEmptyAcquisition, FinalizeNoData, FinalizeExpectedFailure, ValidateRows,
     LockMonth, CreatePartition, StampRow, EnsureSeries, LockBar, AppendRevision,
     MarkCanonicalizationFailure, MarkStartedFailure, FinalizeRejected, DeadlockVictim
<1>2. ASSUME NEW w \in Workers, Request(w) \/ UnexpectedError(w) \/ Crash(w)
      PROVE  revisions' = revisions
  BY <1>2 DEF Request, CreateBatch, RejectRequest, ReplayResult, UnexpectedError, Crash,
     tables
<1>3. ASSUME Tick \/ StepClockBack
      PROVE  revisions' = revisions
  BY <1>3 DEF Tick, StepClockBack, tables
<1> QED
  BY <1>1, <1>2, <1>3 DEF Next, FinishBatch

\* The safety invariant is inductive.
LEMMA SafetyInductive == SafetyInv /\ [Next]_vars => SafetyInv'
<1> SUFFICES ASSUME SafetyInv, [Next]_vars PROVE SafetyInv'
  OBVIOUS
<1>1. TypeInv'
  BY NextTyped DEF SafetyInv
<1>2. CASE UNCHANGED vars
  BY <1>1, <1>2 DEF vars, SafetyInv, Owned, OneWorkerPerBatch, RevisionsPublished,
     AvailabilityOrdered
<1>3. CASE Next
  <2>1. (\A w \in Workers : Owned(job[w])') /\ OneWorkerPerBatch'
    BY <1>1, <1>3, OwnershipInductive
  <2>2. \A v \in revisions' :
          /\ batch'[v.request].status \in {"SUCCEEDED", "PARTIAL"}
          /\ v.system_available_at >= v.available_at
          /\ v.available_at >= Resolution[batch'[v.request].symbol][v.date].close
    <3> TAKE v \in revisions'
    <3>1. CASE v \in revisions
      BY <1>3, <3>1, OldRevisionsKept DEF SafetyInv, AvailabilityOrdered
    <3>2. CASE v \notin revisions
      BY <1>3, <3>2, RevisionsOnlyByFinish, FinishPublishes
    <3> QED
      BY <3>1, <3>2
  <2> QED
    BY <1>1, <2>1, <2>2 DEF SafetyInv, RevisionsPublished, AvailabilityOrdered
<1> QED
  BY <1>2, <1>3

\* The safety invariant holds initially.
LEMMA InitSafe == Init => SafetyInv
<1> SUFFICES ASSUME Init PROVE SafetyInv
  OBVIOUS
<1>1. TypeInv
  BY InitTyped
<1>2. \A w \in Workers : job[w].request = None
  BY DEF Init, NoJob
<1>3. revisions = {}
  BY DEF Init
<1> QED
  BY <1>1, <1>2, <1>3 DEF SafetyInv, Owned, OneWorkerPerBatch, RevisionsPublished,
     AvailabilityOrdered

\* The safety invariant holds in every state of the service.
LEMMA AlwaysSafe == Spec => []SafetyInv
BY InitSafe, SafetyInductive, PTL DEF Spec

\* Two calls of ingest() never run the same batch.
THEOREM BatchesHaveOneWorker == Spec => []OneWorkerPerBatch
<1>1. SafetyInv => OneWorkerPerBatch
  BY DEF SafetyInv
<1> QED
  BY <1>1, AlwaysSafe, PTL

\* Whatever fails, a canonical revision belongs to a batch that ended SUCCEEDED
\* or PARTIAL.
THEOREM OnlySuccessPublishes == Spec => []RevisionsPublished
<1>1. SafetyInv => RevisionsPublished
  BY DEF SafetyInv
<1> QED
  BY <1>1, AlwaysSafe, PTL

\* No revision is available before its session closed, or to the system before
\* the public, even when the clock is set back while the batch runs.
THEOREM AvailabilityNeverEarly == Spec => []AvailabilityOrdered
<1>1. SafetyInv => AvailabilityOrdered
  BY DEF SafetyInv
<1> QED
  BY <1>1, AlwaysSafe, PTL
=============================================================================
