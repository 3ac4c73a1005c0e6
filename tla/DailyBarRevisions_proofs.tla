----------------------- MODULE DailyBarRevisions_proofs -----------------------
(***************************************************************************)
(* Proofs about the bar revisions that DailyBarIngestion publishes: their  *)
(* numbers, their order, where they come from, and the abstract bar        *)
(* history they implement; and about the locks under which they are        *)
(* written.                                                                *)
(***************************************************************************)
EXTENDS DailyBarIngestion_proofs, FunctionTheorems, WellFoundedInduction

-----------------------------------------------------------------------------
(* The inductive invariant *)

\* No value of a reply is rounded when it is stored.  append_revision_if_changed
\* compares a candidate as parsed, so that two readings which are rounded to the
\* same value would both become revisions.
Representable == \A x \in Values : Stored[x] = x

\* The revisions of one bar are numbered 1..n, each number once ...
Numbered(S, n) ==
    /\ \A v \in S : v.revision_no \in 1..n
    /\ \A k \in 1..n : \E v \in S : v.revision_no = k
    /\ \A u, v \in S : u.revision_no = v.revision_no => u = v

\* ... and each differs from the one before it.
Changing(S) ==
    \A u, v \in S : v.revision_no = u.revision_no + 1 => u.value # v.value

BarOK(S) ==
    /\ \E n \in Nat : Numbered(S, n)
    /\ \A v \in S : Stored[v.value] = v.value
    /\ Representable => Changing(S)

\* The row of its batch that an uncommitted revision was made from.
MadeFrom(v, j, i) ==
    /\ j.checks[i] = "ACCEPTED"
    /\ j.rows[i].include /\ j.rows[i].date = v.date
    /\ v.value = Stored[j.rows[i].value] /\ v.instrument = InstrumentOf(j, i)

\* The bar of row i, and the revisions of it that worker w would read.
RowLock(w, i) == BarLock(InstrumentOf(job[w], i), job[w].rows[i].date)
RowRevisions(w, i) ==
    RevisionsOf(revisions \cup job[w].revs, InstrumentOf(job[w], i), job[w].rows[i].date)

\* A row that was canonicalized is the newest revision of its bar.
RowIsNewest(w, i) ==
    \E v \in RowRevisions(w, i) :
        IsLatest(v, RowRevisions(w, i)) /\ v.value = Stored[job[w].rows[i].value]

\* At most one usable row per date, and at most one revision per usable row.
RowsDistinct(rows) ==
    \A i, k \in DOMAIN rows :
        rows[i].include /\ rows[k].include /\ rows[i].date = rows[k].date => i = k

RowsOK(place, j) ==
    /\ RowsDistinct(j.rows)
    /\ place \in Canonicalizing => \A i \in DOMAIN j.checks :
          j.checks[i] = "PENDING" => j.rows[i].include
    /\ \A v \in j.revs : \E i \in DOMAIN j.checks : MadeFrom(v, j, i)
    /\ \A u, v \in j.revs : u.date = v.date => u = v

\* A worker writes to a bar only under its lock, and what it reads there is a
\* well-numbered history that nobody else can extend.
LocksOK(w) ==
    /\ \A v \in job[w].revs : BarLock(v.instrument, v.date) \in held[w]
    /\ pc[w] = "append" => \A i \in DOMAIN job[w].checks :
          CurrentRow(w, i) => RowLock(w, i) \in held[w]
    /\ \A i \in Instruments, d \in Dates :
          BarLock(i, d) \in held[w] => BarOK(RevisionsOf(revisions \cup job[w].revs, i, d))
    /\ pc[w] \in Canonicalizing => \A i \in DOMAIN job[w].checks :
          job[w].checks[i] = "ACCEPTED" /\ job[w].rows[i].include =>
              RowLock(w, i) \in held[w] /\ RowIsNewest(w, i)

BarLocksExclusive ==
    \A u, w \in Workers : u # w =>
        \A i \in Instruments, d \in Dates :
            ~(BarLock(i, d) \in held[u] /\ BarLock(i, d) \in held[w])

\* A batch that is running or has failed has no verdicts.
NoVerdicts(r) ==
    batch[r].status \in {"ABSENT", "RUNNING", "FAILED"} =>
        \A i \in DOMAIN raw[r] : raw[r][i].status = "PENDING"

RevisionInv ==
    /\ SafetyInv
    /\ \A i \in Instruments, d \in Dates : BarOK(RevisionsOf(revisions, i, d))
    /\ \A w \in Workers : RowsOK(pc[w], job[w]) /\ LocksOK(w)
    /\ BarLocksExclusive
    /\ \A r \in RequestIds : NoVerdicts(r)
    /\ RevisionsTraceable

-----------------------------------------------------------------------------
(* What a step does to the workers *)

\* A step of worker u leaves the other workers where they are.
Still(u) ==
    \A w \in Workers : w # u =>
        pc'[w] = pc[w] /\ job'[w] = job[w] /\ held'[w] = held[w]

\* A step after which worker u has no uncommitted revision and no transaction C.
Outside(u) ==
    /\ job'[u].revs = {} /\ held'[u] \subseteq held[u]
    /\ pc'[u] \notin Canonicalizing
    /\ RowsDistinct(job'[u].rows)

\* The end of a call.
LEMMA ReturnOutside ==
    ASSUME TypeInv, NEW u \in Workers, NEW answer, Return(u, answer),
           held' = held \/ held' = [held EXCEPT ![u] = {}]
    PROVE  Still(u) /\ Outside(u)
<1>1. NoJob.revs = {} /\ NoJob.rows = <<>>
  BY DEF NoJob
<1>2. RowsDistinct(<<>>)
  BY DEF RowsDistinct
<1>3. pc'[u] = "idle" /\ job'[u] = NoJob /\ held'[u] \subseteq held[u]
  BY DEF Return, TypeInv, TypeOK
<1>4. Still(u)
  BY DEF Still, Return, TypeInv, TypeOK
<1> QED
  BY <1>1, <1>2, <1>3, <1>4 DEF Outside, Canonicalizing

\* An exception: the rows survive, the writes and the locks do not.
LEMMA RaiseOutside ==
    ASSUME TypeInv, NEW u \in Workers, RowsDistinct(job[u].rows), Raise(u)
    PROVE  Still(u) /\ Outside(u)
<1>1. held' = [held EXCEPT ![u] = {}] /\ job[u] \in Job
  BY DEF Raise, TypeInv, TypeOK
<1>2. CASE pc[u] = "started_failed"
  BY <1>1, <1>2, ReturnOutside DEF Raise
<1>3. CASE pc[u] # "started_failed"
  <2> DEFINE j == RolledBack(job[u])
  <2>1. j.revs = {} /\ j.rows = job[u].rows
    BY <1>1 DEF RolledBack, Job
  <2>2. pc' = [pc EXCEPT ![u] = Handler(pc[u])] /\ job' = [job EXCEPT ![u] = j]
    BY <1>3 DEF Raise
  <2> HIDE DEF j
  <2>3. /\ pc'[u] = Handler(pc[u]) /\ job'[u] = j /\ held'[u] = {} /\ Still(u)
    BY <1>1, <2>2 DEF Still, TypeInv, TypeOK
  <2>4. Handler(pc[u]) \notin Canonicalizing
    BY DEF Handler, Canonicalizing
  <2> QED
    BY <2>1, <2>3, <2>4 DEF Outside
<1> QED
  BY <1>2, <1>3

\* A commit before transaction C, and one that ends the call.
LEMMA CommitOutside ==
    ASSUME TypeInv, NEW u \in Workers, RowsDistinct(job[u].rows),
           \/ \E place \in Place \ Canonicalizing : CommitThen(u, place) /\ job[u].revs = {}
           \/ \E answer : CommitAndReturn(u, answer)
    PROVE  Still(u) /\ Outside(u)
<1>1. CASE Fault(u) /\ Raise(u)
  BY <1>1, RaiseOutside
<1>2. ASSUME NEW place \in Place \ Canonicalizing, pc' = [pc EXCEPT ![u] = place],
             UNCHANGED <<held, job>>, job[u].revs = {}
      PROVE  Still(u) /\ Outside(u)
  BY <1>2 DEF Still, Outside, TypeInv, TypeOK
<1>3. ASSUME NEW answer, held' = [held EXCEPT ![u] = {}], Return(u, answer)
      PROVE  Still(u) /\ Outside(u)
  BY <1>3, ReturnOutside
<1> QED
  BY <1>1, <1>2, <1>3 DEF CommitThen, CommitAndReturn

\* A new batch.
LEMMA CreateOutside ==
    ASSUME TypeInv, NEW u \in Workers, NEW r \in RequestIds, NEW s \in Symbols,
           CreateBatch(u, r, s)
    PROVE  Still(u) /\ Outside(u)
<1>1. UNCHANGED held /\ StartBatch(u, r, s)
  BY DEF CreateBatch
<1>2. CASE Return(u, Told("error", r))
  BY <1>1, <1>2, ReturnOutside
<1>3. CASE /\ pc' = [pc EXCEPT ![u] = "fetch"]
           /\ job' = [job EXCEPT ![u] = [NoJob EXCEPT !.request = r, !.symbol = s]]
  <2> DEFINE j == [NoJob EXCEPT !.request = r, !.symbol = s]
  <2>1. j.revs = {} /\ j.rows = <<>>
    BY DEF NoJob
  <2>2. RowsDistinct(<<>>)
    BY DEF RowsDistinct
  <2> HIDE DEF j
  <2>3. /\ pc'[u] = "fetch" /\ job'[u] = j /\ held'[u] = held[u] /\ Still(u)
    BY <1>1, <1>3 DEF Still, TypeInv, TypeOK, j
  <2> QED
    BY <2>1, <2>2, <2>3 DEF Outside, Canonicalizing
<1> QED
  BY <1>1, <1>2, <1>3 DEF StartBatch

\* The provider's reply: DailyBarParser includes at most one row per date.
LEMMA FetchOutside ==
    ASSUME TypeInv, NEW u \in Workers, FetchAndParse(u)
    PROVE  Still(u) /\ Outside(u)
<1>1. /\ pc[u] = "fetch" /\ UNCHANGED held /\ job[u] \in Job /\ job[u].revs = {}
      /\ job[u].symbol \in Symbols
  BY DEF FetchAndParse, TypeInv, TypeOK, JobsOK, JobOK, Canonicalizing
<1>2. PICK answer \in Replies[job[u].symbol] :
         /\ job' = [job EXCEPT ![u].rows = answer.rows, ![u].received_at = clock,
                               ![u].status = FailureStatus(answer.outcome)]
         /\ pc' = [pc EXCEPT ![u] = PlaceAfter(answer.outcome)]
  BY DEF FetchAndParse
<1>3. RowsDistinct(answer.rows)
  BY <1>1, <1>2, RepliesWellFormed DEF ReplyWellFormed, RowsDistinct
<1> DEFINE j == [job[u] EXCEPT !.rows = answer.rows, !.received_at = clock,
                               !.status = FailureStatus(answer.outcome)]
<1>4. j.revs = {} /\ j.rows = answer.rows
  BY <1>1 DEF Job
<1>5. job' = [job EXCEPT ![u] = j]
  BY <1>2 DEF TypeInv, TypeOK
<1> HIDE DEF j
<1>6. job'[u] = j /\ held'[u] = held[u] /\ pc'[u] = PlaceAfter(answer.outcome) /\ Still(u)
  BY <1>1, <1>2, <1>5 DEF Still, TypeInv, TypeOK
<1>7. PlaceAfter(answer.outcome) \notin Canonicalizing
  BY DEF PlaceAfter, Canonicalizing
<1> QED
  BY <1>3, <1>4, <1>6, <1>7 DEF Outside

\* Every step but those of transaction C.
LEMMA StepsOutside ==
    ASSUME TypeInv, NEW u \in Workers, RowsDistinct(job[u].rows),
           \/ Request(u) \/ UnexpectedError(u) \/ Crash(u)
           \/ FetchAndParse(u) \/ PersistAcquisition(u) \/ PersistEmptyAcquisition(u)
           \/ FinalizeNoData(u) \/ FinalizeExpectedFailure(u) \/ FinishBatch(u)
           \/ MarkCanonicalizationFailure(u) \/ MarkStartedFailure(u)
           \/ FinalizeRejected(u) \/ DeadlockVictim(u)
    PROVE  Still(u) /\ Outside(u)
<1>1. CASE Request(u)
  <2>1. ASSUME NEW r \in RequestIds, NEW s \in Symbols,
               RejectRequest(u, r, s) \/ ReplayResult(u, r, s)
        PROVE  Still(u) /\ Outside(u)
    BY <2>1, ReturnOutside DEF RejectRequest, ReplayResult
  <2> QED
    BY <1>1, <2>1, CreateOutside DEF Request
<1>2. CASE UnexpectedError(u) \/ FinalizeRejected(u) \/ DeadlockVictim(u)
  BY <1>2, RaiseOutside DEF UnexpectedError, FinalizeRejected, DeadlockVictim
<1>3. CASE Crash(u)
  BY <1>3, ReturnOutside DEF Crash
<1>4. CASE PersistAcquisition(u) \/ PersistEmptyAcquisition(u)
  <2>1. job[u].revs = {}
    BY <1>4 DEF PersistAcquisition, PersistEmptyAcquisition, TypeInv, JobsOK, JobOK,
       Canonicalizing
  <2>2. \E place \in Place \ Canonicalizing : CommitThen(u, place)
    <3>1. {"finalize_no_data", "validate", "finalize_failure"} \subseteq Place \ Canonicalizing
      BY DEF Place, Canonicalizing
    <3> QED
      BY <1>4, <3>1 DEF PersistAcquisition, PersistEmptyAcquisition
  <2> QED
    BY <2>1, <2>2, CommitOutside
<1>5. CASE \/ FinalizeNoData(u) \/ FinalizeExpectedFailure(u) \/ FinishBatch(u)
           \/ MarkCanonicalizationFailure(u) \/ MarkStartedFailure(u)
  <2>1. \E answer : CommitAndReturn(u, answer)
    BY <1>5 DEF FinalizeNoData, FinalizeExpectedFailure, FinishBatch,
       MarkCanonicalizationFailure, MarkStartedFailure
  <2> QED
    BY <2>1, CommitOutside
<1> QED
  BY <1>1, <1>2, <1>3, <1>4, <1>5, FetchOutside

-----------------------------------------------------------------------------
(* Histories of a bar *)

\* A bar without revisions.
LEMMA EmptyBarOK == BarOK({})
<1>1. Numbered({}, 0)
  BY DEF Numbered
<1> QED
  BY <1>1 DEF BarOK, Changing

\* The newest of n well-numbered revisions has the number n.
LEMMA LatestIsLast ==
    ASSUME NEW S \in SUBSET Revision, NEW n \in Nat, Numbered(S, n), NEW v \in S, IsLatest(v, S)
    PROVE  v.revision_no = n /\ n > 0
<1>1. v.revision_no \in 1..n
  BY DEF Numbered
<1>2. PICK u \in S : u.revision_no = n
  BY <1>1 DEF Numbered
<1> QED
  BY <1>1, <1>2 DEF IsLatest

\* The first revision of a bar.
LEMMA FirstRevisionOK ==
    ASSUME NEW v \in Revision, v.revision_no = 1, Stored[v.value] = v.value
    PROVE  BarOK({v}) /\ IsLatest(v, {v})
<1>1. Numbered({v}, 1)
  BY DEF Numbered
<1>2. Changing({v})
  BY DEF Changing
<1>3. IsLatest(v, {v})
  BY DEF IsLatest
<1> QED
  BY <1>1, <1>2, <1>3 DEF BarOK

\* A revision numbered after the newest one.
LEMMA NextRevisionOK ==
    ASSUME NEW S \in SUBSET Revision, BarOK(S), NEW latest \in S, IsLatest(latest, S),
           NEW v \in Revision, v.revision_no = latest.revision_no + 1,
           Stored[v.value] = v.value, Representable => latest.value # v.value
    PROVE  BarOK(S \cup {v}) /\ IsLatest(v, S \cup {v})
<1>1. PICK n \in Nat : Numbered(S, n)
  BY DEF BarOK
<1>2. latest.revision_no = n /\ n > 0
  BY <1>1, LatestIsLast
<1>3. \A u \in S : u.revision_no \in 1..n
  BY <1>1 DEF Numbered
<1>4. Numbered(S \cup {v}, n + 1)
  <2>1. \A u \in S \cup {v} : u.revision_no \in 1..(n + 1)
    BY <1>2, <1>3
  <2>2. \A k \in 1..(n + 1) : \E u \in S \cup {v} : u.revision_no = k
    BY <1>1, <1>2 DEF Numbered
  <2>3. \A u, x \in S \cup {v} : u.revision_no = x.revision_no => u = x
    BY <1>1, <1>2, <1>3 DEF Numbered
  <2> QED
    BY <2>1, <2>2, <2>3 DEF Numbered
<1>5. Representable => Changing(S \cup {v})
  <2> SUFFICES ASSUME Representable, NEW u \in S \cup {v}, NEW x \in S \cup {v},
                      x.revision_no = u.revision_no + 1
               PROVE  u.value # x.value
    BY DEF Changing
  <2>1. CASE u \in S /\ x \in S
    BY <2>1 DEF BarOK, Changing
  <2>2. CASE u \in S /\ x = v
    <3>1. u.revision_no \in Nat /\ latest.revision_no \in Nat
      BY <1>2, <1>3, <2>2
    <3>2. u = latest
      BY <1>1, <1>2, <2>2, <3>1 DEF Numbered
    <3> QED
      BY <2>2, <3>2
  <2>3. CASE u = v
    BY <1>2, <1>3, <2>3
  <2> QED
    BY <2>1, <2>2, <2>3
<1>6. IsLatest(v, S \cup {v})
  BY <1>2, <1>3 DEF IsLatest
<1> QED
  BY <1>4, <1>5, <1>6 DEF BarOK

\* What append_revision_if_changed read and what it adds.
LEMMA AppendCases ==
    ASSUME TypeInv, NEW u \in Workers, AppendRevision(u)
    PROVE  \E i \in DOMAIN job[u].checks : \E new \in SUBSET Revision :
              /\ CurrentRow(u, i)
              /\ \/ RowRevisions(u, i) = {} /\ new = {NewRevision(u, i, 1)}
                 \/ \E latest \in RowRevisions(u, i) :
                       /\ IsLatest(latest, RowRevisions(u, i))
                       /\ \/ latest.value = job[u].rows[i].value /\ new = {}
                          \/ /\ latest.value # job[u].rows[i].value
                             /\ new = {NewRevision(u, i, latest.revision_no + 1)}
              /\ job' = [job EXCEPT ![u].revs = @ \cup new,
                                    ![u].checks[i] = "ACCEPTED",
                                    ![u].accepted = @ + 1]
              /\ pc' = [pc EXCEPT ![u] = PlaceAfterRow(u, i)]
<1>0. /\ job[u] \in Job /\ pc[u] = "append" /\ pc[u] \in Canonicalizing
      /\ job[u].request \in RequestIds
  BY DEF AppendRevision, TypeInv, TypeOK, JobsOK, JobOK, Canonicalizing
<1> DEFINE Write(i, new) == job' = [job EXCEPT ![u].revs = @ \cup new,
                                               ![u].checks[i] = "ACCEPTED",
                                               ![u].accepted = @ + 1]
<1>1. PICK i \in DOMAIN job[u].checks :
        /\ CurrentRow(u, i)
        /\ \/ RowRevisions(u, i) = {} /\ Write(i, {NewRevision(u, i, 1)})
           \/ \E latest \in RowRevisions(u, i) :
                 /\ IsLatest(latest, RowRevisions(u, i))
                 /\ Write(i, IF Unchanged(latest, job[u], i) THEN {}
                             ELSE {NewRevision(u, i, latest.revision_no + 1)})
        /\ pc' = [pc EXCEPT ![u] = PlaceAfterRow(u, i)]
  BY DEF AppendRevision, NewRevision, RowRevisions
<1>2. ASSUME NEW n \in Nat \ {0}
      PROVE  {NewRevision(u, i, n)} \in SUBSET Revision
  <2>1. RowResolved(job[u], i) /\ InstrumentOf(job[u], i) \in Instruments
    BY <1>0, <1>1, CurrentRowTyped
  <2>2. Stored[job[u].rows[i].value] \in Values
    BY <2>1, ConstantTypes DEF RowResolved
  <2>3. job[u].received_at \in Nat /\ job[u].system_available_at \in Nat
    BY <1>0 DEF Job
  <2> QED
    BY <1>0, <2>1, <2>2, <2>3 DEF NewRevision, Revision, RowResolved
<1>3. CASE RowRevisions(u, i) = {} /\ Write(i, {NewRevision(u, i, 1)})
  <2>1. {NewRevision(u, i, 1)} \in SUBSET Revision
    BY <1>2
  <2> QED
    BY <1>1, <1>3, <2>1
<1>4. CASE \E latest \in RowRevisions(u, i) :
             /\ IsLatest(latest, RowRevisions(u, i))
             /\ Write(i, IF Unchanged(latest, job[u], i) THEN {}
                         ELSE {NewRevision(u, i, latest.revision_no + 1)})
  <2>1. PICK latest \in RowRevisions(u, i) :
             /\ IsLatest(latest, RowRevisions(u, i))
             /\ Write(i, IF Unchanged(latest, job[u], i) THEN {}
                         ELSE {NewRevision(u, i, latest.revision_no + 1)})
    BY <1>4
  <2>2. latest \in Revision
    BY <1>0, <2>1 DEF RowRevisions, RevisionsOf, Job, TypeInv, TypeOK
  <2>3. {NewRevision(u, i, latest.revision_no + 1)} \in SUBSET Revision
    <3>1. latest.revision_no + 1 \in Nat \ {0}
      BY <2>2 DEF Revision
    <3> QED
      BY <1>2, <3>1
  <2> DEFINE new == IF Unchanged(latest, job[u], i) THEN {}
                    ELSE {NewRevision(u, i, latest.revision_no + 1)}
  <2>4. /\ new \in SUBSET Revision
        /\ \/ latest.value = job[u].rows[i].value /\ new = {}
           \/ /\ latest.value # job[u].rows[i].value
              /\ new = {NewRevision(u, i, latest.revision_no + 1)}
    BY <2>3 DEF Unchanged
  <2>5. Write(i, new)
    BY <2>1
  <2> HIDE DEF new
  <2> QED
    BY <1>1, <2>1, <2>4, <2>5
<1> QED
  BY <1>1, <1>3, <1>4

-----------------------------------------------------------------------------
(* Steps of transaction C *)

\* A bar lock is none of the other locks, and names its bar.
LEMMA BarLocksDiffer ==
    ASSUME NEW i, NEW d
    PROVE  /\ \A m : BarLock(i, d) # MonthLock(m) /\ BarLock(i, d) # SeriesLock(m)
           /\ BarLock(i, d) # TableExclusive /\ BarLock(i, d) # TableShared
           /\ \A k, e : BarLock(i, d) = BarLock(k, e) => i = k /\ d = e
           /\ ConflictsWith(BarLock(i, d)) = {BarLock(i, d)}
<1>1. /\ \A m : BarLock(i, d) # MonthLock(m) /\ BarLock(i, d) # SeriesLock(m)
      /\ BarLock(i, d) # TableExclusive /\ BarLock(i, d) # TableShared
  BY DEF BarLock, MonthLock, SeriesLock, TableExclusive, TableShared
<1>2. \A k, e : BarLock(i, d) = BarLock(k, e) => i = k /\ d = e
  BY DEF BarLock
<1>3. ConflictsWith(BarLock(i, d)) = {BarLock(i, d)}
  BY <1>1 DEF ConflictsWith
<1> QED
  BY <1>1, <1>2, <1>3

\* A bar lock that a worker gets was nobody else's.
NewLocksFree(u) ==
    \A i \in Instruments, d \in Dates :
        BarLock(i, d) \in held'[u] =>
            \/ BarLock(i, d) \in held[u]
            \/ \A w \in Workers : w # u => BarLock(i, d) \notin held[w]

\* A step of transaction C that writes no revision and takes no bar lock.
LEMMA QuietStep ==
    ASSUME RevisionInv, NEW u \in Workers, pc[u] \in Canonicalizing, UNCHANGED revisions,
           job'[u].revs = job[u].revs, job'[u].rows = job[u].rows,
           job'[u].symbol = job[u].symbol, DOMAIN job'[u].checks = DOMAIN job[u].checks,
           \A i \in DOMAIN job[u].checks :
              /\ job'[u].checks[i] = "PENDING" => job[u].checks[i] = "PENDING"
              /\ job'[u].checks[i] = "ACCEPTED" <=> job[u].checks[i] = "ACCEPTED",
           pc'[u] \in Canonicalizing \ {"append"}, held[u] \subseteq held'[u],
           \A i \in Instruments, d \in Dates :
              BarLock(i, d) \in held'[u] => BarLock(i, d) \in held[u]
    PROVE  RowsOK(pc'[u], job'[u]) /\ LocksOK(u)' /\ NewLocksFree(u)
<1>1. RowsOK(pc[u], job[u]) /\ LocksOK(u)
  BY DEF RevisionInv
<1>2. RowsOK(pc'[u], job'[u])
  BY <1>1 DEF RowsOK, MadeFrom, InstrumentOf
<1>3. \A i \in DOMAIN job[u].checks :
         /\ RowLock(u, i)' = RowLock(u, i)
         /\ RowRevisions(u, i)' = RowRevisions(u, i)
         /\ RowIsNewest(u, i)' <=> RowIsNewest(u, i)
  <2> TAKE i \in DOMAIN job[u].checks
  <2>1. RowLock(u, i)' = RowLock(u, i)
    BY DEF RowLock, InstrumentOf
  <2>2. RowRevisions(u, i)' = RowRevisions(u, i)
    BY DEF RowRevisions, InstrumentOf
  <2> QED
    BY <2>1, <2>2 DEF RowIsNewest
<1>4. LocksOK(u)'
  <2>1. \A v \in job'[u].revs : BarLock(v.instrument, v.date) \in held'[u]
    BY <1>1 DEF LocksOK
  <2>2. \A i \in Instruments, d \in Dates :
          BarLock(i, d) \in held'[u] =>
             BarOK(RevisionsOf(revisions' \cup job'[u].revs, i, d))
    BY <1>1 DEF LocksOK
  <2>3. \A i \in DOMAIN job'[u].checks :
          job'[u].checks[i] = "ACCEPTED" /\ job'[u].rows[i].include =>
              RowLock(u, i)' \in held'[u] /\ RowIsNewest(u, i)'
    BY <1>1, <1>3 DEF LocksOK
  <2> QED
    BY <2>1, <2>2, <2>3 DEF LocksOK
<1>5. NewLocksFree(u)
  BY DEF NewLocksFree
<1> QED
  BY <1>2, <1>4, <1>5

\* ensure_month_partitions and get_or_create_daily_raw_series.
LEMMA LockersOK ==
    ASSUME RevisionInv, NEW u \in Workers,
           LockMonth(u) \/ CreatePartition(u) \/ EnsureSeries(u)
    PROVE  /\ Still(u) /\ RowsOK(pc'[u], job'[u]) /\ LocksOK(u)' /\ NewLocksFree(u)
<1>0. TypeInv /\ pc[u] \in Canonicalizing /\ UNCHANGED revisions /\ job[u] \in Job
  BY DEF RevisionInv, SafetyInv, TypeInv, TypeOK, LockMonth, CreatePartition, EnsureSeries,
     Canonicalizing, tables
<1>1. PICK place \in {"partition", "stamp", "month", "bar"} : pc' = [pc EXCEPT ![u] = place]
  BY DEF LockMonth, CreatePartition, EnsureSeries
<1>2. pc'[u] \in Canonicalizing \ {"append"} /\ \A w \in Workers : w # u => pc'[w] = pc[w]
  BY <1>0, <1>1 DEF TypeInv, TypeOK, Canonicalizing
<1>3. /\ job'[u].revs = job[u].revs /\ job'[u].rows = job[u].rows
      /\ job'[u].symbol = job[u].symbol /\ job'[u].checks = job[u].checks
      /\ \A w \in Workers : w # u => job'[w] = job[w]
  <2>1. CASE job' = job
    BY <2>1
  <2>2. ASSUME NEW m, job' = [job EXCEPT ![u].months = @ \ {m}]
        PROVE  /\ job'[u].revs = job[u].revs /\ job'[u].rows = job[u].rows
               /\ job'[u].symbol = job[u].symbol /\ job'[u].checks = job[u].checks
               /\ \A w \in Workers : w # u => job'[w] = job[w]
    BY <1>0, <2>2 DEF TypeInv, TypeOK, Job
  <2> QED
    BY <2>1, <2>2 DEF LockMonth, CreatePartition, EnsureSeries
<1>4. \/ held' = held
      \/ \E m : \E lock \in {MonthLock(m), SeriesLock(m), TableExclusive} :
            held' = [held EXCEPT ![u] = @ \cup {lock}]
  BY DEF LockMonth, CreatePartition, EnsureSeries, Acquire
<1>5. /\ held[u] \subseteq held'[u] /\ \A w \in Workers : w # u => held'[w] = held[w]
      /\ \A i \in Instruments, d \in Dates :
            BarLock(i, d) \in held'[u] => BarLock(i, d) \in held[u]
  BY <1>0, <1>4, BarLocksDiffer DEF TypeInv, TypeOK
<1>6. Still(u)
  BY <1>2, <1>3, <1>5 DEF Still
<1> QED
  BY <1>0, <1>2, <1>3, <1>5, <1>6, QuietStep

\* The stamp of a row: the row goes on, or is rejected.
LEMMA StampOK ==
    ASSUME RevisionInv, NEW u \in Workers, StampRow(u)
    PROVE  /\ Still(u) /\ RowsOK(pc'[u], job'[u]) /\ LocksOK(u)' /\ NewLocksFree(u)
<1>0. /\ TypeInv /\ pc[u] \in Canonicalizing /\ UNCHANGED <<revisions, held>>
      /\ job[u] \in Job
  BY DEF RevisionInv, SafetyInv, TypeInv, TypeOK, StampRow, Canonicalizing, tables
<1>1. PICK i \in DOMAIN job[u].checks :
         /\ CurrentRow(u, i)
         /\ \/ /\ job' = [job EXCEPT ![u].system_available_at = clock]
               /\ pc' = [pc EXCEPT ![u] = "series"]
            \/ /\ job' = [job EXCEPT ![u].checks[i] = "REJECTED", ![u].rejected = @ + 1]
               /\ pc' = [pc EXCEPT ![u] = PlaceAfterRow(u, i)]
  BY DEF StampRow
<1>2. pc'[u] \in Canonicalizing \ {"append"} /\ \A w \in Workers : w # u => pc'[w] = pc[w]
  BY <1>0, <1>1 DEF TypeInv, TypeOK, Canonicalizing, PlaceAfterRow
<1>3. /\ job'[u].revs = job[u].revs /\ job'[u].rows = job[u].rows
      /\ job'[u].symbol = job[u].symbol
      /\ \/ job'[u].checks = job[u].checks
         \/ job'[u].checks = [job[u].checks EXCEPT ![i] = "REJECTED"]
      /\ \A w \in Workers : w # u => job'[w] = job[w]
  <2>1. CASE job' = [job EXCEPT ![u].system_available_at = clock]
    BY <1>0, <2>1 DEF TypeInv, TypeOK, Job
  <2>2. CASE job' = [job EXCEPT ![u].checks[i] = "REJECTED", ![u].rejected = @ + 1]
    <3> DEFINE checks == [job[u].checks EXCEPT ![i] = "REJECTED"]
               j == [job[u] EXCEPT !.checks = checks, !.rejected = @ + 1]
    <3>1. job' = [job EXCEPT ![u] = j]
      BY <1>0, <2>2 DEF TypeInv, TypeOK
    <3>2. /\ j.revs = job[u].revs /\ j.rows = job[u].rows /\ j.symbol = job[u].symbol
          /\ j.checks = checks
      BY <1>0 DEF Job
    <3> HIDE DEF j
    <3>3. job'[u] = j /\ \A w \in Workers : w # u => job'[w] = job[w]
      BY <1>0, <3>1 DEF TypeInv, TypeOK
    <3> QED
      BY <3>2, <3>3
  <2> QED
    BY <1>1, <2>1, <2>2
<1>4. job[u].checks[i] = "PENDING"
  BY <1>1 DEF CurrentRow, RowsChecked
<1>5. /\ DOMAIN job'[u].checks = DOMAIN job[u].checks
      /\ \A k \in DOMAIN job[u].checks :
            /\ job'[u].checks[k] = "PENDING" => job[u].checks[k] = "PENDING"
            /\ job'[u].checks[k] = "ACCEPTED" <=> job[u].checks[k] = "ACCEPTED"
  BY <1>3, <1>4
<1>6. Still(u)
  BY <1>0, <1>2, <1>3 DEF Still
<1> QED
  BY <1>0, <1>2, <1>3, <1>5, <1>6, QuietStep

\* The first loop of _canonicalize accepts no row that is to be canonicalized.
LEMMA ValidateOK ==
    ASSUME RevisionInv, NEW u \in Workers, ValidateRows(u)
    PROVE  /\ Still(u) /\ RowsOK(pc'[u], job'[u]) /\ LocksOK(u)' /\ NewLocksFree(u)
<1> DEFINE checks == [i \in DOMAIN job[u].rows |-> RowCheck(job[u], i)]
<1>0. /\ TypeInv /\ pc[u] = "validate" /\ UNCHANGED <<revisions, held>> /\ job[u] \in Job
      /\ job[u].revs = {} /\ RowsDistinct(job[u].rows)
  BY DEF RevisionInv, SafetyInv, TypeInv, TypeOK, JobsOK, JobOK, RowsOK, ValidateRows,
     Canonicalizing, tables
<1>1. /\ pc'[u] \in {"finish", "month"}
      /\ \A w \in Workers : w # u => pc'[w] = pc[w]
  BY <1>0 DEF ValidateRows, TypeInv, TypeOK
<1>2. /\ job'[u].revs = {} /\ job'[u].rows = job[u].rows /\ job'[u].checks = checks
      /\ \A w \in Workers : w # u => job'[w] = job[w]
  <2>1. PICK months, n, m :
           job' = [job EXCEPT ![u].checks = checks, ![u].months = months,
                              ![u].accepted = n, ![u].rejected = m]
    BY DEF ValidateRows
  <2> DEFINE j == [job[u] EXCEPT !.checks = checks, !.months = months,
                                 !.accepted = n, !.rejected = m]
  <2> HIDE DEF checks
  <2>2. job' = [job EXCEPT ![u] = j]
    BY <1>0, <2>1 DEF TypeInv, TypeOK
  <2>3. j.revs = job[u].revs /\ j.rows = job[u].rows /\ j.checks = checks
    BY <1>0 DEF Job
  <2> HIDE DEF j
  <2>4. job'[u] = j /\ \A w \in Workers : w # u => job'[w] = job[w]
    BY <1>0, <2>2 DEF TypeInv, TypeOK
  <2> QED
    BY <1>0, <2>3, <2>4
<1>3. \A i \in DOMAIN checks :
         /\ checks[i] = "PENDING" => job[u].rows[i].include
         /\ ~(checks[i] = "ACCEPTED" /\ job[u].rows[i].include)
  BY DEF RowCheck
<1> HIDE DEF checks
<1>4. RowsOK(pc'[u], job'[u])
  BY <1>0, <1>2, <1>3 DEF RowsOK
<1>5. LocksOK(u)'
  BY <1>0, <1>1, <1>2, <1>3 DEF LocksOK, RevisionInv
<1>6. Still(u) /\ NewLocksFree(u)
  BY <1>0, <1>1, <1>2 DEF Still, NewLocksFree
<1> QED
  BY <1>4, <1>5, <1>6

\* append_revision_if_changed, the lock: what is read under it is the committed
\* history, or what the worker itself has made of it.
LEMMA LockBarOK ==
    ASSUME RevisionInv, NEW u \in Workers, LockBar(u)
    PROVE  /\ Still(u) /\ RowsOK(pc'[u], job'[u]) /\ LocksOK(u)' /\ NewLocksFree(u)
<1>0. /\ TypeInv /\ pc[u] = "bar" /\ pc[u] \in Canonicalizing /\ UNCHANGED <<revisions, job>>
      /\ pc' = [pc EXCEPT ![u] = "append"] /\ job[u] \in Job
      /\ RowsOK(pc[u], job[u]) /\ LocksOK(u)
  BY DEF RevisionInv, SafetyInv, TypeInv, TypeOK, LockBar, Canonicalizing, tables
<1>1. PICK i \in DOMAIN job[u].checks :
         CurrentRow(u, i) /\ Acquire(u, RowLock(u, i))
  BY DEF LockBar, RowLock
<1>2. PICK x \in Instruments, d \in Dates :
         x = InstrumentOf(job[u], i) /\ d = job[u].rows[i].date /\ RowLock(u, i) = BarLock(x, d)
  <2>1. RowResolved(job[u], i) /\ InstrumentOf(job[u], i) \in Instruments
    BY <1>0, <1>1, CurrentRowTyped
  <2> QED
    BY <2>1 DEF RowResolved, RowLock
<1>3. /\ held'[u] = held[u] \cup {BarLock(x, d)}
      /\ \A w \in Workers : w # u => held'[w] = held[w] /\ BarLock(x, d) \notin held[w]
  BY <1>0, <1>1, <1>2, BarLocksDiffer DEF Acquire, CanLock, TypeInv, TypeOK
<1>4. pc'[u] = "append" /\ \A w \in Workers : w # u => pc'[w] = pc[w]
  BY <1>0 DEF TypeInv, TypeOK
<1>5. Still(u) /\ NewLocksFree(u)
  BY <1>0, <1>3, <1>4, BarLocksDiffer DEF Still, NewLocksFree
<1>6. RowsOK(pc'[u], job'[u])
  BY <1>0, <1>4 DEF RowsOK
<1>7. ASSUME NEW y \in Instruments, NEW e \in Dates, BarLock(y, e) \in held'[u]
      PROVE  BarOK(RevisionsOf(revisions \cup job[u].revs, y, e))
  <2>1. CASE BarLock(y, e) \in held[u]
    BY <1>0, <2>1 DEF LocksOK
  <2>2. CASE BarLock(y, e) \notin held[u]
    <3>1. \A v \in job[u].revs : ~(v.instrument = y /\ v.date = e)
      BY <1>0, <2>2 DEF LocksOK
    <3>2. RevisionsOf(revisions \cup job[u].revs, y, e) = RevisionsOf(revisions, y, e)
      BY <3>1 DEF RevisionsOf
    <3> QED
      BY <3>2 DEF RevisionInv
  <2> QED
    BY <2>1, <2>2
<1>8. \A k \in DOMAIN job[u].checks : CurrentRow(u, k) => k = i
  <2>1. job[u].checks \in Seq(ValidationStatus)
    BY <1>0 DEF Job
  <2>2. DOMAIN job[u].checks = 1..Len(job[u].checks) /\ Len(job[u].checks) \in Nat
    BY <2>1
  <2>3. DOMAIN job[u].checks \subseteq Int
    BY <2>2
  <2> QED
    BY <1>1, <2>3 DEF CurrentRow, RowsChecked
<1>9. LocksOK(u)'
  <2>1. \A v \in job'[u].revs : BarLock(v.instrument, v.date) \in held'[u]
    BY <1>0, <1>3 DEF LocksOK
  <2>2. \A k \in DOMAIN job'[u].checks : CurrentRow(u, k)' => RowLock(u, k)' \in held'[u]
    <3>1. \A k : (CurrentRow(u, k)' <=> CurrentRow(u, k)) /\ RowLock(u, k)' = RowLock(u, k)
      BY <1>0 DEF CurrentRow, RowLock
    <3> QED
      BY <1>0, <1>2, <1>3, <1>8, <3>1
  <2>3. \A k \in DOMAIN job'[u].checks :
           job'[u].checks[k] = "ACCEPTED" /\ job'[u].rows[k].include =>
              RowLock(u, k)' \in held'[u] /\ RowIsNewest(u, k)'
    BY <1>0, <1>3 DEF LocksOK, RowLock, RowIsNewest, RowRevisions
  <2>4. \A y \in Instruments, e \in Dates : BarLock(y, e) \in held'[u] =>
           BarOK(RevisionsOf(revisions' \cup job'[u].revs, y, e))
    BY <1>0, <1>7
  <2> QED
    BY <2>1, <2>2, <2>3, <2>4 DEF LocksOK
<1> QED
  BY <1>5, <1>6, <1>9

\* append_revision_if_changed, the read and the insert.
LEMMA AppendOK ==
    ASSUME RevisionInv, NEW u \in Workers, AppendRevision(u)
    PROVE  /\ Still(u) /\ RowsOK(pc'[u], job'[u]) /\ LocksOK(u)' /\ NewLocksFree(u)
<1>0. /\ TypeInv /\ pc[u] = "append" /\ pc[u] \in Canonicalizing /\ UNCHANGED revisions
      /\ job[u] \in Job /\ RowsOK(pc[u], job[u]) /\ LocksOK(u)
      /\ revisions \subseteq Revision /\ job[u].revs \subseteq Revision
      /\ DOMAIN job[u].checks = DOMAIN job[u].rows
  BY DEF RevisionInv, SafetyInv, TypeInv, TypeOK, JobsOK, JobOK, AppendRevision,
     Canonicalizing, tables, Job
<1>1. PICK i \in DOMAIN job[u].checks, new \in SUBSET Revision :
         /\ CurrentRow(u, i)
         /\ \/ RowRevisions(u, i) = {} /\ new = {NewRevision(u, i, 1)}
            \/ \E latest \in RowRevisions(u, i) :
                  /\ IsLatest(latest, RowRevisions(u, i))
                  /\ \/ latest.value = job[u].rows[i].value /\ new = {}
                     \/ /\ latest.value # job[u].rows[i].value
                        /\ new = {NewRevision(u, i, latest.revision_no + 1)}
         /\ job' = [job EXCEPT ![u].revs = @ \cup new, ![u].checks[i] = "ACCEPTED",
                               ![u].accepted = @ + 1]
         /\ pc' = [pc EXCEPT ![u] = PlaceAfterRow(u, i)]
  BY <1>0, AppendCases
<1>2. PICK x \in Instruments, d \in Dates, value \in Values :
         /\ x = InstrumentOf(job[u], i) /\ d = job[u].rows[i].date
         /\ value = job[u].rows[i].value /\ BarLock(x, d) \in held[u]
  <2>1. RowResolved(job[u], i) /\ InstrumentOf(job[u], i) \in Instruments
    BY <1>0, <1>1, CurrentRowTyped
  <2>2. RowLock(u, i) \in held[u]
    BY <1>0, <1>1 DEF LocksOK
  <2> QED
    BY <2>1, <2>2 DEF RowResolved, RowLock
<1>3. PICK visible \in SUBSET Revision :
         /\ visible = RowRevisions(u, i)
         /\ visible = RevisionsOf(revisions \cup job[u].revs, x, d) /\ BarOK(visible)
  <2>1. RowRevisions(u, i) = RevisionsOf(revisions \cup job[u].revs, x, d)
    BY <1>2 DEF RowRevisions
  <2>2. RevisionsOf(revisions \cup job[u].revs, x, d) \in SUBSET Revision
    BY <1>0 DEF RevisionsOf
  <2>3. BarOK(RevisionsOf(revisions \cup job[u].revs, x, d))
    BY <1>0, <1>2 DEF LocksOK
  <2> QED
    BY <2>1, <2>2, <2>3
<1>4. /\ job[u].checks[i] = "PENDING" /\ job[u].rows[i].include
  BY <1>0, <1>1 DEF CurrentRow, RowsChecked, RowsOK
\* The new locals.
<1>5. /\ job'[u].rows = job[u].rows /\ job'[u].symbol = job[u].symbol
      /\ job'[u].revs = job[u].revs \cup new
      /\ job'[u].checks = [job[u].checks EXCEPT ![i] = "ACCEPTED"]
      /\ \A w \in Workers : w # u => job'[w] = job[w]
  <2> DEFINE checks == [job[u].checks EXCEPT ![i] = "ACCEPTED"]
             revs == job[u].revs \cup new
             j == [job[u] EXCEPT !.revs = revs, !.checks = checks, !.accepted = @ + 1]
  <2>1. job' = [job EXCEPT ![u] = j]
    <3>1. job' = [job EXCEPT ![u].revs = @ \cup new, ![u].checks[i] = "ACCEPTED",
                             ![u].accepted = @ + 1]
      BY <1>1
    <3>2. job \in [Workers -> Job]
      BY <1>0 DEF TypeInv, TypeOK
    <3> QED
      BY <3>1, <3>2
  <2>2. j.rows = job[u].rows /\ j.symbol = job[u].symbol /\ j.revs = revs /\ j.checks = checks
    BY <1>0 DEF Job
  <2> HIDE DEF j
  <2>3. job'[u] = j /\ \A w \in Workers : w # u => job'[w] = job[w]
    BY <1>0, <2>1 DEF TypeInv, TypeOK
  <2> QED
    BY <2>2, <2>3
<1>6. /\ pc'[u] \in {"finish", "stamp"} /\ \A w \in Workers : w # u => pc'[w] = pc[w]
  BY <1>0, <1>1 DEF TypeInv, TypeOK, PlaceAfterRow
<1>7. /\ held[u] \subseteq held'[u] /\ \A w \in Workers : w # u => held'[w] = held[w]
      /\ \A y \in Instruments, e \in Dates : BarLock(y, e) \in held'[u] => BarLock(y, e) \in held[u]
  BY <1>0, BarLocksDiffer DEF AppendRevision, Acquire, TypeInv, TypeOK
\* What is added belongs to the bar, comes from the row, and is its newest revision.
<1>8. \A v \in new : /\ v.instrument = x /\ v.date = d /\ v.value = Stored[value]
  BY <1>1, <1>2 DEF NewRevision
<1>9. PICK seen \in SUBSET Revision :
         /\ seen = visible \cup new /\ BarOK(seen)
         /\ \E v \in seen : IsLatest(v, seen) /\ v.value = Stored[value]
  <2>1. CASE visible = {} /\ new = {NewRevision(u, i, 1)}
    <3>1. PICK v \in Revision : v = NewRevision(u, i, 1) /\ new = {v}
      BY <2>1
    <3>2. v.revision_no = 1 /\ v.value = Stored[value]
      BY <1>2, <3>1 DEF NewRevision
    <3>3. Stored[v.value] = v.value
      BY <1>2, <3>2, StoredIsStable
    <3>4. BarOK({v}) /\ IsLatest(v, {v})
      BY <3>2, <3>3, FirstRevisionOK
    <3>5. visible \cup new = {v}
      BY <2>1, <3>1
    <3> QED
      BY <3>2, <3>4, <3>5
  <2>2. ASSUME NEW latest \in visible, IsLatest(latest, visible), latest.value = value, new = {}
        PROVE  /\ BarOK(visible \cup new)
               /\ \E v \in visible \cup new :
                     IsLatest(v, visible \cup new) /\ v.value = Stored[value]
    <3>1. visible \cup new = visible /\ Stored[latest.value] = latest.value
      BY <1>3, <2>2 DEF BarOK
    <3> QED
      BY <1>3, <2>2, <3>1
  <2>3. ASSUME NEW latest \in visible, IsLatest(latest, visible), latest.value # value,
               new = {NewRevision(u, i, latest.revision_no + 1)}
        PROVE  /\ BarOK(visible \cup new)
               /\ \E v \in visible \cup new :
                     IsLatest(v, visible \cup new) /\ v.value = Stored[value]
    <3>1. PICK v \in Revision : v = NewRevision(u, i, latest.revision_no + 1) /\ new = {v}
      BY <2>3
    <3>2. v.revision_no = latest.revision_no + 1 /\ v.value = Stored[value]
      BY <1>2, <3>1 DEF NewRevision
    <3>3. Stored[v.value] = v.value
      BY <1>2, <3>2, StoredIsStable
    <3>4. Representable => latest.value # v.value
      BY <1>2, <2>3, <3>2 DEF Representable
    <3>5. BarOK(visible \cup {v}) /\ IsLatest(v, visible \cup {v})
      BY <1>3, <2>3, <3>2, <3>3, <3>4, NextRevisionOK
    <3> QED
      BY <3>1, <3>2, <3>5
  <2>4. visible \cup new \in SUBSET Revision
    OBVIOUS
  <2> QED
    BY <1>1, <1>2, <1>3, <2>1, <2>2, <2>3, <2>4
\* Nothing else changes: no other usable row has this row's date.
<1>10. \A k \in DOMAIN job[u].checks : k # i =>
          /\ job'[u].checks[k] = job[u].checks[k]
          /\ job[u].rows[k].include => job[u].rows[k].date # d
  BY <1>0, <1>2, <1>4, <1>5 DEF RowsOK, RowsDistinct
<1>11. /\ DOMAIN job'[u].checks = DOMAIN job[u].checks /\ job'[u].checks[i] = "ACCEPTED"
       /\ \A k \in DOMAIN job[u].checks : InstrumentOf(job'[u], k) = InstrumentOf(job[u], k)
  BY <1>5 DEF InstrumentOf
<1>12. \A v \in job[u].revs : \E k \in DOMAIN job[u].checks : k # i /\ MadeFrom(v, job[u], k)
  BY <1>0, <1>4 DEF RowsOK, MadeFrom
<1>13. RowsOK(pc'[u], job'[u])
  <2>1. RowsDistinct(job'[u].rows)
    BY <1>0, <1>5 DEF RowsOK
  <2>2. \A k \in DOMAIN job'[u].checks : job'[u].checks[k] = "PENDING" => job'[u].rows[k].include
    BY <1>0, <1>5, <1>10, <1>11 DEF RowsOK
  <2>3. ASSUME NEW v \in job'[u].revs
        PROVE  \E k \in DOMAIN job'[u].checks : MadeFrom(v, job'[u], k)
    <3>1. CASE v \in job[u].revs
      BY <1>5, <1>10, <1>11, <1>12, <3>1 DEF MadeFrom
    <3>2. CASE v \in new
      <4>1. MadeFrom(v, job'[u], i)
        BY <1>2, <1>4, <1>5, <1>8, <1>11, <3>2 DEF MadeFrom
      <4> QED
        BY <1>11, <4>1
    <3> QED
      BY <1>5, <3>1, <3>2
  <2>4. \A v, z \in job'[u].revs : v.date = z.date => v = z
    <3>1. \A v \in job[u].revs : v.date # d
      BY <1>10, <1>12 DEF MadeFrom
    <3>2. \A v, z \in new : v = z
      BY <1>1
    <3> QED
      BY <1>0, <1>5, <1>8, <3>1, <3>2 DEF RowsOK
  <2> QED
    BY <2>1, <2>2, <2>3, <2>4 DEF RowsOK
<1>14. /\ RevisionsOf(revisions' \cup job'[u].revs, x, d) = seen
       /\ \A y, e : ~(y = x /\ e = d) => RevisionsOf(revisions' \cup job'[u].revs, y, e)
                                            = RevisionsOf(revisions \cup job[u].revs, y, e)
  BY <1>0, <1>3, <1>5, <1>8, <1>9 DEF RevisionsOf
<1>15. LocksOK(u)'
  <2>1. \A v \in job'[u].revs : BarLock(v.instrument, v.date) \in held'[u]
    BY <1>0, <1>2, <1>5, <1>7, <1>8 DEF LocksOK
  <2>2. \A y \in Instruments, e \in Dates : BarLock(y, e) \in held'[u] =>
           BarOK(RevisionsOf(revisions' \cup job'[u].revs, y, e))
    BY <1>0, <1>7, <1>9, <1>14 DEF LocksOK
  <2>3. ASSUME NEW k \in DOMAIN job'[u].checks,
               job'[u].checks[k] = "ACCEPTED", job'[u].rows[k].include
        PROVE  RowLock(u, k)' \in held'[u] /\ RowIsNewest(u, k)'
    <3>1. CASE k = i
      <4>1. RowLock(u, k)' = BarLock(x, d) /\ RowRevisions(u, k)' = seen
        BY <1>2, <1>5, <1>11, <1>14, <3>1 DEF RowLock, RowRevisions
      <4>2. job'[u].rows[k].value = value
        BY <1>2, <1>5, <3>1
      <4> QED
        BY <1>2, <1>7, <1>9, <4>1, <4>2 DEF RowIsNewest
    <3>2. CASE k # i
      <4>1. RowLock(u, k) \in held[u] /\ RowIsNewest(u, k) /\ job[u].rows[k].date # d
        BY <1>0, <1>5, <1>10, <1>11, <2>3, <3>2 DEF LocksOK
      <4>2. RowLock(u, k)' = RowLock(u, k) /\ RowRevisions(u, k)' = RowRevisions(u, k)
        BY <1>5, <1>11, <1>14, <4>1 DEF RowLock, RowRevisions
      <4> QED
        BY <1>5, <1>7, <4>1, <4>2 DEF RowIsNewest
    <3> QED
      BY <3>1, <3>2
  <2>4. pc'[u] # "append"
    BY <1>6
  <2> QED
    BY <2>1, <2>2, <2>3, <2>4 DEF LocksOK
<1>16. Still(u) /\ NewLocksFree(u)
  BY <1>5, <1>6, <1>7 DEF Still, NewLocksFree
<1> QED
  BY <1>13, <1>15, <1>16

-----------------------------------------------------------------------------
(* Every step preserves the invariant *)

\* A step of the service that worker u takes.
StepOf(u) == Request(u) \/ Proceed(u) \/ UnexpectedError(u) \/ Crash(u)

\* The one who steps: the others stay where they are, no bar lock is taken from
\* them, and the worker's own writes stay under its own locks.
LEMMA StepOK ==
    ASSUME RevisionInv, NEW u \in Workers, StepOf(u)
    PROVE  /\ Still(u) /\ NewLocksFree(u)
           /\ \/ Outside(u)
              \/ RowsOK(pc'[u], job'[u]) /\ LocksOK(u)'
<1>1. TypeInv /\ RowsDistinct(job[u].rows)
  BY DEF RevisionInv, SafetyInv, RowsOK
<1>2. Outside(u) => NewLocksFree(u)
  BY DEF Outside, NewLocksFree
<1>3. CASE \/ Request(u) \/ UnexpectedError(u) \/ Crash(u)
           \/ FetchAndParse(u) \/ PersistAcquisition(u) \/ PersistEmptyAcquisition(u)
           \/ FinalizeNoData(u) \/ FinalizeExpectedFailure(u) \/ FinishBatch(u)
           \/ MarkCanonicalizationFailure(u) \/ MarkStartedFailure(u)
           \/ FinalizeRejected(u) \/ DeadlockVictim(u)
  <2>1. Still(u) /\ Outside(u)
    BY <1>1, <1>3, StepsOutside
  <2> QED
    BY <1>2, <2>1
<1>4. CASE ValidateRows(u)
  BY <1>4, ValidateOK
<1>5. CASE LockMonth(u) \/ CreatePartition(u) \/ EnsureSeries(u)
  BY <1>5, LockersOK
<1>6. CASE StampRow(u) \/ LockBar(u) \/ AppendRevision(u)
  BY <1>6, StampOK, LockBarOK, AppendOK
<1> QED
  BY <1>3, <1>4, <1>5, <1>6 DEF StepOf, Proceed, Canonicalize

\* Only the commit of transaction C adds revisions, those of its worker.
LEMMA RevisionsAdded ==
    ASSUME NEW u \in Workers, StepOf(u)
    PROVE  \/ revisions' = revisions
           \/ FinishBatch(u) /\ revisions' = revisions \cup job[u].revs
<1>1. ASSUME Proceed(u), ~FinishBatch(u)
      PROVE  revisions' = revisions
  BY <1>1 DEF Proceed, Canonicalize, tables, FetchAndParse, PersistAcquisition,
     PersistEmptyAcquisition, FinalizeNoData, FinalizeExpectedFailure, ValidateRows,
     LockMonth, CreatePartition, StampRow, EnsureSeries, LockBar, AppendRevision,
     MarkCanonicalizationFailure, MarkStartedFailure, FinalizeRejected, DeadlockVictim
<1>2. ASSUME Request(u) \/ UnexpectedError(u) \/ Crash(u)
      PROVE  revisions' = revisions
  BY <1>2 DEF Request, CreateBatch, RejectRequest, ReplayResult, UnexpectedError, Crash,
     tables
<1> QED
  BY <1>1, <1>2 DEF StepOf, FinishBatch

\* A commit leaves every bar well numbered: the bars it adds to are those whose
\* lock the worker held when it read them.
LEMMA CommittedOK ==
    ASSUME RevisionInv, NEW u \in Workers, StepOf(u), NEW i \in Instruments, NEW d \in Dates
    PROVE  BarOK(RevisionsOf(revisions', i, d))
<1>0. BarOK(RevisionsOf(revisions, i, d)) /\ LocksOK(u)
  BY DEF RevisionInv
<1>1. CASE revisions' = revisions
  BY <1>0, <1>1
<1>2. CASE revisions' = revisions \cup job[u].revs
  <2>1. CASE BarLock(i, d) \in held[u]
    BY <1>0, <1>2, <2>1 DEF LocksOK
  <2>2. CASE BarLock(i, d) \notin held[u]
    <3>1. \A v \in job[u].revs : ~(v.instrument = i /\ v.date = d)
      BY <1>0, <2>2 DEF LocksOK
    <3>2. RevisionsOf(revisions', i, d) = RevisionsOf(revisions, i, d)
      BY <1>2, <3>1 DEF RevisionsOf
    <3> QED
      BY <1>0, <3>2
  <2> QED
    BY <2>1, <2>2
<1> QED
  BY <1>1, <1>2, RevisionsAdded

\* What a worker reads of a bar it has locked is not changed by anybody else.
LEMMA LockedBarFixed ==
    ASSUME RevisionInv, NEW u \in Workers, StepOf(u), NEW w \in Workers, w # u,
           NEW i, NEW d, BarLock(i, d) \in held[w]
    PROVE  RevisionsOf(revisions' \cup job[w].revs, i, d)
              = RevisionsOf(revisions \cup job[w].revs, i, d)
<1>1. ASSUME NEW v \in job[u].revs, v.instrument = i, v.date = d
      PROVE  FALSE
  <2>1. v \in Revision
    BY DEF RevisionInv, SafetyInv, TypeInv, TypeOK, Job
  <2>2. i \in Instruments /\ d \in Dates
    BY <1>1, <2>1 DEF Revision
  <2>3. BarLock(i, d) \in held[u]
    BY <1>1 DEF RevisionInv, LocksOK
  <2> QED
    BY <2>2, <2>3 DEF RevisionInv, BarLocksExclusive
<1>2. CASE revisions' = revisions
  BY <1>2
<1>3. CASE revisions' = revisions \cup job[u].revs
  BY <1>1, <1>3 DEF RevisionsOf
<1> QED
  BY <1>2, <1>3, RevisionsAdded

\* The workers that did not step.
LEMMA OthersOK ==
    ASSUME RevisionInv, NEW u \in Workers, StepOf(u), NEW w \in Workers, w # u
    PROVE  RowsOK(pc'[w], job'[w]) /\ LocksOK(w)'
<1>1. pc'[w] = pc[w] /\ job'[w] = job[w] /\ held'[w] = held[w]
  BY StepOK DEF Still
<1>2. RowsOK(pc[w], job[w]) /\ LocksOK(w)
  BY DEF RevisionInv
<1>3. \A i : (CurrentRow(w, i)' <=> CurrentRow(w, i)) /\ RowLock(w, i)' = RowLock(w, i)
  BY <1>1 DEF CurrentRow, RowLock
<1>4. \A i \in Instruments, d \in Dates : BarLock(i, d) \in held'[w] =>
         BarOK(RevisionsOf(revisions' \cup job'[w].revs, i, d))
  <2> TAKE i \in Instruments, d \in Dates
  <2>1. HAVE BarLock(i, d) \in held'[w]
  <2>2. RevisionsOf(revisions' \cup job[w].revs, i, d)
           = RevisionsOf(revisions \cup job[w].revs, i, d)
    BY <1>1, <2>1, LockedBarFixed
  <2> QED
    BY <1>1, <1>2, <2>1, <2>2 DEF LocksOK
<1>5. ASSUME NEW i \in DOMAIN job[w].checks, RowLock(w, i) \in held[w], RowIsNewest(w, i)
      PROVE  RowIsNewest(w, i)'
  <2>1. RevisionsOf(revisions' \cup job[w].revs, InstrumentOf(job[w], i), job[w].rows[i].date)
           = RowRevisions(w, i)
    BY <1>5, LockedBarFixed DEF RowLock, RowRevisions
  <2>2. RowRevisions(w, i)' = RowRevisions(w, i)
    BY <1>1, <2>1 DEF RowRevisions
  <2> QED
    BY <1>1, <1>5, <2>2 DEF RowIsNewest
<1>6. pc[w] \in Canonicalizing => \A i \in DOMAIN job'[w].checks :
          job'[w].checks[i] = "ACCEPTED" /\ job'[w].rows[i].include =>
              RowLock(w, i)' \in held'[w] /\ RowIsNewest(w, i)'
  BY <1>1, <1>2, <1>3, <1>5 DEF LocksOK
<1>7. /\ \A v \in job'[w].revs : BarLock(v.instrument, v.date) \in held'[w]
      /\ pc'[w] = "append" => \A i \in DOMAIN job'[w].checks :
            CurrentRow(w, i)' => RowLock(w, i)' \in held'[w]
  BY <1>1, <1>2, <1>3 DEF LocksOK
<1> QED
  BY <1>1, <1>2, <1>4, <1>6, <1>7 DEF LocksOK

\* The worker that stepped, inside transaction C or outside of it.
LEMMA SelfOK ==
    ASSUME RevisionInv, NEW u \in Workers, StepOf(u)
    PROVE  RowsOK(pc'[u], job'[u]) /\ LocksOK(u)'
<1>1. CASE Outside(u)
  <2>1. RowsOK(pc'[u], job'[u])
    BY <1>1 DEF Outside, RowsOK
  <2>2. \A i \in Instruments, d \in Dates : BarOK(RevisionsOf(revisions' \cup job'[u].revs, i, d))
    BY <1>1, CommittedOK DEF Outside
  <2>3. pc'[u] # "append"
    BY <1>1 DEF Outside, Canonicalizing
  <2> QED
    BY <1>1, <2>1, <2>2, <2>3 DEF Outside, LocksOK
<1> QED
  BY <1>1, StepOK

\* A bar lock has one holder.
LEMMA BarLocksStayExclusive ==
    ASSUME RevisionInv, NEW u \in Workers, StepOf(u)
    PROVE  BarLocksExclusive'
<1>1. Still(u) /\ NewLocksFree(u)
  BY StepOK
<1> QED
  BY <1>1 DEF Still, NewLocksFree, RevisionInv, BarLocksExclusive

\* A step changes the raw events of a batch in transaction B, which gives no
\* verdict, and in the commit of transaction C.
LEMMA RawWriters ==
    ASSUME TypeInv, Next, NEW r \in RequestIds
    PROVE  \/ raw'[r] = raw[r] /\ batch'[r].status = batch[r].status
           \/ raw'[r] = raw[r] /\ batch[r].status \in {"ABSENT", "RUNNING"}
           \/ /\ \A i \in DOMAIN raw'[r] : raw'[r][i].status = "PENDING"
              /\ batch'[r].status = batch[r].status
           \/ \E w \in Workers : FinishBatch(w) /\ job[w].request = r
<1> DEFINE Goal == \/ raw'[r] = raw[r] /\ batch'[r].status = batch[r].status
                   \/ raw'[r] = raw[r] /\ batch[r].status \in {"ABSENT", "RUNNING"}
                   \/ /\ \A i \in DOMAIN raw'[r] : raw'[r][i].status = "PENDING"
                      /\ batch'[r].status = batch[r].status
                   \/ \E w \in Workers : FinishBatch(w) /\ job[w].request = r
<1>0. batch \in [RequestIds -> Batch] /\ raw \in [RequestIds -> Seq(RawEvent)]
  BY DEF TypeInv, TypeOK
<1>1. CASE UNCHANGED tables
  BY <1>1 DEF tables
<1>2. ASSUME NEW w \in Workers, NEW q \in RequestIds, NEW s \in Symbols, CreateBatch(w, q, s)
      PROVE  Goal
  <2>1. raw' = raw /\ batch[q].status = "ABSENT" /\ (r # q => batch'[r] = batch[r])
    BY <1>0, <1>2 DEF CreateBatch, StartBatch
  <2> QED
    BY <2>1
<1>3. ASSUME NEW w \in Workers, PersistAcquisition(w)
      PROVE  Goal
  <2> DEFINE q == job[w].request
             rows == job[w].rows
             events == [i \in DOMAIN rows |-> [row |-> rows[i], status |-> "PENDING"]]
  <2>1. /\ q \in RequestIds /\ raw' = [raw EXCEPT ![q] = events]
        /\ batch' = [batch EXCEPT ![q].received = Len(rows)]
    BY <1>3 DEF PersistAcquisition, TypeInv, JobsOK, JobOK
  <2>2. \A i \in DOMAIN events : events[i].status = "PENDING"
    OBVIOUS
  <2> HIDE DEF events
  <2>3. CASE r = q
    <3>1. raw'[r] = events
      BY <1>0, <2>1, <2>3
    <3>2. batch'[r].status = batch[r].status
      BY <1>0, <2>1, <2>3 DEF Batch
    <3> QED
      BY <2>2, <3>1, <3>2
  <2>4. CASE r # q
    BY <1>0, <2>1, <2>4
  <2> QED
    BY <2>3, <2>4
<1>4. ASSUME NEW w \in Workers, PersistEmptyAcquisition(w)
      PROVE  Goal
  <2>1. raw' = raw /\ batch' = [batch EXCEPT ![job[w].request].received = 0]
    BY <1>4 DEF PersistEmptyAcquisition
  <2>2. batch'[r].status = batch[r].status
    BY <1>0, <2>1 DEF Batch
  <2> QED
    BY <2>1, <2>2
<1>5. ASSUME NEW w \in Workers, NEW status, NEW received, NEW accepted, NEW rejected,
             FinalizeBatch(job[w].request, status, received, accepted, rejected), raw' = raw
      PROVE  Goal
  <2>1. batch[job[w].request].status = "RUNNING"
        /\ (r # job[w].request => batch'[r] = batch[r])
    BY <1>0, <1>5 DEF FinalizeBatch, CanFinalize
  <2> QED
    BY <1>5, <2>1
<1>6. ASSUME NEW w \in Workers, FinishBatch(w)
      PROVE  Goal
  <2>1. CASE job[w].request = r
    BY <1>6, <2>1
  <2>2. CASE job[w].request # r
    BY <1>0, <1>6, <2>2 DEF FinishBatch, FinalizeBatch
  <2> QED
    BY <2>1, <2>2
<1>7. ASSUME NEW w \in Workers, Proceed(w)
      PROVE  Goal
  <2>1. CASE \/ FetchAndParse(w) \/ ValidateRows(w) \/ LockMonth(w) \/ CreatePartition(w)
             \/ StampRow(w) \/ EnsureSeries(w) \/ LockBar(w) \/ AppendRevision(w)
             \/ FinalizeRejected(w) \/ DeadlockVictim(w)
    <3>1. UNCHANGED tables
      BY <2>1 DEF FetchAndParse, ValidateRows, LockMonth, CreatePartition, StampRow,
         EnsureSeries, LockBar, AppendRevision, FinalizeRejected, DeadlockVictim
    <3> QED
      BY <1>1, <3>1
  <2>2. CASE \/ FinalizeNoData(w) \/ FinalizeExpectedFailure(w)
             \/ MarkCanonicalizationFailure(w) \/ MarkStartedFailure(w)
    <3>1. raw' = raw /\ \E status, received, accepted, rejected :
             FinalizeBatch(job[w].request, status, received, accepted, rejected)
      BY <2>2 DEF FinalizeNoData, FinalizeExpectedFailure, MarkCanonicalizationFailure,
         MarkStartedFailure
    <3> QED
      BY <1>5, <3>1
  <2> QED
    BY <1>3, <1>4, <1>6, <1>7, <2>1, <2>2 DEF Proceed, Canonicalize
<1>8. ASSUME NEW w \in Workers, UnexpectedError(w) \/ Crash(w)
      PROVE  Goal
  BY <1>1, <1>8 DEF UnexpectedError, Crash
<1>9. ASSUME NEW w \in Workers, Request(w)
      PROVE  Goal
  BY <1>1, <1>2, <1>9 DEF Request, RejectRequest, ReplayResult
<1>10. ASSUME Tick \/ StepClockBack
       PROVE  Goal
  BY <1>1, <1>10 DEF Tick, StepClockBack
<1> QED
  BY <1>7, <1>8, <1>9, <1>10 DEF Next

\* The commit of transaction C: what the batch and its raw events become.
LEMMA FinishWrites ==
    ASSUME SafetyInv, NEW w \in Workers, FinishBatch(w), NEW r \in RequestIds,
           job[w].request = r
    PROVE  /\ batch[r].symbol = job[w].symbol /\ batch'[r].symbol = job[w].symbol
           /\ batch'[r].status \in {"SUCCEEDED", "PARTIAL", "QUARANTINED"}
           /\ DOMAIN raw'[r] = DOMAIN job[w].checks
           /\ \A i \in DOMAIN job[w].checks :
                 raw'[r][i].row = job[w].rows[i] /\ raw'[r][i].status = job[w].checks[i]
<1> DEFINE events == [i \in DOMAIN job[w].checks |->
                        [row |-> job[w].rows[i], status |-> job[w].checks[i]]]
<1>1. TypeInv /\ Owned(job[w]) /\ r # None
  BY ConstantTypes DEF SafetyInv
<1>2. /\ batch[r].symbol = job[w].symbol
  BY <1>1 DEF Owned
<1>3. /\ batch'[r].symbol = batch[r].symbol
      /\ batch'[r].status = TerminalStatus(job[w].accepted, job[w].rejected)
  BY <1>1, FinalizeChanges DEF FinishBatch
<1>4. raw' = [raw EXCEPT ![r] = events]
  BY DEF FinishBatch
<1>5. DOMAIN events = DOMAIN job[w].checks /\ \A i \in DOMAIN job[w].checks :
         events[i].row = job[w].rows[i] /\ events[i].status = job[w].checks[i]
  OBVIOUS
<1> HIDE DEF events
<1>6. raw'[r] = events
  BY <1>1, <1>4 DEF TypeInv, TypeOK
<1> QED
  BY <1>2, <1>3, <1>5, <1>6 DEF TerminalStatus

\* A rolled-back transaction C leaves no verdict behind.
LEMMA NoVerdictsKept ==
    ASSUME RevisionInv, Next, NEW r \in RequestIds
    PROVE  NoVerdicts(r)'
<1>1. SafetyInv /\ TypeInv /\ NoVerdicts(r)
  BY DEF RevisionInv, SafetyInv
<1>2. CASE \E w \in Workers : FinishBatch(w) /\ job[w].request = r
  <2>1. batch'[r].status \in {"SUCCEEDED", "PARTIAL", "QUARANTINED"}
    BY <1>1, <1>2, FinishWrites
  <2> QED
    BY <2>1 DEF NoVerdicts
<1>3. CASE ~\E w \in Workers : FinishBatch(w) /\ job[w].request = r
  BY <1>1, <1>3, RawWriters DEF NoVerdicts
<1> QED
  BY <1>2, <1>3

\* Old revisions keep their raw event, new ones have theirs.
LEMMA TraceableKept ==
    ASSUME RevisionInv, Next
    PROVE  RevisionsTraceable'
<1> SUFFICES ASSUME NEW v \in revisions'
             PROVE  \E i \in DOMAIN raw'[v.request] :
                       /\ raw'[v.request][i].status = "ACCEPTED"
                       /\ raw'[v.request][i].row.date = v.date
                       /\ Stored[raw'[v.request][i].row.value] = v.value
                       /\ Resolution[batch'[v.request].symbol][v.date].instrument = v.instrument
  BY DEF RevisionsTraceable, RawWith
<1>0. SafetyInv /\ TypeInv
  BY DEF RevisionInv, SafetyInv
<1>1. CASE v \in revisions
  <2>1. v.request \in RequestIds /\ batch[v.request].status \in {"SUCCEEDED", "PARTIAL"}
    BY <1>0, <1>1 DEF SafetyInv, TypeInv, TypeOK, Revision, RevisionsPublished
  <2>2. batch'[v.request] = batch[v.request] /\ raw'[v.request] = raw[v.request]
    BY <1>0, <2>1, BatchesKept DEF BatchKept
  <2>3. \E i \in DOMAIN raw[v.request] :
           /\ raw[v.request][i].status = "ACCEPTED"
           /\ raw[v.request][i].row.date = v.date
           /\ Stored[raw[v.request][i].row.value] = v.value
           /\ Resolution[batch[v.request].symbol][v.date].instrument = v.instrument
    BY <1>1 DEF RevisionInv, RevisionsTraceable, RawWith
  <2> QED
    BY <2>2, <2>3
<1>2. CASE v \notin revisions
  <2>1. PICK w \in Workers : FinishBatch(w) /\ v \in job[w].revs
    BY <1>2, RevisionsOnlyByFinish
  <2>2. v.request = job[w].request /\ job[w].request \in RequestIds
    <3>1. JobOK("finish", job[w])
      BY <1>0, <2>1 DEF FinishBatch, TypeInv, JobsOK
    <3> QED
      BY <2>1, <3>1 DEF JobOK, WriteOK
  <2>3. PICK i \in DOMAIN job[w].checks : MadeFrom(v, job[w], i)
    BY <2>1 DEF RevisionInv, RowsOK
  <2>4. /\ batch'[v.request].symbol = job[w].symbol
        /\ i \in DOMAIN raw'[v.request]
        /\ raw'[v.request][i].row = job[w].rows[i]
        /\ raw'[v.request][i].status = job[w].checks[i]
    BY <1>0, <2>1, <2>2, FinishWrites
  <2> QED
    BY <2>3, <2>4 DEF MadeFrom, InstrumentOf
<1> QED
  BY <1>1, <1>2

\* The invariant holds initially.
LEMMA InitRevisions == Init => RevisionInv
<1> SUFFICES ASSUME Init PROVE RevisionInv
  OBVIOUS
<1>1. SafetyInv
  BY InitSafe
<1>2. \A w \in Workers : /\ pc[w] = "idle" /\ held[w] = {}
                         /\ job[w].rows = <<>> /\ job[w].revs = {}
  BY DEF Init, NoJob
<1>3. \A i \in Instruments, d \in Dates : RevisionsOf(revisions, i, d) = {}
  BY DEF Init, RevisionsOf
<1>4. \A w \in Workers : RowsOK(pc[w], job[w]) /\ LocksOK(w)
  BY <1>2 DEF RowsOK, RowsDistinct, LocksOK, Canonicalizing
<1>5. \A r \in RequestIds : NoVerdicts(r)
  BY DEF Init, NoVerdicts
<1>6. BarLocksExclusive
  BY <1>2 DEF BarLocksExclusive
<1>7. RevisionsTraceable
  BY DEF Init, RevisionsTraceable
<1> QED
  BY <1>1, <1>3, <1>4, <1>5, <1>6, <1>7, EmptyBarOK DEF RevisionInv

\* Every step preserves the invariant.
LEMMA RevisionsInductive == RevisionInv /\ [Next]_vars => RevisionInv'
<1> SUFFICES ASSUME RevisionInv, [Next]_vars PROVE RevisionInv'
  OBVIOUS
<1>1. SafetyInv'
  BY SafetyInductive DEF RevisionInv
<1>2. CASE UNCHANGED <<batch, raw, revisions, held, pc, job>>
  <2>1. \A w \in Workers : RowsOK(pc'[w], job'[w]) /\ LocksOK(w)'
    BY <1>2 DEF RevisionInv, LocksOK, CurrentRow, RowLock, RowIsNewest, RowRevisions
  <2>2. \A r \in RequestIds : NoVerdicts(r)'
    BY <1>2 DEF RevisionInv, NoVerdicts
  <2>3. BarLocksExclusive' /\ RevisionsTraceable'
    BY <1>2 DEF RevisionInv, BarLocksExclusive, RevisionsTraceable, RawWith
  <2> QED
    BY <1>1, <1>2, <2>1, <2>2, <2>3 DEF RevisionInv
<1>3. ASSUME NEW u \in Workers, StepOf(u)
      PROVE  RevisionInv'
  <2>1. Next
    BY <1>3 DEF Next, StepOf
  <2>2. \A i \in Instruments, d \in Dates : BarOK(RevisionsOf(revisions', i, d))
    BY <1>3, CommittedOK
  <2>3. \A w \in Workers : RowsOK(pc'[w], job'[w]) /\ LocksOK(w)'
    BY <1>3, SelfOK, OthersOK
  <2>4. BarLocksExclusive' /\ RevisionsTraceable' /\ \A r \in RequestIds : NoVerdicts(r)'
    BY <1>3, <2>1, BarLocksStayExclusive, TraceableKept, NoVerdictsKept
  <2> QED
    BY <1>1, <2>2, <2>3, <2>4 DEF RevisionInv
<1>4. CASE Tick \/ StepClockBack \/ UNCHANGED vars
  BY <1>2, <1>4 DEF Tick, StepClockBack, vars, tables
<1> QED
  BY <1>3, <1>4 DEF Next, StepOf

\* The invariant holds in every state of the service.
LEMMA AlwaysWellNumbered == Spec => []RevisionInv
BY InitRevisions, RevisionsInductive, PTL DEF Spec

-----------------------------------------------------------------------------
(* Theorems *)

\* Every revision comes from a raw event of its batch that reads ACCEPTED, and
\* belongs to the instrument its batch's symbol named on that date.
THEOREM EveryRevisionTraceable == Spec => []RevisionsTraceable
<1>1. RevisionInv => RevisionsTraceable
  BY DEF RevisionInv
<1> QED
  BY <1>1, AlwaysWellNumbered, PTL

\* At the moment a batch commits, the newest revision of the bar of each row it
\* canonicalized has that row's values: no concurrent batch slipped in between.
THEOREM CommitsAreNewest == Spec => CommittedRowsAreNewest
<1> DEFINE Newest ==
      \A r \in RequestIds :
          batch[r].status = "RUNNING" /\ batch'[r].status \in {"SUCCEEDED", "PARTIAL"} =>
            \A i \in DOMAIN raw'[r] :
               raw'[r][i].status = "ACCEPTED" /\ raw'[r][i].row.include =>
                  LET row == raw'[r][i].row
                      revs == RevisionsOf(revisions',
                                Resolution[batch[r].symbol][row.date].instrument, row.date)
                  IN  \E v \in revs : IsLatest(v, revs) /\ v.value = Stored[row.value]
<1>1. RevisionInv /\ [Next]_vars => [Newest]_vars
  <2> SUFFICES ASSUME RevisionInv, Next, NEW r \in RequestIds, batch[r].status = "RUNNING",
                      batch'[r].status \in {"SUCCEEDED", "PARTIAL"},
                      NEW i \in DOMAIN raw'[r], raw'[r][i].status = "ACCEPTED",
                      raw'[r][i].row.include
               PROVE  LET row == raw'[r][i].row
                          revs == RevisionsOf(revisions',
                                    Resolution[batch[r].symbol][row.date].instrument, row.date)
                      IN  \E v \in revs : IsLatest(v, revs) /\ v.value = Stored[row.value]
    OBVIOUS
  <2>0. SafetyInv /\ TypeInv /\ NoVerdicts(r)
    BY DEF RevisionInv, SafetyInv
  <2>1. \A k \in DOMAIN raw[r] : raw[r][k].status = "PENDING"
    BY <2>0 DEF NoVerdicts
  <2>2. PICK w \in Workers : FinishBatch(w) /\ job[w].request = r
    BY <2>0, <2>1, RawWriters
  <2>3. /\ batch[r].symbol = job[w].symbol /\ i \in DOMAIN job[w].checks
        /\ raw'[r][i].row = job[w].rows[i] /\ job[w].checks[i] = "ACCEPTED"
        /\ job[w].rows[i].include
    BY <2>0, <2>2, FinishWrites
  <2>4. RowIsNewest(w, i)
    BY <2>2, <2>3 DEF RevisionInv, LocksOK, FinishBatch, Canonicalizing
  <2>5. RowRevisions(w, i) = RevisionsOf(revisions',
           Resolution[batch[r].symbol][job[w].rows[i].date].instrument, job[w].rows[i].date)
    BY <2>2, <2>3 DEF RowRevisions, InstrumentOf, FinishBatch
  <2> QED
    BY <2>3, <2>4, <2>5 DEF RowIsNewest
<1> QED
  BY <1>1, AlwaysWellNumbered, PTL DEF Spec, CommittedRowsAreNewest

\* Well-numbered revisions are as many as their numbers say.
LEMMA NumberedCount ==
    ASSUME NEW S, NEW n \in Nat, Numbered(S, n)
    PROVE  Cardinality(S) = n /\ {v.revision_no : v \in S} = 1..n
<1> DEFINE f == [k \in 1..n |-> CHOOSE v \in S : v.revision_no = k]
<1>1. \A k \in 1..n : f[k] \in S /\ f[k].revision_no = k
  BY DEF Numbered
<1>2. \A v \in S : v.revision_no \in 1..n /\ f[v.revision_no] = v
  BY <1>1 DEF Numbered
<1>3. f \in [1..n -> S]
  BY <1>1
<1> HIDE DEF f
<1>4. f \in Bijection(1..n, S)
  BY <1>1, <1>2, <1>3, Fun_IsBij
<1>5. ExistsBijection(1..n, S)
  BY <1>4 DEF ExistsBijection
<1>6. {v.revision_no : v \in S} = 1..n
  BY <1>1, <1>2
<1> QED
  BY <1>5, <1>6, FS_CountingElements

\* Whatever the interleaving, the faults and the rounding of values, the revisions
\* of a bar are numbered 1, 2, ... without a gap and without a number used twice.
THEOREM NumbersAreGapless == Spec => []RevisionNumbersGapless
<1>1. RevisionInv => RevisionNumbersGapless
  BY NumberedCount DEF RevisionInv, BarOK, RevisionNumbersGapless
<1> QED
  BY <1>1, AlwaysWellNumbered, PTL

\* Where no value of a reply is rounded when it is stored, the revisions of a bar are
\* moreover its changes: none repeats its predecessor.
THEOREM RevisionsAreChanges ==
    ASSUME Representable
    PROVE  Spec => []RevisionsWellNumbered
<1>1. RevisionInv => RevisionNumbersGapless
  BY NumberedCount DEF RevisionInv, BarOK, RevisionNumbersGapless
<1>2. RevisionInv => AdjacentRevisionsDiffer
  <2> SUFFICES ASSUME RevisionInv, NEW u \in revisions, NEW v \in revisions,
                      u.instrument = v.instrument, u.date = v.date,
                      v.revision_no = u.revision_no + 1
               PROVE  u.value # v.value
    BY DEF AdjacentRevisionsDiffer
  <2>1. u.instrument \in Instruments /\ u.date \in Dates
    BY DEF RevisionInv, SafetyInv, TypeInv, TypeOK, Revision
  <2>2. Changing(RevisionsOf(revisions, u.instrument, u.date))
    BY <2>1 DEF RevisionInv, BarOK
  <2> QED
    BY <2>2 DEF Changing, RevisionsOf
<1>3. RevisionInv => RevisionsWellNumbered
  BY <1>1, <1>2 DEF RevisionsWellNumbered
<1> QED
  BY <1>3, AlwaysWellNumbered, PTL

-----------------------------------------------------------------------------
(* The abstract bar history *)

\* The status of each request's batch, as BarHistory has it.
StatusOf == [r \in RequestIds |-> batch[r].status]

\* The values of the revisions of a bar, oldest first.
ValuesOf(S) == [k \in 1..Cardinality(S) |-> ValueAt(S, k)]

\* The history of a bar, in a state and in the next one.
LEMMA HistoryShape ==
    ASSUME NEW i \in Instruments, NEW d \in Dates
    PROVE  /\ History[<<i, d>>] = ValuesOf(RevisionsOf(revisions, i, d))
           /\ History'[<<i, d>>] = ValuesOf(RevisionsOf(revisions', i, d))
<1>1. <<i, d>> \in Instruments \X Dates /\ <<i, d>>[1] = i /\ <<i, d>>[2] = d
  OBVIOUS
<1>2. History[<<i, d>>] = ValuesOf(RevisionsOf(revisions, i, d))
  BY <1>1 DEF History, ValuesOf
<1>3. History'[<<i, d>>] = ValuesOf(RevisionsOf(revisions', i, d))
  BY <1>1 DEF History, ValuesOf
<1> QED
  BY <1>2, <1>3

\* The values of n revisions are a sequence of length n.
LEMMA ValuesTyped ==
    ASSUME NEW S \in SUBSET Revision, NEW n \in Nat, Numbered(S, n)
    PROVE  /\ ValuesOf(S) \in Seq(Values) /\ Len(ValuesOf(S)) = n
           /\ \A k \in 1..n : ValuesOf(S)[k] = ValueAt(S, k)
<1>1. Cardinality(S) = n
  BY NumberedCount
<1>2. \A k \in 1..n : ValueAt(S, k) \in Values
  <2> TAKE k \in 1..n
  <2>1. \E v \in S : v.revision_no = k
    BY DEF Numbered
  <2>2. (CHOOSE v \in S : v.revision_no = k) \in Revision
    BY <2>1
  <2> QED
    BY <2>2 DEF ValueAt, Revision
<1> QED
  BY <1>1, <1>2 DEF ValuesOf

\* One more revision of a bar is one more value at the end of its history.
LEMMA HistoryGrows ==
    ASSUME NEW S \in SUBSET Revision, NEW n \in Nat, Numbered(S, n),
           NEW v \in Revision, v \notin S, NEW m \in Nat, Numbered(S \cup {v}, m)
    PROVE  /\ m = n + 1 /\ v.revision_no = m
           /\ ValueAt(S \cup {v}, m) = v.value
           /\ \A k \in 1..n : ValueAt(S \cup {v}, k) = ValueAt(S, k)
<1>1. v.revision_no \in 1..m /\ v.revision_no \notin 1..n
  <2>1. v.revision_no \in 1..m
    BY DEF Numbered
  <2>2. ASSUME v.revision_no \in 1..n PROVE FALSE
    <3>1. PICK z \in S : z.revision_no = v.revision_no
      BY <2>2 DEF Numbered
    <3> QED
      BY <3>1 DEF Numbered
  <2> QED
    BY <2>1, <2>2
<1>2. \A k \in 1..m : k \notin 1..n => k = v.revision_no
  BY DEF Numbered
<1>3. m = n + 1 /\ v.revision_no = m
  BY <1>1, <1>2
<1>4. \A k \in 1..m : \A z \in S \cup {v} :
         z.revision_no = k => z = CHOOSE y \in S \cup {v} : y.revision_no = k
  BY DEF Numbered
<1>5. ValueAt(S \cup {v}, m) = v.value
  BY <1>1, <1>3, <1>4 DEF ValueAt
<1>6. ASSUME NEW k \in 1..n
      PROVE  ValueAt(S \cup {v}, k) = ValueAt(S, k)
  <2>1. PICK z \in S : z = CHOOSE y \in S : y.revision_no = k
    BY <1>6 DEF Numbered
  <2>2. z.revision_no = k
    BY <1>6, <2>1 DEF Numbered
  <2>3. k \in 1..m
    BY <1>3
  <2>4. z = CHOOSE y \in S \cup {v} : y.revision_no = k
    BY <1>4, <2>2, <2>3
  <2> QED
    BY <2>1, <2>4 DEF ValueAt
<1> QED
  BY <1>3, <1>5, <1>6

\* A step that writes to one batch.
LEMMA StatusWritten ==
    ASSUME TypeInv, NEW q \in RequestIds, \A r \in RequestIds \ {q} : batch'[r] = batch[r]
    PROVE  StatusOf' = [StatusOf EXCEPT ![q] = batch'[q].status]
BY DEF StatusOf

\* A step starts one batch, ends one, or keeps every status.
LEMMA StatusSteps ==
    ASSUME TypeInv, Next
    PROVE  \/ StatusOf' = StatusOf
           \/ \E r \in RequestIds : /\ StatusOf[r] = "ABSENT"
                                    /\ StatusOf' = [StatusOf EXCEPT ![r] = "RUNNING"]
           \/ \E r \in RequestIds, outcome \in Terminal :
                 /\ StatusOf[r] = "RUNNING"
                 /\ StatusOf' = [StatusOf EXCEPT ![r] = outcome]
<1> DEFINE Goal == \/ StatusOf' = StatusOf
                   \/ \E r \in RequestIds : /\ StatusOf[r] = "ABSENT"
                                            /\ StatusOf' = [StatusOf EXCEPT ![r] = "RUNNING"]
                   \/ \E r \in RequestIds, outcome \in Terminal :
                         /\ StatusOf[r] = "RUNNING"
                         /\ StatusOf' = [StatusOf EXCEPT ![r] = outcome]
<1>0. batch \in [RequestIds -> Batch]
  BY DEF TypeInv, TypeOK
<1>1. CASE UNCHANGED tables
  BY <1>1 DEF tables, StatusOf
<1>2. ASSUME NEW w \in Workers, NEW q \in RequestIds, NEW s \in Symbols, CreateBatch(w, q, s)
      PROVE  Goal
  <2>1. /\ batch[q].status = "ABSENT"
        /\ batch' = [batch EXCEPT ![q] = [NoBatch EXCEPT !.status = "RUNNING",
                                            !.symbol = s, !.started_at = clock]]
    BY <1>2 DEF CreateBatch, StartBatch
  <2>2. batch'[q].status = "RUNNING" /\ \A r \in RequestIds \ {q} : batch'[r] = batch[r]
    BY <1>0, <2>1 DEF NoBatch
  <2>3. StatusOf' = [StatusOf EXCEPT ![q] = "RUNNING"] /\ StatusOf[q] = "ABSENT"
    BY <2>1, <2>2, StatusWritten DEF StatusOf
  <2> QED
    BY <2>3
<1>3. ASSUME NEW w \in Workers, PersistAcquisition(w) \/ PersistEmptyAcquisition(w)
      PROVE  Goal
  <2>1. PICK n : batch' = [batch EXCEPT ![job[w].request].received = n]
    BY <1>3 DEF PersistAcquisition, PersistEmptyAcquisition
  <2>2. \A r \in RequestIds : batch'[r].status = batch[r].status
    BY <1>0, <2>1 DEF Batch
  <2> QED
    BY <2>2 DEF StatusOf
<1>4. ASSUME NEW w \in Workers,
             \/ FinalizeNoData(w) \/ FinalizeExpectedFailure(w) \/ FinishBatch(w)
             \/ MarkCanonicalizationFailure(w) \/ MarkStartedFailure(w)
      PROVE  Goal
  <2> DEFINE q == job[w].request
  <2>1. /\ q \in RequestIds
        /\ pc[w] = "finalize_failure" => job[w].status \in Terminal
    BY <1>4 DEF FinalizeNoData, FinalizeExpectedFailure, FinishBatch,
       MarkCanonicalizationFailure, MarkStartedFailure, TypeInv, TypeOK, JobsOK, JobOK
  <2>2. \E status \in Terminal : \E received, accepted, rejected :
           FinalizeBatch(q, status, received, accepted, rejected)
    <3>1. TerminalStatus(job[w].accepted, job[w].rejected) \in Terminal
          /\ "FAILED" \in Terminal /\ "SUCCEEDED" \in Terminal
      BY DEF TerminalStatus, Terminal
    <3> QED
      BY <1>4, <2>1, <3>1 DEF FinalizeNoData, FinalizeExpectedFailure, FinishBatch,
         MarkCanonicalizationFailure, MarkStartedFailure
  <2>3. PICK status \in Terminal : \E received, accepted, rejected :
           FinalizeBatch(q, status, received, accepted, rejected)
    BY <2>2
  <2>4. /\ batch[q].status = "RUNNING" /\ batch'[q].status = status
        /\ \A r \in RequestIds \ {q} : batch'[r] = batch[r]
    BY <2>1, <2>3, FinalizeChanges
  <2>5. StatusOf' = [StatusOf EXCEPT ![q] = status] /\ StatusOf[q] = "RUNNING"
    BY <2>1, <2>4, StatusWritten DEF StatusOf
  <2> QED
    BY <2>1, <2>3, <2>5
<1>5. ASSUME NEW w \in Workers, Proceed(w)
      PROVE  Goal
  <2>1. CASE \/ FetchAndParse(w) \/ ValidateRows(w) \/ LockMonth(w) \/ CreatePartition(w)
             \/ StampRow(w) \/ EnsureSeries(w) \/ LockBar(w) \/ AppendRevision(w)
             \/ FinalizeRejected(w) \/ DeadlockVictim(w)
    <3>1. UNCHANGED tables
      BY <2>1 DEF FetchAndParse, ValidateRows, LockMonth, CreatePartition, StampRow,
         EnsureSeries, LockBar, AppendRevision, FinalizeRejected, DeadlockVictim
    <3> QED
      BY <1>1, <3>1
  <2> QED
    BY <1>3, <1>4, <1>5, <2>1 DEF Proceed, Canonicalize
<1>6. ASSUME NEW w \in Workers, UnexpectedError(w) \/ Crash(w)
      PROVE  Goal
  BY <1>1, <1>6 DEF UnexpectedError, Crash
<1>7. ASSUME NEW w \in Workers, Request(w)
      PROVE  Goal
  BY <1>1, <1>2, <1>7 DEF Request, RejectRequest, ReplayResult
<1>8. ASSUME Tick \/ StepClockBack
      PROVE  Goal
  BY <1>1, <1>8 DEF Tick, StepClockBack
<1> QED
  BY <1>5, <1>6, <1>7, <1>8 DEF Next

\* A sequence with one more element.
LEMMA AppendIs ==
    ASSUME NEW V, NEW q \in Seq(V), NEW x \in V, NEW h \in Seq(V), Len(h) = Len(q) + 1,
           h[Len(h)] = x, \A k \in 1..Len(q) : h[k] = q[k]
    PROVE  h = Append(q, x)
<1>1. Append(q, x) \in Seq(V) /\ Len(Append(q, x)) = Len(q) + 1
  OBVIOUS
<1>2. \A k \in 1..Len(h) : h[k] = Append(q, x)[k]
  OBVIOUS
<1> QED
  BY <1>1, <1>2

\* A revision that transaction C commits is appended to its bar's history, and
\* differs from what was the newest value there.
LEMMA BarPublished ==
    ASSUME Representable, RevisionInv, NEW u \in Workers, FinishBatch(u), NEW v \in job[u].revs
    PROVE  LET b == <<v.instrument, v.date>>
           IN  /\ b \in Instruments \X Dates /\ v.value \in Values
               /\ History[b] = <<>> \/ History[b][Len(History[b])] # v.value
               /\ History'[b] = Append(History[b], v.value)
<1>0. /\ SafetyInv /\ TypeInv /\ StepOf(u) /\ v \in Revision /\ revisions \subseteq Revision
      /\ revisions' = revisions \cup job[u].revs
  BY DEF RevisionInv, SafetyInv, TypeInv, TypeOK, Job, StepOf, Proceed, Canonicalize, FinishBatch
<1>1. PICK i \in Instruments, d \in Dates : i = v.instrument /\ d = v.date /\ v.value \in Values
  BY <1>0 DEF Revision
<1>2. v \notin revisions
  <2>1. v.request = job[u].request /\ batch[job[u].request].status = "RUNNING"
    BY <1>0 DEF FinishBatch, FinalizeBatch, CanFinalize, TypeInv, JobsOK, JobOK, WriteOK
  <2> QED
    BY <1>0, <2>1 DEF SafetyInv, RevisionsPublished
<1>3. PICK S \in SUBSET Revision : S = RevisionsOf(revisions, i, d)
  BY <1>0 DEF RevisionsOf
<1>4. RevisionsOf(revisions', i, d) = S \cup {v} /\ v \notin S
  BY <1>0, <1>1, <1>2, <1>3 DEF RevisionsOf, RevisionInv, RowsOK
<1>5. BarOK(S) /\ BarOK(S \cup {v})
  BY <1>0, <1>3, <1>4, CommittedOK DEF RevisionInv
<1>6. PICK n \in Nat, m \in Nat : Numbered(S, n) /\ Numbered(S \cup {v}, m)
  BY <1>5 DEF BarOK
<1>7. /\ m = n + 1 /\ v.revision_no = m /\ ValueAt(S \cup {v}, m) = v.value
      /\ \A k \in 1..n : ValueAt(S \cup {v}, k) = ValueAt(S, k)
  BY <1>0, <1>3, <1>4, <1>6, HistoryGrows
<1>8. PICK before \in Seq(Values) :
         /\ before = History[<<i, d>>] /\ Len(before) = n
         /\ \A k \in 1..n : before[k] = ValueAt(S, k)
  <2>1. History[<<i, d>>] = ValuesOf(S)
    BY <1>3, HistoryShape
  <2> QED
    BY <1>6, <2>1, ValuesTyped
<1>9. PICK after \in Seq(Values) :
         /\ after = History'[<<i, d>>] /\ Len(after) = m
         /\ \A k \in 1..m : after[k] = ValueAt(S \cup {v}, k)
  <2>1. History'[<<i, d>>] = ValuesOf(S \cup {v})
    BY <1>4, HistoryShape
  <2>2. S \cup {v} \in SUBSET Revision
    BY <1>0
  <2>3. /\ ValuesOf(S \cup {v}) \in Seq(Values) /\ Len(ValuesOf(S \cup {v})) = m
        /\ \A k \in 1..m : ValuesOf(S \cup {v})[k] = ValueAt(S \cup {v}, k)
    BY <1>6, <2>2, ValuesTyped
  <2> QED
    BY <2>1, <2>3
<1>10. after = Append(before, v.value)
  <2>1. Len(after) = Len(before) + 1 /\ after[Len(after)] = v.value
    <3>1. m \in 1..m
      BY <1>7
    <3> QED
      BY <1>7, <1>8, <1>9, <3>1
  <2>2. ASSUME NEW k \in 1..Len(before) PROVE after[k] = before[k]
    <3>1. k \in 1..n /\ k \in 1..m
      BY <1>7, <1>8
    <3>2. before[k] = ValueAt(S, k) /\ after[k] = ValueAt(S \cup {v}, k)
      BY <1>8, <1>9, <3>1
    <3> QED
      BY <1>7, <3>1, <3>2
  <2> QED
    BY <1>1, <2>1, <2>2, AppendIs
<1>11. before = <<>> \/ before[Len(before)] # v.value
  <2>1. CASE n = 0
    BY <1>8, <2>1
  <2>2. CASE n # 0
    <3>1. PICK z \in S : z.revision_no = n /\ z = CHOOSE y \in S : y.revision_no = n
      BY <1>6, <2>2 DEF Numbered
    <3>2. ValueAt(S, n) = z.value
      BY <3>1 DEF ValueAt
    <3>3. z.value # v.value
      BY <1>5, <1>7, <3>1 DEF BarOK, Changing
    <3>4. before[Len(before)] = ValueAt(S, n)
      BY <1>8, <2>2
    <3> QED
      BY <3>2, <3>3, <3>4
  <2> QED
    BY <2>1, <2>2
<1> QED
  BY <1>1, <1>8, <1>9, <1>10, <1>11

\* A bar that a commit does not add to keeps its history.
LEMMA BarUnpublished ==
    ASSUME NEW u \in Workers, revisions' = revisions \cup job[u].revs,
           NEW i \in Instruments, NEW d \in Dates,
           \A v \in job[u].revs : ~(v.instrument = i /\ v.date = d)
    PROVE  History'[<<i, d>>] = History[<<i, d>>]
<1>1. RevisionsOf(revisions', i, d) = RevisionsOf(revisions, i, d)
  BY DEF RevisionsOf
<1> QED
  BY <1>1, HistoryShape

\* The commit of transaction C is a step of the bar history.
LEMMA CommitRefines ==
    ASSUME Representable, RevisionInv, NEW u \in Workers, FinishBatch(u)
    PROVE  Abstract!Next
<1> DEFINE Bars == Instruments \X Dates
           status == TerminalStatus(job[u].accepted, job[u].rejected)
<1>0. PICK r \in RequestIds, revs \in SUBSET Revision :
         /\ r = job[u].request /\ revs = job[u].revs
         /\ SafetyInv /\ TypeInv /\ revisions' = revisions \cup job[u].revs
  BY DEF RevisionInv, SafetyInv, TypeInv, TypeOK, Job, JobsOK, JobOK, FinishBatch
<1>1. StatusOf[r] = "RUNNING" /\ StatusOf' = [StatusOf EXCEPT ![r] = status]
  <2>1. /\ batch[r].status = "RUNNING" /\ batch'[r].status = status
        /\ \A q \in RequestIds \ {r} : batch'[q] = batch[q]
    BY <1>0, FinalizeChanges DEF FinishBatch
  <2> QED
    BY <1>0, <2>1, StatusWritten DEF StatusOf
<1> DEFINE changed == {<<v.instrument, v.date>> : v \in revs}
           Change(b) == CHOOSE v \in revs : <<v.instrument, v.date>> = b
           new == [b \in changed |-> Change(b).value]
<1>2. \A v \in revs : Change(<<v.instrument, v.date>>) = v
  <2> TAKE v \in revs
  <2>1. \A z \in revs : <<z.instrument, z.date>> = <<v.instrument, v.date>> => z = v
    BY <1>0 DEF RevisionInv, RowsOK
  <2> QED
    BY <2>1
<1>3. \A b \in changed : \E v \in revs : b = <<v.instrument, v.date>> /\ new[b] = v.value
  BY <1>2
<1>4. \A b \in changed : /\ b \in Bars /\ new[b] \in Values
                         /\ History[b] = <<>> \/ History[b][Len(History[b])] # new[b]
                         /\ History'[b] = Append(History[b], new[b])
  BY <1>0, <1>3, BarPublished
<1>5. \A b \in Bars : b \notin changed => History'[b] = History[b]
  <2> SUFFICES ASSUME NEW i \in Instruments, NEW d \in Dates, <<i, d>> \notin changed
               PROVE  History'[<<i, d>>] = History[<<i, d>>]
    OBVIOUS
  <2>1. \A v \in job[u].revs : ~(v.instrument = i /\ v.date = d)
    BY <1>0
  <2> QED
    BY <1>0, <2>1, BarUnpublished
<1>6. new \in [changed -> Values] /\ changed \in SUBSET Bars
  BY <1>4
<1> HIDE DEF new, changed
<1>7. History' = [b \in Bars |-> IF b \in changed THEN Append(History[b], new[b]) ELSE History[b]]
  <2>1. History' = [b \in Bars |-> History'[b]]
    BY DEF History
  <2> QED
    BY <1>4, <1>5, <2>1
<1>8. CASE changed = {}
  <2>1. History' = History
    <3>1. History = [b \in Bars |-> History[b]]
      BY DEF History
    <3> QED
      BY <1>7, <1>8, <3>1
  <2>2. status \in Abstract!Ended
    BY DEF TerminalStatus, Abstract!Ended
  <2>3. Abstract!End(r)
    BY <1>1, <2>1, <2>2 DEF Abstract!End, StatusOf
  <2> QED
    BY <2>3 DEF Abstract!Next
<1>9. CASE changed # {}
  <2>1. status \in {"SUCCEEDED", "PARTIAL"}
    <3>1. PICK v \in job[u].revs : TRUE
      BY <1>0, <1>9 DEF changed
    <3>2. JobOK("finish", job[u])
      BY <1>0 DEF TypeInv, JobsOK, FinishBatch
    <3>3. job[u].accepted > 0
      BY <3>1, <3>2 DEF JobOK, WriteOK
    <3> QED
      BY <3>3 DEF TerminalStatus
  <2>2. Abstract!Publish(r, changed)
    BY <1>1, <1>4, <1>6, <1>7, <2>1 DEF Abstract!Publish, Abstract!Differs, StatusOf
  <2>3. changed \in (SUBSET Bars) \ {{}}
    BY <1>6, <1>9
  <2> QED
    BY <2>2, <2>3 DEF Abstract!Next
<1> QED
  BY <1>8, <1>9

\* Every other step keeps the histories, and is a step of the batches' statuses.
LEMMA OtherStepsRefine ==
    ASSUME TypeInv, Next, revisions' = revisions
    PROVE  Abstract!Next \/ UNCHANGED <<History, StatusOf>>
<1>1. History' = History
  BY DEF History
<1>2. ASSUME NEW r \in RequestIds, StatusOf[r] = "ABSENT",
             StatusOf' = [StatusOf EXCEPT ![r] = "RUNNING"]
      PROVE  Abstract!Next
  BY <1>1, <1>2 DEF Abstract!Next, Abstract!Begin, StatusOf
<1>3. ASSUME NEW r \in RequestIds, NEW outcome \in Terminal, StatusOf[r] = "RUNNING",
             StatusOf' = [StatusOf EXCEPT ![r] = outcome]
      PROVE  Abstract!Next
  <2>1. outcome \in Abstract!Ended
    BY DEF Abstract!Ended, Terminal
  <2>2. Abstract!End(r)
    BY <1>1, <1>3, <2>1 DEF Abstract!End, StatusOf
  <2> QED
    BY <2>2 DEF Abstract!Next
<1> QED
  BY <1>1, <1>2, <1>3, StatusSteps

\* Where no value is rounded when it is stored, the service implements the abstract
\* bar history: a batch publishes all its changes at once, each appends a value that
\* differs from the bar's newest one, and only a batch that ends SUCCEEDED or
\* PARTIAL publishes.
THEOREM IngestionImplementsBarHistory ==
    ASSUME Representable
    PROVE  Spec => ImplementsBarHistory
<1>1. Init => Abstract!Init
  <2> SUFFICES ASSUME Init PROVE Abstract!Init
    OBVIOUS
  <2>1. [r \in RequestIds |-> batch[r].status] = [r \in RequestIds |-> "ABSENT"]
    BY DEF Init, NoBatch
  <2>2. History = [b \in Instruments \X Dates |-> <<>>]
    <3>1. Cardinality({}) = 0
      BY FS_EmptySet
    <3>2. \A i, d : RevisionsOf(revisions, i, d) = {}
      BY DEF Init, RevisionsOf
    <3> QED
      BY <3>1, <3>2 DEF History
  <2> QED
    BY <2>1, <2>2 DEF Abstract!Init
<1>2. RevisionInv /\ [Next]_vars => [Abstract!Next]_<<History, StatusOf>>
  <2> SUFFICES ASSUME RevisionInv, [Next]_vars
               PROVE  [Abstract!Next]_<<History, StatusOf>>
    OBVIOUS
  <2>1. CASE UNCHANGED vars
    BY <2>1 DEF vars, History, StatusOf
  <2>2. CASE Next
    <3>1. TypeInv
      BY DEF RevisionInv, SafetyInv
    <3> QED
      BY <2>2, <3>1, RevisionsOnlyByFinish, CommitRefines, OtherStepsRefine
  <2> QED
    BY <2>1, <2>2
<1> QED
  BY <1>1, <1>2, AlwaysWellNumbered, PTL DEF Spec, ImplementsBarHistory, Abstract!Spec, StatusOf

-----------------------------------------------------------------------------
(* Headers, verdicts and replies *)

\* Nothing is stored for a batch before its transaction B.
Unstored == {"fetch", "acquire", "acquire_empty", "finalize_failure", "finalize_no_data"}

\* Places after a transaction B that stored rows.
Acquired == Canonicalizing \cup {"validate", "canonicalization_failed"}

\* What worker w knows of the raw events of its batch, and its own counts.
StoredOK(w) ==
    /\ pc[w] \in Unstored => Len(raw[job[w].request]) = 0
    /\ pc[w] = "finalize_no_data" => Len(job[w].rows) = 0
    /\ pc[w] \in Acquired =>
          Len(raw[job[w].request]) = Len(job[w].rows) /\ Len(job[w].rows) > 0
    /\ pc[w] \in Canonicalizing =>
          /\ job[w].accepted = Cardinality(RowsChecked(job[w].checks, "ACCEPTED"))
          /\ job[w].rejected = Cardinality(RowsChecked(job[w].checks, "REJECTED"))
    /\ pc[w] = "finish" => RowsChecked(job[w].checks, "PENDING") = {}

\* A caller that is told an outcome is told whose.
RepliesNamed ==
    \A w \in Workers : reply[w].kind \in {"result", "canonicalization_error"} =>
        reply[w].request \in RequestIds

VerdictInv ==
    /\ RevisionInv
    /\ CountsAgree
    /\ \A w \in Workers : StoredOK(w)
    /\ \A r \in RequestIds : batch[r].status = "ABSENT" => Len(raw[r]) = 0
    /\ RepliesNamed
    /\ RepliesStayTrue

\* A header with the counts of its raw events.
StatusCount(events, status) == Cardinality({i \in DOMAIN events : events[i].status = status})

Agree(b, events) ==
    /\ b.received = Len(events)
    /\ b.accepted = StatusCount(events, "ACCEPTED")
    /\ b.rejected = StatusCount(events, "REJECTED")
    /\ b.status \in {"SUCCEEDED", "PARTIAL", "QUARANTINED"} =>
          \A i \in DOMAIN events : events[i].status # "PENDING"
    /\ b.status \in {"RUNNING", "FAILED"} =>
          \A i \in DOMAIN events : events[i].status = "PENDING"

\* CountsAgree says this of every batch.
LEMMA AgreeIsCountsAgree == CountsAgree <=> \A r \in RequestIds : Agree(batch[r], raw[r])
BY DEF CountsAgree, RawWith, Agree, StatusCount

\* The same of the next state.
LEMMA AgreeIsCountsAgreeNext ==
    CountsAgree' <=> \A r \in RequestIds : Agree(batch'[r], raw'[r])
BY DEF CountsAgree, RawWith, Agree, StatusCount

\* Rows without a verdict count as neither accepted nor rejected.
LEMMA PendingCounts ==
    ASSUME NEW events, \A i \in DOMAIN events : events[i].status = "PENDING"
    PROVE  StatusCount(events, "ACCEPTED") = 0 /\ StatusCount(events, "REJECTED") = 0
<1>1. /\ {i \in DOMAIN events : events[i].status = "ACCEPTED"} = {}
      /\ {i \in DOMAIN events : events[i].status = "REJECTED"} = {}
  OBVIOUS
<1> QED
  BY <1>1, FS_EmptySet DEF StatusCount

\* A running batch has counted nothing.
LEMMA RunningAgrees ==
    ASSUME NEW b, NEW events, Agree(b, events), b.status = "RUNNING"
    PROVE  /\ \A i \in DOMAIN events : events[i].status = "PENDING"
           /\ b.received = Len(events) /\ b.accepted = 0 /\ b.rejected = 0
<1>1. \A i \in DOMAIN events : events[i].status = "PENDING"
  BY DEF Agree
<1> QED
  BY <1>1, PendingCounts DEF Agree

\* A header that counts rows without verdicts, or no rows at all.
LEMMA PendingAgrees ==
    ASSUME NEW b, NEW events \in Seq(RawEvent),
           \A i \in DOMAIN events : events[i].status = "PENDING",
           b.received = Len(events), b.accepted = 0, b.rejected = 0,
           b.status \in {"ABSENT", "RUNNING", "FAILED"} \/ Len(events) = 0
    PROVE  Agree(b, events)
<1>1. StatusCount(events, "ACCEPTED") = 0 /\ StatusCount(events, "REJECTED") = 0
  BY PendingCounts
<1>2. Len(events) = 0 => \A i \in DOMAIN events : FALSE
  OBVIOUS
<1> QED
  BY <1>1, <1>2 DEF Agree

\* What a finalization makes of its header.
LEMMA FinalizedFields ==
    ASSUME TypeInv, NEW q \in RequestIds, NEW status, NEW received, NEW accepted,
           NEW rejected, FinalizeBatch(q, status, received, accepted, rejected)
    PROVE  /\ batch[q].status = "RUNNING" /\ batch'[q].status = status
           /\ batch'[q].received = received
           /\ batch'[q].accepted = accepted /\ batch'[q].rejected = rejected
           /\ \A r \in RequestIds : r # q => batch'[r] = batch[r]
<1> DEFINE b == FinalizedBatch(q, status, received, accepted, rejected)
<1>1. batch[q] \in Batch
  BY DEF TypeInv, TypeOK
<1>2. b.status = status /\ b.received = received /\ b.accepted = accepted /\ b.rejected = rejected
  BY <1>1 DEF FinalizedBatch, Batch
<1>3. batch' = [batch EXCEPT ![q] = b] /\ batch[q].status = "RUNNING"
  BY DEF FinalizeBatch, CanFinalize
<1> HIDE DEF b
<1>4. batch'[q] = b /\ \A r \in RequestIds : r # q => batch'[r] = batch[r]
  BY <1>3 DEF TypeInv, TypeOK
<1> QED
  BY <1>2, <1>3, <1>4

\* A step that writes only to batch q, and leaves its header and its rows in agreement.
WritesBatch(q) ==
    /\ \A r \in RequestIds : r # q => batch'[r] = batch[r] /\ raw'[r] = raw[r]
    /\ Agree(batch'[q], raw'[q])

\* Transaction A.
LEMMA CreateWrites ==
    ASSUME VerdictInv, NEW u \in Workers, NEW q \in RequestIds, NEW s \in Symbols,
           CreateBatch(u, q, s)
    PROVE  WritesBatch(q) /\ raw' = raw /\ Len(raw[q]) = 0
<1>0. TypeInv /\ raw[q] \in Seq(RawEvent) /\ batch[q].status = "ABSENT" /\ Len(raw[q]) = 0
  BY DEF VerdictInv, RevisionInv, SafetyInv, TypeInv, TypeOK, CreateBatch
<1> DEFINE b == [NoBatch EXCEPT !.status = "RUNNING", !.symbol = s, !.started_at = clock]
<1>1. batch' = [batch EXCEPT ![q] = b] /\ raw' = raw
  BY DEF CreateBatch, StartBatch
<1>2. b.status = "RUNNING" /\ b.received = 0 /\ b.accepted = 0 /\ b.rejected = 0
  BY DEF NoBatch
<1> HIDE DEF b
<1>3. batch'[q] = b /\ \A r \in RequestIds : r # q => batch'[r] = batch[r]
  BY <1>0, <1>1 DEF TypeInv, TypeOK
<1>4. \A i \in DOMAIN raw[q] : raw[q][i].status = "PENDING"
  BY <1>0
<1>5. Agree(b, raw[q])
  BY <1>0, <1>2, <1>4, PendingAgrees
<1> QED
  BY <1>0, <1>1, <1>3, <1>5 DEF WritesBatch

\* Transaction B.
LEMMA PersistWrites ==
    ASSUME VerdictInv, NEW u \in Workers, PersistAcquisition(u) \/ PersistEmptyAcquisition(u)
    PROVE  /\ WritesBatch(job[u].request)
           /\ PersistAcquisition(u) => Len(raw'[job[u].request]) = Len(job[u].rows)
           /\ PersistEmptyAcquisition(u) => raw' = raw
<1>0. /\ TypeInv /\ batch \in [RequestIds -> Batch] /\ raw \in [RequestIds -> Seq(RawEvent)]
      /\ job[u] \in Job
  BY DEF VerdictInv, RevisionInv, SafetyInv, TypeInv, TypeOK
<1>1. PICK q \in RequestIds : q = job[u].request
  BY <1>0 DEF PersistAcquisition, PersistEmptyAcquisition, TypeInv, JobsOK, JobOK
<1>2. PICK rows \in Seq(ParsedRow) : rows = job[u].rows
  BY <1>0 DEF Job
<1>3. batch[q].status = "RUNNING" /\ Agree(batch[q], raw[q])
  BY <1>1, AgreeIsCountsAgree DEF PersistAcquisition, PersistEmptyAcquisition, VerdictInv
<1>4. /\ \A i \in DOMAIN raw[q] : raw[q][i].status = "PENDING"
      /\ batch[q].accepted = 0 /\ batch[q].rejected = 0
  BY <1>3, RunningAgrees
<1>5. ASSUME NEW n, batch' = [batch EXCEPT ![q].received = n]
      PROVE  /\ batch'[q].status = "RUNNING" /\ batch'[q].received = n
             /\ batch'[q].accepted = 0 /\ batch'[q].rejected = 0
             /\ \A r \in RequestIds : r # q => batch'[r] = batch[r]
  BY <1>0, <1>3, <1>4, <1>5 DEF Batch
<1>6. CASE PersistAcquisition(u)
  <2> DEFINE events == [i \in DOMAIN rows |-> [row |-> rows[i], status |-> "PENDING"]]
  <2>1. batch' = [batch EXCEPT ![q].received = Len(rows)] /\ raw' = [raw EXCEPT ![q] = events]
    BY <1>1, <1>2, <1>6 DEF PersistAcquisition
  <2>2. /\ events \in Seq(RawEvent) /\ Len(events) = Len(rows)
        /\ \A i \in DOMAIN events : events[i].status = "PENDING"
    <3>1. \A i \in DOMAIN rows : [row |-> rows[i], status |-> "PENDING"] \in RawEvent
      BY DEF RawEvent, ValidationStatus
    <3>2. DOMAIN rows = 1..Len(rows) /\ Len(rows) \in Nat
      OBVIOUS
    <3>3. \A i \in DOMAIN events : events[i].status = "PENDING"
      OBVIOUS
    <3> QED
      BY <3>1, <3>2, <3>3
  <2> HIDE DEF events
  <2>3. raw'[q] = events /\ \A r \in RequestIds : r # q => raw'[r] = raw[r]
    BY <1>0, <2>1
  <2>4. Agree(batch'[q], events)
    <3>1. /\ batch'[q].status = "RUNNING" /\ batch'[q].received = Len(events)
          /\ batch'[q].accepted = 0 /\ batch'[q].rejected = 0
      BY <1>5, <2>1, <2>2
    <3> QED
      BY <2>2, <3>1, PendingAgrees
  <2>5. ~PersistEmptyAcquisition(u)
    BY <1>6 DEF PersistAcquisition, PersistEmptyAcquisition
  <2> QED
    BY <1>1, <1>2, <1>5, <2>1, <2>2, <2>3, <2>4, <2>5 DEF WritesBatch
<1>7. CASE PersistEmptyAcquisition(u)
  <2>1. batch' = [batch EXCEPT ![q].received = 0] /\ raw' = raw
    BY <1>1, <1>7 DEF PersistEmptyAcquisition
  <2>2. Len(raw[q]) = 0
    BY <1>1, <1>7 DEF PersistEmptyAcquisition, VerdictInv, StoredOK, Unstored
  <2>3. Agree(batch'[q], raw[q])
    <3>1. /\ batch'[q].status = "RUNNING" /\ batch'[q].received = Len(raw[q])
          /\ batch'[q].accepted = 0 /\ batch'[q].rejected = 0
      BY <1>5, <2>1, <2>2
    <3> QED
      BY <1>0, <1>4, <3>1, PendingAgrees
  <2>4. ~PersistAcquisition(u)
    BY <1>7 DEF PersistAcquisition, PersistEmptyAcquisition
  <2> QED
    BY <1>1, <1>5, <2>1, <2>3, <2>4 DEF WritesBatch
<1> QED
  BY <1>6, <1>7

\* The finalizations without transaction C: the header counts what is stored.
LEMMA FinalizersWrite ==
    ASSUME VerdictInv, NEW u \in Workers,
           \/ FinalizeNoData(u) \/ FinalizeExpectedFailure(u)
           \/ MarkCanonicalizationFailure(u) \/ MarkStartedFailure(u)
    PROVE  /\ WritesBatch(job[u].request) /\ raw' = raw
           /\ batch'[job[u].request].status \in Terminal
<1>0. /\ TypeInv /\ raw \in [RequestIds -> Seq(RawEvent)] /\ raw' = raw /\ StoredOK(u)
      /\ pc[u] = "finalize_failure" => job[u].status \in Terminal
  BY DEF VerdictInv, RevisionInv, SafetyInv, TypeInv, TypeOK, JobsOK, JobOK, FinalizeNoData,
     FinalizeExpectedFailure, MarkCanonicalizationFailure, MarkStartedFailure
<1>1. PICK q \in RequestIds : q = job[u].request
  BY <1>0 DEF FinalizeNoData, FinalizeExpectedFailure, MarkCanonicalizationFailure,
     MarkStartedFailure, TypeInv, JobsOK, JobOK
<1>2. ASSUME NEW status \in Terminal, NEW received, NEW accepted, NEW rejected,
             FinalizeBatch(q, status, received, accepted, rejected),
             received = Len(raw[q]), accepted = 0, rejected = 0,
             status = "FAILED" \/ Len(raw[q]) = 0
      PROVE  WritesBatch(q) /\ batch'[q].status \in Terminal
  <2>1. /\ batch[q].status = "RUNNING" /\ batch'[q].status = status
        /\ batch'[q].received = Len(raw[q])
        /\ batch'[q].accepted = 0 /\ batch'[q].rejected = 0
        /\ \A r \in RequestIds : r # q => batch'[r] = batch[r]
    BY <1>0, <1>2, FinalizedFields
  <2>2. \A i \in DOMAIN raw[q] : raw[q][i].status = "PENDING"
    BY <2>1, RunningAgrees, AgreeIsCountsAgree DEF VerdictInv
  <2>3. Agree(batch'[q], raw[q])
    BY <1>0, <1>2, <2>1, <2>2, PendingAgrees
  <2> QED
    BY <1>0, <1>2, <2>1, <2>3 DEF WritesBatch
<1>3. batch[q].status = "RUNNING" =>
         batch[q].received = Len(raw[q]) /\ batch[q].accepted = 0 /\ batch[q].rejected = 0
  BY RunningAgrees, AgreeIsCountsAgree DEF VerdictInv
<1>4. "FAILED" \in Terminal /\ "SUCCEEDED" \in Terminal
  BY DEF Terminal
<1>5. CASE FinalizeNoData(u)
  <2>1. Len(raw[q]) = 0 /\ FinalizeBatch(q, "SUCCEEDED", 0, 0, 0)
    BY <1>0, <1>1, <1>5 DEF FinalizeNoData, StoredOK, Unstored
  <2> QED
    BY <1>0, <1>1, <1>2, <1>4, <2>1
<1>6. CASE FinalizeExpectedFailure(u)
  <2>1. /\ Len(raw[q]) = 0 /\ FinalizeBatch(q, job[u].status, batch[q].received, 0, 0)
        /\ job[u].status \in Terminal /\ batch[q].status = "RUNNING"
    BY <1>0, <1>1, <1>6 DEF FinalizeExpectedFailure, StoredOK, Unstored, FinalizeBatch,
       CanFinalize
  <2> QED
    BY <1>0, <1>1, <1>2, <1>3, <2>1
<1>7. CASE MarkCanonicalizationFailure(u)
  <2>1. Len(raw[q]) = Len(job[u].rows) /\ FinalizeBatch(q, "FAILED", Len(job[u].rows), 0, 0)
    BY <1>0, <1>1, <1>7 DEF MarkCanonicalizationFailure, StoredOK, Acquired
  <2> QED
    BY <1>0, <1>1, <1>2, <1>4, <2>1
<1>8. CASE MarkStartedFailure(u)
  <2>1. /\ FinalizeBatch(q, "FAILED", batch[q].received, batch[q].accepted, batch[q].rejected)
        /\ batch[q].status = "RUNNING"
    BY <1>1, <1>8 DEF MarkStartedFailure, FinalizeBatch, CanFinalize
  <2> QED
    BY <1>0, <1>1, <1>2, <1>3, <1>4, <2>1
<1> QED
  BY <1>5, <1>6, <1>7, <1>8

\* The commit of transaction C: every row has a verdict and is counted.
LEMMA FinishCounts ==
    ASSUME VerdictInv, NEW u \in Workers, FinishBatch(u)
    PROVE  /\ WritesBatch(job[u].request)
           /\ Len(raw'[job[u].request]) = Len(job[u].rows)
           /\ batch'[job[u].request].status \in Terminal
<1>0. /\ SafetyInv /\ TypeInv /\ raw \in [RequestIds -> Seq(RawEvent)] /\ StoredOK(u)
      /\ pc[u] = "finish" /\ job[u] \in Job /\ JobOK("finish", job[u])
  BY DEF VerdictInv, RevisionInv, SafetyInv, TypeInv, TypeOK, JobsOK, FinishBatch
<1>1. PICK q \in RequestIds, rows \in Seq(ParsedRow), checks \in Seq(ValidationStatus) :
         q = job[u].request /\ rows = job[u].rows /\ checks = job[u].checks
  BY <1>0 DEF JobOK, Job
<1>2. DOMAIN checks = DOMAIN rows /\ Len(checks) = Len(rows)
  BY <1>0, <1>1 DEF JobOK, Canonicalizing
<1>3. /\ job[u].accepted = Cardinality(RowsChecked(checks, "ACCEPTED"))
      /\ job[u].rejected = Cardinality(RowsChecked(checks, "REJECTED"))
      /\ RowsChecked(checks, "PENDING") = {}
  BY <1>0, <1>1 DEF StoredOK, Canonicalizing
<1> DEFINE events == [i \in DOMAIN checks |-> [row |-> rows[i], status |-> checks[i]]]
<1>4. raw' = [raw EXCEPT ![q] = events]
  BY <1>1 DEF FinishBatch
<1>5. /\ Len(events) = Len(rows) /\ DOMAIN events = DOMAIN checks
      /\ \A i \in DOMAIN checks : events[i].status = checks[i]
  BY <1>2
<1> HIDE DEF events
<1>6. raw'[q] = events /\ \A r \in RequestIds : r # q => raw'[r] = raw[r]
  BY <1>0, <1>4
<1>7. \A status : {i \in DOMAIN events : events[i].status = status} = RowsChecked(checks, status)
  BY <1>5 DEF RowsChecked
<1>8. /\ batch'[q].status = TerminalStatus(job[u].accepted, job[u].rejected)
      /\ batch'[q].received = Len(rows)
      /\ batch'[q].accepted = job[u].accepted /\ batch'[q].rejected = job[u].rejected
      /\ \A r \in RequestIds : r # q => batch'[r] = batch[r]
  BY <1>0, <1>1, FinalizedFields DEF FinishBatch
<1>9. batch'[q].status \in {"SUCCEEDED", "PARTIAL", "QUARANTINED"}
  BY <1>8 DEF TerminalStatus
<1>10. \A i \in DOMAIN events : events[i].status # "PENDING"
  BY <1>3, <1>5 DEF RowsChecked
<1>11. Agree(batch'[q], events)
  BY <1>3, <1>5, <1>7, <1>8, <1>9, <1>10 DEF Agree, StatusCount
<1> QED
  BY <1>1, <1>5, <1>6, <1>8, <1>9, <1>11 DEF WritesBatch, Terminal

\* A step writes to no batch, to a new one, or to the worker's own.
LEMMA BatchWrites ==
    ASSUME VerdictInv, NEW u \in Workers, StepOf(u)
    PROVE  \/ UNCHANGED <<batch, raw>>
           \/ \E q \in RequestIds : WritesBatch(q) /\ (raw' = raw \/ q = job[u].request)
<1>0. TypeInv
  BY DEF VerdictInv, RevisionInv, SafetyInv
<1>1. CASE \/ FetchAndParse(u) \/ ValidateRows(u) \/ LockMonth(u) \/ CreatePartition(u)
           \/ StampRow(u) \/ EnsureSeries(u) \/ LockBar(u) \/ AppendRevision(u)
           \/ FinalizeRejected(u) \/ DeadlockVictim(u) \/ UnexpectedError(u) \/ Crash(u)
  BY <1>1 DEF FetchAndParse, ValidateRows, LockMonth, CreatePartition, StampRow, EnsureSeries,
     LockBar, AppendRevision, FinalizeRejected, DeadlockVictim, UnexpectedError, Crash, tables
<1>2. CASE Request(u)
  BY <1>2, CreateWrites DEF Request, RejectRequest, ReplayResult, tables
<1>3. CASE \/ PersistAcquisition(u) \/ PersistEmptyAcquisition(u)
           \/ FinalizeNoData(u) \/ FinalizeExpectedFailure(u) \/ FinishBatch(u)
           \/ MarkCanonicalizationFailure(u) \/ MarkStartedFailure(u)
  <2>1. job[u].request \in RequestIds
    BY <1>0, <1>3 DEF PersistAcquisition, PersistEmptyAcquisition, FinalizeNoData,
       FinalizeExpectedFailure, FinishBatch, MarkCanonicalizationFailure, MarkStartedFailure,
       TypeInv, JobsOK, JobOK
  <2>2. WritesBatch(job[u].request)
    BY <1>3, PersistWrites, FinalizersWrite, FinishCounts
  <2> QED
    BY <2>1, <2>2
<1> QED
  BY <1>1, <1>2, <1>3 DEF StepOf, Proceed, Canonicalize

\* Headers and raw events agree after every step.
LEMMA CountsKept ==
    ASSUME VerdictInv, NEW u \in Workers, StepOf(u)
    PROVE  CountsAgree'
<1>1. \A r \in RequestIds : Agree(batch[r], raw[r])
  BY AgreeIsCountsAgree DEF VerdictInv
<1>2. \A r \in RequestIds : Agree(batch'[r], raw'[r])
  BY <1>1, BatchWrites DEF WritesBatch
<1> QED
  BY <1>2, AgreeIsCountsAgreeNext

\* A worker's request names a started batch.
LEMMA OwnBatchStarted ==
    ASSUME SafetyInv, NEW w \in Workers, job[w].request \in RequestIds
    PROVE  batch[job[w].request].status # "ABSENT"
<1>1. job[w].request # None
  BY ConstantTypes
<1> QED
  BY <1>1 DEF SafetyInv, Owned

\* A batch that is not there has no raw events.
LEMMA AbsentKept ==
    ASSUME VerdictInv, NEW u \in Workers, StepOf(u), NEW r \in RequestIds,
           batch'[r].status = "ABSENT"
    PROVE  Len(raw'[r]) = 0
<1>1. SafetyInv /\ TypeInv /\ Next
  BY DEF VerdictInv, RevisionInv, SafetyInv, Next, StepOf
<1>2. batch[r].status = "ABSENT"
  BY <1>1, BatchesKept DEF BatchKept
<1>3. r # job[u].request
  BY <1>1, <1>2, OwnBatchStarted
<1>4. raw'[r] = raw[r]
  BY <1>3, BatchWrites DEF WritesBatch
<1> QED
  BY <1>2, <1>4 DEF VerdictInv

\* Nobody else writes to the batch of a worker.
LEMMA OthersStored ==
    ASSUME VerdictInv, NEW u \in Workers, StepOf(u), NEW w \in Workers, w # u
    PROVE  StoredOK(w)'
<1>1. /\ pc'[w] = pc[w] /\ job'[w] = job[w] /\ StoredOK(w)
  BY StepOK DEF Still, VerdictInv
<1>2. pc[w] \in Unstored \cup Acquired => raw'[job[w].request] = raw[job[w].request]
  <2> SUFFICES ASSUME pc[w] \in Unstored \cup Acquired
               PROVE  raw'[job[w].request] = raw[job[w].request]
    OBVIOUS
  <2>1. job[w].request \in RequestIds
    BY DEF VerdictInv, RevisionInv, SafetyInv, TypeInv, JobsOK, JobOK, Unstored, Acquired,
       Canonicalizing
  <2>2. job[w].request # job[u].request
    BY <2>1, ConstantTypes DEF VerdictInv, RevisionInv, SafetyInv, OneWorkerPerBatch
  <2> QED
    BY <2>1, <2>2, BatchWrites DEF WritesBatch
<1> QED
  BY <1>1, <1>2 DEF StoredOK, Acquired

\* One verdict more.
LEMMA OneMoreCheck ==
    ASSUME NEW checks \in Seq(ValidationStatus), NEW i \in DOMAIN checks, checks[i] = "PENDING",
           NEW status \in {"ACCEPTED", "REJECTED"}, NEW new, new = [checks EXCEPT ![i] = status]
    PROVE  /\ Cardinality(RowsChecked(new, status)) =
                 Cardinality(RowsChecked(checks, status)) + 1
           /\ \A other : other # status /\ other # "PENDING" =>
                 RowsChecked(new, other) = RowsChecked(checks, other)
           /\ RowsChecked(new, "PENDING") = RowsChecked(checks, "PENDING") \ {i}
<1>1. DOMAIN new = DOMAIN checks /\ \A k \in DOMAIN checks :
         new[k] = IF k = i THEN status ELSE checks[k]
  OBVIOUS
<1>2. /\ RowsChecked(new, status) = RowsChecked(checks, status) \cup {i}
      /\ i \notin RowsChecked(checks, status)
      /\ \A other : other # status /\ other # "PENDING" =>
            RowsChecked(new, other) = RowsChecked(checks, other)
      /\ RowsChecked(new, "PENDING") = RowsChecked(checks, "PENDING") \ {i}
  BY <1>1 DEF RowsChecked
<1>3. IsFiniteSet(RowsChecked(checks, status))
  <2>1. DOMAIN checks = 1..Len(checks) /\ Len(checks) \in Nat
    OBVIOUS
  <2>2. IsFiniteSet(1..Len(checks))
    BY <2>1, FS_Interval
  <2>3. RowsChecked(checks, status) \subseteq 1..Len(checks)
    BY <2>1 DEF RowsChecked
  <2> QED
    BY <2>2, <2>3, FS_Subset
<1>4. Cardinality(RowsChecked(new, status)) = Cardinality(RowsChecked(checks, status)) + 1
  BY <1>2, <1>3, FS_AddElement
<1> QED
  BY <1>2, <1>4

\* A step of transaction C that gives no verdict.
LEMMA SameChecksStored ==
    ASSUME VerdictInv, NEW u \in Workers, UNCHANGED raw, pc[u] \in Canonicalizing,
           pc'[u] \in Canonicalizing \ {"finish"},
           job'[u].request = job[u].request, job'[u].rows = job[u].rows,
           job'[u].checks = job[u].checks, job'[u].accepted = job[u].accepted,
           job'[u].rejected = job[u].rejected
    PROVE  StoredOK(u)'
<1>1. StoredOK(u)
  BY DEF VerdictInv
<1>2. pc'[u] \notin Unstored /\ pc'[u] # "finalize_no_data" /\ pc'[u] # "finish"
  BY DEF Unstored, Canonicalizing
<1>3. pc[u] \in Acquired
  BY DEF Acquired
<1> QED
  BY <1>1, <1>2, <1>3 DEF StoredOK

\* A step of transaction C that gives the current row its verdict.
LEMMA VerdictStored ==
    ASSUME VerdictInv, NEW u \in Workers, UNCHANGED raw, pc[u] \in Canonicalizing,
           NEW i \in DOMAIN job[u].checks, CurrentRow(u, i),
           pc'[u] = PlaceAfterRow(u, i),
           job'[u].request = job[u].request, job'[u].rows = job[u].rows,
           \/ /\ job'[u].checks = [job[u].checks EXCEPT ![i] = "ACCEPTED"]
              /\ job'[u].accepted = job[u].accepted + 1 /\ job'[u].rejected = job[u].rejected
           \/ /\ job'[u].checks = [job[u].checks EXCEPT ![i] = "REJECTED"]
              /\ job'[u].rejected = job[u].rejected + 1 /\ job'[u].accepted = job[u].accepted
    PROVE  StoredOK(u)'
<1>1. /\ StoredOK(u) /\ job[u].checks \in Seq(ValidationStatus) /\ job[u].checks[i] = "PENDING"
      /\ pc[u] \in Acquired
  BY DEF VerdictInv, RevisionInv, SafetyInv, TypeInv, TypeOK, Job, CurrentRow, RowsChecked,
     Acquired
<1>2. pc'[u] \in {"finish", "stamp"}
  BY DEF PlaceAfterRow
<1>3. PICK checks \in Seq(ValidationStatus), new \in {job'[u].checks} :
         checks = job[u].checks /\ new = job'[u].checks
  BY <1>1
<1>4. /\ job'[u].accepted = Cardinality(RowsChecked(job'[u].checks, "ACCEPTED"))
      /\ job'[u].rejected = Cardinality(RowsChecked(job'[u].checks, "REJECTED"))
      /\ RowsChecked(job'[u].checks, "PENDING") = RowsChecked(job[u].checks, "PENDING") \ {i}
  <2>1. CASE /\ job'[u].checks = [job[u].checks EXCEPT ![i] = "ACCEPTED"]
             /\ job'[u].accepted = job[u].accepted + 1 /\ job'[u].rejected = job[u].rejected
    <3>1. /\ Cardinality(RowsChecked(new, "ACCEPTED")) =
                Cardinality(RowsChecked(checks, "ACCEPTED")) + 1
          /\ RowsChecked(new, "REJECTED") = RowsChecked(checks, "REJECTED")
          /\ RowsChecked(new, "PENDING") = RowsChecked(checks, "PENDING") \ {i}
      BY <1>1, <1>3, <2>1, OneMoreCheck
    <3> QED
      BY <1>1, <1>3, <2>1, <3>1 DEF StoredOK
  <2>2. CASE /\ job'[u].checks = [job[u].checks EXCEPT ![i] = "REJECTED"]
             /\ job'[u].rejected = job[u].rejected + 1 /\ job'[u].accepted = job[u].accepted
    <3>1. /\ Cardinality(RowsChecked(new, "REJECTED")) =
                Cardinality(RowsChecked(checks, "REJECTED")) + 1
          /\ RowsChecked(new, "ACCEPTED") = RowsChecked(checks, "ACCEPTED")
          /\ RowsChecked(new, "PENDING") = RowsChecked(checks, "PENDING") \ {i}
      BY <1>1, <1>3, <2>2, OneMoreCheck
    <3> QED
      BY <1>1, <1>3, <2>2, <3>1 DEF StoredOK
  <2> QED
    BY <2>1, <2>2
<1>5. pc'[u] = "finish" => RowsChecked(job'[u].checks, "PENDING") = {}
  BY <1>4 DEF PlaceAfterRow
<1>6. pc'[u] \notin Unstored /\ pc'[u] # "finalize_no_data"
  BY <1>2 DEF Unstored
<1> QED
  BY <1>1, <1>4, <1>5, <1>6 DEF StoredOK

\* A worker that is idle, or whose failure is only logged, claims nothing.
LEMMA NothingToStore ==
    ASSUME NEW u \in Workers, pc'[u] \in {"idle", "started_failed"}
    PROVE  StoredOK(u)'
<1>1. /\ pc'[u] \notin Unstored /\ pc'[u] # "finalize_no_data" /\ pc'[u] \notin Acquired
      /\ pc'[u] \notin Canonicalizing /\ pc'[u] # "finish"
  BY DEF Unstored, Acquired, Canonicalizing
<1> QED
  BY <1>1 DEF StoredOK

\* The end of a call.
LEMMA ReturnStored ==
    ASSUME TypeInv, NEW u \in Workers, NEW answer, Return(u, answer)
    PROVE  StoredOK(u)'
<1>1. pc'[u] = "idle"
  BY DEF Return, TypeInv, TypeOK
<1> QED
  BY <1>1, NothingToStore

\* An exception: the handler of transaction C finds the rows that B stored.
LEMMA RaiseStored ==
    ASSUME VerdictInv, NEW u \in Workers, Raise(u),
           pc[u] \in Canonicalizing \cup {"validate"} =>
              Len(raw'[job[u].request]) = Len(job[u].rows)
    PROVE  StoredOK(u)'
<1>0. TypeInv /\ StoredOK(u) /\ job[u] \in Job
  BY DEF VerdictInv, RevisionInv, SafetyInv, TypeInv, TypeOK
<1>1. CASE pc[u] = "started_failed"
  BY <1>0, <1>1, ReturnStored DEF Raise
<1>2. CASE pc[u] # "started_failed" /\ pc[u] \notin Canonicalizing \cup {"validate"}
  <2>1. pc'[u] = "started_failed"
    BY <1>0, <1>2 DEF Raise, Handler, TypeInv, TypeOK
  <2> QED
    BY <2>1, NothingToStore
<1>3. CASE pc[u] # "started_failed" /\ pc[u] \in Canonicalizing \cup {"validate"}
  <2> DEFINE j == RolledBack(job[u])
  <2>1. j.request = job[u].request /\ j.rows = job[u].rows
    BY <1>0 DEF RolledBack, Job
  <2>2. pc'[u] = "canonicalization_failed" /\ job' = [job EXCEPT ![u] = j]
    BY <1>0, <1>3 DEF Raise, Handler, TypeInv, TypeOK
  <2> HIDE DEF j
  <2>3. job'[u].request = job[u].request /\ job'[u].rows = job[u].rows
    BY <1>0, <2>1, <2>2 DEF TypeInv, TypeOK
  <2>4. Len(job[u].rows) > 0
    BY <1>0, <1>3 DEF StoredOK, Acquired
  <2>5. /\ pc'[u] \notin Unstored /\ pc'[u] # "finalize_no_data"
        /\ pc'[u] \notin Canonicalizing /\ pc'[u] # "finish"
    BY <2>2 DEF Unstored, Canonicalizing
  <2> QED
    BY <1>3, <2>3, <2>4, <2>5 DEF StoredOK
<1> QED
  BY <1>1, <1>2, <1>3

\* Requests, crashes, and the exceptions of steps that write nothing.
LEMMA RequestStored ==
    ASSUME VerdictInv, NEW u \in Workers, Request(u) \/ Crash(u)
    PROVE  StoredOK(u)'
<1>0. TypeInv
  BY DEF VerdictInv, RevisionInv, SafetyInv
<1>1. ASSUME NEW r \in RequestIds, NEW s \in Symbols, CreateBatch(u, r, s)
      PROVE  StoredOK(u)'
  <2>1. raw' = raw /\ Len(raw[r]) = 0
    BY <1>1, CreateWrites
  <2>2. CASE Return(u, Told("error", r))
    BY <1>0, <2>2, ReturnStored
  <2>3. CASE /\ pc' = [pc EXCEPT ![u] = "fetch"]
             /\ job' = [job EXCEPT ![u] = [NoJob EXCEPT !.request = r, !.symbol = s]]
    <3> DEFINE j == [NoJob EXCEPT !.request = r, !.symbol = s]
    <3>1. j.request = r
      BY DEF NoJob
    <3> HIDE DEF j
    <3>2. pc'[u] = "fetch" /\ job'[u] = j
      BY <1>0, <2>3 DEF TypeInv, TypeOK, j
    <3>3. pc'[u] \notin Acquired /\ pc'[u] \notin Canonicalizing
      BY <3>2 DEF Acquired, Canonicalizing
    <3> QED
      BY <2>1, <3>1, <3>2, <3>3 DEF StoredOK
  <2> QED
    BY <1>1, <2>2, <2>3 DEF CreateBatch, StartBatch
<1>2. ASSUME NEW r \in RequestIds, NEW s \in Symbols,
             RejectRequest(u, r, s) \/ ReplayResult(u, r, s)
      PROVE  StoredOK(u)'
  BY <1>0, <1>2, ReturnStored DEF RejectRequest, ReplayResult
<1>3. CASE Crash(u)
  BY <1>0, <1>3, ReturnStored DEF Crash
<1> QED
  BY <1>1, <1>2, <1>3 DEF Request

\* An exception in a step that writes nothing.
LEMMA RaisersStored ==
    ASSUME VerdictInv, NEW u \in Workers,
           UnexpectedError(u) \/ FinalizeRejected(u) \/ DeadlockVictim(u)
    PROVE  StoredOK(u)'
<1>1. Raise(u) /\ raw' = raw
  BY DEF UnexpectedError, FinalizeRejected, DeadlockVictim, tables
<1>2. pc[u] \in Canonicalizing \cup {"validate"} =>
         Len(raw[job[u].request]) = Len(job[u].rows)
  BY DEF VerdictInv, StoredOK, Acquired
<1> QED
  BY <1>1, <1>2, RaiseStored

\* The provider's reply: nothing is stored yet.
LEMMA FetchStored ==
    ASSUME VerdictInv, NEW u \in Workers, FetchAndParse(u)
    PROVE  StoredOK(u)'
<1>0. /\ TypeInv /\ job[u] \in Job /\ pc[u] = "fetch" /\ raw' = raw
      /\ Len(raw[job[u].request]) = 0
  BY DEF VerdictInv, RevisionInv, SafetyInv, TypeInv, TypeOK, FetchAndParse, tables, StoredOK,
     Unstored
<1>1. PICK answer \in Replies[job[u].symbol] :
         /\ job' = [job EXCEPT ![u].rows = answer.rows, ![u].received_at = clock,
                               ![u].status = FailureStatus(answer.outcome)]
         /\ pc' = [pc EXCEPT ![u] = PlaceAfter(answer.outcome)]
  BY DEF FetchAndParse
<1> DEFINE j == [job[u] EXCEPT !.rows = answer.rows, !.received_at = clock,
                               !.status = FailureStatus(answer.outcome)]
<1>2. j.request = job[u].request
  BY <1>0 DEF Job
<1>3. job' = [job EXCEPT ![u] = j]
  BY <1>1 DEF TypeInv, TypeOK
<1> HIDE DEF j
<1>4. job'[u] = j /\ pc'[u] = PlaceAfter(answer.outcome)
  BY <1>0, <1>1, <1>3 DEF TypeInv, TypeOK
<1>5. pc'[u] \in {"finalize_failure", "acquire", "acquire_empty"}
  BY <1>4 DEF PlaceAfter
<1>6. /\ pc'[u] # "finalize_no_data" /\ pc'[u] \notin Acquired
      /\ pc'[u] \notin Canonicalizing /\ pc'[u] # "finish"
  BY <1>5 DEF Acquired, Canonicalizing
<1> QED
  BY <1>0, <1>2, <1>4, <1>6 DEF StoredOK

\* Transaction B.
LEMMA PersistStored ==
    ASSUME VerdictInv, NEW u \in Workers, PersistAcquisition(u) \/ PersistEmptyAcquisition(u)
    PROVE  StoredOK(u)'
<1>0. TypeInv /\ StoredOK(u) /\ job[u].rows \in Seq(ParsedRow)
  BY DEF VerdictInv, RevisionInv, SafetyInv, TypeInv, TypeOK, Job
<1>1. pc[u] \in {"acquire", "acquire_empty"}
  BY DEF PersistAcquisition, PersistEmptyAcquisition
<1>2. CASE Raise(u)
  <2>1. pc[u] \notin Canonicalizing \cup {"validate"}
    BY <1>1 DEF Canonicalizing
  <2> QED
    BY <1>2, <2>1, RaiseStored
<1>3. CASE PersistAcquisition(u) /\ ~Raise(u)
  <2>1. Len(raw'[job[u].request]) = Len(job[u].rows)
    BY <1>3, PersistWrites
  <2>2. /\ pc' = [pc EXCEPT ![u] = IF job[u].rows = <<>> THEN "finalize_no_data" ELSE "validate"]
        /\ UNCHANGED job
    BY <1>3 DEF PersistAcquisition, CommitThen
  <2>3. CASE job[u].rows = <<>>
    <3>1. pc'[u] = "finalize_no_data" /\ Len(job[u].rows) = 0
      BY <1>0, <2>2, <2>3 DEF TypeInv, TypeOK
    <3>2. pc'[u] \notin Acquired /\ pc'[u] \notin Canonicalizing
      BY <3>1 DEF Acquired, Canonicalizing
    <3> QED
      BY <2>1, <2>2, <3>1, <3>2 DEF StoredOK
  <2>4. CASE job[u].rows # <<>>
    <3>1. pc'[u] = "validate" /\ Len(job[u].rows) > 0
      BY <1>0, <2>2, <2>4 DEF TypeInv, TypeOK
    <3>2. pc'[u] \notin Unstored /\ pc'[u] \notin Canonicalizing
      BY <3>1 DEF Unstored, Canonicalizing
    <3> QED
      BY <2>1, <2>2, <3>1, <3>2 DEF StoredOK
  <2> QED
    BY <2>3, <2>4
<1>4. CASE PersistEmptyAcquisition(u) /\ ~Raise(u)
  <2>1. raw' = raw /\ Len(raw[job[u].request]) = 0
    BY <1>0, <1>4, PersistWrites DEF PersistEmptyAcquisition, StoredOK, Unstored
  <2>2. pc'[u] = "finalize_failure" /\ UNCHANGED job
    BY <1>0, <1>4 DEF PersistEmptyAcquisition, CommitThen, TypeInv, TypeOK
  <2>3. pc'[u] \notin Acquired /\ pc'[u] \notin Canonicalizing
    BY <2>2 DEF Acquired, Canonicalizing
  <2> QED
    BY <2>1, <2>2, <2>3 DEF StoredOK
<1> QED
  BY <1>2, <1>3, <1>4

\* The finalizing transactions.
LEMMA FinalizersStored ==
    ASSUME VerdictInv, NEW u \in Workers,
           \/ FinalizeNoData(u) \/ FinalizeExpectedFailure(u) \/ FinishBatch(u)
           \/ MarkCanonicalizationFailure(u) \/ MarkStartedFailure(u)
    PROVE  StoredOK(u)'
<1>0. TypeInv
  BY DEF VerdictInv, RevisionInv, SafetyInv
<1>1. PICK answer : CommitAndReturn(u, answer)
  BY DEF FinalizeNoData, FinalizeExpectedFailure, FinishBatch, MarkCanonicalizationFailure,
     MarkStartedFailure
<1>2. pc[u] \in Canonicalizing \cup {"validate"} =>
         Len(raw'[job[u].request]) = Len(job[u].rows)
  <2>1. CASE FinishBatch(u)
    BY <2>1, FinishCounts
  <2>2. CASE ~FinishBatch(u)
    BY <2>2 DEF FinalizeNoData, FinalizeExpectedFailure, MarkCanonicalizationFailure,
       MarkStartedFailure, Canonicalizing
  <2> QED
    BY <2>1, <2>2
<1> QED
  BY <1>0, <1>1, <1>2, RaiseStored, ReturnStored DEF CommitAndReturn

\* The first loop of _canonicalize counts its verdicts; it goes to the end of C only
\* when no row is left.
LEMMA ValidateStored ==
    ASSUME VerdictInv, NEW u \in Workers, ValidateRows(u)
    PROVE  StoredOK(u)'
<1> DEFINE rows == job[u].rows
           checks == [i \in DOMAIN rows |-> RowCheck(job[u], i)]
           months == {MonthOf[rows[i].date] : i \in RowsChecked(checks, "PENDING")}
           accepted == Cardinality(RowsChecked(checks, "ACCEPTED"))
           rejected == Cardinality(RowsChecked(checks, "REJECTED"))
           j == [job[u] EXCEPT !.checks = checks, !.months = months,
                   !.accepted = accepted, !.rejected = rejected]
           p == IF months = {} THEN "finish" ELSE "month"
<1>0. /\ TypeInv /\ StoredOK(u) /\ job[u] \in Job /\ pc[u] = "validate" /\ raw' = raw
  BY DEF VerdictInv, RevisionInv, SafetyInv, TypeInv, TypeOK, ValidateRows, tables
<1>1. job' = [job EXCEPT ![u] = j] /\ pc' = [pc EXCEPT ![u] = p]
  BY <1>0 DEF ValidateRows, TypeInv, TypeOK
<1>2. p = "finish" => RowsChecked(checks, "PENDING") = {}
  OBVIOUS
<1>3. p \in {"finish", "month"}
  OBVIOUS
<1> HIDE DEF checks, months
<1>4. /\ j.request = job[u].request /\ j.rows = job[u].rows /\ j.checks = checks
      /\ j.accepted = accepted /\ j.rejected = rejected
  BY <1>0 DEF Job
<1> HIDE DEF j, p
<1>5. job'[u] = j /\ pc'[u] = p
  BY <1>0, <1>1 DEF TypeInv, TypeOK
<1>6. pc'[u] \notin Unstored /\ pc'[u] # "finalize_no_data"
  BY <1>3, <1>5 DEF Unstored
<1>7. Len(raw[job[u].request]) = Len(job[u].rows) /\ Len(job[u].rows) > 0
  BY <1>0 DEF StoredOK, Acquired
<1> QED
  BY <1>0, <1>2, <1>4, <1>5, <1>6, <1>7 DEF StoredOK

\* The locks of transaction C.
LEMMA LockersStored ==
    ASSUME VerdictInv, NEW u \in Workers,
           LockMonth(u) \/ CreatePartition(u) \/ EnsureSeries(u) \/ LockBar(u)
    PROVE  StoredOK(u)'
<1>0. TypeInv /\ job[u] \in Job /\ raw' = raw /\ pc[u] \in Canonicalizing
  BY DEF VerdictInv, RevisionInv, SafetyInv, TypeInv, TypeOK, LockMonth, CreatePartition,
     EnsureSeries, LockBar, tables, Canonicalizing
<1>1. pc'[u] \in {"partition", "stamp", "month", "bar", "append"}
  BY <1>0 DEF LockMonth, CreatePartition, EnsureSeries, LockBar, TypeInv, TypeOK
<1>2. pc'[u] \in Canonicalizing \ {"finish"}
  BY <1>1 DEF Canonicalizing
<1>3. /\ job'[u].request = job[u].request /\ job'[u].rows = job[u].rows
      /\ job'[u].checks = job[u].checks /\ job'[u].accepted = job[u].accepted
      /\ job'[u].rejected = job[u].rejected
  <2>1. CASE CreatePartition(u)
    <3>1. PICK months : job' = [job EXCEPT ![u].months = months]
      BY <2>1 DEF CreatePartition
    <3> DEFINE j == [job[u] EXCEPT !.months = months]
    <3>2. /\ j.request = job[u].request /\ j.rows = job[u].rows
          /\ j.checks = job[u].checks /\ j.accepted = job[u].accepted
          /\ j.rejected = job[u].rejected
      BY <1>0 DEF Job
    <3>3. job'[u] = j
      BY <1>0, <3>1 DEF TypeInv, TypeOK
    <3> HIDE DEF j
    <3> QED
      BY <3>2, <3>3
  <2>2. CASE ~CreatePartition(u)
    BY <2>2 DEF LockMonth, EnsureSeries, LockBar
  <2> QED
    BY <2>1, <2>2
<1> QED
  BY <1>0, <1>2, <1>3, SameChecksStored

\* The clock is read for a row: it is rejected when the clock is behind its receipt.
LEMMA StampStored ==
    ASSUME VerdictInv, NEW u \in Workers, StampRow(u)
    PROVE  StoredOK(u)'
<1>0. TypeInv /\ job[u] \in Job /\ raw' = raw /\ pc[u] \in Canonicalizing
  BY DEF VerdictInv, RevisionInv, SafetyInv, TypeInv, TypeOK, StampRow, tables, Canonicalizing
<1>1. PICK i \in DOMAIN job[u].checks :
        /\ CurrentRow(u, i)
        /\ \/ /\ clock >= job[u].received_at
              /\ job' = [job EXCEPT ![u].system_available_at = clock]
              /\ pc' = [pc EXCEPT ![u] = "series"]
           \/ /\ clock < job[u].received_at
              /\ job' = [job EXCEPT ![u].checks[i] = "REJECTED", ![u].rejected = @ + 1]
              /\ pc' = [pc EXCEPT ![u] = PlaceAfterRow(u, i)]
  BY DEF StampRow
<1>2. CASE /\ job' = [job EXCEPT ![u].system_available_at = clock]
           /\ pc' = [pc EXCEPT ![u] = "series"]
  <2> DEFINE j == [job[u] EXCEPT !.system_available_at = clock]
  <2>1. /\ j.request = job[u].request /\ j.rows = job[u].rows
        /\ j.checks = job[u].checks /\ j.accepted = job[u].accepted
        /\ j.rejected = job[u].rejected
    BY <1>0 DEF Job
  <2>2. job'[u] = j /\ pc'[u] = "series"
    BY <1>0, <1>2 DEF TypeInv, TypeOK
  <2> HIDE DEF j
  <2>3. pc'[u] \in Canonicalizing \ {"finish"}
    BY <2>2 DEF Canonicalizing
  <2> QED
    BY <1>0, <2>1, <2>2, <2>3, SameChecksStored
<1>3. CASE /\ job' = [job EXCEPT ![u].checks[i] = "REJECTED", ![u].rejected = @ + 1]
           /\ pc' = [pc EXCEPT ![u] = PlaceAfterRow(u, i)]
  <2> DEFINE checks == [job[u].checks EXCEPT ![i] = "REJECTED"]
             j == [job[u] EXCEPT !.checks = checks, !.rejected = @ + 1]
  <2>1. job'[u] = j /\ pc'[u] = PlaceAfterRow(u, i)
    BY <1>0, <1>3 DEF TypeInv, TypeOK
  <2> HIDE DEF checks
  <2>2. /\ j.request = job[u].request /\ j.rows = job[u].rows
        /\ j.checks = checks /\ j.accepted = job[u].accepted
        /\ j.rejected = job[u].rejected + 1
    BY <1>0 DEF Job
  <2> HIDE DEF j
  <2>3. job'[u].checks = [job[u].checks EXCEPT ![i] = "REJECTED"]
    BY <2>1, <2>2 DEF checks
  <2> QED
    BY <1>0, <1>1, <2>1, <2>2, <2>3, VerdictStored
<1> QED
  BY <1>1, <1>2, <1>3

\* A row that was compared and perhaps written is accepted.
LEMMA AppendStored ==
    ASSUME VerdictInv, NEW u \in Workers, AppendRevision(u)
    PROVE  StoredOK(u)'
<1>0. TypeInv /\ job[u] \in Job /\ raw' = raw /\ pc[u] \in Canonicalizing
  BY DEF VerdictInv, RevisionInv, SafetyInv, TypeInv, TypeOK, AppendRevision, tables,
     Canonicalizing
<1>1. PICK i \in DOMAIN job[u].checks, new \in SUBSET Revision :
        /\ CurrentRow(u, i)
        /\ job' = [job EXCEPT ![u].revs = @ \cup new, ![u].checks[i] = "ACCEPTED",
                              ![u].accepted = @ + 1]
        /\ pc' = [pc EXCEPT ![u] = PlaceAfterRow(u, i)]
  BY <1>0, AppendShape
<1> DEFINE checks == [job[u].checks EXCEPT ![i] = "ACCEPTED"]
           revs == job[u].revs \cup new
           j == [job[u] EXCEPT !.revs = revs, !.checks = checks, !.accepted = @ + 1]
<1>2. job'[u] = j /\ pc'[u] = PlaceAfterRow(u, i)
  BY <1>0, <1>1 DEF TypeInv, TypeOK
<1> HIDE DEF checks, revs
<1>3. /\ j.request = job[u].request /\ j.rows = job[u].rows
      /\ j.checks = checks /\ j.rejected = job[u].rejected
      /\ j.accepted = job[u].accepted + 1
  BY <1>0 DEF Job
<1> HIDE DEF j
<1>4. job'[u].checks = [job[u].checks EXCEPT ![i] = "ACCEPTED"]
  BY <1>2, <1>3 DEF checks
<1> QED
  BY <1>0, <1>1, <1>2, <1>3, <1>4, VerdictStored

\* What a worker knows of its batch stays true through its own steps.
LEMMA SelfStored ==
    ASSUME VerdictInv, NEW u \in Workers, StepOf(u)
    PROVE  StoredOK(u)'
BY RequestStored, RaisersStored, FetchStored, PersistStored, FinalizersStored, ValidateStored,
   LockersStored, StampStored, AppendStored DEF StepOf, Proceed, Canonicalize

\* What a step tells a caller: nothing new, the result of a final batch, that a
\* FAILED batch kept its rows, or something that names no outcome.
Answers(u) ==
    \/ reply'[u] = reply[u]
    \/ reply'[u].kind \notin {"result", "canonicalization_error"}
    \/ \E r \in RequestIds :
          /\ reply'[u] = ResultOf(r, batch'[r])
          /\ batch'[r].status \in Terminal
    \/ \E r \in RequestIds :
          /\ reply'[u] = Told("canonicalization_error", r)
          /\ batch'[r].status = "FAILED" /\ Len(raw'[r]) > 0

\* A step answers only the caller of its worker.
LEMMA OthersNotTold ==
    ASSUME TypeInv, NEW u \in Workers, StepOf(u), NEW w \in Workers, w # u
    PROVE  reply'[w] = reply[w]
<1>0. \A answer : Return(u, answer) => reply'[w] = reply[w]
  BY DEF Return, TypeInv, TypeOK
<1>1. Raise(u) => reply'[w] = reply[w]
  BY <1>0 DEF Raise
<1>2. \A answer : CommitAndReturn(u, answer) => reply'[w] = reply[w]
  BY <1>0, <1>1 DEF CommitAndReturn
<1>3. \A place : CommitThen(u, place) => reply'[w] = reply[w]
  BY <1>1 DEF CommitThen
<1>4. CASE Request(u)
  BY <1>0, <1>4 DEF Request, CreateBatch, StartBatch, RejectRequest, ReplayResult, TypeInv, TypeOK
<1>5. CASE UnexpectedError(u) \/ FinalizeRejected(u) \/ DeadlockVictim(u) \/ Crash(u)
  BY <1>0, <1>1, <1>5 DEF UnexpectedError, FinalizeRejected, DeadlockVictim, Crash
<1>6. CASE PersistAcquisition(u) \/ PersistEmptyAcquisition(u)
  BY <1>3, <1>6 DEF PersistAcquisition, PersistEmptyAcquisition
<1>7. CASE \/ FinalizeNoData(u) \/ FinalizeExpectedFailure(u) \/ FinishBatch(u)
           \/ MarkCanonicalizationFailure(u) \/ MarkStartedFailure(u)
  BY <1>2, <1>7 DEF FinalizeNoData, FinalizeExpectedFailure, FinishBatch,
     MarkCanonicalizationFailure, MarkStartedFailure
<1>8. CASE \/ FetchAndParse(u) \/ ValidateRows(u) \/ LockMonth(u) \/ CreatePartition(u)
           \/ StampRow(u) \/ EnsureSeries(u) \/ LockBar(u) \/ AppendRevision(u)
  BY <1>8 DEF FetchAndParse, ValidateRows, LockMonth, CreatePartition, StampRow, EnsureSeries,
     LockBar, AppendRevision
<1> QED
  BY <1>4, <1>5, <1>6, <1>7, <1>8 DEF StepOf, Proceed, Canonicalize

\* What the caller of the worker is told.
LEMMA CallerTold ==
    ASSUME VerdictInv, NEW u \in Workers, StepOf(u)
    PROVE  Answers(u)
<1>0. TypeInv /\ StoredOK(u) /\ reply \in [Workers -> CallerReply]
  BY DEF VerdictInv, RevisionInv, SafetyInv, TypeInv, TypeOK
<1>1. ASSUME NEW answer, Return(u, answer)
      PROVE  reply'[u] = answer
  BY <1>0, <1>1 DEF Return
<1>2. ASSUME NEW kind \in {"conflict", "error"}, NEW q
      PROVE  Told(kind, q).kind \notin {"result", "canonicalization_error"}
  BY DEF Told, NoReply
<1>3. CASE Raise(u)
  BY <1>1, <1>2, <1>3 DEF Raise, Answers
<1>4. CASE Request(u)
  <2>1. ASSUME NEW r \in RequestIds, NEW s \in Symbols, CreateBatch(u, r, s)
        PROVE  Answers(u)
    <3>1. NoReply.kind \notin {"result", "canonicalization_error"}
      BY DEF NoReply
    <3>2. reply'[u] = NoReply \/ reply'[u] = Told("error", r)
      BY <1>0, <1>1, <2>1 DEF CreateBatch, StartBatch
    <3> QED
      BY <1>2, <3>1, <3>2 DEF Answers
  <2>2. ASSUME NEW r \in RequestIds, NEW s \in Symbols, RejectRequest(u, r, s)
        PROVE  Answers(u)
    BY <1>1, <1>2, <2>2 DEF RejectRequest, Answers
  <2>3. ASSUME NEW r \in RequestIds, NEW s \in Symbols, ReplayResult(u, r, s)
        PROVE  Answers(u)
    BY <1>1, <2>3 DEF ReplayResult, Answers, tables
  <2> QED
    BY <1>4, <2>1, <2>2, <2>3 DEF Request
<1>5. CASE UnexpectedError(u) \/ FinalizeRejected(u) \/ DeadlockVictim(u)
  BY <1>3, <1>5 DEF UnexpectedError, FinalizeRejected, DeadlockVictim
<1>6. CASE Crash(u)
  <2>1. reply'[u] = NoReply
    BY <1>1, <1>6 DEF Crash
  <2> QED
    BY <2>1 DEF Answers, NoReply
<1>7. CASE PersistAcquisition(u) \/ PersistEmptyAcquisition(u)
  BY <1>3, <1>7 DEF PersistAcquisition, PersistEmptyAcquisition, CommitThen, Answers
<1>8. CASE \/ FetchAndParse(u) \/ ValidateRows(u) \/ LockMonth(u) \/ CreatePartition(u)
           \/ StampRow(u) \/ EnsureSeries(u) \/ LockBar(u) \/ AppendRevision(u)
  BY <1>8 DEF FetchAndParse, ValidateRows, LockMonth, CreatePartition, StampRow, EnsureSeries,
     LockBar, AppendRevision, Answers
<1>9. CASE \/ FinalizeNoData(u) \/ FinalizeExpectedFailure(u) \/ FinishBatch(u)
           \/ MarkCanonicalizationFailure(u) \/ MarkStartedFailure(u)
  <2>1. PICK q \in RequestIds : q = job[u].request
    BY <1>0, <1>9 DEF FinalizeNoData, FinalizeExpectedFailure, FinishBatch,
       MarkCanonicalizationFailure, MarkStartedFailure, TypeInv, JobsOK, JobOK
  <2>2. batch'[q].status \in Terminal
    BY <1>9, <2>1, FinalizersWrite, FinishCounts
  <2>3. CASE FinalizeNoData(u) \/ FinalizeExpectedFailure(u) \/ FinishBatch(u)
    <3>1. reply'[u] = ResultOf(q, batch'[q]) \/ Raise(u)
      BY <1>1, <2>1, <2>3 DEF FinalizeNoData, FinalizeExpectedFailure, FinishBatch,
         CommitAndReturn
    <3> QED
      BY <1>3, <2>2, <3>1 DEF Answers
  <2>4. CASE MarkCanonicalizationFailure(u)
    <3>1. reply'[u] = Told("canonicalization_error", q) \/ Raise(u)
      BY <1>1, <2>1, <2>4 DEF MarkCanonicalizationFailure, CommitAndReturn
    <3>2. Len(raw[q]) > 0 /\ raw' = raw
      BY <1>0, <2>1, <2>4 DEF MarkCanonicalizationFailure, StoredOK, Acquired
    <3>3. batch'[q].status = "FAILED"
      BY <1>0, <2>1, <2>4, FinalizedFields DEF MarkCanonicalizationFailure
    <3> QED
      BY <1>3, <3>1, <3>2, <3>3 DEF Answers
  <2>5. CASE MarkStartedFailure(u)
    <3>1. reply'[u] = Told("error", q) \/ Raise(u)
      BY <1>1, <2>1, <2>5 DEF MarkStartedFailure, CommitAndReturn
    <3> QED
      BY <1>2, <1>3, <3>1 DEF Answers
  <2> QED
    BY <1>9, <2>3, <2>4, <2>5
<1> QED
  BY <1>4, <1>5, <1>6, <1>7, <1>8, <1>9 DEF StepOf, Proceed, Canonicalize

\* A reply that is true of a final batch, and of which batch.
TrueReply(answer) ==
    LET r == answer.request
    IN  /\ r \in RequestIds
        /\ answer.kind = "result" =>
              /\ batch[r].status = answer.status /\ batch[r].status \in Terminal
              /\ batch[r].accepted = answer.accepted /\ batch[r].rejected = answer.rejected
        /\ answer.kind = "canonicalization_error" =>
              batch[r].status = "FAILED" /\ Len(raw[r]) > 0

AllTrue ==
    \A w \in Workers : reply[w].kind \in {"result", "canonicalization_error"} =>
        TrueReply(reply[w])

\* A failed batch has no bars and no verdicts, so RepliesStayTrue says no more.
LEMMA TrueReplies ==
    ASSUME RevisionInv
    PROVE  (RepliesStayTrue /\ RepliesNamed) <=> AllTrue
<1>1. ASSUME NEW r \in RequestIds, batch[r].status = "FAILED"
      PROVE  /\ raw[r] # <<>> <=> Len(raw[r]) > 0
             /\ RawWith(r, "PENDING") = DOMAIN raw[r]
             /\ \A v \in revisions : v.request # r
  <2>1. raw[r] \in Seq(RawEvent)
    BY DEF RevisionInv, SafetyInv, TypeInv, TypeOK
  <2>2. raw[r] # <<>> <=> Len(raw[r]) > 0
    BY <2>1
  <2>3. RawWith(r, "PENDING") = DOMAIN raw[r]
    BY <1>1 DEF RevisionInv, NoVerdicts, RawWith
  <2>4. \A v \in revisions : v.request # r
    BY <1>1 DEF RevisionInv, SafetyInv, RevisionsPublished
  <2> QED
    BY <2>2, <2>3, <2>4
<1> QED
  BY <1>1 DEF RepliesStayTrue, ResultsStayTrue, CanonicalizationErrorIsTrue, RepliesNamed,
     AllTrue, TrueReply

\* What callers were told stays true, and what they are told now is true.
LEMMA RepliesKept ==
    ASSUME VerdictInv, AllTrue, NEW u \in Workers, StepOf(u)
    PROVE  AllTrue'
<1>0. TypeInv /\ Next
  BY DEF VerdictInv, RevisionInv, SafetyInv, Next, StepOf
<1>1. ASSUME NEW w \in Workers, reply[w].kind \in {"result", "canonicalization_error"},
             reply'[w] = reply[w]
      PROVE  TrueReply(reply[w])'
  <2>1. PICK r \in RequestIds : r = reply[w].request /\ TrueReply(reply[w])
    BY <1>1 DEF AllTrue, TrueReply
  <2>2. batch[r].status \notin {"ABSENT", "RUNNING"}
    BY <1>1, <2>1 DEF TrueReply, Terminal
  <2>3. batch'[r] = batch[r] /\ raw'[r] = raw[r]
    BY <1>0, <2>2, BatchesKept DEF BatchKept
  <2> QED
    BY <1>1, <2>1, <2>3 DEF TrueReply
<1>2. ASSUME NEW w \in Workers, reply'[w] = reply[w],
             reply'[w].kind \in {"result", "canonicalization_error"}
      PROVE  TrueReply(reply[w])'
  BY <1>1, <1>2
<1>3. ASSUME NEW r \in RequestIds, reply'[u] = ResultOf(r, batch'[r]),
             batch'[r].status \in Terminal
      PROVE  TrueReply(reply[u])'
  BY <1>3 DEF ResultOf, TrueReply
<1>4. ASSUME NEW r \in RequestIds, reply'[u] = Told("canonicalization_error", r),
             batch'[r].status = "FAILED", Len(raw'[r]) > 0
      PROVE  TrueReply(reply[u])'
  <2>1. reply'[u].kind = "canonicalization_error" /\ reply'[u].request = r
    BY <1>4 DEF Told, NoReply
  <2> QED
    BY <1>4, <2>1 DEF TrueReply
<1>5. ASSUME NEW w \in Workers, reply'[w].kind \in {"result", "canonicalization_error"}
      PROVE  TrueReply(reply[w])'
  <2>1. CASE w = u
    BY <1>2, <1>3, <1>4, <1>5, <2>1, CallerTold DEF Answers
  <2>2. CASE w # u
    BY <1>0, <1>2, <1>5, <2>2, OthersNotTold
  <2> QED
    BY <2>1, <2>2
<1> QED
  BY <1>5 DEF AllTrue

\* The invariant holds initially.
LEMMA InitVerdicts == Init => VerdictInv
<1> SUFFICES ASSUME Init PROVE VerdictInv
  OBVIOUS
<1>1. RevisionInv
  BY InitRevisions
<1>2. \A r \in RequestIds : batch[r] = NoBatch /\ raw[r] = <<>>
  BY DEF Init
<1>3. Agree(NoBatch, <<>>)
  <2>1. <<>> \in Seq(RawEvent) /\ DOMAIN <<>> = {} /\ Len(<<>>) = 0
    OBVIOUS
  <2>2. \A i \in DOMAIN <<>> : <<>>[i].status = "PENDING"
    BY <2>1
  <2>3. NoBatch.received = 0 /\ NoBatch.accepted = 0 /\ NoBatch.rejected = 0
    BY DEF NoBatch
  <2> QED
    BY <2>1, <2>2, <2>3, PendingAgrees
<1>4. CountsAgree
  BY <1>2, <1>3, AgreeIsCountsAgree
<1>5. \A w \in Workers : StoredOK(w)
  BY DEF Init, StoredOK, Unstored, Acquired, Canonicalizing
<1>6. RepliesNamed /\ RepliesStayTrue
  BY DEF Init, NoReply, RepliesNamed, RepliesStayTrue, ResultsStayTrue,
     CanonicalizationErrorIsTrue
<1>7. \A r \in RequestIds : Len(raw[r]) = 0
  BY <1>2
<1> QED
  BY <1>1, <1>4, <1>5, <1>6, <1>7 DEF VerdictInv

\* Every step preserves the invariant.
LEMMA VerdictsInductive == VerdictInv /\ [Next]_vars => VerdictInv'
<1> SUFFICES ASSUME VerdictInv, [Next]_vars PROVE VerdictInv'
  OBVIOUS
<1>1. RevisionInv /\ RevisionInv'
  BY RevisionsInductive DEF VerdictInv
<1>2. CASE UNCHANGED <<batch, raw, revisions, pc, job, reply>>
  <2>1. CountsAgree'
    BY <1>2 DEF VerdictInv, CountsAgree, RawWith
  <2>2. \A w \in Workers : StoredOK(w)'
    BY <1>2 DEF VerdictInv, StoredOK
  <2>3. RepliesNamed' /\ RepliesStayTrue'
    BY <1>2 DEF VerdictInv, RepliesNamed, RepliesStayTrue, ResultsStayTrue,
       CanonicalizationErrorIsTrue, RawWith
  <2>4. \A r \in RequestIds : batch'[r].status = "ABSENT" => Len(raw'[r]) = 0
    BY <1>2 DEF VerdictInv
  <2> QED
    BY <1>1, <2>1, <2>2, <2>3, <2>4 DEF VerdictInv
<1>3. ASSUME NEW u \in Workers, StepOf(u)
      PROVE  VerdictInv'
  <2>1. AllTrue
    BY <1>1, TrueReplies DEF VerdictInv
  <2>2. AllTrue'
    BY <1>3, <2>1, RepliesKept
  <2>3. RevisionInv' => ((RepliesStayTrue' /\ RepliesNamed') <=> AllTrue')
    BY TrueReplies, PTL
  <2>4. RepliesStayTrue' /\ RepliesNamed'
    BY <1>1, <2>2, <2>3
  <2>5. CountsAgree' /\ \A w \in Workers : StoredOK(w)'
    BY <1>3, CountsKept, SelfStored, OthersStored
  <2>6. \A r \in RequestIds : batch'[r].status = "ABSENT" => Len(raw'[r]) = 0
    BY <1>3, AbsentKept
  <2> QED
    BY <1>1, <2>4, <2>5, <2>6 DEF VerdictInv
<1>4. CASE Tick \/ StepClockBack \/ UNCHANGED vars
  BY <1>2, <1>4 DEF Tick, StepClockBack, vars, tables
<1> QED
  BY <1>3, <1>4 DEF Next, StepOf

\* The invariant holds in every state of the service.
LEMMA AlwaysAgree == Spec => []VerdictInv
BY InitVerdicts, VerdictsInductive, PTL DEF Spec

\* The header of a batch, the verdicts on its raw events and the revisions made from
\* them tell one story: counts are counts of verdicts, a failed or rolled-back
\* transaction C leaves no verdict, and a revision has its accepted raw event
\* (service.py _canonicalize, _mark_unexpected_canonicalization_failure).
THEOREM HeadersVerdictsRevisionsAgree == Spec => []VerdictsAgree
<1>1. VerdictInv => VerdictsAgree
  BY DEF VerdictInv, RevisionInv, VerdictsAgree
<1> QED
  BY <1>1, AlwaysAgree, PTL

\* What ingest() told a caller of a batch stays true, whatever other calls, faults
\* and crashes do later: a result names the final status and counts, and a
\* canonicalization error means that the rows were kept and no bar came from them.
THEOREM CallersAreToldTheTruth == Spec => []RepliesStayTrue
<1>1. VerdictInv => RepliesStayTrue
  BY DEF VerdictInv
<1> QED
  BY <1>1, AlwaysAgree, PTL

-----------------------------------------------------------------------------
(* The locks of transaction C: sorted month locks, and bar locks under them *)

\* After ensure_month_partitions.
Writing == Canonicalizing \ {"month", "partition"}

MonthOfRow(j, i) == MonthOf[j.rows[i].date]

\* Months are locked in ascending order, and a row is written only when its month is
\* locked.
MonthsOK(place, j, locks) ==
    /\ place \notin Canonicalizing => locks = {}
    /\ place = "month" => \A m \in Months :
          MonthLock(m) \in locks => \A n \in j.months : m < n
    /\ place = "partition" => \A m \in Months :
          /\ MonthLock(m) \in locks => \A n \in j.months : m <= n
          /\ m \in j.months /\ (\A n \in j.months : m <= n) => MonthLock(m) \in locks
    /\ place \in {"month", "partition"} => \A i \in DOMAIN j.checks :
          j.checks[i] = "PENDING" =>
              MonthOfRow(j, i) \in j.months \/ MonthLock(MonthOfRow(j, i)) \in locks
    /\ place \in Writing => \A i \in DOMAIN j.checks :
          j.checks[i] = "PENDING" => MonthLock(MonthOfRow(j, i)) \in locks
    /\ \A i \in Instruments, d \in Dates :
          BarLock(i, d) \in locks => MonthLock(MonthOf[d]) \in locks

MonthLocksExclusive ==
    \A u, w \in Workers : u # w =>
        \A m \in Months : ~(MonthLock(m) \in held[u] /\ MonthLock(m) \in held[w])

LockInv ==
    /\ RevisionInv
    /\ \A w \in Workers : MonthsOK(pc[w], job[w], held[w])
    /\ MonthLocksExclusive

-----------------------------------------------------------------------------
(* What a step does to the locks of its worker *)

\* A month lock is none of the other locks, and names its month.
LEMMA MonthLocksDiffer ==
    ASSUME NEW m
    PROVE  /\ \A i : MonthLock(m) # SeriesLock(i)
           /\ MonthLock(m) # TableExclusive /\ MonthLock(m) # TableShared
           /\ \A n : MonthLock(m) = MonthLock(n) => m = n
           /\ ConflictsWith(MonthLock(m)) = {MonthLock(m)}
<1>1. /\ \A i : MonthLock(m) # SeriesLock(i)
      /\ MonthLock(m) # TableExclusive /\ MonthLock(m) # TableShared
      /\ \A n : MonthLock(m) = MonthLock(n) => m = n
  BY DEF MonthLock, SeriesLock, TableExclusive, TableShared
<1>2. ConflictsWith(MonthLock(m)) = {MonthLock(m)}
  BY <1>1 DEF ConflictsWith
<1> QED
  BY <1>1, <1>2

\* A step after which worker u has locked no month that it had not, ...
NoNewMonths(u) ==
    \A m \in Months : MonthLock(m) \in held'[u] => MonthLock(m) \in held[u]

\* ... or only one that nobody else has.
MonthsFree(u) ==
    \A m \in Months : MonthLock(m) \in held'[u] =>
        \/ MonthLock(m) \in held[u]
        \/ \A w \in Workers : w # u => MonthLock(m) \notin held[w]

\* The end of transaction C, or a step outside of it, leaves no lock.
LEMMA OutsideUnlocked ==
    ASSUME LockInv, NEW u \in Workers,
           \/ Request(u) \/ UnexpectedError(u) \/ Crash(u)
           \/ FetchAndParse(u) \/ PersistAcquisition(u) \/ PersistEmptyAcquisition(u)
           \/ FinalizeNoData(u) \/ FinalizeExpectedFailure(u) \/ FinishBatch(u)
           \/ MarkCanonicalizationFailure(u) \/ MarkStartedFailure(u)
           \/ FinalizeRejected(u) \/ DeadlockVictim(u)
    PROVE  Still(u) /\ MonthsOK(pc'[u], job'[u], held'[u]) /\ NoNewMonths(u)
<1>0. TypeInv /\ RowsDistinct(job[u].rows)
  BY DEF LockInv, RevisionInv, SafetyInv, RowsOK
<1>1. Still(u) /\ Outside(u)
  BY <1>0, StepsOutside
<1>2. held'[u] = {}
  <2>1. CASE pc[u] \notin Canonicalizing
    <3>1. held[u] = {}
      BY <2>1 DEF LockInv, MonthsOK
    <3> QED
      BY <1>1, <3>1 DEF Outside
  <2>2. CASE pc[u] \in Canonicalizing
    <3>1. \/ UnexpectedError(u) \/ Crash(u) \/ FinishBatch(u)
          \/ FinalizeRejected(u) \/ DeadlockVictim(u)
      BY <2>2 DEF Request, CreateBatch, RejectRequest, ReplayResult, FetchAndParse,
         PersistAcquisition, PersistEmptyAcquisition, FinalizeNoData, FinalizeExpectedFailure,
         MarkCanonicalizationFailure, MarkStartedFailure, Canonicalizing
    <3>2. held' = [held EXCEPT ![u] = {}]
      BY <3>1 DEF UnexpectedError, Crash, FinishBatch, FinalizeRejected, DeadlockVictim, Raise,
         CommitAndReturn
    <3> QED
      BY <1>0, <3>2 DEF TypeInv, TypeOK
  <2> QED
    BY <2>1, <2>2
<1>3. MonthsOK(pc'[u], job'[u], held'[u])
  BY <1>1, <1>2 DEF Outside, MonthsOK, Writing, Canonicalizing
<1> QED
  BY <1>1, <1>2, <1>3 DEF NoNewMonths

\* The first loop of _canonicalize: the month of every row that is left is to be locked.
LEMMA ValidateMonths ==
    ASSUME LockInv, NEW u \in Workers, ValidateRows(u)
    PROVE  MonthsOK(pc'[u], job'[u], held'[u]) /\ NoNewMonths(u)
<1> DEFINE rows == job[u].rows
           checks == [i \in DOMAIN rows |-> RowCheck(job[u], i)]
           months == {MonthOf[rows[i].date] : i \in RowsChecked(checks, "PENDING")}
           accepted == Cardinality(RowsChecked(checks, "ACCEPTED"))
           rejected == Cardinality(RowsChecked(checks, "REJECTED"))
           j == [job[u] EXCEPT !.checks = checks, !.months = months,
                   !.accepted = accepted, !.rejected = rejected]
           p == IF months = {} THEN "finish" ELSE "month"
<1>0. /\ TypeInv /\ job[u] \in Job /\ pc[u] = "validate" /\ UNCHANGED held
      /\ MonthsOK(pc[u], job[u], held[u])
  BY DEF LockInv, RevisionInv, SafetyInv, TypeInv, TypeOK, ValidateRows
<1>1. held[u] = {}
  BY <1>0 DEF MonthsOK, Canonicalizing
<1>2. job' = [job EXCEPT ![u] = j] /\ pc' = [pc EXCEPT ![u] = p]
  BY <1>0 DEF ValidateRows, TypeInv, TypeOK
<1>3. \A i \in DOMAIN checks : checks[i] = "PENDING" => MonthOf[rows[i].date] \in months
  BY DEF RowsChecked
<1>4. (p = "finish" /\ months = {}) \/ p = "month"
  OBVIOUS
<1> HIDE DEF checks, months
<1>5. j.rows = rows /\ j.checks = checks /\ j.months = months
  BY <1>0 DEF Job
<1> HIDE DEF j, p
<1>6. job'[u] = j /\ pc'[u] = p /\ held'[u] = {}
  BY <1>0, <1>1, <1>2 DEF TypeInv, TypeOK
<1>7. MonthsOK(p, j, {})
  BY <1>3, <1>4, <1>5 DEF MonthsOK, MonthOfRow, Canonicalizing, Writing
<1> QED
  BY <1>6, <1>7 DEF NoNewMonths

\* ensure_month_partitions, the lock: the least month that is left is above all locked
\* ones.
LEMMA LockMonthOrdered ==
    ASSUME LockInv, NEW u \in Workers, LockMonth(u)
    PROVE  MonthsOK(pc'[u], job'[u], held'[u]) /\ MonthsFree(u)
<1>0. /\ TypeInv /\ job[u] \in Job /\ pc[u] = "month" /\ UNCHANGED job
      /\ pc' = [pc EXCEPT ![u] = "partition"] /\ MonthsOK("month", job[u], held[u])
  BY DEF LockInv, RevisionInv, SafetyInv, TypeInv, TypeOK, LockMonth
<1>1. PICK m \in Months : NextMonth(u, m) /\ Acquire(u, MonthLock(m))
  BY DEF LockMonth
<1>2. /\ pc'[u] = "partition" /\ job'[u] = job[u]
      /\ held'[u] = held[u] \cup {MonthLock(m)}
      /\ \A w \in Workers : w # u => MonthLock(m) \notin held[w]
  BY <1>0, <1>1, MonthLocksDiffer DEF Acquire, CanLock, TypeInv, TypeOK
<1> DEFINE locks == held[u] \cup {MonthLock(m)}
           months == job[u].months
<1>3. m \in months /\ (\A n \in months : m <= n) /\ months \subseteq Months /\ Months \subseteq Int
  BY <1>0, <1>1, ConstantTypes DEF NextMonth, Job
<1>4. ASSUME NEW k \in Months, MonthLock(k) \in locks, NEW n \in months
      PROVE  k <= n
  <2>1. CASE k = m
    BY <1>3, <2>1
  <2>2. CASE k # m
    <3>1. MonthLock(k) \in held[u]
      BY <1>4, <2>2, MonthLocksDiffer
    <3>2. k < n
      BY <1>0, <3>1 DEF MonthsOK
    <3>3. k \in Int /\ n \in Int
      BY <1>3
    <3> QED
      BY <3>2, <3>3
  <2> QED
    BY <2>1, <2>2
<1>5. ASSUME NEW k \in months, \A n \in months : k <= n
      PROVE  MonthLock(k) \in locks
  <2>1. k = m
    <3>1. k \in Int /\ m \in Int /\ k <= m /\ m <= k
      BY <1>3, <1>5
    <3> QED
      BY <3>1
  <2> QED
    BY <2>1
<1>6. \A i \in DOMAIN job[u].checks : job[u].checks[i] = "PENDING" =>
         MonthOfRow(job[u], i) \in months \/ MonthLock(MonthOfRow(job[u], i)) \in locks
  BY <1>0 DEF MonthsOK
<1>7. \A i \in Instruments, d \in Dates :
         BarLock(i, d) \in locks => MonthLock(MonthOf[d]) \in locks
  BY <1>0, BarLocksDiffer DEF MonthsOK
<1>8. MonthsOK("partition", job[u], locks)
  <2> HIDE DEF locks
  <2> QED
    BY <1>4, <1>5, <1>6, <1>7 DEF MonthsOK, Canonicalizing, Writing
<1>9. MonthsFree(u)
  BY <1>2, MonthLocksDiffer DEF MonthsFree
<1> QED
  BY <1>2, <1>8, <1>9

\* ensure_month_partitions, the partition: the month is done, what is left is above it.
LEMMA PartitionOrdered ==
    ASSUME LockInv, NEW u \in Workers, CreatePartition(u)
    PROVE  MonthsOK(pc'[u], job'[u], held'[u]) /\ NoNewMonths(u)
<1>0. /\ TypeInv /\ job[u] \in Job /\ pc[u] = "partition"
      /\ MonthsOK("partition", job[u], held[u])
  BY DEF LockInv, RevisionInv, SafetyInv, TypeInv, TypeOK, CreatePartition
<1>1. PICK m \in Months :
          /\ NextMonth(u, m)
          /\ \/ m \in partitions /\ UNCHANGED held
             \/ m \notin partitions /\ Acquire(u, TableExclusive)
          /\ job' = [job EXCEPT ![u].months = @ \ {m}]
          /\ pc' = [pc EXCEPT ![u] = IF job[u].months = {m} THEN "stamp" ELSE "month"]
  BY DEF CreatePartition
<1> DEFINE months == job[u].months
           j == [job[u] EXCEPT !.months = @ \ {m}]
           p == IF months = {m} THEN "stamp" ELSE "month"
<1>2. /\ m \in months /\ (\A n \in months : m <= n) /\ months \subseteq Months
      /\ Months \subseteq Int
  BY <1>0, <1>1, ConstantTypes DEF NextMonth, Job
<1>3. j.rows = job[u].rows /\ j.checks = job[u].checks /\ j.months = months \ {m}
  BY <1>0 DEF Job
<1>4. job'[u] = j /\ pc'[u] = p
  BY <1>0, <1>1 DEF TypeInv, TypeOK
<1>5. (p = "stamp" /\ months = {m}) \/ p = "month"
  OBVIOUS
<1> HIDE DEF j, p
<1>6. held'[u] = held[u] \/ held'[u] = held[u] \cup {TableExclusive}
  BY <1>0, <1>1 DEF Acquire, TypeInv, TypeOK
<1>7. /\ \A k : MonthLock(k) \in held'[u] <=> MonthLock(k) \in held[u]
      /\ \A i, d : BarLock(i, d) \in held'[u] <=> BarLock(i, d) \in held[u]
  BY <1>6, MonthLocksDiffer, BarLocksDiffer
<1>8. MonthLock(m) \in held[u]
  BY <1>0, <1>2 DEF MonthsOK
<1>9. ASSUME NEW k \in Months, MonthLock(k) \in held[u], NEW n \in months \ {m}
      PROVE  k < n
  <2>1. k <= m /\ m <= n /\ m # n
    BY <1>0, <1>2, <1>9 DEF MonthsOK
  <2> QED
    BY <1>2, <2>1
<1>10. \A i \in DOMAIN j.checks : j.checks[i] = "PENDING" =>
          MonthOfRow(j, i) \in months \ {m} \/ MonthLock(MonthOfRow(j, i)) \in held[u]
  BY <1>0, <1>3, <1>8 DEF MonthsOK, MonthOfRow
<1>11. \A i \in Instruments, d \in Dates :
          BarLock(i, d) \in held[u] => MonthLock(MonthOf[d]) \in held[u]
  BY <1>0 DEF MonthsOK
<1>12. MonthsOK(p, j, held'[u])
  BY <1>3, <1>5, <1>7, <1>9, <1>10, <1>11 DEF MonthsOK, Canonicalizing, Writing
<1> QED
  BY <1>4, <1>7, <1>12 DEF NoNewMonths

\* A step of the second loop: rows, and the months of the rows that are left, stay.
LEMMA WritingStep ==
    ASSUME LockInv, NEW u \in Workers, pc[u] \in Writing, pc'[u] \in Writing,
           job'[u].rows = job[u].rows,
           DOMAIN job'[u].checks = DOMAIN job[u].checks,
           \A i \in DOMAIN job[u].checks :
              job'[u].checks[i] = "PENDING" => job[u].checks[i] = "PENDING",
           held[u] \subseteq held'[u],
           \A i \in Instruments, d \in Dates : BarLock(i, d) \in held'[u] =>
              BarLock(i, d) \in held[u] \/ MonthLock(MonthOf[d]) \in held[u]
    PROVE  MonthsOK(pc'[u], job'[u], held'[u])
<1>1. MonthsOK(pc[u], job[u], held[u])
  BY DEF LockInv
<1>2. \A i \in DOMAIN job'[u].checks :
         job'[u].checks[i] = "PENDING" => MonthLock(MonthOfRow(job'[u], i)) \in held'[u]
  BY <1>1 DEF MonthsOK, MonthOfRow
<1>3. \A i \in Instruments, d \in Dates :
         BarLock(i, d) \in held'[u] => MonthLock(MonthOf[d]) \in held'[u]
  BY <1>1 DEF MonthsOK
<1>4. pc'[u] \in Canonicalizing /\ pc'[u] \notin {"month", "partition"}
  BY DEF Writing
<1> QED
  BY <1>2, <1>3, <1>4 DEF MonthsOK

\* get_or_create_daily_raw_series, and the lock on a bar: its month is locked.
LEMMA RowLocksOrdered ==
    ASSUME LockInv, NEW u \in Workers, EnsureSeries(u) \/ LockBar(u)
    PROVE  MonthsOK(pc'[u], job'[u], held'[u]) /\ NoNewMonths(u)
<1>0. /\ TypeInv /\ job[u] \in Job /\ pc[u] \in Writing /\ UNCHANGED job
      /\ MonthsOK(pc[u], job[u], held[u])
  BY DEF LockInv, RevisionInv, SafetyInv, TypeInv, TypeOK, EnsureSeries, LockBar, Writing,
     Canonicalizing
<1>1. pc'[u] \in Writing
  BY <1>0 DEF EnsureSeries, LockBar, TypeInv, TypeOK, Writing, Canonicalizing
<1>2. CASE EnsureSeries(u)
  <2>1. held'[u] = held[u] \/ \E i : held'[u] = held[u] \cup {SeriesLock(i)}
    BY <1>0, <1>2 DEF EnsureSeries, Acquire, TypeInv, TypeOK
  <2>2. /\ held[u] \subseteq held'[u]
        /\ \A i, d : BarLock(i, d) \in held'[u] => BarLock(i, d) \in held[u]
        /\ \A m : MonthLock(m) \in held'[u] => MonthLock(m) \in held[u]
    BY <2>1, BarLocksDiffer, MonthLocksDiffer
  <2>3. MonthsOK(pc'[u], job'[u], held'[u])
    BY <1>0, <1>1, <2>2, WritingStep
  <2> QED
    BY <2>2, <2>3 DEF NoNewMonths
<1>3. CASE LockBar(u)
  <2>1. PICK i \in DOMAIN job[u].checks :
           CurrentRow(u, i) /\ Acquire(u, BarLock(InstrumentOf(job[u], i), job[u].rows[i].date))
    BY <1>3 DEF LockBar
  <2>2. held'[u] = held[u] \cup {BarLock(InstrumentOf(job[u], i), job[u].rows[i].date)}
    BY <1>0, <2>1 DEF Acquire, TypeInv, TypeOK
  <2>3. MonthLock(MonthOf[job[u].rows[i].date]) \in held[u]
    BY <1>0, <2>1 DEF MonthsOK, MonthOfRow, CurrentRow, RowsChecked
  <2>4. /\ held[u] \subseteq held'[u]
        /\ \A k, d : BarLock(k, d) \in held'[u] =>
              BarLock(k, d) \in held[u] \/ d = job[u].rows[i].date
        /\ \A m : MonthLock(m) \in held'[u] => MonthLock(m) \in held[u]
    BY <2>2, BarLocksDiffer, MonthLocksDiffer
  <2>5. \A k \in Instruments, d \in Dates : BarLock(k, d) \in held'[u] =>
           BarLock(k, d) \in held[u] \/ MonthLock(MonthOf[d]) \in held[u]
    BY <2>3, <2>4
  <2>6. MonthsOK(pc'[u], job'[u], held'[u])
    BY <1>0, <1>1, <2>4, <2>5, WritingStep
  <2> QED
    BY <2>4, <2>6 DEF NoNewMonths
<1> QED
  BY <1>2, <1>3

\* The stamp of a row and the revision: a row gets its verdict, no month is locked.
LEMMA RowVerdictsOrdered ==
    ASSUME LockInv, NEW u \in Workers, StampRow(u) \/ AppendRevision(u)
    PROVE  MonthsOK(pc'[u], job'[u], held'[u]) /\ NoNewMonths(u)
<1>0. TypeInv /\ job[u] \in Job /\ pc[u] \in Writing /\ job[u].checks \in Seq(ValidationStatus)
  BY DEF LockInv, RevisionInv, SafetyInv, TypeInv, TypeOK, StampRow, AppendRevision, Writing,
     Canonicalizing, Job
<1>1. held'[u] = held[u] \/ held'[u] = held[u] \cup {TableShared}
  BY <1>0 DEF StampRow, AppendRevision, Acquire, TypeInv, TypeOK
<1>2. /\ held[u] \subseteq held'[u]
      /\ \A k, d : BarLock(k, d) \in held'[u] => BarLock(k, d) \in held[u]
      /\ \A m : MonthLock(m) \in held'[u] => MonthLock(m) \in held[u]
  BY <1>1, BarLocksDiffer, MonthLocksDiffer
<1>3. ASSUME NEW i \in DOMAIN job[u].checks, NEW status \in {"ACCEPTED", "REJECTED"},
             NEW j, job'[u] = j, j.rows = job[u].rows,
             j.checks = [job[u].checks EXCEPT ![i] = status]
      PROVE  /\ job'[u].rows = job[u].rows
             /\ DOMAIN job'[u].checks = DOMAIN job[u].checks
             /\ \A k \in DOMAIN job[u].checks :
                   job'[u].checks[k] = "PENDING" => job[u].checks[k] = "PENDING"
  BY <1>0, <1>3
<1>4. /\ pc'[u] \in Writing /\ job'[u].rows = job[u].rows
      /\ DOMAIN job'[u].checks = DOMAIN job[u].checks
      /\ \A k \in DOMAIN job[u].checks :
            job'[u].checks[k] = "PENDING" => job[u].checks[k] = "PENDING"
  <2>1. CASE StampRow(u)
    <3>1. PICK i \in DOMAIN job[u].checks :
             \/ /\ job' = [job EXCEPT ![u].system_available_at = clock]
                /\ pc' = [pc EXCEPT ![u] = "series"]
             \/ /\ job' = [job EXCEPT ![u].checks[i] = "REJECTED", ![u].rejected = @ + 1]
                /\ pc' = [pc EXCEPT ![u] = PlaceAfterRow(u, i)]
      BY <2>1 DEF StampRow
    <3>2. pc'[u] \in Writing
      BY <1>0, <3>1 DEF TypeInv, TypeOK, PlaceAfterRow, Writing, Canonicalizing
    <3>3. CASE job' = [job EXCEPT ![u].system_available_at = clock]
      BY <1>0, <3>2, <3>3 DEF TypeInv, TypeOK, Job
    <3>4. CASE job' = [job EXCEPT ![u].checks[i] = "REJECTED", ![u].rejected = @ + 1]
      <4> DEFINE checks == [job[u].checks EXCEPT ![i] = "REJECTED"]
                 j == [job[u] EXCEPT !.checks = checks, !.rejected = @ + 1]
      <4>1. job'[u] = j
        BY <1>0, <3>4 DEF TypeInv, TypeOK
      <4> HIDE DEF checks
      <4>2. j.rows = job[u].rows /\ j.checks = checks
        BY <1>0 DEF Job
      <4> HIDE DEF j
      <4> QED
        BY <1>3, <3>2, <4>1, <4>2 DEF checks
    <3> QED
      BY <3>1, <3>3, <3>4
  <2>2. CASE AppendRevision(u)
    <3>1. PICK i \in DOMAIN job[u].checks, new \in SUBSET Revision :
             /\ job' = [job EXCEPT ![u].revs = @ \cup new, ![u].checks[i] = "ACCEPTED",
                                   ![u].accepted = @ + 1]
             /\ pc' = [pc EXCEPT ![u] = PlaceAfterRow(u, i)]
      BY <1>0, <2>2, AppendShape
    <3>2. pc'[u] \in Writing
      BY <1>0, <3>1 DEF TypeInv, TypeOK, PlaceAfterRow, Writing, Canonicalizing
    <3> DEFINE checks == [job[u].checks EXCEPT ![i] = "ACCEPTED"]
               revs == job[u].revs \cup new
               j == [job[u] EXCEPT !.revs = revs, !.checks = checks, !.accepted = @ + 1]
    <3>3. job'[u] = j
      BY <1>0, <3>1 DEF TypeInv, TypeOK
    <3> HIDE DEF checks, revs
    <3>4. j.rows = job[u].rows /\ j.checks = checks
      BY <1>0 DEF Job
    <3> HIDE DEF j
    <3> QED
      BY <1>3, <3>2, <3>3, <3>4 DEF checks
  <2> QED
    BY <2>1, <2>2
<1>5. MonthsOK(pc'[u], job'[u], held'[u])
  BY <1>0, <1>2, <1>4, WritingStep
<1> QED
  BY <1>2, <1>5 DEF NoNewMonths

\* The invariant holds initially.
LEMMA InitLocks == Init => LockInv
<1> SUFFICES ASSUME Init PROVE LockInv
  OBVIOUS
<1>1. RevisionInv
  BY InitRevisions
<1>2. \A w \in Workers : pc[w] = "idle" /\ held[w] = {}
  BY DEF Init
<1>3. \A w \in Workers : MonthsOK(pc[w], job[w], held[w])
  BY <1>2 DEF MonthsOK, Writing, Canonicalizing
<1>4. MonthLocksExclusive
  BY <1>2 DEF MonthLocksExclusive
<1> QED
  BY <1>1, <1>3, <1>4 DEF LockInv

\* Every step preserves the invariant.
LEMMA LocksInductive == LockInv /\ [Next]_vars => LockInv'
<1> SUFFICES ASSUME LockInv, [Next]_vars PROVE LockInv'
  OBVIOUS
<1>1. RevisionInv /\ RevisionInv'
  BY RevisionsInductive DEF LockInv
<1>2. CASE UNCHANGED <<held, pc, job>>
  BY <1>1, <1>2 DEF LockInv, MonthLocksExclusive
<1>3. ASSUME NEW u \in Workers, StepOf(u)
      PROVE  LockInv'
  <2>1. Still(u)
    BY <1>1, <1>3, StepOK
  <2>2. NoNewMonths(u) => MonthsFree(u)
    BY DEF NoNewMonths, MonthsFree
  <2>3. MonthsOK(pc'[u], job'[u], held'[u]) /\ MonthsFree(u)
    BY <1>3, <2>2, OutsideUnlocked, ValidateMonths, LockMonthOrdered, PartitionOrdered,
       RowLocksOrdered, RowVerdictsOrdered DEF StepOf, Proceed, Canonicalize
  <2>4. \A w \in Workers : MonthsOK(pc'[w], job'[w], held'[w])
    BY <2>1, <2>3 DEF Still, LockInv
  <2>5. MonthLocksExclusive'
    BY <2>1, <2>3 DEF Still, MonthsFree, LockInv, MonthLocksExclusive
  <2> QED
    BY <1>1, <2>4, <2>5 DEF LockInv
<1>4. CASE Tick \/ StepClockBack \/ UNCHANGED vars
  BY <1>2, <1>4 DEF Tick, StepClockBack, vars, tables
<1> QED
  BY <1>3, <1>4 DEF Next, StepOf

-----------------------------------------------------------------------------
(* Deadlocks *)

\* A worker that waits for another, and for neither the table nor a series, waits for
\* a month: whoever holds a bar holds its month, and so does whoever wants it.
LEMMA WaitersWantMonths ==
    ASSUME LockInv, NEW u \in Workers, NEW v \in Workers, WaitsFor(u, v),
           Wants(u) \cap ({TableExclusive, TableShared}
                            \cup {SeriesLock(i) : i \in Instruments}) = {}
    PROVE  /\ pc[u] = "month"
           /\ \E m \in Months : NextMonth(u, m) /\ MonthLock(m) \in held[v]
<1>0. TypeInv /\ u # v /\ MonthsOK(pc[u], job[u], held[u]) /\ MonthsOK(pc[v], job[v], held[v])
  BY DEF LockInv, RevisionInv, SafetyInv, WaitsFor
<1>1. PICK lock \in Wants(u) : held[v] \cap ConflictsWith(lock) # {}
  BY DEF WaitsFor
<1>2. /\ lock # TableExclusive /\ lock # TableShared
      /\ \A i \in Instruments : lock # SeriesLock(i)
  BY <1>1
<1>3. CASE pc[u] = "month"
  <2>1. PICK m \in Months : NextMonth(u, m) /\ lock = MonthLock(m)
    BY <1>1, <1>3 DEF Wants
  <2>2. MonthLock(m) \in held[v]
    BY <1>1, <2>1, MonthLocksDiffer
  <2> QED
    BY <1>3, <2>1, <2>2
<1>4. CASE pc[u] = "bar"
  <2>1. PICK i \in DOMAIN job[u].checks :
           CurrentRow(u, i) /\ lock = BarLock(InstrumentOf(job[u], i), job[u].rows[i].date)
    BY <1>1, <1>4 DEF Wants
  <2>2. PICK d \in Dates, k \in Instruments :
           d = job[u].rows[i].date /\ k = InstrumentOf(job[u], i)
    <3>1. pc[u] \in Canonicalizing
      BY <1>4 DEF Canonicalizing
    <3> QED
      BY <1>0, <2>1, <3>1, CurrentRowTyped DEF RowResolved
  <2>3. BarLock(k, d) \in held[v]
    BY <1>1, <2>1, <2>2, BarLocksDiffer
  <2>4. MonthLock(MonthOf[d]) \in held[v]
    BY <1>0, <2>3 DEF MonthsOK
  <2>5. MonthLock(MonthOf[d]) \in held[u]
    BY <1>0, <1>4, <2>1, <2>2 DEF MonthsOK, MonthOfRow, CurrentRow, RowsChecked, Writing,
       Canonicalizing
  <2>6. MonthOf[d] \in Months
    BY ConstantTypes
  <2> QED
    BY <1>0, <2>4, <2>5, <2>6 DEF LockInv, MonthLocksExclusive
<1>5. CASE pc[u] = "series"
  <2>1. PICK i \in DOMAIN job[u].checks :
           CurrentRow(u, i) /\ lock = SeriesLock(InstrumentOf(job[u], i))
    BY <1>1, <1>5 DEF Wants
  <2>2. InstrumentOf(job[u], i) \in Instruments
    <3>1. pc[u] \in Canonicalizing
      BY <1>5 DEF Canonicalizing
    <3> QED
      BY <1>0, <2>1, <3>1, CurrentRowTyped
  <2> QED
    BY <1>2, <2>1, <2>2
<1>6. CASE pc[u] \notin {"month", "bar", "series"}
  <2>1. lock \in {TableExclusive, TableShared}
    BY <1>1, <1>6 DEF Wants
  <2> QED
    BY <1>2, <2>1
<1> QED
  BY <1>3, <1>4, <1>5, <1>6

\* A finite group has a member with the greatest number: those above it are fewest.
LEMMA SomeoneIsHighest ==
    ASSUME NEW group \in SUBSET Workers, group # {}, NEW want \in [group -> Int]
    PROVE  \E u \in group : \A v \in group : ~(want[u] < want[v])
<1> DEFINE R == StrictSubsetOrdering(Workers)
           Above(u) == {x \in group : want[u] < want[x]}
           T == {Above(u) : u \in group}
<1>1. IsWellFoundedOn(R, SUBSET Workers)
  BY WorkersFinite, FS_StrictSubsetOrderingWellFounded, FS_FiniteSubsetsOfFinite
<1>2. T \subseteq SUBSET Workers /\ T # {}
  <2>1. \A u \in group : Above(u) \in SUBSET Workers
    OBVIOUS
  <2>2. PICK x : x \in group
    OBVIOUS
  <2> HIDE DEF Above
  <2>3. Above(x) \in T
    BY <2>2
  <2> QED
    BY <2>1, <2>3
<1>3. PICK X \in T : \A Y \in T : <<Y, X>> \notin R
  <2> HIDE DEF T, R
  <2> QED
    BY <1>1, <1>2, WFMin
<1>4. PICK u \in group : X = Above(u)
  OBVIOUS
<1>5. ASSUME NEW v \in group, want[u] < want[v]
      PROVE  FALSE
  <2>1. Above(v) \subseteq Above(u)
    BY <1>5
  <2>2. v \in Above(u) /\ v \notin Above(v)
    BY <1>5
  <2>3. Above(v) \in T /\ Above(u) \subseteq Workers
    OBVIOUS
  <2> HIDE DEF Above
  <2>4. <<Above(v), Above(u)>> \in R
    BY <2>1, <2>2, <2>3 DEF StrictSubsetOrdering
  <2> QED
    BY <1>3, <1>4, <2>3, <2>4
<1> QED
  BY <1>5

\* In a group that waits for months only, whoever holds the wanted month wants a later
\* one; a finite group cannot.
LEMMA NoCycleOfMonths ==
    ASSUME LockInv, NEW group \in SUBSET Workers, Deadlocked(group)
    PROVE  \E u \in group : Wants(u) \cap ({TableExclusive, TableShared}
                                \cup {SeriesLock(i) : i \in Instruments}) # {}
<1> SUFFICES ASSUME \A u \in group : Wants(u) \cap ({TableExclusive, TableShared}
                                        \cup {SeriesLock(i) : i \in Instruments}) = {}
             PROVE  FALSE
  OBVIOUS
<1>1. \A u \in group : \E v \in group :
         /\ pc[u] = "month"
         /\ \E m \in Months : NextMonth(u, m) /\ MonthLock(m) \in held[v]
  BY WaitersWantMonths DEF Deadlocked
<1> DEFINE want == [u \in group |-> CHOOSE m \in Months : NextMonth(u, m)]
<1>2. \A u \in group : want[u] \in Months /\ NextMonth(u, want[u])
  BY <1>1
<1>3. want \in [group -> Int]
  BY <1>2, ConstantTypes
<1> HIDE DEF want
<1>4. PICK u \in group : \A v \in group : ~(want[u] < want[v])
  <2>1. group # {}
    BY DEF Deadlocked
  <2> QED
    BY <1>3, <2>1, SomeoneIsHighest
<1>5. PICK v \in group, m \in Months : NextMonth(u, m) /\ MonthLock(m) \in held[v]
  BY <1>1
<1>6. m = want[u]
  <2>1. m \in Int /\ want[u] \in Int
    BY <1>3, ConstantTypes
  <2>2. m <= want[u] /\ want[u] <= m
    BY <1>2, <1>5 DEF NextMonth
  <2> QED
    BY <2>1, <2>2
<1>7. want[u] < want[v]
  <2>1. MonthsOK("month", job[v], held[v])
    BY <1>1 DEF LockInv
  <2>2. want[v] \in job[v].months
    BY <1>2 DEF NextMonth
  <2> QED
    BY <1>5, <1>6, <2>1, <2>2 DEF MonthsOK
<1> QED
  BY <1>4, <1>7

\* The locks of months and bars never form a cycle of their own: every deadlock of
\* transaction C, of any number of workers, has one in it that waits for the table
\* bar_revision or for a series that another transaction is creating
\* (ensure_month_partitions, append_revision_if_changed).
THEOREM SortedLocksAreSafe == Spec => []SortedLocksNeverDeadlock
<1>1. LockInv => SortedLocksNeverDeadlock
  BY NoCycleOfMonths DEF SortedLocksNeverDeadlock
<1> QED
  BY <1>1, InitLocks, LocksInductive, PTL DEF Spec
=============================================================================
