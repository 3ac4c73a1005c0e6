------------------------ MODULE CalendarImport_proofs ------------------------
(***************************************************************************)
(* Proofs about CalendarImport, for every set of calls, requests, dates    *)
(* and calendars and for every bound on failures.                          *)
(***************************************************************************)
EXTENDS CalendarImport, FiniteSetTheorems, WellFoundedInduction, TLAPS

-----------------------------------------------------------------------------
(* The dates of a manifest are taken in order: there is always a next one *)

\* Every nonempty set of natural numbers has a least element.  The sets of numbers
\* below its members are finite, and strict inclusion of finite sets is well-founded.
LEMMA LeastNatural ==
    ASSUME NEW S, S \subseteq Nat, S # {}
    PROVE  \E d \in S : \A other \in S : d <= other
<1>1. PICK n \in S : TRUE
  OBVIOUS
<1> DEFINE F == 0..n
           Below(x) == {k \in F : k < x}
           T == {Below(x) : x \in S \cap F}
           R == StrictSubsetOrdering(F)
<1>2. IsWellFoundedOn(R, SUBSET F)
  <2>1. IsFiniteSet(F)
    BY FS_Interval
  <2> QED
    BY <2>1, FS_StrictSubsetOrderingWellFounded, FS_FiniteSubsetsOfFinite
<1>3. T \subseteq SUBSET F
  OBVIOUS
<1>4. T # {}
  <2>1. n \in S \cap F
    OBVIOUS
  <2> QED
    BY <2>1
<1>5. PICK U \in T : \A V \in T : <<V, U>> \notin R
  <2> HIDE DEF T, R, F
  <2> QED
    BY <1>2, <1>3, <1>4, WFMin
<1>6. PICK d \in S \cap F : U = Below(d)
  OBVIOUS
<1>7. ASSUME NEW e \in S, e < d
      PROVE  FALSE
  <2>1. e \in F /\ e \in Below(d) /\ e \notin Below(e) /\ Below(e) \subseteq Below(d)
    BY <1>7
  <2>2. Below(e) \in T
    BY <2>1
  <2>3. <<Below(e), U>> \in R
    BY <2>1, <1>6 DEF StrictSubsetOrdering
  <2> QED
    BY <1>5, <2>2, <2>3
<1> QED
  BY <1>7

-----------------------------------------------------------------------------
(* The inductive invariant *)

\* Between transaction A and its end a call is the owner of a RUNNING batch.
Owning == {"record", "lock", "ensure", "fail"}

OwnsItsBatch(c) ==
    /\ pc[c] \in Owning => batch[Request(c)] = [status |-> "RUNNING", owner |-> c]
    /\ pc[c] \in {"lock", "ensure", "fail"} => Request(c) \in evidence

\* What transaction C has ensured is in the calendar as stated or, if the call has
\* inserted it, not there yet; every stated date stays locked meanwhile.
EnsuredUnderLock(c) ==
    /\ pc[c] \notin {"ensure", "fail", "done"} => done[c] = {}
    /\ pc[c] = "ensure" =>
          /\ DOMAIN Stated(c) \subseteq locks[c]
          /\ done[c] \subseteq DOMAIN Stated(c)
          /\ \A d \in done[c] :
                session[d] = IF d \in pending[c] THEN None ELSE Stated(c)[d]

\* A batch is of the request of its owner, which has left transaction A.
BatchesAreOwned ==
    \A r \in Requests : batch[r] # None =>
        /\ pc[batch[r].owner] \notin {"idle", "begin"}
        /\ Request(batch[r].owner) = r

LocksAreExclusive ==
    \A c, e \in Callers : c # e => locks[c] \cap locks[e] = {}

ImportInv ==
    /\ TypeOK
    /\ \A c \in Callers : OwnsItsBatch(c) /\ EnsuredUnderLock(c)
    /\ BatchesAreOwned
    /\ LocksAreExclusive
    /\ CalendarIsWhatSucceeded

-----------------------------------------------------------------------------
(* Lemmas *)

\* A calendar states sessions of dates.
LEMMA StatedSessions ==
    ASSUME TypeOK, NEW c \in Callers, pc[c] # "idle"
    PROVE  /\ doc[c] \in Document
           /\ Request(c) \in Requests
           /\ DOMAIN Stated(c) \subseteq Dates
           /\ \A d \in DOMAIN Stated(c) : Stated(c)[d] \in Sessions
<1>1. doc[c] \in Document
  BY CalendarConstants DEF TypeOK
<1>2. ValidCalendar(doc[c].calendar)
  BY <1>1, CalendarConstants DEF Document
<1>3. DOMAIN Stated(c) \subseteq Dates
  BY <1>2, CalendarConstants DEF ValidCalendar, Stated
<1> QED
  BY <1>1, <1>2, <1>3 DEF Document, Request, Stated, ValidCalendar

-----------------------------------------------------------------------------
(* Types *)

\* The initial state is typed.
LEMMA InitTyped == Init => TypeOK
  BY CalendarConstants DEF Init, TypeOK, Place

\* Transaction A keeps the types.
LEMMA BeginTyped ==
    ASSUME TypeOK, NEW c \in Callers, Begin(c)
    PROVE  TypeOK'
  BY StatedSessions DEF Begin, TypeOK, End, Goto, Committed, Fault, Place, Batch, Status, Error

\* So does transaction B.
LEMMA RecordTyped ==
    ASSUME TypeOK, NEW c \in Callers, RecordEvents(c)
    PROVE  TypeOK'
  BY StatedSessions DEF RecordEvents, TypeOK, End, Goto, Committed, Fault, Place, Error

\* Locking a session keeps the types.
LEMMA LockTyped ==
    ASSUME TypeOK, NEW c \in Callers, LockSession(c)
    PROVE  TypeOK'
  BY StatedSessions DEF LockSession, TypeOK, Goto, Place, NextLock, ToLock

\* So does ensuring one,
LEMMA EnsureTyped ==
    ASSUME TypeOK, NEW c \in Callers, EnsureSession(c)
    PROVE  TypeOK'
  BY StatedSessions DEF EnsureSession, TypeOK, NextSession

\* a conflict,
LEMMA ConflictTyped ==
    ASSUME TypeOK, NEW c \in Callers, Conflict(c)
    PROVE  TypeOK'
  BY StatedSessions DEF Conflict, ConflictRaised, EndTransaction, TypeOK, Goto, Place

\* a failure,
LEMMA FailTyped ==
    ASSUME TypeOK, NEW c \in Callers, Fail(c)
    PROVE  TypeOK'
  BY StatedSessions DEF Fail, EndTransaction, End, Fault, TypeOK, Goto, Place, Error

\* and a new call.
LEMMA CallTyped ==
    ASSUME TypeOK, NEW c \in Callers, NEW d \in Documents[c], Call(c, d)
    PROVE  TypeOK'
  BY CalendarConstants DEF Call, TypeOK, Goto, Place

-----------------------------------------------------------------------------
(* Steps that leave the calendar alone *)

\* A batch that states sessions: it SUCCEEDED and has its raw events.
Stating(r) == batch[r] # None /\ batch[r].status = "SUCCEEDED" /\ r \in evidence

\* The calendar agrees with the batches as long as neither changes.
LEMMA CalendarKept ==
    ASSUME CalendarIsWhatSucceeded, session' = session,
           \A r \in Requests :
              /\ Stating(r)' <=> Stating(r)
              /\ Stating(r) => batch'[r] = batch[r] /\ doc'[batch[r].owner] = doc[batch[r].owner]
    PROVE  CalendarIsWhatSucceeded'
<1>1. ASSUME NEW r \in Requests, NEW d \in Dates, NEW content \in Sessions
      PROVE  States(r, d, content)' <=> States(r, d, content)
  BY DEF States, Stating, Stated
<1> QED
  BY <1>1 DEF CalendarIsWhatSucceeded

\* Transaction A creates a batch only for a request that has none.
LEMMA BeginSafe ==
    ASSUME ImportInv, NEW c \in Callers, Begin(c)
    PROVE  ImportInv'
<1> USE DEF ImportInv
<1>1. TypeOK'
  BY BeginTyped
<1>2. Request(c) \in Requests /\ doc' = doc
  BY StatedSessions DEF Begin
<1>3. \A e \in Callers : [status |-> "RUNNING", owner |-> e] # None
  BY CalendarConstants DEF Batch, Status
<1>4. ASSUME NEW e \in Callers
      PROVE  OwnsItsBatch(e)'
  <2>1. CASE e = c
    BY <1>2, <2>1 DEF Begin, TypeOK, End, Goto, Committed, OwnsItsBatch, Owning, Request
  <2>2. CASE e # c
    <3>1. pc'[e] = pc[e] /\ evidence' = evidence
      BY <2>2 DEF Begin, TypeOK, End, Goto, Committed
    <3>2. ASSUME pc[e] \in Owning
          PROVE  batch'[Request(e)] = batch[Request(e)]
      <4>1. Request(e) \in Requests
        BY <3>2, StatedSessions DEF Owning
      <4>2. batch[Request(e)] # None
        BY <1>3, <3>2 DEF OwnsItsBatch
      <4> QED
        BY <1>2, <4>1, <4>2 DEF Begin, TypeOK
    <3> QED
      BY <1>2, <3>1, <3>2 DEF OwnsItsBatch, Request, Owning
  <2> QED
    BY <2>1, <2>2
<1>5. \A e \in Callers : EnsuredUnderLock(e)'
  BY DEF Begin, TypeOK, End, Goto, Committed, EnsuredUnderLock, Stated
<1>6. BatchesAreOwned'
  BY <1>2 DEF Begin, TypeOK, End, Goto, Committed, BatchesAreOwned, Request, Batch
<1>7. LocksAreExclusive'
  BY DEF Begin, LocksAreExclusive
<1>8. CalendarIsWhatSucceeded'
  BY <1>2, CalendarKept DEF Begin, TypeOK, Stating
<1> QED
  BY <1>1, <1>4, <1>5, <1>6, <1>7, <1>8

\* Transaction B adds evidence of a batch that is RUNNING.
LEMMA RecordSafe ==
    ASSUME ImportInv, NEW c \in Callers, RecordEvents(c)
    PROVE  ImportInv'
<1> USE DEF ImportInv
<1>1. TypeOK'
  BY RecordTyped
<1>2. batch[Request(c)] = [status |-> "RUNNING", owner |-> c] /\ doc' = doc
  BY DEF RecordEvents, OwnsItsBatch, Owning
<1>3. \A e \in Callers : OwnsItsBatch(e)'
  BY DEF RecordEvents, TypeOK, End, Goto, Committed, OwnsItsBatch, Owning, Request
<1>4. \A e \in Callers : EnsuredUnderLock(e)'
  BY DEF RecordEvents, TypeOK, End, Goto, Committed,
         EnsuredUnderLock, Stated
<1>5. BatchesAreOwned' /\ LocksAreExclusive'
  BY DEF RecordEvents, TypeOK, End, Goto, Committed, BatchesAreOwned, Request, Batch,
         LocksAreExclusive
<1>6. CalendarIsWhatSucceeded'
  BY <1>2, CalendarKept DEF RecordEvents, Stating
<1> QED
  BY <1>1, <1>3, <1>4, <1>5, <1>6

\* When no lock is left to take, every stated date is locked.
LEMMA LockSafe ==
    ASSUME ImportInv, NEW c \in Callers, LockSession(c)
    PROVE  ImportInv'
<1> USE DEF ImportInv
<1>1. TypeOK'
  BY LockTyped
<1>2. \A e \in Callers : OwnsItsBatch(e)'
  BY DEF LockSession, TypeOK, Goto, OwnsItsBatch, Owning, Request
<1>3. NextLock(c) = {} => DOMAIN Stated(c) \subseteq locks[c]
  <2>1. ToLock(c) \subseteq Nat
    BY StatedSessions, CalendarConstants DEF LockSession, ToLock
  <2> QED
    BY <2>1, LeastNatural DEF NextLock, ToLock
<1>4. \A e \in Callers : EnsuredUnderLock(e)'
  BY <1>3 DEF LockSession, TypeOK, Goto, EnsuredUnderLock, Stated
<1>5. BatchesAreOwned' /\ LocksAreExclusive'
  BY DEF LockSession, TypeOK, Goto, BatchesAreOwned, Request, Batch, LocksAreExclusive
<1>6. CalendarIsWhatSucceeded'
  BY CalendarKept DEF LockSession, Stating
<1> QED
  BY <1>1, <1>2, <1>4, <1>5, <1>6

\* A session is ensured only if it is equal or not there.
LEMMA EnsureSafe ==
    ASSUME ImportInv, NEW c \in Callers, EnsureSession(c)
    PROVE  ImportInv'
<1> USE DEF ImportInv
<1>1. TypeOK'
  BY EnsureTyped
<1>2. \A e \in Callers : OwnsItsBatch(e)'
  BY DEF EnsureSession, OwnsItsBatch, Request
<1>3. \A e \in Callers : EnsuredUnderLock(e)'
  BY DEF EnsureSession, TypeOK, EnsuredUnderLock, Stated, NextSession, Differs
<1>4. BatchesAreOwned' /\ LocksAreExclusive'
  BY DEF EnsureSession, BatchesAreOwned, Request, LocksAreExclusive
<1>5. CalendarIsWhatSucceeded'
  BY CalendarKept DEF EnsureSession, Stating
<1> QED
  BY <1>1, <1>2, <1>3, <1>4, <1>5

\* A conflict releases the locks and leaves the calendar alone.
LEMMA ConflictSafe ==
    ASSUME ImportInv, NEW c \in Callers, Conflict(c)
    PROVE  ImportInv'
<1> USE DEF ImportInv
<1>1. TypeOK'
  BY ConflictTyped
<1>2. \A e \in Callers : OwnsItsBatch(e)'
  BY DEF Conflict, ConflictRaised, EndTransaction, TypeOK, Goto, OwnsItsBatch, Owning,
         Request
<1>3. \A e \in Callers : EnsuredUnderLock(e)'
  BY DEF Conflict, ConflictRaised, EndTransaction, TypeOK, Goto, EnsuredUnderLock, Stated
<1>4. BatchesAreOwned' /\ LocksAreExclusive'
  BY DEF Conflict, ConflictRaised, EndTransaction, TypeOK, Goto, BatchesAreOwned, Request,
         Batch, LocksAreExclusive
<1>5. CalendarIsWhatSucceeded'
  BY CalendarKept DEF Conflict, Stating
<1> QED
  BY <1>1, <1>2, <1>3, <1>4, <1>5

\* So does a failure.
LEMMA FailSafe ==
    ASSUME ImportInv, NEW c \in Callers, Fail(c)
    PROVE  ImportInv'
<1> USE DEF ImportInv
<1>1. TypeOK'
  BY FailTyped
<1>2. \A e \in Callers : OwnsItsBatch(e)'
  BY DEF Fail, EndTransaction, TypeOK, End, Goto, OwnsItsBatch, Owning,
         Request
<1>3. \A e \in Callers : EnsuredUnderLock(e)'
  BY DEF Fail, EndTransaction, TypeOK, End, Goto, EnsuredUnderLock, Stated
<1>4. BatchesAreOwned' /\ LocksAreExclusive'
  BY DEF Fail, EndTransaction, TypeOK, End, Goto, BatchesAreOwned, Request,
         Batch, LocksAreExclusive
<1>5. CalendarIsWhatSucceeded'
  BY CalendarKept DEF Fail, Stating
<1> QED
  BY <1>1, <1>2, <1>3, <1>4, <1>5

\* A call that begins owns no batch.
LEMMA CallSafe ==
    ASSUME ImportInv, NEW c \in Callers, NEW d \in Documents[c], Call(c, d)
    PROVE  ImportInv'
<1> USE DEF ImportInv
<1>1. TypeOK'
  BY CallTyped
<1>2. \A r \in Requests : batch[r] # None => batch[r].owner # c
  BY DEF Call, BatchesAreOwned
<1>3. \A e \in Callers : OwnsItsBatch(e)'
  BY DEF Call, TypeOK, Goto, OwnsItsBatch, Owning, Request
<1>4. \A e \in Callers : EnsuredUnderLock(e)'
  BY DEF Call, TypeOK, Goto, EnsuredUnderLock, Stated
<1>5. BatchesAreOwned' /\ LocksAreExclusive'
  BY <1>2 DEF Call, TypeOK, Goto, BatchesAreOwned, Request, Batch, LocksAreExclusive
<1>6. CalendarIsWhatSucceeded'
  BY <1>2, CalendarKept DEF Call, TypeOK, Batch, Stating
<1> QED
  BY <1>1, <1>3, <1>4, <1>5, <1>6

-----------------------------------------------------------------------------
(* Steps that end the batch *)

\* A batch that fails has stated nothing.
LEMMA FinalizeSafe ==
    ASSUME ImportInv, NEW c \in Callers, FinalizeConflict(c)
    PROVE  ImportInv'
<1> USE DEF ImportInv
<1> DEFINE r == Request(c)
<1>1. r \in Requests /\ batch[r] = [status |-> "RUNNING", owner |-> c] /\ doc' = doc
  BY StatedSessions DEF FinalizeConflict, OwnsItsBatch, Owning
<1>2. batch' = [batch EXCEPT ![r] = [status |-> "FAILED", owner |-> c]]
  <2>1. batch' = [batch EXCEPT ![r] = [batch[r] EXCEPT !.status = "FAILED"]]
    BY DEF FinalizeConflict
  <2>2. [batch[r] EXCEPT !.status = "FAILED"] = [status |-> "FAILED", owner |-> c]
    BY <1>1
  <2> QED
    BY <2>1, <2>2
<1>3. [status |-> "FAILED", owner |-> c] \in Batch
  BY DEF Batch, Status
<1>4. TypeOK'
  <2>1. batch' \in [Requests -> Batch \cup {None}]
    BY <1>2, <1>3 DEF TypeOK
  <2>2. /\ pc' = [pc EXCEPT ![c] = "done"] /\ pc[c] = "fail"
        /\ reply' \in [Callers -> Error \cup Status \cup {None}]
        /\ faults' \in [Callers -> Nat]
        /\ UNCHANGED <<venue, evidence, session, doc, done, pending, locks>>
    BY DEF FinalizeConflict, End, Goto, Fault, TypeOK, Error
  <2> QED
    BY <2>1, <2>2 DEF TypeOK, Place
<1>5. ASSUME NEW e \in Callers, e # c, pc[e] \in Owning
      PROVE  Request(e) \in Requests /\ Request(e) # r
  <2>1. batch[Request(e)] = [status |-> "RUNNING", owner |-> e]
    BY <1>5 DEF OwnsItsBatch
  <2>2. Request(e) # r
    BY <1>1, <1>5, <2>1
  <2> QED
    BY <2>2, <1>5, StatedSessions DEF Owning
<1>6. ASSUME NEW e \in Callers
      PROVE  OwnsItsBatch(e)'
  <2>1. CASE e = c
    BY <2>1 DEF FinalizeConflict, TypeOK, End, Goto, OwnsItsBatch, Owning
  <2>2. CASE e # c
    <3>1. pc'[e] = pc[e] /\ evidence' = evidence /\ doc' = doc
      BY <2>2 DEF FinalizeConflict, TypeOK, End, Goto
    <3>2. pc[e] \in Owning => batch'[Request(e)] = batch[Request(e)]
      BY <1>2, <1>5, <2>2 DEF TypeOK
    <3> QED
      BY <3>1, <3>2 DEF OwnsItsBatch, Owning, Request
  <2> QED
    BY <2>1, <2>2
<1>7. \A e \in Callers : EnsuredUnderLock(e)'
  BY DEF FinalizeConflict, TypeOK, End, Goto, EnsuredUnderLock, Stated
<1>8. BatchesAreOwned' /\ LocksAreExclusive'
  BY <1>1, <1>2 DEF FinalizeConflict, TypeOK, End, Goto, BatchesAreOwned, Request, Batch,
         LocksAreExclusive
<1>9. CalendarIsWhatSucceeded'
  BY <1>1, <1>2, CalendarKept DEF FinalizeConflict, TypeOK, Stating
<1> QED
  BY <1>4, <1>6, <1>7, <1>8, <1>9

\* The commit adds exactly what the batch states: all of it has been ensured under
\* locks, and nobody else has ensured any of it since.
LEMMA CommitSafe ==
    ASSUME ImportInv, NEW c \in Callers, CommitSessions(c)
    PROVE  ImportInv'
<1> USE DEF ImportInv
<1> DEFINE r == Request(c)
<1>1. /\ r \in Requests /\ r \in evidence /\ batch[r] = [status |-> "RUNNING", owner |-> c]
      /\ doc' = doc /\ evidence' = evidence
  BY StatedSessions DEF CommitSessions, OwnsItsBatch, Owning
<1>2. batch' = [batch EXCEPT ![r] = [status |-> "SUCCEEDED", owner |-> c]]
  <2>1. batch' = [batch EXCEPT ![r] = [batch[r] EXCEPT !.status = "SUCCEEDED"]]
    BY DEF CommitSessions
  <2>2. [batch[r] EXCEPT !.status = "SUCCEEDED"] = [status |-> "SUCCEEDED", owner |-> c]
    BY <1>1
  <2> QED
    BY <2>1, <2>2
<1>3. [status |-> "SUCCEEDED", owner |-> c] \in Batch
  BY DEF Batch, Status
<1>4. /\ DOMAIN Stated(c) \subseteq Dates
      /\ \A d \in DOMAIN Stated(c) : Stated(c)[d] \in Sessions
  BY StatedSessions DEF CommitSessions
\* Everything that was stated has been ensured, and is locked.
<1>5. done[c] = DOMAIN Stated(c) /\ pending[c] \subseteq done[c] /\ done[c] \subseteq locks[c]
  <2>1. DOMAIN Stated(c) \ done[c] \subseteq Nat
    BY <1>4, CalendarConstants
  <2>2. DOMAIN Stated(c) \ done[c] = {}
    BY <2>1, LeastNatural DEF CommitSessions, NextSession
  <2> QED
    BY <2>2 DEF CommitSessions, EnsuredUnderLock, TypeOK
<1>6. /\ \A d \in Dates \ done[c] : session'[d] = session[d]
      /\ \A d \in done[c] : session'[d] = Stated(c)[d]
      /\ \A d \in done[c] : session[d] \in {None, Stated(c)[d]}
  BY <1>4, <1>5 DEF CommitSessions, EnsuredUnderLock
<1>7. session' \in [Dates -> Sessions \cup {None}]
  BY <1>4, <1>5 DEF CommitSessions, TypeOK
<1>8. TypeOK'
  <2>1. batch' \in [Requests -> Batch \cup {None}]
    BY <1>2, <1>3 DEF TypeOK
  <2>2. /\ pc' = [pc EXCEPT ![c] = "done"] /\ pc[c] = "ensure"
        /\ reply' \in [Callers -> Error \cup Status \cup {None}]
        /\ faults' \in [Callers -> Nat]
        /\ locks' = [locks EXCEPT ![c] = {}] /\ pending' = [pending EXCEPT ![c] = {}]
        /\ UNCHANGED <<venue, evidence, doc, done>>
    BY DEF CommitSessions, EndTransaction, End, Goto, Fault, TypeOK, Error, Status
  <2> QED
    BY <1>7, <2>1, <2>2 DEF TypeOK, Place
<1>9. ASSUME NEW e \in Callers, e # c, pc[e] \in Owning
      PROVE  Request(e) \in Requests /\ Request(e) # r
  <2>1. batch[Request(e)] = [status |-> "RUNNING", owner |-> e]
    BY <1>9 DEF OwnsItsBatch
  <2>2. Request(e) # r
    BY <1>1, <1>9, <2>1
  <2> QED
    BY <2>2, <1>9, StatedSessions DEF Owning
<1>10. ASSUME NEW e \in Callers
      PROVE  OwnsItsBatch(e)'
  <2>1. CASE e = c
    BY <2>1 DEF CommitSessions, TypeOK, End, Goto, OwnsItsBatch, Owning
  <2>2. CASE e # c
    <3>1. pc'[e] = pc[e] /\ evidence' = evidence /\ doc' = doc
      BY <2>2 DEF CommitSessions, TypeOK, End, Goto
    <3>2. pc[e] \in Owning => batch'[Request(e)] = batch[Request(e)]
      BY <1>2, <1>9, <2>2 DEF TypeOK
    <3> QED
      BY <3>1, <3>2 DEF OwnsItsBatch, Owning, Request
  <2> QED
    BY <2>1, <2>2
<1>11. ASSUME NEW e \in Callers
       PROVE  EnsuredUnderLock(e)'
  <2>1. CASE e = c
    BY <2>1 DEF CommitSessions, TypeOK, End, Goto, EnsuredUnderLock
  <2>2. CASE e # c
    <3>1. /\ pc'[e] = pc[e] /\ locks'[e] = locks[e] /\ pending'[e] = pending[e]
          /\ done' = done
      BY <2>2 DEF CommitSessions, EndTransaction, TypeOK, End, Goto
    <3>2. pc[e] = "ensure" => done[e] \subseteq locks[e]
      BY DEF EnsuredUnderLock
    <3>3. pc[e] = "ensure" => \A d \in done[e] : d \in Dates /\ session'[d] = session[d]
      BY <1>5, <1>6, <2>2, <3>2 DEF LocksAreExclusive, TypeOK
    <3> QED
      BY <1>1, <3>1, <3>3 DEF EnsuredUnderLock, Stated
  <2> QED
    BY <2>1, <2>2
<1>12. BatchesAreOwned'
  BY <1>1, <1>2 DEF CommitSessions, TypeOK, End, Goto, BatchesAreOwned, Request, Batch
<1>13. LocksAreExclusive'
  BY DEF CommitSessions, EndTransaction, TypeOK, LocksAreExclusive
<1>14. CalendarIsWhatSucceeded'
  <2>0. PICK q0 \in Requests : q0 = r
    BY <1>1
  <2> SUFFICES ASSUME NEW d \in Dates, NEW content \in Sessions
               PROVE  (session'[d] = content) <=> (\E q \in Requests : States(q, d, content)')
    BY DEF CalendarIsWhatSucceeded
  <2>1. ASSUME NEW q \in Requests, q # q0
        PROVE  States(q, d, content)' <=> States(q, d, content)
    BY <1>1, <1>2, <2>0, <2>1 DEF States, Stated, TypeOK
  <2>2. ~States(q0, d, content)
    BY <1>1, <2>0 DEF States
  <2>3. States(q0, d, content)' <=> d \in DOMAIN Stated(c) /\ Stated(c)[d] = content
    <3>1. batch'[q0] = [status |-> "SUCCEEDED", owner |-> c] /\ batch'[q0] # None
      BY <1>1, <1>2, <1>3, <2>0, CalendarConstants DEF TypeOK
    <3>2. batch'[q0].owner = c /\ batch'[q0].status = "SUCCEEDED"
      BY <3>1
    <3> QED
      BY <1>1, <2>0, <3>1, <3>2 DEF States, Stated
  <2>4. (session[d] = content) <=> (\E q \in Requests : States(q, d, content))
    BY DEF CalendarIsWhatSucceeded
  <2>5. CASE d \in done[c]
    \* An earlier batch that states the date states what the calendar holds.
    <3>1. session'[d] = Stated(c)[d] /\ session[d] \in {None, Stated(c)[d]}
      BY <1>6, <2>5
    <3>2. ASSUME NEW q \in Requests, q # q0, States(q, d, content)'
          PROVE  session'[d] = content
      BY <2>1, <2>4, <3>1, <3>2, CalendarConstants
    <3>3. (session'[d] = content) <=> States(q0, d, content)'
      BY <1>5, <2>3, <2>5, <3>1
    <3> QED
      BY <3>2, <3>3
  <2>6. CASE d \notin done[c]
    <3>1. session'[d] = session[d] /\ ~States(q0, d, content)'
      BY <1>5, <1>6, <2>3, <2>6
    <3> QED
      BY <2>1, <2>2, <2>4, <3>1
  <2> QED
    BY <2>5, <2>6
<1> QED
  BY <1>8, <1>10, <1>11, <1>12, <1>13, <1>14

-----------------------------------------------------------------------------
(* The theorems *)

\* The venue appears.
LEMMA BootstrapSafe ==
    ASSUME ImportInv, NEW timezone \in Timezones, BootstrapVenue(timezone)
    PROVE  ImportInv'
<1> USE DEF ImportInv
<1>1. TypeOK'
  BY DEF BootstrapVenue, TypeOK
<1>2. \A c \in Callers : OwnsItsBatch(c)'
  BY DEF BootstrapVenue, OwnsItsBatch, Request
<1>3. \A c \in Callers : EnsuredUnderLock(c)'
  BY DEF BootstrapVenue, EnsuredUnderLock, Stated
<1>4. BatchesAreOwned' /\ LocksAreExclusive'
  BY DEF BootstrapVenue, BatchesAreOwned, LocksAreExclusive, Request
<1>5. CalendarIsWhatSucceeded'
  BY CalendarKept DEF BootstrapVenue, Stating
<1> QED
  BY <1>1, <1>2, <1>3, <1>4, <1>5

\* The invariant holds initially
LEMMA InitSafe == Init => ImportInv
<1> SUFFICES ASSUME Init
             PROVE  ImportInv
  OBVIOUS
<1>1. \A c \in Callers : OwnsItsBatch(c) /\ EnsuredUnderLock(c)
  BY DEF Init, OwnsItsBatch, EnsuredUnderLock, Owning
<1>2. BatchesAreOwned /\ LocksAreExclusive
  BY DEF Init, BatchesAreOwned, LocksAreExclusive
<1>3. CalendarIsWhatSucceeded
  BY CalendarConstants DEF Init, CalendarIsWhatSucceeded, States
<1> QED
  BY InitTyped, <1>1, <1>2, <1>3 DEF ImportInv

\* and is kept by every step.
LEMMA NextSafe == ImportInv /\ [Next]_vars => ImportInv'
<1> SUFFICES ASSUME ImportInv, [Next]_vars
             PROVE  ImportInv'
  OBVIOUS
<1>1. ASSUME NEW c \in Callers, Proceed(c)
      PROVE  ImportInv'
  BY <1>1, BeginSafe, RecordSafe, LockSafe, EnsureSafe, ConflictSafe, CommitSafe, FinalizeSafe
     DEF Proceed
<1>2. CASE UNCHANGED vars
  <2>1. TypeOK'
    BY <1>2 DEF vars, ImportInv, TypeOK
  <2>2. \A c \in Callers : OwnsItsBatch(c)'
    BY <1>2 DEF vars, ImportInv, OwnsItsBatch, Request
  <2>3. \A c \in Callers : EnsuredUnderLock(c)'
    BY <1>2 DEF vars, ImportInv, EnsuredUnderLock, Stated
  <2>4. BatchesAreOwned' /\ LocksAreExclusive'
    BY <1>2 DEF vars, ImportInv, BatchesAreOwned, LocksAreExclusive, Request
  <2>5. CalendarIsWhatSucceeded'
    BY <1>2, CalendarKept DEF vars, ImportInv, Stating
  <2> QED
    BY <2>1, <2>2, <2>3, <2>4, <2>5 DEF ImportInv
<1> QED
  BY <1>1, <1>2, BootstrapSafe, FailSafe, CallSafe DEF Next

\* So it always holds.
LEMMA AlwaysSafe == Spec => []ImportInv
  BY InitSafe, NextSafe, PTL DEF Spec

\* The state of importers and of the calendar always has its type.
THEOREM TypeCorrect == Spec => []TypeOK
<1>1. ImportInv => TypeOK
  BY DEF ImportInv
<1> QED
  BY <1>1, AlwaysSafe, PTL

\* Whatever imports overlap, conflict or fail: the calendar is the union of what the
\* SUCCEEDED batches state, and no session is inserted by two transactions.
THEOREM CalendarAlwaysSound == Spec => []CalendarIsSound
<1>1. ASSUME ImportInv
      PROVE  CalendarIsSound
  <2>1. \A c \in Callers : pending[c] \subseteq locks[c]
    BY <1>1 DEF ImportInv, TypeOK, EnsuredUnderLock
  <2>2. InsertsAreExclusive
    BY <1>1, <2>1 DEF ImportInv, LocksAreExclusive, InsertsAreExclusive
  <2> QED
    BY <1>1, <2>2 DEF ImportInv, CalendarIsSound
<1> QED
  BY <1>1, AlwaysSafe, PTL
=============================================================================
