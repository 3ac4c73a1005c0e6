--------------------------- MODULE CalendarImport ---------------------------
(***************************************************************************)
(* TradingCalendarImportService.import_calendar (calendar/importer.py) and  *)
(* SqlAlchemyTradingCalendarRepository, for several calls at once.         *)
(*                                                                         *)
(* A validated calendar has one session for every date of a range.  A call *)
(* creates its batch (A), records one raw event per session (B), and in    *)
(* one transaction (C) locks every session in date order, inserts the      *)
(* missing ones and ends the batch; a session that differs from the stored *)
(* one makes the batch FAILED in a transaction of its own.  C is one step  *)
(* per lock and one per session.                                           *)
(*                                                                         *)
(* A session's times, settlement date and metadata are one value, since    *)
(* they are only ever compared together.  There is one venue; its row is   *)
(* written by the catalog bootstrap, and never changes.                    *)
(***************************************************************************)
EXTENDS Naturals

CONSTANTS
    Callers,        \* calls of import_calendar(); each is made once
    Requests,       \* request_id values
    Dates,          \* consecutive days, numbered
    Sessions,       \* contents of a session
    Timezones,
    Calendars,      \* validated calendars: a timezone and the session of each date
    Documents,      \* what each call may be made with
    MaxFaults,      \* failures each call may meet
    None

Document == [request : Requests, calendar : Calendars]

Status == {"RUNNING", "SUCCEEDED", "FAILED"}
Batch == [status : Status, owner : Callers]

\* A calendar states every date from date_from to date_to, each once.
ValidCalendar(m) ==
    /\ m.timezone \in Timezones
    /\ \E date_from, date_to \in Dates :
          date_from <= date_to /\ DOMAIN m.sessions = date_from..date_to
    /\ \A d \in DOMAIN m.sessions : m.sessions[d] \in Sessions

ASSUME CalendarConstants ==
    /\ Dates \subseteq Nat /\ \A d, e \in Dates : d..e \subseteq Dates
    /\ None \notin Sessions \cup Timezones \cup Batch
    /\ \A m \in Calendars : ValidCalendar(m)
    /\ \A c \in Callers : Documents[c] \subseteq Document
    /\ MaxFaults \in [Callers -> Nat]

VARIABLES
    venue,      \* the timezone of the venue, or None before it is bootstrapped
    batch,      \* ingest.ingestion_batch by request id, or None
    evidence,   \* requests whose raw events are committed
    session,    \* catalog.trading_session by date, or None
    pc,         \* the place each call has reached
    doc,        \* its document
    done,       \* dates that transaction C has ensured
    pending,    \* dates that it has inserted
    locks,      \* dates whose advisory locks it holds
    faults,     \* failures the call has met
    reply       \* the status it returned, or the error it raised

vars == <<venue, batch, evidence, session, pc, doc, done, pending, locks, faults, reply>>

Error == {"VenueMissing", "TimezoneConflict", "AlreadyRunning", "SessionConflict", "Failed"}
Place == {"idle", "begin", "record", "lock", "ensure", "fail", "done"}

TypeOK ==
    /\ venue \in Timezones \cup {None}
    /\ batch \in [Requests -> Batch \cup {None}]
    /\ evidence \subseteq Requests
    /\ session \in [Dates -> Sessions \cup {None}]
    /\ pc \in [Callers -> Place]
    /\ doc \in [Callers -> Document \cup {None}]
    /\ pending \in [Callers -> SUBSET Dates]
    /\ \A c \in Callers :
          /\ IF pc[c] = "idle" THEN doc[c] = None ELSE doc[c] \in Documents[c]
          /\ pc[c] \notin {"lock", "ensure"} => locks[c] = {} /\ pending[c] = {}
          /\ pending[c] \subseteq done[c]
    /\ locks \in [Callers -> SUBSET Dates]
    /\ done \in [Callers -> SUBSET Dates]
    /\ faults \in [Callers -> Nat]
    /\ reply \in [Callers -> Error \cup Status \cup {None}]

Init ==
    /\ venue = None
    /\ batch = [r \in Requests |-> None]
    /\ evidence = {}
    /\ session = [d \in Dates |-> None]
    /\ pc = [c \in Callers |-> "idle"]
    /\ doc = [c \in Callers |-> None]
    /\ done = [c \in Callers |-> {}]
    /\ pending = [c \in Callers |-> {}]
    /\ locks = [c \in Callers |-> {}]
    /\ faults = [c \in Callers |-> 0]
    /\ reply = [c \in Callers |-> None]

Request(c) == doc[c].request
Stated(c) == doc[c].calendar.sessions

Goto(c, place) == pc' = [pc EXCEPT ![c] = place]
End(c, answer) == Goto(c, "done") /\ reply' = [reply EXCEPT ![c] = answer]

Fault(c) ==
    /\ faults[c] < MaxFaults[c]
    /\ faults' = [faults EXCEPT ![c] = @ + 1]

\* A commit that is applied: the caller learns of it, or does not.
Committed(c, place) ==
    \/ Goto(c, place) /\ UNCHANGED <<faults, reply>>
    \/ Fault(c) /\ End(c, "Failed")

\* Faulty variant: the locks belong to the session of the connection.
EndTransactionKeepsLocks(c) == pending' = [pending EXCEPT ![c] = {}] /\ UNCHANGED locks

\* The end of transaction C: its locks are released and what it wrote is gone or
\* committed.
EndTransaction(c) ==
    /\ locks' = [locks EXCEPT ![c] = {}]
    /\ pending' = [pending EXCEPT ![c] = {}]

-----------------------------------------------------------------------------
(* Actions *)

\* The catalog bootstrap commits the venue.
BootstrapVenue(timezone) ==
    /\ venue = None
    /\ venue' = timezone
    /\ UNCHANGED <<batch, evidence, session, pc, doc, done, pending, locks, faults, reply>>

Call(c, d) ==
    /\ pc[c] = "idle"
    /\ doc' = [doc EXCEPT ![c] = d]
    /\ Goto(c, "begin")
    /\ UNCHANGED <<venue, batch, evidence, session, done, pending, locks, faults, reply>>

\* Transaction A; a replay leaves it without a commit and changes nothing.
Begin(c) ==
    /\ pc[c] = "begin"
    /\ LET existing == batch[Request(c)]
       IN  \/ /\ venue = None
              /\ End(c, "VenueMissing")
              /\ UNCHANGED <<batch, faults>>
           \/ /\ venue \notin {None, doc[c].calendar.timezone}
              /\ End(c, "TimezoneConflict")
              /\ UNCHANGED <<batch, faults>>
           \/ /\ venue = doc[c].calendar.timezone
              /\ existing = None
              /\ batch' = [batch EXCEPT ![Request(c)] = [status |-> "RUNNING", owner |-> c]]
              /\ Committed(c, "record")
           \/ /\ venue = doc[c].calendar.timezone
              /\ existing # None
              /\ End(c, IF existing.status = "RUNNING" THEN "AlreadyRunning"
                        ELSE existing.status)
              /\ UNCHANGED <<batch, faults>>
    /\ UNCHANGED <<venue, evidence, session, doc, done, pending, locks>>

\* Transaction B.
RecordEvents(c) ==
    /\ pc[c] = "record"
    /\ evidence' = evidence \cup {Request(c)}
    /\ Committed(c, "lock")
    /\ UNCHANGED <<venue, batch, session, doc, done, pending, locks>>

ToLock(c) == DOMAIN Stated(c) \ locks[c]

\* Faulty variant: the locks are taken in any order.
NextLockAny(c) == ToLock(c)

\* Sorted by trading_date; there is one session_code.
NextLock(c) == {d \in ToLock(c) : \A other \in ToLock(c) : d <= other}

\* acquire_session_locks, one lock after the other.
LockSession(c) ==
    /\ pc[c] = "lock"
    /\ \/ \E d \in NextLock(c) :
            /\ \A other \in Callers : d \notin locks[other]
            /\ locks' = [locks EXCEPT ![c] = @ \cup {d}]
            /\ UNCHANGED pc
       \/ NextLock(c) = {} /\ Goto(c, "ensure") /\ UNCHANGED locks
    /\ UNCHANGED <<venue, batch, evidence, session, doc, done, pending, faults, reply>>

\* Faulty variant: a session that differs is left as it is.
DiffersNever(c, d) == FALSE

Differs(c, d) == session[d] # None /\ session[d] # Stated(c)[d]

\* The first session that has not been ensured.
NextSession(c) ==
    {d \in DOMAIN Stated(c) \ done[c] : \A other \in DOMAIN Stated(c) \ done[c] : d <= other}

\* ensure_session: what is committed, and equal, stays; what is missing is inserted.
EnsureSession(c) ==
    /\ pc[c] = "ensure"
    /\ \E d \in NextSession(c) :
          /\ ~Differs(c, d)
          /\ done' = [done EXCEPT ![c] = @ \cup {d}]
          /\ pending' = [pending EXCEPT ![c] = IF session[d] = None THEN @ \cup {d} ELSE @]
    /\ UNCHANGED <<venue, batch, evidence, session, pc, doc, locks, faults, reply>>

ConflictRaised(c) == Goto(c, "fail") /\ UNCHANGED reply

\* CalendarConflictError: everything the transaction wrote is rolled back.
Conflict(c) ==
    /\ pc[c] = "ensure"
    /\ \E d \in NextSession(c) : Differs(c, d)
    /\ ConflictRaised(c)
    /\ EndTransaction(c)
    /\ UNCHANGED <<venue, batch, evidence, session, doc, done, faults>>

\* finalize_batch and the commit of C.
CommitSessions(c) ==
    /\ pc[c] = "ensure"
    /\ NextSession(c) = {}
    /\ batch[Request(c)].status = "RUNNING"
    /\ batch' = [batch EXCEPT ![Request(c)].status = "SUCCEEDED"]
    /\ session' = [d \in Dates |-> IF d \in pending[c] THEN Stated(c)[d] ELSE session[d]]
    /\ EndTransaction(c)
    /\ \/ End(c, "SUCCEEDED") /\ UNCHANGED faults
       \/ Fault(c) /\ End(c, "Failed")
    /\ UNCHANGED <<venue, evidence, doc, done>>

\* The batch becomes FAILED and the conflict is raised again.
FinalizeConflict(c) ==
    /\ pc[c] = "fail"
    /\ batch[Request(c)].status = "RUNNING"
    /\ batch' = [batch EXCEPT ![Request(c)].status = "FAILED"]
    /\ \/ End(c, "SessionConflict") /\ UNCHANGED faults
       \/ Fault(c) /\ End(c, "Failed")
    /\ UNCHANGED <<venue, evidence, session, doc, done, pending, locks>>

\* A statement or a commit fails, or the process stops.
Fail(c) ==
    /\ pc[c] \notin {"idle", "done"}
    /\ Fault(c)
    /\ End(c, "Failed")
    /\ EndTransaction(c)
    /\ UNCHANGED <<venue, batch, evidence, session, doc, done>>

Proceed(c) ==
    \/ Begin(c) \/ RecordEvents(c) \/ LockSession(c) \/ EnsureSession(c) \/ Conflict(c)
    \/ CommitSessions(c) \/ FinalizeConflict(c)

Next ==
    \/ \E timezone \in Timezones : BootstrapVenue(timezone)
    \/ \E c \in Callers : Proceed(c) \/ Fail(c) \/ \E d \in Documents[c] : Call(c, d)

\* A call that has begun keeps executing; it need not fail.
Fairness == \A c \in Callers : WF_vars(Proceed(c))

Spec == Init /\ [][Next]_vars /\ Fairness

-----------------------------------------------------------------------------
(* Properties *)

\* What the batch of a request that SUCCEEDED states of a date.
States(r, d, content) ==
    /\ batch[r] # None /\ batch[r].status = "SUCCEEDED" /\ r \in evidence
    /\ d \in DOMAIN Stated(batch[r].owner) /\ Stated(batch[r].owner)[d] = content

\* "The canonical import is atomic and a conflict does not overwrite": the calendar
\* is exactly the union of the sessions of the batches that SUCCEEDED, each with
\* its raw events; it holds all of each and nothing of the others.
CalendarIsWhatSucceeded ==
    \A d \in Dates, content \in Sessions :
        (session[d] = content) <=> (\E r \in Requests : States(r, d, content))

\* Two transactions never insert the same session, so that none is refused by the
\* primary key and stranded.
InsertsAreExclusive ==
    \A c, e \in Callers : c # e => pending[c] \cap pending[e] = {}

\* Sessions are imported once, completely, and as they were stated.
CalendarIsSound == CalendarIsWhatSucceeded /\ InsertsAreExclusive

Running(r) == batch[r] # None /\ batch[r].status = "RUNNING"

\* Every import that has begun ends SUCCEEDED or FAILED, a conflict included,
\* unless its call met a failure: imports with overlapping ranges do not wait for
\* each other in a circle (import_calendar, acquire_session_locks).
BatchesEnd ==
    \A r \in Requests : Running(r) ~> (~Running(r) \/ faults[batch[r].owner] > 0)
=============================================================================
