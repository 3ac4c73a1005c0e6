---------------------------- MODULE BacktestRuns ----------------------------
(***************************************************************************)
(* The life of backtest runs: ReferenceBacktestService.run                 *)
(* (backtest/service.py) and SqlAlchemyBacktestRunRepository, for several  *)
(* calls at once on one database.                                          *)
(*                                                                         *)
(* A call checks the snapshot and loads its files, then works in three     *)
(* transactions: the run is created QUEUED, set RUNNING, and recorded with *)
(* its ledger as SUCCEEDED; the simulation lies between the last two.  An  *)
(* exception once the run has a number makes the call try to mark it       *)
(* FAILED.  The first transaction is one step per row it may have to wait  *)
(* for; the others touch only the call's own run and are one step each.    *)
(*                                                                         *)
(* A commit may be applied, rolled back, or applied without the caller     *)
(* being told.  A run and its ledger are named by the run code, and what   *)
(* the simulation computes is named by what determines it: the semantic    *)
(* specification of the run and the source of the strategy.                *)
(***************************************************************************)
EXTENDS Naturals, FiniteSets

CONSTANTS
    Callers,        \* calls of run(); each is made once
    Codes,          \* run_code values
    Specs,          \* run_spec_sha256 values
    Resolvable,     \* specifications whose universe and series exist in the catalog
    Runnable,       \* specifications whose simulation and ledger raise nothing
    Sources,        \* contents of strategies.py among the installed programs
    Documents,      \* manifests a call may be made with, and the program it is made with
    MaxFaults,      \* failing statements or commits of each call
    None

Document == [code : Codes, spec : Specs, source : Sources]
Result == [spec : Specs, source : Sources]
Status == {"QUEUED", "RUNNING", "SUCCEEDED", "FAILED"}
Run == [spec : Specs, status : Status, strategy : Sources, result : Result \cup {None},
        owner : Callers]

ASSUME RunConstants ==
    /\ Runnable \subseteq Specs /\ Resolvable \subseteq Specs
    /\ Documents \subseteq Document
    /\ MaxFaults \in [Callers -> Nat]
    /\ None \notin Codes \cup Specs \cup Sources \cup Document \cup Result \cup Run

VARIABLES
    strategy,   \* backtest.strategy_version 1: its code_sha256, or None
    run,        \* backtest.run by code: committed rows, or None
    ledger,     \* the rows of persist by code, or None
    artifact,   \* the snapshot verifies and its files can be read
    pc,         \* the place each call has reached
    doc,        \* the document of the call and the program that runs it
    inserted,   \* uncommitted inserts of the call's first transaction
    faults,     \* failures the call has met
    reply       \* what the call returned or raised

vars == <<strategy, run, ledger, artifact, pc, doc, inserted, faults, reply>>

Error == {"ArtifactUnavailable", "InProgress", "Conflict", "StrategyConflict", "Failed"}
Reply == [error : Error \cup {None}, result : Result \cup {None}]
NoReply == [error |-> None, result |-> None]
Place == {"idle", "start", "register", "create", "commit", "mark_running", "simulate",
          "persist", "mark_failed", "done", "dead"}

TypeOK ==
    /\ strategy \in Sources \cup {None}
    /\ run \in [Codes -> Run \cup {None}]
    /\ ledger \in [Codes -> Result \cup {None}]
    /\ artifact \in BOOLEAN
    /\ pc \in [Callers -> Place]
    /\ doc \in [Callers -> Documents \cup {None}]
    /\ \A c \in Callers : (doc[c] = None) <=> (pc[c] = "idle")
    /\ inserted \in [Callers -> SUBSET {"strategy", "run"}]
    /\ faults \in [Callers -> Nat]
    /\ reply \in [Callers -> Reply]

Init ==
    /\ strategy = None
    /\ run = [k \in Codes |-> None]
    /\ ledger = [k \in Codes |-> None]
    /\ artifact = TRUE
    /\ pc = [c \in Callers |-> "idle"]
    /\ doc = [c \in Callers |-> None]
    /\ inserted = [c \in Callers |-> {}]
    /\ faults = [c \in Callers |-> 0]
    /\ reply = [c \in Callers |-> NoReply]

Code(c) == doc[c].code
Goto(c, place) == pc' = [pc EXCEPT ![c] = place]

\* Faulty variant: the transaction is not rolled back.
EndKeepsOpen(c, answer) ==
    /\ Goto(c, "done")
    /\ reply' = [reply EXCEPT ![c] = answer]
    /\ UNCHANGED inserted

\* The call returns or raises; a transaction still open is rolled back.
End(c, answer) ==
    /\ Goto(c, "done")
    /\ reply' = [reply EXCEPT ![c] = answer]
    /\ inserted' = [inserted EXCEPT ![c] = {}]

Raise(c, error) == End(c, [NoReply EXCEPT !.error = error])
Return(c, result) == End(c, [NoReply EXCEPT !.result = result])

Fault(c) ==
    /\ faults[c] < MaxFaults[c]
    /\ faults' = [faults EXCEPT ![c] = @ + 1]

-----------------------------------------------------------------------------
(* The first transaction *)

\* _preflight and _load_selectors: they only read, and nothing they read is read
\* again later.
Prepare(c, d) ==
    /\ pc[c] = "idle"
    /\ doc' = [doc EXCEPT ![c] = d]
    /\ \/ artifact /\ Goto(c, "start") /\ UNCHANGED <<reply, inserted>>
       \/ ~artifact /\ Raise(c, "ArtifactUnavailable")
    /\ UNCHANGED <<strategy, run, ledger, artifact, faults>>

Replayable(row, d) == row.status = "SUCCEEDED" /\ row.spec = d.spec

InProgress(row) == row.status \in {"QUEUED", "RUNNING"}

\* require_runnable: a committed row decides; one that is not committed is not seen.
RequireRunnable(c) ==
    /\ pc[c] = "start"
    /\ LET row == run[Code(c)]
       IN  \/ row = None /\ Goto(c, "register") /\ UNCHANGED <<reply, inserted>>
           \/ row # None /\ Replayable(row, doc[c]) /\ Return(c, row.result)
           \/ row # None /\ InProgress(row) /\ Raise(c, "InProgress")
           \/ /\ row # None /\ ~Replayable(row, doc[c]) /\ ~InProgress(row)
              /\ Raise(c, "Conflict")
    /\ UNCHANGED <<strategy, run, ledger, artifact, doc, faults>>

Inserting(what) == {c \in Callers : what \in inserted[c]}

\* Faulty variant: an existing version is taken as it is.
VersionAny(c) == TRUE

VersionMatches(c) == strategy = doc[c].source

\* ensure_strategy_version: the insert of the strategy waits for another call that
\* has inserted it and not committed; then version 1 is compared or inserted.
RegisterStrategy(c) ==
    /\ pc[c] = "register"
    /\ Inserting("strategy") = {}
    /\ \/ /\ strategy = None
          /\ inserted' = [inserted EXCEPT ![c] = @ \cup {"strategy"}]
          /\ Goto(c, "create")
          /\ UNCHANGED reply
       \/ /\ strategy # None /\ VersionMatches(c)
          /\ Goto(c, "create")
          /\ UNCHANGED <<reply, inserted>>
       \/ strategy # None /\ ~VersionMatches(c) /\ Raise(c, "StrategyConflict")
    /\ UNCHANGED <<strategy, run, ledger, artifact, doc, faults>>

\* resolve_universe_id and validate_instrument_series find what the document names.
Creatable(d) == d.spec \in Resolvable

\* create_queued and insert_bindings.  What the document names and the catalog lacks
\* is a ValueError, raised as a BacktestPersistenceError.  The insert waits for
\* another call that inserts the same code, and is refused when the code exists by
\* then.
CreateQueued(c) ==
    /\ pc[c] = "create"
    /\ \/ ~Creatable(doc[c]) /\ Raise(c, "Failed")
       \/ /\ Creatable(doc[c])
          /\ \A other \in Inserting("run") : Code(other) # Code(c)
          /\ run[Code(c)] = None
          /\ inserted' = [inserted EXCEPT ![c] = @ \cup {"run"}]
          /\ Goto(c, "commit")
          /\ UNCHANGED reply
       \/ Creatable(doc[c]) /\ run[Code(c)] # None /\ Raise(c, "Failed")
    /\ UNCHANGED <<strategy, run, ledger, artifact, doc, faults>>

\* A statement fails before the run has a number: nothing is left.
FailBeforeRun(c) ==
    /\ pc[c] \in {"start", "register", "create"}
    /\ Fault(c)
    /\ Raise(c, "Failed")
    /\ UNCHANGED <<strategy, run, ledger, artifact, doc>>

\* Faulty variant: the version is looked up before it is inserted.
NewRunEarly(c) ==
    [spec |-> doc[c].spec, status |-> "QUEUED", strategy |-> strategy, result |-> None,
     owner |-> c]

NewRun(c) ==
    [spec |-> doc[c].spec, status |-> "QUEUED", strategy |-> doc[c].source, result |-> None,
     owner |-> c]

CommitInserts(c) ==
    /\ strategy' = IF "strategy" \in inserted[c] THEN doc[c].source ELSE strategy
    /\ run' = [run EXCEPT ![Code(c)] = NewRun(c)]

CommitQueued(c) ==
    /\ pc[c] = "commit"
    /\ CommitInserts(c)
    /\ inserted' = [inserted EXCEPT ![c] = {}]
    /\ \/ Goto(c, "mark_running") /\ UNCHANGED faults
       \/ Fault(c) /\ Goto(c, "mark_failed")
    /\ UNCHANGED <<ledger, artifact, doc, reply>>

\* The commit is rolled back, although the run already has a number.
RollBackQueued(c) ==
    /\ pc[c] = "commit"
    /\ Fault(c)
    /\ Goto(c, "mark_failed")
    /\ inserted' = [inserted EXCEPT ![c] = {}]
    /\ UNCHANGED <<strategy, run, ledger, artifact, doc, reply>>

-----------------------------------------------------------------------------
(* Running, recording, failing *)

\* mark_running and mark_succeeded change the row only from the status they expect.
MarkRunning(c) ==
    /\ pc[c] = "mark_running"
    /\ run[Code(c)].status = "QUEUED"
    /\ run' = [run EXCEPT ![Code(c)].status = "RUNNING"]
    /\ \/ Goto(c, "simulate") /\ UNCHANGED faults
       \/ Fault(c) /\ Goto(c, "mark_failed")
    /\ UNCHANGED <<strategy, ledger, artifact, doc, inserted, reply>>

\* simulate, _summary and result_sha256, and whatever persist would raise: see
\* BacktestLedger.
Simulate(c) ==
    /\ pc[c] = "simulate"
    /\ Goto(c, IF doc[c].spec \in Runnable THEN "persist" ELSE "mark_failed")
    /\ UNCHANGED <<strategy, run, ledger, artifact, doc, inserted, faults, reply>>

ResultOf(c) == [spec |-> doc[c].spec, source |-> doc[c].source]

\* persist and mark_succeeded in one transaction.
Persist(c) ==
    /\ pc[c] = "persist"
    /\ run[Code(c)].status = "RUNNING"
    /\ ledger' = [ledger EXCEPT ![Code(c)] = ResultOf(c)]
    /\ run' = [run EXCEPT ![Code(c)].status = "SUCCEEDED", ![Code(c)].result = ResultOf(c)]
    /\ \/ Return(c, ResultOf(c)) /\ UNCHANGED faults
       \/ Fault(c) /\ Goto(c, "mark_failed") /\ UNCHANGED <<inserted, reply>>
    /\ UNCHANGED <<strategy, artifact, doc>>

\* A statement or a commit of either transaction fails and leaves nothing.
RollBack(c) ==
    /\ pc[c] \in {"mark_running", "persist"}
    /\ Fault(c)
    /\ Goto(c, "mark_failed")
    /\ UNCHANGED <<strategy, run, ledger, artifact, doc, inserted, reply>>

\* The row with the call's run_id, if the first transaction left one.
OwnRun(c) == run[Code(c)] # None /\ run[Code(c)].owner = c

\* Faulty variant: the status of the run is not asked for.
FailableAny(c) == OwnRun(c)

Failable(c) == OwnRun(c) /\ run[Code(c)].status = "RUNNING"

\* _mark_failed: the UPDATE asks for RUNNING, and its own failure is swallowed.
MarkFailed(c) ==
    /\ pc[c] = "mark_failed"
    /\ Raise(c, "Failed")
    /\ \/ /\ Failable(c)
          /\ run' = [run EXCEPT ![Code(c)].status = "FAILED"]
          /\ UNCHANGED faults
       \/ ~Failable(c) /\ UNCHANGED <<run, faults>>
       \/ Fault(c) /\ UNCHANGED run
    /\ UNCHANGED <<strategy, ledger, artifact, doc>>

\* The process stops; its connection is closed and its transaction rolled back.
Crash(c) ==
    /\ pc[c] \notin {"idle", "done", "dead"}
    /\ Goto(c, "dead")
    /\ inserted' = [inserted EXCEPT ![c] = {}]
    /\ UNCHANGED <<strategy, run, ledger, artifact, doc, faults, reply>>

\* Somebody removes the files of the snapshot.
RemoveArtifact ==
    /\ artifact
    /\ artifact' = FALSE
    /\ UNCHANGED <<strategy, run, ledger, pc, doc, inserted, faults, reply>>

Proceed(c) ==
    \/ RequireRunnable(c) \/ RegisterStrategy(c) \/ CreateQueued(c) \/ CommitQueued(c)
    \/ MarkRunning(c) \/ Simulate(c) \/ Persist(c) \/ MarkFailed(c)

Disturb(c) == FailBeforeRun(c) \/ RollBackQueued(c) \/ RollBack(c) \/ Crash(c)

Next ==
    \/ \E c \in Callers : Proceed(c) \/ Disturb(c) \/ \E d \in Documents : Prepare(c, d)
    \/ RemoveArtifact

\* A call that has begun keeps executing; it need not fail.
Fairness == \A c \in Callers : WF_vars(Proceed(c))

Spec == Init /\ [][Next]_vars /\ Fairness

-----------------------------------------------------------------------------
(* Properties *)

Ended(c) == pc[c] \in {"done", "dead"}

\* "An error after RUNNING leaves no half ledger and makes the run FAILED": a run
\* is left RUNNING only by a crash or when the error is followed by a second one,
\* and left QUEUED only by a crash or an error before RUNNING.  A run is SUCCEEDED
\* exactly when it has its ledger.
FailuresLeaveNoHalfRun ==
    \A k \in Codes :
        /\ run[k] = None => ledger[k] = None
        /\ run[k] # None =>
              /\ ledger[k] = run[k].result
              /\ (ledger[k] # None) <=> (run[k].status = "SUCCEEDED")
              /\ Ended(run[k].owner) /\ pc[run[k].owner] # "dead" =>
                    /\ run[k].status = "RUNNING" => faults[run[k].owner] >= 1
                    /\ run[k].status = "RUNNING" /\ run[k].spec \in Runnable =>
                          faults[run[k].owner] >= 2
                    /\ run[k].status = "QUEUED" => faults[run[k].owner] >= 1

\* "Two equivalent runs with different run_code have the same result hash": a
\* result that is recorded is what its specification and the registered version of
\* the strategy give, whichever program and whichever call made it.
EquivalentRunsAgree ==
    \A k \in Codes :
        ledger[k] # None => ledger[k] = [spec |-> run[k].spec, source |-> strategy]

\* A result that was returned, by a run or by a replay of its code, is of the
\* document that was asked for, is recorded, and stays so.
ResultsAreRecorded ==
    \A c \in Callers :
        reply[c].result # None =>
            /\ reply[c].result.spec = doc[c].spec
            /\ run[Code(c)].status = "SUCCEEDED" /\ ledger[Code(c)] = reply[c].result

\* Results are reproducible: equal specifications have equal results, in the
\* database and in the hands of every caller.
ResultsAreReproducible == EquivalentRunsAgree /\ ResultsAreRecorded

\* Every call returns unless its process stops: nobody waits for ever for another
\* call's uncommitted rows, and every transition finds the run in the status it
\* asks for ("Backtest lifecycle state changed concurrently" is never raised).
CallsReturn == \A c \in Callers : (pc[c] # "idle") ~> Ended(c)
=============================================================================
