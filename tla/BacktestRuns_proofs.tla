------------------------- MODULE BacktestRuns_proofs -------------------------
(***************************************************************************)
(* Proofs about BacktestRuns, for every set of calls, codes, documents and *)
(* programs and for every bound on failures.                               *)
(***************************************************************************)
EXTENDS BacktestRuns, TLAPS

-----------------------------------------------------------------------------
(* The inductive invariant *)

\* The places of a call whose first transaction has ended with a run.
Later == {"mark_running", "simulate", "persist", "mark_failed", "done", "dead"}

\* How far a run has come when its call is at a place and has met n failures.
Progress(place, row, n) ==
    /\ place = "mark_running" => row.status = "QUEUED"
    /\ place \in {"simulate", "persist"} => row.status = "RUNNING"
    /\ place \in {"mark_failed", "done"} /\ row.status = "QUEUED" => n >= 1
    /\ place = "mark_failed" /\ row.status = "RUNNING" => n >= 1 \/ row.spec \notin Runnable
    /\ place = "done" /\ row.status = "RUNNING" =>
          n >= 1 /\ (row.spec \in Runnable => n >= 2)

\* A run is what its call was asked for, was made with the registered strategy, and
\* has a result and a ledger exactly when it SUCCEEDED.
RowOK(k) ==
    IF run[k] = None THEN ledger[k] = None
    ELSE LET row == run[k]
         IN  /\ pc[row.owner] \in Later
             /\ doc[row.owner].code = k /\ doc[row.owner].spec = row.spec
             /\ doc[row.owner].source = strategy
             /\ row.result = IF row.status = "SUCCEEDED"
                             THEN [spec |-> row.spec, source |-> strategy] ELSE None
             /\ ledger[k] = row.result
             /\ Progress(pc[row.owner], row, faults[row.owner])

\* What a call has inserted and not committed is not there otherwise, and a call
\* that is past ensure_strategy_version will run under the registered strategy.
InsertsOK(c) ==
    /\ "strategy" \in inserted[c] => pc[c] \in {"create", "commit"} /\ strategy = None
    /\ "run" \in inserted[c] <=> pc[c] = "commit"
    /\ pc[c] = "commit" => run[Code(c)] = None
    /\ pc[c] \in {"create", "commit"} => "strategy" \in inserted[c] \/ strategy = doc[c].source

\* A call that works on its run has one.
OwnsItsRun(c) == pc[c] \in {"mark_running", "simulate", "persist"} => OwnRun(c)

\* No two calls insert the strategy, or runs with one code, at a time.
InsertsAreAlone ==
    \A c, e \in Callers : c # e =>
        /\ ~("strategy" \in inserted[c] /\ "strategy" \in inserted[e])
        /\ "run" \in inserted[c] /\ "run" \in inserted[e] => Code(c) # Code(e)

RunInv ==
    /\ TypeOK
    /\ \A k \in Codes : RowOK(k)
    /\ \A c \in Callers : InsertsOK(c) /\ OwnsItsRun(c)
    /\ InsertsAreAlone
    /\ \A c \in Callers : pc[c] = "idle" => reply[c].result = None
    /\ ResultsAreRecorded

-----------------------------------------------------------------------------
(* Lemmas *)

\* The document of a call that has begun.
LEMMA DocTyped ==
    ASSUME TypeOK, NEW c \in Callers, pc[c] # "idle"
    PROVE  /\ doc[c] \in Documents /\ doc[c] \in Document
           /\ Code(c) \in Codes /\ doc[c].spec \in Specs /\ doc[c].source \in Sources
  BY RunConstants DEF TypeOK, Document, Code

\* A result is not NULL.
LEMMA ResultTyped ==
    ASSUME NEW s \in Specs, NEW p \in Sources
    PROVE  [spec |-> s, source |-> p] \in Result /\ [spec |-> s, source |-> p] # None
<1>1. [spec |-> s, source |-> p] \in Result
  BY DEF Result
<1> QED
  BY <1>1, RunConstants

\* Runs are kept when a call that has none takes a step.
LEMMA RowsKept ==
    ASSUME RunInv, NEW c \in Callers, pc[c] \notin Later,
           UNCHANGED <<strategy, run, ledger>>,
           \A e \in Callers : e # c =>
              pc'[e] = pc[e] /\ doc'[e] = doc[e] /\ faults'[e] = faults[e]
    PROVE  \A k \in Codes : RowOK(k)'
<1> SUFFICES ASSUME NEW k \in Codes
             PROVE  RowOK(k)'
  OBVIOUS
<1>1. CASE run[k] = None
  BY <1>1 DEF RunInv, RowOK
<1>2. CASE run[k] # None
  <2>1. run[k].owner \in Callers /\ run[k].owner # c
    <3>1. run[k] \in Run
      BY <1>2 DEF RunInv, TypeOK
    <3> QED
      BY <1>2, <3>1 DEF RunInv, RowOK, Run
  <2> QED
    BY <1>2, <2>1 DEF RunInv, RowOK
<1> QED
  BY <1>1, <1>2

\* The initial state.
LEMMA InitSafe == Init => RunInv
<1> SUFFICES ASSUME Init
             PROVE  RunInv
  OBVIOUS
<1>1. TypeOK
  BY DEF Init, TypeOK, Place, Reply, NoReply
<1>2. \A k \in Codes : RowOK(k)
  BY DEF Init, RowOK
<1>3. \A c \in Callers : InsertsOK(c) /\ OwnsItsRun(c)
  BY DEF Init, InsertsOK, OwnsItsRun
<1>4. InsertsAreAlone
  BY DEF Init, InsertsAreAlone
<1>5. \A c \in Callers : reply[c].result = None
  BY DEF Init, NoReply
<1> QED
  BY <1>1, <1>2, <1>3, <1>4, <1>5 DEF RunInv, ResultsAreRecorded

-----------------------------------------------------------------------------
(* Types *)

\* The end of a call.
LEMMA EndTyped ==
    ASSUME TypeOK, NEW c \in Callers, NEW answer \in Reply, End(c, answer)
    PROVE  /\ pc' \in [Callers -> Place] /\ pc' = [pc EXCEPT ![c] = "done"]
           /\ reply' \in [Callers -> Reply] /\ reply' = [reply EXCEPT ![c] = answer]
           /\ inserted' \in [Callers -> SUBSET {"strategy", "run"}]
           /\ inserted' = [inserted EXCEPT ![c] = {}]
  BY DEF End, Goto, TypeOK, Place

\* An error is a reply without a result.
LEMMA RaiseTyped ==
    ASSUME TypeOK, NEW c \in Callers, NEW error \in Error, Raise(c, error)
    PROVE  /\ pc' \in [Callers -> Place] /\ pc' = [pc EXCEPT ![c] = "done"]
           /\ reply' \in [Callers -> Reply] /\ reply'[c].result = None
           /\ \A e \in Callers : e # c => reply'[e] = reply[e]
           /\ inserted' \in [Callers -> SUBSET {"strategy", "run"}]
           /\ inserted' = [inserted EXCEPT ![c] = {}]
<1> DEFINE answer == [error |-> error, result |-> None]
<1>1. answer \in Reply
  BY DEF Reply
<1>2. [NoReply EXCEPT !.error = error] = answer
  BY DEF NoReply
<1>3. End(c, answer)
  BY <1>2 DEF Raise
<1>4. answer.result = None
  OBVIOUS
<1> HIDE DEF answer
<1>5. reply' = [reply EXCEPT ![c] = answer]
  BY <1>1, <1>3, EndTyped
<1>6. reply'[c] = answer
  BY <1>5 DEF TypeOK
<1>7. \A e \in Callers : e # c => reply'[e] = reply[e]
  BY <1>5 DEF TypeOK
<1> QED
  BY <1>1, <1>3, <1>4, <1>6, <1>7, EndTyped

\* A call returns a result.
LEMMA ReturnTyped ==
    ASSUME TypeOK, NEW c \in Callers, NEW result \in Result \cup {None}, Return(c, result)
    PROVE  /\ pc' \in [Callers -> Place] /\ pc' = [pc EXCEPT ![c] = "done"]
           /\ reply' \in [Callers -> Reply] /\ reply'[c].result = result
           /\ \A e \in Callers : e # c => reply'[e] = reply[e]
           /\ inserted' \in [Callers -> SUBSET {"strategy", "run"}]
           /\ inserted' = [inserted EXCEPT ![c] = {}]
<1> DEFINE answer == [error |-> None, result |-> result]
<1>1. answer \in Reply
  BY DEF Reply
<1>2. [NoReply EXCEPT !.result = result] = answer
  BY DEF NoReply
<1>3. End(c, answer)
  BY <1>2 DEF Return
<1>4. answer.result = result
  OBVIOUS
<1> HIDE DEF answer
<1>5. reply' = [reply EXCEPT ![c] = answer]
  BY <1>1, <1>3, EndTyped
<1>6. reply'[c] = answer
  BY <1>5 DEF TypeOK
<1>7. \A e \in Callers : e # c => reply'[e] = reply[e]
  BY <1>5 DEF TypeOK
<1> QED
  BY <1>1, <1>3, <1>4, <1>6, <1>7, EndTyped

\* Counting a failure.
LEMMA FaultTyped ==
    ASSUME TypeOK, NEW c \in Callers, Fault(c)
    PROVE  /\ faults' \in [Callers -> Nat] /\ faults'[c] = faults[c] + 1
           /\ \A e \in Callers : e # c => faults'[e] = faults[e]
  BY DEF Fault, TypeOK

-----------------------------------------------------------------------------
(* Steps of the first transaction *)

\* A call that has no run yet keeps the invariant if its own inserts and its own
\* reply do.
LEMMA EarlyStep ==
    ASSUME RunInv, NEW c \in Callers, pc[c] \notin Later,
           UNCHANGED <<strategy, run, ledger>>, TypeOK',
           pc'[c] \notin {"idle", "mark_running", "simulate", "persist"},
           \A e \in Callers : e # c =>
              /\ pc'[e] = pc[e] /\ doc'[e] = doc[e] /\ faults'[e] = faults[e]
              /\ inserted'[e] = inserted[e] /\ reply'[e] = reply[e],
           InsertsOK(c)',
           \A e \in Callers : e # c =>
              /\ "strategy" \in inserted'[c] => "strategy" \notin inserted[e]
              /\ "run" \in inserted'[c] /\ "run" \in inserted[e] => doc'[c].code # doc[e].code,
           reply'[c].result # None =>
              /\ reply'[c].result.spec = doc'[c].spec
              /\ run[doc'[c].code].status = "SUCCEEDED"
              /\ ledger[doc'[c].code] = reply'[c].result
    PROVE  RunInv'
<1>1. \A k \in Codes : RowOK(k)'
  BY RowsKept
<1>2. \A e \in Callers : InsertsOK(e)'
  <2>1. ASSUME NEW e \in Callers, e # c
        PROVE  InsertsOK(e)'
    BY <2>1 DEF RunInv, InsertsOK, Code
  <2> QED
    BY <2>1
<1>3. \A e \in Callers : OwnsItsRun(e)'
  BY DEF RunInv, OwnsItsRun, OwnRun, Code
<1>4. InsertsAreAlone'
  BY DEF RunInv, InsertsAreAlone, Code
<1>5. \A e \in Callers : pc'[e] = "idle" => reply'[e].result = None
  BY DEF RunInv
<1>6. ResultsAreRecorded'
  BY DEF RunInv, ResultsAreRecorded, Code
<1> QED
  BY <1>1, <1>2, <1>3, <1>4, <1>5, <1>6 DEF RunInv

\* A call that ends without a run keeps the invariant.
LEMMA EarlyEnd ==
    ASSUME RunInv, NEW c \in Callers, pc[c] \notin Later, NEW error \in Error, Raise(c, error),
           UNCHANGED <<strategy, run, ledger, artifact>>,
           doc' \in [Callers -> Documents \cup {None}], doc'[c] # None,
           faults' \in [Callers -> Nat],
           \A e \in Callers : e # c => doc'[e] = doc[e] /\ faults'[e] = faults[e]
    PROVE  RunInv'
<1>0. TypeOK
  BY DEF RunInv
<1>1. /\ pc' \in [Callers -> Place] /\ pc' = [pc EXCEPT ![c] = "done"]
      /\ reply' \in [Callers -> Reply] /\ reply'[c].result = None
      /\ \A e \in Callers : e # c => reply'[e] = reply[e]
      /\ inserted' \in [Callers -> SUBSET {"strategy", "run"}]
      /\ inserted' = [inserted EXCEPT ![c] = {}]
  BY <1>0, RaiseTyped
<1>2. TypeOK'
  BY <1>0, <1>1 DEF TypeOK
<1>3. pc'[c] = "done" /\ inserted'[c] = {}
  BY <1>0, <1>1 DEF TypeOK
<1>4. InsertsOK(c)'
  BY <1>3 DEF InsertsOK
<1>5. \A e \in Callers : e # c => pc'[e] = pc[e] /\ inserted'[e] = inserted[e]
  BY <1>0, <1>1 DEF TypeOK
<1> QED
  BY <1>1, <1>2, <1>3, <1>4, <1>5, EarlyStep

\* _preflight and _load_selectors.
LEMMA PrepareSafe ==
    ASSUME RunInv, NEW c \in Callers, NEW d \in Documents, Prepare(c, d)
    PROVE  RunInv'
<1>0. TypeOK /\ pc[c] = "idle" /\ pc[c] \notin Later /\ d # None
  BY RunConstants DEF RunInv, Prepare, Later
<1>1. /\ doc' \in [Callers -> Documents \cup {None}] /\ doc'[c] = d
      /\ \A e \in Callers : e # c => doc'[e] = doc[e] /\ faults'[e] = faults[e]
      /\ faults' \in [Callers -> Nat] /\ UNCHANGED <<strategy, run, ledger, artifact>>
  BY <1>0 DEF Prepare, TypeOK
<1>2. CASE Raise(c, "ArtifactUnavailable")
  BY <1>0, <1>1, <1>2, EarlyEnd DEF Error
<1>3. CASE Goto(c, "start") /\ UNCHANGED <<reply, inserted>>
  <2>1. TypeOK'
    BY <1>0, <1>1, <1>3 DEF TypeOK, Goto, Place
  <2>2. pc'[c] = "start" /\ \A e \in Callers : e # c => pc'[e] = pc[e]
    BY <1>0, <1>3 DEF TypeOK, Goto
  <2>3. inserted'[c] = {} /\ reply'[c].result = None
    <3>1. inserted[c] \in SUBSET {"strategy", "run"}
      BY <1>0 DEF TypeOK
    <3> QED
      BY <1>0, <1>3, <3>1 DEF RunInv, InsertsOK
  <2>4. InsertsOK(c)'
    BY <2>2, <2>3 DEF InsertsOK
  <2> QED
    BY <1>0, <1>1, <1>3, <2>1, <2>2, <2>3, <2>4, EarlyStep
<1> QED
  BY <1>2, <1>3 DEF Prepare

\* The result of a run that SUCCEEDED, and the types of any run.
LEMMA RecordedRun ==
    ASSUME RunInv, NEW k \in Codes, run[k] # None
    PROVE  /\ run[k] \in Run /\ run[k].owner \in Callers /\ strategy \in Sources
           /\ run[k].status = "SUCCEEDED" =>
                 /\ run[k].result = [spec |-> run[k].spec, source |-> strategy]
                 /\ run[k].result \in Result /\ run[k].result.spec = run[k].spec
<1>1. run[k] \in Run
  BY DEF RunInv, TypeOK
<1>2. run[k].owner \in Callers /\ run[k].spec \in Specs
  BY <1>1 DEF Run
<1>3. pc[run[k].owner] # "idle" /\ doc[run[k].owner].source = strategy
  BY DEF RunInv, RowOK, Later
<1>4. strategy \in Sources
  BY <1>2, <1>3, DocTyped DEF RunInv
<1>5. ASSUME run[k].status = "SUCCEEDED"
      PROVE  run[k].result = [spec |-> run[k].spec, source |-> strategy]
  BY <1>5 DEF RunInv, RowOK
<1>6. [spec |-> run[k].spec, source |-> strategy].spec = run[k].spec
  OBVIOUS
<1> QED
  BY <1>1, <1>2, <1>4, <1>5, <1>6, ResultTyped

\* require_runnable: a replay returns what is recorded for the code.
LEMMA RequireSafe ==
    ASSUME RunInv, NEW c \in Callers, RequireRunnable(c)
    PROVE  RunInv'
<1> DEFINE row == run[Code(c)]
<1>0. /\ TypeOK /\ pc[c] = "start" /\ pc[c] \notin Later
      /\ UNCHANGED <<strategy, run, ledger, artifact, doc, faults>>
  BY DEF RunInv, RequireRunnable, Later
<1>1. Code(c) \in Codes /\ doc[c] # None
  BY <1>0, DocTyped, RunConstants
<1>2. inserted[c] = {} /\ faults' \in [Callers -> Nat] /\ doc' \in [Callers -> Documents \cup {None}]
  <2>1. inserted[c] \in SUBSET {"strategy", "run"}
    BY <1>0 DEF TypeOK
  <2> QED
    BY <1>0, <2>1 DEF RunInv, InsertsOK, TypeOK
<1>3. CASE Raise(c, "InProgress") \/ Raise(c, "Conflict")
  BY <1>0, <1>1, <1>2, <1>3, EarlyEnd DEF Error
<1>4. CASE Goto(c, "register") /\ UNCHANGED <<reply, inserted>>
  <2>1. TypeOK'
    BY <1>0, <1>4 DEF TypeOK, Goto, Place
  <2>2. pc'[c] = "register" /\ \A e \in Callers : e # c => pc'[e] = pc[e]
    BY <1>0, <1>4 DEF TypeOK, Goto
  <2>3. InsertsOK(c)'
    BY <1>2, <1>4, <2>2 DEF InsertsOK
  <2>4. reply'[c].result # None =>
           /\ reply'[c].result.spec = doc[c].spec
           /\ run[doc[c].code].status = "SUCCEEDED"
           /\ ledger[doc[c].code] = reply'[c].result
    BY <1>4 DEF RunInv, ResultsAreRecorded, Code
  <2> QED
    BY <1>0, <1>2, <1>4, <2>1, <2>2, <2>3, <2>4, EarlyStep
<1>5. CASE row # None /\ Replayable(row, doc[c]) /\ Return(c, row.result)
  <2>1. row.result \in Result /\ row.result.spec = doc[c].spec /\ row.status = "SUCCEEDED"
    BY <1>1, <1>5, RecordedRun DEF Replayable
  <2>2. ledger[Code(c)] = row.result
    BY <1>1, <1>5 DEF RunInv, RowOK
  <2>3. /\ pc' \in [Callers -> Place] /\ pc' = [pc EXCEPT ![c] = "done"]
        /\ reply' \in [Callers -> Reply] /\ reply'[c].result = row.result
        /\ \A e \in Callers : e # c => reply'[e] = reply[e]
        /\ inserted' \in [Callers -> SUBSET {"strategy", "run"}]
        /\ inserted' = [inserted EXCEPT ![c] = {}]
    BY <1>0, <1>5, <2>1, ReturnTyped
  <2>4. TypeOK'
    BY <1>0, <2>3 DEF TypeOK
  <2>5. /\ pc'[c] = "done" /\ inserted'[c] = {}
        /\ \A e \in Callers : e # c => pc'[e] = pc[e] /\ inserted'[e] = inserted[e]
    BY <1>0, <2>3 DEF TypeOK
  <2>6. InsertsOK(c)'
    BY <2>5 DEF InsertsOK
  <2> QED
    BY <1>0, <2>1, <2>2, <2>3, <2>4, <2>5, <2>6, EarlyStep DEF Code
<1> QED
  BY <1>3, <1>4, <1>5 DEF RequireRunnable

\* ensure_strategy_version: whoever goes on will run under the registered strategy.
LEMMA RegisterSafe ==
    ASSUME RunInv, NEW c \in Callers, RegisterStrategy(c)
    PROVE  RunInv'
<1>0. /\ TypeOK /\ pc[c] = "register" /\ pc[c] \notin Later
      /\ UNCHANGED <<strategy, run, ledger, artifact, doc, faults>>
  BY DEF RunInv, RegisterStrategy, Later
<1>1. doc[c] # None /\ faults' \in [Callers -> Nat] /\ doc' \in [Callers -> Documents \cup {None}]
  BY <1>0, DocTyped, RunConstants DEF TypeOK
<1>2. inserted[c] = {}
  <2>1. inserted[c] \in SUBSET {"strategy", "run"}
    BY <1>0 DEF TypeOK
  <2> QED
    BY <1>0, <2>1 DEF RunInv, InsertsOK
<1>3. CASE Raise(c, "StrategyConflict")
  BY <1>0, <1>1, <1>3, EarlyEnd DEF Error
<1>4. CASE /\ \/ /\ strategy = None
                 /\ inserted' = [inserted EXCEPT ![c] = @ \cup {"strategy"}]
              \/ strategy # None /\ VersionMatches(c) /\ UNCHANGED inserted
           /\ Goto(c, "create") /\ UNCHANGED reply
  <2>1. TypeOK'
    BY <1>0, <1>4 DEF TypeOK, Goto, Place
  <2>2. /\ pc'[c] = "create"
        /\ \A e \in Callers : e # c => pc'[e] = pc[e] /\ inserted'[e] = inserted[e]
    BY <1>0, <1>4 DEF TypeOK, Goto
  <2>3. /\ "run" \notin inserted'[c]
        /\ "strategy" \in inserted'[c] => strategy = None
        /\ "strategy" \notin inserted'[c] => strategy = doc[c].source
    BY <1>0, <1>2, <1>4 DEF TypeOK, VersionMatches
  <2>4. InsertsOK(c)'
    BY <1>0, <2>2, <2>3 DEF InsertsOK
  <2>5. \A e \in Callers : "strategy" \notin inserted[e]
    BY DEF RegisterStrategy, Inserting
  <2>6. reply'[c].result # None =>
           /\ reply'[c].result.spec = doc[c].spec
           /\ run[doc[c].code].status = "SUCCEEDED"
           /\ ledger[doc[c].code] = reply'[c].result
    BY <1>4 DEF RunInv, ResultsAreRecorded, Code
  <2> QED
    BY <1>0, <1>4, <2>1, <2>2, <2>3, <2>4, <2>5, <2>6, EarlyStep
<1> QED
  BY <1>3, <1>4 DEF RegisterStrategy

\* create_queued: the insert is of a code that nobody has and nobody else inserts.
LEMMA CreateSafe ==
    ASSUME RunInv, NEW c \in Callers, CreateQueued(c)
    PROVE  RunInv'
<1>0. /\ TypeOK /\ pc[c] = "create" /\ pc[c] \notin Later
      /\ UNCHANGED <<strategy, run, ledger, artifact, doc, faults>>
  BY DEF RunInv, CreateQueued, Later
<1>1. doc[c] # None /\ faults' \in [Callers -> Nat] /\ doc' \in [Callers -> Documents \cup {None}]
  BY <1>0, DocTyped, RunConstants DEF TypeOK
<1>2. CASE Raise(c, "Failed")
  BY <1>0, <1>1, <1>2, EarlyEnd DEF Error
<1>3. CASE /\ \A other \in Inserting("run") : Code(other) # Code(c)
           /\ run[Code(c)] = None
           /\ inserted' = [inserted EXCEPT ![c] = @ \cup {"run"}]
           /\ Goto(c, "commit")
           /\ UNCHANGED reply
  <2>1. TypeOK'
    BY <1>0, <1>3 DEF TypeOK, Goto, Place
  <2>2. /\ pc'[c] = "commit" /\ inserted'[c] = inserted[c] \cup {"run"}
        /\ \A e \in Callers : e # c => pc'[e] = pc[e] /\ inserted'[e] = inserted[e]
    BY <1>0, <1>3 DEF TypeOK, Goto
  <2>3. InsertsOK(c)'
    BY <1>0, <1>3, <2>2 DEF RunInv, InsertsOK, Code
  <2>4. \A e \in Callers : e # c =>
           /\ "strategy" \in inserted'[c] => "strategy" \notin inserted[e]
           /\ "run" \in inserted[e] => doc[c].code # doc[e].code
    BY <1>3, <2>2 DEF RunInv, InsertsAreAlone, Inserting, Code
  <2>5. reply'[c].result # None =>
           /\ reply'[c].result.spec = doc[c].spec
           /\ run[doc[c].code].status = "SUCCEEDED"
           /\ ledger[doc[c].code] = reply'[c].result
    BY <1>3 DEF RunInv, ResultsAreRecorded, Code
  <2> QED
    BY <1>0, <1>3, <2>1, <2>2, <2>3, <2>4, <2>5, EarlyStep
<1> QED
  BY <1>2, <1>3 DEF CreateQueued

\* A failed statement of the first transaction.
LEMMA FailBeforeSafe ==
    ASSUME RunInv, NEW c \in Callers, FailBeforeRun(c)
    PROVE  RunInv'
<1>0. /\ TypeOK /\ pc[c] # "idle" /\ pc[c] \notin Later /\ Raise(c, "Failed")
      /\ UNCHANGED <<strategy, run, ledger, artifact, doc>>
  BY DEF RunInv, FailBeforeRun, Later
<1>1. doc[c] # None /\ doc' \in [Callers -> Documents \cup {None}]
  BY <1>0, DocTyped, RunConstants DEF TypeOK
<1>2. /\ faults' \in [Callers -> Nat]
      /\ \A e \in Callers : e # c => faults'[e] = faults[e]
  BY <1>0, FaultTyped DEF FailBeforeRun
<1> QED
  BY <1>0, <1>1, <1>2, EarlyEnd DEF Error

\* The transaction is rolled back, by a failed commit or because the process stops.
LEMMA EarlyRollBack ==
    ASSUME RunInv, NEW c \in Callers, pc[c] \notin Later, pc[c] # "idle",
           NEW place \in {"mark_failed", "dead"}, Goto(c, place),
           inserted' = [inserted EXCEPT ![c] = {}],
           UNCHANGED <<strategy, run, ledger, artifact, doc, reply>>,
           faults' \in [Callers -> Nat],
           \A e \in Callers : e # c => faults'[e] = faults[e]
    PROVE  RunInv'
<1>0. TypeOK
  BY DEF RunInv
<1>1. TypeOK'
  BY <1>0 DEF TypeOK, Goto, Place
<1>2. /\ pc'[c] = place /\ inserted'[c] = {}
      /\ \A e \in Callers : e # c => pc'[e] = pc[e] /\ inserted'[e] = inserted[e]
  BY <1>0 DEF TypeOK, Goto
<1>3. InsertsOK(c)'
  BY <1>2 DEF InsertsOK
<1>4. reply'[c].result # None =>
           /\ reply'[c].result.spec = doc[c].spec
           /\ run[doc[c].code].status = "SUCCEEDED"
           /\ ledger[doc[c].code] = reply'[c].result
  BY DEF RunInv, ResultsAreRecorded, Code
<1> QED
  BY <1>1, <1>2, <1>3, <1>4, EarlyStep

\* The failed commit of the first transaction.
LEMMA RollBackQueuedSafe ==
    ASSUME RunInv, NEW c \in Callers, RollBackQueued(c)
    PROVE  RunInv'
<1>1. TypeOK /\ pc[c] = "commit" /\ pc[c] \notin Later
  BY DEF RunInv, RollBackQueued, Later
<1>2. /\ faults' \in [Callers -> Nat]
      /\ \A e \in Callers : e # c => faults'[e] = faults[e]
  BY <1>1, FaultTyped DEF RollBackQueued
<1> QED
  BY <1>1, <1>2, EarlyRollBack DEF RollBackQueued

-----------------------------------------------------------------------------
(* Steps on a run *)

\* A call whose first transaction has ended changes no run but its own, and none
\* that SUCCEEDED; then the invariant is kept if it holds of its own run.
LEMMA LateStep ==
    ASSUME RunInv, NEW c \in Callers, NEW k \in Codes, k = Code(c),
           pc[c] \in Later, pc'[c] \in Later, TypeOK',
           UNCHANGED <<strategy, doc>>, inserted'[c] = {},
           \A e \in Callers : e # c =>
              /\ pc'[e] = pc[e] /\ faults'[e] = faults[e]
              /\ inserted'[e] = inserted[e] /\ reply'[e] = reply[e],
           \A j \in Codes :
              j # k \/ ~OwnRun(c) \/ run[j].status = "SUCCEEDED" =>
                 run'[j] = run[j] /\ ledger'[j] = ledger[j],
           OwnRun(c) => run'[k] # None /\ run'[k].owner = c /\ RowOK(k)',
           pc'[c] \in {"mark_running", "simulate", "persist"} => OwnRun(c),
           reply'[c].result # None =>
              /\ reply'[c].result.spec = doc[c].spec
              /\ run'[k].status = "SUCCEEDED" /\ ledger'[k] = reply'[c].result
    PROVE  RunInv'
<1>0. TypeOK
  BY DEF RunInv
<1>1. ASSUME NEW j \in Codes
      PROVE  RowOK(j)'
  <2>1. CASE j = k /\ OwnRun(c)
    BY <2>1
  <2>2. CASE j # k \/ ~OwnRun(c)
    <3>1. run'[j] = run[j] /\ ledger'[j] = ledger[j]
      BY <2>2
    <3>2. CASE run[j] = None
      BY <3>1, <3>2 DEF RunInv, RowOK
    <3>3. CASE run[j] # None
      <4>1. run[j].owner \in Callers /\ RowOK(j)
        BY <3>3, RecordedRun DEF RunInv
      <4>2. run[j].owner # c
        BY <2>2, <3>3, <4>1 DEF RowOK, OwnRun, Code
      <4> QED
        BY <3>1, <3>3, <4>1, <4>2 DEF RowOK
    <3> QED
      BY <3>2, <3>3
  <2> QED
    BY <2>1, <2>2
<1>2. ASSUME NEW e \in Callers
      PROVE  InsertsOK(e)' /\ OwnsItsRun(e)'
  <2>1. CASE e = c
    BY <2>1 DEF Later, InsertsOK, OwnsItsRun, OwnRun, Code
  <2>2. CASE e # c
    <3>1. pc[e] # "idle" => Code(e) \in Codes
      BY <1>0, DocTyped
    <3>2. pc[e] = "commit" => run'[Code(e)] = None
      BY <3>1 DEF RunInv, InsertsOK, OwnRun
    <3>3. ASSUME pc[e] \in {"mark_running", "simulate", "persist"}
          PROVE  run'[Code(e)] = run[Code(e)]
      <4>1. Code(e) \in Codes /\ run[Code(e)] # None /\ run[Code(e)].owner = e
        BY <3>1, <3>3 DEF RunInv, OwnsItsRun, OwnRun
      <4> QED
        BY <2>2, <4>1 DEF OwnRun
    <3>4. InsertsOK(e)'
      BY <2>2, <3>2 DEF RunInv, InsertsOK, Code
    <3>5. OwnsItsRun(e)'
      BY <2>2, <3>3 DEF RunInv, OwnsItsRun, OwnRun, Code
    <3> QED
      BY <3>4, <3>5
  <2> QED
    BY <2>1, <2>2
<1>3. InsertsAreAlone'
  BY DEF RunInv, InsertsAreAlone, Code
<1>4. \A e \in Callers : pc'[e] = "idle" => reply'[e].result = None
  BY DEF RunInv, Later
<1>5. ResultsAreRecorded'
  <2> SUFFICES ASSUME NEW e \in Callers, reply'[e].result # None
               PROVE  /\ reply'[e].result.spec = doc[e].spec
                      /\ run'[Code(e)].status = "SUCCEEDED"
                      /\ ledger'[Code(e)] = reply'[e].result
    BY DEF ResultsAreRecorded, Code
  <2>1. CASE e = c
    BY <2>1
  <2>2. CASE e # c
    <3>1. Code(e) \in Codes
      BY <1>0, <2>2, DocTyped DEF RunInv
    <3> QED
      BY <2>2, <3>1 DEF RunInv, ResultsAreRecorded
  <2> QED
    BY <2>1, <2>2
<1> QED
  BY <1>1, <1>2, <1>3, <1>4, <1>5 DEF RunInv

\* A call that has a run has nothing left to insert.
LEMMA LateInserts ==
    ASSUME RunInv, NEW c \in Callers, pc[c] \in Later
    PROVE  inserted[c] = {}
<1>1. inserted[c] \in SUBSET {"strategy", "run"}
  BY DEF RunInv, TypeOK
<1> QED
  BY <1>1 DEF RunInv, InsertsOK, Later

\* The call moves to another place and its run stays as it is.
LEMMA LateMove ==
    ASSUME RunInv, NEW c \in Callers, pc[c] \in Later,
           NEW place \in {"persist", "mark_failed", "dead"}, Goto(c, place),
           UNCHANGED <<strategy, run, ledger, artifact, doc, inserted, reply>>,
           faults' \in [Callers -> Nat],
           \A e \in Callers : e # c => faults'[e] = faults[e],
           OwnRun(c) => Progress(place, run[Code(c)], faults'[c]),
           place = "persist" => OwnRun(c)
    PROVE  RunInv'
<1>0. TypeOK /\ pc[c] # "idle"
  BY DEF RunInv, Later
<1>1. PICK k \in Codes : k = Code(c)
  BY <1>0, DocTyped
<1>2. TypeOK'
  BY <1>0 DEF TypeOK, Goto, Place
<1>3. pc'[c] = place /\ \A e \in Callers : e # c => pc'[e] = pc[e]
  BY <1>0 DEF TypeOK, Goto
<1>4. place \in Later
  BY DEF Later
<1>5. OwnRun(c) => run[k] # None /\ run[k].owner = c /\ RowOK(k)'
  <2>1. OwnRun(c) => run[k] # None /\ run[k].owner = c
    BY <1>1 DEF OwnRun
  <2> QED
    BY <1>1, <1>3, <1>4, <2>1 DEF RunInv, RowOK
<1>6. inserted'[c] = {}
  BY LateInserts
<1>7. reply'[c].result # None =>
         /\ reply'[c].result.spec = doc[c].spec
         /\ run'[k].status = "SUCCEEDED" /\ ledger'[k] = reply'[c].result
  BY <1>1 DEF RunInv, ResultsAreRecorded
<1> QED
  BY <1>1, <1>2, <1>3, <1>4, <1>5, <1>6, <1>7, LateStep

\* What the invariant says of the call's own run.
LEMMA OwnRow ==
    ASSUME RunInv, NEW c \in Callers, Code(c) \in Codes, OwnRun(c)
    PROVE  /\ run[Code(c)] \in Run /\ run[Code(c)].owner = c
           /\ run[Code(c)].spec = doc[c].spec /\ doc[c].source = strategy
           /\ ledger[Code(c)] = run[Code(c)].result
           /\ run[Code(c)].status # "SUCCEEDED" => run[Code(c)].result = None
           /\ Progress(pc[c], run[Code(c)], faults[c])
<1>1. run[Code(c)] # None /\ run[Code(c)].owner = c /\ RowOK(Code(c))
  BY DEF OwnRun, RunInv
<1>2. run[Code(c)] \in Run
  BY <1>1, RecordedRun
<1> QED
  BY <1>1, <1>2 DEF RowOK

\* The simulation: what cannot be simulated goes on to be marked FAILED.
LEMMA SimulateSafe ==
    ASSUME RunInv, NEW c \in Callers, Simulate(c)
    PROVE  RunInv'
<1>1. /\ TypeOK /\ pc[c] = "simulate" /\ pc[c] \in Later
      /\ UNCHANGED <<strategy, run, ledger, artifact, doc, inserted, faults, reply>>
  BY DEF RunInv, Simulate, Later
<1>2. OwnRun(c) /\ Code(c) \in Codes
  BY <1>1, DocTyped DEF RunInv, OwnsItsRun
<1>3. run[Code(c)].status = "RUNNING" /\ run[Code(c)].spec = doc[c].spec
  BY <1>1, <1>2, OwnRow DEF Progress
<1>4. faults' \in [Callers -> Nat]
  BY <1>1 DEF TypeOK
<1>5. CASE doc[c].spec \in Runnable
  <2>1. Progress("persist", run[Code(c)], faults'[c])
    BY <1>3 DEF Progress
  <2> QED
    BY <1>1, <1>2, <1>4, <1>5, <2>1, LateMove DEF Simulate
<1>6. CASE doc[c].spec \notin Runnable
  <2>1. Progress("mark_failed", run[Code(c)], faults'[c])
    BY <1>3, <1>6 DEF Progress
  <2> QED
    BY <1>1, <1>2, <1>4, <1>6, <2>1, LateMove DEF Simulate
<1> QED
  BY <1>5, <1>6

\* A transaction on the run is rolled back.
LEMMA RollBackSafe ==
    ASSUME RunInv, NEW c \in Callers, RollBack(c)
    PROVE  RunInv'
<1>1. /\ TypeOK /\ pc[c] \in {"mark_running", "persist"} /\ pc[c] \in Later
      /\ UNCHANGED <<strategy, run, ledger, artifact, doc, inserted, reply>>
      /\ Goto(c, "mark_failed") /\ Fault(c)
  BY DEF RunInv, RollBack, Later
<1>2. /\ faults' \in [Callers -> Nat] /\ faults'[c] = faults[c] + 1 /\ faults[c] \in Nat
      /\ \A e \in Callers : e # c => faults'[e] = faults[e]
  BY <1>1, FaultTyped DEF TypeOK
<1>3. Progress("mark_failed", run[Code(c)], faults'[c])
  BY <1>2 DEF Progress
<1> QED
  BY <1>1, <1>2, <1>3, LateMove

\* The process stops, before or after the run exists.
LEMMA CrashSafe ==
    ASSUME RunInv, NEW c \in Callers, Crash(c)
    PROVE  RunInv'
<1>1. TypeOK /\ pc[c] # "idle" /\ faults' \in [Callers -> Nat] /\ faults' = faults
  BY DEF RunInv, Crash, TypeOK
<1>2. CASE pc[c] \notin Later
  BY <1>1, <1>2, EarlyRollBack DEF Crash
<1>3. CASE pc[c] \in Later
  <2>1. inserted' = inserted
    BY <1>1, <1>3, LateInserts DEF Crash, TypeOK
  <2>2. Progress("dead", run[Code(c)], faults'[c])
    BY DEF Progress
  <2> QED
    BY <1>1, <1>3, <2>1, <2>2, LateMove DEF Crash
<1> QED
  BY <1>2, <1>3

\* An UPDATE of the status of a run leaves its other columns.
LEMMA StatusUpdate ==
    ASSUME TypeOK, NEW k \in Codes, run[k] \in Run, NEW status \in Status,
           run' = [run EXCEPT ![k].status = status]
    PROVE  /\ run' \in [Codes -> Run \cup {None}] /\ run'[k] # None
           /\ run'[k].status = status /\ run'[k].owner = run[k].owner
           /\ run'[k].spec = run[k].spec /\ run'[k].result = run[k].result
           /\ \A j \in Codes : j # k => run'[j] = run[j]
<1> DEFINE row == [run[k] EXCEPT !.status = status]
<1>1. /\ row \in Run /\ row.status = status /\ row.owner = run[k].owner
      /\ row.spec = run[k].spec /\ row.result = run[k].result
  BY DEF Run
<1>2. row # None
  BY <1>1, RunConstants
<1>3. run' = [run EXCEPT ![k] = row]
  OBVIOUS
<1> HIDE DEF row
<1>4. run'[k] = row /\ run' \in [Codes -> Run \cup {None}]
  BY <1>1, <1>3 DEF TypeOK
<1>5. \A j \in Codes : j # k => run'[j] = run[j]
  BY <1>3 DEF TypeOK
<1> QED
  BY <1>1, <1>2, <1>4, <1>5

\* mark_running.
LEMMA MarkRunningSafe ==
    ASSUME RunInv, NEW c \in Callers, MarkRunning(c)
    PROVE  RunInv'
<1>1. /\ TypeOK /\ pc[c] = "mark_running" /\ pc[c] \in Later
      /\ UNCHANGED <<strategy, ledger, artifact, doc, inserted, reply>>
  BY DEF RunInv, MarkRunning, Later
<1>2. PICK k \in Codes : k = Code(c)
  BY <1>1, DocTyped
<1>3. /\ OwnRun(c) /\ run[k] \in Run /\ run[k].owner = c /\ run[k].spec = doc[c].spec
      /\ doc[c].source = strategy /\ ledger[k] = run[k].result
      /\ run[k].status = "QUEUED" /\ run[k].result = None
  <2>1. OwnRun(c)
    BY <1>1 DEF RunInv, OwnsItsRun
  <2> QED
    BY <1>1, <1>2, <2>1, OwnRow DEF Progress
<1>4. /\ run' \in [Codes -> Run \cup {None}] /\ run'[k] # None
      /\ run'[k].status = "RUNNING" /\ run'[k].owner = c
      /\ run'[k].spec = doc[c].spec /\ run'[k].result = None
      /\ \A j \in Codes : j # k => run'[j] = run[j]
  <2>1. "RUNNING" \in Status /\ run' = [run EXCEPT ![k].status = "RUNNING"]
    BY <1>2 DEF MarkRunning, Status
  <2> QED
    BY <1>1, <1>3, <2>1, StatusUpdate
<1>5. PICK place \in {"simulate", "mark_failed"} :
         /\ Goto(c, place) /\ faults' \in [Callers -> Nat]
         /\ place = "mark_failed" => faults'[c] >= 1
         /\ \A e \in Callers : e # c => faults'[e] = faults[e]
  <2>1. CASE Goto(c, "simulate") /\ UNCHANGED faults
    BY <1>1, <2>1 DEF TypeOK
  <2>2. CASE Fault(c) /\ Goto(c, "mark_failed")
    <3>1. faults[c] \in Nat
      BY <1>1 DEF TypeOK
    <3> QED
      BY <1>1, <2>2, <3>1, FaultTyped
  <2> QED
    BY <2>1, <2>2 DEF MarkRunning
<1>6. TypeOK'
  BY <1>1, <1>4, <1>5 DEF TypeOK, Goto, Place
<1>7. pc'[c] = place /\ place \in Later /\ \A e \in Callers : e # c => pc'[e] = pc[e]
  BY <1>1, <1>5 DEF TypeOK, Goto, Later
<1>8. Progress(place, run'[k], faults'[c])
  BY <1>4, <1>5 DEF Progress
<1>9. RowOK(k)'
  BY <1>1, <1>2, <1>3, <1>4, <1>7, <1>8 DEF RowOK, Code
<1>10. reply'[c].result # None =>
         /\ reply'[c].result.spec = doc[c].spec
         /\ run'[k].status = "SUCCEEDED" /\ ledger'[k] = reply'[c].result
  BY <1>1, <1>2, <1>3 DEF RunInv, ResultsAreRecorded
<1>11. \A j \in Codes :
          j # k \/ ~OwnRun(c) \/ run[j].status = "SUCCEEDED" =>
             run'[j] = run[j] /\ ledger'[j] = ledger[j]
  BY <1>1, <1>3, <1>4
<1>12. inserted'[c] = {}
  BY <1>1, LateInserts
<1> QED
  BY <1>1, <1>2, <1>3, <1>4, <1>5, <1>6, <1>7, <1>9, <1>10, <1>11, <1>12, LateStep

\* persist and mark_succeeded: the result and the ledger appear together.
LEMMA PersistSafe ==
    ASSUME RunInv, NEW c \in Callers, Persist(c)
    PROVE  RunInv'
<1>1. /\ TypeOK /\ pc[c] = "persist" /\ pc[c] \in Later
      /\ UNCHANGED <<strategy, artifact, doc>>
  BY DEF RunInv, Persist, Later
<1>2. PICK k \in Codes : k = Code(c)
  BY <1>1, DocTyped
<1>3. /\ OwnRun(c) /\ run[k] \in Run /\ run[k].owner = c /\ run[k].spec = doc[c].spec
      /\ doc[c].source = strategy /\ run[k].status = "RUNNING" /\ run[k].result = None
  <2>1. OwnRun(c)
    BY <1>1 DEF RunInv, OwnsItsRun
  <2> QED
    BY <1>1, <1>2, <2>1, OwnRow DEF Progress
<1>4. PICK result \in Result :
         /\ result = ResultOf(c) /\ result = [spec |-> doc[c].spec, source |-> strategy]
         /\ result.spec = doc[c].spec
  <2>1. ResultOf(c) = [spec |-> doc[c].spec, source |-> strategy]
    BY <1>3 DEF ResultOf
  <2>2. [spec |-> doc[c].spec, source |-> strategy] \in Result
    BY <1>1, <1>3, DocTyped, ResultTyped
  <2>3. [spec |-> doc[c].spec, source |-> strategy].spec = doc[c].spec
    OBVIOUS
  <2> QED
    BY <2>1, <2>2, <2>3
<1>5. /\ run' \in [Codes -> Run \cup {None}] /\ run'[k] # None
      /\ run'[k].status = "SUCCEEDED" /\ run'[k].owner = c
      /\ run'[k].spec = doc[c].spec /\ run'[k].result = result
      /\ \A j \in Codes : j # k => run'[j] = run[j]
  <2> DEFINE row == [run[k] EXCEPT !.status = "SUCCEEDED", !.result = result]
  <2>1. /\ row \in Run /\ row.status = "SUCCEEDED" /\ row.owner = c
        /\ row.spec = doc[c].spec /\ row.result = result
    BY <1>3 DEF Run, Status
  <2>2. row # None
    BY <2>1, RunConstants
  <2>3. run' = [run EXCEPT ![k] = row]
    BY <1>1, <1>2, <1>4 DEF Persist, TypeOK
  <2> HIDE DEF row
  <2>4. run'[k] = row /\ run' \in [Codes -> Run \cup {None}]
    BY <1>1, <2>1, <2>3 DEF TypeOK
  <2>5. \A j \in Codes : j # k => run'[j] = run[j]
    BY <1>1, <2>3 DEF TypeOK
  <2> QED
    BY <2>1, <2>2, <2>4, <2>5
<1>6. /\ ledger' \in [Codes -> Result \cup {None}] /\ ledger'[k] = result
      /\ \A j \in Codes : j # k => ledger'[j] = ledger[j]
  BY <1>1, <1>2, <1>4 DEF Persist, TypeOK
<1>7. /\ reply' \in [Callers -> Reply] /\ inserted' = [inserted EXCEPT ![c] = {}]
      /\ \A e \in Callers : e # c => reply'[e] = reply[e] /\ faults'[e] = faults[e]
      /\ reply'[c].result \in {None, result}
      /\ faults' \in [Callers -> Nat]
      /\ \/ pc' = [pc EXCEPT ![c] = "done"]
         \/ pc' = [pc EXCEPT ![c] = "mark_failed"]
  <2>1. CASE Return(c, ResultOf(c)) /\ UNCHANGED faults
    BY <1>1, <1>4, <2>1, ReturnTyped DEF TypeOK
  <2>2. CASE Fault(c) /\ Goto(c, "mark_failed") /\ UNCHANGED <<inserted, reply>>
    <3>1. inserted' = [inserted EXCEPT ![c] = {}]
      BY <1>1, <2>2, LateInserts DEF TypeOK
    <3>2. reply[c].result = None
      BY <1>2, <1>3 DEF RunInv, ResultsAreRecorded
    <3>3. /\ faults' \in [Callers -> Nat]
          /\ \A e \in Callers : e # c => faults'[e] = faults[e]
      BY <1>1, <2>2, FaultTyped
    <3> QED
      BY <1>1, <2>2, <3>1, <3>2, <3>3 DEF Goto, TypeOK
  <2> QED
    BY <2>1, <2>2 DEF Persist
<1>8. TypeOK'
  BY <1>1, <1>5, <1>6, <1>7 DEF TypeOK, Place
<1>9. /\ pc'[c] \in {"done", "mark_failed"} /\ pc'[c] \in Later /\ inserted'[c] = {}
      /\ \A e \in Callers : e # c => pc'[e] = pc[e] /\ inserted'[e] = inserted[e]
  BY <1>1, <1>7 DEF TypeOK, Later
<1>10. Progress(pc'[c], run'[k], faults'[c])
  BY <1>5, <1>9 DEF Progress
<1>11. RowOK(k)'
  BY <1>1, <1>2, <1>3, <1>4, <1>5, <1>6, <1>9, <1>10 DEF RowOK, Code
<1>12. \A j \in Codes :
          j # k \/ ~OwnRun(c) \/ run[j].status = "SUCCEEDED" =>
             run'[j] = run[j] /\ ledger'[j] = ledger[j]
  BY <1>3, <1>5, <1>6
<1> QED
  BY <1>1, <1>2, <1>3, <1>4, <1>5, <1>6, <1>7, <1>8, <1>9, <1>11, <1>12, LateStep

\* _mark_failed: a run that is left RUNNING has met the failure of its UPDATE too.
LEMMA MarkFailedSafe ==
    ASSUME RunInv, NEW c \in Callers, MarkFailed(c)
    PROVE  RunInv'
<1>1. /\ TypeOK /\ pc[c] = "mark_failed" /\ pc[c] \in Later
      /\ UNCHANGED <<strategy, ledger, artifact, doc>> /\ faults[c] \in Nat
  BY DEF RunInv, MarkFailed, Later, TypeOK
<1>2. PICK k \in Codes : k = Code(c)
  BY <1>1, DocTyped
<1>3. /\ pc' \in [Callers -> Place] /\ pc' = [pc EXCEPT ![c] = "done"]
      /\ reply' \in [Callers -> Reply] /\ reply'[c].result = None
      /\ \A e \in Callers : e # c => reply'[e] = reply[e]
      /\ inserted' \in [Callers -> SUBSET {"strategy", "run"}]
      /\ inserted' = [inserted EXCEPT ![c] = {}]
  BY <1>1, RaiseTyped DEF MarkFailed, Error
<1>4. /\ pc'[c] = "done" /\ "done" \in Later /\ inserted'[c] = {}
      /\ \A e \in Callers : e # c => pc'[e] = pc[e] /\ inserted'[e] = inserted[e]
  BY <1>1, <1>3 DEF TypeOK, Later
<1>5. OwnRun(c) =>
         /\ run[k] # None /\ run[k] \in Run /\ run[k].owner = c /\ run[k].spec = doc[c].spec
         /\ doc[c].source = strategy /\ ledger[k] = run[k].result
         /\ run[k].status # "SUCCEEDED" => run[k].result = None
         /\ run[k].status = "QUEUED" => faults[c] >= 1
         /\ run[k].status = "RUNNING" => faults[c] >= 1 \/ run[k].spec \notin Runnable
         /\ RowOK(k)
  BY <1>1, <1>2, OwnRow DEF Progress, OwnRun, RunInv
<1>6. CASE Failable(c) /\ run' = [run EXCEPT ![Code(c)].status = "FAILED"] /\ UNCHANGED faults
  <2>1. OwnRun(c) /\ run[k].status = "RUNNING"
    BY <1>2, <1>6 DEF Failable
  <2>2. "FAILED" \in Status /\ run' = [run EXCEPT ![k].status = "FAILED"]
    BY <1>2, <1>6 DEF Status
  <2>3. /\ run' \in [Codes -> Run \cup {None}] /\ run'[k] # None
        /\ run'[k].status = "FAILED" /\ run'[k].owner = c
        /\ run'[k].spec = doc[c].spec /\ run'[k].result = None
        /\ \A j \in Codes : j # k => run'[j] = run[j]
    BY <1>1, <1>5, <2>1, <2>2, StatusUpdate
  <2>4. TypeOK'
    BY <1>1, <1>3, <1>6, <2>3 DEF TypeOK
  <2>5. Progress("done", run'[k], faults'[c])
    BY <2>3 DEF Progress
  <2>6. RowOK(k)'
    BY <1>1, <1>2, <1>4, <1>5, <2>1, <2>3, <2>5 DEF RowOK, Code
  <2>7. \A j \in Codes :
          j # k \/ ~OwnRun(c) \/ run[j].status = "SUCCEEDED" =>
             run'[j] = run[j] /\ ledger'[j] = ledger[j]
    BY <1>1, <2>1, <2>3
  <2> QED
    BY <1>1, <1>2, <1>3, <1>4, <1>6, <2>1, <2>3, <2>4, <2>6, <2>7, LateStep
<1>7. CASE run' = run /\ (Fault(c) \/ (~Failable(c) /\ UNCHANGED faults))
  <2>1. /\ faults' \in [Callers -> Nat]
        /\ \A e \in Callers : e # c => faults'[e] = faults[e]
        /\ OwnRun(c) /\ run[k].status \in {"QUEUED", "RUNNING"} => faults'[c] >= 1
        /\ OwnRun(c) /\ run[k].status = "RUNNING" /\ run[k].spec \in Runnable => faults'[c] >= 2
    <3>1. CASE Fault(c)
      BY <1>1, <1>5, <3>1, FaultTyped
    <3>2. CASE ~Failable(c) /\ UNCHANGED faults
      BY <1>1, <1>2, <1>5, <3>2 DEF Failable, TypeOK
    <3> QED
      BY <1>7, <3>1, <3>2
  <2>2. TypeOK'
    BY <1>1, <1>3, <1>7, <2>1 DEF TypeOK
  <2>3. OwnRun(c) => Progress("done", run[k], faults'[c])
    BY <1>1, <2>1 DEF Progress
  <2>4. OwnRun(c) => RowOK(k)'
    BY <1>1, <1>2, <1>4, <1>5, <1>7, <2>3 DEF RowOK, Code
  <2> QED
    BY <1>1, <1>2, <1>3, <1>4, <1>5, <1>7, <2>1, <2>2, <2>4, LateStep
<1> QED
  BY <1>6, <1>7 DEF MarkFailed

-----------------------------------------------------------------------------
(* The commit that creates a run *)

\* The commit adds one run and, if the call inserted it, the strategy; then there
\* was no run before.
LEMMA CommitQueuedSafe ==
    ASSUME RunInv, NEW c \in Callers, CommitQueued(c)
    PROVE  RunInv'
<1>1. /\ TypeOK /\ pc[c] = "commit" /\ UNCHANGED <<ledger, artifact, doc, reply>>
      /\ inserted' = [inserted EXCEPT ![c] = {}]
      /\ doc[c].source \in Sources /\ doc[c].spec \in Specs
  BY DocTyped DEF RunInv, CommitQueued
<1>2. PICK k \in Codes : k = Code(c)
  BY <1>1, DocTyped
<1>3. run[k] = None /\ ledger[k] = None /\ "run" \in inserted[c]
  BY <1>1, <1>2 DEF RunInv, InsertsOK, RowOK
<1>4. /\ run' \in [Codes -> Run \cup {None}] /\ run'[k] # None
      /\ run'[k].status = "QUEUED" /\ run'[k].owner = c
      /\ run'[k].spec = doc[c].spec /\ run'[k].result = None
      /\ \A j \in Codes : j # k => run'[j] = run[j]
  <2> DEFINE row == NewRun(c)
  <2>1. /\ row \in Run /\ row.status = "QUEUED" /\ row.owner = c
        /\ row.spec = doc[c].spec /\ row.result = None
    BY <1>1 DEF NewRun, Run, Status
  <2>2. row # None
    BY <2>1, RunConstants
  <2>3. run' = [run EXCEPT ![k] = row]
    BY <1>2 DEF CommitQueued, CommitInserts
  <2> HIDE DEF row
  <2>4. run'[k] = row /\ run' \in [Codes -> Run \cup {None}]
    BY <1>1, <2>1, <2>3 DEF TypeOK
  <2>5. \A j \in Codes : j # k => run'[j] = run[j]
    BY <1>1, <2>3 DEF TypeOK
  <2> QED
    BY <2>1, <2>2, <2>4, <2>5
\* The registered strategy is that of the call, and stays what it was.
<1>5. strategy' = doc[c].source /\ (strategy # None => strategy' = strategy)
  BY <1>1 DEF RunInv, InsertsOK, CommitQueued, CommitInserts
<1>6. PICK place \in {"mark_running", "mark_failed"} :
         /\ pc' = [pc EXCEPT ![c] = place] /\ faults' \in [Callers -> Nat]
         /\ place = "mark_failed" => faults'[c] >= 1
         /\ \A e \in Callers : e # c => faults'[e] = faults[e]
  <2>1. CASE Goto(c, "mark_running") /\ UNCHANGED faults
    BY <1>1, <2>1 DEF TypeOK, Goto
  <2>2. CASE Fault(c) /\ Goto(c, "mark_failed")
    <3>1. faults[c] \in Nat
      BY <1>1 DEF TypeOK
    <3> QED
      BY <1>1, <2>2, <3>1, FaultTyped DEF Goto
  <2> QED
    BY <2>1, <2>2 DEF CommitQueued
<1>7. TypeOK'
  BY <1>1, <1>4, <1>5, <1>6 DEF TypeOK, Place
<1>8. /\ pc'[c] = place /\ place \in Later /\ inserted'[c] = {}
      /\ \A e \in Callers : e # c => pc'[e] = pc[e] /\ inserted'[e] = inserted[e]
  BY <1>1, <1>6 DEF TypeOK, Later
<1>9. ASSUME NEW j \in Codes
      PROVE  RowOK(j)'
  <2>1. CASE j = k
    <3>1. Progress(place, run'[k], faults'[c])
      BY <1>4, <1>6 DEF Progress
    <3> QED
      BY <1>1, <1>2, <1>3, <1>4, <1>5, <1>8, <2>1, <3>1 DEF RowOK, Code
  <2>2. CASE j # k /\ run[j] = None
    BY <1>1, <1>4, <2>2 DEF RunInv, RowOK
  <2>3. CASE j # k /\ run[j] # None
    <3>1. run[j].owner \in Callers /\ strategy # None /\ RowOK(j)
      BY <2>3, RecordedRun, RunConstants DEF RunInv
    <3>2. run[j].owner # c
      BY <1>1, <2>3, <3>1 DEF RowOK, Later
    <3> QED
      BY <1>1, <1>4, <1>5, <1>6, <1>8, <2>3, <3>1, <3>2 DEF RowOK
  <2> QED
    BY <2>1, <2>2, <2>3
<1>10. ASSUME NEW e \in Callers
       PROVE  InsertsOK(e)' /\ OwnsItsRun(e)'
  <2>1. CASE e = c
    BY <1>1, <1>2, <1>4, <1>8, <2>1 DEF Later, InsertsOK, OwnsItsRun, OwnRun, Code
  <2>2. CASE e # c
    <3>1. pc[e] # "idle" => Code(e) \in Codes /\ doc[e].source \in Sources
      BY <1>1, DocTyped
    <3>2. "strategy" \in inserted[e] => FALSE
      <4>1. ASSUME "strategy" \in inserted[e]
            PROVE  strategy = None /\ strategy = doc[c].source
        BY <1>1, <2>2, <4>1 DEF RunInv, InsertsOK, InsertsAreAlone
      <4> QED
        BY <1>1, <4>1, RunConstants
    <3>3. pc[e] \in {"create", "commit"} => strategy = doc[e].source /\ strategy # None
      BY <3>1, <3>2, RunConstants DEF RunInv, InsertsOK
    <3>4. pc[e] = "commit" => Code(e) # k
      BY <1>2, <1>3, <2>2 DEF RunInv, InsertsOK, InsertsAreAlone
    <3>5. pc[e] = "commit" => run'[Code(e)] = None
      BY <1>4, <3>1, <3>4 DEF RunInv, InsertsOK
    <3>6. "run" \in inserted[e] <=> pc[e] = "commit"
      BY DEF RunInv, InsertsOK
    <3>7. InsertsOK(e)'
      BY <1>1, <1>5, <1>8, <2>2, <3>2, <3>3, <3>5, <3>6 DEF InsertsOK, Code
    <3>8. ASSUME pc[e] \in {"mark_running", "simulate", "persist"}
          PROVE  OwnRun(e)'
      <4>1. run[Code(e)] # None /\ run[Code(e)].owner = e /\ Code(e) \in Codes
        BY <3>1, <3>8 DEF RunInv, OwnsItsRun, OwnRun
      <4>2. run'[Code(e)] = run[Code(e)]
        BY <1>3, <1>4, <4>1
      <4> QED
        BY <1>1, <4>1, <4>2 DEF OwnRun, Code
    <3> QED
      BY <1>8, <2>2, <3>7, <3>8 DEF OwnsItsRun
  <2> QED
    BY <2>1, <2>2
<1>11. InsertsAreAlone'
  BY <1>1, <1>8 DEF RunInv, InsertsAreAlone, Code
<1>12. \A e \in Callers : pc'[e] = "idle" => reply'[e].result = None
  BY <1>1, <1>8 DEF RunInv, Later
<1>13. ResultsAreRecorded'
  <2> SUFFICES ASSUME NEW e \in Callers, reply[e].result # None
               PROVE  /\ reply[e].result.spec = doc[e].spec
                      /\ run'[Code(e)].status = "SUCCEEDED"
                      /\ ledger[Code(e)] = reply[e].result
    BY <1>1 DEF ResultsAreRecorded, Code
  <2>1. Code(e) \in Codes
    BY <1>1, DocTyped DEF RunInv
  <2>2. /\ reply[e].result.spec = doc[e].spec /\ run[Code(e)].status = "SUCCEEDED"
        /\ ledger[Code(e)] = reply[e].result
    BY DEF RunInv, ResultsAreRecorded
  <2> QED
    BY <1>3, <1>4, <2>1, <2>2
<1> QED
  BY <1>7, <1>9, <1>10, <1>11, <1>12, <1>13 DEF RunInv

-----------------------------------------------------------------------------
(* The theorems *)

\* The invariant depends on nothing else, in particular not on the artifact.
LEMMA UnchangedSafe ==
    ASSUME RunInv, UNCHANGED <<strategy, run, ledger, pc, doc, inserted, faults, reply>>,
           artifact' \in BOOLEAN
    PROVE  RunInv'
<1>1. TypeOK'
  BY DEF RunInv, TypeOK
<1>2. \A k \in Codes : RowOK(k)'
  BY DEF RunInv, RowOK
<1>3. \A c \in Callers : InsertsOK(c)'
  BY DEF RunInv, InsertsOK, Code
<1>4. \A c \in Callers : OwnsItsRun(c)'
  BY DEF RunInv, OwnsItsRun, OwnRun, Code
<1>5. InsertsAreAlone'
  BY DEF RunInv, InsertsAreAlone, Code
<1>6. ResultsAreRecorded'
  BY DEF RunInv, ResultsAreRecorded, Code
<1>7. \A c \in Callers : pc'[c] = "idle" => reply'[c].result = None
  BY DEF RunInv
<1> QED
  BY <1>1, <1>2, <1>3, <1>4, <1>5, <1>6, <1>7 DEF RunInv

\* Every step keeps the invariant.
LEMMA NextSafe == RunInv /\ [Next]_vars => RunInv'
<1> SUFFICES ASSUME RunInv, [Next]_vars
             PROVE  RunInv'
  OBVIOUS
<1>1. ASSUME NEW c \in Callers, Proceed(c)
      PROVE  RunInv'
  BY <1>1, RequireSafe, RegisterSafe, CreateSafe, CommitQueuedSafe, MarkRunningSafe,
     SimulateSafe, PersistSafe, MarkFailedSafe DEF Proceed
<1>2. ASSUME NEW c \in Callers, Disturb(c)
      PROVE  RunInv'
  BY <1>2, FailBeforeSafe, RollBackQueuedSafe, RollBackSafe, CrashSafe DEF Disturb
<1>3. CASE RemoveArtifact
  BY <1>3, UnchangedSafe DEF RemoveArtifact
<1>4. CASE UNCHANGED vars
  <2>1. artifact' \in BOOLEAN
    BY <1>4 DEF vars, RunInv, TypeOK
  <2> QED
    BY <1>4, <2>1, UnchangedSafe DEF vars
<1> QED
  BY <1>1, <1>2, <1>3, <1>4, PrepareSafe DEF Next

\* So the invariant always holds.
LEMMA AlwaysSafe == Spec => []RunInv
  BY InitSafe, NextSafe, PTL DEF Spec

\* Runs, ledgers and calls always have their types.
THEOREM TypeCorrect == Spec => []TypeOK
<1>1. RunInv => TypeOK
  BY DEF RunInv
<1> QED
  BY <1>1, AlwaysSafe, PTL

\* A run has its ledger exactly when it SUCCEEDED, and is left RUNNING or QUEUED only
\* by a crash or by as many failures as that takes (run, _mark_failed).
THEOREM NoHalfRuns == Spec => []FailuresLeaveNoHalfRun
<1>1. ASSUME RunInv
      PROVE  FailuresLeaveNoHalfRun
  <2> SUFFICES ASSUME NEW k \in Codes
               PROVE  /\ run[k] = None => ledger[k] = None
                      /\ run[k] # None =>
                            /\ ledger[k] = run[k].result
                            /\ (ledger[k] # None) <=> (run[k].status = "SUCCEEDED")
                            /\ Ended(run[k].owner) /\ pc[run[k].owner] # "dead" =>
                                  /\ run[k].status = "RUNNING" => faults[run[k].owner] >= 1
                                  /\ run[k].status = "RUNNING" /\ run[k].spec \in Runnable =>
                                        faults[run[k].owner] >= 2
                                  /\ run[k].status = "QUEUED" => faults[run[k].owner] >= 1
    BY DEF FailuresLeaveNoHalfRun
  <2>1. RowOK(k)
    BY <1>1 DEF RunInv
  <2>2. CASE run[k] = None
    BY <2>1, <2>2 DEF RowOK
  <2>3. CASE run[k] # None
    <3>1. run[k].status = "SUCCEEDED" => run[k].result \in Result /\ run[k].result # None
      BY <1>1, <2>3, RecordedRun, RunConstants
    <3>2. /\ ledger[k] = run[k].result
          /\ run[k].status # "SUCCEEDED" => run[k].result = None
          /\ Progress(pc[run[k].owner], run[k], faults[run[k].owner])
      BY <2>1, <2>3 DEF RowOK
    <3> QED
      BY <2>3, <3>1, <3>2 DEF Progress, Ended
  <2> QED
    BY <2>2, <2>3
<1> QED
  BY <1>1, AlwaysSafe, PTL

\* What is recorded for a code and what callers were given is determined by the
\* specification and the registered strategy (require_runnable, ensure_strategy_version).
THEOREM Reproducible == Spec => []ResultsAreReproducible
<1>1. ASSUME RunInv
      PROVE  ResultsAreReproducible
  <2>1. ASSUME NEW k \in Codes, ledger[k] # None
        PROVE  ledger[k] = [spec |-> run[k].spec, source |-> strategy]
    BY <1>1, <2>1 DEF RunInv, RowOK
  <2> QED
    BY <1>1, <2>1 DEF RunInv, ResultsAreReproducible, EquivalentRunsAgree
<1> QED
  BY <1>1, AlwaysSafe, PTL
=============================================================================
