-------------------------- MODULE SnapshotBuilder --------------------------
(***************************************************************************)
(* SnapshotBuilder.build (snapshots/builder.py), its artifact writer and   *)
(* its repositories, run by concurrent callers while ingestion commits bar *)
(* revisions, and the two comparisons of SnapshotVerifier.                 *)
(*                                                                         *)
(* A build inserts a BUILDING row, reads its components in one REPEATABLE  *)
(* READ transaction and writes each to a private staging directory, writes *)
(* the manifest, renames the staging directory to the final one, and then  *)
(* freezes the row.  A failure after the row exists removes the staging    *)
(* directory, unless it was published, and marks the row FAILED.           *)
(*                                                                         *)
(* A file is what it holds: the set of revisions of a component, since the *)
(* canonical JSON lines of two sets are equal only when the sets are.  A   *)
(* SHA-256 is the content it was computed from.  All callers use one       *)
(* output root.                                                            *)
(***************************************************************************)
EXTENDS Integers, Sequences, FiniteSets

CONSTANTS
    Builders,           \* concurrent callers of build()
    Codes,              \* snapshot_code values
    Specs,              \* semantic specifications (specification_sha256)
    Revisions,          \* bar revisions that ingestion may commit
    None,               \* SQL NULL, and a file or directory that is not there
    Components,         \* [Specs -> Seq(Component)], in component_key order
    InitialDirectories, \* codes whose final directory exists already
    FaultPlaces,        \* the places of build() that may fail unexpectedly
    MaxFaults,          \* bound on the unexpected failures of a behaviour
    MaxCrashes          \* no builder crashes once this many codes are abandoned

\* What a component's query returns once committed (series, event range, final,
\* closed and available at the cutoff), and what resolve_series says of it.
Component == [selects : SUBSET Revisions, allow_empty : BOOLEAN, resolvable : BOOLEAN]

Manifest == [code : Codes, spec : Specs \cup {None},
             components : Seq(SUBSET Revisions)]
Files == [components : Seq(SUBSET Revisions), manifest : Manifest \cup {None}]

\* The directory an earlier build left, against a database since restored.
EarlierFiles(c) ==
    [components |-> <<>>, manifest |-> [code |-> c, spec |-> None, components |-> <<>>]]

Status == {"ABSENT", "BUILDING", "FROZEN", "FAILED"}

\* catalog.data_snapshot and its components; a FROZEN row has a manifest hash.
Record ==
    {row \in [status : Status, spec : Specs \cup {None}, manifest : Manifest \cup {None},
              components : Seq(SUBSET Revisions)] :
        row.status = "FROZEN" => row.manifest # None}

NoRecord == [status |-> "ABSENT", spec |-> None, manifest |-> None, components |-> <<>>]

\* The body of the try statement of build(), and its handler.
Trying == {"components", "manifest", "publish", "freeze"}
Handling == {"cleanup", "mark_failed"}
Place == {"idle", "insert"} \cup Trying \cup Handling

ASSUME SnapshotConstants ==
    /\ Components \in [Specs -> Seq(Component) \ {<<>>}]
    /\ InitialDirectories \subseteq Codes
    /\ FaultPlaces \subseteq Place \ {"idle"}
    /\ MaxFaults \in Nat /\ MaxCrashes \in Nat
    /\ None \notin Codes \cup Specs /\ None \notin Manifest /\ None \notin Files
    /\ None \notin Nat

VARIABLES
    snapshot,    \* catalog.data_snapshot and _component, by code
    log,         \* market.bar_revision: what each commit of ingestion added
    directory,   \* the final directory of each code
    staging,     \* the staging directory of each builder
    orphans,     \* codes with a staging directory nobody will remove
    pc, job,     \* where each builder is, and its locals
    reply,       \* what the last build() of each builder told its caller
    faults,      \* number of unexpected failures so far
    abandoned    \* codes whose builder stopped or failed where no handler is left

vars == <<snapshot, log, directory, staging, orphans, pc, job, reply, faults, abandoned>>
stored == <<snapshot, log, directory, orphans>>

Job == [code : Codes \cup {None}, spec : Specs \cup {None}, view : Nat \cup {None},
        rows : Seq(SUBSET Revisions), published : BOOLEAN]
NoJob == [code |-> None, spec |-> None, view |-> None, rows |-> <<>>, published |-> FALSE]

BuildReply == [kind : {"none", "result", "conflict", "in_progress", "error", "build_error"},
               code : Codes \cup {None}, spec : Specs \cup {None}]
NoReply == [kind |-> "none", code |-> None, spec |-> None]
Told(kind, c, s) == [kind |-> kind, code |-> c, spec |-> s]

TypeOK ==
    /\ snapshot \in [Codes -> Record]
    /\ log \in Seq(SUBSET Revisions)
    /\ directory \in [Codes -> Files \cup {None}]
    /\ staging \in [Builders -> Files \cup {None}]
    /\ orphans \subseteq Codes
    /\ pc \in [Builders -> Place]
    /\ job \in [Builders -> Job]
    /\ reply \in [Builders -> BuildReply]
    /\ faults \in Nat
    /\ abandoned \subseteq Codes

Init ==
    /\ snapshot = [c \in Codes |-> NoRecord]
    /\ log = <<>>
    /\ directory = [c \in Codes |-> IF c \in InitialDirectories
                                    THEN EarlierFiles(c) ELSE None]
    /\ staging = [b \in Builders |-> None]
    /\ orphans = {}
    /\ pc = [b \in Builders |-> "idle"]
    /\ job = [b \in Builders |-> NoJob]
    /\ reply = [b \in Builders |-> NoReply]
    /\ faults = 0
    /\ abandoned = {}

\* The revisions in the first n commits of ingestion.
Visible(n) == UNION {log[k] : k \in 1..n}

-----------------------------------------------------------------------------
(* Leaving a step *)

Return(b, answer) ==
    /\ pc' = [pc EXCEPT ![b] = "idle"]
    /\ job' = [job EXCEPT ![b] = NoJob]
    /\ reply' = [reply EXCEPT ![b] = answer]

ToldMine(b, kind) == Told(kind, job[b].code, job[b].spec)

\* Faulty variant: exceptions of another class than SnapshotBuildError are not
\* handled.
RaiseUnhandled(b) == Return(b, ToldMine(b, "error"))

\* An exception in the try statement reaches the handler of build().
Raise(b) ==
    /\ pc' = [pc EXCEPT ![b] = "cleanup"]
    /\ UNCHANGED <<job, reply>>

Fault(b) ==
    /\ pc[b] \in FaultPlaces
    /\ faults < MaxFaults
    /\ faults' = faults + 1

\* The staging directory of a builder that leaves it behind.
Orphaned(b) == IF staging[b] = None THEN {} ELSE {job[b].code}

-----------------------------------------------------------------------------
(* The first transaction: get_by_code and create_building *)

CanReplay(row, s) == row.status = "FROZEN" /\ row.spec = s

\* _resolve_existing: a replay for a FROZEN row of the same specification,
\* SnapshotInProgressError or SnapshotConflictError otherwise.
ResolveExisting(row, c, s) ==
    IF CanReplay(row, s) THEN Told("result", c, s)
    ELSE IF row.status = "BUILDING" THEN Told("in_progress", c, s)
    ELSE Told("conflict", c, s)

Lookup(b, c, s) ==
    /\ pc[b] = "idle"
    /\ \/ /\ snapshot[c].status = "ABSENT"
          /\ pc' = [pc EXCEPT ![b] = "insert"]
          /\ job' = [job EXCEPT ![b] = [NoJob EXCEPT !.code = c, !.spec = s]]
          /\ reply' = [reply EXCEPT ![b] = NoReply]
       \/ /\ snapshot[c].status # "ABSENT"
          /\ Return(b, ResolveExisting(snapshot[c], c, s))
    /\ UNCHANGED <<stored, staging, faults, abandoned>>

\* Faulty variant: snapshot_code is not unique.
CanInsertAgain(c) == snapshot[c].status \in Status

\* snapshot_code is UNIQUE: the insert of a builder whose lookup is stale fails.
CanInsert(c) == snapshot[c].status = "ABSENT"

\* The last disjunct is a commit whose acknowledgement is lost, or a writer that
\* cannot be constructed: both are before the try statement.
CreateBuilding(b) ==
    LET c == job[b].code
    IN  /\ pc[b] = "insert"
        /\ \/ /\ ~CanInsert(c)
              /\ Return(b, ToldMine(b, "error"))
              /\ UNCHANGED <<snapshot, faults, abandoned>>
           \/ /\ CanInsert(c)
              /\ snapshot' = [snapshot EXCEPT ![c] =
                                [NoRecord EXCEPT !.status = "BUILDING", !.spec = job[b].spec]]
              /\ \/ /\ pc' = [pc EXCEPT ![b] = "components"]
                    /\ UNCHANGED <<job, reply, faults, abandoned>>
                 \/ /\ Fault(b)
                    /\ abandoned' = abandoned \cup {c}
                    /\ Return(b, ToldMine(b, "error"))
        /\ UNCHANGED <<log, directory, staging, orphans>>

-----------------------------------------------------------------------------
(* _build_components, _write_manifest and publish *)

\* Faulty variant: each component is read in a transaction of its own.
ViewReadCommitted(j) == Len(log)

\* REPEATABLE READ: the first query fixes what the transaction sees.
View(j) == IF j.view = None THEN Len(log) ELSE j.view

Staged(b) == IF staging[b] = None THEN [components |-> <<>>, manifest |-> None]
             ELSE staging[b]

ReadComponent(b) ==
    LET j == job[b]
        k == Len(j.rows) + 1
        component == Components[j.spec][k]
        rows == Visible(View(j)) \cap component.selects
    IN  /\ pc[b] = "components"
        /\ \/ /\ ~component.resolvable \/ (rows = {} /\ ~component.allow_empty)
              /\ Raise(b)
              /\ UNCHANGED staging
           \/ /\ component.resolvable /\ (rows # {} \/ component.allow_empty)
              /\ staging' = [staging EXCEPT ![b] =
                               [Staged(b) EXCEPT !.components = Append(@, rows)]]
              /\ job' = [job EXCEPT ![b].view = View(j), ![b].rows = Append(@, rows)]
              /\ pc' = [pc EXCEPT ![b] = IF k = Len(Components[j.spec])
                                         THEN "manifest" ELSE "components"]
              /\ UNCHANGED reply
        /\ UNCHANGED <<stored, faults, abandoned>>

ManifestOf(j) == [code |-> j.code, spec |-> j.spec, components |-> j.rows]

WriteManifest(b) ==
    /\ pc[b] = "manifest"
    /\ staging' = [staging EXCEPT ![b] = [Staged(b) EXCEPT !.manifest = ManifestOf(job[b])]]
    /\ pc' = [pc EXCEPT ![b] = "publish"]
    /\ UNCHANGED <<stored, job, reply, faults, abandoned>>

CanPublish(b) == directory[job[b].code] = None /\ staging[b].manifest # None

Publish(b) ==
    /\ pc[b] = "publish"
    /\ \/ /\ ~CanPublish(b)
          /\ Raise(b)
          /\ UNCHANGED <<directory, staging>>
       \/ /\ CanPublish(b)
          /\ directory' = [directory EXCEPT ![job[b].code] = staging[b]]
          /\ staging' = [staging EXCEPT ![b] = None]
          /\ job' = [job EXCEPT ![b].published = TRUE]
          /\ pc' = [pc EXCEPT ![b] = "freeze"]
          /\ UNCHANGED reply
    /\ UNCHANGED <<snapshot, log, orphans, faults, abandoned>>

-----------------------------------------------------------------------------
(* The last transaction, and the handler *)

\* Faulty variant: the manifest hash is not stored with the status.
FrozenRecordWithoutManifest(j) ==
    [status |-> "FROZEN", spec |-> j.spec, manifest |-> None, components |-> j.rows]

FrozenRecord(j) ==
    [status |-> "FROZEN", spec |-> j.spec, manifest |-> ManifestOf(j),
     components |-> j.rows]

\* Faulty variant: insert_components commits before freeze runs.
FreezeInTwo(b) ==
    LET c == job[b].code
    IN  /\ pc[b] = "freeze"
        /\ snapshot[c].status = "BUILDING"
        /\ \/ /\ snapshot' = [snapshot EXCEPT ![c] = FrozenRecord(job[b])]
              /\ Return(b, ToldMine(b, "result"))
              /\ UNCHANGED faults
           \/ /\ snapshot' = [snapshot EXCEPT ![c].components = job[b].rows]
              /\ Fault(b)
              /\ Raise(b)
        /\ UNCHANGED <<log, directory, staging, orphans, abandoned>>

\* insert_components and freeze in one transaction; its acknowledgement may be
\* lost.  Both require a row that is still BUILDING.
Freeze(b) ==
    LET c == job[b].code
    IN  /\ pc[b] = "freeze"
        /\ snapshot[c].status = "BUILDING"
        /\ snapshot' = [snapshot EXCEPT ![c] = FrozenRecord(job[b])]
        /\ \/ Return(b, ToldMine(b, "result")) /\ UNCHANGED faults
           \/ Fault(b) /\ Raise(b)
        /\ UNCHANGED <<log, directory, staging, orphans, abandoned>>

\* Faulty variant: the handler also removes what was published.
CleanupPublished(b) ==
    /\ pc[b] = "cleanup"
    /\ staging' = [staging EXCEPT ![b] = None]
    /\ directory' = IF job[b].published
                    THEN [directory EXCEPT ![job[b].code] = None] ELSE directory
    /\ pc' = [pc EXCEPT ![b] = "mark_failed"]
    /\ UNCHANGED <<snapshot, log, orphans, job, reply, faults, abandoned>>

\* cleanup_incomplete, skipped once the directory is published.
Cleanup(b) ==
    /\ pc[b] = "cleanup"
    /\ staging' = IF job[b].published THEN staging ELSE [staging EXCEPT ![b] = None]
    /\ pc' = [pc EXCEPT ![b] = "mark_failed"]
    /\ UNCHANGED <<stored, job, reply, faults, abandoned>>

\* Faulty variant: mark_failed does not look at the status.
CanMarkFailedAny(c) == snapshot[c].status # "ABSENT"

CanMarkFailed(c) == snapshot[c].status = "BUILDING"

MarkFailed(b) ==
    LET c == job[b].code
    IN  /\ pc[b] = "mark_failed"
        /\ snapshot' = IF CanMarkFailed(c)
                       THEN [snapshot EXCEPT ![c].status = "FAILED"] ELSE snapshot
        /\ Return(b, ToldMine(b, "build_error"))
        /\ UNCHANGED <<log, directory, staging, orphans, faults, abandoned>>

\* Any other failure.  In the try statement it reaches the handler; a component
\* that cannot be written may have created the staging directory.  In the
\* handler, one of rmtree in cleanup_incomplete escapes before the row is marked,
\* and one of _mark_failed is swallowed: both leave the row BUILDING.
UnexpectedError(b) ==
    /\ pc[b] # "idle"
    /\ Fault(b)
    /\ \/ /\ pc[b] = "insert"
          /\ Return(b, ToldMine(b, "error"))
          /\ UNCHANGED <<staging, orphans, abandoned>>
       \/ /\ pc[b] \in Trying
          /\ Raise(b)
          /\ \/ UNCHANGED staging
             \/ pc[b] = "components" /\ staging' = [staging EXCEPT ![b] = Staged(b)]
          /\ UNCHANGED <<orphans, abandoned>>
       \/ /\ pc[b] \in Handling
          /\ pc[b] = "cleanup" => staging[b] # None
          /\ Return(b, ToldMine(b, IF pc[b] = "cleanup" THEN "error" ELSE "build_error"))
          /\ staging' = [staging EXCEPT ![b] = None]
          /\ orphans' = orphans \cup Orphaned(b)
          /\ abandoned' = abandoned \cup {job[b].code}
    /\ UNCHANGED <<snapshot, log, directory>>

\* The process stops; no handler runs.
Crash(b) ==
    /\ pc[b] # "idle"
    /\ Cardinality(abandoned) < MaxCrashes
    /\ abandoned' = abandoned \cup {c \in {job[b].code} : pc[b] # "insert"}
    /\ orphans' = orphans \cup Orphaned(b)
    /\ staging' = [staging EXCEPT ![b] = None]
    /\ Return(b, NoReply)
    /\ UNCHANGED <<snapshot, log, directory, faults>>

-----------------------------------------------------------------------------
(* Ingestion and the specification *)

\* A batch commits: its revisions become visible at once and stay for good.
Ingest ==
    /\ \E new \in SUBSET (Revisions \ Visible(Len(log))) :
          new # {} /\ log' = Append(log, new)
    /\ UNCHANGED <<snapshot, directory, staging, orphans, pc, job, reply, faults, abandoned>>

Proceed(b) ==
    \/ CreateBuilding(b) \/ ReadComponent(b) \/ WriteManifest(b) \/ Publish(b)
    \/ Freeze(b) \/ Cleanup(b) \/ MarkFailed(b)

Next ==
    \/ \E b \in Builders :
          \/ \E c \in Codes, s \in Specs : Lookup(b, c, s)
          \/ Proceed(b) \/ UnexpectedError(b) \/ Crash(b)
    \/ Ingest

Spec == Init /\ [][Next]_vars

\* A running build keeps executing; nobody has to start one or to ingest.
LiveSpec == Spec /\ \A b \in Builders : WF_vars(Proceed(b))

-----------------------------------------------------------------------------
(* SnapshotVerifier *)

\* The issues _verify_artifacts and _verify_manifest_metadata report.
ArtifactIssues(c) ==
    LET row == snapshot[c]
        files == directory[c]
    IN  IF files = None THEN {"MISSING_COMPONENT"}
        ELSE {issue \in {"COMPONENT_HASH_MISMATCH", "MANIFEST_HASH_MISMATCH",
                         "MANIFEST_METADATA_MISMATCH"} :
                CASE issue = "COMPONENT_HASH_MISMATCH" -> files.components # row.components
                  [] issue = "MANIFEST_HASH_MISMATCH" -> files.manifest # row.manifest
                  [] OTHER -> files.manifest # [code |-> c, spec |-> row.spec,
                                                components |-> row.components]}

\* The components _verify_database reports as DATABASE_DRIFT when the database
\* holds the first n commits of ingestion.
Drift(c, n) ==
    {k \in DOMAIN snapshot[c].components :
        Visible(n) \cap Components[snapshot[c].spec][k].selects # snapshot[c].components[k]}

-----------------------------------------------------------------------------
(* Properties *)

Frozen == {c \in Codes : snapshot[c].status = "FROZEN"}

\* Every FROZEN row passes the verifier: its directory is there and holds exactly
\* the components and the manifest whose hashes the row has, whatever failed
\* between the rename and the commit (SnapshotBuilder.build).
FrozenVerifies == \A c \in Frozen : ArtifactIssues(c) = {}

\* All components of a FROZEN snapshot were read at one instant: there is a moment
\* of the database's history at which none of them would be reported as drift
\* (_build_components reads in one REPEATABLE READ transaction).
ConsistentCut ==
    \A c \in Frozen :
        /\ Len(snapshot[c].components) = Len(Components[snapshot[c].spec])
        /\ \E n \in 0..Len(log) : Drift(c, n) = {}

\* A row that is not FROZEN has neither a manifest hash nor components.
OnlyFrozenHasEvidence ==
    \A c \in Codes \ Frozen :
        snapshot[c].manifest = None /\ snapshot[c].components = <<>>

\* Two callers never build the same code, even when both looked it up before
\* either inserted it.
OneBuilderPerCode ==
    \A a, b \in Builders :
        a # b /\ pc[a] \in Trying \cup Handling /\ pc[b] \in Trying \cup Handling =>
            job[a].code # job[b].code

\* A caller that got a result, by building or by replay, asked for the
\* specification the code is frozen for.
ResultsAreFrozen ==
    \A b \in Builders : reply[b].kind = "result" =>
        /\ snapshot[reply[b].code].status = "FROZEN"
        /\ snapshot[reply[b].code].spec = reply[b].spec

\* A code belongs to the caller that inserted it, and everyone else gets what it
\* was frozen for or an error (_resolve_existing, create_building).
CodesAreClaimedOnce == OneBuilderPerCode /\ ResultsAreFrozen

\* A builder that is not running has no staging directory, and one is left behind
\* only by a crash or a failed removal (cleanup_incomplete).
StagingRemoved ==
    /\ \A b \in Builders : pc[b] \in {"idle", "mark_failed"} => staging[b] = None
    /\ orphans \subseteq abandoned

\* A build that fails, at whichever step, leaves neither a half-recorded snapshot
\* nor files to clean up (SnapshotBuilder.build and its handler).
NoHalfBuilds == OnlyFrozenHasEvidence /\ StagingRemoved

\* A FROZEN row and a published directory never change: no late handler, replay
\* or rebuild touches them.
EvidenceIsImmutable ==
    [][\A c \in Codes :
          /\ snapshot[c].status = "FROZEN" => snapshot'[c] = snapshot[c]
          /\ directory[c] # None => directory'[c] = directory[c]]_vars

\* Every build that was started freezes or fails its row, unless its builder
\* stopped or failed again in the handler.
BuildsEnd ==
    \A c \in Codes :
        snapshot[c].status = "BUILDING" ~>
            snapshot[c].status \in {"FROZEN", "FAILED"} \/ c \in abandoned
=============================================================================
