------------------------ MODULE SnapshotBuilder_proofs ------------------------
(***************************************************************************)
(* Proofs about SnapshotBuilder, for every set of builders, codes,         *)
(* specifications and revisions and for every bound on failures.           *)
(***************************************************************************)
EXTENDS SnapshotBuilder, TLAPS

-----------------------------------------------------------------------------
(* The inductive invariant *)

\* The places of a builder that has inserted its row.
Working == Trying \cup Handling

\* Every component was read with the first n commits of ingestion visible.
IsCut(s, n, rows) ==
    \A k \in 1..Len(rows) : rows[k] = Visible(n) \cap Components[s][k].selects

\* A FROZEN row is complete, was read at one instant and is what its directory
\* holds; any other row has no evidence.
RowOK(c) ==
    /\ snapshot[c].status # "FROZEN" =>
          snapshot[c].manifest = None /\ snapshot[c].components = <<>>
    /\ snapshot[c].status = "FROZEN" =>
          /\ snapshot[c].spec \in Specs
          /\ snapshot[c].manifest = [code |-> c, spec |-> snapshot[c].spec,
                                     components |-> snapshot[c].components]
          /\ directory[c] = [components |-> snapshot[c].components,
                             manifest |-> snapshot[c].manifest]
          /\ Len(snapshot[c].components) = Len(Components[snapshot[c].spec])
          /\ \E n \in 0..Len(log) : IsCut(snapshot[c].spec, n, snapshot[c].components)

\* The row of a builder in the try statement is BUILDING; in the handler it may be
\* FROZEN, when the acknowledgement of the last commit was lost.
OwnsRow(b) ==
    /\ pc[b] # "idle" => job[b].code \in Codes /\ job[b].spec \in Specs
    /\ pc[b] \in Trying => snapshot[job[b].code].status = "BUILDING"
    /\ pc[b] \in Handling => snapshot[job[b].code].status \in {"BUILDING", "FROZEN"}

\* What a builder has read so far is a prefix of one cut.
ReadsCut(b) ==
    /\ pc[b] = "insert" => job[b].view = None /\ job[b].rows = <<>>
    /\ pc[b] \in Trying =>
          /\ job[b].view # None => job[b].view \in 0..Len(log)
          /\ job[b].rows # <<>> => job[b].view # None
          /\ IsCut(job[b].spec, job[b].view, job[b].rows)
    /\ pc[b] = "components" => Len(job[b].rows) < Len(Components[job[b].spec])
    /\ pc[b] \in {"manifest", "publish", "freeze"} =>
          Len(job[b].rows) = Len(Components[job[b].spec])

\* What a builder has read and written is in its staging directory until the
\* rename, and in the final directory afterwards.
FilesOK(b) ==
    /\ pc[b] \in {"idle", "insert", "freeze", "mark_failed"} => staging[b] = None
    /\ pc[b] \in {"insert", "components", "manifest", "publish"} => ~job[b].published
    /\ pc[b] \in {"components", "manifest"} =>
          Staged(b) = [components |-> job[b].rows, manifest |-> None]
    /\ pc[b] = "publish" =>
          staging[b] = [components |-> job[b].rows, manifest |-> ManifestOf(job[b])]
    /\ pc[b] = "freeze" =>
          directory[job[b].code] = [components |-> job[b].rows,
                                    manifest |-> ManifestOf(job[b])]
    /\ pc[b] \in Working /\ job[b].published => staging[b] = None

ResultOK(b) ==
    reply[b].kind = "result" =>
        /\ reply[b].code \in Codes
        /\ snapshot[reply[b].code].status = "FROZEN"
        /\ snapshot[reply[b].code].spec = reply[b].spec

SnapInv ==
    /\ TypeOK
    /\ \A c \in Codes : RowOK(c)
    /\ \A b \in Builders : OwnsRow(b) /\ ReadsCut(b) /\ FilesOK(b) /\ ResultOK(b)
    /\ OneBuilderPerCode
    /\ orphans \subseteq abandoned

\* What no step may change: a FROZEN row and a directory that is there.
EvidenceKept ==
    \A c \in Codes :
        /\ snapshot[c].status = "FROZEN" => snapshot'[c] = snapshot[c]
        /\ directory[c] # None => directory'[c] = directory[c]

\* A step of one builder leaves the other builders where they are.
OthersKept(b) ==
    \A e \in Builders : e # b =>
        /\ pc'[e] = pc[e] /\ job'[e] = job[e]
        /\ staging'[e] = staging[e] /\ reply'[e] = reply[e]

-----------------------------------------------------------------------------
(* Values *)

\* The files of a builder, its manifest and the row it freezes have their types.
LEMMA ManifestTyped ==
    ASSUME NEW j \in Job, j.code \in Codes
    PROVE  /\ ManifestOf(j) \in Manifest /\ ManifestOf(j) # None
           /\ [components |-> j.rows, manifest |-> ManifestOf(j)] \in Files
           /\ [components |-> j.rows, manifest |-> ManifestOf(j)] # None
           /\ FrozenRecord(j) \in Record
<1>1. ManifestOf(j) \in Manifest
  BY DEF ManifestOf, Manifest, Job
<1>2. ManifestOf(j) # None
  BY <1>1, SnapshotConstants
<1>3. [components |-> j.rows, manifest |-> ManifestOf(j)] \in Files
  BY <1>1 DEF Files, Job
<1>4. FrozenRecord(j) \in Record
  BY <1>1, <1>2 DEF FrozenRecord, Record, Status, Job
<1> QED
  BY <1>1, <1>2, <1>3, <1>4, SnapshotConstants

\* A staging directory, or the one that is created when there is none.
LEMMA StagedTyped ==
    ASSUME TypeOK, NEW b \in Builders
    PROVE  Staged(b) \in Files /\ Staged(b) # None
<1>1. [components |-> <<>>, manifest |-> None] \in Files
  BY DEF Files
<1>2. Staged(b) \in Files
  BY <1>1 DEF Staged, TypeOK
<1> QED
  BY <1>2, SnapshotConstants

\* A new row.
LEMMA BuildingTyped ==
    ASSUME NEW s \in Specs
    PROVE  \E row \in Record :
              /\ row = [NoRecord EXCEPT !.status = "BUILDING", !.spec = s]
              /\ row.status = "BUILDING" /\ row.manifest = None /\ row.components = <<>>
<1>1. NoRecord \in Record /\ NoRecord.manifest = None /\ NoRecord.components = <<>>
  BY DEF NoRecord, Record, Status
<1>2. PICK old \in Record : old = NoRecord
  BY <1>1
<1>3. [old EXCEPT !.status = "BUILDING", !.spec = s] \in Record
  BY DEF Record, Status
<1>4. LET row == [old EXCEPT !.status = "BUILDING", !.spec = s]
      IN  /\ row.status = "BUILDING" /\ row.manifest = old.manifest
          /\ row.components = old.components
  BY DEF Record
<1> QED
  BY <1>1, <1>2, <1>3, <1>4

\* The locals of a new call.
LEMMA NewJobTyped ==
    ASSUME NEW c \in Codes, NEW s \in Specs
    PROVE  \E new \in Job :
              /\ new = [NoJob EXCEPT !.code = c, !.spec = s]
              /\ new.code = c /\ new.spec = s /\ new.view = None /\ new.rows = <<>>
              /\ ~new.published
<1>1. NoJob \in Job /\ NoJob.view = None /\ NoJob.rows = <<>> /\ NoJob.published = FALSE
  BY DEF NoJob, Job
<1>2. PICK old \in Job : old = NoJob
  BY <1>1
<1>3. [old EXCEPT !.code = c, !.spec = s] \in Job
  BY DEF Job
<1>4. LET new == [old EXCEPT !.code = c, !.spec = s]
      IN  /\ new.code = c /\ new.spec = s /\ new.view = old.view /\ new.rows = old.rows
          /\ new.published = old.published
  BY DEF Job
<1> QED
  BY <1>1, <1>2, <1>3, <1>4

\* An answer.
LEMMA ToldTyped ==
    ASSUME NEW kind \in {"none", "result", "conflict", "in_progress", "error", "build_error"},
           NEW c \in Codes \cup {None}, NEW s \in Specs \cup {None}
    PROVE  /\ Told(kind, c, s) \in BuildReply /\ Told(kind, c, s).kind = kind
           /\ Told(kind, c, s).code = c /\ Told(kind, c, s).spec = s
  BY DEF Told, BuildReply

\* The locals of a call that has begun.
LEMMA JobTyped ==
    ASSUME SnapInv, NEW b \in Builders, pc[b] # "idle"
    PROVE  /\ TypeOK /\ job[b] \in Job /\ job[b].code \in Codes /\ job[b].spec \in Specs
           /\ snapshot[job[b].code] \in Record /\ Components[job[b].spec] \in Seq(Component)
           /\ Len(Components[job[b].spec]) \in Nat \ {0}
<1>1. TypeOK /\ job[b] \in Job /\ job[b].code \in Codes /\ job[b].spec \in Specs
  BY DEF SnapInv, OwnsRow, TypeOK
<1>2. Components[job[b].spec] \in Seq(Component) \ {<<>>}
  BY <1>1, SnapshotConstants
<1>3. snapshot[job[b].code] \in Record
  BY <1>1 DEF TypeOK
<1> QED
  BY <1>1, <1>2, <1>3

\* The end of a call.
LEMMA ReturnTyped ==
    ASSUME TypeOK, NEW b \in Builders, NEW answer \in BuildReply, Return(b, answer)
    PROVE  /\ pc' \in [Builders -> Place] /\ pc'[b] = "idle"
           /\ job' \in [Builders -> Job]
           /\ reply' \in [Builders -> BuildReply] /\ reply'[b] = answer
           /\ \A e \in Builders : e # b =>
                 pc'[e] = pc[e] /\ job'[e] = job[e] /\ reply'[e] = reply[e]
<1>1. NoJob \in Job
  BY DEF NoJob, Job
<1> QED
  BY <1>1 DEF Return, TypeOK, Place

\* The first n commits of ingestion stay the first n.
LEMMA VisibleKept ==
    ASSUME TypeOK, NEW new \in SUBSET Revisions, log' = Append(log, new),
           NEW n \in 0..Len(log)
    PROVE  Visible(n)' = Visible(n)
<1>1. \A k \in 1..n : log'[k] = log[k]
  BY DEF TypeOK
<1> QED
  BY <1>1 DEF Visible

-----------------------------------------------------------------------------
(* Steps of one builder *)

\* A builder's step keeps the invariant and the evidence when it changes no row but
\* its own, and that only until it is FROZEN, when it replaces no directory, and
\* when it leaves its own locals, files and reply in order.
LEMMA BuilderStep ==
    ASSUME SnapInv, TypeOK', NEW b \in Builders, OthersKept(b), UNCHANGED log,
           \A c \in Codes : directory[c] # None => directory'[c] = directory[c],
           NEW own \in Codes \cup {None},
           \A c \in Codes : c # own => snapshot'[c] = snapshot[c],
           own \in Codes =>
              /\ own = job[b].code /\ snapshot[own].status # "FROZEN" /\ RowOK(own)'
              /\ pc[b] \in Working \/ snapshot[own].status = "ABSENT",
           pc'[b] \in Working =>
              /\ job'[b].code = job[b].code
              /\ pc[b] \in Working \/ snapshot[job[b].code].status = "ABSENT",
           OwnsRow(b)', ReadsCut(b)', FilesOK(b)', ResultOK(b)',
           orphans' \subseteq abandoned'
    PROVE  SnapInv' /\ EvidenceKept
<1>1. ASSUME NEW c \in Codes
      PROVE  RowOK(c)'
  <2>1. CASE c = own
    BY <2>1
  <2>2. CASE c # own
    <3>1. snapshot'[c] = snapshot[c] /\ RowOK(c)
      BY <2>2 DEF SnapInv
    <3>2. \A s, n, rows : IsCut(s, n, rows)' <=> IsCut(s, n, rows)
      BY DEF IsCut, Visible
    <3>3. snapshot[c].status = "FROZEN" => directory[c] # None
      <4>1. ASSUME snapshot[c].status = "FROZEN"
            PROVE  directory[c] \in Files
        <5>1. snapshot[c] \in Record
          BY DEF SnapInv, TypeOK
        <5> QED
          BY <3>1, <4>1, <5>1 DEF RowOK, Record, Files
      <4> QED
        BY <4>1, SnapshotConstants
    <3> QED
      BY <3>1, <3>2, <3>3 DEF RowOK
  <2> QED
    BY <2>1, <2>2
<1>2. ASSUME NEW e \in Builders, e # b, pc[e] \in Working
      PROVE  /\ snapshot'[job[e].code] = snapshot[job[e].code]
             /\ snapshot[job[e].code].status # "ABSENT"
             /\ pc[b] \in Working => job[e].code # job[b].code
  <2>1. job[e].code \in Codes /\ snapshot[job[e].code].status # "ABSENT"
    BY <1>2 DEF SnapInv, OwnsRow, Working, Trying, Handling
  <2>2. pc[b] \in Working => job[e].code # job[b].code
    BY <1>2 DEF SnapInv, OneBuilderPerCode, Working
  <2> QED
    BY <2>1, <2>2
<1>3. ASSUME NEW e \in Builders, e # b
      PROVE  OwnsRow(e)' /\ ReadsCut(e)' /\ FilesOK(e)' /\ ResultOK(e)'
  <2>0. /\ pc'[e] = pc[e] /\ job'[e] = job[e] /\ staging'[e] = staging[e]
        /\ reply'[e] = reply[e]
    BY <1>3 DEF OthersKept
  <2>1. OwnsRow(e)'
    BY <1>2, <1>3, <2>0 DEF SnapInv, OwnsRow, Working
  <2>2. ReadsCut(e)'
    BY <2>0 DEF SnapInv, ReadsCut, IsCut, Visible
  <2>3. FilesOK(e)'
    <3>1. pc[e] = "freeze" => directory'[job[e].code] = directory[job[e].code]
      <4>1. ASSUME pc[e] = "freeze"
            PROVE  directory[job[e].code] # None /\ job[e].code \in Codes
        BY <4>1, JobTyped, ManifestTyped DEF SnapInv, FilesOK
      <4> QED
        BY <4>1
    <3>2. Staged(e)' = Staged(e)
      BY <2>0 DEF Staged
    <3> QED
      BY <2>0, <3>1, <3>2 DEF SnapInv, FilesOK, ManifestOf
  <2>4. ResultOK(e)'
    BY <2>0 DEF SnapInv, ResultOK
  <2> QED
    BY <2>1, <2>2, <2>3, <2>4
<1>4. OneBuilderPerCode'
  <2>1. ASSUME NEW a \in Builders, NEW e \in Builders, a # e,
               pc'[a] \in Working, pc'[e] \in Working
        PROVE  job'[a].code # job'[e].code
    <3>1. CASE a # b /\ e # b
      BY <2>1, <3>1 DEF SnapInv, OneBuilderPerCode, OthersKept, Working
    <3>2. CASE a = b
      BY <1>2, <2>1, <3>2 DEF OthersKept
    <3>3. CASE e = b
      BY <1>2, <2>1, <3>3 DEF OthersKept
    <3> QED
      BY <3>1, <3>2, <3>3
  <2> QED
    BY <2>1 DEF OneBuilderPerCode, Working
<1>5. EvidenceKept
  BY DEF EvidenceKept
<1> QED
  BY <1>1, <1>3, <1>4, <1>5 DEF SnapInv

\* A call that ends keeps the invariant if its staging directory is gone and its
\* answer, when it is a result, is what the code is frozen for.
LEMMA CallEnds ==
    ASSUME SnapInv, NEW b \in Builders, NEW answer \in BuildReply, Return(b, answer),
           snapshot' \in [Codes -> Record], UNCHANGED <<log, directory>>,
           staging' \in [Builders -> Files \cup {None}], staging'[b] = None,
           \A e \in Builders : e # b => staging'[e] = staging[e],
           orphans' \subseteq abandoned', abandoned' \subseteq Codes, faults' \in Nat,
           NEW own \in Codes \cup {None},
           \A c \in Codes : c # own => snapshot'[c] = snapshot[c],
           own \in Codes =>
              /\ own = job[b].code /\ snapshot[own].status # "FROZEN" /\ RowOK(own)'
              /\ pc[b] \in Working \/ snapshot[own].status = "ABSENT",
           answer.kind = "result" =>
              /\ answer.code \in Codes /\ snapshot'[answer.code].status = "FROZEN"
              /\ snapshot'[answer.code].spec = answer.spec
    PROVE  SnapInv' /\ EvidenceKept
<1>1. /\ pc' \in [Builders -> Place] /\ pc'[b] = "idle"
      /\ job' \in [Builders -> Job]
      /\ reply' \in [Builders -> BuildReply] /\ reply'[b] = answer
      /\ \A e \in Builders : e # b =>
            pc'[e] = pc[e] /\ job'[e] = job[e] /\ reply'[e] = reply[e]
  BY ReturnTyped DEF SnapInv
<1>2. TypeOK'
  BY <1>1 DEF SnapInv, TypeOK
<1>3. OthersKept(b)
  BY <1>1 DEF OthersKept
<1>4. OwnsRow(b)' /\ ReadsCut(b)' /\ pc'[b] \notin Working
  BY <1>1 DEF OwnsRow, ReadsCut, Trying, Handling, Working
<1>5. FilesOK(b)'
  BY <1>1, <1>4 DEF FilesOK
<1>6. ResultOK(b)'
  BY <1>1 DEF ResultOK
<1> QED
  BY <1>2, <1>3, <1>4, <1>5, <1>6, BuilderStep

\* _resolve_existing answers from the row it read.
LEMMA ResolvedTyped ==
    ASSUME NEW row \in Record, NEW c \in Codes, NEW s \in Specs
    PROVE  /\ ResolveExisting(row, c, s) \in BuildReply
           /\ ResolveExisting(row, c, s).kind = "result" =>
                 /\ row.status = "FROZEN" /\ row.spec = s
                 /\ ResolveExisting(row, c, s).code = c
                 /\ ResolveExisting(row, c, s).spec = s
<1>1. CASE CanReplay(row, s)
  BY <1>1, ToldTyped DEF ResolveExisting, CanReplay
<1>2. CASE ~CanReplay(row, s) /\ row.status = "BUILDING"
  BY <1>2, ToldTyped DEF ResolveExisting
<1>3. CASE ~CanReplay(row, s) /\ row.status # "BUILDING"
  BY <1>3, ToldTyped DEF ResolveExisting
<1> QED
  BY <1>1, <1>2, <1>3

\* get_by_code: a replay, an error, or a builder that will try to insert the code.
LEMMA LookupSafe ==
    ASSUME SnapInv, NEW b \in Builders, NEW c \in Codes, NEW s \in Specs, Lookup(b, c, s)
    PROVE  SnapInv' /\ EvidenceKept
<1>1. /\ TypeOK /\ pc[b] = "idle" /\ staging[b] = None
      /\ UNCHANGED <<snapshot, log, directory, orphans, staging, faults, abandoned>>
      /\ orphans' \subseteq abandoned' /\ snapshot[c] \in Record
  BY DEF SnapInv, Lookup, stored, FilesOK, TypeOK
<1>2. CASE Return(b, ResolveExisting(snapshot[c], c, s))
  <2>1. PICK answer \in BuildReply :
           /\ answer = ResolveExisting(snapshot[c], c, s)
           /\ answer.kind = "result" =>
                 /\ snapshot[c].status = "FROZEN" /\ snapshot[c].spec = s
                 /\ answer.code = c /\ answer.spec = s
    BY <1>1, ResolvedTyped
  <2>2. /\ snapshot' \in [Codes -> Record] /\ staging' \in [Builders -> Files \cup {None}]
        /\ abandoned' \subseteq Codes /\ faults' \in Nat /\ None \notin Codes
    BY <1>1, SnapshotConstants DEF TypeOK
  <2> QED
    BY <1>1, <1>2, <2>1, <2>2, CallEnds
<1>3. CASE /\ pc' = [pc EXCEPT ![b] = "insert"]
           /\ job' = [job EXCEPT ![b] = [NoJob EXCEPT !.code = c, !.spec = s]]
           /\ reply' = [reply EXCEPT ![b] = NoReply]
  <2>1. PICK new \in Job :
           /\ new = [NoJob EXCEPT !.code = c, !.spec = s]
           /\ new.code = c /\ new.spec = s /\ new.view = None /\ new.rows = <<>>
           /\ ~new.published
    BY NewJobTyped
  <2>2. NoReply \in BuildReply /\ NoReply.kind # "result"
    BY DEF NoReply, BuildReply
  <2>3. TypeOK'
    BY <1>1, <1>3, <2>1, <2>2 DEF TypeOK, Place
  <2>4. pc'[b] = "insert" /\ job'[b] = new /\ reply'[b] = NoReply
    BY <1>1, <1>3, <2>1 DEF TypeOK
  <2>5. OthersKept(b)
    BY <1>1, <1>3 DEF OthersKept, TypeOK
  <2>6. OwnsRow(b)' /\ ReadsCut(b)' /\ pc'[b] \notin Working
    BY <2>1, <2>4 DEF OwnsRow, ReadsCut, Trying, Handling, Working
  <2>7. FilesOK(b)'
    BY <1>1, <2>1, <2>4, <2>6 DEF FilesOK
  <2>8. ResultOK(b)'
    BY <2>2, <2>4 DEF ResultOK
  <2> QED
    BY <1>1, <2>3, <2>5, <2>6, <2>7, <2>8, BuilderStep, SnapshotConstants
<1> QED
  BY <1>2, <1>3 DEF Lookup

\* create_building: only the builder whose insert succeeds goes on.
LEMMA CreateSafe ==
    ASSUME SnapInv, NEW b \in Builders, CreateBuilding(b)
    PROVE  SnapInv' /\ EvidenceKept
<1>0. pc[b] = "insert" /\ pc[b] # "idle" /\ UNCHANGED <<log, directory, staging, orphans>>
  BY DEF CreateBuilding
<1>1. /\ TypeOK /\ job[b] \in Job /\ job[b].code \in Codes /\ job[b].spec \in Specs
      /\ Len(Components[job[b].spec]) > 0
  BY <1>0, JobTyped
<1>a. staging[b] = None /\ job[b].view = None /\ job[b].rows = <<>> /\ ~job[b].published
  BY <1>0 DEF SnapInv, FilesOK, ReadsCut
<1>2. PICK c \in Codes : c = job[b].code
  BY <1>1
<1>3. PICK answer \in BuildReply : answer = ToldMine(b, "error") /\ answer.kind # "result"
  BY <1>1, ToldTyped DEF ToldMine
<1>4. staging' \in [Builders -> Files \cup {None}] /\ None \notin Codes
  BY <1>0, <1>1, SnapshotConstants DEF TypeOK
<1>5. CASE Return(b, ToldMine(b, "error")) /\ UNCHANGED <<snapshot, faults, abandoned>>
  <2>1. /\ snapshot' \in [Codes -> Record] /\ abandoned' \subseteq Codes /\ faults' \in Nat
        /\ orphans' \subseteq abandoned'
    BY <1>0, <1>1, <1>5 DEF TypeOK, SnapInv
  <2> QED
    BY <1>0, <1>1, <1>a, <1>3, <1>4, <1>5, <2>1, CallEnds
<1>6. CASE /\ CanInsert(c)
           /\ snapshot' = [snapshot EXCEPT ![c] =
                             [NoRecord EXCEPT !.status = "BUILDING", !.spec = job[b].spec]]
           /\ \/ /\ pc' = [pc EXCEPT ![b] = "components"]
                 /\ UNCHANGED <<job, reply, faults, abandoned>>
              \/ /\ Fault(b)
                 /\ abandoned' = abandoned \cup {c}
                 /\ Return(b, ToldMine(b, "error"))
  <2>1. PICK row \in Record :
           /\ row = [NoRecord EXCEPT !.status = "BUILDING", !.spec = job[b].spec]
           /\ row.status = "BUILDING" /\ row.manifest = None /\ row.components = <<>>
    BY <1>1, BuildingTyped
  <2>2. /\ snapshot' \in [Codes -> Record] /\ snapshot'[c] = row
        /\ \A d \in Codes : d # c => snapshot'[d] = snapshot[d]
    BY <1>1, <1>6, <2>1 DEF TypeOK
  <2>3. RowOK(c)' /\ snapshot[c].status = "ABSENT"
    BY <1>6, <2>1, <2>2 DEF RowOK, CanInsert
  <2>4. CASE pc' = [pc EXCEPT ![b] = "components"] /\ UNCHANGED <<job, reply, faults, abandoned>>
    <3>1. TypeOK'
      BY <1>0, <1>1, <2>2, <2>4 DEF TypeOK, Place, Trying
    <3>2. pc'[b] = "components" /\ OthersKept(b)
      BY <1>0, <1>1, <2>4 DEF TypeOK, OthersKept
    <3>3. OwnsRow(b)'
      BY <1>1, <1>2, <2>1, <2>2, <2>4, <3>2 DEF OwnsRow, Trying, Handling
    <3>4. ReadsCut(b)'
      BY <1>0, <1>1, <1>a, <2>4, <3>2 DEF ReadsCut, IsCut, Trying
    <3>5. FilesOK(b)'
      <4>1. Staged(b)' = [components |-> job'[b].rows, manifest |-> None]
        BY <1>0, <1>a, <2>4 DEF Staged
      <4> QED
        BY <1>0, <1>a, <2>4, <3>2, <4>1 DEF FilesOK
    <3>6. ResultOK(b)'
      BY <2>2, <2>3, <2>4 DEF SnapInv, ResultOK
    <3>7. orphans' \subseteq abandoned'
      BY <1>0, <2>4 DEF SnapInv
    <3> QED
      BY <1>0, <1>1, <1>2, <2>2, <2>3, <2>4, <3>1, <3>2, <3>3, <3>4, <3>5, <3>6, <3>7, BuilderStep
  <2>5. CASE Fault(b) /\ abandoned' = abandoned \cup {c} /\ Return(b, ToldMine(b, "error"))
    <3>1. abandoned' \subseteq Codes /\ faults' \in Nat /\ orphans' \subseteq abandoned'
      BY <1>0, <1>1, <2>5 DEF TypeOK, SnapInv, Fault
    <3> QED
      BY <1>0, <1>1, <1>a, <1>2, <1>3, <1>4, <2>2, <2>3, <2>5, <3>1, CallEnds
  <2> QED
    BY <1>6, <2>4, <2>5
<1> QED
  BY <1>2, <1>5, <1>6 DEF CreateBuilding

\* An exception in the try statement: the handler finds the row as it is.
LEMMA RaiseSafe ==
    ASSUME SnapInv, NEW b \in Builders, pc[b] \in Trying, Raise(b),
           UNCHANGED <<snapshot, log, directory, orphans, abandoned>>, faults' \in Nat,
           staging' \in [Builders -> Files \cup {None}],
           job[b].published => staging'[b] = None,
           \A e \in Builders : e # b => staging'[e] = staging[e]
    PROVE  SnapInv' /\ EvidenceKept
<1>1. TypeOK /\ UNCHANGED <<job, reply>> /\ pc[b] \in Working /\ pc[b] # "idle"
  BY DEF SnapInv, Raise, Working, Trying
<1>2. pc' \in [Builders -> Place] /\ pc'[b] = "cleanup" /\ \A e \in Builders : e # b => pc'[e] = pc[e]
  BY <1>1 DEF TypeOK, Raise, Place, Handling
<1>3. TypeOK'
  BY <1>1, <1>2 DEF TypeOK
<1>4. OthersKept(b)
  BY <1>1, <1>2 DEF OthersKept
<1>5. OwnsRow(b)'
  BY <1>1, <1>2 DEF SnapInv, OwnsRow, Trying
<1>6. ReadsCut(b)'
  BY <1>2 DEF ReadsCut, Trying
<1>7. FilesOK(b)'
  BY <1>1, <1>2 DEF FilesOK
<1>8. ResultOK(b)'
  BY <1>1 DEF SnapInv, ResultOK
<1>9. orphans' \subseteq abandoned'
  BY DEF SnapInv
<1> QED
  BY <1>1, <1>3, <1>4, <1>5, <1>6, <1>7, <1>8, <1>9, BuilderStep, SnapshotConstants

\* _build_components: the first query fixes the cut, the others read at it.
LEMMA ReadSafe ==
    ASSUME SnapInv, NEW b \in Builders, ReadComponent(b)
    PROVE  SnapInv' /\ EvidenceKept
<1> DEFINE j == job[b]
           k == Len(j.rows) + 1
           component == Components[j.spec][k]
           rows == Visible(View(j)) \cap component.selects
<1>0. /\ pc[b] = "components" /\ pc[b] # "idle" /\ pc[b] \in Trying /\ pc[b] \in Working
      /\ UNCHANGED <<snapshot, log, directory, orphans, faults, abandoned>>
  BY DEF ReadComponent, stored, Trying, Working
<1>1. /\ TypeOK /\ j \in Job /\ j.code \in Codes /\ j.spec \in Specs
      /\ Components[j.spec] \in Seq(Component)
  BY <1>0, JobTyped
<1>2. CASE Raise(b) /\ UNCHANGED staging
  <2>1. j.published => staging[b] = None
    BY <1>0 DEF SnapInv, FilesOK
  <2>2. faults' \in Nat /\ staging' \in [Builders -> Files \cup {None}]
    BY <1>0, <1>1, <1>2 DEF TypeOK
  <2> QED
    BY <1>0, <1>2, <2>1, <2>2, RaiseSafe
<1>3. CASE /\ staging' = [staging EXCEPT ![b] = [Staged(b) EXCEPT !.components = Append(@, rows)]]
           /\ job' = [job EXCEPT ![b].view = View(j), ![b].rows = Append(@, rows)]
           /\ pc' = [pc EXCEPT ![b] = IF k = Len(Components[j.spec])
                                      THEN "manifest" ELSE "components"]
           /\ UNCHANGED reply
  <2>1. /\ j.rows \in Seq(SUBSET Revisions) /\ Len(j.rows) \in Nat
        /\ Len(Components[j.spec]) \in Nat
    BY <1>1 DEF Job
  <2>2. /\ j.view # None => j.view \in 0..Len(log)
        /\ j.rows # <<>> => j.view # None
        /\ IsCut(j.spec, j.view, j.rows)
        /\ Len(j.rows) < Len(Components[j.spec])
    BY <1>0 DEF SnapInv, ReadsCut
  <2>3. component \in Component
    BY <1>1, <2>1, <2>2
  <2>4. rows \in SUBSET Revisions
    BY <2>3 DEF Component
  <2>5. View(j) \in 0..Len(log) /\ View(j) # None
    BY <1>1, <2>2, SnapshotConstants DEF View, TypeOK
  <2>6. PICK n \in 0..Len(log) : n = View(j) /\ n \in Nat
    BY <1>1, <2>5 DEF TypeOK
  <2>a. PICK read \in SUBSET Revisions : read = rows
    BY <2>4
  <2>7. PICK more \in Seq(SUBSET Revisions) : more = Append(j.rows, read)
    <3>1. ASSUME NEW S, NEW q \in Seq(S), NEW x \in S
          PROVE  Append(q, x) \in Seq(S)
      OBVIOUS
    <3> QED
      BY <2>1, <3>1
  <2>8. PICK new \in Job :
           /\ new = [j EXCEPT !.view = n, !.rows = more]
           /\ new.code = j.code /\ new.spec = j.spec /\ new.view = n /\ new.rows = more
           /\ new.published = j.published
    <3>1. ASSUME NEW old \in Job
          PROVE  [old EXCEPT !.view = n, !.rows = more] \in Job
      BY <2>6 DEF Job
    <3>2. ASSUME NEW old \in Job
          PROVE  LET new == [old EXCEPT !.view = n, !.rows = more]
                 IN  /\ new.code = old.code /\ new.spec = old.spec /\ new.view = n
                     /\ new.rows = more /\ new.published = old.published
      BY DEF Job
    <3> QED
      BY <1>1, <3>1, <3>2
  <2>9. job' = [job EXCEPT ![b] = new]
    BY <1>1, <1>3, <2>6, <2>a, <2>7, <2>8 DEF TypeOK
  <2>10. PICK files \in Files : files = [Staged(b) EXCEPT !.components = Append(@, rows)]
                                /\ files = [components |-> more, manifest |-> None]
    <3>1. Staged(b) = [components |-> j.rows, manifest |-> None]
      BY <1>0 DEF SnapInv, FilesOK
    <3>2. [Staged(b) EXCEPT !.components = Append(@, rows)] = [components |-> more, manifest |-> None]
      <4>1. [Staged(b) EXCEPT !.components = Append(@, rows)] =
               [Staged(b) EXCEPT !.components = more]
        BY <2>a, <2>7, <3>1
      <4> QED
        BY <3>1, <4>1
    <3>3. [components |-> more, manifest |-> None] \in Files
      BY DEF Files
    <3> QED
      BY <3>2, <3>3
  <2>11. files # None /\ staging' = [staging EXCEPT ![b] = files]
    BY <1>3, <2>10, SnapshotConstants
  <2>12. /\ job' \in [Builders -> Job] /\ job'[b] = new /\ staging'[b] = files
         /\ staging' \in [Builders -> Files \cup {None}]
         /\ \A e \in Builders : e # b => job'[e] = job[e] /\ staging'[e] = staging[e]
    BY <1>1, <2>9, <2>11 DEF TypeOK
  <2>13. /\ pc' \in [Builders -> Place] /\ pc'[b] \in {"components", "manifest"}
         /\ pc'[b] = "manifest" <=> k = Len(Components[j.spec])
         /\ \A e \in Builders : e # b => pc'[e] = pc[e]
    BY <1>1, <1>3 DEF TypeOK, Place, Trying
  <2>14. TypeOK'
    BY <1>0, <1>1, <1>3, <2>12, <2>13 DEF TypeOK
  <2>15. OthersKept(b)
    BY <1>3, <2>12, <2>13 DEF OthersKept
  <2>16. OwnsRow(b)'
    BY <1>0, <2>8, <2>12, <2>13 DEF SnapInv, OwnsRow, Trying, Handling
  <2>17. ReadsCut(b)'
    <3>1. Len(more) = Len(j.rows) + 1 /\ more # <<>>
      BY <2>1, <2>7
    <3>2. IsCut(j.spec, n, more)
      <4>1. ASSUME NEW i \in 1..Len(more)
            PROVE  more[i] = Visible(n) \cap Components[j.spec][i].selects
        <5>1. CASE i = k
          BY <2>1, <2>6, <2>a, <2>7, <5>1
        <5>2. CASE i # k
          <6>1. i \in 1..Len(j.rows) /\ more[i] = j.rows[i] /\ j.rows # <<>>
            BY <2>1, <2>7, <3>1, <5>2
          <6>2. View(j) = j.view
            BY <2>2, <6>1 DEF View
          <6> QED
            BY <2>2, <2>6, <6>1, <6>2 DEF IsCut
        <5> QED
          BY <5>1, <5>2
      <4> QED
        BY <4>1 DEF IsCut
    <3>3. IsCut(j.spec, n, more)'
      BY <1>0, <2>8, <2>12, <3>2 DEF IsCut, Visible
    <3>4. /\ pc'[b] = "components" => Len(more) < Len(Components[j.spec])
          /\ pc'[b] = "manifest" => Len(more) = Len(Components[j.spec])
      BY <2>1, <2>2, <2>13, <3>1
    <3>5. job'[b].view = n /\ job'[b].rows = more /\ job'[b].spec = j.spec /\ n # None
      BY <2>5, <2>6, <2>8, <2>12
    <3> QED
      BY <1>0, <2>13, <3>3, <3>4, <3>5 DEF ReadsCut
  <2>18. FilesOK(b)'
    <3>1. Staged(b)' = [components |-> job'[b].rows, manifest |-> None]
      BY <2>8, <2>10, <2>11, <2>12 DEF Staged
    <3>2. ~j.published
      BY <1>0 DEF SnapInv, FilesOK
    <3> QED
      BY <2>8, <2>12, <2>13, <3>1, <3>2 DEF FilesOK
  <2>19. ResultOK(b)'
    BY <1>0, <1>3 DEF SnapInv, ResultOK
  <2>20. orphans' \subseteq abandoned' /\ job'[b].code = job[b].code
    BY <1>0, <2>8, <2>12 DEF SnapInv
  <2> QED
    BY <1>0, <2>14, <2>15, <2>16, <2>17, <2>18, <2>19, <2>20, BuilderStep, SnapshotConstants
<1> QED
  BY <1>2, <1>3 DEF ReadComponent

\* _write_manifest: the staging directory is complete.
LEMMA WriteManifestSafe ==
    ASSUME SnapInv, NEW b \in Builders, WriteManifest(b)
    PROVE  SnapInv' /\ EvidenceKept
<1>0. /\ pc[b] = "manifest" /\ pc[b] # "idle" /\ pc[b] \in Trying /\ pc[b] \in Working
      /\ UNCHANGED <<snapshot, log, directory, orphans, job, reply, faults, abandoned>>
  BY DEF WriteManifest, stored, Trying, Working
<1>1. TypeOK /\ job[b] \in Job /\ job[b].code \in Codes
  BY <1>0, JobTyped
<1>2. PICK files \in Files :
         /\ files = [components |-> job[b].rows, manifest |-> ManifestOf(job[b])]
         /\ files = [Staged(b) EXCEPT !.manifest = ManifestOf(job[b])]
  <2>1. Staged(b) = [components |-> job[b].rows, manifest |-> None]
    BY <1>0 DEF SnapInv, FilesOK
  <2>2. [components |-> job[b].rows, manifest |-> ManifestOf(job[b])] =
           [Staged(b) EXCEPT !.manifest = ManifestOf(job[b])]
    BY <2>1
  <2> QED
    BY <1>1, <2>2, ManifestTyped
<1>3. /\ staging' \in [Builders -> Files \cup {None}] /\ staging'[b] = files
      /\ \A e \in Builders : e # b => staging'[e] = staging[e]
  BY <1>1, <1>2 DEF TypeOK, WriteManifest
<1>4. /\ pc' \in [Builders -> Place] /\ pc'[b] = "publish"
      /\ \A e \in Builders : e # b => pc'[e] = pc[e]
  BY <1>1 DEF TypeOK, WriteManifest, Place, Trying
<1>5. TypeOK'
  BY <1>0, <1>1, <1>3, <1>4 DEF TypeOK
<1>6. OthersKept(b)
  BY <1>0, <1>3, <1>4 DEF OthersKept
<1>7. OwnsRow(b)'
  BY <1>0, <1>4 DEF SnapInv, OwnsRow, Trying, Handling
<1>8. ReadsCut(b)'
  BY <1>0, <1>4 DEF SnapInv, ReadsCut, IsCut, Visible, Trying
<1>9. FilesOK(b)'
  BY <1>0, <1>2, <1>3, <1>4 DEF SnapInv, FilesOK, ManifestOf
<1>10. ResultOK(b)'
  BY <1>0 DEF SnapInv, ResultOK
<1>11. orphans' \subseteq abandoned'
  BY <1>0 DEF SnapInv
<1> QED
  BY <1>0, <1>5, <1>6, <1>7, <1>8, <1>9, <1>10, <1>11, BuilderStep, SnapshotConstants

\* publish: the rename replaces no directory.
LEMMA PublishSafe ==
    ASSUME SnapInv, NEW b \in Builders, Publish(b)
    PROVE  SnapInv' /\ EvidenceKept
<1>0. /\ pc[b] = "publish" /\ pc[b] # "idle" /\ pc[b] \in Trying /\ pc[b] \in Working
      /\ UNCHANGED <<snapshot, log, orphans, faults, abandoned>>
  BY DEF Publish, Trying, Working
<1>1. TypeOK /\ job[b] \in Job /\ job[b].code \in Codes
  BY <1>0, JobTyped
<1>2. staging[b] = [components |-> job[b].rows, manifest |-> ManifestOf(job[b])] /\ ~job[b].published
  BY <1>0 DEF SnapInv, FilesOK
<1>3. CASE Raise(b) /\ UNCHANGED <<directory, staging>>
  <2>1. faults' \in Nat /\ staging' \in [Builders -> Files \cup {None}]
    BY <1>0, <1>1, <1>3 DEF TypeOK
  <2> QED
    BY <1>0, <1>2, <1>3, <2>1, RaiseSafe
<1>4. CASE /\ CanPublish(b)
           /\ directory' = [directory EXCEPT ![job[b].code] = staging[b]]
           /\ staging' = [staging EXCEPT ![b] = None]
           /\ job' = [job EXCEPT ![b].published = TRUE]
           /\ pc' = [pc EXCEPT ![b] = "freeze"]
           /\ UNCHANGED reply
  <2>1. PICK c \in Codes : c = job[b].code /\ directory[c] = None
    BY <1>1, <1>4 DEF CanPublish
  <2>2. staging[b] \in Files
    BY <1>1, <1>2, ManifestTyped
  <2>3. /\ directory' \in [Codes -> Files \cup {None}] /\ directory'[c] = staging[b]
        /\ \A d \in Codes : directory[d] # None => directory'[d] = directory[d]
    BY <1>1, <1>4, <2>1, <2>2 DEF TypeOK
  <2>4. PICK new \in Job :
           /\ new = [job[b] EXCEPT !.published = TRUE]
           /\ new.code = job[b].code /\ new.spec = job[b].spec /\ new.view = job[b].view
           /\ new.rows = job[b].rows
    <3>1. ASSUME NEW old \in Job
          PROVE  [old EXCEPT !.published = TRUE] \in Job
      BY DEF Job
    <3>2. ASSUME NEW old \in Job
          PROVE  LET new == [old EXCEPT !.published = TRUE]
                 IN  /\ new.code = old.code /\ new.spec = old.spec /\ new.view = old.view
                     /\ new.rows = old.rows
      BY DEF Job
    <3> QED
      BY <1>1, <3>1, <3>2
  <2>5. job' = [job EXCEPT ![b] = new]
    BY <1>1, <1>4, <2>4 DEF TypeOK
  <2>6. /\ job' \in [Builders -> Job] /\ job'[b] = new
        /\ staging' \in [Builders -> Files \cup {None}] /\ staging'[b] = None
        /\ pc' \in [Builders -> Place] /\ pc'[b] = "freeze"
    BY <1>1, <1>4, <2>5 DEF TypeOK, Place, Trying
  <2>7. OthersKept(b)
    BY <1>1, <1>4, <2>5 DEF TypeOK, OthersKept
  <2>8. TypeOK'
    BY <1>0, <1>1, <1>4, <2>3, <2>6 DEF TypeOK
  <2>9. OwnsRow(b)'
    BY <1>0, <2>4, <2>6 DEF SnapInv, OwnsRow, Trying, Handling
  <2>10. ReadsCut(b)'
    BY <1>0, <2>4, <2>6 DEF SnapInv, ReadsCut, IsCut, Visible, Trying
  <2>11. FilesOK(b)'
    BY <1>2, <2>1, <2>3, <2>4, <2>6 DEF FilesOK, ManifestOf
  <2>12. ResultOK(b)'
    BY <1>0, <1>4 DEF SnapInv, ResultOK
  <2>13. orphans' \subseteq abandoned' /\ job'[b].code = job[b].code
    BY <1>0, <2>4, <2>6 DEF SnapInv
  <2> QED
    BY <1>0, <2>3, <2>7, <2>8, <2>9, <2>10, <2>11, <2>12, <2>13, BuilderStep, SnapshotConstants
<1> QED
  BY <1>3, <1>4 DEF Publish

\* insert_components and freeze: the row gets what the directory holds, whether or
\* not the caller is told.
LEMMA FreezeSafe ==
    ASSUME SnapInv, NEW b \in Builders, Freeze(b)
    PROVE  SnapInv' /\ EvidenceKept
<1>0. /\ pc[b] = "freeze" /\ pc[b] # "idle" /\ pc[b] \in Trying /\ pc[b] \in Working
      /\ UNCHANGED <<log, directory, staging, orphans, abandoned>>
  BY DEF Freeze, Trying, Working
<1>1. /\ TypeOK /\ job[b] \in Job /\ job[b].code \in Codes /\ job[b].spec \in Specs
      /\ Len(Components[job[b].spec]) \in Nat \ {0}
  BY <1>0, JobTyped
<1>2. PICK c \in Codes : c = job[b].code
  BY <1>1
<1>3. PICK row \in Record :
         /\ row = FrozenRecord(job[b])
         /\ row.status = "FROZEN" /\ row.spec = job[b].spec /\ row.components = job[b].rows
         /\ row.manifest = ManifestOf(job[b])
  <2>1. FrozenRecord(job[b]) \in Record
    BY <1>1, ManifestTyped
  <2> QED
    BY <2>1 DEF FrozenRecord
<1>4. snapshot[c].status = "BUILDING" /\ snapshot' = [snapshot EXCEPT ![c] = row]
  BY <1>2, <1>3 DEF Freeze
<1>5. /\ snapshot' \in [Codes -> Record] /\ snapshot'[c] = row
      /\ \A d \in Codes : d # c => snapshot'[d] = snapshot[d]
  BY <1>1, <1>4 DEF TypeOK
<1>6. /\ staging[b] = None
      /\ directory[c] = [components |-> job[b].rows, manifest |-> ManifestOf(job[b])]
  BY <1>0, <1>2 DEF SnapInv, FilesOK
<1>7. RowOK(c)'
  <2>1. /\ Len(job[b].rows) = Len(Components[job[b].spec])
        /\ job[b].rows # <<>>
        /\ IsCut(job[b].spec, job[b].view, job[b].rows) /\ job[b].view \in 0..Len(log)
    <3>1. /\ Len(job[b].rows) = Len(Components[job[b].spec])
          /\ job[b].view # None => job[b].view \in 0..Len(log)
          /\ job[b].rows # <<>> => job[b].view # None
          /\ IsCut(job[b].spec, job[b].view, job[b].rows)
      BY <1>0 DEF SnapInv, ReadsCut
    <3>2. job[b].rows # <<>>
      BY <1>1, <3>1
    <3> QED
      BY <3>1, <3>2
  <2>2. PICK n \in 0..Len(log) : IsCut(job[b].spec, n, job[b].rows)
    BY <2>1
  <2>3. IsCut(row.spec, n, row.components)'
    BY <1>0, <1>3, <2>2 DEF IsCut, Visible
  <2>4. ManifestOf(job[b]) = [code |-> c, spec |-> row.spec, components |-> row.components]
    BY <1>2, <1>3 DEF ManifestOf
  <2> QED
    BY <1>0, <1>1, <1>3, <1>5, <1>6, <2>1, <2>3, <2>4 DEF RowOK
<1>8. CASE Return(b, ToldMine(b, "result")) /\ UNCHANGED faults
  <2>1. PICK answer \in BuildReply :
           answer = ToldMine(b, "result") /\ answer.code = c /\ answer.spec = job[b].spec
    BY <1>1, <1>2, ToldTyped DEF ToldMine
  <2>2. /\ staging' \in [Builders -> Files \cup {None}] /\ abandoned' \subseteq Codes
        /\ faults' \in Nat /\ orphans' \subseteq abandoned'
    BY <1>0, <1>1, <1>8 DEF TypeOK, SnapInv
  <2> QED
    BY <1>0, <1>2, <1>3, <1>4, <1>5, <1>6, <1>7, <1>8, <2>1, <2>2, CallEnds
<1>9. CASE Fault(b) /\ Raise(b)
  <2>1. UNCHANGED <<job, reply>> /\ pc' = [pc EXCEPT ![b] = "cleanup"] /\ faults' \in Nat
    BY <1>1, <1>9 DEF Raise, Fault, TypeOK
  <2>2. /\ pc' \in [Builders -> Place] /\ pc'[b] = "cleanup"
        /\ \A e \in Builders : e # b => pc'[e] = pc[e]
    BY <1>1, <2>1 DEF TypeOK, Place, Handling
  <2>3. TypeOK'
    BY <1>0, <1>1, <1>5, <2>1, <2>2 DEF TypeOK
  <2>4. OthersKept(b)
    BY <1>0, <2>1, <2>2 DEF OthersKept
  <2>5. OwnsRow(b)'
    BY <1>1, <1>2, <1>3, <1>5, <2>1, <2>2 DEF OwnsRow, Trying
  <2>6. ReadsCut(b)'
    BY <2>2 DEF ReadsCut, Trying
  <2>7. FilesOK(b)'
    BY <1>0, <1>6, <2>2 DEF FilesOK
  <2>8. ResultOK(b)'
    BY <1>4, <1>5, <2>1 DEF SnapInv, ResultOK
  <2>9. orphans' \subseteq abandoned'
    BY <1>0 DEF SnapInv
  <2> QED
    BY <1>0, <1>2, <1>4, <1>5, <1>7, <2>1, <2>3, <2>4, <2>5, <2>6, <2>7, <2>8, <2>9, BuilderStep
<1> QED
  BY <1>8, <1>9 DEF Freeze

-----------------------------------------------------------------------------
(* The handler, failures and crashes *)

\* cleanup_incomplete: what is left of an unpublished build goes.
LEMMA CleanupSafe ==
    ASSUME SnapInv, NEW b \in Builders, Cleanup(b)
    PROVE  SnapInv' /\ EvidenceKept
<1>0. /\ pc[b] = "cleanup" /\ pc[b] # "idle" /\ pc[b] \in Handling /\ pc[b] \in Working
      /\ UNCHANGED <<snapshot, log, directory, orphans, job, reply, faults, abandoned>>
  BY DEF Cleanup, stored, Handling, Working
<1>1. TypeOK
  BY DEF SnapInv
<1>2. /\ staging' \in [Builders -> Files \cup {None}] /\ staging'[b] = None
      /\ \A e \in Builders : e # b => staging'[e] = staging[e]
  <2>1. job[b].published => staging[b] = None
    BY <1>0 DEF SnapInv, FilesOK
  <2> QED
    BY <1>1, <2>1 DEF TypeOK, Cleanup
<1>3. /\ pc' \in [Builders -> Place] /\ pc'[b] = "mark_failed"
      /\ \A e \in Builders : e # b => pc'[e] = pc[e]
  BY <1>1 DEF TypeOK, Cleanup, Place, Handling
<1>4. TypeOK'
  BY <1>0, <1>1, <1>2, <1>3 DEF TypeOK
<1>5. OthersKept(b)
  BY <1>0, <1>2, <1>3 DEF OthersKept
<1>6. OwnsRow(b)'
  BY <1>0, <1>3 DEF SnapInv, OwnsRow, Trying, Handling
<1>7. ReadsCut(b)'
  BY <1>3 DEF ReadsCut, Trying
<1>8. FilesOK(b)'
  BY <1>2, <1>3 DEF FilesOK
<1>9. ResultOK(b)'
  BY <1>0 DEF SnapInv, ResultOK
<1>10. orphans' \subseteq abandoned'
  BY <1>0 DEF SnapInv
<1> QED
  BY <1>0, <1>4, <1>5, <1>6, <1>7, <1>8, <1>9, <1>10, BuilderStep, SnapshotConstants

\* _mark_failed leaves a row alone that the lost commit has frozen.
LEMMA MarkFailedSafe ==
    ASSUME SnapInv, NEW b \in Builders, MarkFailed(b)
    PROVE  SnapInv' /\ EvidenceKept
<1>0. /\ pc[b] = "mark_failed" /\ pc[b] # "idle" /\ pc[b] \in Working
      /\ UNCHANGED <<log, directory, staging, orphans, faults, abandoned>>
  BY DEF MarkFailed, Handling, Working
<1>1. /\ TypeOK /\ job[b].code \in Codes /\ job[b].spec \in Specs
      /\ snapshot[job[b].code] \in Record
  BY <1>0, JobTyped
<1>2. PICK c \in Codes : c = job[b].code
  BY <1>1
<1>3. PICK answer \in BuildReply :
         answer = ToldMine(b, "build_error") /\ answer.kind # "result"
  BY <1>1, ToldTyped DEF ToldMine
<1>4. Return(b, answer)
  BY <1>3 DEF MarkFailed
<1>5. /\ staging' \in [Builders -> Files \cup {None}] /\ staging'[b] = None
      /\ abandoned' \subseteq Codes /\ faults' \in Nat /\ orphans' \subseteq abandoned'
  BY <1>0, <1>1 DEF TypeOK, SnapInv, FilesOK
<1>6. CASE CanMarkFailed(c)
  <2>1. PICK row \in Record :
           /\ row = [snapshot[c] EXCEPT !.status = "FAILED"]
           /\ row.status = "FAILED" /\ row.manifest = snapshot[c].manifest
           /\ row.components = snapshot[c].components
    <3>1. ASSUME NEW old \in Record
          PROVE  [old EXCEPT !.status = "FAILED"] \in Record
      BY DEF Record, Status
    <3>2. ASSUME NEW old \in Record
          PROVE  LET row == [old EXCEPT !.status = "FAILED"]
                 IN  /\ row.status = "FAILED" /\ row.manifest = old.manifest
                     /\ row.components = old.components
      BY DEF Record
    <3> QED
      BY <1>1, <1>2, <3>1, <3>2
  <2>2. snapshot' = [snapshot EXCEPT ![c] = row]
    BY <1>1, <1>2, <1>6, <2>1 DEF MarkFailed, TypeOK
  <2>3. /\ snapshot' \in [Codes -> Record] /\ snapshot'[c] = row
        /\ \A d \in Codes : d # c => snapshot'[d] = snapshot[d]
    BY <1>1, <2>2 DEF TypeOK
  <2>4. snapshot[c].status # "FROZEN"
    BY <1>6 DEF CanMarkFailed
  <2>5. RowOK(c)'
    BY <2>1, <2>3, <2>4 DEF SnapInv, RowOK
  <2> QED
    BY <1>0, <1>2, <1>3, <1>4, <1>5, <2>3, <2>4, <2>5, CallEnds
<1>7. CASE ~CanMarkFailed(c)
  <2>1. snapshot' = snapshot /\ snapshot' \in [Codes -> Record]
    BY <1>1, <1>2, <1>7 DEF MarkFailed, TypeOK
  <2> QED
    BY <1>0, <1>3, <1>4, <1>5, <2>1, CallEnds, SnapshotConstants
<1> QED
  BY <1>6, <1>7

\* A staging directory that is left behind is recorded under its code.
LEMMA OrphanedTyped ==
    ASSUME SnapInv, NEW b \in Builders, pc[b] # "idle"
    PROVE  /\ Orphaned(b) \subseteq {job[b].code} /\ job[b].code \in Codes
           /\ pc[b] = "insert" => Orphaned(b) = {}
<1>1. job[b].code \in Codes
  BY JobTyped
<1>2. pc[b] = "insert" => staging[b] = None
  BY DEF SnapInv, FilesOK
<1> QED
  BY <1>1, <1>2 DEF Orphaned

\* Failures at every other place.
LEMMA ErrorSafe ==
    ASSUME SnapInv, NEW b \in Builders, UnexpectedError(b)
    PROVE  SnapInv' /\ EvidenceKept
<1>0. pc[b] # "idle" /\ Fault(b) /\ UNCHANGED <<snapshot, log, directory>>
  BY DEF UnexpectedError
<1>1. /\ TypeOK /\ job[b].code \in Codes /\ job[b].spec \in Specs
      /\ snapshot' \in [Codes -> Record] /\ faults' \in Nat /\ None \notin Codes
  <2>1. TypeOK /\ job[b].code \in Codes /\ job[b].spec \in Specs
    BY <1>0, JobTyped
  <2> QED
    BY <1>0, <2>1, SnapshotConstants DEF TypeOK, Fault
<1>2. \A kind \in {"error", "build_error"} :
         ToldMine(b, kind) \in BuildReply /\ ToldMine(b, kind).kind # "result"
  BY <1>1, ToldTyped DEF ToldMine
<1>3. CASE /\ pc[b] = "insert"
           /\ Return(b, ToldMine(b, "error"))
           /\ UNCHANGED <<staging, orphans, abandoned>>
  <2>1. PICK answer \in BuildReply : answer = ToldMine(b, "error") /\ answer.kind # "result"
    BY <1>2
  <2>2. /\ staging' \in [Builders -> Files \cup {None}] /\ staging'[b] = None
        /\ abandoned' \subseteq Codes /\ orphans' \subseteq abandoned'
    BY <1>1, <1>3 DEF TypeOK, SnapInv, FilesOK
  <2> QED
    BY <1>0, <1>1, <1>3, <2>1, <2>2, CallEnds
<1>4. CASE /\ pc[b] \in Trying
           /\ Raise(b)
           /\ \/ UNCHANGED staging
              \/ pc[b] = "components" /\ staging' = [staging EXCEPT ![b] = Staged(b)]
           /\ UNCHANGED <<orphans, abandoned>>
  <2>1. pc[b] \in Working /\ (job[b].published => staging[b] = None)
    BY <1>4 DEF SnapInv, FilesOK, Working
  <2>2. /\ staging' \in [Builders -> Files \cup {None}]
        /\ \A e \in Builders : e # b => staging'[e] = staging[e]
    BY <1>1, <1>4, StagedTyped DEF TypeOK
  <2>3. job[b].published => staging'[b] = None
    <3>1. pc[b] = "components" => ~job[b].published
      BY DEF SnapInv, FilesOK
    <3> QED
      BY <1>4, <2>1, <3>1
  <2> QED
    BY <1>0, <1>1, <1>4, <2>2, <2>3, RaiseSafe
<1>5. CASE /\ pc[b] \in Handling
           /\ Return(b, ToldMine(b, IF pc[b] = "cleanup" THEN "error" ELSE "build_error"))
           /\ staging' = [staging EXCEPT ![b] = None]
           /\ orphans' = orphans \cup Orphaned(b)
           /\ abandoned' = abandoned \cup {job[b].code}
  <2>1. PICK answer \in BuildReply :
           /\ answer = ToldMine(b, IF pc[b] = "cleanup" THEN "error" ELSE "build_error")
           /\ answer.kind # "result"
    BY <1>2
  <2>2. /\ staging' \in [Builders -> Files \cup {None}] /\ staging'[b] = None
        /\ \A e \in Builders : e # b => staging'[e] = staging[e]
    BY <1>1, <1>5 DEF TypeOK
  <2>3. abandoned' \subseteq Codes /\ orphans' \subseteq abandoned'
    BY <1>0, <1>1, <1>5, OrphanedTyped DEF TypeOK, SnapInv
  <2> QED
    BY <1>0, <1>1, <1>5, <2>1, <2>2, <2>3, CallEnds
<1> QED
  BY <1>3, <1>4, <1>5 DEF UnexpectedError

\* A crash.
LEMMA CrashSafe ==
    ASSUME SnapInv, NEW b \in Builders, Crash(b)
    PROVE  SnapInv' /\ EvidenceKept
<1>0. pc[b] # "idle" /\ UNCHANGED <<snapshot, log, directory, faults>>
  BY DEF Crash
<1>1. TypeOK /\ NoReply \in BuildReply /\ NoReply.kind # "result"
  BY DEF SnapInv, NoReply, BuildReply
<1>2. /\ snapshot' \in [Codes -> Record] /\ faults' \in Nat /\ None \notin Codes
      /\ staging' \in [Builders -> Files \cup {None}] /\ staging'[b] = None
      /\ \A e \in Builders : e # b => staging'[e] = staging[e]
  BY <1>0, <1>1, SnapshotConstants DEF TypeOK, Crash
<1>3. abandoned' \subseteq Codes /\ orphans' \subseteq abandoned'
  <2>1. /\ abandoned' = abandoned \cup {c \in {job[b].code} : pc[b] # "insert"}
        /\ orphans' = orphans \cup Orphaned(b)
    BY DEF Crash
  <2> QED
    BY <1>0, <1>1, <2>1, OrphanedTyped DEF TypeOK, SnapInv
<1>4. Return(b, NoReply)
  BY DEF Crash
<1> QED
  BY <1>0, <1>1, <1>2, <1>3, <1>4, CallEnds

-----------------------------------------------------------------------------
(* Ingestion, the initial state and the theorems *)

\* What a build has read stays a cut of the longer log.
LEMMA IngestSafe ==
    ASSUME SnapInv, Ingest
    PROVE  SnapInv' /\ EvidenceKept
<1>0. /\ TypeOK
      /\ UNCHANGED <<snapshot, directory, staging, orphans, pc, job, reply, faults, abandoned>>
  BY DEF SnapInv, Ingest
<1>1. PICK new \in SUBSET Revisions : log' = Append(log, new)
  BY DEF Ingest
<1>2. /\ log' \in Seq(SUBSET Revisions) /\ Len(log) \in Nat /\ Len(log') = Len(log) + 1
  BY <1>0, <1>1 DEF TypeOK
<1>3. \A n \in 0..Len(log) : n \in 0..Len(log') /\ Visible(n)' = Visible(n)
  BY <1>0, <1>1, <1>2, VisibleKept
<1>4. TypeOK'
  BY <1>0, <1>2 DEF TypeOK
<1>5. ASSUME NEW c \in Codes
      PROVE  RowOK(c)'
  <2>1. ASSUME NEW n \in 0..Len(log), IsCut(snapshot[c].spec, n, snapshot[c].components)
        PROVE  IsCut(snapshot[c].spec, n, snapshot[c].components)'
    BY <1>0, <1>3, <2>1 DEF IsCut
  <2> QED
    BY <1>0, <1>3, <2>1 DEF SnapInv, RowOK
<1>6. ASSUME NEW b \in Builders
      PROVE  OwnsRow(b)' /\ ReadsCut(b)' /\ FilesOK(b)' /\ ResultOK(b)'
  <2>1. OwnsRow(b)'
    BY <1>0 DEF SnapInv, OwnsRow
  <2>2. ReadsCut(b)'
    <3>1. CASE pc[b] \notin Trying
      BY <1>0, <3>1 DEF SnapInv, ReadsCut, Trying
    <3>2. CASE pc[b] \in Trying
      <4>1. /\ job[b].view # None => job[b].view \in 0..Len(log')
            /\ job[b].rows # <<>> => job[b].view # None
        BY <1>3, <3>2 DEF SnapInv, ReadsCut
      <4>2. IsCut(job[b].spec, job[b].view, job[b].rows)'
        <5>1. CASE job[b].rows = <<>>
          BY <1>0, <5>1 DEF IsCut
        <5>2. CASE job[b].rows # <<>>
          <6>1. PICK n \in 0..Len(log) : n = job[b].view
            BY <3>2, <5>2 DEF SnapInv, ReadsCut
          <6>2. IsCut(job[b].spec, n, job[b].rows)
            BY <3>2, <6>1 DEF SnapInv, ReadsCut
          <6> QED
            BY <1>0, <1>3, <6>1, <6>2 DEF IsCut
        <5> QED
          BY <5>1, <5>2
      <4>3. /\ pc[b] = "components" => Len(job[b].rows) < Len(Components[job[b].spec])
            /\ pc[b] \in {"manifest", "publish", "freeze"} =>
                  Len(job[b].rows) = Len(Components[job[b].spec])
        BY DEF SnapInv, ReadsCut
      <4> QED
        BY <1>0, <3>2, <4>1, <4>2, <4>3 DEF ReadsCut, Trying
    <3> QED
      BY <3>1, <3>2
  <2>3. FilesOK(b)'
    BY <1>0 DEF SnapInv, FilesOK, Staged, ManifestOf
  <2>4. ResultOK(b)'
    BY <1>0 DEF SnapInv, ResultOK
  <2> QED
    BY <2>1, <2>2, <2>3, <2>4
<1>7. OneBuilderPerCode' /\ orphans' \subseteq abandoned'
  BY <1>0 DEF SnapInv, OneBuilderPerCode
<1>8. EvidenceKept
  BY <1>0 DEF EvidenceKept
<1> QED
  BY <1>4, <1>5, <1>6, <1>7, <1>8 DEF SnapInv

\* Stuttering.
LEMMA UnchangedSafe ==
    ASSUME SnapInv, UNCHANGED vars
    PROVE  SnapInv' /\ EvidenceKept
<1>0. UNCHANGED <<snapshot, log, directory, staging, orphans, pc, job, reply, faults, abandoned>>
  BY DEF vars
<1>1. TypeOK' /\ orphans' \subseteq abandoned'
  BY <1>0 DEF SnapInv, TypeOK
<1>2. \A c \in Codes : RowOK(c)'
  BY <1>0 DEF SnapInv, RowOK, IsCut, Visible
<1>3. ASSUME NEW b \in Builders
      PROVE  OwnsRow(b)' /\ ReadsCut(b)' /\ FilesOK(b)' /\ ResultOK(b)'
  <2>1. OwnsRow(b)' /\ ResultOK(b)'
    BY <1>0 DEF SnapInv, OwnsRow, ResultOK
  <2>2. ReadsCut(b)'
    BY <1>0 DEF SnapInv, ReadsCut, IsCut, Visible
  <2>3. FilesOK(b)'
    BY <1>0 DEF SnapInv, FilesOK, Staged, ManifestOf
  <2> QED
    BY <2>1, <2>2, <2>3
<1>4. OneBuilderPerCode'
  BY <1>0 DEF SnapInv, OneBuilderPerCode
<1> QED
  BY <1>0, <1>1, <1>2, <1>3, <1>4 DEF SnapInv, EvidenceKept

\* No row, no builder, and the directories of earlier builds.
LEMMA InitSafe == Init => SnapInv
<1> SUFFICES ASSUME Init
             PROVE  SnapInv
  OBVIOUS
<1>1. NoRecord \in Record /\ NoJob \in Job /\ NoReply \in BuildReply
  BY DEF NoRecord, Record, Status, NoJob, Job, NoReply, BuildReply
<1>2. ASSUME NEW c \in Codes
      PROVE  EarlierFiles(c) \in Files
  <2>1. [code |-> c, spec |-> None, components |-> <<>>] \in Manifest
    BY DEF Manifest
  <2> QED
    BY <2>1 DEF EarlierFiles, Files
<1>3. TypeOK
  BY <1>1, <1>2 DEF Init, TypeOK, Place
<1>4. ASSUME NEW c \in Codes
      PROVE  RowOK(c)
  BY DEF Init, RowOK, NoRecord
<1>5. ASSUME NEW b \in Builders
      PROVE  /\ pc[b] = "idle" /\ pc[b] \notin Working /\ staging[b] = None
             /\ reply[b].kind # "result"
  BY DEF Init, Working, Trying, Handling, NoReply
<1>6. ASSUME NEW b \in Builders
      PROVE  OwnsRow(b) /\ ReadsCut(b) /\ FilesOK(b) /\ ResultOK(b)
  BY <1>5 DEF OwnsRow, ReadsCut, FilesOK, ResultOK, Working, Trying, Handling
<1>7. OneBuilderPerCode /\ orphans \subseteq abandoned
  BY <1>5 DEF OneBuilderPerCode, Working, Init
<1> QED
  BY <1>3, <1>4, <1>6, <1>7 DEF SnapInv

\* Every step keeps the invariant and the evidence.
LEMMA NextSafe == SnapInv /\ [Next]_vars => SnapInv' /\ EvidenceKept
<1> SUFFICES ASSUME SnapInv, [Next]_vars
             PROVE  SnapInv' /\ EvidenceKept
  OBVIOUS
<1>1. ASSUME NEW b \in Builders, Proceed(b)
      PROVE  SnapInv' /\ EvidenceKept
  BY <1>1, CreateSafe, ReadSafe, WriteManifestSafe, PublishSafe, FreezeSafe, CleanupSafe,
     MarkFailedSafe DEF Proceed
<1> QED
  BY <1>1, LookupSafe, ErrorSafe, CrashSafe, IngestSafe, UnchangedSafe DEF Next

\* So the invariant always holds.
LEMMA AlwaysSafe == Spec => []SnapInv
  BY InitSafe, NextSafe, PTL DEF Spec

\* Rows, files and builders always have their types; in particular a FROZEN row has
\* a manifest hash (the CHECK of catalog.data_snapshot).
THEOREM TypeCorrect == Spec => []TypeOK
<1>1. SnapInv => TypeOK
  BY DEF SnapInv
<1> QED
  BY <1>1, AlwaysSafe, PTL

\* A code belongs to the builder that inserted it, and a result stays what the code is
\* frozen for (create_building, _resolve_existing).
THEOREM ClaimedOnce == Spec => []CodesAreClaimedOnce
<1>1. SnapInv => CodesAreClaimedOnce
  BY DEF SnapInv, CodesAreClaimedOnce, ResultsAreFrozen, ResultOK
<1> QED
  BY <1>1, AlwaysSafe, PTL

\* Every FROZEN row passes the verifier, whatever failed between the rename and the
\* commit (SnapshotBuilder.build, SnapshotVerifier).
THEOREM FrozenAlwaysVerifies == Spec => []FrozenVerifies
<1>1. ASSUME SnapInv, NEW c \in Frozen
      PROVE  ArtifactIssues(c) = {}
  <2>1. c \in Codes /\ snapshot[c].status = "FROZEN" /\ snapshot[c] \in Record
    BY <1>1 DEF Frozen, SnapInv, TypeOK
  <2>2. /\ snapshot[c].manifest = [code |-> c, spec |-> snapshot[c].spec,
                                   components |-> snapshot[c].components]
        /\ directory[c] = [components |-> snapshot[c].components,
                           manifest |-> snapshot[c].manifest]
    BY <1>1, <2>1 DEF SnapInv, RowOK
  <2>3. directory[c] \in Files
    BY <2>1, <2>2 DEF Record, Files
  <2>4. directory[c] # None
    BY <2>3, SnapshotConstants
  <2>5. /\ directory[c].components = snapshot[c].components
        /\ directory[c].manifest = snapshot[c].manifest
    BY <2>2
  <2> QED
    BY <2>2, <2>4, <2>5 DEF ArtifactIssues
<1>2. SnapInv => FrozenVerifies
  BY <1>1 DEF FrozenVerifies
<1> QED
  BY <1>2, AlwaysSafe, PTL

\* The components of a FROZEN snapshot are all there and were read at one moment of
\* the database's history (_build_components).
THEOREM CutsAreConsistent == Spec => []ConsistentCut
<1>1. ASSUME SnapInv, NEW c \in Frozen
      PROVE  /\ Len(snapshot[c].components) = Len(Components[snapshot[c].spec])
             /\ \E n \in 0..Len(log) : Drift(c, n) = {}
  <2>1. c \in Codes /\ snapshot[c].status = "FROZEN" /\ snapshot[c] \in Record
    BY <1>1 DEF Frozen, SnapInv, TypeOK
  <2>2. /\ Len(snapshot[c].components) = Len(Components[snapshot[c].spec])
        /\ \E n \in 0..Len(log) : IsCut(snapshot[c].spec, n, snapshot[c].components)
    BY <1>1, <2>1 DEF SnapInv, RowOK
  <2>3. PICK n \in 0..Len(log) : IsCut(snapshot[c].spec, n, snapshot[c].components)
    BY <2>2
  <2>4. DOMAIN snapshot[c].components = 1..Len(snapshot[c].components)
    BY <2>1 DEF Record
  <2>5. Drift(c, n) = {}
    BY <2>3, <2>4 DEF Drift, IsCut
  <2> QED
    BY <2>2, <2>5
<1>2. SnapInv => ConsistentCut
  BY <1>1 DEF ConsistentCut
<1> QED
  BY <1>2, AlwaysSafe, PTL

\* A build that fails leaves neither a half-recorded snapshot nor files to clean up
\* (SnapshotBuilder.build and its handler).
THEOREM NothingHalfBuilt == Spec => []NoHalfBuilds
<1>1. ASSUME SnapInv
      PROVE  NoHalfBuilds
  <2>1. OnlyFrozenHasEvidence
    BY <1>1 DEF SnapInv, RowOK, OnlyFrozenHasEvidence, Frozen
  <2>2. StagingRemoved
    BY <1>1 DEF SnapInv, FilesOK, StagingRemoved
  <2> QED
    BY <2>1, <2>2 DEF NoHalfBuilds
<1> QED
  BY <1>1, AlwaysSafe, PTL

\* A FROZEN row and a published directory never change: no late handler, replay or
\* rebuild touches them.
THEOREM EvidenceNeverChanges == Spec => EvidenceIsImmutable
<1>1. SnapInv /\ [Next]_vars =>
         [\A c \in Codes :
             /\ snapshot[c].status = "FROZEN" => snapshot'[c] = snapshot[c]
             /\ directory[c] # None => directory'[c] = directory[c]]_vars
  BY NextSafe DEF EvidenceKept
<1> QED
  BY <1>1, AlwaysSafe, PTL DEF Spec, EvidenceIsImmutable
=============================================================================
