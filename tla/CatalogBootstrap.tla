-------------------------- MODULE CatalogBootstrap --------------------------
(***************************************************************************)
(* CatalogBootstrapService.bootstrap (catalog/bootstrap.py) with the        *)
(* writes of SqlAlchemyCatalogWriterRepository and the overlap triggers of  *)
(* migration 0003, for several calls at once on one database.              *)
(*                                                                         *)
(* A call creates its batch (A), checks the symbols with the provider,     *)
(* records the evidence (B), writes the catalog (C) and, on a conflict or  *)
(* a failed check, ends the batch in a transaction of its own (D).  C is   *)
(* one step per advisory lock it may have to wait for; it reads what is    *)
(* committed overlaid with what it has written itself (READ COMMITTED).    *)
(*                                                                         *)
(* One provider owns all identifiers, all instruments are on one venue,    *)
(* and the fields that an equality check compares together are one value.  *)
(* A row is a function value: ids and specs map the primary key of a       *)
(* half-open interval to its end and its content.                          *)
(***************************************************************************)
EXTENDS Naturals, Sequences, FiniteSets

CONSTANTS
    Callers,        \* calls of bootstrap(); each is made once
    Requests,       \* request_id values
    References,     \* how many reference keys a manifest has, in lock order
    Provider,       \* the reference key of the audit feeds' provider
    Manifests,      \* validated manifests, with their instruments in stable_key order
    Documents,      \* what each call may be made with, and what the symbol check finds
    MaxFaults,      \* failures each call may meet
    None

RefKeys == 1..References
Forever == 1000     \* an open end; later than every time of a manifest

Verdict == {"ok", "mismatch", "noclient"}
Status == {"RUNNING", "SUCCEEDED", "FAILED", "QUARANTINED"}
Batch == [status : Status, owner : Callers]
Document == [request : Requests, manifest : Manifests, verdict : Verdict]

\* What the validation of a manifest leaves possible for one instrument.
ValidDefinition(d) ==
    /\ d.from \in 0..(Forever - 1) /\ d.specFrom \in 0..(Forever - 1)
    /\ (d.previous = None) <=> (d.rename = None)
    /\ d.rename # None => d.rename \in (d.from + 1)..(Forever - 1)

ValidManifest(m) ==
    /\ DOMAIN m.refs = RefKeys
    /\ Len(m.items) \in Nat \ {0} /\ DOMAIN m.items = 1..Len(m.items)
    /\ \A n \in DOMAIN m.items : ValidDefinition(m.items[n])

ASSUME CatalogConstants ==
    /\ References \in Nat /\ Provider \in RefKeys
    /\ \A m \in Manifests : ValidManifest(m)
    /\ \A c \in Callers : Documents[c] \subseteq Document
    /\ MaxFaults \in [Callers -> Nat]
    /\ None \notin Document \cup Batch \cup Nat \cup (Callers \X Nat)

VARIABLES
    batch,      \* ingest.ingestion_batch by request id, or None
    evidence,   \* requests whose raw events are committed
    catalog,    \* committed rows: refs, insts, ids, specs
    pc,         \* the place each call has reached
    doc,        \* its document
    position,   \* the reference or instrument that transaction C has reached
    work,       \* rows written by the open transaction C
    locks,      \* advisory locks it holds
    faults,     \* failures the call has met
    reply       \* the status it returned, or the error it raised

vars == <<batch, evidence, catalog, pc, doc, position, work, locks, faults, reply>>

Error == {"AlreadyRunning", "Conflict", "SymbolValidation", "Refused", "Failed"}
Place == {"idle", "begin", "validate", "refs", "symbol", "isin", "rename", "specify",
          "commit", "fail", "quarantine", "done"}

Nothing == [refs |-> <<>>, insts |-> <<>>, ids |-> <<>>, specs |-> <<>>]

TypeOK ==
    /\ batch \in [Requests -> Batch \cup {None}]
    /\ evidence \subseteq Requests
    /\ pc \in [Callers -> Place]
    /\ \A c \in Callers :
          /\ (doc[c] = None) <=> (pc[c] = "idle")
          /\ doc[c] # None => doc[c] \in Documents[c]
          /\ pc[c] \notin {"refs", "symbol", "isin", "rename", "specify", "commit"} =>
                work[c] = Nothing /\ locks[c] = {}
    /\ faults \in [Callers -> Nat]
    /\ reply \in [Callers -> Error \cup Status \cup {None}]
    /\ \A k \in DOMAIN catalog.ids :
          k[3] < catalog.ids[k].to /\ catalog.ids[k].owner \in DOMAIN catalog.insts
    /\ \A k \in DOMAIN catalog.specs :
          k[2] < catalog.specs[k].to /\ k[1] \in DOMAIN catalog.insts

Init ==
    /\ batch = [r \in Requests |-> None]
    /\ evidence = {}
    /\ catalog = Nothing
    /\ pc = [c \in Callers |-> "idle"]
    /\ doc = [c \in Callers |-> None]
    /\ position = [c \in Callers |-> 1]
    /\ work = [c \in Callers |-> Nothing]
    /\ locks = [c \in Callers |-> {}]
    /\ faults = [c \in Callers |-> 0]
    /\ reply = [c \in Callers |-> None]

-----------------------------------------------------------------------------
(* Rows, locks and the ends of a call *)

Overlay(new, old) ==
    [k \in DOMAIN new \cup DOMAIN old |-> IF k \in DOMAIN new THEN new[k] ELSE old[k]]

Merge(new, old) == [table \in DOMAIN old |-> Overlay(new[table], old[table])]

Row(key, content) == [k \in {key} |-> content]

\* What transaction C of the call reads.
View(c) == Merge(work[c], catalog)

Write(c, rows) == work' = [work EXCEPT ![c] = Merge(rows, @)]

Goto(c, place) == pc' = [pc EXCEPT ![c] = place]
Manifest(c) == doc[c].manifest
Request(c) == doc[c].request
Item(c) == Manifest(c).items[position[c]]

Free(c, key) == \A other \in Callers \ {c} : key \notin locks[other]

\* pg_advisory_xact_lock: waits for the holder, keeps the lock to the end.
Lock(c, key) ==
    /\ Free(c, key)
    /\ locks' = [locks EXCEPT ![c] = @ \cup {key}]

\* Faulty variant: the locks belong to the session.
RollBackKeepsLocks(c) == work' = [work EXCEPT ![c] = Nothing] /\ UNCHANGED locks

RollBack(c) ==
    /\ work' = [work EXCEPT ![c] = Nothing]
    /\ locks' = [locks EXCEPT ![c] = {}]

End(c, answer) == Goto(c, "done") /\ reply' = [reply EXCEPT ![c] = answer]

Fault(c) ==
    /\ faults[c] < MaxFaults[c]
    /\ faults' = [faults EXCEPT ![c] = @ + 1]

\* A commit that is applied: the caller learns of it and goes on, or does not.
Committed(c, place) ==
    \/ Goto(c, place) /\ UNCHANGED <<faults, reply>>
    \/ Fault(c) /\ End(c, "Failed")

\* CatalogConflictError inside C, to be recorded by D.
Conflict(c) == RollBack(c) /\ Goto(c, "fail") /\ UNCHANGED reply

\* A DatabaseError inside C (a trigger, a constraint, a row that is not there):
\* it is not a CatalogConflictError and nothing catches it.
Refuse(c) == RollBack(c) /\ End(c, "Refused")

-----------------------------------------------------------------------------
(* Transaction A, the check of the symbols, transaction B *)

Call(c, d) ==
    /\ pc[c] = "idle"
    /\ doc' = [doc EXCEPT ![c] = d]
    /\ Goto(c, "begin")
    /\ UNCHANGED <<batch, evidence, catalog, position, work, locks, faults, reply>>

Agrees(refs, k, m) == k \in DOMAIN refs => refs[k] = m.refs[k]

\* Faulty variant: a running batch is started again.
StartedBefore(c) == batch[Request(c)] # None /\ batch[Request(c)].status # "RUNNING"

\* create_batch_if_absent: the request id decides.
Started(c) == batch[Request(c)] # None

\* The audit provider with its feeds, and the batch.  The locks are released when
\* the transaction ends, within this step.
Begin(c) ==
    /\ pc[c] = "begin"
    /\ Free(c, <<"ref", Provider>>)
    /\ LET existing == batch[Request(c)]
       IN  \/ /\ ~Agrees(catalog.refs, Provider, Manifest(c))
              /\ End(c, "Conflict")
              /\ UNCHANGED <<batch, catalog, faults>>
           \/ /\ Agrees(catalog.refs, Provider, Manifest(c))
              /\ ~Started(c)
              /\ batch' = [batch EXCEPT ![Request(c)] = [status |-> "RUNNING", owner |-> c]]
              /\ catalog' = [catalog EXCEPT !.refs =
                    Overlay(Row(Provider, Manifest(c).refs[Provider]), @)]
              /\ Committed(c, "validate")
           \/ /\ Agrees(catalog.refs, Provider, Manifest(c))
              /\ Started(c)
              /\ End(c, IF existing.status = "RUNNING" THEN "AlreadyRunning"
                        ELSE existing.status)
              /\ UNCHANGED <<batch, catalog, faults>>
    /\ UNCHANGED <<evidence, doc, position, work, locks>>

\* _validate_symbols without a client raises before B; otherwise B records the
\* manifest and the answers, and only then is the first mismatch raised.
RecordEvidence(c) ==
    /\ pc[c] = "validate"
    /\ \/ /\ doc[c].verdict = "noclient"
          /\ Goto(c, "quarantine")
          /\ UNCHANGED <<evidence, faults, reply>>
       \/ /\ doc[c].verdict # "noclient"
          /\ evidence' = evidence \cup {Request(c)}
          /\ Committed(c, IF doc[c].verdict = "ok" THEN "refs" ELSE "quarantine")
    /\ UNCHANGED <<batch, catalog, doc, position, work, locks>>

-----------------------------------------------------------------------------
(* Transaction C *)

Reached(c, n, last, again, next) ==
    /\ position' = [position EXCEPT ![c] = IF n = last THEN 1 ELSE n + 1]
    /\ Goto(c, IF n = last THEN next ELSE again)

ReferenceLock(c) == Lock(c, <<"ref", position[c]>>)

\* ensure_currency, ensure_asset_type, ensure_provider, ensure_feed, ensure_venue
\* and ensure_timeframe: insert what is missing, compare what is there.
EnsureReference(c) ==
    /\ pc[c] = "refs"
    /\ LET k == position[c]
       IN  \/ /\ Agrees(View(c).refs, k, Manifest(c))
              /\ ReferenceLock(c)
              /\ Write(c, [Nothing EXCEPT !.refs = Row(k, Manifest(c).refs[k])])
              /\ Reached(c, k, References, "refs", "symbol")
              /\ UNCHANGED reply
           \/ /\ Free(c, <<"ref", k>>)
              /\ ~Agrees(View(c).refs, k, Manifest(c))
              /\ Conflict(c)
              /\ UNCHANGED position
    /\ UNCHANGED <<batch, evidence, catalog, doc, faults>>

ActiveRows(ids, kind, value, time) ==
    {k \in DOMAIN ids : k[1] = kind /\ k[2] = value /\ k[3] <= time /\ time < ids[k].to}

\* _identifier_owner and _active_identifier; the triggers leave at most one row.
OwnerAt(ids, kind, value, time) ==
    IF ActiveRows(ids, kind, value, time) = {} THEN None
    ELSE ids[CHOOSE k \in ActiveRows(ids, kind, value, time) : TRUE].owner

\* catalog.enforce_instrument_identifier_no_overlap for a new open interval.
Overlaps(ids, kind, value, from) ==
    \E k \in DOMAIN ids : k[1] = kind /\ k[2] = value /\ from < ids[k].to

SymbolTaken(insts, symbol, i) == \E j \in DOMAIN insts \ {i} : insts[j].symbol = symbol

LockSymbol(c) ==
    /\ pc[c] = "symbol"
    /\ Lock(c, <<"BRSAPI_L18", Item(c).symbol>>)
    /\ Goto(c, "isin")
    /\ UNCHANGED <<batch, evidence, catalog, doc, position, work, faults, reply>>

Instrument(d) == [symbol |-> d.symbol, attributes |-> d.attributes]

NewInstrument(c, i) ==
    LET d == Item(c)
        open == [to |-> Forever, owner |-> i]
    IN  [Nothing EXCEPT
            !.insts = Row(i, Instrument(d)),
            !.ids = Overlay(Row(<<"ISIN", d.isin, d.from>>, open),
                            Row(<<"BRSAPI_L18", d.symbol, d.from>>, open))]

\* Neither the ISIN nor the symbol has an owner: a new instrument with both.
CreateInstrument(c) ==
    LET d == Item(c)
        i == <<c, position[c]>>
        v == View(c)
    IN  IF \/ SymbolTaken(v.insts, d.symbol, i)
           \/ Overlaps(v.ids, "ISIN", d.isin, d.from)
           \/ Overlaps(v.ids, "BRSAPI_L18", d.symbol, d.from)
        THEN Refuse(c)
        ELSE /\ Lock(c, <<"ISIN", d.isin>>)
             /\ Write(c, NewInstrument(c, i))
             /\ Goto(c, "specify")
             /\ UNCHANGED reply

\* The symbol resolves without the ISIN, or to another instrument.
IdentityConflict(isinOwner, symbolOwner) == symbolOwner # None /\ symbolOwner # isinOwner

\* Faulty variant: the attributes are not compared.
SameIdentityAny(row, d) == TRUE

\* _assert_instrument_identity
SameIdentity(row, d) == row.attributes = d.attributes

\* apply_instrument up to the rename: "resolve by ISIN before symbol".  The lock
\* on the owner is covered by the lock on the ISIN.
ResolveInstrument(c) ==
    /\ pc[c] = "isin"
    /\ Free(c, <<"ISIN", Item(c).isin>>)
    /\ LET d == Item(c)
           v == View(c)
           isinOwner == OwnerAt(v.ids, "ISIN", d.isin, d.from)
           symbolOwner == OwnerAt(v.ids, "BRSAPI_L18", d.symbol, d.from)
       IN  \/ isinOwner = None /\ symbolOwner = None /\ CreateInstrument(c)
           \/ IdentityConflict(isinOwner, symbolOwner) /\ Conflict(c)
           \/ /\ isinOwner # None
              /\ ~IdentityConflict(isinOwner, symbolOwner)
              /\ SameIdentity(v.insts[isinOwner], d)
              /\ symbolOwner # None \/ d.previous # None
              /\ Lock(c, <<"ISIN", d.isin>>)
              /\ Goto(c, IF symbolOwner = None THEN "rename" ELSE "specify")
              /\ UNCHANGED <<work, reply>>
           \/ /\ isinOwner # None
              /\ ~IdentityConflict(isinOwner, symbolOwner)
              /\ \/ ~SameIdentity(v.insts[isinOwner], d)
                 \/ symbolOwner = None /\ d.previous = None
              /\ Conflict(c)
    /\ UNCHANGED <<batch, evidence, catalog, doc, position, faults>>

ItemOwner(c) == OwnerAt(View(c).ids, "ISIN", Item(c).isin, Item(c).from)

\* Faulty variant: the old interval stays open.
RenameRowsOpen(c, k) ==
    LET d == Item(c)
        i == ItemOwner(c)
    IN  [Nothing EXCEPT
            !.insts = Row(i, [View(c).insts[i] EXCEPT !.symbol = d.symbol]),
            !.ids = Row(<<"BRSAPI_L18", d.symbol, d.rename>>, [to |-> Forever, owner |-> i])]

\* The old interval is closed where the new one opens.
RenameRows(c, k) ==
    LET d == Item(c)
        i == ItemOwner(c)
    IN  [Nothing EXCEPT
            !.insts = Row(i, [View(c).insts[i] EXCEPT !.symbol = d.symbol]),
            !.ids = Overlay(Row(k, [to |-> d.rename, owner |-> i]),
                            Row(<<"BRSAPI_L18", d.symbol, d.rename>>,
                                [to |-> Forever, owner |-> i]))]

\* Faulty variant: the old interval may be closed already.
ClosableAny(ids, k) == TRUE

\* The UPDATE asks for an open interval and must find one.
Closable(ids, k) == ids[k].to = Forever

\* _apply_rename.  The new symbol is locked already; the previous one may have to
\* be waited for.
Rename(c) ==
    /\ pc[c] = "rename"
    /\ LET d == Item(c)
           v == View(c)
           i == ItemOwner(c)
           old == ActiveRows(v.ids, "BRSAPI_L18", d.previous, d.rename)
           new == OwnerAt(v.ids, "BRSAPI_L18", d.symbol, d.rename)
           mine == {k \in old : v.ids[k].owner = i /\ k[3] < d.rename}
       IN  /\ Free(c, <<"BRSAPI_L18", d.previous>>)
           /\ \/ /\ new = i
                 /\ Lock(c, <<"BRSAPI_L18", d.previous>>)
                 /\ Goto(c, "specify")
                 /\ UNCHANGED <<work, reply>>
              \/ new \notin {i, None} /\ Conflict(c)
              \/ new = None /\ mine = {} /\ Conflict(c)
              \/ /\ new = None
                 /\ \E k \in mine :
                       IF \/ ~Closable(v.ids, k)
                          \/ Overlaps(v.ids, "BRSAPI_L18", d.symbol, d.rename)
                          \/ SymbolTaken(v.insts, d.symbol, i)
                       THEN Refuse(c)
                       ELSE /\ Lock(c, <<"BRSAPI_L18", d.previous>>)
                            /\ Write(c, RenameRows(c, k))
                            /\ Goto(c, "specify")
                            /\ UNCHANGED reply
    /\ UNCHANGED <<batch, evidence, catalog, doc, position, faults>>

SpecRows(specs, i) == {k \in DOMAIN specs : k[1] = i}

LatestSpec(specs, i) ==
    CHOOSE k \in SpecRows(specs, i) : \A other \in SpecRows(specs, i) : other[2] <= k[2]

\* Faulty variant: the versions are not compared.
SameSpecificationAny(row, d) == TRUE

SameSpecification(row, d) == row.spec = d.spec

NewSpec(i, d) == Row(<<i, d.specFrom>>, [to |-> Forever, spec |-> d.spec])

\* The rows that _apply_specification writes, or None when it raises.
SpecificationRows(specs, i, d) ==
    LET key == <<i, d.specFrom>>
        last == LatestSpec(specs, i)
    IN  IF key \in DOMAIN specs
        THEN IF specs[key].to = Forever /\ SameSpecification(specs[key], d)
             THEN Nothing ELSE None
        ELSE IF SpecRows(specs, i) = {} THEN [Nothing EXCEPT !.specs = NewSpec(i, d)]
        ELSE IF SameSpecification(specs[last], d) THEN Nothing
        ELSE IF d.specFrom <= last[2] \/ specs[last].to # Forever THEN None
        ELSE [Nothing EXCEPT !.specs =
                Overlay(NewSpec(i, d), Row(last, [specs[last] EXCEPT !.to = d.specFrom]))]

Specify(c) ==
    /\ pc[c] = "specify"
    /\ LET i == ItemOwner(c)
           rows == SpecificationRows(View(c).specs, i, Item(c))
       IN  /\ Free(c, <<"spec", i>>)
           /\ \/ /\ rows # None
                 /\ Lock(c, <<"spec", i>>)
                 /\ Write(c, rows)
                 /\ Reached(c, position[c], Len(Manifest(c).items), "symbol", "commit")
                 /\ UNCHANGED reply
              \/ rows = None /\ Conflict(c) /\ UNCHANGED position
    /\ UNCHANGED <<batch, evidence, catalog, doc, faults>>

\* finalize_batch and the commit of C.
CommitCatalog(c) ==
    /\ pc[c] = "commit"
    /\ batch[Request(c)].status = "RUNNING"
    /\ batch' = [batch EXCEPT ![Request(c)].status = "SUCCEEDED"]
    /\ catalog' = View(c)
    /\ RollBack(c)
    /\ \/ End(c, "SUCCEEDED") /\ UNCHANGED faults
       \/ Fault(c) /\ End(c, "Failed")
    /\ UNCHANGED <<evidence, doc, position>>

-----------------------------------------------------------------------------
(* Transaction D, failures *)

\* _finalize_failure, then the error is raised again.
FinalizeFailure(c) ==
    /\ pc[c] \in {"fail", "quarantine"}
    /\ batch[Request(c)].status = "RUNNING"
    /\ batch' = [batch EXCEPT ![Request(c)].status =
                    IF pc[c] = "fail" THEN "FAILED" ELSE "QUARANTINED"]
    /\ \/ /\ End(c, IF pc[c] = "fail" THEN "Conflict" ELSE "SymbolValidation")
          /\ UNCHANGED faults
       \/ Fault(c) /\ End(c, "Failed")
    /\ UNCHANGED <<evidence, catalog, doc, position, work, locks>>

\* A statement or a commit fails, or the process stops: the open transaction is
\* rolled back and the call ends.
Fail(c) ==
    /\ pc[c] \notin {"idle", "done"}
    /\ Fault(c)
    /\ RollBack(c)
    /\ End(c, "Failed")
    /\ UNCHANGED <<batch, evidence, catalog, doc, position>>

Proceed(c) ==
    \/ Begin(c) \/ RecordEvidence(c) \/ EnsureReference(c) \/ LockSymbol(c)
    \/ ResolveInstrument(c) \/ Rename(c) \/ Specify(c) \/ CommitCatalog(c)
    \/ FinalizeFailure(c)

Next ==
    \E c \in Callers :
        Proceed(c) \/ Fail(c) \/ \E d \in Documents[c] : Call(c, d)

\* A call that has begun keeps executing; it need not fail.
Fairness == \A c \in Callers : WF_vars(Proceed(c))

Spec == Init /\ [][Next]_vars /\ Fairness

-----------------------------------------------------------------------------
(* Properties *)

Intervals(i) ==
    {k \in DOMAIN catalog.ids : k[1] = "BRSAPI_L18" /\ catalog.ids[k].owner = i}

\* "Identifiers are half-open intervals": whatever the calls and their order, the
\* symbols of an instrument follow each other without gap or overlap, the last one
\* is open and is its canonical symbol, and no symbol has two owners at a time.
SymbolsAreAChain ==
    /\ \A i \in DOMAIN catalog.insts :
          /\ \E k \in Intervals(i) :
                catalog.ids[k].to = Forever /\ k[2] = catalog.insts[i].symbol
          /\ \A k, l \in Intervals(i) : k # l => catalog.ids[k].to # catalog.ids[l].to
          /\ \A k \in Intervals(i) :
                catalog.ids[k].to # Forever =>
                    \E l \in Intervals(i) : l[3] = catalog.ids[k].to
    /\ \A k, l \in DOMAIN catalog.ids :
          k # l /\ k[1] = l[1] /\ k[2] = l[2] /\ k[3] <= l[3] => catalog.ids[k].to <= l[3]

\* "An instrument is resolved by its ISIN; identities are never merged": every
\* instrument has one ISIN of its own for ever, and two never share one.
OneIsinPerInstrument ==
    \A i \in DOMAIN catalog.insts :
        LET mine == {k \in DOMAIN catalog.ids : k[1] = "ISIN" /\ catalog.ids[k].owner = i}
        IN  \E k \in mine :
              /\ mine = {k} /\ catalog.ids[k].to = Forever
              /\ \A l \in DOMAIN catalog.ids : l[1] = "ISIN" /\ l[2] = k[2] => l = k

\* "The specification is append-only and adjacent": the versions of an instrument
\* follow each other, the last one is open, and neighbours differ.
SpecificationsAreAChain ==
    \A i \in DOMAIN catalog.insts :
        LET mine == SpecRows(catalog.specs, i)
            last == LatestSpec(catalog.specs, i)
        IN  /\ mine # {} /\ catalog.specs[last].to = Forever
            /\ \A k \in mine \ {last} :
                  \E l \in mine :
                    /\ l[2] = catalog.specs[k].to
                    /\ catalog.specs[l].spec # catalog.specs[k].spec

\* Whatever the calls and their order, the temporal history of every instrument is
\* one chain of symbols, one ISIN and one chain of specifications.
HistoriesAreChains == SymbolsAreAChain /\ OneIsinPerInstrument /\ SpecificationsAreAChain

\* The instrument that an item of a manifest is about: the one with its ISIN.
IsAbout(rows, i, d) ==
    \E k \in DOMAIN rows.ids : k[1] = "ISIN" /\ k[2] = d.isin /\ rows.ids[k].owner = i

\* Intervals that an item opens and closes, of its own instrument.
OpensIdentifier(rows, k, d) ==
    /\ IsAbout(rows, rows.ids[k].owner, d)
    /\ \/ k[1] = "ISIN" /\ k[2] = d.isin /\ k[3] = d.from
       \/ k[1] = "BRSAPI_L18" /\ k[2] = d.symbol /\ k[3] \in {d.from, d.rename}

ClosesIdentifier(rows, k, d) ==
    /\ IsAbout(rows, rows.ids[k].owner, d)
    /\ k[1] = "BRSAPI_L18" /\ k[2] = d.previous /\ rows.ids[k].to = d.rename

OpensSpec(rows, k, d) ==
    IsAbout(rows, k[1], d) /\ k[2] = d.specFrom /\ rows.specs[k].spec = d.spec

ClosesSpec(rows, k, d) == IsAbout(rows, k[1], d) /\ rows.specs[k].to = d.specFrom

Changed(new, old) == {k \in DOMAIN new : k \notin DOMAIN old \/ new[k] # old[k]}

\* All the rows that one version of the catalog has over another are stated by items.
RowsStated(items, new, old) ==
    /\ \A i \in Changed(new.insts, old.insts) :
          \E d \in items : IsAbout(new, i, d) /\ new.insts[i] = Instrument(d)
    /\ \A k \in Changed(new.ids, old.ids) :
          /\ k \notin DOMAIN old.ids => \E d \in items : OpensIdentifier(new, k, d)
          /\ k \in DOMAIN old.ids \/ new.ids[k].to # Forever =>
                \E d \in items : ClosesIdentifier(new, k, d)
    /\ \A k \in Changed(new.specs, old.specs) :
          /\ k \notin DOMAIN old.specs => \E d \in items : OpensSpec(new, k, d)
          /\ k \in DOMAIN old.specs \/ new.specs[k].to # Forever =>
                \E d \in items : ClosesSpec(new, k, d)

StatedBy(m, new, old) ==
    /\ \A k \in Changed(new.refs, old.refs) : new.refs[k] = m.refs[k]
    /\ RowsStated({m.items[n] : n \in DOMAIN m.items}, new, old)

\* The step by which the batch of the call becomes SUCCEEDED.
Succeeds(c) ==
    /\ doc[c] # None
    /\ batch[Request(c)] = [status |-> "RUNNING", owner |-> c]
    /\ batch'[Request(c)].status = "SUCCEEDED"

\* The step by which the batch of the call is created, with the audit provider.
Starts(c) ==
    /\ doc[c] # None
    /\ batch[Request(c)] = None
    /\ batch'[Request(c)] = [status |-> "RUNNING", owner |-> c]
    /\ catalog' = [catalog EXCEPT !.refs = catalog'.refs]
    /\ Changed(catalog'.refs, catalog.refs) \subseteq {Provider}

\* "All-or-nothing for canonical rows": every step that writes a row, renames or closes
\* one is the step by which a batch SUCCEEDS, with its evidence committed before, and
\* each of these rows is stated by an item of that batch's manifest for the instrument
\* with the item's ISIN.  Only the audit provider is written with the batch itself.
OnlySucceededWrites ==
    [][catalog' # catalog =>
          \E c \in Callers :
             \/ Starts(c)
             \/ /\ Succeeds(c) /\ Request(c) \in evidence
                /\ StatedBy(Manifest(c), catalog', catalog)]_vars

\* An item is in the catalog: its instrument, a symbol and a specification of it.
Stored(rows, d) ==
    \E i \in DOMAIN rows.insts :
        /\ IsAbout(rows, i, d) /\ rows.insts[i].attributes = d.attributes
        /\ \E k \in DOMAIN rows.ids :
              k[1] = "BRSAPI_L18" /\ k[2] = d.symbol /\ rows.ids[k].owner = i
        /\ \E k \in SpecRows(rows.specs, i) : rows.specs[k].spec = d.spec

\* The other direction: all that the manifest of a SUCCEEDED batch states is in the
\* catalog, and stays there whatever other calls write; the evidence of a batch that
\* SUCCEEDED or FAILED remains.
SucceededIsStored ==
    /\ \A c \in Callers :
          doc[c] # None /\ batch[Request(c)] = [status |-> "SUCCEEDED", owner |-> c] =>
             /\ \A k \in RefKeys :
                   k \in DOMAIN catalog.refs /\ catalog.refs[k] = Manifest(c).refs[k]
             /\ \A n \in DOMAIN Manifest(c).items : Stored(catalog, Manifest(c).items[n])
    /\ \A r \in Requests :
          batch[r] # None /\ batch[r].status \in {"SUCCEEDED", "FAILED"} => r \in evidence

ResolvesTo(d) ==
    LET i == OwnerAt(catalog.ids, "ISIN", d.isin, d.from)
    IN  /\ i # None /\ catalog.insts[i].attributes = d.attributes
        /\ \E time \in {d.from, d.rename} \ {None} :
              OwnerAt(catalog.ids, "BRSAPI_L18", d.symbol, time) = i

\* When a call succeeds, every instrument of its manifest resolves by its ISIN to
\* one with the stated attributes, and by its symbol to the same one, unless the
\* manifest names an ISIN twice: a later item may take the symbol of an earlier one.
SuccessMeansResolvable ==
    [][\A c \in Callers :
          Succeeds(c) =>
            \A n \in DOMAIN Manifest(c).items : ResolvesTo(Manifest(c).items[n])']_vars

\* What has been resolved stays: a committed interval only ever changes by being
\* closed, no instrument disappears, and its attributes and a final batch stay.
HistoryIsAppendOnly ==
    [][/\ \A i \in DOMAIN catalog.insts :
             /\ i \in DOMAIN catalog.insts'
             /\ catalog.insts'[i].attributes = catalog.insts[i].attributes
       /\ \A k \in DOMAIN catalog.ids :
             /\ k \in DOMAIN catalog.ids'
             /\ catalog.ids'[k].owner = catalog.ids[k].owner
             /\ catalog.ids[k].to # Forever => catalog.ids'[k] = catalog.ids[k]
       /\ \A k \in DOMAIN catalog.specs :
             /\ k \in DOMAIN catalog.specs'
             /\ catalog.specs'[k].spec = catalog.specs[k].spec
             /\ catalog.specs[k].to # Forever => catalog.specs'[k] = catalog.specs[k]
       /\ \A r \in Requests :
             batch[r] # None /\ batch[r].status # "RUNNING" => batch'[r] = batch[r]]_vars

Running(r) == batch[r] # None /\ batch[r].status = "RUNNING"

\* Every bootstrap that has begun ends its batch, a conflict or a failed check
\* included, unless its call met a failure or the database itself refused a row.
\* Bootstraps never wait for each other in a circle, although a rename locks the
\* previous symbol after the ISIN, because the provider's lock comes before those
\* of the identifiers and is kept.
BatchesEnd ==
    \A r \in Requests :
        Running(r) ~> (~Running(r) \/ reply[batch[r].owner] \in {"Failed", "Refused"})
=============================================================================
