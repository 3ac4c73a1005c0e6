----------------------- MODULE CatalogBootstrap_proofs -----------------------
(***************************************************************************)
(* Proofs about CatalogBootstrap, for every set of calls, requests and     *)
(* manifests and for every bound on failures.                              *)
(***************************************************************************)
EXTENDS CatalogBootstrap, TLAPS

-----------------------------------------------------------------------------
(* The inductive invariant *)

\* The places of transaction C behind the reference rows: the lock of the provider
\* is held, so that one call at most is here.
Applying == {"symbol", "isin", "rename", "specify", "commit"}

\* The places of a call whose batch is running.
Working == Applying \cup {"validate", "refs", "fail", "quarantine"}

\* The four tables.
IsTable(f) == f = [k \in DOMAIN f |-> f[k]]

IsRows(s) ==
    /\ s = [refs |-> s.refs, insts |-> s.insts, ids |-> s.ids, specs |-> s.specs]
    /\ IsTable(s.insts) /\ IsTable(s.ids) /\ IsTable(s.specs)

\* Rows have the values that the columns and checks of the tables allow, and refer to
\* instruments that exist.
RowsTyped(insts, ids, specs) ==
    /\ \A i \in DOMAIN insts :
          insts[i] = [symbol |-> insts[i].symbol, attributes |-> insts[i].attributes]
    /\ \A k \in DOMAIN ids :
          /\ k[1] \in {"ISIN", "BRSAPI_L18"} /\ k[3] \in Nat
          /\ ids[k].to \in (k[3] + 1)..Forever /\ ids[k].owner \in DOMAIN insts
    /\ \A k \in DOMAIN specs :
          /\ k[1] \in DOMAIN insts /\ k[2] \in Nat
          /\ specs[k] = [to |-> specs[k].to, spec |-> specs[k].spec]
          /\ specs[k].to \in (k[2] + 1)..Forever

\* No identifier has two owners at a time.
OwnersAreUnique(ids) ==
    \A k, l \in DOMAIN ids :
        k # l /\ k[1] = l[1] /\ k[2] = l[2] /\ k[3] <= l[3] => ids[k].to <= l[3]

IsSymbolOf(ids, i, k) == k \in DOMAIN ids /\ k[1] = "BRSAPI_L18" /\ ids[k].owner = i

\* The open interval of an instrument is its symbol and begins where all others have
\* ended; the others follow each other.
SymbolChain(ids, i, symbol) ==
    /\ \E o \in DOMAIN ids :
          /\ IsSymbolOf(ids, i, o) /\ ids[o].to = Forever /\ o[2] = symbol
          /\ \A k \in DOMAIN ids : IsSymbolOf(ids, i, k) /\ k # o => ids[k].to <= o[3]
    /\ \A k, l \in DOMAIN ids :
          IsSymbolOf(ids, i, k) /\ IsSymbolOf(ids, i, l) /\ k # l => ids[k].to # ids[l].to
    /\ \A k \in DOMAIN ids :
          IsSymbolOf(ids, i, k) /\ ids[k].to # Forever =>
              \E l \in DOMAIN ids : IsSymbolOf(ids, i, l) /\ l[3] = ids[k].to

\* One ISIN for ever, which no other row names.
IsinForEver(ids, i) ==
    \E k \in DOMAIN ids :
        /\ k[1] = "ISIN" /\ ids[k].owner = i /\ ids[k].to = Forever
        /\ \A l \in DOMAIN ids : l[1] = "ISIN" /\ (ids[l].owner = i \/ l[2] = k[2]) => l = k

SpecChain(specs, i) ==
    \E last \in SpecRows(specs, i) :
        /\ specs[last].to = Forever
        /\ \A k \in SpecRows(specs, i) \ {last} :
              /\ k[2] < last[2]
              /\ \E l \in SpecRows(specs, i) :
                    l[2] = specs[k].to /\ specs[l].spec # specs[k].spec

Identified(insts, ids) ==
    /\ OwnersAreUnique(ids)
    /\ \A i \in DOMAIN insts : SymbolChain(ids, i, insts[i].symbol) /\ IsinForEver(ids, i)

\* The rows of a new instrument are complete when its specification is written.
Specified(insts, specs, new) ==
    \A i \in DOMAIN insts : SpecChain(specs, i) \/ (i \in new /\ SpecRows(specs, i) = {})

Sound(insts, ids, specs, new) ==
    /\ RowsTyped(insts, ids, specs)
    /\ Identified(insts, ids)
    /\ Specified(insts, specs, new)

\* What HistoryIsAppendOnly says of two versions of the catalog.
Continues(new, old) ==
    /\ \A i \in DOMAIN old.insts :
          i \in DOMAIN new.insts /\ new.insts[i].attributes = old.insts[i].attributes
    /\ \A k \in DOMAIN old.ids :
          /\ k \in DOMAIN new.ids
          /\ new.ids[k].owner = old.ids[k].owner
          /\ old.ids[k].to # Forever => new.ids[k] = old.ids[k]
    /\ \A k \in DOMAIN old.specs :
          /\ k \in DOMAIN new.specs
          /\ new.specs[k].spec = old.specs[k].spec
          /\ old.specs[k].to # Forever => new.specs[k] = old.specs[k]

\* The instruments a call has created are numbered by the items it has passed.
CreatedSoFar(c, place, n, new, old) ==
    /\ \A i \in DOMAIN new.insts : i \in DOMAIN old.insts \/ i[1] = c
    /\ place \in {"symbol", "isin"} => \A m \in Nat : m >= n => <<c, m>> \notin DOMAIN new.insts
    /\ place \in {"rename", "specify"} =>
          \A m \in Nat : m > n => <<c, m>> \notin DOMAIN new.insts

IsinRows(v, d) == ActiveRows(v.ids, "ISIN", d.isin, d.from)

\* What an open transaction C reads (v) over what is committed (old), at item d.
ViewOK(c, place, n, d, v, old) ==
    /\ Sound(v.insts, v.ids, v.specs,
             IF place = "specify" THEN {OwnerAt(v.ids, "ISIN", d.isin, d.from)} ELSE {})
    /\ Continues(v, old)
    /\ CreatedSoFar(c, place, n, v, old)
    /\ place \in {"rename", "specify"} => IsinRows(v, d) # {}
    /\ place = "rename" => d.rename # None

CallTyped(c) ==
    /\ (doc[c] = None) <=> (pc[c] = "idle")
    /\ doc[c] # None => doc[c] \in Documents[c]
    /\ pc[c] \notin Applying \cup {"refs"} => work[c] = Nothing /\ locks[c] = {}
    /\ pc[c] \notin Applying => work[c].insts = <<>> /\ work[c].ids = <<>> /\ work[c].specs = <<>>
    /\ IsRows(work[c])

StateTyped ==
    /\ batch \in [Requests -> Batch \cup {None}]
    /\ evidence \subseteq Requests
    /\ IsRows(catalog)
    /\ pc \in [Callers -> Place]
    /\ doc \in [Callers -> Document \cup {None}]
    /\ position \in [Callers -> Nat]
    /\ faults \in [Callers -> Nat]
    /\ reply \in [Callers -> Error \cup Status \cup {None}]
    /\ work = [c \in Callers |-> work[c]]
    /\ locks = [c \in Callers |-> locks[c]]

OwnBatch(c) ==
    /\ pc[c] \in Working => batch[Request(c)] = [status |-> "RUNNING", owner |-> c]
    /\ pc[c] \in Applying \cup {"refs", "fail"} => Request(c) \in evidence

PositionOK(c) ==
    /\ pc[c] \in {"idle", "begin", "validate"} => position[c] = 1
    /\ pc[c] = "refs" => position[c] \in RefKeys
    /\ pc[c] \in Applying => position[c] \in DOMAIN Manifest(c).items

\* The references are locked in order and kept locked.
HoldsReferences(c) ==
    \A k \in RefKeys :
        pc[c] \in Applying \/ (pc[c] = "refs" /\ k < position[c]) => <<"ref", k>> \in locks[c]

ReferencesExclusive ==
    \A c, e \in Callers : c # e =>
        \A k \in RefKeys : <<"ref", k>> \in locks[c] => <<"ref", k>> \notin locks[e]

\* An instrument was written by a call that succeeded.
CreatedBySuccess ==
    \A i \in DOMAIN catalog.insts :
        /\ i[1] \in Callers /\ pc[i[1]] = "done"
        /\ batch[Request(i[1])] = [status |-> "SUCCEEDED", owner |-> i[1]]
        /\ Request(i[1]) \in evidence

FailedHasEvidence ==
    \A r \in Requests : batch[r] # None /\ batch[r].status = "FAILED" => r \in evidence

CallOK(c) == CallTyped(c) /\ OwnBatch(c) /\ PositionOK(c) /\ HoldsReferences(c)

OpenOK(c) ==
    pc[c] \in Applying => ViewOK(c, pc[c], position[c], Item(c), View(c), catalog)

CatalogInv ==
    /\ StateTyped
    /\ \A c \in Callers : CallOK(c)
    /\ ReferencesExclusive
    /\ CreatedBySuccess
    /\ FailedHasEvidence
    /\ Sound(catalog.insts, catalog.ids, catalog.specs, {})
    /\ \A c \in Callers : OpenOK(c)

-----------------------------------------------------------------------------
(* Tables *)

\* An open end is a time.
LEMMA ForeverTyped == Forever \in Nat
BY DEF Forever

\* Writing rows over a table: the new rows, and the old ones that they do not replace.
LEMMA OverlayRows ==
    ASSUME NEW f, NEW g
    PROVE  /\ IsTable(Overlay(f, g))
           /\ DOMAIN Overlay(f, g) = DOMAIN f \cup DOMAIN g
           /\ \A k \in DOMAIN f : Overlay(f, g)[k] = f[k]
           /\ \A k \in DOMAIN g : k \notin DOMAIN f => Overlay(f, g)[k] = g[k]
BY DEF Overlay, IsTable

\* Writing twice is writing both.
LEMMA OverlayTwice ==
    ASSUME NEW f, NEW g, NEW h
    PROVE  Overlay(f, Overlay(g, h)) = Overlay(Overlay(f, g), h)
BY DEF Overlay

\* Writing no rows changes nothing.
LEMMA OverlayNothing ==
    ASSUME NEW f, IsTable(f)
    PROVE  Overlay(<<>>, f) = f
<1>1. DOMAIN <<>> = {}
  OBVIOUS
<1>2. Overlay(<<>>, f) = [k \in DOMAIN f |-> f[k]]
  BY <1>1 DEF Overlay
<1> QED
  BY <1>2 DEF IsTable

\* A transaction that has written nothing.
LEMMA NothingIsRows ==
    /\ IsRows(Nothing)
    /\ Nothing.insts = <<>> /\ Nothing.ids = <<>> /\ Nothing.specs = <<>>
<1>1. Nothing.insts = <<>> /\ Nothing.ids = <<>> /\ Nothing.specs = <<>>
  BY DEF Nothing
<1>2. DOMAIN <<>> = {}
  OBVIOUS
<1>3. <<>> = [k \in DOMAIN <<>> |-> <<>>[k]]
  BY <1>2
<1> QED
  BY <1>1, <1>3 DEF IsRows, IsTable, Nothing

\* Rows over rows are merged table by table.
LEMMA MergedRows ==
    ASSUME NEW new, NEW old, IsRows(old)
    PROVE  /\ IsRows(Merge(new, old))
           /\ Merge(new, old).insts = Overlay(new.insts, old.insts)
           /\ Merge(new, old).ids = Overlay(new.ids, old.ids)
           /\ Merge(new, old).specs = Overlay(new.specs, old.specs)
<1> DEFINE m == [table \in DOMAIN old |-> Overlay(new[table], old[table])]
<1>1. DOMAIN old = {"refs", "insts", "ids", "specs"}
  BY DEF IsRows
<1>2. /\ m.insts = Overlay(new.insts, old.insts)
      /\ m.ids = Overlay(new.ids, old.ids)
      /\ m.specs = Overlay(new.specs, old.specs)
  BY <1>1
<1>3. m = [refs |-> m.refs, insts |-> m.insts, ids |-> m.ids, specs |-> m.specs]
  BY <1>1
<1>4. Merge(new, old) = m
  BY DEF Merge
<1> HIDE DEF m
<1>5. IsTable(m.insts) /\ IsTable(m.ids) /\ IsTable(m.specs)
  <2>1. /\ IsTable(Overlay(new.insts, old.insts)) /\ IsTable(Overlay(new.ids, old.ids))
        /\ IsTable(Overlay(new.specs, old.specs))
    BY OverlayRows
  <2> QED
    BY <1>2, <2>1, Zenon
<1> QED
  BY <1>2, <1>3, <1>4, <1>5 DEF IsRows

\* What a transaction reads after it has written rows.
LEMMA ReadsItsWrites ==
    ASSUME NEW c \in Callers, NEW rows, NEW v, IsRows(work[c]), IsRows(catalog),
           work = [e \in Callers |-> work[e]], v = View(c),
           Write(c, rows), UNCHANGED catalog
    PROVE  /\ IsRows(work'[c])
           /\ (View(c)').insts = Overlay(rows.insts, v.insts)
           /\ (View(c)').ids = Overlay(rows.ids, v.ids)
           /\ (View(c)').specs = Overlay(rows.specs, v.specs)
<1>1. work'[c] = Merge(rows, work[c])
  BY DEF Write
<1>2. IsRows(work'[c])
  BY <1>1, MergedRows
<1>3. /\ work'[c].insts = Overlay(rows.insts, work[c].insts)
      /\ work'[c].ids = Overlay(rows.ids, work[c].ids)
      /\ work'[c].specs = Overlay(rows.specs, work[c].specs)
  BY <1>1, MergedRows
<1>4. View(c)' = Merge(work'[c], catalog)
  BY DEF View
<1>5. /\ (View(c)').insts = Overlay(work'[c].insts, catalog.insts)
      /\ (View(c)').ids = Overlay(work'[c].ids, catalog.ids)
      /\ (View(c)').specs = Overlay(work'[c].specs, catalog.specs)
  BY <1>4, MergedRows
<1>6. /\ v.insts = Overlay(work[c].insts, catalog.insts)
      /\ v.ids = Overlay(work[c].ids, catalog.ids)
      /\ v.specs = Overlay(work[c].specs, catalog.specs)
  BY MergedRows DEF View
<1> QED
  BY <1>2, <1>3, <1>5, <1>6, OverlayTwice

-----------------------------------------------------------------------------
(* What the writes of transaction C do to sound histories *)

\* The rows of a new instrument: neither trigger found a row of its ISIN or symbol that
\* ends later.
Creates(insts, ids, insts2, ids2, i, d, a, b) ==
    /\ i \notin DOMAIN insts /\ d.from \in 0..(Forever - 1)
    /\ ~Overlaps(ids, "ISIN", d.isin, d.from)
    /\ ~Overlaps(ids, "BRSAPI_L18", d.symbol, d.from)
    /\ a = <<"ISIN", d.isin, d.from>> /\ b = <<"BRSAPI_L18", d.symbol, d.from>>
    /\ DOMAIN insts2 = DOMAIN insts \cup {i}
    /\ insts2[i] = Instrument(d)
    /\ \A j \in DOMAIN insts : insts2[j] = insts[j]
    /\ DOMAIN ids2 = DOMAIN ids \cup {a, b}
    /\ ids2[a] = [to |-> Forever, owner |-> i] /\ ids2[b] = [to |-> Forever, owner |-> i]
    /\ \A k \in DOMAIN ids : k \notin {a, b} => ids2[k] = ids[k]

\* They keep the identifiers sound.
LEMMA CreatedIdentified ==
    ASSUME NEW insts, NEW ids, NEW specs, NEW insts2, NEW ids2, NEW i, NEW d, NEW a, NEW b,
           RowsTyped(insts, ids, specs), Identified(insts, ids),
           Creates(insts, ids, insts2, ids2, i, d, a, b)
    PROVE  /\ RowsTyped(insts2, ids2, specs)
           /\ Identified(insts2, ids2)
           /\ a \notin DOMAIN ids /\ b \notin DOMAIN ids
<1> USE DEF Creates
<1>0. /\ Forever \in Nat /\ d.from \in Nat /\ d.from < Forever
      /\ a[1] = "ISIN" /\ a[2] = d.isin /\ a[3] = d.from
      /\ b[1] = "BRSAPI_L18" /\ b[2] = d.symbol /\ b[3] = d.from
      /\ a # b
  BY ForeverTyped
<1>a. \A k \in DOMAIN ids :
         /\ k[1] \in {"ISIN", "BRSAPI_L18"} /\ k[3] \in Nat /\ ids[k].to \in Nat
         /\ k[3] < ids[k].to /\ ids[k].to <= Forever /\ ids[k].owner \in DOMAIN insts
  BY <1>0 DEF RowsTyped
<1>1. \A k \in DOMAIN ids :
         /\ k[1] = "ISIN" => k[2] # d.isin
         /\ k[1] = "BRSAPI_L18" /\ k[2] = d.symbol => ids[k].to <= d.from
  <2> SUFFICES ASSUME NEW k \in DOMAIN ids
               PROVE  /\ k[1] = "ISIN" => k[2] # d.isin
                      /\ k[1] = "BRSAPI_L18" /\ k[2] = d.symbol => ids[k].to <= d.from
    OBVIOUS
  <2>1. k[1] = "BRSAPI_L18" /\ k[2] = d.symbol => ids[k].to <= d.from
    BY <1>0, <1>a DEF Overlaps
  <2>2. k[1] = "ISIN" => ids[k].to = Forever
    <3>1. IsinForEver(ids, ids[k].owner)
      BY <1>a DEF Identified
    <3> QED
      BY <3>1 DEF IsinForEver
  <2>3. k[1] = "ISIN" => k[2] # d.isin
    BY <1>0, <2>2 DEF Overlaps
  <2> QED
    BY <2>1, <2>3
<1>2. a \notin DOMAIN ids /\ b \notin DOMAIN ids
  BY <1>0, <1>a, <1>1
<1>3. \A k \in DOMAIN ids : ids2[k] = ids[k] /\ ids2[k].owner # i
  BY <1>2, <1>a
<1>4. RowsTyped(insts2, ids2, specs)
  <2>1. \A j \in DOMAIN insts2 :
           insts2[j] = [symbol |-> insts2[j].symbol, attributes |-> insts2[j].attributes]
    BY DEF RowsTyped, Instrument
  <2>2. \A k \in DOMAIN ids2 :
          /\ k[1] \in {"ISIN", "BRSAPI_L18"} /\ k[3] \in Nat
          /\ ids2[k].to \in (k[3] + 1)..Forever /\ ids2[k].owner \in DOMAIN insts2
    <3> SUFFICES ASSUME NEW k \in DOMAIN ids2
                 PROVE  /\ k[1] \in {"ISIN", "BRSAPI_L18"} /\ k[3] \in Nat
                        /\ ids2[k].to \in (k[3] + 1)..Forever /\ ids2[k].owner \in DOMAIN insts2
      OBVIOUS
    <3>1. CASE k \in DOMAIN ids
      BY <3>1, <1>0, <1>a, <1>3
    <3>2. CASE k \in {a, b}
      BY <3>2, <1>0
    <3> QED
      BY <3>1, <3>2
  <2>3. \A k \in DOMAIN specs :
          /\ k[1] \in DOMAIN insts2 /\ k[2] \in Nat
          /\ specs[k] = [to |-> specs[k].to, spec |-> specs[k].spec]
          /\ specs[k].to \in (k[2] + 1)..Forever
    BY DEF RowsTyped
  <2> QED
    BY <2>1, <2>2, <2>3 DEF RowsTyped
<1>5. OwnersAreUnique(ids2)
  <2> SUFFICES ASSUME NEW k \in DOMAIN ids2, NEW l \in DOMAIN ids2,
                      k # l, k[1] = l[1], k[2] = l[2], k[3] <= l[3]
               PROVE  ids2[k].to <= l[3]
    BY DEF OwnersAreUnique
  <2>1. CASE k \in DOMAIN ids /\ l \in DOMAIN ids
    BY <2>1, <1>3 DEF Identified, OwnersAreUnique
  <2>2. CASE k \in DOMAIN ids /\ l \in {a, b}
    BY <2>2, <1>0, <1>1, <1>3
  <2>3. CASE k \in {a, b} /\ l \in DOMAIN ids
    BY <2>3, <1>0, <1>1, <1>a
  <2>4. CASE k \in {a, b} /\ l \in {a, b}
    BY <2>4, <1>0
  <2> QED
    BY <2>1, <2>2, <2>3, <2>4
<1>6. ASSUME NEW j \in DOMAIN insts2
      PROVE  SymbolChain(ids2, j, insts2[j].symbol) /\ IsinForEver(ids2, j)
  <2>1. CASE j = i
    <3>1. \A k \in DOMAIN ids2 : IsSymbolOf(ids2, i, k) <=> k = b
      BY <1>0, <1>3 DEF IsSymbolOf
    <3>2. insts2[i].symbol = d.symbol
      BY DEF Instrument
    <3>3. SymbolChain(ids2, i, insts2[i].symbol)
      BY <1>0, <3>1, <3>2 DEF SymbolChain
    <3>4. IsinForEver(ids2, i)
      BY <1>0, <1>1, <1>3 DEF IsinForEver
    <3> QED
      BY <2>1, <3>3, <3>4
  <2>2. CASE j # i
    <3>1. j \in DOMAIN insts /\ insts2[j] = insts[j]
      BY <2>2
    <3>2. \A k \in DOMAIN ids2 : IsSymbolOf(ids2, j, k) <=> IsSymbolOf(ids, j, k)
      BY <2>2, <1>0, <1>3 DEF IsSymbolOf
    <3>3. \A k \in DOMAIN ids2 : IsSymbolOf(ids2, j, k) => k \in DOMAIN ids
      BY <3>2 DEF IsSymbolOf
    <3>4. SymbolChain(ids2, j, insts2[j].symbol)
      <4>1. SymbolChain(ids, j, insts[j].symbol)
        BY <3>1 DEF Identified
      <4>2. PICK o \in DOMAIN ids :
              /\ IsSymbolOf(ids, j, o) /\ ids[o].to = Forever /\ o[2] = insts[j].symbol
              /\ \A k \in DOMAIN ids : IsSymbolOf(ids, j, k) /\ k # o => ids[k].to <= o[3]
        BY <4>1 DEF SymbolChain
      <4>3. /\ o \in DOMAIN ids2 /\ IsSymbolOf(ids2, j, o) /\ ids2[o].to = Forever
            /\ o[2] = insts2[j].symbol
            /\ \A k \in DOMAIN ids2 : IsSymbolOf(ids2, j, k) /\ k # o => ids2[k].to <= o[3]
        BY <4>2, <3>1, <3>2, <3>3, <1>3
      <4>4. \A k, l \in DOMAIN ids2 :
              IsSymbolOf(ids2, j, k) /\ IsSymbolOf(ids2, j, l) /\ k # l =>
                 ids2[k].to # ids2[l].to
        BY <4>1, <3>2, <3>3, <1>3 DEF SymbolChain
      <4>5. \A k \in DOMAIN ids2 :
              IsSymbolOf(ids2, j, k) /\ ids2[k].to # Forever =>
                 \E l \in DOMAIN ids2 : IsSymbolOf(ids2, j, l) /\ l[3] = ids2[k].to
        BY <4>1, <3>2, <3>3, <1>3 DEF SymbolChain
      <4> QED
        BY <4>3, <4>4, <4>5 DEF SymbolChain
    <3>5. IsinForEver(ids2, j)
      <4>1. PICK k \in DOMAIN ids :
              /\ k[1] = "ISIN" /\ ids[k].owner = j /\ ids[k].to = Forever
              /\ \A l \in DOMAIN ids :
                    l[1] = "ISIN" /\ (ids[l].owner = j \/ l[2] = k[2]) => l = k
        BY <3>1 DEF Identified, IsinForEver
      <4>2. \A l \in DOMAIN ids2 :
              l[1] = "ISIN" /\ (ids2[l].owner = j \/ l[2] = k[2]) => l = k
        BY <4>1, <2>2, <1>0, <1>1, <1>3
      <4> QED
        BY <4>1, <4>2, <1>3 DEF IsinForEver
    <3> QED
      BY <3>4, <3>5
  <2> QED
    BY <2>1, <2>2
<1> QED
  BY <1>2, <1>4, <1>5, <1>6 DEF Identified

\* A rename: the open interval of the instrument ends where the new one begins, and the
\* trigger found no row of the new symbol that ends later.
LEMMA RenamedIdentified ==
    ASSUME NEW insts, NEW ids, NEW specs, NEW insts2, NEW ids2, NEW d, NEW k, NEW n,
           NEW i \in DOMAIN insts,
           RowsTyped(insts, ids, specs), Identified(insts, ids),
           d.rename \in 0..(Forever - 1), ~Overlaps(ids, "BRSAPI_L18", d.symbol, d.rename),
           IsSymbolOf(ids, i, k), k[3] < d.rename, ids[k].to = Forever,
           n = <<"BRSAPI_L18", d.symbol, d.rename>>,
           DOMAIN insts2 = DOMAIN insts,
           insts2[i] = [insts[i] EXCEPT !.symbol = d.symbol],
           \A j \in DOMAIN insts : j # i => insts2[j] = insts[j],
           DOMAIN ids2 = DOMAIN ids \cup {n},
           ids2[k] = [to |-> d.rename, owner |-> i], ids2[n] = [to |-> Forever, owner |-> i],
           \A l \in DOMAIN ids : l \notin {k, n} => ids2[l] = ids[l]
    PROVE  /\ RowsTyped(insts2, ids2, specs)
           /\ Identified(insts2, ids2)
           /\ n \notin DOMAIN ids
<1>0. /\ Forever \in Nat /\ d.rename \in Nat /\ d.rename < Forever
      /\ n[1] = "BRSAPI_L18" /\ n[2] = d.symbol /\ n[3] = d.rename
      /\ k \in DOMAIN ids /\ k[1] = "BRSAPI_L18" /\ ids[k].owner = i
  BY ForeverTyped DEF IsSymbolOf
<1>a. \A l \in DOMAIN ids :
         /\ l[1] \in {"ISIN", "BRSAPI_L18"} /\ l[3] \in Nat /\ ids[l].to \in Nat
         /\ l[3] < ids[l].to /\ ids[l].to <= Forever /\ ids[l].owner \in DOMAIN insts
  BY <1>0 DEF RowsTyped
<1>1. \A l \in DOMAIN ids : l[1] = "BRSAPI_L18" /\ l[2] = d.symbol => ids[l].to <= d.rename
  BY <1>0, <1>a DEF Overlaps
<1>2. n \notin DOMAIN ids /\ n # k /\ k[2] # d.symbol
  BY <1>0, <1>a, <1>1
<1>3. \A l \in DOMAIN ids : l # k => ids2[l] = ids[l]
  BY <1>2
<1>4. /\ ids2[k].to = d.rename /\ ids2[k].owner = i
      /\ ids2[n].to = Forever /\ ids2[n].owner = i
  OBVIOUS
<1>5. \A l \in DOMAIN ids : ids2[l].owner = ids[l].owner
  BY <1>0, <1>3, <1>4
<1>6. RowsTyped(insts2, ids2, specs)
  <2>1. \A j \in DOMAIN insts2 :
           insts2[j] = [symbol |-> insts2[j].symbol, attributes |-> insts2[j].attributes]
    BY DEF RowsTyped
  <2>2. \A l \in DOMAIN ids2 :
          /\ l[1] \in {"ISIN", "BRSAPI_L18"} /\ l[3] \in Nat
          /\ ids2[l].to \in (l[3] + 1)..Forever /\ ids2[l].owner \in DOMAIN insts2
    <3> SUFFICES ASSUME NEW l \in DOMAIN ids2
                 PROVE  /\ l[1] \in {"ISIN", "BRSAPI_L18"} /\ l[3] \in Nat
                        /\ ids2[l].to \in (l[3] + 1)..Forever /\ ids2[l].owner \in DOMAIN insts2
      OBVIOUS
    <3>1. CASE l \in DOMAIN ids /\ l # k
      BY <3>1, <1>0, <1>a, <1>3
    <3>2. CASE l = k
      BY <3>2, <1>0, <1>a, <1>4
    <3>3. CASE l = n
      BY <3>3, <1>0, <1>4
    <3> QED
      BY <3>1, <3>2, <3>3
  <2>3. \A l \in DOMAIN specs :
          /\ l[1] \in DOMAIN insts2 /\ l[2] \in Nat
          /\ specs[l] = [to |-> specs[l].to, spec |-> specs[l].spec]
          /\ specs[l].to \in (l[2] + 1)..Forever
    BY DEF RowsTyped
  <2> QED
    BY <2>1, <2>2, <2>3 DEF RowsTyped
<1>7. OwnersAreUnique(ids2)
  <2> SUFFICES ASSUME NEW l \in DOMAIN ids2, NEW m \in DOMAIN ids2,
                      l # m, l[1] = m[1], l[2] = m[2], l[3] <= m[3]
               PROVE  ids2[l].to <= m[3]
    BY DEF OwnersAreUnique
  <2>1. CASE l \in DOMAIN ids /\ m \in DOMAIN ids
    <3>1. ids[l].to <= m[3]
      BY <2>1 DEF Identified, OwnersAreUnique
    <3>2. l # k
      BY <3>1, <2>1, <1>0, <1>a
    <3> QED
      BY <3>1, <3>2, <2>1, <1>3
  <2>2. CASE l \in DOMAIN ids /\ m = n
    BY <2>2, <1>0, <1>1, <1>2, <1>3
  <2>3. CASE l = n /\ m \in DOMAIN ids
    BY <2>3, <1>0, <1>1, <1>a
  <2> QED
    BY <2>1, <2>2, <2>3
<1>8. ASSUME NEW j \in DOMAIN insts
      PROVE  IsinForEver(ids2, j)
  <2>1. PICK l \in DOMAIN ids :
          /\ l[1] = "ISIN" /\ ids[l].owner = j /\ ids[l].to = Forever
          /\ \A m \in DOMAIN ids : m[1] = "ISIN" /\ (ids[m].owner = j \/ m[2] = l[2]) => m = l
    BY DEF Identified, IsinForEver
  <2>2. \A m \in DOMAIN ids2 : m[1] = "ISIN" => m \in DOMAIN ids /\ ids2[m] = ids[m]
    BY <1>0, <1>3
  <2> QED
    BY <2>1, <2>2 DEF IsinForEver
<1>9. SymbolChain(ids2, i, insts2[i].symbol)
  <2>1. SymbolChain(ids, i, insts[i].symbol)
    BY DEF Identified
  <2>2. \A l \in DOMAIN ids : IsSymbolOf(ids, i, l) /\ l # k => ids[l].to <= k[3]
    <3>1. PICK o \in DOMAIN ids :
            /\ IsSymbolOf(ids, i, o) /\ ids[o].to = Forever
            /\ \A l \in DOMAIN ids : IsSymbolOf(ids, i, l) /\ l # o => ids[l].to <= o[3]
      BY <2>1 DEF SymbolChain
    <3>2. o = k
      BY <3>1, <2>1, <1>0 DEF SymbolChain
    <3> QED
      BY <3>1, <3>2
  <2>3. \A l \in DOMAIN ids2 : IsSymbolOf(ids2, i, l) <=> (IsSymbolOf(ids, i, l) \/ l = n)
    BY <1>0, <1>4, <1>5 DEF IsSymbolOf
  <2>4. insts2[i].symbol = d.symbol
    BY DEF RowsTyped
  <2>5. \A l \in DOMAIN ids2 : IsSymbolOf(ids2, i, l) /\ l # n =>
           /\ l \in DOMAIN ids /\ IsSymbolOf(ids, i, l)
           /\ ids2[l].to <= d.rename /\ ids2[l].to \in Nat
           /\ l # k => ids2[l].to = ids[l].to /\ ids2[l].to < d.rename
    <3> SUFFICES ASSUME NEW l \in DOMAIN ids2, IsSymbolOf(ids2, i, l), l # n
                 PROVE  /\ l \in DOMAIN ids /\ IsSymbolOf(ids, i, l)
                        /\ ids2[l].to <= d.rename /\ ids2[l].to \in Nat
                        /\ l # k => ids2[l].to = ids[l].to /\ ids2[l].to < d.rename
      OBVIOUS
    <3>1. l \in DOMAIN ids /\ IsSymbolOf(ids, i, l)
      BY <2>3
    <3>2. CASE l = k
      BY <3>1, <3>2, <1>0, <1>4
    <3>3. CASE l # k
      BY <3>1, <3>3, <2>2, <1>0, <1>a, <1>3
    <3> QED
      BY <3>1, <3>2, <3>3
  <2>6. \A l \in DOMAIN ids2 : IsSymbolOf(ids2, i, l) /\ l # n => ids2[l].to <= n[3]
    BY <2>5, <1>0
  <2>7. \A l, m \in DOMAIN ids2 :
           IsSymbolOf(ids2, i, l) /\ IsSymbolOf(ids2, i, m) /\ l # m => ids2[l].to # ids2[m].to
    <3> SUFFICES ASSUME NEW l \in DOMAIN ids2, NEW m \in DOMAIN ids2,
                        IsSymbolOf(ids2, i, l), IsSymbolOf(ids2, i, m), l # m
                 PROVE  ids2[l].to # ids2[m].to
      OBVIOUS
    <3>1. CASE l = n \/ m = n
      BY <3>1, <2>5, <1>0, <1>4
    <3>2. CASE l # n /\ m # n /\ (l = k \/ m = k)
      BY <3>2, <2>5, <1>0, <1>4
    <3>3. CASE l \notin {n, k} /\ m \notin {n, k}
      BY <3>3, <2>1, <2>5 DEF SymbolChain
    <3> QED
      BY <3>1, <3>2, <3>3
  <2>8. ASSUME NEW l \in DOMAIN ids2, IsSymbolOf(ids2, i, l), ids2[l].to # Forever
        PROVE  \E m \in DOMAIN ids2 : IsSymbolOf(ids2, i, m) /\ m[3] = ids2[l].to
    <3>1. CASE l = k
      BY <3>1, <2>3, <1>0, <1>4
    <3>2. CASE l # k
      <4>1. l # n /\ ids[l].to # Forever /\ IsSymbolOf(ids, i, l) /\ l \in DOMAIN ids
            /\ ids2[l].to = ids[l].to
        BY <2>5, <2>8, <3>2, <1>4
      <4>2. PICK m \in DOMAIN ids : IsSymbolOf(ids, i, m) /\ m[3] = ids[l].to
        BY <2>1, <4>1 DEF SymbolChain
      <4> QED
        BY <2>3, <4>1, <4>2
    <3> QED
      BY <3>1, <3>2
  <2>9. n \in DOMAIN ids2 /\ IsSymbolOf(ids2, i, n) /\ n[2] = insts2[i].symbol
    BY <2>3, <2>4, <1>0
  <2> QED
    BY <2>6, <2>7, <2>8, <2>9, <1>4 DEF SymbolChain
<1>10. ASSUME NEW j \in DOMAIN insts, j # i
       PROVE  SymbolChain(ids2, j, insts2[j].symbol)
  <2>1. SymbolChain(ids, j, insts[j].symbol) /\ insts2[j] = insts[j]
    BY <1>10 DEF Identified
  <2>2. \A l \in DOMAIN ids2 : IsSymbolOf(ids2, j, l) =>
           l \in DOMAIN ids /\ IsSymbolOf(ids, j, l) /\ ids2[l] = ids[l]
    BY <1>0, <1>3, <1>4, <1>10 DEF IsSymbolOf
  <2>3. \A l \in DOMAIN ids : IsSymbolOf(ids, j, l) =>
           l \in DOMAIN ids2 /\ IsSymbolOf(ids2, j, l)
    BY <1>5 DEF IsSymbolOf
  <2>4. PICK o \in DOMAIN ids :
          /\ IsSymbolOf(ids, j, o) /\ ids[o].to = Forever /\ o[2] = insts[j].symbol
          /\ \A l \in DOMAIN ids : IsSymbolOf(ids, j, l) /\ l # o => ids[l].to <= o[3]
    BY <2>1 DEF SymbolChain
  <2>5. /\ o \in DOMAIN ids2 /\ IsSymbolOf(ids2, j, o) /\ ids2[o].to = Forever
        /\ o[2] = insts2[j].symbol
        /\ \A l \in DOMAIN ids2 : IsSymbolOf(ids2, j, l) /\ l # o => ids2[l].to <= o[3]
    BY <2>1, <2>2, <2>3, <2>4
  <2>6. \A l, m \in DOMAIN ids2 :
           IsSymbolOf(ids2, j, l) /\ IsSymbolOf(ids2, j, m) /\ l # m => ids2[l].to # ids2[m].to
    BY <2>1, <2>2 DEF SymbolChain
  <2>7. \A l \in DOMAIN ids2 :
           IsSymbolOf(ids2, j, l) /\ ids2[l].to # Forever =>
              \E m \in DOMAIN ids2 : IsSymbolOf(ids2, j, m) /\ m[3] = ids2[l].to
    BY <2>1, <2>2, <2>3 DEF SymbolChain
  <2> QED
    BY <2>5, <2>6, <2>7 DEF SymbolChain
<1> QED
  BY <1>2, <1>6, <1>7, <1>8, <1>9, <1>10 DEF Identified

\* A first specification, or one that differs from the latest and closes it.
Versions(specs, specs2, i, d, key, late) ==
    /\ key = <<i, d.specFrom>> /\ key \notin DOMAIN specs
    /\ DOMAIN specs2 = DOMAIN specs \cup {key}
    /\ specs2[key] = [to |-> Forever, spec |-> d.spec]
    /\ \/ SpecRows(specs, i) = {}
       \/ /\ SpecChain(specs, i) /\ late = LatestSpec(specs, i)
          /\ ~SameSpecification(specs[late], d) /\ late[2] < d.specFrom
          /\ specs2[late] = [to |-> d.specFrom, spec |-> specs[late].spec]
          /\ \A k \in DOMAIN specs : k # late => specs2[k] = specs[k]

\* It leaves a chain.
LEMMA SpecifiedAgain ==
    ASSUME NEW specs, NEW specs2, NEW i, NEW d, NEW key, NEW late,
           \A k \in SpecRows(specs, i) : k[2] \in Nat,
           d.specFrom \in 0..(Forever - 1),
           Versions(specs, specs2, i, d, key, late)
    PROVE  SpecChain(specs2, i)
<1> USE DEF Versions
<1>1. key \in SpecRows(specs2, i) /\ key[2] = d.specFrom /\ specs2[key].to = Forever
  BY DEF SpecRows
<1>2. SpecRows(specs2, i) = SpecRows(specs, i) \cup {key}
  BY DEF SpecRows
<1>3. CASE SpecRows(specs, i) = {}
  BY <1>1, <1>2, <1>3 DEF SpecChain
<1>4. CASE SpecChain(specs, i) /\ SpecRows(specs, i) # {}
  <2>1. PICK last \in SpecRows(specs, i) :
          /\ specs[last].to = Forever
          /\ \A k \in SpecRows(specs, i) \ {last} :
                /\ k[2] < last[2]
                /\ \E l \in SpecRows(specs, i) :
                      l[2] = specs[k].to /\ specs[l].spec # specs[k].spec
    BY <1>4 DEF SpecChain
  <2>2. late = last
    <3>1. \A k \in SpecRows(specs, i) : k[2] <= last[2]
      BY <2>1
    <3>2. late \in SpecRows(specs, i) /\ last[2] <= late[2]
      BY <1>4, <2>1, <3>1 DEF LatestSpec
    <3> QED
      BY <2>1, <3>2
  <2>3. /\ specs[last].spec # d.spec /\ last[2] < d.specFrom
        /\ specs2[last].to = d.specFrom /\ specs2[last].spec = specs[last].spec
        /\ \A k \in DOMAIN specs : k # last => specs2[k] = specs[k]
    BY <1>4, <2>2 DEF SameSpecification
  <2>4. \A k \in SpecRows(specs, i) : k \in DOMAIN specs /\ specs2[k].spec = specs[k].spec
    BY <2>3 DEF SpecRows
  <2>5. ASSUME NEW k \in SpecRows(specs2, i) \ {key}
        PROVE  /\ k[2] < key[2]
               /\ \E l \in SpecRows(specs2, i) :
                     l[2] = specs2[k].to /\ specs2[l].spec # specs2[k].spec
    <3>1. k \in SpecRows(specs, i)
      BY <1>2
    <3>2. CASE k = last
      BY <3>2, <2>3, <1>1
    <3>3. CASE k # last
      <4>1. k[2] < last[2] /\ k[2] \in Nat /\ last[2] \in Nat /\ d.specFrom \in Nat
        BY <3>1, <3>3, <2>1, ForeverTyped
      <4>2. PICK l \in SpecRows(specs, i) : l[2] = specs[k].to /\ specs[l].spec # specs[k].spec
        BY <3>1, <3>3, <2>1
      <4>3. specs2[k] = specs[k] /\ specs2[l].spec = specs[l].spec
        BY <2>3, <2>4, <3>1, <3>3, <4>2
      <4> QED
        BY <1>1, <1>2, <2>3, <4>1, <4>2, <4>3
    <3> QED
      BY <3>2, <3>3
  <2> QED
    BY <1>1, <2>5 DEF SpecChain
<1> QED
  BY <1>3, <1>4

\* The specifications of an instrument that no row was written for stay a chain.
LEMMA SpecChainKept ==
    ASSUME NEW specs, NEW specs2, NEW i, SpecRows(specs2, i) = SpecRows(specs, i),
           \A k \in SpecRows(specs, i) : specs2[k] = specs[k]
    PROVE  SpecChain(specs, i) => SpecChain(specs2, i)
<1> SUFFICES ASSUME SpecChain(specs, i) PROVE SpecChain(specs2, i)
  OBVIOUS
<1>1. PICK last \in SpecRows(specs, i) :
        /\ specs[last].to = Forever
        /\ \A k \in SpecRows(specs, i) \ {last} :
              /\ k[2] < last[2]
              /\ \E l \in SpecRows(specs, i) :
                    l[2] = specs[k].to /\ specs[l].spec # specs[k].spec
  BY DEF SpecChain
<1> QED
  BY <1>1 DEF SpecChain

\* A history that continues one that continues another continues it too.
LEMMA ContinuesOn ==
    ASSUME NEW a, NEW b, NEW c, Continues(b, a), Continues(c, b)
    PROVE  Continues(c, a)
<1>1. \A i \in DOMAIN a.insts :
         i \in DOMAIN c.insts /\ c.insts[i].attributes = a.insts[i].attributes
  BY DEF Continues
<1>2. \A k \in DOMAIN a.ids :
         /\ k \in DOMAIN c.ids
         /\ c.ids[k].owner = a.ids[k].owner
         /\ a.ids[k].to # Forever => c.ids[k] = a.ids[k]
  BY DEF Continues
<1>3. \A k \in DOMAIN a.specs :
         /\ k \in DOMAIN c.specs
         /\ c.specs[k].spec = a.specs[k].spec
         /\ a.specs[k].to # Forever => c.specs[k] = a.specs[k]
  BY DEF Continues
<1> QED
  BY <1>1, <1>2, <1>3 DEF Continues

\* An active row of an ISIN has an owner that exists.
LEMMA IsinOwnerExists ==
    ASSUME NEW v, NEW d, NEW new, Sound(v.insts, v.ids, v.specs, new), IsinRows(v, d) # {}
    PROVE  OwnerAt(v.ids, "ISIN", d.isin, d.from) \in DOMAIN v.insts
<1> DEFINE rows == ActiveRows(v.ids, "ISIN", d.isin, d.from)
           k == CHOOSE l \in rows : TRUE
<1>1. rows # {}
  BY DEF IsinRows
<1>2. k \in rows
  BY <1>1
<1>3. OwnerAt(v.ids, "ISIN", d.isin, d.from) = v.ids[k].owner
  BY <1>1 DEF OwnerAt
<1>4. k \in DOMAIN v.ids
  BY <1>2 DEF ActiveRows
<1> QED
  BY <1>3, <1>4 DEF Sound, RowsTyped

\* ResolveInstrument with a new instrument.
LEMMA CreateView ==
    ASSUME NEW c, NEW n \in Nat, NEW d, NEW v, NEW v2, NEW old, NEW i, NEW a, NEW b, NEW open,
           ViewOK(c, "isin", n, d, v, old), d.from \in 0..(Forever - 1),
           ~Overlaps(v.ids, "ISIN", d.isin, d.from),
           ~Overlaps(v.ids, "BRSAPI_L18", d.symbol, d.from),
           i = <<c, n>>, open = [to |-> Forever, owner |-> i],
           a = <<"ISIN", d.isin, d.from>>, b = <<"BRSAPI_L18", d.symbol, d.from>>,
           v2.insts = Overlay(Row(i, Instrument(d)), v.insts),
           v2.ids = Overlay(Overlay(Row(a, open), Row(b, open)), v.ids),
           v2.specs = v.specs
    PROVE  ViewOK(c, "specify", n, d, v2, old)
<1>0. /\ a # b /\ i[1] = c /\ a[1] = "ISIN" /\ a[2] = d.isin /\ a[3] = d.from
      /\ b[1] = "BRSAPI_L18" /\ open.to = Forever /\ open.owner = i
  OBVIOUS
<1>2. i \notin DOMAIN v.insts
  BY DEF ViewOK, CreatedSoFar
<1>3. /\ DOMAIN v2.insts = DOMAIN v.insts \cup {i}
      /\ v2.insts[i] = Instrument(d)
      /\ \A j \in DOMAIN v.insts : v2.insts[j] = v.insts[j]
  BY <1>2 DEF Overlay, Row
<1>4. /\ DOMAIN v2.ids = DOMAIN v.ids \cup {a, b}
      /\ v2.ids[a] = open /\ v2.ids[b] = open
      /\ \A k \in DOMAIN v.ids : k \notin {a, b} => v2.ids[k] = v.ids[k]
  BY <1>0 DEF Overlay, Row
<1>5. RowsTyped(v.insts, v.ids, v.specs) /\ Identified(v.insts, v.ids)
  BY DEF ViewOK, Sound
<1>6. /\ RowsTyped(v2.insts, v2.ids, v.specs)
      /\ Identified(v2.insts, v2.ids)
      /\ a \notin DOMAIN v.ids /\ b \notin DOMAIN v.ids
  <2>1. Creates(v.insts, v.ids, v2.insts, v2.ids, i, d, a, b)
    BY <1>2, <1>3, <1>4 DEF Creates
  <2> QED
    BY <1>5, <2>1, CreatedIdentified
<1>7. ActiveRows(v2.ids, "ISIN", d.isin, d.from) = {a}
  <2>1. \A k \in DOMAIN v2.ids : k[1] = "ISIN" /\ k[2] = d.isin => k = a
    <3>1. IsinForEver(v2.ids, i)
      BY <1>3, <1>6 DEF Identified
    <3> QED
      BY <3>1, <1>0, <1>4 DEF IsinForEver
  <2>2. a \in ActiveRows(v2.ids, "ISIN", d.isin, d.from)
    BY <1>0, <1>4, ForeverTyped DEF ActiveRows
  <2> QED
    BY <2>1, <2>2 DEF ActiveRows
<1>8. OwnerAt(v2.ids, "ISIN", d.isin, d.from) = i
  BY <1>0, <1>4, <1>7 DEF OwnerAt
<1>9. Specified(v2.insts, v2.specs, {i})
  <2>1. SpecRows(v.specs, i) = {}
    BY <1>2, <1>5 DEF RowsTyped, SpecRows
  <2>2. \A j \in DOMAIN v.insts : SpecChain(v.specs, j)
    BY DEF ViewOK, Sound, Specified
  <2> QED
    BY <1>3, <2>1, <2>2 DEF Specified
<1>10. Continues(v2, v)
  BY <1>3, <1>4, <1>6 DEF Continues
<1>11. Continues(v2, old)
  BY <1>10, ContinuesOn DEF ViewOK
<1>12. CreatedSoFar(c, "specify", n, v2, old)
  <2>1. \A j \in DOMAIN v2.insts : j \in DOMAIN old.insts \/ j[1] = c
    BY <1>0, <1>3 DEF ViewOK, CreatedSoFar
  <2>2. \A m \in Nat : m > n => <<c, m>> \notin DOMAIN v2.insts
    BY <1>3 DEF ViewOK, CreatedSoFar
  <2> QED
    BY <2>1, <2>2 DEF CreatedSoFar
<1>13. IsinRows(v2, d) # {}
  BY <1>7 DEF IsinRows
<1>14. Sound(v2.insts, v2.ids, v2.specs, {OwnerAt(v2.ids, "ISIN", d.isin, d.from)})
  BY <1>6, <1>8, <1>9 DEF Sound
<1> QED
  BY <1>11, <1>12, <1>13, <1>14 DEF ViewOK

\* Rename.
LEMMA RenameView ==
    ASSUME NEW c, NEW n \in Nat, NEW d, NEW v, NEW v2, NEW old, NEW i, NEW inst, NEW k, NEW b,
           NEW open, NEW closed,
           ViewOK(c, "rename", n, d, v, old), d.rename \in 0..(Forever - 1),
           ~Overlaps(v.ids, "BRSAPI_L18", d.symbol, d.rename),
           i = OwnerAt(v.ids, "ISIN", d.isin, d.from),
           IsSymbolOf(v.ids, i, k), k[3] < d.rename, v.ids[k].to = Forever,
           b = <<"BRSAPI_L18", d.symbol, d.rename>>,
           open = [to |-> Forever, owner |-> i], closed = [to |-> d.rename, owner |-> i],
           inst = [v.insts[i] EXCEPT !.symbol = d.symbol],
           v2.insts = Overlay(Row(i, inst), v.insts),
           v2.ids = Overlay(Overlay(Row(k, closed), Row(b, open)), v.ids),
           v2.specs = v.specs
    PROVE  ViewOK(c, "specify", n, d, v2, old)
<1>0. /\ b[3] = d.rename /\ b[1] = "BRSAPI_L18"
      /\ closed.owner = i /\ closed.to = d.rename /\ open.owner = i /\ open.to = Forever
  OBVIOUS
<1>1. k \in DOMAIN v.ids /\ v.ids[k].owner = i /\ k[1] = "BRSAPI_L18"
  BY DEF IsSymbolOf
<1>2. k # b
  <2>1. k[3] \in Nat /\ d.rename \in Nat
    BY <1>1, ForeverTyped DEF ViewOK, Sound, RowsTyped
  <2> QED
    BY <1>0, <2>1
<1>a. i \in DOMAIN v.insts
  BY IsinOwnerExists DEF ViewOK
<1>3. /\ DOMAIN v2.insts = DOMAIN v.insts
      /\ v2.insts[i] = inst
      /\ \A j \in DOMAIN v.insts : j # i => v2.insts[j] = v.insts[j]
  BY <1>a DEF Overlay, Row
<1>4. /\ DOMAIN v2.ids = DOMAIN v.ids \cup {b}
      /\ v2.ids[k] = closed /\ v2.ids[b] = open
      /\ \A l \in DOMAIN v.ids : l \notin {k, b} => v2.ids[l] = v.ids[l]
  BY <1>1, <1>2 DEF Overlay, Row
<1>5. RowsTyped(v.insts, v.ids, v.specs) /\ Identified(v.insts, v.ids)
  BY DEF ViewOK, Sound
<1>6. /\ RowsTyped(v2.insts, v2.ids, v.specs)
      /\ Identified(v2.insts, v2.ids)
      /\ b \notin DOMAIN v.ids
  BY <1>a, <1>3, <1>4, <1>5, RenamedIdentified
<1>7. \A l \in DOMAIN v.ids : l[1] = "ISIN" => v2.ids[l] = v.ids[l]
  BY <1>0, <1>1, <1>4
<1>8. IsinRows(v, d) \subseteq IsinRows(v2, d)
  BY <1>4, <1>7 DEF IsinRows, ActiveRows
<1>9. \A j \in DOMAIN v2.insts : SpecChain(v2.specs, j)
  BY <1>3 DEF ViewOK, Sound, Specified
<1>10. Continues(v2, v)
  <2>1. \A j \in DOMAIN v.insts :
           j \in DOMAIN v2.insts /\ v2.insts[j].attributes = v.insts[j].attributes
    <3>1. v2.insts[i].attributes = v.insts[i].attributes
      BY <1>a, <1>3, <1>5 DEF RowsTyped
    <3> QED
      BY <1>3, <3>1
  <2>2. \A l \in DOMAIN v.ids :
          /\ l \in DOMAIN v2.ids
          /\ v2.ids[l].owner = v.ids[l].owner
          /\ v.ids[l].to # Forever => v2.ids[l] = v.ids[l]
    BY <1>0, <1>1, <1>4, <1>6
  <2> QED
    BY <2>1, <2>2 DEF Continues
<1>11. Continues(v2, old)
  BY <1>10, ContinuesOn DEF ViewOK
<1>12. CreatedSoFar(c, "specify", n, v2, old)
  BY <1>3 DEF ViewOK, CreatedSoFar
<1>13. IsinRows(v2, d) # {}
  BY <1>8 DEF ViewOK
<1>14. Sound(v2.insts, v2.ids, v2.specs, {OwnerAt(v2.ids, "ISIN", d.isin, d.from)})
  BY <1>6, <1>9 DEF Sound, Specified
<1> QED
  BY <1>11, <1>12, <1>13, <1>14 DEF ViewOK

\* What _apply_specification may write: nothing, a first version, or a version that
\* closes the latest one.
LEMMA SpecificationCases ==
    ASSUME NEW specs, NEW i, NEW d, NEW rows, NEW key, NEW last,
           rows = SpecificationRows(specs, i, d), rows # None,
           key = <<i, d.specFrom>>, last = LatestSpec(specs, i)
    PROVE  /\ rows.insts = <<>> /\ rows.ids = <<>>
           /\ \/ rows.specs = <<>> /\ SpecRows(specs, i) # {}
              \/ /\ key \notin DOMAIN specs /\ SpecRows(specs, i) = {}
                 /\ rows.specs = Row(key, [to |-> Forever, spec |-> d.spec])
              \/ /\ key \notin DOMAIN specs /\ SpecRows(specs, i) # {}
                 /\ ~SameSpecification(specs[last], d)
                 /\ ~(d.specFrom <= last[2]) /\ specs[last].to = Forever
                 /\ rows.specs = Overlay(Row(key, [to |-> Forever, spec |-> d.spec]),
                                         Row(last, [specs[last] EXCEPT !.to = d.specFrom]))
<1> DEFINE first == [Nothing EXCEPT !.specs = NewSpec(i, d)]
           change == [Nothing EXCEPT !.specs =
                        Overlay(NewSpec(i, d), Row(last, [specs[last] EXCEPT !.to = d.specFrom]))]
<1>1. /\ first.insts = <<>> /\ first.ids = <<>> /\ first.specs = NewSpec(i, d)
      /\ change.insts = <<>> /\ change.ids = <<>>
      /\ change.specs =
            Overlay(NewSpec(i, d), Row(last, [specs[last] EXCEPT !.to = d.specFrom]))
      /\ Nothing.insts = <<>> /\ Nothing.ids = <<>> /\ Nothing.specs = <<>>
  BY DEF Nothing
<1>2. NewSpec(i, d) = Row(key, [to |-> Forever, spec |-> d.spec])
  BY DEF NewSpec
<1>3. rows = IF key \in DOMAIN specs
             THEN IF specs[key].to = Forever /\ SameSpecification(specs[key], d)
                  THEN Nothing ELSE None
             ELSE IF SpecRows(specs, i) = {} THEN first
             ELSE IF SameSpecification(specs[last], d) THEN Nothing
             ELSE IF d.specFrom <= last[2] \/ specs[last].to # Forever THEN None
             ELSE change
  BY DEF SpecificationRows
<1>4. key \in DOMAIN specs => SpecRows(specs, i) # {}
  BY DEF SpecRows
<1> HIDE DEF first, change
<1>5. \/ rows = Nothing /\ SpecRows(specs, i) # {}
      \/ rows = first /\ key \notin DOMAIN specs /\ SpecRows(specs, i) = {}
      \/ /\ rows = change /\ key \notin DOMAIN specs /\ SpecRows(specs, i) # {}
         /\ ~SameSpecification(specs[last], d)
         /\ ~(d.specFrom <= last[2]) /\ specs[last].to = Forever
  BY <1>3, <1>4, Zenon
<1> QED
  BY <1>1, <1>2, <1>5, Zenon

\* It writes no other table.
LEMMA SpecificationOnly ==
    ASSUME NEW specs, NEW i, NEW d, SpecificationRows(specs, i, d) # None
    PROVE  /\ SpecificationRows(specs, i, d).insts = <<>>
           /\ SpecificationRows(specs, i, d).ids = <<>>
<1>1. Nothing.insts = <<>> /\ Nothing.ids = <<>>
  BY DEF Nothing
<1>2. \A f : LET rows == [Nothing EXCEPT !.specs = f] IN rows.insts = <<>> /\ rows.ids = <<>>
  BY DEF Nothing
<1> QED
  BY <1>1, <1>2 DEF SpecificationRows

\* Specify writes them in transaction C.
Specifies(c, n, d, v, v2, old, i, rows) ==
    /\ ViewOK(c, "specify", n, d, v, old) /\ d.specFrom \in 0..(Forever - 1)
    /\ i = OwnerAt(v.ids, "ISIN", d.isin, d.from)
    /\ rows = SpecificationRows(v.specs, i, d) /\ rows # None
    /\ IsTable(v.specs) /\ v2.insts = v.insts /\ v2.ids = v.ids
    /\ v2.specs = Overlay(rows.specs, v.specs)

\* Specify.
LEMMA SpecifyView ==
    ASSUME NEW c, NEW n \in Nat, NEW d, NEW v, NEW v2, NEW old, NEW i, NEW rows,
           NEW place, NEW m \in Nat, NEW e,
           Specifies(c, n, d, v, v2, old, i, rows),
           place = "commit" \/ (place = "symbol" /\ m = n + 1)
    PROVE  ViewOK(c, place, m, e, v2, old)
<1> USE DEF Specifies
<1>0. i \in DOMAIN v.insts
  BY IsinOwnerExists DEF ViewOK
<1> DEFINE last == LatestSpec(v.specs, i)
           key == <<i, d.specFrom>>
           first == [to |-> Forever, spec |-> d.spec]
           closed == [v.specs[last] EXCEPT !.to = d.specFrom]
<1>1. \/ rows.specs = <<>> /\ SpecRows(v.specs, i) # {}
      \/ /\ key \notin DOMAIN v.specs /\ SpecRows(v.specs, i) = {}
         /\ rows.specs = Row(key, first)
      \/ /\ key \notin DOMAIN v.specs /\ SpecRows(v.specs, i) # {}
         /\ ~SameSpecification(v.specs[last], d)
         /\ ~(d.specFrom <= last[2]) /\ v.specs[last].to = Forever
         /\ rows.specs = Overlay(Row(key, first), Row(last, closed))
  BY SpecificationCases
<1>2. RowsTyped(v.insts, v.ids, v.specs) /\ Identified(v.insts, v.ids)
  BY DEF ViewOK, Sound
<1>3. /\ \A j \in DOMAIN v.insts : j # i => SpecChain(v.specs, j)
      /\ SpecRows(v.specs, i) # {} => SpecChain(v.specs, i)
  BY <1>0 DEF ViewOK, Sound, Specified
<1>4. \A k \in SpecRows(v.specs, i) : k[2] \in Nat
  BY <1>2 DEF RowsTyped, SpecRows
<1>5. key[1] = i /\ key[2] = d.specFrom /\ first.to = Forever /\ first.spec = d.spec
  OBVIOUS
<1>6. d.specFrom \in Nat /\ d.specFrom < Forever
  BY ForeverTyped
<1> SUFFICES /\ RowsTyped(v.insts, v.ids, v2.specs)
             /\ \A j \in DOMAIN v.insts : SpecChain(v2.specs, j)
             /\ \A k \in DOMAIN v.specs :
                   /\ k \in DOMAIN v2.specs
                   /\ v2.specs[k].spec = v.specs[k].spec
                   /\ v.specs[k].to # Forever => v2.specs[k] = v.specs[k]
  <2>1. ASSUME RowsTyped(v.insts, v.ids, v2.specs),
               \A j \in DOMAIN v.insts : SpecChain(v2.specs, j)
        PROVE  Sound(v2.insts, v2.ids, v2.specs, {})
    BY <1>2, <2>1 DEF Sound, Specified
  <2>2. ASSUME \A k \in DOMAIN v.specs :
                  /\ k \in DOMAIN v2.specs
                  /\ v2.specs[k].spec = v.specs[k].spec
                  /\ v.specs[k].to # Forever => v2.specs[k] = v.specs[k]
        PROVE  Continues(v2, old)
    <3>1. Continues(v2, v)
      BY <2>2 DEF Continues
    <3> QED
      BY <3>1, ContinuesOn DEF ViewOK
  <2>3. CreatedSoFar(c, place, m, v2, old)
    <3>1. CreatedSoFar(c, "specify", n, v, old)
      BY DEF ViewOK
    <3> QED
      BY <3>1 DEF CreatedSoFar
  <2> QED
    BY <2>1, <2>2, <2>3 DEF ViewOK
<1>7. CASE rows.specs = <<>> /\ SpecRows(v.specs, i) # {}
  <2>1. v2.specs = v.specs
    BY <1>7, OverlayNothing
  <2> QED
    BY <1>2, <1>3, <1>7, <2>1
<1>8. CASE /\ key \notin DOMAIN v.specs /\ SpecRows(v.specs, i) = {}
           /\ rows.specs = Row(key, first)
  <2> HIDE DEF key, first, last, closed
  <2>1. /\ DOMAIN v2.specs = DOMAIN v.specs \cup {key}
        /\ v2.specs[key] = first
        /\ \A k \in DOMAIN v.specs : v2.specs[k] = v.specs[k]
    BY <1>8 DEF Overlay, Row
  <2>2. RowsTyped(v.insts, v.ids, v2.specs)
    <3>1. \A k \in DOMAIN v2.specs :
            /\ k[1] \in DOMAIN v.insts /\ k[2] \in Nat
            /\ v2.specs[k] = [to |-> v2.specs[k].to, spec |-> v2.specs[k].spec]
            /\ v2.specs[k].to \in (k[2] + 1)..Forever
      <4> SUFFICES ASSUME NEW k \in DOMAIN v2.specs
                   PROVE  /\ k[1] \in DOMAIN v.insts /\ k[2] \in Nat
                          /\ v2.specs[k] = [to |-> v2.specs[k].to, spec |-> v2.specs[k].spec]
                          /\ v2.specs[k].to \in (k[2] + 1)..Forever
        OBVIOUS
      <4>1. CASE k = key
        BY <4>1, <2>1, <1>0, <1>5, <1>6, ForeverTyped DEF first
      <4>2. CASE k \in DOMAIN v.specs
        BY <4>2, <2>1, <1>2 DEF RowsTyped
      <4> QED
        BY <4>1, <4>2, <2>1
    <3> QED
      BY <3>1, <1>2 DEF RowsTyped
  <2>3. SpecChain(v2.specs, i)
    <3>1. Versions(v.specs, v2.specs, i, d, key, last)
      BY <1>8, <2>1 DEF Versions, key, first
    <3> QED
      BY <1>4, <3>1, SpecifiedAgain
  <2>4. ASSUME NEW j \in DOMAIN v.insts, j # i
        PROVE  SpecChain(v2.specs, j)
    <3>1. SpecRows(v2.specs, j) = SpecRows(v.specs, j)
      BY <2>1, <2>4, <1>5 DEF SpecRows
    <3>2. \A k \in SpecRows(v.specs, j) : v2.specs[k] = v.specs[k]
      BY <2>1 DEF SpecRows
    <3> QED
      BY <3>1, <3>2, <1>3, <2>4, SpecChainKept
  <2> QED
    BY <2>1, <2>2, <2>3, <2>4
<1>9. CASE /\ key \notin DOMAIN v.specs /\ SpecRows(v.specs, i) # {}
           /\ ~SameSpecification(v.specs[last], d)
           /\ ~(d.specFrom <= last[2]) /\ v.specs[last].to = Forever
           /\ rows.specs = Overlay(Row(key, first), Row(last, closed))
  <2>0. last \in SpecRows(v.specs, i)
    <3>1. PICK k \in SpecRows(v.specs, i) : \A l \in SpecRows(v.specs, i) \ {k} : l[2] < k[2]
      BY <1>3, <1>9 DEF SpecChain
    <3>2. \A l \in SpecRows(v.specs, i) : l[2] <= k[2]
      BY <3>1, <1>4
    <3> QED
      BY <3>1, <3>2 DEF LatestSpec
  <2>1. last \in DOMAIN v.specs /\ last[1] = i /\ last[2] \in Nat /\ last # key
    BY <2>0, <1>4, <1>9 DEF SpecRows
  <2>2. v.specs[last] = [to |-> Forever, spec |-> v.specs[last].spec]
    BY <2>1, <1>2, <1>9 DEF RowsTyped
  <2>3. closed = [to |-> d.specFrom, spec |-> v.specs[last].spec]
    BY <2>2
  <2> HIDE DEF key, first, last, closed
  <2>4. /\ DOMAIN v2.specs = DOMAIN v.specs \cup {key}
        /\ v2.specs[key] = first /\ v2.specs[last] = closed
        /\ \A k \in DOMAIN v.specs : k # last => v2.specs[k] = v.specs[k]
    BY <1>9, <2>1 DEF Overlay, Row
  <2>5. RowsTyped(v.insts, v.ids, v2.specs)
    <3>1. \A k \in DOMAIN v2.specs :
            /\ k[1] \in DOMAIN v.insts /\ k[2] \in Nat
            /\ v2.specs[k] = [to |-> v2.specs[k].to, spec |-> v2.specs[k].spec]
            /\ v2.specs[k].to \in (k[2] + 1)..Forever
      <4> SUFFICES ASSUME NEW k \in DOMAIN v2.specs
                   PROVE  /\ k[1] \in DOMAIN v.insts /\ k[2] \in Nat
                          /\ v2.specs[k] = [to |-> v2.specs[k].to, spec |-> v2.specs[k].spec]
                          /\ v2.specs[k].to \in (k[2] + 1)..Forever
        OBVIOUS
      <4>1. CASE k = key
        BY <4>1, <2>4, <1>0, <1>5, <1>6, ForeverTyped DEF first
      <4>2. CASE k = last
        BY <4>2, <2>1, <2>3, <2>4, <1>0, <1>6, <1>9, ForeverTyped
      <4>3. CASE k \in DOMAIN v.specs /\ k # last
        BY <4>3, <2>4, <1>2 DEF RowsTyped
      <4> QED
        BY <4>1, <4>2, <4>3, <2>4
    <3> QED
      BY <3>1, <1>2 DEF RowsTyped
  <2>6. SpecChain(v2.specs, i)
    <3>1. last[2] < d.specFrom
      BY <1>6, <1>9, <2>1
    <3>2. SpecChain(v.specs, i)
      BY <1>3, <1>9
    <3>3. v2.specs[last] = [to |-> d.specFrom, spec |-> v.specs[last].spec]
      BY <2>3, <2>4
    <3>4. key = <<i, d.specFrom>> /\ v2.specs[key] = [to |-> Forever, spec |-> d.spec]
      BY <2>4 DEF key, first
    <3>5. last = LatestSpec(v.specs, i)
      BY DEF last
    <3>6. Versions(v.specs, v2.specs, i, d, key, last)
      BY <1>9, <2>4, <3>1, <3>2, <3>3, <3>4, <3>5 DEF Versions
    <3> QED
      BY <1>4, <3>6, SpecifiedAgain
  <2>7. ASSUME NEW j \in DOMAIN v.insts, j # i
        PROVE  SpecChain(v2.specs, j)
    <3>1. SpecRows(v2.specs, j) = SpecRows(v.specs, j)
      BY <2>4, <2>7, <1>5 DEF SpecRows
    <3>2. \A k \in SpecRows(v.specs, j) : v2.specs[k] = v.specs[k]
      BY <2>1, <2>4, <2>7 DEF SpecRows
    <3> QED
      BY <3>1, <3>2, <1>3, <2>7, SpecChainKept
  <2>8. ASSUME NEW k \in DOMAIN v.specs
        PROVE  /\ k \in DOMAIN v2.specs
               /\ v2.specs[k].spec = v.specs[k].spec
               /\ v.specs[k].to # Forever => v2.specs[k] = v.specs[k]
    <3>1. CASE k = last
      BY <3>1, <1>9, <2>3, <2>4
    <3>2. CASE k # last
      BY <3>2, <2>4
    <3> QED
      BY <3>1, <3>2
  <2> QED
    BY <2>5, <2>6, <2>7, <2>8
<1> QED
  BY <1>1, <1>7, <1>8, <1>9

\* The places in between only move on.
LEMMA MoveView ==
    ASSUME NEW c, NEW n \in Nat, NEW d, NEW v, NEW old, NEW place, NEW next,
           ViewOK(c, place, n, d, v, old),
           \/ place = "symbol" /\ next = "isin"
           \/ /\ place = "isin" /\ next \in {"rename", "specify"} /\ IsinRows(v, d) # {}
              /\ next = "rename" => d.rename # None
           \/ place = "rename" /\ next = "specify"
    PROVE  ViewOK(c, next, n, d, v, old)
<1>1. Sound(v.insts, v.ids, v.specs, {}) /\ Continues(v, old) /\ CreatedSoFar(c, place, n, v, old)
  BY DEF ViewOK
<1>2. CreatedSoFar(c, next, n, v, old)
  <2>1. \A m \in Nat : m > n => m >= n
    OBVIOUS
  <2> QED
    BY <1>1, <2>1 DEF CreatedSoFar
<1>3. \A new : Sound(v.insts, v.ids, v.specs, new)
  BY <1>1 DEF Sound, Specified
<1> QED
  BY <1>1, <1>2, <1>3 DEF ViewOK

\* Transaction C begins to apply the items: it has written no row of these tables yet,
\* and no call writes them twice.
LEMMA StartView ==
    ASSUME NEW c, NEW n \in Nat, NEW d, NEW v, NEW old,
           v.insts = old.insts, v.ids = old.ids, v.specs = old.specs,
           Sound(old.insts, old.ids, old.specs, {}),
           \A i \in DOMAIN old.insts : i[1] # c
    PROVE  ViewOK(c, "symbol", n, d, v, old)
<1>1. Continues(v, old)
  BY DEF Continues
<1>2. CreatedSoFar(c, "symbol", n, v, old)
  BY DEF CreatedSoFar
<1> QED
  BY <1>1, <1>2 DEF ViewOK

\* Only these three tables matter.
LEMMA ViewKept ==
    ASSUME NEW c, NEW place, NEW n, NEW d, NEW v, NEW old, NEW v2, NEW old2,
           ViewOK(c, place, n, d, v, old),
           v2.insts = v.insts, v2.ids = v.ids, v2.specs = v.specs,
           old2.insts = old.insts, old2.ids = old.ids, old2.specs = old.specs
    PROVE  ViewOK(c, place, n, d, v2, old2)
<1>1. Continues(v2, old2)
  BY DEF ViewOK, Continues
<1>2. CreatedSoFar(c, place, n, v2, old2)
  BY DEF ViewOK, CreatedSoFar
<1>3. IsinRows(v2, d) = IsinRows(v, d)
  BY DEF IsinRows
<1> QED
  BY <1>1, <1>2, <1>3 DEF ViewOK

-----------------------------------------------------------------------------
(* What a step of one call leaves alone *)

SameTables ==
    catalog'.insts = catalog.insts /\ catalog'.ids = catalog.ids /\ catalog'.specs = catalog.specs

\* The variables of the other calls, and the batches that are not this call's.
StepOf(c) ==
    /\ pc[c] # "done"
    /\ \A e \in Callers \ {c} :
          /\ pc'[e] = pc[e] /\ doc'[e] = doc[e] /\ position'[e] = position[e]
          /\ work'[e] = work[e] /\ locks'[e] = locks[e]
    /\ \A r \in Requests :
          batch'[r] = batch[r] \/ batch[r] = None \/ batch[r].owner = c
    /\ evidence \subseteq evidence'

LocksFree(c) ==
    \A k \in RefKeys :
        <<"ref", k>> \in locks'[c] => <<"ref", k>> \in locks[c] \/ Free(c, <<"ref", k>>)

\* A batch is not the absence of one.
LEMMA BatchIsNotNone ==
    ASSUME NEW c \in Callers, NEW status \in Status
    PROVE  [status |-> status, owner |-> c] # None
BY CatalogConstants DEF Batch

\* The request of a call that has been made.
LEMMA RequestTyped ==
    ASSUME StateTyped, NEW c \in Callers, doc[c] # None
    PROVE  /\ doc[c] \in Document /\ Request(c) \in Requests /\ Manifest(c) \in Manifests
           /\ ValidManifest(Manifest(c))
BY CatalogConstants DEF StateTyped, Request, Manifest, Document

\* The other calls find what they rely on.
LEMMA OthersKept ==
    ASSUME CatalogInv, NEW c \in Callers, StepOf(c), NEW e \in Callers, e # c
    PROVE  CallOK(e)'
<1>1. /\ pc'[e] = pc[e] /\ doc'[e] = doc[e] /\ position'[e] = position[e]
      /\ work'[e] = work[e] /\ locks'[e] = locks[e]
  BY DEF StepOf
<1>2. CallOK(e) /\ StateTyped
  BY DEF CatalogInv
<1>3. CallTyped(e)'
  BY <1>1, <1>2 DEF CallOK, CallTyped
<1>4. OwnBatch(e)'
  <2>1. Request(e)' = Request(e)
    BY <1>1 DEF Request
  <2>2. ASSUME pc[e] \in Working
        PROVE  batch'[Request(e)] = [status |-> "RUNNING", owner |-> e]
    <3>1. batch[Request(e)] = [status |-> "RUNNING", owner |-> e]
      BY <1>2, <2>2 DEF CallOK, OwnBatch
    <3>2. doc[e] # None
      BY <1>2, <2>2 DEF CallOK, CallTyped, Working, Applying
    <3>3. Request(e) \in Requests
      BY <1>2, <3>2, RequestTyped
    <3>4. batch[Request(e)] # None
      BY <3>1, BatchIsNotNone DEF Status
    <3> QED
      BY <3>1, <3>3, <3>4 DEF StepOf
  <2>3. pc[e] \in Applying \cup {"refs", "fail"} => Request(e) \in evidence'
    BY <1>2 DEF CallOK, OwnBatch, StepOf
  <2> QED
    BY <1>1, <2>1, <2>2, <2>3 DEF OwnBatch
<1>5. PositionOK(e)'
  BY <1>1, <1>2 DEF CallOK, PositionOK, Manifest
<1>6. HoldsReferences(e)'
  BY <1>1, <1>2 DEF CallOK, HoldsReferences
<1> QED
  BY <1>3, <1>4, <1>5, <1>6 DEF CallOK

\* An open transaction C of another call reads what it read.
LEMMA OpenKept ==
    ASSUME CatalogInv, NEW c \in Callers, StepOf(c), SameTables, IsRows(catalog'),
           NEW e \in Callers, e # c
    PROVE  OpenOK(e)'
<1> SUFFICES ASSUME pc'[e] \in Applying
             PROVE  ViewOK(e, pc'[e], position'[e], Item(e)', View(e)', catalog')
  BY DEF OpenOK
<1>1. /\ pc'[e] = pc[e] /\ doc'[e] = doc[e] /\ position'[e] = position[e]
      /\ work'[e] = work[e]
  BY DEF StepOf
<1>2. ViewOK(e, pc[e], position[e], Item(e), View(e), catalog)
  BY <1>1 DEF CatalogInv, OpenOK
<1>3. Item(e)' = Item(e)
  BY <1>1 DEF Item, Manifest
<1>4. IsRows(catalog)
  BY DEF CatalogInv, StateTyped
<1>5. /\ View(e).insts = Overlay(work[e].insts, catalog.insts)
      /\ View(e).ids = Overlay(work[e].ids, catalog.ids)
      /\ View(e).specs = Overlay(work[e].specs, catalog.specs)
  BY <1>4, MergedRows DEF View
<1>6. View(e)' = Merge(work[e], catalog')
  BY <1>1 DEF View
<1>7. /\ (View(e)').insts = Overlay(work[e].insts, catalog'.insts)
      /\ (View(e)').ids = Overlay(work[e].ids, catalog'.ids)
      /\ (View(e)').specs = Overlay(work[e].specs, catalog'.specs)
  BY <1>6, MergedRows
<1>8. /\ (View(e)').insts = View(e).insts /\ (View(e)').ids = View(e).ids
      /\ (View(e)').specs = View(e).specs
  BY <1>5, <1>7 DEF SameTables
<1> QED
  BY <1>1, <1>2, <1>3, <1>8, ViewKept DEF SameTables

\* What a call that succeeded has written stays its own.
LEMMA CreatedKept ==
    ASSUME CatalogInv, NEW c \in Callers, StepOf(c), NEW i \in DOMAIN catalog.insts
    PROVE  /\ i[1] \in Callers /\ pc'[i[1]] = "done"
           /\ batch'[Request(i[1])'] = [status |-> "SUCCEEDED", owner |-> i[1]]
           /\ Request(i[1])' \in evidence'
<1>1. /\ i[1] \in Callers /\ pc[i[1]] = "done"
      /\ batch[Request(i[1])] = [status |-> "SUCCEEDED", owner |-> i[1]]
      /\ Request(i[1]) \in evidence
  BY DEF CatalogInv, CreatedBySuccess
<1>2. i[1] # c
  BY <1>1 DEF StepOf
<1>3. Request(i[1])' = Request(i[1]) /\ pc'[i[1]] = "done"
  BY <1>1, <1>2 DEF StepOf, Request
<1>4. batch[Request(i[1])] # None
  BY <1>1, BatchIsNotNone DEF Status
<1>5. evidence \subseteq Requests
  BY DEF CatalogInv, StateTyped
<1> QED
  BY <1>1, <1>2, <1>3, <1>4, <1>5 DEF StepOf

\* Locks of references that were free stay with one call.
LEMMA ExclusiveKept ==
    ASSUME CatalogInv, NEW c \in Callers, StepOf(c), LocksFree(c)
    PROVE  ReferencesExclusive'
<1> SUFFICES ASSUME NEW a \in Callers, NEW e \in Callers, a # e, NEW k \in RefKeys,
                    <<"ref", k>> \in locks'[a]
             PROVE  <<"ref", k>> \notin locks'[e]
  BY DEF ReferencesExclusive, RefKeys
<1>1. \A f \in Callers : f # c => locks'[f] = locks[f]
  BY DEF StepOf
<1>2. ReferencesExclusive
  BY DEF CatalogInv
<1>3. CASE a # c /\ e # c
  BY <1>1, <1>2, <1>3 DEF ReferencesExclusive
<1>4. CASE a = c
  BY <1>1, <1>2, <1>4 DEF ReferencesExclusive, LocksFree, Free
<1>5. CASE e = c
  BY <1>1, <1>2, <1>5 DEF ReferencesExclusive, LocksFree, Free
<1> QED
  BY <1>3, <1>4, <1>5

\* A step that leaves the committed rows as they are is safe if it is for its own call.
LEMMA StepSafe ==
    ASSUME CatalogInv, NEW c \in Callers, StepOf(c), LocksFree(c), SameTables,
           StateTyped', CallOK(c)', OpenOK(c)', FailedHasEvidence'
    PROVE  CatalogInv'
<1>1. \A e \in Callers : CallOK(e)'
  BY OthersKept
<1>2. IsRows(catalog')
  BY DEF StateTyped
<1>3. \A e \in Callers : OpenOK(e)'
  BY <1>2, OpenKept
<1>4. ReferencesExclusive'
  BY ExclusiveKept
<1>5. CreatedBySuccess'
  BY CreatedKept DEF CreatedBySuccess, SameTables
<1>6. Sound(catalog.insts, catalog.ids, catalog.specs, {})'
  BY DEF CatalogInv, SameTables
<1> QED
  BY <1>1, <1>3, <1>4, <1>5, <1>6 DEF CatalogInv

-----------------------------------------------------------------------------
(* The actions *)

\* A call whose transaction is rolled back, and that ends or goes on to record why.
LEMMA RollBackSafe ==
    ASSUME CatalogInv, NEW c \in Callers, NEW place \in {"fail", "done"},
           pc[c] \notin {"idle", "done"}, RollBack(c), Goto(c, place),
           place = "fail" => pc[c] \in Applying \cup {"refs"},
           UNCHANGED <<batch, evidence, catalog, doc, position>>,
           faults' \in [Callers -> Nat], reply' \in [Callers -> Error \cup Status \cup {None}]
    PROVE  CatalogInv'
<1>1. StateTyped /\ CallOK(c) /\ FailedHasEvidence
  BY DEF CatalogInv
<1>2. /\ pc'[c] = place /\ work'[c] = Nothing /\ locks'[c] = {}
      /\ \A e \in Callers \ {c} :
            pc'[e] = pc[e] /\ work'[e] = work[e] /\ locks'[e] = locks[e]
  BY <1>1 DEF RollBack, Goto, StateTyped
<1>3. StepOf(c)
  BY <1>2 DEF StepOf
<1>4. LocksFree(c) /\ SameTables
  BY <1>2 DEF LocksFree, SameTables
<1>5. StateTyped'
  BY <1>1 DEF StateTyped, RollBack, Goto, Place
<1>6. CallOK(c)'
  <2>1. CallTyped(c)'
    BY <1>1, <1>2, NothingIsRows DEF CallOK, CallTyped, Applying
  <2>2. OwnBatch(c)'
    BY <1>1, <1>2 DEF CallOK, OwnBatch, Working, Applying, Request
  <2>3. PositionOK(c)' /\ HoldsReferences(c)'
    BY <1>2 DEF PositionOK, HoldsReferences, Applying
  <2> QED
    BY <2>1, <2>2, <2>3 DEF CallOK
<1>7. OpenOK(c)'
  BY <1>2 DEF OpenOK, Applying
<1>8. FailedHasEvidence'
  BY <1>1 DEF FailedHasEvidence
<1> QED
  BY <1>3, <1>4, <1>5, <1>6, <1>7, <1>8, StepSafe

\* A call that goes on inside transaction C.
LEMMA AdvanceSafe ==
    ASSUME CatalogInv, NEW c \in Callers, NEW next \in Applying, NEW m, NEW key,
           \/ pc[c] \in Applying
           \/ pc[c] = "refs" /\ position[c] = References /\ key = <<"ref", References>>,
           Goto(c, next), Lock(c, key),
           position' = [position EXCEPT ![c] = m], m \in DOMAIN Manifest(c).items,
           work' = [work EXCEPT ![c] = work'[c]], IsRows(work'[c]),
           UNCHANGED <<batch, evidence, catalog, doc, faults, reply>>,
           ViewOK(c, next, m, Manifest(c).items[m], View(c)', catalog)
    PROVE  CatalogInv'
<1>1. StateTyped /\ CallOK(c) /\ FailedHasEvidence
  BY DEF CatalogInv
<1>2. /\ pc'[c] = next /\ position'[c] = m /\ doc'[c] = doc[c]
      /\ locks'[c] = locks[c] \cup {key}
      /\ \A e \in Callers \ {c} :
            /\ pc'[e] = pc[e] /\ work'[e] = work[e] /\ locks'[e] = locks[e]
            /\ position'[e] = position[e]
  BY <1>1 DEF Lock, Goto, StateTyped
<1>3. StepOf(c)
  BY <1>2 DEF StepOf, Applying
<1>4. LocksFree(c) /\ SameTables
  BY <1>2 DEF LocksFree, SameTables, Lock
<1>5. doc[c] # None
  BY <1>1 DEF CallOK, CallTyped, Applying
<1>6. ValidManifest(Manifest(c))
  BY <1>1, <1>5, RequestTyped
<1>7. m \in Nat
  BY <1>6 DEF ValidManifest
<1>8. StateTyped'
  <2>1. next \in Place
    BY DEF Applying, Place
  <2>2. work' = [e \in Callers |-> work'[e]] /\ locks' = [e \in Callers |-> locks'[e]]
    BY <1>1 DEF StateTyped, Lock
  <2> QED
    BY <1>1, <1>7, <2>1, <2>2 DEF StateTyped, Goto
<1>9. CallOK(c)'
  <2>1. CallTyped(c)'
    BY <1>1, <1>2, <1>5 DEF CallOK, CallTyped, Applying
  <2>2. OwnBatch(c)'
    BY <1>1, <1>2 DEF CallOK, OwnBatch, Working, Applying, Request
  <2>3. PositionOK(c)'
    BY <1>2 DEF PositionOK, Applying, Manifest
  <2>4. HoldsReferences(c)'
    <3> SUFFICES ASSUME NEW k \in RefKeys PROVE <<"ref", k>> \in locks'[c]
      BY DEF HoldsReferences, RefKeys
    <3>1. CASE pc[c] \in Applying
      BY <1>1, <1>2, <3>1 DEF CallOK, HoldsReferences
    <3>2. CASE pc[c] = "refs" /\ position[c] = References /\ key = <<"ref", References>>
      <4>1. k = References \/ k < References
        BY CatalogConstants DEF RefKeys
      <4> QED
        BY <1>1, <1>2, <3>2, <4>1 DEF CallOK, HoldsReferences
    <3> QED
      BY <3>1, <3>2
  <2> QED
    BY <2>1, <2>2, <2>3, <2>4 DEF CallOK
<1>10. OpenOK(c)'
  <2>1. Item(c)' = Manifest(c).items[m] /\ catalog' = catalog
    BY <1>2 DEF Item, Manifest
  <2> QED
    BY <1>2, <2>1 DEF OpenOK
<1>11. FailedHasEvidence'
  BY <1>1 DEF FailedHasEvidence
<1> QED
  BY <1>3, <1>4, <1>8, <1>9, <1>10, <1>11, StepSafe

\* bootstrap() is called.
LEMMA CallSafe ==
    ASSUME CatalogInv, NEW c \in Callers, NEW d \in Documents[c], Call(c, d)
    PROVE  CatalogInv'
<1>1. StateTyped /\ CallOK(c) /\ FailedHasEvidence
  BY DEF CatalogInv
<1>2. d \in Document /\ d # None
  BY CatalogConstants
<1>3. /\ pc[c] = "idle" /\ pc'[c] = "begin" /\ doc'[c] = d
      /\ \A e \in Callers \ {c} : pc'[e] = pc[e] /\ doc'[e] = doc[e]
  BY <1>1 DEF Call, Goto, StateTyped
<1>4. StepOf(c) /\ LocksFree(c) /\ SameTables
  BY <1>3 DEF Call, StepOf, LocksFree, SameTables
<1>5. StateTyped'
  BY <1>1, <1>2 DEF StateTyped, Call, Goto, Place
<1>6. CallOK(c)'
  <2>1. CallTyped(c)'
    BY <1>1, <1>2, <1>3 DEF CallOK, CallTyped, Applying, Call
  <2>2. OwnBatch(c)' /\ HoldsReferences(c)'
    BY <1>3 DEF OwnBatch, HoldsReferences, Working, Applying
  <2>3. PositionOK(c)'
    BY <1>1, <1>3 DEF CallOK, PositionOK, Applying, Call
  <2> QED
    BY <2>1, <2>2, <2>3 DEF CallOK
<1>7. OpenOK(c)' /\ FailedHasEvidence'
  BY <1>1, <1>3 DEF OpenOK, Applying, FailedHasEvidence, Call
<1> QED
  BY <1>4, <1>5, <1>6, <1>7, StepSafe

\* Every failure of the call.
LEMMA FailSafe ==
    ASSUME CatalogInv, NEW c \in Callers, Fail(c)
    PROVE  CatalogInv'
<1>1. StateTyped
  BY DEF CatalogInv
<1>2. faults' \in [Callers -> Nat] /\ reply' \in [Callers -> Error \cup Status \cup {None}]
  BY <1>1 DEF Fail, Fault, End, StateTyped, Error
<1> QED
  BY <1>2, RollBackSafe DEF Fail, End

\* A conflict or a refused row inside transaction C.
LEMMA ConflictSafe ==
    ASSUME CatalogInv, NEW c \in Callers, pc[c] \in Applying \cup {"refs"},
           Conflict(c) \/ Refuse(c),
           UNCHANGED <<batch, evidence, catalog, doc, position, faults>>
    PROVE  CatalogInv'
<1>1. StateTyped
  BY DEF CatalogInv
<1>2. faults' \in [Callers -> Nat] /\ reply' \in [Callers -> Error \cup Status \cup {None}]
  BY <1>1 DEF Conflict, Refuse, End, StateTyped, Error
<1>3. pc[c] \notin {"idle", "done"}
  BY DEF Applying
<1>4. CASE Conflict(c)
  BY <1>2, <1>3, <1>4, RollBackSafe DEF Conflict
<1>5. CASE Refuse(c)
  BY <1>2, <1>3, <1>5, RollBackSafe DEF Refuse, End
<1> QED
  BY <1>4, <1>5

\* A call outside transaction C that goes on outside it, or ends.
LEMMA OutsideSafe ==
    ASSUME CatalogInv, NEW c \in Callers,
           NEW place \in {"validate", "refs", "fail", "quarantine", "done"},
           pc[c] \in {"begin", "validate", "fail", "quarantine"}, Goto(c, place),
           UNCHANGED <<doc, position, work, locks>>, StepOf(c), SameTables,
           IsRows(catalog'), batch' \in [Requests -> Batch \cup {None}],
           evidence' \subseteq Requests,
           faults' \in [Callers -> Nat], reply' \in [Callers -> Error \cup Status \cup {None}],
           place \in {"validate", "refs"} => position[c] = 1,
           OwnBatch(c)', FailedHasEvidence'
    PROVE  CatalogInv'
<1>1. StateTyped /\ CallOK(c)
  BY DEF CatalogInv
<1>2. pc'[c] = place
  BY <1>1 DEF Goto, StateTyped
<1>3. LocksFree(c)
  BY DEF LocksFree
<1>4. StateTyped'
  BY <1>1 DEF StateTyped, Goto, Place
<1>5. CallOK(c)'
  <2>1. CallTyped(c)'
    BY <1>1, <1>2 DEF CallOK, CallTyped, Applying
  <2>2. PositionOK(c)'
    BY <1>2, CatalogConstants DEF PositionOK, Applying, RefKeys
  <2>3. HoldsReferences(c)'
    BY <1>2, CatalogConstants DEF HoldsReferences, Applying, RefKeys
  <2> QED
    BY <2>1, <2>2, <2>3 DEF CallOK
<1>6. OpenOK(c)'
  BY <1>2 DEF OpenOK, Applying
<1> QED
  BY <1>3, <1>4, <1>5, <1>6, StepSafe

\* Transaction A.
LEMMA BeginSafe ==
    ASSUME CatalogInv, NEW c \in Callers, Begin(c)
    PROVE  CatalogInv'
<1>1. StateTyped /\ CallOK(c) /\ FailedHasEvidence /\ pc[c] = "begin"
  BY DEF CatalogInv, Begin
<1>2. doc[c] # None /\ position[c] = 1
  BY <1>1 DEF CallOK, CallTyped, PositionOK
<1>3. Request(c) \in Requests
  BY <1>1, <1>2, RequestTyped
<1>4. UNCHANGED <<evidence, doc, position, work, locks>>
  BY DEF Begin
<1>5. ASSUME UNCHANGED <<batch, catalog, faults>>,
             NEW answer \in Error \cup Status, End(c, answer)
      PROVE  CatalogInv'
  <2>1. /\ Goto(c, "done") /\ pc'[c] = "done"
        /\ reply' \in [Callers -> Error \cup Status \cup {None}]
    BY <1>1, <1>5 DEF End, Goto, StateTyped
  <2>2. StepOf(c) /\ SameTables
    BY <1>1, <1>4, <1>5, <2>1 DEF StepOf, SameTables, Goto, StateTyped
  <2>3. OwnBatch(c)' /\ FailedHasEvidence'
    BY <1>1, <1>4, <1>5, <2>1 DEF OwnBatch, Working, Applying, FailedHasEvidence
  <2>4. IsRows(catalog') /\ batch' \in [Requests -> Batch \cup {None}]
        /\ evidence' \subseteq Requests /\ faults' \in [Callers -> Nat]
    BY <1>1, <1>4, <1>5 DEF StateTyped
  <2> QED
    BY <1>1, <1>4, <2>1, <2>2, <2>3, <2>4, OutsideSafe
<1>6. ASSUME ~Started(c),
             batch' = [batch EXCEPT ![Request(c)] = [status |-> "RUNNING", owner |-> c]],
             catalog' = [catalog EXCEPT !.refs =
                           Overlay(Row(Provider, Manifest(c).refs[Provider]), @)],
             Committed(c, "validate")
      PROVE  CatalogInv'
  <2>1. PICK place \in {"validate", "done"} : Goto(c, place)
    BY <1>6 DEF Committed, End
  <2>2. pc'[c] = place /\ \A e \in Callers \ {c} : pc'[e] = pc[e]
    BY <1>1, <2>1 DEF Goto, StateTyped
  <2>3. /\ batch[Request(c)] = None
        /\ batch'[Request(c)] = [status |-> "RUNNING", owner |-> c]
        /\ \A r \in Requests : r # Request(c) => batch'[r] = batch[r]
        /\ batch' \in [Requests -> Batch \cup {None}]
    BY <1>1, <1>3, <1>6 DEF Started, StateTyped, Batch, Status
  <2>4. StepOf(c)
    BY <1>1, <1>4, <2>2, <2>3 DEF StepOf
  <2>5. SameTables /\ IsRows(catalog')
    BY <1>1, <1>6 DEF SameTables, StateTyped, IsRows
  <2>6. OwnBatch(c)'
    BY <1>4, <2>2, <2>3 DEF OwnBatch, Request, Working, Applying
  <2>7. FailedHasEvidence'
    BY <1>1, <1>4, <2>3 DEF FailedHasEvidence
  <2>8. faults' \in [Callers -> Nat] /\ reply' \in [Callers -> Error \cup Status \cup {None}]
    BY <1>1, <1>6 DEF Committed, Fault, End, StateTyped, Error
  <2>9. evidence' \subseteq Requests
    BY <1>1, <1>4 DEF StateTyped
  <2> QED
    BY <1>1, <1>2, <1>4, <2>1, <2>3, <2>4, <2>5, <2>6, <2>7, <2>8, <2>9, OutsideSafe
<1>7. Started(c) => batch[Request(c)].status \in Status
  BY <1>1, <1>3 DEF Started, StateTyped, Batch
<1> QED
  BY <1>5, <1>6, <1>7 DEF Begin, Error

\* Transaction B.
LEMMA RecordEvidenceSafe ==
    ASSUME CatalogInv, NEW c \in Callers, RecordEvidence(c)
    PROVE  CatalogInv'
<1>1. StateTyped /\ CallOK(c) /\ FailedHasEvidence /\ pc[c] = "validate"
  BY DEF CatalogInv, RecordEvidence
<1>2. /\ doc[c] # None /\ position[c] = 1
      /\ batch[Request(c)] = [status |-> "RUNNING", owner |-> c]
  BY <1>1 DEF CallOK, CallTyped, PositionOK, OwnBatch, Working
<1>3. Request(c) \in Requests
  BY <1>1, <1>2, RequestTyped
<1>4. UNCHANGED <<batch, catalog, doc, position, work, locks>>
  BY DEF RecordEvidence
<1>5. PICK place \in {"refs", "quarantine", "done"} :
        Goto(c, place) /\ (place = "refs" => Request(c) \in evidence')
  BY DEF RecordEvidence, Committed, End
<1>6. pc'[c] = place /\ \A e \in Callers \ {c} : pc'[e] = pc[e]
  BY <1>1, <1>5 DEF Goto, StateTyped
<1>7. evidence \subseteq evidence' /\ evidence' \subseteq Requests
  BY <1>1, <1>3 DEF RecordEvidence, StateTyped
<1>8. StepOf(c) /\ SameTables
  BY <1>1, <1>4, <1>6, <1>7 DEF StepOf, SameTables
<1>9. OwnBatch(c)'
  BY <1>2, <1>4, <1>5, <1>6 DEF OwnBatch, Request, Working, Applying
<1>10. FailedHasEvidence'
  BY <1>1, <1>4, <1>7 DEF FailedHasEvidence
<1>11. faults' \in [Callers -> Nat] /\ reply' \in [Callers -> Error \cup Status \cup {None}]
  BY <1>1 DEF RecordEvidence, Committed, Fault, End, StateTyped, Error
<1>12. IsRows(catalog') /\ batch' \in [Requests -> Batch \cup {None}]
  BY <1>1, <1>4 DEF StateTyped
<1> QED
  BY <1>1, <1>2, <1>4, <1>5, <1>7, <1>8, <1>9, <1>10, <1>11, <1>12, OutsideSafe

\* Transaction D.
LEMMA FinalizeFailureSafe ==
    ASSUME CatalogInv, NEW c \in Callers, FinalizeFailure(c)
    PROVE  CatalogInv'
<1>1. StateTyped /\ CallOK(c) /\ FailedHasEvidence /\ pc[c] \in {"fail", "quarantine"}
  BY DEF CatalogInv, FinalizeFailure
<1>2. /\ doc[c] # None
      /\ batch[Request(c)] = [status |-> "RUNNING", owner |-> c]
      /\ pc[c] = "fail" => Request(c) \in evidence
  BY <1>1 DEF CallOK, CallTyped, OwnBatch, Working
<1>3. Request(c) \in Requests
  BY <1>1, <1>2, RequestTyped
<1>4. UNCHANGED <<evidence, catalog, doc, position, work, locks>> /\ Goto(c, "done")
  BY DEF FinalizeFailure, End
<1>5. pc'[c] = "done" /\ \A e \in Callers \ {c} : pc'[e] = pc[e]
  BY <1>1, <1>4 DEF Goto, StateTyped
<1>6. PICK status \in {"FAILED", "QUARANTINED"} :
        /\ batch' = [batch EXCEPT ![Request(c)].status = status]
        /\ status = "FAILED" => pc[c] = "fail"
  BY DEF FinalizeFailure
<1>7. /\ batch'[Request(c)] = [status |-> status, owner |-> c]
      /\ \A r \in Requests : r # Request(c) => batch'[r] = batch[r]
      /\ batch' \in [Requests -> Batch \cup {None}]
  BY <1>1, <1>2, <1>3, <1>6 DEF StateTyped, Batch, Status
<1>8. StepOf(c) /\ SameTables
  BY <1>1, <1>2, <1>4, <1>5, <1>7 DEF StepOf, SameTables
<1>9. OwnBatch(c)'
  BY <1>5 DEF OwnBatch, Working, Applying
<1>10. FailedHasEvidence'
  BY <1>1, <1>2, <1>4, <1>6, <1>7 DEF FailedHasEvidence
<1>11. faults' \in [Callers -> Nat] /\ reply' \in [Callers -> Error \cup Status \cup {None}]
  BY <1>1 DEF FinalizeFailure, Fault, End, StateTyped, Error
<1>12. IsRows(catalog') /\ evidence' \subseteq Requests
  BY <1>1, <1>4 DEF StateTyped
<1> QED
  BY <1>1, <1>4, <1>7, <1>8, <1>9, <1>10, <1>11, <1>12, OutsideSafe

\* The reference rows.
LEMMA EnsureReferenceSafe ==
    ASSUME CatalogInv, NEW c \in Callers, EnsureReference(c)
    PROVE  CatalogInv'
<1>1. StateTyped /\ CallOK(c) /\ FailedHasEvidence /\ pc[c] = "refs"
  BY DEF CatalogInv, EnsureReference
<1>2. /\ UNCHANGED <<batch, evidence, catalog, doc, faults>>
      /\ position[c] \in RefKeys /\ doc[c] # None /\ IsRows(work[c]) /\ IsRows(catalog)
      /\ work[c].insts = <<>> /\ work[c].ids = <<>> /\ work[c].specs = <<>>
      /\ work = [e \in Callers |-> work[e]]
  BY <1>1 DEF EnsureReference, CallOK, PositionOK, CallTyped, StateTyped, Applying
<1>3. ASSUME Conflict(c), UNCHANGED position
      PROVE  CatalogInv'
  BY <1>1, <1>2, <1>3, ConflictSafe
<1>4. ASSUME ReferenceLock(c), NEW rows, rows.insts = <<>>, rows.ids = <<>>, rows.specs = <<>>,
             Write(c, rows), Reached(c, position[c], References, "refs", "symbol"),
             UNCHANGED reply
      PROVE  CatalogInv'
  <2>1. IsTable(<<>>)
    BY NothingIsRows DEF IsRows
  <2>2. /\ work'[c].insts = <<>> /\ work'[c].ids = <<>> /\ work'[c].specs = <<>>
        /\ IsRows(work'[c]) /\ work' = [work EXCEPT ![c] = work'[c]]
        /\ \A e \in Callers \ {c} : work'[e] = work[e]
    <3>1. work'[c] = Merge(rows, work[c])
      BY <1>2, <1>4 DEF Write
    <3>2. /\ IsRows(work'[c]) /\ work'[c].insts = Overlay(<<>>, <<>>)
          /\ work'[c].ids = Overlay(<<>>, <<>>) /\ work'[c].specs = Overlay(<<>>, <<>>)
      BY <1>2, <1>4, <3>1, MergedRows
    <3>3. /\ work' = [work EXCEPT ![c] = work'[c]]
          /\ \A e \in Callers \ {c} : work'[e] = work[e]
      BY <1>2, <1>4 DEF Write
    <3> QED
      BY <2>1, <3>2, <3>3, OverlayNothing
  <2>3. Lock(c, <<"ref", position[c]>>)
    BY <1>4 DEF ReferenceLock
  <2>4. CASE position[c] = References
    <3>1. Goto(c, "symbol") /\ position' = [position EXCEPT ![c] = 1]
      BY <1>4, <2>4 DEF Reached
    <3>2. 1 \in DOMAIN Manifest(c).items
      <4>1. ValidManifest(Manifest(c))
        BY <1>1, <1>2, RequestTyped
      <4> QED
        BY <4>1 DEF ValidManifest
    <3>3. /\ (View(c)').insts = catalog.insts /\ (View(c)').ids = catalog.ids
          /\ (View(c)').specs = catalog.specs
      <4>1. View(c)' = Merge(work'[c], catalog)
        BY <1>2 DEF View
      <4>2. /\ (View(c)').insts = Overlay(<<>>, catalog.insts)
            /\ (View(c)').ids = Overlay(<<>>, catalog.ids)
            /\ (View(c)').specs = Overlay(<<>>, catalog.specs)
        BY <1>2, <2>2, <4>1, MergedRows
      <4>3. IsTable(catalog.insts) /\ IsTable(catalog.ids) /\ IsTable(catalog.specs)
        BY <1>2 DEF IsRows
      <4> QED
        BY <4>2, <4>3, OverlayNothing
    <3>4. \A i \in DOMAIN catalog.insts : i[1] # c
      BY <1>1 DEF CatalogInv, CreatedBySuccess
    <3>5. Sound(catalog.insts, catalog.ids, catalog.specs, {})
      BY DEF CatalogInv
    <3>6. ViewOK(c, "symbol", 1, Manifest(c).items[1], View(c)', catalog)
      BY <3>3, <3>4, <3>5, StartView
    <3>7. "symbol" \in Applying
      BY DEF Applying
    <3> QED
      BY <1>1, <1>2, <1>4, <2>2, <2>3, <2>4, <3>1, <3>2, <3>6, <3>7, AdvanceSafe
  <2>5. CASE position[c] # References
    <3>1. Goto(c, "refs") /\ position' = [position EXCEPT ![c] = position[c] + 1]
      BY <1>4, <2>5 DEF Reached
    <3>2. /\ pc'[c] = "refs" /\ position'[c] = position[c] + 1
          /\ locks'[c] = locks[c] \cup {<<"ref", position[c]>>}
          /\ \A e \in Callers \ {c} :
                pc'[e] = pc[e] /\ position'[e] = position[e] /\ locks'[e] = locks[e]
      BY <1>1, <2>3, <3>1 DEF Goto, Lock, StateTyped
    <3>3. position[c] \in Nat /\ position[c] + 1 \in RefKeys
      BY <1>2, <2>5, CatalogConstants DEF RefKeys
    <3>4. StepOf(c) /\ SameTables
      BY <1>1, <1>2, <2>2, <3>2 DEF StepOf, SameTables
    <3>5. LocksFree(c)
      BY <2>3, <3>2 DEF LocksFree, Lock
    <3>6. StateTyped'
      <4>1. work' = [e \in Callers |-> work'[e]] /\ locks' = [e \in Callers |-> locks'[e]]
        BY <1>1, <2>2, <2>3 DEF StateTyped, Lock
      <4>2. position' \in [Callers -> Nat]
        BY <1>1, <3>1, <3>3 DEF StateTyped
      <4>3. pc' \in [Callers -> Place]
        BY <1>1, <3>1 DEF StateTyped, Goto, Place
      <4> QED
        BY <1>1, <1>2, <1>4, <4>1, <4>2, <4>3 DEF StateTyped
    <3>7. CallOK(c)'
      <4>1. CallTyped(c)'
        BY <1>1, <1>2, <2>2, <3>2 DEF CallOK, CallTyped, Applying
      <4>2. OwnBatch(c)'
        BY <1>1, <1>2, <3>2 DEF CallOK, OwnBatch, Working, Applying, Request
      <4>3. PositionOK(c)'
        BY <3>2, <3>3 DEF PositionOK, Applying
      <4>4. HoldsReferences(c)'
        <5> SUFFICES ASSUME NEW k \in RefKeys, k < position[c] + 1
                     PROVE  <<"ref", k>> \in locks'[c]
          BY <3>2 DEF HoldsReferences, Applying, RefKeys
        <5>1. k = position[c] \/ k < position[c]
          BY <3>3 DEF RefKeys
        <5> QED
          BY <1>1, <3>2, <5>1 DEF CallOK, HoldsReferences
      <4> QED
        BY <4>1, <4>2, <4>3, <4>4 DEF CallOK
    <3>8. OpenOK(c)' /\ FailedHasEvidence'
      BY <1>1, <1>2, <3>2 DEF OpenOK, Applying, FailedHasEvidence
    <3> QED
      BY <3>4, <3>5, <3>6, <3>7, <3>8, StepSafe
  <2> QED
    BY <2>4, <2>5
<1>5. ASSUME NEW row
      PROVE  LET rows == [Nothing EXCEPT !.refs = row]
             IN  rows.insts = <<>> /\ rows.ids = <<>> /\ rows.specs = <<>>
  BY DEF Nothing
<1> QED
  BY <1>3, <1>4, <1>5 DEF EnsureReference

\* The item of an open transaction C.
LEMMA ItemValid ==
    ASSUME CatalogInv, NEW c \in Callers, pc[c] \in Applying
    PROVE  /\ doc[c] # None /\ position[c] \in Nat /\ position[c] \in DOMAIN Manifest(c).items
           /\ Item(c) = Manifest(c).items[position[c]] /\ ValidDefinition(Item(c))
           /\ ValidManifest(Manifest(c))
<1>1. StateTyped /\ CallOK(c)
  BY DEF CatalogInv
<1>2. doc[c] # None
  BY <1>1 DEF CallOK, CallTyped, Applying
<1>3. ValidManifest(Manifest(c))
  BY <1>1, <1>2, RequestTyped
<1>4. position[c] \in DOMAIN Manifest(c).items
  BY <1>1 DEF CallOK, PositionOK
<1>5. position[c] \in Nat
  BY <1>1 DEF StateTyped
<1> QED
  BY <1>2, <1>3, <1>4, <1>5 DEF Item, ValidManifest

\* A call that goes on with the same item after writing rows, or none.
LEMMA WriteSafe ==
    ASSUME CatalogInv, NEW c \in Callers, NEW next \in Applying, NEW key,
           pc[c] \in Applying, Goto(c, next), Lock(c, key), position' = position,
           work' = [work EXCEPT ![c] = work'[c]], IsRows(work'[c]),
           UNCHANGED <<batch, evidence, catalog, doc, faults, reply>>,
           ViewOK(c, next, position[c], Item(c), View(c)', catalog)
    PROVE  CatalogInv'
<1>1. position[c] \in DOMAIN Manifest(c).items /\ Item(c) = Manifest(c).items[position[c]]
  BY ItemValid
<1>2. position' = [position EXCEPT ![c] = position[c]]
  BY DEF CatalogInv, StateTyped
<1> QED
  BY <1>1, <1>2, AdvanceSafe

\* ... with nothing written.
LEMMA MoveSafe ==
    ASSUME CatalogInv, NEW c \in Callers, NEW next \in Applying, NEW key,
           pc[c] \in Applying, Goto(c, next), Lock(c, key),
           UNCHANGED <<work, position, batch, evidence, catalog, doc, faults, reply>>,
           ViewOK(c, next, position[c], Item(c), View(c), catalog)
    PROVE  CatalogInv'
<1>1. IsRows(work'[c]) /\ work' = [work EXCEPT ![c] = work'[c]]
  BY DEF CatalogInv, StateTyped, CallOK, CallTyped
<1>2. View(c)' = View(c)
  BY DEF View
<1> QED
  BY <1>1, <1>2, WriteSafe

\* The lock of a symbol.
LEMMA LockSymbolSafe ==
    ASSUME CatalogInv, NEW c \in Callers, LockSymbol(c)
    PROVE  CatalogInv'
<1>1. pc[c] = "symbol" /\ pc[c] \in Applying /\ "isin" \in Applying
  BY DEF LockSymbol, Applying
<1>2. ViewOK(c, "symbol", position[c], Item(c), View(c), catalog)
  BY <1>1 DEF CatalogInv, OpenOK
<1>3. position[c] \in Nat
  BY <1>1, ItemValid
<1>4. ViewOK(c, "isin", position[c], Item(c), View(c), catalog)
  BY <1>2, <1>3, MoveView
<1> QED
  BY <1>1, <1>4, MoveSafe DEF LockSymbol

\* What transaction C reads, as tables.
LEMMA ViewRows ==
    ASSUME CatalogInv, NEW c \in Callers
    PROVE  /\ IsRows(View(c)) /\ IsRows(work[c]) /\ IsRows(catalog)
           /\ work = [e \in Callers |-> work[e]]
           /\ IsTable(View(c).insts) /\ IsTable(View(c).ids) /\ IsTable(View(c).specs)
<1>1. IsRows(work[c]) /\ IsRows(catalog) /\ work = [e \in Callers |-> work[e]]
  BY DEF CatalogInv, StateTyped, CallOK, CallTyped
<1>2. IsRows(View(c))
  BY <1>1, MergedRows DEF View
<1> QED
  BY <1>1, <1>2 DEF IsRows

\* The writes of transaction C are its own.
LEMMA WritesOwn ==
    ASSUME NEW c \in Callers, NEW rows, work = [e \in Callers |-> work[e]], Write(c, rows)
    PROVE  work' = [work EXCEPT ![c] = work'[c]]
BY DEF Write

\* apply_instrument up to the rename.
LEMMA ResolveInstrumentSafe ==
    ASSUME CatalogInv, NEW c \in Callers, ResolveInstrument(c)
    PROVE  CatalogInv'
<1> DEFINE d == Item(c)
           n == position[c]
           v == View(c)
           isinOwner == OwnerAt(v.ids, "ISIN", d.isin, d.from)
           symbolOwner == OwnerAt(v.ids, "BRSAPI_L18", d.symbol, d.from)
<1>1. /\ pc[c] = "isin" /\ pc[c] \in Applying /\ "rename" \in Applying /\ "specify" \in Applying
      /\ UNCHANGED <<batch, evidence, catalog, doc, position, faults>>
  BY DEF ResolveInstrument, Applying
<1>2. ViewOK(c, "isin", n, d, v, catalog)
  BY <1>1 DEF CatalogInv, OpenOK
<1>3. n \in Nat /\ ValidDefinition(d)
  BY <1>1, ItemValid
<1>4. ASSUME Conflict(c) \/ Refuse(c)
      PROVE  CatalogInv'
  BY <1>1, <1>4, ConflictSafe
<1>5. ASSUME ~Overlaps(v.ids, "ISIN", d.isin, d.from),
             ~Overlaps(v.ids, "BRSAPI_L18", d.symbol, d.from),
             Lock(c, <<"ISIN", d.isin>>), Write(c, NewInstrument(c, <<c, n>>)),
             Goto(c, "specify"), UNCHANGED reply
      PROVE  CatalogInv'
  <2> DEFINE i == <<c, n>>
             rows == NewInstrument(c, i)
             open == [to |-> Forever, owner |-> i]
             a == <<"ISIN", d.isin, d.from>>
             b == <<"BRSAPI_L18", d.symbol, d.from>>
             w == View(c)'
  <2>1. /\ rows.insts = Row(i, Instrument(d)) /\ rows.specs = <<>>
        /\ rows.ids = Overlay(Row(a, open), Row(b, open))
    BY DEF NewInstrument, Nothing
  <2> HIDE DEF rows
  <2>2. Write(c, rows)
    BY <1>5 DEF rows
  <2>3. /\ IsRows(work'[c]) /\ work' = [work EXCEPT ![c] = work'[c]]
        /\ w.insts = Overlay(rows.insts, v.insts)
        /\ w.ids = Overlay(rows.ids, v.ids)
        /\ w.specs = Overlay(rows.specs, v.specs)
    BY <1>1, <2>2, ViewRows, ReadsItsWrites, WritesOwn
  <2>4. w.specs = v.specs
    BY <2>1, <2>3, ViewRows, OverlayNothing
  <2>5. d.from \in 0..(Forever - 1)
    BY <1>3 DEF ValidDefinition
  <2> HIDE DEF d, n, v, w, i, open, a, b
  <2>6. ViewOK(c, "specify", n, d, w, catalog)
    <3>1. i = <<c, n>> /\ open = [to |-> Forever, owner |-> i]
          /\ a = <<"ISIN", d.isin, d.from>> /\ b = <<"BRSAPI_L18", d.symbol, d.from>>
      BY DEF i, open, a, b
    <3>2. w.insts = Overlay(Row(i, Instrument(d)), v.insts)
          /\ w.ids = Overlay(Overlay(Row(a, open), Row(b, open)), v.ids)
      BY <2>1, <2>3
    <3> QED
      BY <1>2, <1>3, <1>5, <2>4, <2>5, <3>1, <3>2, CreateView
  <2> QED
    BY <1>1, <1>5, <2>3, <2>6, WriteSafe DEF n, d, w
<1>6. ASSUME isinOwner # None, symbolOwner # None \/ d.previous # None,
             Lock(c, <<"ISIN", d.isin>>),
             Goto(c, IF symbolOwner = None THEN "rename" ELSE "specify"),
             UNCHANGED <<work, reply>>
      PROVE  CatalogInv'
  <2>1. PICK next \in {"rename", "specify"} :
          Goto(c, next) /\ (next = "rename" => symbolOwner = None)
    BY <1>6
  <2>2. IsinRows(v, d) # {}
    BY <1>6 DEF IsinRows, OwnerAt
  <2>3. next = "rename" => d.rename # None
    BY <1>3, <1>6, <2>1 DEF ValidDefinition
  <2>4. ViewOK(c, next, n, d, v, catalog)
    BY <1>2, <1>3, <2>2, <2>3, MoveView
  <2> QED
    BY <1>1, <1>6, <2>1, <2>4, MoveSafe
<1>7. CreateInstrument(c) => CatalogInv'
  BY <1>4, <1>5 DEF CreateInstrument
<1> QED
  BY <1>4, <1>6, <1>7 DEF ResolveInstrument

\* _apply_rename.
LEMMA RenameSafe ==
    ASSUME CatalogInv, NEW c \in Callers, Rename(c)
    PROVE  CatalogInv'
<1> DEFINE d == Item(c)
           n == position[c]
           v == View(c)
           i == ItemOwner(c)
           old == ActiveRows(v.ids, "BRSAPI_L18", d.previous, d.rename)
           mine == {k \in old : v.ids[k].owner = i /\ k[3] < d.rename}
<1>1. /\ pc[c] = "rename" /\ pc[c] \in Applying /\ "specify" \in Applying
      /\ UNCHANGED <<batch, evidence, catalog, doc, position, faults>>
  BY DEF Rename, Applying
<1>2. ViewOK(c, "rename", n, d, v, catalog)
  BY <1>1 DEF CatalogInv, OpenOK
<1>3. n \in Nat /\ ValidDefinition(d)
  BY <1>1, ItemValid
<1>4. d.rename \in 0..(Forever - 1)
  BY <1>2, <1>3, ForeverTyped DEF ViewOK, ValidDefinition
<1>5. ASSUME Conflict(c) \/ Refuse(c)
      PROVE  CatalogInv'
  BY <1>1, <1>5, ConflictSafe
<1>6. ASSUME Lock(c, <<"BRSAPI_L18", d.previous>>), Goto(c, "specify"),
             UNCHANGED <<work, reply>>
      PROVE  CatalogInv'
  <2>1. ViewOK(c, "specify", n, d, v, catalog)
    BY <1>2, <1>3, MoveView
  <2> QED
    BY <1>1, <1>6, <2>1, MoveSafe
<1>7. ASSUME NEW k \in mine, Closable(v.ids, k),
             ~Overlaps(v.ids, "BRSAPI_L18", d.symbol, d.rename),
             Lock(c, <<"BRSAPI_L18", d.previous>>), Write(c, RenameRows(c, k)),
             Goto(c, "specify"), UNCHANGED reply
      PROVE  CatalogInv'
  <2> DEFINE rows == RenameRows(c, k)
             open == [to |-> Forever, owner |-> i]
             closed == [to |-> d.rename, owner |-> i]
             inst == [v.insts[i] EXCEPT !.symbol = d.symbol]
             b == <<"BRSAPI_L18", d.symbol, d.rename>>
             w == View(c)'
  <2>1. /\ rows.insts = Row(i, inst) /\ rows.specs = <<>>
        /\ rows.ids = Overlay(Row(k, closed), Row(b, open))
    BY DEF RenameRows, Nothing
  <2> HIDE DEF rows
  <2>2. Write(c, rows)
    BY <1>7 DEF rows
  <2>3. /\ IsRows(work'[c]) /\ work' = [work EXCEPT ![c] = work'[c]]
        /\ w.insts = Overlay(rows.insts, v.insts)
        /\ w.ids = Overlay(rows.ids, v.ids)
        /\ w.specs = Overlay(rows.specs, v.specs)
    BY <1>1, <2>2, ViewRows, ReadsItsWrites, WritesOwn
  <2>4. w.specs = v.specs
    BY <2>1, <2>3, ViewRows, OverlayNothing
  <2>5. IsSymbolOf(v.ids, i, k) /\ k[3] < d.rename /\ v.ids[k].to = Forever
    BY <1>7 DEF ActiveRows, IsSymbolOf, Closable
  <2>6. i = OwnerAt(v.ids, "ISIN", d.isin, d.from)
    BY DEF ItemOwner
  <2> HIDE DEF d, n, v, w, i, open, closed, inst, b, old, mine
  <2>7. ViewOK(c, "specify", n, d, w, catalog)
    <3>1. /\ open = [to |-> Forever, owner |-> i] /\ closed = [to |-> d.rename, owner |-> i]
          /\ inst = [v.insts[i] EXCEPT !.symbol = d.symbol]
          /\ b = <<"BRSAPI_L18", d.symbol, d.rename>>
      BY DEF open, closed, inst, b
    <3>2. w.insts = Overlay(Row(i, inst), v.insts)
          /\ w.ids = Overlay(Overlay(Row(k, closed), Row(b, open)), v.ids)
      BY <2>1, <2>3
    <3> QED
      BY <1>2, <1>3, <1>4, <1>7, <2>4, <2>5, <2>6, <3>1, <3>2, RenameView
  <2> QED
    BY <1>1, <1>7, <2>3, <2>7, WriteSafe DEF n, d, w
<1> QED
  BY <1>5, <1>6, <1>7 DEF Rename

\* _apply_specification, and the next item or the end of the items.
LEMMA SpecifySafe ==
    ASSUME CatalogInv, NEW c \in Callers, Specify(c)
    PROVE  CatalogInv'
<1> DEFINE d == Item(c)
           n == position[c]
           v == View(c)
           i == ItemOwner(c)
           rows == SpecificationRows(v.specs, i, d)
           w == View(c)'
<1>1. /\ pc[c] = "specify" /\ pc[c] \in Applying
      /\ UNCHANGED <<batch, evidence, catalog, doc, faults>>
  BY DEF Specify, Applying
<1>2. ViewOK(c, "specify", n, d, v, catalog)
  BY <1>1 DEF CatalogInv, OpenOK
<1>3. /\ n \in Nat /\ n \in DOMAIN Manifest(c).items
      /\ ValidDefinition(d) /\ ValidManifest(Manifest(c))
  BY <1>1, ItemValid
<1>4. ASSUME Conflict(c), UNCHANGED position
      PROVE  CatalogInv'
  BY <1>1, <1>4, ConflictSafe
<1>5. ASSUME rows # None, Lock(c, <<"spec", i>>), Write(c, rows),
             Reached(c, n, Len(Manifest(c).items), "symbol", "commit"), UNCHANGED reply
      PROVE  CatalogInv'
  <2>1. /\ IsRows(work'[c]) /\ work' = [work EXCEPT ![c] = work'[c]]
        /\ w.insts = Overlay(rows.insts, v.insts)
        /\ w.ids = Overlay(rows.ids, v.ids)
        /\ w.specs = Overlay(rows.specs, v.specs)
    BY <1>1, <1>5, ViewRows, ReadsItsWrites, WritesOwn
  <2>2. rows.insts = <<>> /\ rows.ids = <<>>
    <3>1. rows = SpecificationRows(v.specs, i, d)
      OBVIOUS
    <3> HIDE DEF rows, v, i, d
    <3> QED
      BY <1>5, <3>1, SpecificationOnly
  <2>3. w.insts = v.insts /\ w.ids = v.ids /\ IsTable(v.specs)
    BY <2>1, <2>2, ViewRows, OverlayNothing
  <2>4. i = OwnerAt(v.ids, "ISIN", d.isin, d.from) /\ d.specFrom \in 0..(Forever - 1)
    BY <1>3 DEF ItemOwner, ValidDefinition
  <2>5. PICK m \in Nat, next \in {"commit", "symbol"} :
          /\ m \in DOMAIN Manifest(c).items /\ Goto(c, next)
          /\ position' = [position EXCEPT ![c] = m]
          /\ next = "symbol" => m = n + 1
    <3>1. /\ Len(Manifest(c).items) \in Nat \ {0}
          /\ DOMAIN Manifest(c).items = 1..Len(Manifest(c).items)
      BY <1>3 DEF ValidManifest
    <3>2. CASE n = Len(Manifest(c).items)
      <4>1. Goto(c, "commit") /\ position' = [position EXCEPT ![c] = 1]
        BY <1>5, <3>2 DEF Reached
      <4>2. 1 \in DOMAIN Manifest(c).items
        BY <3>1
      <4> QED
        BY <4>1, <4>2
    <3>3. CASE n # Len(Manifest(c).items)
      <4>1. n + 1 \in DOMAIN Manifest(c).items
        BY <1>3, <3>1, <3>3
      <4>2. Goto(c, "symbol") /\ position' = [position EXCEPT ![c] = n + 1]
        BY <1>5, <3>3 DEF Reached
      <4>3. n + 1 \in Nat
        BY <1>3
      <4> QED
        BY <4>1, <4>2, <4>3
    <3> QED
      BY <3>2, <3>3
  <2>6. next \in Applying
    BY DEF Applying
  <2>7. rows = SpecificationRows(v.specs, i, d)
    OBVIOUS
  <2> HIDE DEF d, n, v, w, i, rows
  <2>8. ViewOK(c, next, m, Manifest(c).items[m], w, catalog)
    <3>1. PICK e : e = Manifest(c).items[m]
      OBVIOUS
    <3>2. PICK x : x = w
      OBVIOUS
    <3>3. PICK committed : committed = catalog
      OBVIOUS
    <3>4. /\ x.insts = v.insts /\ x.ids = v.ids /\ x.specs = Overlay(rows.specs, v.specs)
          /\ ViewOK(c, "specify", n, d, v, committed) /\ n \in Nat
          /\ next = "commit" \/ (next = "symbol" /\ m = n + 1)
      BY <1>2, <1>3, <2>1, <2>3, <2>5, <3>2, <3>3
    <3>5. Specifies(c, n, d, v, x, committed, i, rows)
      BY <1>5, <2>3, <2>4, <2>7, <3>4 DEF Specifies
    <3>6. ViewOK(c, next, m, e, x, committed)
      BY <2>5, <3>4, <3>5, SpecifyView
    <3> QED
      BY <3>1, <3>2, <3>3, <3>6
  <2> QED
    BY <1>1, <1>5, <2>1, <2>5, <2>6, <2>8, AdvanceSafe DEF w
<1> QED
  BY <1>4, <1>5 DEF Specify

\* One call at most is behind the reference rows.
LEMMA OneApplies ==
    ASSUME CatalogInv, NEW c \in Callers, NEW e \in Callers, pc[c] \in Applying, e # c
    PROVE  pc[e] \notin Applying
<1>1. Provider \in RefKeys
  BY CatalogConstants
<1>2. /\ CallOK(c) /\ CallOK(e) /\ ReferencesExclusive
  BY DEF CatalogInv
<1>3. <<"ref", Provider>> \in locks[c]
  BY <1>1, <1>2 DEF CallOK, HoldsReferences
<1>4. pc[e] \in Applying => <<"ref", Provider>> \in locks[e]
  BY <1>1, <1>2 DEF CallOK, HoldsReferences
<1> QED
  BY <1>1, <1>2, <1>3, <1>4 DEF ReferencesExclusive

\* The commit of transaction C.
LEMMA CommitSafe ==
    ASSUME CatalogInv, NEW c \in Callers, CommitCatalog(c)
    PROVE  CatalogInv'
<1>1. StateTyped /\ CallOK(c) /\ FailedHasEvidence /\ pc[c] = "commit" /\ pc[c] \in Applying
  BY DEF CatalogInv, CommitCatalog, Applying
<1>2. /\ doc[c] # None /\ Request(c) \in evidence
      /\ batch[Request(c)] = [status |-> "RUNNING", owner |-> c]
  BY <1>1 DEF CallOK, CallTyped, OwnBatch, Working
<1>3. Request(c) \in Requests
  BY <1>1, <1>2, RequestTyped
<1>4. /\ UNCHANGED <<evidence, doc, position>> /\ Goto(c, "done") /\ RollBack(c)
      /\ catalog' = View(c) /\ batch' = [batch EXCEPT ![Request(c)].status = "SUCCEEDED"]
  BY DEF CommitCatalog, End
<1>5. /\ pc'[c] = "done" /\ work'[c] = Nothing /\ locks'[c] = {}
      /\ \A e \in Callers \ {c} :
            pc'[e] = pc[e] /\ work'[e] = work[e] /\ locks'[e] = locks[e]
  BY <1>1, <1>4 DEF Goto, RollBack, StateTyped
<1>6. /\ batch'[Request(c)] = [status |-> "SUCCEEDED", owner |-> c]
      /\ \A r \in Requests : r # Request(c) => batch'[r] = batch[r]
      /\ batch' \in [Requests -> Batch \cup {None}]
  BY <1>1, <1>2, <1>3, <1>4 DEF StateTyped, Batch, Status
<1>7. StepOf(c)
  BY <1>1, <1>2, <1>4, <1>5, <1>6 DEF StepOf
<1>8. ViewOK(c, "commit", position[c], Item(c), View(c), catalog)
  BY <1>1 DEF CatalogInv, OpenOK
<1>9. StateTyped'
  <2>1. IsRows(catalog')
    BY <1>4, ViewRows
  <2>2. faults' \in [Callers -> Nat] /\ reply' \in [Callers -> Error \cup Status \cup {None}]
    BY <1>1 DEF CommitCatalog, Fault, End, StateTyped, Error, Status
  <2>3. pc' \in [Callers -> Place]
    BY <1>1, <1>4 DEF StateTyped, Goto, Place
  <2>4. work' = [e \in Callers |-> work'[e]] /\ locks' = [e \in Callers |-> locks'[e]]
    BY <1>1, <1>4 DEF StateTyped, RollBack
  <2> QED
    BY <1>1, <1>4, <1>6, <2>1, <2>2, <2>3, <2>4 DEF StateTyped
<1>10. CallOK(c)'
  <2>1. CallTyped(c)'
    BY <1>1, <1>2, <1>4, <1>5, NothingIsRows DEF CallOK, CallTyped, Applying
  <2>2. OwnBatch(c)' /\ PositionOK(c)' /\ HoldsReferences(c)'
    BY <1>5 DEF OwnBatch, PositionOK, HoldsReferences, Working, Applying
  <2> QED
    BY <2>1, <2>2 DEF CallOK
<1>11. \A e \in Callers : CallOK(e)'
  BY <1>7, <1>10, OthersKept
<1>12. \A e \in Callers : OpenOK(e)'
  <2>1. \A e \in Callers : pc'[e] \notin Applying
    BY <1>1, <1>5, OneApplies DEF Applying
  <2> QED
    BY <2>1 DEF OpenOK
<1>13. ReferencesExclusive'
  <2>1. LocksFree(c)
    BY <1>5 DEF LocksFree
  <2> QED
    BY <1>7, <2>1, ExclusiveKept
<1>14. CreatedBySuccess'
  <2> SUFFICES ASSUME NEW i \in DOMAIN catalog'.insts
               PROVE  /\ i[1] \in Callers /\ pc'[i[1]] = "done"
                      /\ batch'[Request(i[1])'] = [status |-> "SUCCEEDED", owner |-> i[1]]
                      /\ Request(i[1])' \in evidence'
    BY DEF CreatedBySuccess
  <2>1. i \in DOMAIN catalog.insts \/ i[1] = c
    BY <1>4, <1>8 DEF ViewOK, CreatedSoFar
  <2>2. CASE i \in DOMAIN catalog.insts
    BY <1>7, <2>2, CreatedKept
  <2>3. CASE i[1] = c
    BY <1>2, <1>4, <1>5, <1>6, <2>3 DEF Request
  <2> QED
    BY <2>1, <2>2, <2>3
<1>15. FailedHasEvidence'
  BY <1>1, <1>2, <1>4, <1>6 DEF FailedHasEvidence
<1>16. Sound(catalog.insts, catalog.ids, catalog.specs, {})'
  BY <1>4, <1>8 DEF ViewOK
<1> QED
  BY <1>9, <1>11, <1>12, <1>13, <1>14, <1>15, <1>16 DEF CatalogInv

\* The empty database.
LEMMA InitSafe == Init => CatalogInv
<1> SUFFICES ASSUME Init PROVE CatalogInv
  OBVIOUS
<1>1. DOMAIN <<>> = {}
  OBVIOUS
<1>2. DOMAIN catalog.insts = {} /\ DOMAIN catalog.ids = {} /\ DOMAIN catalog.specs = {}
  BY <1>1 DEF Init, Nothing
<1>3. StateTyped
  BY NothingIsRows DEF Init, StateTyped, Place
<1>4. ASSUME NEW c \in Callers
      PROVE  CallOK(c) /\ OpenOK(c)
  <2>1. pc[c] = "idle" /\ doc[c] = None /\ position[c] = 1 /\ work[c] = Nothing /\ locks[c] = {}
    BY DEF Init
  <2> QED
    BY <2>1, NothingIsRows
    DEF CallOK, CallTyped, OwnBatch, PositionOK, HoldsReferences, OpenOK, Working, Applying
<1>5. ReferencesExclusive
  BY DEF Init, ReferencesExclusive
<1>6. CreatedBySuccess
  BY <1>2 DEF CreatedBySuccess
<1>7. FailedHasEvidence
  BY DEF Init, FailedHasEvidence
<1>8. Sound(catalog.insts, catalog.ids, catalog.specs, {})
  BY <1>2 DEF Sound, RowsTyped, Identified, OwnersAreUnique, Specified
<1> QED
  BY <1>3, <1>4, <1>5, <1>6, <1>7, <1>8 DEF CatalogInv

\* Every step keeps the invariant.
LEMMA NextSafe == CatalogInv /\ [Next]_vars => CatalogInv'
<1> SUFFICES ASSUME CatalogInv, [Next]_vars PROVE CatalogInv'
  OBVIOUS
<1>1. CASE UNCHANGED vars
  BY <1>1 DEF vars, CatalogInv, StateTyped, CallOK, CallTyped, OwnBatch, PositionOK,
     HoldsReferences, ReferencesExclusive, CreatedBySuccess, FailedHasEvidence, OpenOK,
     Request, Manifest, Item, View
<1>2. CASE Next
  <2>1. PICK c \in Callers : Proceed(c) \/ Fail(c) \/ \E d \in Documents[c] : Call(c, d)
    BY <1>2 DEF Next
  <2>2. CASE Fail(c)
    BY <2>2, FailSafe
  <2>3. CASE \E d \in Documents[c] : Call(c, d)
    BY <2>3, CallSafe
  <2>4. CASE Proceed(c)
    BY <2>4, BeginSafe, RecordEvidenceSafe, EnsureReferenceSafe, LockSymbolSafe,
       ResolveInstrumentSafe, RenameSafe, SpecifySafe, CommitSafe, FinalizeFailureSafe
    DEF Proceed
  <2> QED
    BY <2>1, <2>2, <2>3, <2>4
<1> QED
  BY <1>1, <1>2

\* The invariant of the catalog holds in every reachable state.
LEMMA CatalogInvariant == Spec => []CatalogInv
BY InitSafe, NextSafe, PTL DEF Spec

-----------------------------------------------------------------------------
(* The theorems *)

\* Type correctness: rows have a non-empty interval and refer to an instrument, and a
\* call has rows and locks only inside transaction C.
THEOREM TypeCorrect == Spec => []TypeOK
<1>1. CatalogInv => TypeOK
  <2> SUFFICES ASSUME CatalogInv PROVE TypeOK
    OBVIOUS
  <2>1. StateTyped /\ \A c \in Callers : CallTyped(c)
    BY DEF CatalogInv, CallOK
  <2>2. RowsTyped(catalog.insts, catalog.ids, catalog.specs)
    BY DEF CatalogInv, Sound
  <2>3. \A k \in DOMAIN catalog.ids :
           k[3] < catalog.ids[k].to /\ catalog.ids[k].owner \in DOMAIN catalog.insts
    BY <2>2, ForeverTyped DEF RowsTyped
  <2>4. \A k \in DOMAIN catalog.specs :
           k[2] < catalog.specs[k].to /\ k[1] \in DOMAIN catalog.insts
    <3> SUFFICES ASSUME NEW k \in DOMAIN catalog.specs
                 PROVE  k[2] < catalog.specs[k].to /\ k[1] \in DOMAIN catalog.insts
      OBVIOUS
    <3>1. /\ k[1] \in DOMAIN catalog.insts /\ k[2] \in Nat
          /\ catalog.specs[k].to \in (k[2] + 1)..Forever
      BY <2>2 DEF RowsTyped
    <3> QED
      BY <3>1, ForeverTyped
  <2> QED
    BY <2>1, <2>3, <2>4 DEF TypeOK, StateTyped, CallTyped, Applying
<1> QED
  BY <1>1, CatalogInvariant, PTL

\* Whatever the calls, their manifests, failures and order: the symbols of an instrument
\* are one chain of intervals, it has one ISIN for ever, and its specifications are one
\* chain that ends open.
THEOREM HistoriesChained == Spec => []HistoriesAreChains
<1>1. CatalogInv => HistoriesAreChains
  <2> SUFFICES ASSUME CatalogInv PROVE HistoriesAreChains
    OBVIOUS
  <2>1. /\ RowsTyped(catalog.insts, catalog.ids, catalog.specs)
        /\ Identified(catalog.insts, catalog.ids)
        /\ Specified(catalog.insts, catalog.specs, {})
    BY DEF CatalogInv, Sound
  <2>2. \A i, k : k \in Intervals(i) <=> IsSymbolOf(catalog.ids, i, k)
    BY DEF Intervals, IsSymbolOf
  <2>3. SymbolsAreAChain
    <3>1. ASSUME NEW i \in DOMAIN catalog.insts
          PROVE  /\ \E k \in Intervals(i) :
                       catalog.ids[k].to = Forever /\ k[2] = catalog.insts[i].symbol
                 /\ \A k, l \in Intervals(i) : k # l => catalog.ids[k].to # catalog.ids[l].to
                 /\ \A k \in Intervals(i) :
                       catalog.ids[k].to # Forever =>
                          \E l \in Intervals(i) : l[3] = catalog.ids[k].to
      <4>1. SymbolChain(catalog.ids, i, catalog.insts[i].symbol)
        BY <2>1 DEF Identified
      <4>2. \A k : IsSymbolOf(catalog.ids, i, k) => k \in DOMAIN catalog.ids
        BY DEF IsSymbolOf
      <4> QED
        BY <2>2, <4>1, <4>2 DEF SymbolChain
    <3> QED
      BY <2>1, <3>1 DEF SymbolsAreAChain, Identified, OwnersAreUnique
  <2>4. OneIsinPerInstrument
    <3>1. ASSUME NEW i \in DOMAIN catalog.insts,
                 NEW mine, mine = {k \in DOMAIN catalog.ids :
                                      k[1] = "ISIN" /\ catalog.ids[k].owner = i}
          PROVE  \E k \in mine :
                    /\ mine = {k} /\ catalog.ids[k].to = Forever
                    /\ \A l \in DOMAIN catalog.ids : l[1] = "ISIN" /\ l[2] = k[2] => l = k
      <4>1. PICK k \in DOMAIN catalog.ids :
              /\ k[1] = "ISIN" /\ catalog.ids[k].owner = i /\ catalog.ids[k].to = Forever
              /\ \A l \in DOMAIN catalog.ids :
                    l[1] = "ISIN" /\ (catalog.ids[l].owner = i \/ l[2] = k[2]) => l = k
        BY <2>1 DEF Identified, IsinForEver
      <4>2. k \in mine /\ mine = {k}
        BY <3>1, <4>1
      <4> QED
        BY <4>1, <4>2
    <3> QED
      BY <3>1 DEF OneIsinPerInstrument
  <2>5. SpecificationsAreAChain
    <3>1. ASSUME NEW i \in DOMAIN catalog.insts,
                 NEW mine, mine = SpecRows(catalog.specs, i),
                 NEW last, last = LatestSpec(catalog.specs, i)
          PROVE  /\ mine # {} /\ catalog.specs[last].to = Forever
                 /\ \A k \in mine \ {last} :
                      \E l \in mine :
                        /\ l[2] = catalog.specs[k].to
                        /\ catalog.specs[l].spec # catalog.specs[k].spec
      <4>1. SpecChain(catalog.specs, i)
        BY <2>1 DEF Specified
      <4>2. PICK o \in mine :
              /\ catalog.specs[o].to = Forever
              /\ \A k \in mine \ {o} :
                    /\ k[2] < o[2]
                    /\ \E l \in mine :
                          /\ l[2] = catalog.specs[k].to
                          /\ catalog.specs[l].spec # catalog.specs[k].spec
        BY <3>1, <4>1 DEF SpecChain
      <4>3. \A k \in mine : k[2] \in Nat
        BY <2>1, <3>1 DEF RowsTyped, SpecRows
      <4>4. \A k \in mine : k[2] <= o[2]
        BY <4>2, <4>3
      <4>5. last \in mine /\ o[2] <= last[2]
        BY <3>1, <4>2, <4>4 DEF LatestSpec
      <4>6. last = o
        BY <4>2, <4>3, <4>5
      <4> QED
        BY <4>2, <4>6
    <3> QED
      BY <3>1 DEF SpecificationsAreAChain
  <2> QED
    BY <2>3, <2>4, <2>5 DEF HistoriesAreChains
<1> QED
  BY <1>1, CatalogInvariant, PTL

\* A batch that has ended stays as it is.
BatchesStay ==
    \A r \in Requests : batch[r] # None /\ batch[r].status # "RUNNING" => batch'[r] = batch[r]

\* What one step does to the committed rows and batches.
LEMMA StepContinues == CatalogInv /\ [Next]_vars => Continues(catalog', catalog) /\ BatchesStay
<1> SUFFICES ASSUME CatalogInv, [Next]_vars
             PROVE  Continues(catalog', catalog) /\ BatchesStay
  OBVIOUS
<1>1. Continues(catalog, catalog)
  BY DEF Continues
<1>2. batch \in [Requests -> Batch \cup {None}] /\ IsRows(catalog)
  BY DEF CatalogInv, StateTyped
<1>3. CASE UNCHANGED <<batch, catalog>>
  BY <1>1, <1>3 DEF BatchesStay
<1>4. ASSUME NEW c \in Callers, Begin(c)
      PROVE  Continues(catalog', catalog) /\ BatchesStay
  <2>1. CASE UNCHANGED <<batch, catalog>>
    BY <2>1, <1>3
  <2>2. CASE /\ ~Started(c)
             /\ batch' = [batch EXCEPT ![Request(c)] = [status |-> "RUNNING", owner |-> c]]
             /\ catalog' = [catalog EXCEPT !.refs =
                              Overlay(Row(Provider, Manifest(c).refs[Provider]), @)]
    <3>1. SameTables
      BY <1>2, <2>2 DEF SameTables, IsRows
    <3>2. Continues(catalog', catalog)
      BY <3>1 DEF Continues, SameTables
    <3>3. BatchesStay
      BY <1>2, <2>2 DEF BatchesStay, Started
    <3> QED
      BY <3>2, <3>3
  <2> QED
    BY <1>4, <2>1, <2>2 DEF Begin
<1>5. ASSUME NEW c \in Callers, FinalizeFailure(c)
      PROVE  Continues(catalog', catalog) /\ BatchesStay
  <2>1. catalog' = catalog
    BY <1>5 DEF FinalizeFailure
  <2>2. BatchesStay
    BY <1>2, <1>5 DEF BatchesStay, FinalizeFailure
  <2> QED
    BY <1>1, <2>1, <2>2
<1>6. ASSUME NEW c \in Callers, CommitCatalog(c)
      PROVE  Continues(catalog', catalog) /\ BatchesStay
  <2>1. pc[c] = "commit" /\ pc[c] \in Applying /\ catalog' = View(c)
    BY <1>6 DEF CommitCatalog, Applying
  <2>2. ViewOK(c, "commit", position[c], Item(c), View(c), catalog)
    BY <2>1 DEF CatalogInv, OpenOK
  <2>3. Continues(catalog', catalog)
    BY <2>1, <2>2 DEF ViewOK
  <2>4. BatchesStay
    BY <1>2, <1>6 DEF BatchesStay, CommitCatalog
  <2> QED
    BY <2>3, <2>4
<1>7. CASE Next
  <2>1. PICK c \in Callers : Proceed(c) \/ Fail(c) \/ \E d \in Documents[c] : Call(c, d)
    BY <1>7 DEF Next
  <2>2. \/ Begin(c) \/ FinalizeFailure(c) \/ CommitCatalog(c)
        \/ UNCHANGED <<batch, catalog>>
    BY <2>1 DEF Proceed, Fail, Call, RecordEvidence, EnsureReference, LockSymbol,
       ResolveInstrument, Rename, Specify
  <2> QED
    BY <1>3, <1>4, <1>5, <1>6, <2>2
<1> QED
  BY <1>3, <1>7 DEF vars

\* What has been resolved stays: a step only closes open intervals and adds rows, never
\* drops an instrument or its attributes, and leaves every final batch alone.
THEOREM AppendOnly == Spec => HistoryIsAppendOnly
<1>1. CatalogInv /\ [Next]_vars =>
        [/\ \A i \in DOMAIN catalog.insts :
               /\ i \in DOMAIN catalog.insts'
               /\ catalog.insts'[i].attributes = catalog.insts[i].attributes
         /\ \A k \in DOMAIN catalog.ids :
               /\ k \in DOMAIN catalog.ids'
               /\ catalog.ids'[k].owner = catalog.ids[k].owner
               /\ catalog.ids[k].to # Forever => catalog.ids'[k] = catalog.ids[k]
         /\ \A k \in DOMAIN catalog.specs :
               /\ k \in DOMAIN catalog.specs'
               /\ catalog.specs'[k].spec = catalog.specs[k].spec
               /\ catalog.specs[k].to # Forever => catalog.specs'[k] = catalog.specs[k]
         /\ \A r \in Requests :
               batch[r] # None /\ batch[r].status # "RUNNING" => batch'[r] = batch[r]]_vars
  BY StepContinues DEF Continues, BatchesStay
<1> QED
  BY <1>1, CatalogInvariant, PTL DEF Spec, HistoryIsAppendOnly

-----------------------------------------------------------------------------
(* What a succeeded bootstrap promises about its manifest *)

\* A manifest names every ISIN once.
IsinsNamedOnce ==
    \A m \in Manifests : \A a, b \in DOMAIN m.items :
        m.items[a].isin = m.items[b].isin => a = b

\* The instrument that a definition is about, by rows rather than by look-up.
Identifies(insts, ids, i, d) ==
    /\ i # None /\ i \in DOMAIN insts /\ insts[i].attributes = d.attributes
    /\ \E k \in ActiveRows(ids, "ISIN", d.isin, d.from) : ids[k].owner = i

Names(insts, ids, i, d) ==
    /\ Identifies(insts, ids, i, d)
    /\ \E time \in {d.from, d.rename} \ {None} :
          \E k \in ActiveRows(ids, "BRSAPI_L18", d.symbol, time) : ids[k].owner = i

\* The items that are done resolve, and the present one as far as it has come.
Resolved(place, n, items, insts, ids) ==
    /\ \A m \in DOMAIN items :
          place = "commit" \/ m < n => \E i : Names(insts, ids, i, items[m])
    /\ place = "rename" => \E i : Identifies(insts, ids, i, items[n])
    /\ place = "specify" => \E i : Names(insts, ids, i, items[n])

ResolvedOK(c) ==
    pc[c] \in Applying =>
        Resolved(pc[c], position[c], Manifest(c).items, View(c).insts, View(c).ids)

ResolvedInv == \A c \in Callers : ResolvedOK(c)

\* At most one row of an identifier is active at a time, so the look-up finds it.
LEMMA OwnerIs ==
    ASSUME NEW insts, NEW ids, NEW specs, NEW kind, NEW value, NEW time \in Nat,
           RowsTyped(insts, ids, specs), OwnersAreUnique(ids),
           NEW k \in ActiveRows(ids, kind, value, time)
    PROVE  OwnerAt(ids, kind, value, time) = ids[k].owner
<1> DEFINE l == CHOOSE r \in ActiveRows(ids, kind, value, time) : TRUE
<1>1. l \in ActiveRows(ids, kind, value, time)
  OBVIOUS
<1>2. OwnerAt(ids, kind, value, time) = ids[l].owner
  BY DEF OwnerAt
<1> HIDE DEF l
<1>3. /\ k \in DOMAIN ids /\ k[1] = kind /\ k[2] = value /\ k[3] <= time /\ time < ids[k].to
      /\ l \in DOMAIN ids /\ l[1] = kind /\ l[2] = value /\ l[3] <= time /\ time < ids[l].to
  BY <1>1 DEF ActiveRows
<1>4. k[3] \in Nat /\ l[3] \in Nat /\ ids[k].to \in Nat /\ ids[l].to \in Nat
  BY <1>3, ForeverTyped DEF RowsTyped
<1>5. k # l /\ k[3] <= l[3] => ids[k].to <= l[3]
  BY <1>3 DEF OwnersAreUnique
<1>6. k # l /\ l[3] <= k[3] => ids[l].to <= k[3]
  BY <1>3 DEF OwnersAreUnique
<1>7. k = l
  BY <1>3, <1>4, <1>5, <1>6
<1> QED
  BY <1>2, <1>7

\* A look-up that finds an instrument has found a row.
LEMMA OwnerHasRow ==
    ASSUME NEW ids, NEW kind, NEW value, NEW time, OwnerAt(ids, kind, value, time) # None
    PROVE  \E k \in ActiveRows(ids, kind, value, time) :
              ids[k].owner = OwnerAt(ids, kind, value, time)
BY DEF OwnerAt

\* Rows that stay keep what they name.
LEMMA NamesKept ==
    ASSUME NEW insts, NEW ids, NEW insts2, NEW ids2, NEW i, NEW d,
           Names(insts, ids, i, d),
           i \in DOMAIN insts2, insts2[i].attributes = insts[i].attributes,
           \A k \in DOMAIN ids : ids[k].owner = i => k \in DOMAIN ids2 /\ ids2[k] = ids[k]
    PROVE  Names(insts2, ids2, i, d)
<1>1. ASSUME NEW kind, NEW value, NEW time,
             NEW k \in ActiveRows(ids, kind, value, time), ids[k].owner = i
      PROVE  k \in ActiveRows(ids2, kind, value, time) /\ ids2[k].owner = i
  BY <1>1 DEF ActiveRows
<1>2. Identifies(insts2, ids2, i, d)
  BY <1>1 DEF Names, Identifies
<1>3. \E time \in {d.from, d.rename} \ {None} :
          \E k \in ActiveRows(ids2, "BRSAPI_L18", d.symbol, time) : ids2[k].owner = i
  BY <1>1 DEF Names
<1> QED
  BY <1>2, <1>3 DEF Names

\* Two ISINs never name one instrument.
LEMMA IsinsAreDistinct ==
    ASSUME NEW insts, NEW ids, NEW i, NEW d, NEW e, Identified(insts, ids),
           Identifies(insts, ids, i, d), Identifies(insts, ids, i, e)
    PROVE  d.isin = e.isin
<1>1. PICK k \in DOMAIN ids :
        \A l \in DOMAIN ids : l[1] = "ISIN" /\ (ids[l].owner = i \/ l[2] = k[2]) => l = k
  BY DEF Identified, IsinForEver, Identifies
<1>2. PICK a \in DOMAIN ids : a[1] = "ISIN" /\ a[2] = d.isin /\ ids[a].owner = i
  BY DEF Identifies, ActiveRows
<1>3. PICK b \in DOMAIN ids : b[1] = "ISIN" /\ b[2] = e.isin /\ ids[b].owner = i
  BY DEF Identifies, ActiveRows
<1>4. a = k /\ b = k
  BY <1>1, <1>2, <1>3
<1> QED
  BY <1>2, <1>3, <1>4

\* A transaction that a step leaves open resolves what it resolved.
LEMMA ResolvedKept ==
    ASSUME CatalogInv, SameTables, IsRows(catalog'), NEW e \in Callers, ResolvedOK(e),
           pc'[e] = pc[e], doc'[e] = doc[e], position'[e] = position[e], work'[e] = work[e]
    PROVE  ResolvedOK(e)'
<1> SUFFICES ASSUME pc'[e] \in Applying
             PROVE  Resolved(pc'[e], position'[e], Manifest(e)'.items,
                             (View(e)').insts, (View(e)').ids)
  BY DEF ResolvedOK
<1>2. Manifest(e)' = Manifest(e)
  BY DEF Manifest
<1>3. IsRows(catalog)
  BY DEF CatalogInv, StateTyped
<1>4. /\ View(e).insts = Overlay(work[e].insts, catalog.insts)
      /\ View(e).ids = Overlay(work[e].ids, catalog.ids)
  BY <1>3, MergedRows DEF View
<1>5. View(e)' = Merge(work[e], catalog')
  BY DEF View
<1>6. /\ (View(e)').insts = Overlay(work[e].insts, catalog'.insts)
      /\ (View(e)').ids = Overlay(work[e].ids, catalog'.ids)
  BY <1>5, MergedRows
<1>7. (View(e)').insts = View(e).insts /\ (View(e)').ids = View(e).ids
  BY <1>4, <1>6 DEF SameTables
<1> QED
  BY <1>2, <1>7 DEF ResolvedOK

\* The same for all other calls, when this one changes no committed row.
LEMMA OthersResolved ==
    ASSUME CatalogInv, ResolvedInv, NEW c \in Callers, StepOf(c), UNCHANGED catalog,
           ResolvedOK(c)'
    PROVE  ResolvedInv'
<1>1. IsRows(catalog') /\ SameTables
  BY DEF CatalogInv, StateTyped, SameTables
<1> QED
  BY <1>1, ResolvedKept DEF ResolvedInv, StepOf

\* Every action below the reference rows touches its own call only.
LEMMA ApplyingSteps ==
    ASSUME CatalogInv, NEW c \in Callers,
           \/ EnsureReference(c) \/ LockSymbol(c) \/ ResolveInstrument(c) \/ Rename(c)
           \/ Specify(c)
    PROVE  StepOf(c) /\ UNCHANGED catalog
<1>1. StateTyped
  BY DEF CatalogInv
<1>2. \A key : Lock(c, key) => \A e \in Callers \ {c} : locks'[e] = locks[e]
  BY <1>1 DEF Lock, StateTyped
<1>3. \A place : Goto(c, place) => \A e \in Callers \ {c} : pc'[e] = pc[e]
  BY <1>1 DEF Goto, StateTyped
<1>4. \A rows : Write(c, rows) => \A e \in Callers \ {c} : work'[e] = work[e]
  BY <1>1 DEF Write, StateTyped
<1>5. RollBack(c) => \A e \in Callers \ {c} : work'[e] = work[e] /\ locks'[e] = locks[e]
  BY <1>1 DEF RollBack, StateTyped
<1>6. \A n, last, again, next : Reached(c, n, last, again, next) =>
         \A e \in Callers \ {c} : pc'[e] = pc[e] /\ position'[e] = position[e]
  BY <1>1, <1>3 DEF Reached, StateTyped
<1>7. Conflict(c) \/ Refuse(c) => \A e \in Callers \ {c} :
         pc'[e] = pc[e] /\ work'[e] = work[e] /\ locks'[e] = locks[e]
  BY <1>3, <1>5 DEF Conflict, Refuse, End
<1>8. /\ pc[c] # "done" /\ UNCHANGED <<batch, evidence, catalog, doc>>
  BY DEF EnsureReference, LockSymbol, ResolveInstrument, Rename, Specify
<1>9. ASSUME NEW e \in Callers \ {c}
      PROVE  /\ pc'[e] = pc[e] /\ position'[e] = position[e]
             /\ work'[e] = work[e] /\ locks'[e] = locks[e]
  <2>1. CASE EnsureReference(c)
    BY <2>1, <1>2, <1>4, <1>6, <1>7 DEF EnsureReference, ReferenceLock
  <2>2. CASE LockSymbol(c)
    BY <2>2, <1>2, <1>3 DEF LockSymbol
  <2>3. CASE ResolveInstrument(c)
    <3>1. CreateInstrument(c) => pc'[e] = pc[e] /\ work'[e] = work[e] /\ locks'[e] = locks[e]
      BY <1>2, <1>3, <1>4, <1>7 DEF CreateInstrument
    <3> QED
      BY <2>3, <3>1, <1>2, <1>3, <1>7 DEF ResolveInstrument
  <2>4. CASE Rename(c)
    BY <2>4, <1>2, <1>3, <1>4, <1>7 DEF Rename
  <2>5. CASE Specify(c)
    BY <2>5, <1>2, <1>4, <1>6, <1>7 DEF Specify
  <2> QED
    BY <2>1, <2>2, <2>3, <2>4, <2>5
<1> QED
  BY <1>8, <1>9 DEF StepOf

\* A call that is behind no reference row has nothing to resolve.
LEMMA NothingToResolve ==
    ASSUME NEW c \in Callers, pc'[c] \notin Applying
    PROVE  ResolvedOK(c)'
BY DEF ResolvedOK

\* Where a conflict or a refused row leads.
LEMMA ConflictLeaves ==
    ASSUME CatalogInv, NEW c \in Callers, Conflict(c) \/ Refuse(c)
    PROVE  pc'[c] \notin Applying
BY DEF Conflict, Refuse, End, Goto, CatalogInv, StateTyped, Applying

\* The first item begins.
LEMMA EnsureReferenceResolves ==
    ASSUME CatalogInv, CatalogInv', NEW c \in Callers, EnsureReference(c)
    PROVE  ResolvedOK(c)'
<1>1. CASE Conflict(c)
  BY <1>1, ConflictLeaves, NothingToResolve
<1>2. CASE Reached(c, position[c], References, "refs", "symbol")
  <2> SUFFICES ASSUME pc'[c] \in Applying PROVE ResolvedOK(c)'
    BY NothingToResolve
  <2>1. StateTyped
    BY DEF CatalogInv
  <2>2. pc'[c] = "symbol" /\ position'[c] = 1
    BY <1>2, <2>1 DEF Reached, Goto, StateTyped, Applying
  <2>3. ValidManifest(Manifest(c)')
    <3>1. StateTyped' /\ doc'[c] # None
      BY <2>2 DEF CatalogInv, CallOK, CallTyped
    <3>2. doc'[c] \in Document /\ Manifest(c)' = doc'[c].manifest
      BY <3>1 DEF StateTyped, Manifest
    <3> QED
      BY <3>2, CatalogConstants DEF Document
  <2>4. \A m \in DOMAIN Manifest(c)'.items : ~(m < 1)
    BY <2>3 DEF ValidManifest
  <2> QED
    BY <2>2, <2>4 DEF ResolvedOK, Resolved
<1> QED
  BY <1>1, <1>2 DEF EnsureReference

\* The lock of a symbol changes nothing that is read.
LEMMA LockSymbolResolves ==
    ASSUME CatalogInv, NEW c \in Callers, ResolvedOK(c), LockSymbol(c)
    PROVE  ResolvedOK(c)'
<1>1. /\ pc[c] = "symbol" /\ pc'[c] = "isin" /\ pc[c] \in Applying
      /\ UNCHANGED <<catalog, doc, position, work>>
  BY DEF LockSymbol, Goto, CatalogInv, StateTyped, Applying
<1>2. View(c)' = View(c) /\ Manifest(c)' = Manifest(c)
  BY <1>1 DEF View, Manifest
<1> QED
  BY <1>1, <1>2 DEF ResolvedOK, Resolved

\* An instrument with the stated attributes is found by its ISIN, or created.
LEMMA ResolveInstrumentResolves ==
    ASSUME CatalogInv, NEW c \in Callers, ResolvedOK(c), ResolveInstrument(c)
    PROVE  ResolvedOK(c)'
<1> DEFINE d == Item(c)
           n == position[c]
           v == View(c)
           w == View(c)'
           items == Manifest(c).items
           isinOwner == OwnerAt(v.ids, "ISIN", d.isin, d.from)
           symbolOwner == OwnerAt(v.ids, "BRSAPI_L18", d.symbol, d.from)
<1>1. /\ pc[c] = "isin" /\ pc[c] \in Applying
      /\ UNCHANGED <<catalog, doc, position>>
      /\ Manifest(c)' = Manifest(c)
  BY DEF ResolveInstrument, Applying, Manifest
<1>2. ViewOK(c, "isin", n, d, v, catalog)
  BY <1>1 DEF CatalogInv, OpenOK
<1>3. n \in Nat /\ ValidDefinition(d) /\ d = items[n]
  BY <1>1, ItemValid
<1>4. d.from \in Nat /\ d.from < Forever /\ d.from # None
  BY <1>3, ForeverTyped, CatalogConstants DEF ValidDefinition
<1>5. \A m \in DOMAIN items : m < n => \E i : Names(v.insts, v.ids, i, items[m])
  BY <1>1 DEF ResolvedOK, Resolved
<1>6. CASE Conflict(c) \/ Refuse(c)
  BY <1>6, ConflictLeaves, NothingToResolve
<1>7. CASE /\ ~Overlaps(v.ids, "ISIN", d.isin, d.from)
           /\ ~Overlaps(v.ids, "BRSAPI_L18", d.symbol, d.from)
           /\ Write(c, NewInstrument(c, <<c, n>>)) /\ Goto(c, "specify")
  <2> DEFINE i == <<c, n>>
             rows == NewInstrument(c, i)
             open == [to |-> Forever, owner |-> i]
             a == <<"ISIN", d.isin, d.from>>
             b == <<"BRSAPI_L18", d.symbol, d.from>>
  <2>1. /\ rows.insts = Row(i, Instrument(d))
        /\ rows.ids = Overlay(Row(a, open), Row(b, open))
    BY DEF NewInstrument, Nothing
  <2> HIDE DEF rows
  <2>2. Write(c, rows)
    BY <1>7 DEF rows
  <2>3. w.insts = Overlay(rows.insts, v.insts) /\ w.ids = Overlay(rows.ids, v.ids)
    BY <1>1, <2>2, ViewRows, ReadsItsWrites
  <2>4. a # b /\ open.owner = i /\ open.to = Forever
    OBVIOUS
  <2>5. i \notin DOMAIN v.insts
    BY <1>2, <1>3 DEF ViewOK, CreatedSoFar
  <2>6. i # None
    BY <1>3, CatalogConstants
  <2> HIDE DEF v, w, items, open
  <2>7. /\ DOMAIN w.insts = DOMAIN v.insts \cup {i}
        /\ w.insts[i] = Instrument(d)
        /\ \A j \in DOMAIN v.insts : w.insts[j] = v.insts[j]
    BY <2>1, <2>3, <2>5 DEF Overlay, Row
  <2>8. /\ DOMAIN w.ids = DOMAIN v.ids \cup {a, b}
        /\ w.ids[a] = open /\ w.ids[b] = open
        /\ \A k \in DOMAIN v.ids : k \notin {a, b} => w.ids[k] = v.ids[k]
    BY <2>1, <2>3, <2>4 DEF Overlay, Row
  <2>9. a \notin DOMAIN v.ids /\ b \notin DOMAIN v.ids
    <3>1. \A k \in DOMAIN v.ids : k[3] \in Nat /\ v.ids[k].to \in Nat /\ k[3] < v.ids[k].to
      BY <1>2, ForeverTyped DEF ViewOK, Sound, RowsTyped
    <3>2. a[1] = "ISIN" /\ a[2] = d.isin /\ a[3] = d.from
          /\ b[1] = "BRSAPI_L18" /\ b[2] = d.symbol /\ b[3] = d.from
      OBVIOUS
    <3> HIDE DEF a, b
    <3> QED
      BY <1>7, <3>1, <3>2 DEF Overlaps
  <2>10. ASSUME NEW m \in DOMAIN items, m < n
         PROVE  \E j : Names(w.insts, w.ids, j, items[m])
    <3>1. PICK j : Names(v.insts, v.ids, j, items[m])
      BY <1>5, <2>10
    <3>2. j \in DOMAIN v.insts
      BY <3>1 DEF Names, Identifies
    <3>3. Names(w.insts, w.ids, j, items[m])
      BY <2>7, <2>8, <2>9, <3>1, <3>2, NamesKept
    <3> QED
      BY <3>3
  <2>11. Names(w.insts, w.ids, i, items[n])
    <3>1. a \in ActiveRows(w.ids, "ISIN", d.isin, d.from)
          /\ b \in ActiveRows(w.ids, "BRSAPI_L18", d.symbol, d.from)
      BY <1>4, <2>4, <2>8, ForeverTyped DEF ActiveRows
    <3>2. w.insts[i].attributes = d.attributes /\ i \in DOMAIN w.insts
      BY <2>7 DEF Instrument
    <3>3. w.ids[a].owner = i /\ w.ids[b].owner = i
      BY <2>4, <2>8
    <3> HIDE DEF a, b, i
    <3> QED
      BY <1>3, <1>4, <2>6, <3>1, <3>2, <3>3 DEF Names, Identifies
  <2>12. pc'[c] = "specify" /\ position'[c] = n
    BY <1>1, <1>7 DEF Goto, CatalogInv, StateTyped
  <2>13. Resolved("specify", n, items, w.insts, w.ids)
    BY <2>10, <2>11 DEF Resolved
  <2> QED
    BY <1>1, <2>12, <2>13 DEF ResolvedOK, w, items
<1>8. CASE /\ isinOwner # None /\ ~IdentityConflict(isinOwner, symbolOwner)
           /\ SameIdentity(v.insts[isinOwner], d)
           /\ Goto(c, IF symbolOwner = None THEN "rename" ELSE "specify")
           /\ UNCHANGED work
  <2>1. w = v
    BY <1>1, <1>8 DEF View
  <2>2. PICK k \in ActiveRows(v.ids, "ISIN", d.isin, d.from) : v.ids[k].owner = isinOwner
    BY <1>8, OwnerHasRow
  <2>3. isinOwner \in DOMAIN v.insts
    BY <1>2, <2>2 DEF ViewOK, Sound, RowsTyped, ActiveRows
  <2>4. Identifies(v.insts, v.ids, isinOwner, d)
    BY <1>8, <2>2, <2>3 DEF Identifies, SameIdentity
  <2>5. symbolOwner # None => Names(v.insts, v.ids, isinOwner, d)
    <3> SUFFICES ASSUME symbolOwner # None PROVE Names(v.insts, v.ids, isinOwner, d)
      OBVIOUS
    <3>1. symbolOwner = isinOwner
      BY <1>8 DEF IdentityConflict
    <3>2. \E r \in ActiveRows(v.ids, "BRSAPI_L18", d.symbol, d.from) :
             v.ids[r].owner = isinOwner
      BY <3>1, OwnerHasRow
    <3>3. d.from \in {d.from, d.rename} \ {None}
      BY <1>4
    <3> HIDE DEF isinOwner, symbolOwner, v, d
    <3> QED
      BY <2>4, <3>2, <3>3 DEF Names
  <2>6. PICK next \in {"rename", "specify"} :
          Goto(c, next) /\ (next = "specify" => symbolOwner # None)
    BY <1>8
  <2>7. pc'[c] = next /\ position'[c] = n
    BY <1>1, <2>6 DEF Goto, CatalogInv, StateTyped
  <2> HIDE DEF isinOwner, symbolOwner, v, d, items, n
  <2>8. Resolved(next, n, items, v.insts, v.ids)
    BY <1>3, <1>5, <2>4, <2>5, <2>6 DEF Resolved
  <2> QED
    BY <1>1, <2>1, <2>7, <2>8 DEF ResolvedOK, items
<1> QED
  BY <1>6, <1>7, <1>8 DEF ResolveInstrument, CreateInstrument

\* The instrument has its new symbol; those of the other items keep theirs, because a
\* manifest names every ISIN once and only the rows of this instrument are closed.
LEMMA RenameResolves ==
    ASSUME CatalogInv, IsinsNamedOnce, NEW c \in Callers, ResolvedOK(c), Rename(c)
    PROVE  ResolvedOK(c)'
<1> DEFINE d == Item(c)
           n == position[c]
           v == View(c)
           w == View(c)'
           items == Manifest(c).items
           i == ItemOwner(c)
           new == OwnerAt(v.ids, "BRSAPI_L18", d.symbol, d.rename)
           old == ActiveRows(v.ids, "BRSAPI_L18", d.previous, d.rename)
           mine == {k \in old : v.ids[k].owner = i /\ k[3] < d.rename}
<1>1. /\ pc[c] = "rename" /\ pc[c] \in Applying
      /\ UNCHANGED <<catalog, doc, position>>
      /\ Manifest(c)' = Manifest(c)
  BY DEF Rename, Applying, Manifest
<1>2. ViewOK(c, "rename", n, d, v, catalog)
  BY <1>1 DEF CatalogInv, OpenOK
<1>3. n \in Nat /\ n \in DOMAIN items /\ ValidDefinition(d) /\ d = items[n]
  BY <1>1, ItemValid
<1>4. /\ d.from \in Nat /\ d.rename \in Nat /\ d.rename < Forever
      /\ d.rename \in {d.from, d.rename} \ {None}
  BY <1>2, <1>3, ForeverTyped, CatalogConstants DEF ViewOK, ValidDefinition
<1>5. \A m \in DOMAIN items : m < n => \E j : Names(v.insts, v.ids, j, items[m])
  BY <1>1 DEF ResolvedOK, Resolved
<1>6. /\ RowsTyped(v.insts, v.ids, v.specs) /\ OwnersAreUnique(v.ids)
      /\ Identified(v.insts, v.ids)
  BY <1>2 DEF ViewOK, Sound, Identified
<1>7. Identifies(v.insts, v.ids, i, d)
  <2>1. PICK j : Identifies(v.insts, v.ids, j, d)
    BY <1>1, <1>3 DEF ResolvedOK, Resolved
  <2>2. PICK k \in ActiveRows(v.ids, "ISIN", d.isin, d.from) : v.ids[k].owner = j
    BY <2>1 DEF Identifies
  <2>3. i = OwnerAt(v.ids, "ISIN", d.isin, d.from)
    BY DEF ItemOwner
  <2> HIDE DEF v, d, i
  <2>4. i = j
    BY <1>4, <1>6, <2>2, <2>3, OwnerIs
  <2> QED
    BY <2>1, <2>4
<1>8. CASE Conflict(c) \/ Refuse(c)
  BY <1>8, ConflictLeaves, NothingToResolve
<1>9. CASE new = i /\ Goto(c, "specify") /\ UNCHANGED work
  <2>1. w = v
    BY <1>1, <1>9 DEF View
  <2>2. i # None
    BY <1>7 DEF Identifies
  <2>3. \E r \in ActiveRows(v.ids, "BRSAPI_L18", d.symbol, d.rename) : v.ids[r].owner = i
    BY <1>9, <2>2, OwnerHasRow
  <2>4. pc'[c] = "specify" /\ position'[c] = n
    BY <1>1, <1>9 DEF Goto, CatalogInv, StateTyped
  <2> HIDE DEF v, d, i, items, n
  <2>5. Names(v.insts, v.ids, i, d)
    BY <1>4, <1>7, <2>3 DEF Names
  <2>6. Resolved("specify", n, items, v.insts, v.ids)
    BY <1>3, <1>5, <2>5 DEF Resolved
  <2> QED
    BY <1>1, <2>1, <2>4, <2>6 DEF ResolvedOK, items
<1>10. ASSUME NEW k \in mine,
              ~Overlaps(v.ids, "BRSAPI_L18", d.symbol, d.rename),
              Write(c, RenameRows(c, k)), Goto(c, "specify")
       PROVE  ResolvedOK(c)'
  <2> DEFINE rows == RenameRows(c, k)
             open == [to |-> Forever, owner |-> i]
             closed == [to |-> d.rename, owner |-> i]
             inst == [v.insts[i] EXCEPT !.symbol = d.symbol]
             b == <<"BRSAPI_L18", d.symbol, d.rename>>
  <2>1. /\ rows.insts = Row(i, inst)
        /\ rows.ids = Overlay(Row(k, closed), Row(b, open))
    BY DEF RenameRows, Nothing
  <2> HIDE DEF rows
  <2>2. Write(c, rows)
    BY <1>10 DEF rows
  <2>3. w.insts = Overlay(rows.insts, v.insts) /\ w.ids = Overlay(rows.ids, v.ids)
    BY <1>1, <2>2, ViewRows, ReadsItsWrites
  <2>4. /\ k \in DOMAIN v.ids /\ v.ids[k].owner = i /\ k[1] = "BRSAPI_L18" /\ k[3] < d.rename
    BY <1>10 DEF ActiveRows
  <2>5. /\ b[1] = "BRSAPI_L18" /\ b[2] = d.symbol /\ b[3] = d.rename
        /\ open.owner = i /\ open.to = Forever
    OBVIOUS
  <2>6. /\ i \in DOMAIN v.insts /\ v.insts[i].attributes = d.attributes /\ i # None
    BY <1>7 DEF Identifies
  <2>7. inst.attributes = v.insts[i].attributes
    BY <1>6, <2>6 DEF RowsTyped
  <2> HIDE DEF d, v, w, items, n, i, open, closed, inst, b, mine
  <2>8. k # b
    <3>1. k[3] \in Nat
      BY <1>6, <2>4 DEF RowsTyped
    <3> QED
      BY <1>4, <2>4, <2>5, <3>1
  <2>9. /\ DOMAIN w.insts = DOMAIN v.insts
        /\ w.insts[i] = inst
        /\ \A j \in DOMAIN v.insts : j # i => w.insts[j] = v.insts[j]
    BY <2>1, <2>3, <2>6 DEF Overlay, Row
  <2>10. /\ DOMAIN w.ids = DOMAIN v.ids \cup {b}
         /\ w.ids[b] = open
         /\ \A l \in DOMAIN v.ids : l \notin {k, b} => w.ids[l] = v.ids[l]
    BY <2>1, <2>3, <2>4, <2>8 DEF Overlay, Row
  <2>11. b \notin DOMAIN v.ids
    <3>1. \A l \in DOMAIN v.ids : l[3] \in Nat /\ v.ids[l].to \in Nat /\ l[3] < v.ids[l].to
      BY <1>6, ForeverTyped DEF RowsTyped
    <3> QED
      BY <1>10, <2>5, <3>1 DEF Overlaps
  <2>12. \A l \in DOMAIN v.ids : l # k => w.ids[l] = v.ids[l]
    BY <2>10, <2>11
  <2>13. ASSUME NEW m \in DOMAIN items, m < n
         PROVE  \E j : Names(w.insts, w.ids, j, items[m])
    <3>1. PICK j : Names(v.insts, v.ids, j, items[m])
      BY <1>5, <2>13
    <3>2. Identifies(v.insts, v.ids, j, items[m]) /\ j \in DOMAIN v.insts
      BY <3>1 DEF Names, Identifies
    <3>3. m # n
      BY <1>3, <2>13
    <3>4. items[m].isin # items[n].isin
      <4>1. Manifest(c) \in Manifests
        BY <1>1, ItemValid, RequestTyped DEF CatalogInv
      <4> QED
        BY <1>3, <2>13, <3>3, <4>1 DEF IsinsNamedOnce, items
    <3>5. j # i
      BY <1>3, <1>6, <1>7, <3>2, <3>4, IsinsAreDistinct
    <3>6. \A l \in DOMAIN v.ids : v.ids[l].owner = j => l \in DOMAIN w.ids /\ w.ids[l] = v.ids[l]
      BY <2>4, <2>10, <2>12, <3>5
    <3>7. j \in DOMAIN w.insts /\ w.insts[j].attributes = v.insts[j].attributes
      BY <2>9, <3>2, <3>5
    <3>8. Names(w.insts, w.ids, j, items[m])
      BY <3>1, <3>6, <3>7, NamesKept
    <3> QED
      BY <3>8
  <2>14. Names(w.insts, w.ids, i, d)
    <3>1. b \in ActiveRows(w.ids, "BRSAPI_L18", d.symbol, d.rename) /\ w.ids[b].owner = i
      BY <1>4, <2>5, <2>10, ForeverTyped DEF ActiveRows
    <3>2. PICK l \in ActiveRows(v.ids, "ISIN", d.isin, d.from) : v.ids[l].owner = i
      BY <1>7 DEF Identifies
    <3>3. l \in DOMAIN v.ids /\ l # k
      BY <2>4, <3>2 DEF ActiveRows
    <3>4. l \in ActiveRows(w.ids, "ISIN", d.isin, d.from) /\ w.ids[l].owner = i
      BY <2>10, <2>12, <3>2, <3>3 DEF ActiveRows
    <3>5. Identifies(w.insts, w.ids, i, d)
      BY <2>6, <2>7, <2>9, <3>4 DEF Identifies
    <3> QED
      BY <1>4, <3>1, <3>5 DEF Names
  <2>15. pc'[c] = "specify" /\ position'[c] = n
    BY <1>1, <1>10 DEF Goto, CatalogInv, StateTyped, n
  <2>16. Resolved("specify", n, items, w.insts, w.ids)
    BY <1>3, <2>13, <2>14 DEF Resolved
  <2> QED
    BY <1>1, <2>15, <2>16 DEF ResolvedOK, w, items
<1> QED
  BY <1>8, <1>9, <1>10 DEF Rename

\* Specifications are no part of what an item resolves by.
LEMMA SpecifyResolves ==
    ASSUME CatalogInv, NEW c \in Callers, ResolvedOK(c), Specify(c)
    PROVE  ResolvedOK(c)'
<1> DEFINE d == Item(c)
           n == position[c]
           v == View(c)
           w == View(c)'
           items == Manifest(c).items
           i == ItemOwner(c)
           rows == SpecificationRows(v.specs, i, d)
<1>1. /\ pc[c] = "specify" /\ pc[c] \in Applying
      /\ UNCHANGED <<catalog, doc>> /\ Manifest(c)' = Manifest(c)
  BY DEF Specify, Applying, Manifest
<1>2. n \in Nat /\ n \in DOMAIN items /\ DOMAIN items = 1..Len(items) /\ Len(items) \in Nat
  BY <1>1, ItemValid DEF ValidManifest
<1>3. \A m \in DOMAIN items : m < n \/ m = n => \E j : Names(v.insts, v.ids, j, items[m])
  BY <1>1, <1>2 DEF ResolvedOK, Resolved
<1>4. CASE Conflict(c)
  BY <1>4, ConflictLeaves, NothingToResolve
<1>5. CASE rows # None /\ Write(c, rows) /\ Reached(c, n, Len(items), "symbol", "commit")
  <2>1. w.insts = Overlay(rows.insts, v.insts) /\ w.ids = Overlay(rows.ids, v.ids)
    BY <1>1, <1>5, ViewRows, ReadsItsWrites
  <2>2. rows.insts = <<>> /\ rows.ids = <<>>
    <3> HIDE DEF v, i, d
    <3> QED
      BY <1>5, SpecificationOnly
  <2>3. w.insts = v.insts /\ w.ids = v.ids
    BY <2>1, <2>2, ViewRows, OverlayNothing
  <2>4. \/ n = Len(items) /\ pc'[c] = "commit" /\ position'[c] = 1
        \/ n # Len(items) /\ pc'[c] = "symbol" /\ position'[c] = n + 1
    BY <1>5 DEF Reached, Goto, CatalogInv, StateTyped
  <2> HIDE DEF v, w, items, n, rows
  <2>5. Resolved(pc'[c], position'[c], items, w.insts, w.ids)
    <3>1. CASE n = Len(items) /\ pc'[c] = "commit"
      BY <1>2, <1>3, <2>3, <3>1 DEF Resolved
    <3>2. CASE pc'[c] = "symbol" /\ position'[c] = n + 1
      BY <1>2, <1>3, <2>3, <3>2 DEF Resolved
    <3> QED
      BY <2>4, <3>1, <3>2
  <2> QED
    BY <1>1, <2>5 DEF ResolvedOK, w, items
<1> QED
  BY <1>4, <1>5 DEF Specify

\* What a step of a call is to the other calls and to the rows: one that opens no
\* transaction C and changes none of the three tables, the commit, or one inside C.
Aside(c) ==
    /\ SameTables /\ pc'[c] \notin Applying
    /\ \A e \in Callers \ {c} :
          /\ pc'[e] = pc[e] /\ doc'[e] = doc[e] /\ position'[e] = position[e]
          /\ work'[e] = work[e] /\ locks'[e] = locks[e]

Within(c) ==
    \/ EnsureReference(c) \/ LockSymbol(c) \/ ResolveInstrument(c) \/ Rename(c) \/ Specify(c)

LEMMA StepKinds ==
    ASSUME CatalogInv, Next
    PROVE  \E c \in Callers :
              \/ Within(c)
              \/ CommitCatalog(c) /\ \A e \in Callers : pc'[e] \notin Applying
              \/ Aside(c) /\ (\/ Begin(c) \/ RecordEvidence(c) \/ FinalizeFailure(c) \/ Fail(c)
                              \/ \E d \in Documents[c] : Call(c, d))
<1>1. StateTyped
  BY DEF CatalogInv
<1>2. ASSUME NEW c \in Callers, NEW place, Goto(c, place)
      PROVE  pc'[c] = place /\ \A e \in Callers \ {c} : pc'[e] = pc[e]
  BY <1>1, <1>2 DEF Goto, StateTyped
<1>3. ASSUME NEW c \in Callers, Begin(c)
      PROVE  Aside(c)
  <2>1. SameTables
    <3>1. \/ catalog' = catalog
          \/ catalog' = [catalog EXCEPT !.refs =
                           Overlay(Row(Provider, Manifest(c).refs[Provider]), @)]
      BY <1>3 DEF Begin
    <3> QED
      BY <1>1, <3>1 DEF SameTables, StateTyped, IsRows
  <2>2. \E place \in {"validate", "done"} : Goto(c, place)
    BY <1>3 DEF Begin, Committed, End
  <2>3. pc'[c] \notin Applying /\ \A e \in Callers \ {c} : pc'[e] = pc[e]
    BY <1>2, <2>2 DEF Applying
  <2>4. UNCHANGED <<doc, position, work, locks>>
    BY <1>3 DEF Begin
  <2> QED
    BY <2>1, <2>3, <2>4 DEF Aside
<1>4. ASSUME NEW c \in Callers, RecordEvidence(c) \/ FinalizeFailure(c)
      PROVE  Aside(c)
  <2>1. SameTables /\ UNCHANGED <<doc, position, work, locks>>
    BY <1>4 DEF RecordEvidence, FinalizeFailure, SameTables
  <2>2. \E place \in {"refs", "quarantine", "done"} : Goto(c, place)
    BY <1>4 DEF RecordEvidence, FinalizeFailure, Committed, End
  <2>3. pc'[c] \notin Applying /\ \A e \in Callers \ {c} : pc'[e] = pc[e]
    BY <1>2, <2>2 DEF Applying
  <2> QED
    BY <2>1, <2>3 DEF Aside
<1>5. ASSUME NEW c \in Callers, Fail(c)
      PROVE  Aside(c)
  <2>1. SameTables /\ UNCHANGED <<doc, position>>
    BY <1>5 DEF Fail, SameTables
  <2>2. pc'[c] \notin Applying /\ \A e \in Callers \ {c} : pc'[e] = pc[e]
    BY <1>2, <1>5 DEF Fail, End, Applying
  <2>3. \A e \in Callers \ {c} : work'[e] = work[e] /\ locks'[e] = locks[e]
    BY <1>1, <1>5 DEF Fail, RollBack, StateTyped
  <2> QED
    BY <2>1, <2>2, <2>3 DEF Aside
<1>6. ASSUME NEW c \in Callers, NEW d, Call(c, d)
      PROVE  Aside(c)
  <2>1. SameTables /\ UNCHANGED <<position, work, locks>>
    BY <1>6 DEF Call, SameTables
  <2>2. pc'[c] \notin Applying /\ \A e \in Callers \ {c} : pc'[e] = pc[e]
    BY <1>2, <1>6 DEF Call, Applying
  <2>3. \A e \in Callers \ {c} : doc'[e] = doc[e]
    BY <1>1, <1>6 DEF Call, StateTyped
  <2> QED
    BY <2>1, <2>2, <2>3 DEF Aside
<1>7. ASSUME NEW c \in Callers, CommitCatalog(c)
      PROVE  \A e \in Callers : pc'[e] \notin Applying
  <2>1. pc[c] \in Applying /\ Goto(c, "done")
    BY <1>7 DEF CommitCatalog, End, Applying
  <2> QED
    BY <1>2, <2>1, OneApplies DEF Applying
<1>8. PICK c \in Callers : Proceed(c) \/ Fail(c) \/ \E d \in Documents[c] : Call(c, d)
  BY DEF Next
<1>9. CASE Proceed(c)
  BY <1>9, <1>3, <1>4, <1>7 DEF Proceed, Within
<1> QED
  BY <1>5, <1>6, <1>8, <1>9

\* Every step keeps what has been resolved.
LEMMA ResolvedNext ==
    ASSUME IsinsNamedOnce, CatalogInv, CatalogInv', ResolvedInv, [Next]_vars
    PROVE  ResolvedInv'
<1>1. IsRows(catalog')
  BY DEF CatalogInv, StateTyped
<1>2. CASE UNCHANGED vars
  <2>1. SameTables
    BY <1>2 DEF SameTables, vars
  <2>2. \A e \in Callers : /\ pc'[e] = pc[e] /\ doc'[e] = doc[e]
                           /\ position'[e] = position[e] /\ work'[e] = work[e]
    BY <1>2 DEF vars
  <2> QED
    BY <1>1, <2>1, <2>2, ResolvedKept DEF ResolvedInv
<1>3. ASSUME NEW c \in Callers, Aside(c)
      PROVE  ResolvedInv'
  BY <1>1, <1>3, ResolvedKept, NothingToResolve DEF ResolvedInv, Aside
<1>4. ASSUME NEW c \in Callers, Within(c)
      PROVE  ResolvedInv'
  <2>1. StepOf(c) /\ UNCHANGED catalog
    BY <1>4, ApplyingSteps DEF Within
  <2>2. ResolvedOK(c)
    BY DEF ResolvedInv
  <2>3. ResolvedOK(c)'
    BY <1>4, <2>2, EnsureReferenceResolves, LockSymbolResolves, ResolveInstrumentResolves,
       RenameResolves, SpecifyResolves DEF Within
  <2> QED
    BY <2>1, <2>3, OthersResolved
<1>5. ASSUME \A e \in Callers : pc'[e] \notin Applying
      PROVE  ResolvedInv'
  BY <1>5, NothingToResolve DEF ResolvedInv
<1>6. CASE Next
  BY <1>3, <1>4, <1>5, <1>6, StepKinds
<1> QED
  BY <1>2, <1>6

\* No transaction is open at first.
LEMMA InitResolved == Init => ResolvedInv
BY DEF Init, ResolvedInv, ResolvedOK, Applying

\* An item whose rows are there is found by its ISIN, and by its symbol at a time it states.
Found(insts, ids, d) ==
    LET i == OwnerAt(ids, "ISIN", d.isin, d.from)
    IN  /\ i # None /\ insts[i].attributes = d.attributes
        /\ \E time \in {d.from, d.rename} \ {None} :
              OwnerAt(ids, "BRSAPI_L18", d.symbol, time) = i

\* The rows are there if the item is named.
LEMMA NamedIsFound ==
    ASSUME NEW insts, NEW ids, NEW specs, NEW i, NEW d, ValidDefinition(d),
           RowsTyped(insts, ids, specs), OwnersAreUnique(ids), Names(insts, ids, i, d)
    PROVE  Found(insts, ids, d)
<1>1. \A time \in {d.from, d.rename} \ {None} : time \in Nat
  BY ForeverTyped DEF ValidDefinition
<1>2. d.from \in Nat
  BY ForeverTyped DEF ValidDefinition
<1>3. OwnerAt(ids, "ISIN", d.isin, d.from) = i
  BY <1>2, OwnerIs DEF Names, Identifies
<1>4. PICK time \in {d.from, d.rename} \ {None} :
        \E k \in ActiveRows(ids, "BRSAPI_L18", d.symbol, time) : ids[k].owner = i
  BY DEF Names
<1>5. OwnerAt(ids, "BRSAPI_L18", d.symbol, time) = i
  BY <1>1, <1>4, OwnerIs
<1> QED
  BY <1>3, <1>4, <1>5 DEF Found, Names, Identifies

\* The commit of transaction C.
LEMMA CommitResolves ==
    ASSUME CatalogInv, ResolvedInv, NEW c \in Callers, CommitCatalog(c),
           NEW n \in DOMAIN Manifest(c).items
    PROVE  Found(catalog'.insts, catalog'.ids, Manifest(c).items[n])
<1>1. pc[c] = "commit" /\ pc[c] \in Applying /\ catalog' = View(c)
  BY DEF CommitCatalog, Applying
<1>2. RowsTyped(View(c).insts, View(c).ids, View(c).specs) /\ OwnersAreUnique(View(c).ids)
  BY <1>1 DEF CatalogInv, OpenOK, ViewOK, Sound, Identified
<1>3. ValidDefinition(Manifest(c).items[n])
  BY <1>1, ItemValid DEF ValidManifest
<1>4. PICK i : Names(View(c).insts, View(c).ids, i, Manifest(c).items[n])
  BY <1>1 DEF ResolvedInv, ResolvedOK, Resolved
<1> QED
  BY <1>1, <1>2, <1>3, <1>4, NamedIsFound

\* The call whose batch becomes SUCCEEDED is the one that commits.
LEMMA SucceedsByCommit ==
    ASSUME CatalogInv, [Next]_vars, NEW c \in Callers, Succeeds(c)
    PROVE  CommitCatalog(c)
<1>1. StateTyped /\ Request(c) \in Requests
  BY RequestTyped DEF CatalogInv, Succeeds
<1>2. /\ batch[Request(c)] = [status |-> "RUNNING", owner |-> c]
      /\ batch'[Request(c)].status = "SUCCEEDED"
  BY DEF Succeeds
<1>3. batch[Request(c)] # None
  BY <1>2, BatchIsNotNone DEF Status
<1>4. batch' # batch
  BY <1>2
<1>5. PICK e \in Callers : Begin(e) \/ FinalizeFailure(e) \/ CommitCatalog(e)
  BY <1>4 DEF Next, vars, Proceed, Fail, Call, RecordEvidence, EnsureReference, LockSymbol,
     ResolveInstrument, Rename, Specify
<1>6. CASE Begin(e)
  BY <1>1, <1>2, <1>3, <1>4, <1>6 DEF Begin, Started, StateTyped
<1>7. CASE FinalizeFailure(e)
  BY <1>1, <1>2, <1>7 DEF FinalizeFailure, StateTyped
<1>8. CASE CommitCatalog(e)
  <2>1. pc[e] \in Working
    BY <1>8 DEF CommitCatalog, Working, Applying
  <2>2. batch[Request(e)] = [status |-> "RUNNING", owner |-> e]
    BY <2>1 DEF CatalogInv, CallOK, OwnBatch
  <2>3. batch' = [batch EXCEPT ![Request(e)].status = "SUCCEEDED"]
    BY <1>8 DEF CommitCatalog
  <2>4. Request(e) = Request(c)
    BY <1>1, <1>2, <2>3 DEF StateTyped
  <2> QED
    BY <1>2, <1>8, <2>2, <2>4
<1> QED
  BY <1>5, <1>6, <1>7, <1>8

\* If manifests name every ISIN once: when a call succeeds, every instrument of its
\* manifest resolves by its ISIN to one with the stated attributes, and by its symbol to
\* the same one, whatever other calls have committed meanwhile.
THEOREM SuccessResolves ==
    ASSUME IsinsNamedOnce
    PROVE  Spec => SuccessMeansResolvable
<1>1. CatalogInv /\ ResolvedInv /\ CatalogInv' /\ [Next]_vars => ResolvedInv'
  BY ResolvedNext
<1>2. CatalogInv /\ ResolvedInv /\ [Next]_vars =>
        [\A c \in Callers :
            Succeeds(c) =>
              \A n \in DOMAIN Manifest(c).items : ResolvesTo(Manifest(c).items[n])']_vars
  <2> SUFFICES ASSUME CatalogInv, ResolvedInv, [Next]_vars, NEW c \in Callers, Succeeds(c),
                      NEW n \in DOMAIN Manifest(c).items
               PROVE  ResolvesTo(Manifest(c).items[n])'
    OBVIOUS
  <2>1. CommitCatalog(c)
    BY SucceedsByCommit
  <2>2. Found(catalog'.insts, catalog'.ids, Manifest(c).items[n])
    BY <2>1, CommitResolves
  <2>3. Manifest(c)' = Manifest(c)
    BY <2>1 DEF CommitCatalog, Manifest
  <2> QED
    BY <2>2, <2>3 DEF ResolvesTo, Found
<1> QED
  BY <1>1, <1>2, InitResolved, CatalogInvariant, PTL DEF Spec, SuccessMeansResolvable

-----------------------------------------------------------------------------
(* What a succeeded bootstrap writes, and what it leaves in the catalog *)

ItemsOf(c) == {Manifest(c).items[n] : n \in DOMAIN Manifest(c).items}

\* What an item has when its specification is about to be written.
Placed(rows, d) ==
    \E i : /\ Identifies(rows.insts, rows.ids, i, d)
           /\ \E k \in DOMAIN rows.ids :
                 k[1] = "BRSAPI_L18" /\ k[2] = d.symbol /\ rows.ids[k].owner = i

\* The rows of an open transaction C are stated, the items that are done are stored, and
\* the present one as far as it has come.
WrittenOK(c) ==
    pc[c] \in Applying =>
        /\ RowsStated(ItemsOf(c), View(c), catalog)
        /\ \A m \in DOMAIN Manifest(c).items :
              pc[c] = "commit" \/ m < position[c] => Stored(View(c), Manifest(c).items[m])
        /\ pc[c] = "rename" => \E i : Identifies(View(c).insts, View(c).ids, i, Item(c))
        /\ pc[c] = "specify" => Placed(View(c), Item(c))

WrittenInv == \A c \in Callers : WrittenOK(c)

\* Rows that stay keep what they are about.
LEMMA AboutKept ==
    ASSUME NEW new, NEW old, Continues(new, old), NEW i, NEW d, IsAbout(old, i, d)
    PROVE  IsAbout(new, i, d)
BY DEF IsAbout, Continues

\* What is stored stays stored while rows are only added and closed.
LEMMA StoredKept ==
    ASSUME NEW new, NEW old, Continues(new, old), NEW d, Stored(old, d)
    PROVE  Stored(new, d)
<1>1. PICK i \in DOMAIN old.insts :
        /\ IsAbout(old, i, d) /\ old.insts[i].attributes = d.attributes
        /\ \E k \in DOMAIN old.ids :
              k[1] = "BRSAPI_L18" /\ k[2] = d.symbol /\ old.ids[k].owner = i
        /\ \E k \in SpecRows(old.specs, i) : old.specs[k].spec = d.spec
  BY DEF Stored
<1>2. /\ i \in DOMAIN new.insts /\ IsAbout(new, i, d)
      /\ new.insts[i].attributes = d.attributes
  BY <1>1, AboutKept DEF Continues
<1>3. \E k \in DOMAIN new.ids : k[1] = "BRSAPI_L18" /\ k[2] = d.symbol /\ new.ids[k].owner = i
  BY <1>1 DEF Continues
<1>4. \E k \in SpecRows(new.specs, i) : new.specs[k].spec = d.spec
  BY <1>1 DEF Continues, SpecRows
<1> QED
  BY <1>2, <1>3, <1>4 DEF Stored

\* Stated rows over stated rows are stated.
LEMMA StatedTwice ==
    ASSUME NEW items, NEW new, NEW mid, NEW old, Continues(new, mid), Continues(mid, old),
           RowsStated(items, new, mid), RowsStated(items, mid, old)
    PROVE  RowsStated(items, new, old)
<1>1. \A i, d : IsAbout(mid, i, d) => IsAbout(new, i, d)
  BY AboutKept
<1>2. ASSUME NEW i \in Changed(new.insts, old.insts)
      PROVE  \E d \in items : IsAbout(new, i, d) /\ new.insts[i] = Instrument(d)
  <2>1. CASE i \in Changed(new.insts, mid.insts)
    BY <2>1 DEF RowsStated
  <2>2. CASE i \notin Changed(new.insts, mid.insts)
    <3>1. i \in Changed(mid.insts, old.insts) /\ new.insts[i] = mid.insts[i]
      BY <2>2 DEF Changed
    <3> QED
      BY <1>1, <3>1 DEF RowsStated
  <2> QED
    BY <2>1, <2>2
<1>3. ASSUME NEW k \in Changed(new.ids, old.ids)
      PROVE  /\ k \notin DOMAIN old.ids => \E d \in items : OpensIdentifier(new, k, d)
             /\ k \in DOMAIN old.ids \/ new.ids[k].to # Forever =>
                   \E d \in items : ClosesIdentifier(new, k, d)
  <2>1. k \in DOMAIN old.ids => k \in DOMAIN mid.ids
    BY DEF Continues
  <2>2. k \in DOMAIN mid.ids => k \in DOMAIN new.ids /\ new.ids[k].owner = mid.ids[k].owner
    BY DEF Continues
  <2>3. \A d : k \in DOMAIN mid.ids /\ OpensIdentifier(mid, k, d) => OpensIdentifier(new, k, d)
    BY <1>1, <2>2 DEF OpensIdentifier
  <2>4. \A d : k \in DOMAIN mid.ids /\ new.ids[k] = mid.ids[k] /\ ClosesIdentifier(mid, k, d)
                  => ClosesIdentifier(new, k, d)
    BY <1>1 DEF ClosesIdentifier
  <2>5. ASSUME k \notin DOMAIN old.ids
        PROVE  \E d \in items : OpensIdentifier(new, k, d)
    <3>1. CASE k \in DOMAIN mid.ids
      <4>1. k \in Changed(mid.ids, old.ids)
        BY <2>5, <3>1 DEF Changed
      <4> QED
        BY <2>3, <2>5, <3>1, <4>1 DEF RowsStated
    <3>2. CASE k \notin DOMAIN mid.ids
      <4>1. k \in Changed(new.ids, mid.ids)
        BY <1>3, <3>2 DEF Changed
      <4> QED
        BY <3>2, <4>1 DEF RowsStated
    <3> QED
      BY <3>1, <3>2
  <2>6. ASSUME k \in DOMAIN old.ids \/ new.ids[k].to # Forever
        PROVE  \E d \in items : ClosesIdentifier(new, k, d)
    <3>1. CASE k \in Changed(new.ids, mid.ids)
      BY <2>1, <2>6, <3>1 DEF RowsStated
    <3>2. CASE k \notin Changed(new.ids, mid.ids)
      <4>1. k \in DOMAIN mid.ids /\ new.ids[k] = mid.ids[k] /\ k \in Changed(mid.ids, old.ids)
        BY <1>3, <3>2 DEF Changed
      <4> QED
        BY <2>4, <2>6, <4>1 DEF RowsStated
    <3> QED
      BY <3>1, <3>2
  <2> QED
    BY <2>5, <2>6
<1>4. ASSUME NEW k \in Changed(new.specs, old.specs)
      PROVE  /\ k \notin DOMAIN old.specs => \E d \in items : OpensSpec(new, k, d)
             /\ k \in DOMAIN old.specs \/ new.specs[k].to # Forever =>
                   \E d \in items : ClosesSpec(new, k, d)
  <2>1. k \in DOMAIN old.specs => k \in DOMAIN mid.specs
    BY DEF Continues
  <2>2. k \in DOMAIN mid.specs => k \in DOMAIN new.specs /\ new.specs[k].spec = mid.specs[k].spec
    BY DEF Continues
  <2>3. \A d : k \in DOMAIN mid.specs /\ OpensSpec(mid, k, d) => OpensSpec(new, k, d)
    BY <1>1, <2>2 DEF OpensSpec
  <2>4. \A d : k \in DOMAIN mid.specs /\ new.specs[k] = mid.specs[k] /\ ClosesSpec(mid, k, d)
                  => ClosesSpec(new, k, d)
    BY <1>1 DEF ClosesSpec
  <2>5. ASSUME k \notin DOMAIN old.specs
        PROVE  \E d \in items : OpensSpec(new, k, d)
    <3>1. CASE k \in DOMAIN mid.specs
      <4>1. k \in Changed(mid.specs, old.specs)
        BY <2>5, <3>1 DEF Changed
      <4> QED
        BY <2>3, <2>5, <3>1, <4>1 DEF RowsStated
    <3>2. CASE k \notin DOMAIN mid.specs
      <4>1. k \in Changed(new.specs, mid.specs)
        BY <1>4, <3>2 DEF Changed
      <4> QED
        BY <3>2, <4>1 DEF RowsStated
    <3> QED
      BY <3>1, <3>2
  <2>6. ASSUME k \in DOMAIN old.specs \/ new.specs[k].to # Forever
        PROVE  \E d \in items : ClosesSpec(new, k, d)
    <3>1. CASE k \in Changed(new.specs, mid.specs)
      BY <2>1, <2>6, <3>1 DEF RowsStated
    <3>2. CASE k \notin Changed(new.specs, mid.specs)
      <4>1. /\ k \in DOMAIN mid.specs /\ new.specs[k] = mid.specs[k]
            /\ k \in Changed(mid.specs, old.specs)
        BY <1>4, <3>2 DEF Changed
      <4> QED
        BY <2>4, <2>6, <4>1 DEF RowsStated
    <3> QED
      BY <3>1, <3>2
  <2> QED
    BY <2>5, <2>6
<1> QED
  BY <1>2, <1>3, <1>4 DEF RowsStated

\* Only the three tables matter.
LEMMA StatedSame ==
    ASSUME NEW items, NEW new, NEW old, NEW new2, NEW old2, RowsStated(items, new, old),
           new2.insts = new.insts, new2.ids = new.ids, new2.specs = new.specs,
           old2.insts = old.insts, old2.ids = old.ids, old2.specs = old.specs
    PROVE  RowsStated(items, new2, old2)
<1>1. \A i, d : IsAbout(new2, i, d) <=> IsAbout(new, i, d)
  BY DEF IsAbout
<1>2. \A k, d : /\ OpensIdentifier(new2, k, d) <=> OpensIdentifier(new, k, d)
                /\ ClosesIdentifier(new2, k, d) <=> ClosesIdentifier(new, k, d)
                /\ OpensSpec(new2, k, d) <=> OpensSpec(new, k, d)
                /\ ClosesSpec(new2, k, d) <=> ClosesSpec(new, k, d)
  BY <1>1 DEF OpensIdentifier, ClosesIdentifier, OpensSpec, ClosesSpec
<1> QED
  BY <1>1, <1>2 DEF RowsStated

\* A version of the catalog has nothing over itself.
LEMMA StatedNothing ==
    ASSUME NEW items, NEW new, NEW old,
           new.insts = old.insts, new.ids = old.ids, new.specs = old.specs
    PROVE  RowsStated(items, new, old)
BY DEF RowsStated, Changed

\* An instrument that is identified has the ISIN.
LEMMA IdentifiedIsAbout ==
    ASSUME NEW rows, NEW i, NEW d, Identifies(rows.insts, rows.ids, i, d)
    PROVE  IsAbout(rows, i, d) /\ i \in DOMAIN rows.insts /\ rows.insts[i].attributes = d.attributes
BY DEF Identifies, IsAbout, ActiveRows

\* A call that is behind no reference row has written nothing.
LEMMA NothingWritten ==
    ASSUME NEW c \in Callers, pc'[c] \notin Applying
    PROVE  WrittenOK(c)'
BY DEF WrittenOK

\* A transaction that a step leaves open has written what it had written.
LEMMA WrittenKept ==
    ASSUME CatalogInv, SameTables, IsRows(catalog'), NEW e \in Callers, WrittenOK(e),
           pc'[e] = pc[e], doc'[e] = doc[e], position'[e] = position[e], work'[e] = work[e]
    PROVE  WrittenOK(e)'
<1> SUFFICES ASSUME pc'[e] \in Applying PROVE WrittenOK(e)'
  BY NothingWritten
<1> DEFINE v == View(e)
           w == View(e)'
<1>1. Manifest(e)' = Manifest(e) /\ Item(e)' = Item(e) /\ ItemsOf(e)' = ItemsOf(e)
  BY DEF Manifest, Item, ItemsOf
<1>2. IsRows(catalog)
  BY DEF CatalogInv, StateTyped
<1>3. /\ v.insts = Overlay(work[e].insts, catalog.insts)
      /\ v.ids = Overlay(work[e].ids, catalog.ids)
      /\ v.specs = Overlay(work[e].specs, catalog.specs)
  BY <1>2, MergedRows DEF View
<1>4. w = Merge(work[e], catalog')
  BY DEF View
<1>5. /\ w.insts = Overlay(work[e].insts, catalog'.insts)
      /\ w.ids = Overlay(work[e].ids, catalog'.ids)
      /\ w.specs = Overlay(work[e].specs, catalog'.specs)
  BY <1>4, MergedRows
<1>6. w.insts = v.insts /\ w.ids = v.ids /\ w.specs = v.specs
  BY <1>3, <1>5 DEF SameTables
<1>7. Continues(w, v)
  BY <1>6 DEF Continues
<1>8. /\ RowsStated(ItemsOf(e), v, catalog)
      /\ \A m \in DOMAIN Manifest(e).items :
            pc[e] = "commit" \/ m < position[e] => Stored(v, Manifest(e).items[m])
      /\ pc[e] = "rename" => \E i : Identifies(v.insts, v.ids, i, Item(e))
      /\ pc[e] = "specify" => Placed(v, Item(e))
  BY DEF WrittenOK
<1> HIDE DEF v, w
<1>9. RowsStated(ItemsOf(e), w, catalog')
  BY <1>6, <1>8, StatedSame DEF SameTables
<1>10. \A d : Stored(v, d) => Stored(w, d)
  BY <1>7, StoredKept
<1>11. Placed(v, Item(e)) => Placed(w, Item(e))
  BY <1>6 DEF Placed
<1> QED
  BY <1>1, <1>6, <1>8, <1>9, <1>10, <1>11 DEF WrittenOK, w

\* A transaction that adds stated rows to those it reads.
LEMMA WroteOn ==
    ASSUME CatalogInv, NEW c \in Callers, pc[c] \in Applying, WrittenOK(c), NEW w,
           Continues(w, View(c)), RowsStated(ItemsOf(c), w, View(c))
    PROVE  /\ RowsStated(ItemsOf(c), w, catalog)
           /\ \A m \in DOMAIN Manifest(c).items :
                 m < position[c] => Stored(w, Manifest(c).items[m])
<1>1. Continues(View(c), catalog)
  BY DEF CatalogInv, OpenOK, ViewOK
<1>2. /\ RowsStated(ItemsOf(c), View(c), catalog)
      /\ \A m \in DOMAIN Manifest(c).items :
            m < position[c] => Stored(View(c), Manifest(c).items[m])
  BY DEF WrittenOK
<1> QED
  BY <1>1, <1>2, StatedTwice, StoredKept

\* The first item begins.
LEMMA EnsureReferenceWrites ==
    ASSUME CatalogInv, CatalogInv', NEW c \in Callers, EnsureReference(c)
    PROVE  WrittenOK(c)'
<1>1. CASE Conflict(c)
  BY <1>1, ConflictLeaves, NothingWritten
<1>2. CASE Reached(c, position[c], References, "refs", "symbol")
  <2> SUFFICES ASSUME pc'[c] \in Applying PROVE WrittenOK(c)'
    BY NothingWritten
  <2>1. StateTyped /\ pc[c] = "refs" /\ UNCHANGED catalog
    BY DEF CatalogInv, EnsureReference
  <2>2. pc'[c] = "symbol" /\ position'[c] = 1
    BY <1>2, <2>1 DEF Reached, Goto, StateTyped, Applying
  <2>3. ValidManifest(Manifest(c)')
    <3>1. StateTyped' /\ doc'[c] # None
      BY <2>2 DEF CatalogInv, CallOK, CallTyped
    <3>2. doc'[c] \in Document /\ Manifest(c)' = doc'[c].manifest
      BY <3>1 DEF StateTyped, Manifest
    <3> QED
      BY <3>2, CatalogConstants DEF Document
  <2>4. \A m \in DOMAIN (Manifest(c)').items : ~(m < 1)
    BY <2>3 DEF ValidManifest
  <2>5. /\ work[c].insts = <<>> /\ work[c].ids = <<>> /\ work[c].specs = <<>>
        /\ IsRows(work[c]) /\ IsRows(catalog) /\ work = [e \in Callers |-> work[e]]
    BY <2>1 DEF CatalogInv, CallOK, CallTyped, StateTyped, Applying
  <2>6. /\ View(c).insts = catalog.insts /\ View(c).ids = catalog.ids
        /\ View(c).specs = catalog.specs
    <3>1. /\ View(c).insts = Overlay(<<>>, catalog.insts)
          /\ View(c).ids = Overlay(<<>>, catalog.ids)
          /\ View(c).specs = Overlay(<<>>, catalog.specs)
      BY <2>5, MergedRows DEF View
    <3>2. IsTable(catalog.insts) /\ IsTable(catalog.ids) /\ IsTable(catalog.specs)
      BY <2>5 DEF IsRows
    <3> QED
      BY <3>1, <3>2, OverlayNothing
  <2>7. /\ (View(c)').insts = catalog.insts /\ (View(c)').ids = catalog.ids
        /\ (View(c)').specs = catalog.specs
    <3>1. PICK rows : /\ Write(c, rows)
                      /\ rows.insts = <<>> /\ rows.ids = <<>> /\ rows.specs = <<>>
      <4>1. \A row : LET rows == [Nothing EXCEPT !.refs = row]
                     IN  rows.insts = <<>> /\ rows.ids = <<>> /\ rows.specs = <<>>
        BY DEF Nothing
      <4>2. ~Conflict(c)
        BY ConflictLeaves
      <4> QED
        BY <4>1, <4>2 DEF EnsureReference
    <3>2. /\ (View(c)').insts = Overlay(<<>>, catalog.insts)
          /\ (View(c)').ids = Overlay(<<>>, catalog.ids)
          /\ (View(c)').specs = Overlay(<<>>, catalog.specs)
      BY <2>1, <2>5, <2>6, <3>1, ReadsItsWrites
    <3>3. IsTable(catalog.insts) /\ IsTable(catalog.ids) /\ IsTable(catalog.specs)
      BY <2>5 DEF IsRows
    <3> QED
      BY <3>2, <3>3, OverlayNothing
  <2>8. RowsStated(ItemsOf(c)', View(c)', catalog')
    BY <2>1, <2>7, StatedNothing
  <2> QED
    BY <2>2, <2>4, <2>8 DEF WrittenOK
<1> QED
  BY <1>1, <1>2 DEF EnsureReference

\* The lock of a symbol.
LEMMA LockSymbolWrites ==
    ASSUME CatalogInv, NEW c \in Callers, WrittenOK(c), LockSymbol(c)
    PROVE  WrittenOK(c)'
<1>1. /\ pc[c] = "symbol" /\ pc'[c] = "isin" /\ pc[c] \in Applying
      /\ UNCHANGED <<catalog, doc, position, work>>
  BY DEF LockSymbol, Goto, CatalogInv, StateTyped, Applying
<1>2. View(c)' = View(c) /\ Manifest(c)' = Manifest(c) /\ ItemsOf(c)' = ItemsOf(c)
  BY <1>1 DEF View, Manifest, ItemsOf
<1> QED
  BY <1>1, <1>2 DEF WrittenOK

\* A new instrument has the symbol, the attributes and the ISIN of its item.
LEMMA ResolveInstrumentWrites ==
    ASSUME CatalogInv, NEW c \in Callers, WrittenOK(c), ResolveInstrument(c)
    PROVE  WrittenOK(c)'
<1> DEFINE d == Item(c)
           n == position[c]
           v == View(c)
           w == View(c)'
           items == Manifest(c).items
           isinOwner == OwnerAt(v.ids, "ISIN", d.isin, d.from)
           symbolOwner == OwnerAt(v.ids, "BRSAPI_L18", d.symbol, d.from)
<1>1. /\ pc[c] = "isin" /\ pc[c] \in Applying
      /\ UNCHANGED <<catalog, doc, position>>
      /\ Manifest(c)' = Manifest(c) /\ ItemsOf(c)' = ItemsOf(c) /\ Item(c)' = Item(c)
  BY DEF ResolveInstrument, Applying, Manifest, ItemsOf, Item
<1>2. ViewOK(c, "isin", n, d, v, catalog)
  BY <1>1 DEF CatalogInv, OpenOK
<1>3. n \in Nat /\ ValidDefinition(d) /\ d = items[n] /\ d \in ItemsOf(c)
  BY <1>1, ItemValid DEF ItemsOf
<1>4. d.from \in Nat /\ d.from < Forever
  BY <1>3, ForeverTyped, CatalogConstants DEF ValidDefinition
<1>5. CASE Conflict(c) \/ Refuse(c)
  BY <1>5, ConflictLeaves, NothingWritten
<1>6. CASE /\ ~Overlaps(v.ids, "ISIN", d.isin, d.from)
           /\ ~Overlaps(v.ids, "BRSAPI_L18", d.symbol, d.from)
           /\ Write(c, NewInstrument(c, <<c, n>>)) /\ Goto(c, "specify")
  <2> DEFINE i == <<c, n>>
             rows == NewInstrument(c, i)
             open == [to |-> Forever, owner |-> i]
             a == <<"ISIN", d.isin, d.from>>
             b == <<"BRSAPI_L18", d.symbol, d.from>>
  <2>1. /\ rows.insts = Row(i, Instrument(d)) /\ rows.specs = <<>>
        /\ rows.ids = Overlay(Row(a, open), Row(b, open))
    BY DEF NewInstrument, Nothing
  <2> HIDE DEF rows
  <2>2. Write(c, rows)
    BY <1>6 DEF rows
  <2>3. /\ w.insts = Overlay(rows.insts, v.insts) /\ w.ids = Overlay(rows.ids, v.ids)
        /\ w.specs = Overlay(rows.specs, v.specs)
    BY <1>1, <2>2, ViewRows, ReadsItsWrites
  <2>4. w.specs = v.specs
    BY <2>1, <2>3, ViewRows, OverlayNothing
  <2>5. /\ a # b /\ open.owner = i /\ open.to = Forever
        /\ a[1] = "ISIN" /\ a[2] = d.isin /\ a[3] = d.from
        /\ b[1] = "BRSAPI_L18" /\ b[2] = d.symbol /\ b[3] = d.from
    OBVIOUS
  <2>6. i \notin DOMAIN v.insts /\ i # None
    BY <1>2, <1>3, CatalogConstants DEF ViewOK, CreatedSoFar
  <2>7. Instrument(d).attributes = d.attributes
    BY DEF Instrument
  <2> HIDE DEF v, w, items, open, a, b, i, d
  <2>8. /\ DOMAIN w.insts = DOMAIN v.insts \cup {i}
        /\ w.insts[i] = Instrument(d)
        /\ \A j \in DOMAIN v.insts : w.insts[j] = v.insts[j]
    BY <2>1, <2>3, <2>6 DEF Overlay, Row
  <2>9. /\ DOMAIN w.ids = DOMAIN v.ids \cup {a, b}
        /\ w.ids[a] = open /\ w.ids[b] = open
        /\ \A k \in DOMAIN v.ids : k \notin {a, b} => w.ids[k] = v.ids[k]
    BY <2>1, <2>3, <2>5 DEF Overlay, Row
  <2>10. a \notin DOMAIN v.ids /\ b \notin DOMAIN v.ids
    <3>1. \A k \in DOMAIN v.ids : k[3] \in Nat /\ v.ids[k].to \in Nat /\ k[3] < v.ids[k].to
      BY <1>2, ForeverTyped DEF ViewOK, Sound, RowsTyped
    <3> QED
      BY <1>6, <2>5, <3>1 DEF Overlaps
  <2>11. Continues(w, v)
    BY <2>4, <2>8, <2>9, <2>10 DEF Continues
  <2>12. IsAbout(w, i, d)
    BY <2>5, <2>9 DEF IsAbout
  <2>13. RowsStated(ItemsOf(c), w, v)
    <3>1. ASSUME NEW j \in Changed(w.insts, v.insts)
          PROVE  \E e \in ItemsOf(c) : IsAbout(w, j, e) /\ w.insts[j] = Instrument(e)
      BY <1>3, <2>8, <2>12, <3>1 DEF Changed
    <3>2. ASSUME NEW k \in Changed(w.ids, v.ids)
          PROVE  k \in {a, b}
      BY <2>9, <3>2 DEF Changed
    <3>3. OpensIdentifier(w, a, d) /\ OpensIdentifier(w, b, d)
      BY <2>5, <2>9, <2>12 DEF OpensIdentifier
    <3>4. Changed(w.specs, v.specs) = {}
      BY <2>4 DEF Changed
    <3> QED
      BY <1>3, <2>5, <2>9, <2>10, <3>1, <3>2, <3>3, <3>4 DEF RowsStated
  <2>14. pc'[c] = "specify" /\ position'[c] = n
    BY <1>1, <1>6 DEF Goto, CatalogInv, StateTyped
  <2>15. Placed(w, d)
    <3>1. a \in ActiveRows(w.ids, "ISIN", d.isin, d.from) /\ w.ids[a].owner = i
      BY <1>4, <2>5, <2>9, ForeverTyped DEF ActiveRows
    <3>2. Identifies(w.insts, w.ids, i, d)
      BY <2>6, <2>7, <2>8, <3>1 DEF Identifies
    <3> QED
      BY <2>5, <2>9, <3>2 DEF Placed
  <2>16. /\ RowsStated(ItemsOf(c), w, catalog)
         /\ \A m \in DOMAIN Manifest(c).items : m < n => Stored(w, Manifest(c).items[m])
    BY <1>1, <2>11, <2>13, WroteOn DEF v
  <2> QED
    BY <1>1, <2>14, <2>15, <2>16 DEF WrittenOK, w, d
<1>7. CASE /\ isinOwner # None /\ ~IdentityConflict(isinOwner, symbolOwner)
           /\ SameIdentity(v.insts[isinOwner], d)
           /\ Goto(c, IF symbolOwner = None THEN "rename" ELSE "specify")
           /\ UNCHANGED work
  <2>1. w = v
    BY <1>1, <1>7 DEF View
  <2>2. PICK k \in ActiveRows(v.ids, "ISIN", d.isin, d.from) : v.ids[k].owner = isinOwner
    BY <1>7, OwnerHasRow
  <2>3. isinOwner \in DOMAIN v.insts
    BY <1>2, <2>2 DEF ViewOK, Sound, RowsTyped, ActiveRows
  <2>4. Identifies(v.insts, v.ids, isinOwner, d)
    BY <1>7, <2>2, <2>3 DEF Identifies, SameIdentity
  <2>5. symbolOwner # None => Placed(v, d)
    <3> SUFFICES ASSUME symbolOwner # None PROVE Placed(v, d)
      OBVIOUS
    <3>1. symbolOwner = isinOwner
      BY <1>7 DEF IdentityConflict
    <3>2. PICK r \in ActiveRows(v.ids, "BRSAPI_L18", d.symbol, d.from) :
             v.ids[r].owner = isinOwner
      BY <3>1, OwnerHasRow
    <3> HIDE DEF isinOwner, symbolOwner, v, d
    <3> QED
      BY <2>4, <3>2 DEF Placed, ActiveRows
  <2>6. PICK next \in {"rename", "specify"} :
          Goto(c, next) /\ (next = "specify" => symbolOwner # None)
    BY <1>7
  <2>7. pc'[c] = next /\ position'[c] = n
    BY <1>1, <2>6 DEF Goto, CatalogInv, StateTyped
  <2>8. /\ RowsStated(ItemsOf(c), v, catalog)
        /\ \A m \in DOMAIN Manifest(c).items : m < n => Stored(v, Manifest(c).items[m])
    BY <1>1 DEF WrittenOK
  <2> HIDE DEF isinOwner, symbolOwner, v, w, d
  <2>9. \E i : Identifies(v.insts, v.ids, i, d)
    BY <2>4
  <2> QED
    BY <1>1, <2>1, <2>5, <2>6, <2>7, <2>8, <2>9 DEF WrittenOK, w, d
<1> QED
  BY <1>5, <1>6, <1>7 DEF ResolveInstrument, CreateInstrument

\* The rows of a rename: the instrument has its new symbol, the old interval is closed
\* where the new one opens.
LEMMA RenameWrites ==
    ASSUME CatalogInv, NEW c \in Callers, WrittenOK(c), Rename(c)
    PROVE  WrittenOK(c)'
<1> DEFINE d == Item(c)
           n == position[c]
           v == View(c)
           w == View(c)'
           i == ItemOwner(c)
           new == OwnerAt(v.ids, "BRSAPI_L18", d.symbol, d.rename)
           old == ActiveRows(v.ids, "BRSAPI_L18", d.previous, d.rename)
           mine == {k \in old : v.ids[k].owner = i /\ k[3] < d.rename}
<1>1. /\ pc[c] = "rename" /\ pc[c] \in Applying
      /\ UNCHANGED <<catalog, doc, position>>
      /\ Manifest(c)' = Manifest(c) /\ ItemsOf(c)' = ItemsOf(c) /\ Item(c)' = Item(c)
  BY DEF Rename, Applying, Manifest, ItemsOf, Item
<1>2. ViewOK(c, "rename", n, d, v, catalog)
  BY <1>1 DEF CatalogInv, OpenOK
<1>3. n \in Nat /\ ValidDefinition(d) /\ d \in ItemsOf(c)
  BY <1>1, ItemValid DEF ItemsOf
<1>4. d.from \in Nat /\ d.rename \in Nat /\ d.rename < Forever
  BY <1>2, <1>3, ForeverTyped, CatalogConstants DEF ViewOK, ValidDefinition
<1>5. RowsTyped(v.insts, v.ids, v.specs) /\ OwnersAreUnique(v.ids)
  BY <1>2 DEF ViewOK, Sound, Identified
<1>6. Identifies(v.insts, v.ids, i, d)
  <2>1. PICK j : Identifies(v.insts, v.ids, j, d)
    BY <1>1 DEF WrittenOK
  <2>2. PICK k \in ActiveRows(v.ids, "ISIN", d.isin, d.from) : v.ids[k].owner = j
    BY <2>1 DEF Identifies
  <2>3. i = OwnerAt(v.ids, "ISIN", d.isin, d.from)
    BY DEF ItemOwner
  <2> HIDE DEF v, d, i
  <2>4. i = j
    BY <1>4, <1>5, <2>2, <2>3, OwnerIs
  <2> QED
    BY <2>1, <2>4
<1>7. /\ RowsStated(ItemsOf(c), v, catalog)
      /\ \A m \in DOMAIN Manifest(c).items : m < n => Stored(v, Manifest(c).items[m])
  BY <1>1 DEF WrittenOK
<1>8. CASE Conflict(c) \/ Refuse(c)
  BY <1>8, ConflictLeaves, NothingWritten
<1>9. CASE new = i /\ Goto(c, "specify") /\ UNCHANGED work
  <2>1. w = v
    BY <1>1, <1>9 DEF View
  <2>2. i # None
    BY <1>6 DEF Identifies
  <2>3. \E r \in ActiveRows(v.ids, "BRSAPI_L18", d.symbol, d.rename) : v.ids[r].owner = i
    BY <1>9, <2>2, OwnerHasRow
  <2>4. pc'[c] = "specify" /\ position'[c] = n
    BY <1>1, <1>9 DEF Goto, CatalogInv, StateTyped
  <2> HIDE DEF v, w, d, i, n
  <2>5. Placed(v, d)
    BY <1>6, <2>3 DEF Placed, ActiveRows
  <2> QED
    BY <1>1, <1>7, <2>1, <2>4, <2>5 DEF WrittenOK, w, d
<1>10. ASSUME NEW k \in mine, Closable(v.ids, k),
              ~Overlaps(v.ids, "BRSAPI_L18", d.symbol, d.rename),
              Write(c, RenameRows(c, k)), Goto(c, "specify")
       PROVE  WrittenOK(c)'
  <2> DEFINE rows == RenameRows(c, k)
             open == [to |-> Forever, owner |-> i]
             closed == [to |-> d.rename, owner |-> i]
             inst == [v.insts[i] EXCEPT !.symbol = d.symbol]
             b == <<"BRSAPI_L18", d.symbol, d.rename>>
  <2>1. /\ rows.insts = Row(i, inst) /\ rows.specs = <<>>
        /\ rows.ids = Overlay(Row(k, closed), Row(b, open))
    BY DEF RenameRows, Nothing
  <2> HIDE DEF rows
  <2>2. Write(c, rows)
    BY <1>10 DEF rows
  <2>3. /\ w.insts = Overlay(rows.insts, v.insts) /\ w.ids = Overlay(rows.ids, v.ids)
        /\ w.specs = Overlay(rows.specs, v.specs)
    BY <1>1, <2>2, ViewRows, ReadsItsWrites
  <2>4. w.specs = v.specs
    BY <2>1, <2>3, ViewRows, OverlayNothing
  <2>5. /\ k \in DOMAIN v.ids /\ v.ids[k].owner = i /\ k[1] = "BRSAPI_L18"
        /\ k[2] = d.previous /\ k[3] < d.rename /\ v.ids[k].to = Forever
    BY <1>10 DEF ActiveRows, Closable
  <2>6. /\ b[1] = "BRSAPI_L18" /\ b[2] = d.symbol /\ b[3] = d.rename
        /\ open.owner = i /\ open.to = Forever /\ closed.owner = i /\ closed.to = d.rename
    OBVIOUS
  <2>7. /\ i \in DOMAIN v.insts /\ v.insts[i].attributes = d.attributes /\ i # None
    BY <1>6 DEF Identifies
  <2>8. inst = Instrument(d) /\ inst.attributes = v.insts[i].attributes
    <3>1. v.insts[i] = [symbol |-> v.insts[i].symbol, attributes |-> v.insts[i].attributes]
      BY <1>5, <2>7 DEF RowsTyped
    <3> HIDE DEF v, i, d
    <3> QED
      BY <2>7, <3>1 DEF Instrument
  <2> HIDE DEF d, v, w, n, i, open, closed, inst, b, mine
  <2>9. k # b
    <3>1. k[3] \in Nat
      BY <1>5, <2>5 DEF RowsTyped
    <3> QED
      BY <1>4, <2>5, <2>6, <3>1
  <2>10. /\ DOMAIN w.insts = DOMAIN v.insts
         /\ w.insts[i] = inst
         /\ \A j \in DOMAIN v.insts : j # i => w.insts[j] = v.insts[j]
    BY <2>1, <2>3, <2>7 DEF Overlay, Row
  <2>11. /\ DOMAIN w.ids = DOMAIN v.ids \cup {b}
         /\ w.ids[b] = open /\ w.ids[k] = closed
         /\ \A l \in DOMAIN v.ids : l \notin {k, b} => w.ids[l] = v.ids[l]
    BY <2>1, <2>3, <2>5, <2>9 DEF Overlay, Row
  <2>12. b \notin DOMAIN v.ids
    <3>1. \A l \in DOMAIN v.ids : l[3] \in Nat /\ v.ids[l].to \in Nat /\ l[3] < v.ids[l].to
      BY <1>5, ForeverTyped DEF RowsTyped
    <3> QED
      BY <1>10, <2>6, <3>1 DEF Overlaps
  <2>13. \A l \in DOMAIN v.ids : l # k => w.ids[l] = v.ids[l]
    BY <2>11, <2>12
  <2>14. Continues(w, v)
    <3>1. \A j \in DOMAIN v.insts :
             j \in DOMAIN w.insts /\ w.insts[j].attributes = v.insts[j].attributes
      BY <2>8, <2>10
    <3>2. \A l \in DOMAIN v.ids :
             /\ l \in DOMAIN w.ids /\ w.ids[l].owner = v.ids[l].owner
             /\ v.ids[l].to # Forever => w.ids[l] = v.ids[l]
      BY <2>5, <2>6, <2>11, <2>13
    <3> QED
      BY <2>4, <3>1, <3>2 DEF Continues
  <2>15. IsAbout(w, i, d)
    BY <1>6, <2>14, AboutKept, IdentifiedIsAbout
  <2>16. RowsStated(ItemsOf(c), w, v)
    <3>1. ASSUME NEW j \in Changed(w.insts, v.insts)
          PROVE  \E e \in ItemsOf(c) : IsAbout(w, j, e) /\ w.insts[j] = Instrument(e)
      BY <1>3, <2>8, <2>10, <2>15, <3>1 DEF Changed
    <3>2. ASSUME NEW l \in Changed(w.ids, v.ids)
          PROVE  l \in {k, b}
      BY <2>11, <2>13, <3>2 DEF Changed
    <3>3. OpensIdentifier(w, b, d) /\ ClosesIdentifier(w, k, d)
      BY <2>5, <2>6, <2>11, <2>15 DEF OpensIdentifier, ClosesIdentifier
    <3>4. Changed(w.specs, v.specs) = {}
      BY <2>4 DEF Changed
    <3> QED
      BY <1>3, <2>5, <2>6, <2>11, <2>12, <3>1, <3>2, <3>3, <3>4 DEF RowsStated
  <2>17. pc'[c] = "specify" /\ position'[c] = n
    BY <1>1, <1>10 DEF Goto, CatalogInv, StateTyped, n
  <2>18. Placed(w, d)
    <3>1. PICK l \in ActiveRows(v.ids, "ISIN", d.isin, d.from) : v.ids[l].owner = i
      BY <1>6 DEF Identifies
    <3>2. l \in DOMAIN v.ids /\ l # k
      BY <2>5, <3>1 DEF ActiveRows
    <3>3. l \in ActiveRows(w.ids, "ISIN", d.isin, d.from) /\ w.ids[l].owner = i
      BY <2>11, <2>13, <3>1, <3>2 DEF ActiveRows
    <3>4. Identifies(w.insts, w.ids, i, d)
      BY <2>7, <2>8, <2>10, <3>3 DEF Identifies
    <3> QED
      BY <2>6, <2>11, <3>4 DEF Placed
  <2>19. /\ RowsStated(ItemsOf(c), w, catalog)
         /\ \A m \in DOMAIN Manifest(c).items : m < n => Stored(w, Manifest(c).items[m])
    BY <1>1, <2>14, <2>16, WroteOn DEF v, n
  <2> QED
    BY <1>1, <2>17, <2>18, <2>19 DEF WrittenOK, w, d
<1> QED
  BY <1>8, <1>9, <1>10 DEF Rename

\* When _apply_specification writes nothing, the version is there.
LEMMA SpecificationThere ==
    ASSUME NEW specs, NEW i, NEW d, SpecificationRows(specs, i, d) # None
    PROVE  \/ <<i, d.specFrom>> \in DOMAIN specs /\ specs[<<i, d.specFrom>>].spec = d.spec
           \/ SpecRows(specs, i) # {} /\ specs[LatestSpec(specs, i)].spec = d.spec
           \/ <<i, d.specFrom>> \notin DOMAIN specs
              /\ (SpecRows(specs, i) = {} \/ ~SameSpecification(specs[LatestSpec(specs, i)], d))
BY DEF SpecificationRows, SameSpecification

\* The latest version is one of them.
LEMMA LatestIsThere ==
    ASSUME NEW insts, NEW ids, NEW specs, NEW i, RowsTyped(insts, ids, specs),
           SpecChain(specs, i)
    PROVE  LatestSpec(specs, i) \in SpecRows(specs, i)
<1>1. PICK last \in SpecRows(specs, i) : \A k \in SpecRows(specs, i) \ {last} : k[2] < last[2]
  BY DEF SpecChain
<1>2. \A k \in SpecRows(specs, i) : k[2] \in Nat
  BY DEF RowsTyped, SpecRows
<1>3. \A k \in SpecRows(specs, i) : k[2] <= last[2]
  BY <1>1, <1>2
<1> QED
  BY <1>3 DEF LatestSpec

\* The rows of a specification.
LEMMA SpecificationStated ==
    ASSUME NEW items, NEW d \in items, NEW v, NEW w, NEW i, NEW rows,
           RowsTyped(v.insts, v.ids, v.specs), IsAbout(v, i, d),
           SpecRows(v.specs, i) # {} => SpecChain(v.specs, i),
           rows = SpecificationRows(v.specs, i, d), rows # None, IsTable(v.specs),
           w.insts = v.insts, w.ids = v.ids, w.specs = Overlay(rows.specs, v.specs)
    PROVE  /\ Continues(w, v) /\ RowsStated(items, w, v)
           /\ \E k \in SpecRows(w.specs, i) : w.specs[k].spec = d.spec
<1> DEFINE last == LatestSpec(v.specs, i)
           key == <<i, d.specFrom>>
           first == [to |-> Forever, spec |-> d.spec]
           closed == [v.specs[last] EXCEPT !.to = d.specFrom]
<1>1. \/ rows.specs = <<>> /\ SpecRows(v.specs, i) # {}
      \/ /\ key \notin DOMAIN v.specs /\ SpecRows(v.specs, i) = {}
         /\ rows.specs = Row(key, first)
      \/ /\ key \notin DOMAIN v.specs /\ SpecRows(v.specs, i) # {}
         /\ ~SameSpecification(v.specs[last], d)
         /\ v.specs[last].to = Forever
         /\ rows.specs = Overlay(Row(key, first), Row(last, closed))
  BY SpecificationCases
<1>2. SpecRows(v.specs, i) # {} =>
        last \in SpecRows(v.specs, i) /\ last \in DOMAIN v.specs /\ last[1] = i
  BY LatestIsThere DEF SpecRows
<1>3. key[1] = i /\ key[2] = d.specFrom /\ first.to = Forever /\ first.spec = d.spec
  OBVIOUS
<1>4. \A j, e : IsAbout(v, j, e) => IsAbout(w, j, e)
  BY DEF IsAbout
<1>5. Changed(w.insts, v.insts) = {} /\ Changed(w.ids, v.ids) = {}
  BY DEF Changed
<1>6. SpecRows(v.specs, i) # {} =>
        v.specs[last] = [to |-> v.specs[last].to, spec |-> v.specs[last].spec]
  BY <1>2 DEF RowsTyped
<1>7. SpecRows(v.specs, i) # {} => closed.to = d.specFrom /\ closed.spec = v.specs[last].spec
  BY <1>6
<1>8. \/ key \in DOMAIN v.specs /\ v.specs[key].spec = d.spec
      \/ SpecRows(v.specs, i) # {} /\ v.specs[last].spec = d.spec
      \/ /\ key \notin DOMAIN v.specs
         /\ SpecRows(v.specs, i) = {} \/ ~SameSpecification(v.specs[last], d)
  BY SpecificationThere
<1> HIDE DEF key, first, last, closed
<1>9. CASE rows.specs = <<>> /\ SpecRows(v.specs, i) # {}
  <2>1. w.specs = v.specs
    BY <1>9, OverlayNothing
  <2>2. Continues(w, v) /\ RowsStated(items, w, v)
    BY <2>1, StatedNothing DEF Continues
  <2>3. \/ key \in DOMAIN v.specs /\ v.specs[key].spec = d.spec
        \/ v.specs[last].spec = d.spec
    <3>1. key \notin DOMAIN v.specs /\ ~SameSpecification(v.specs[last], d) => FALSE
      <4> SUFFICES ASSUME key \notin DOMAIN v.specs, ~SameSpecification(v.specs[last], d)
                   PROVE  FALSE
        OBVIOUS
      <4>1. rows = IF d.specFrom <= last[2] \/ v.specs[last].to # Forever THEN None
                   ELSE [Nothing EXCEPT !.specs = Overlay(NewSpec(i, d), Row(last, closed))]
        BY <1>9 DEF SpecificationRows, key, last, closed
      <4>2. rows.specs = Overlay(NewSpec(i, d), Row(last, closed))
        BY <4>1 DEF Nothing
      <4>3. DOMAIN <<>> = {} /\ last \in DOMAIN Overlay(NewSpec(i, d), Row(last, closed))
        BY DEF Overlay, Row
      <4> QED
        BY <1>9, <4>2, <4>3
    <3> QED
      BY <1>8, <1>9, <3>1
  <2> QED
    BY <1>2, <1>3, <1>9, <2>1, <2>2, <2>3 DEF SpecRows
<1>10. CASE /\ key \notin DOMAIN v.specs /\ SpecRows(v.specs, i) = {}
            /\ rows.specs = Row(key, first)
  <2>1. /\ DOMAIN w.specs = DOMAIN v.specs \cup {key}
        /\ w.specs[key] = first
        /\ \A k \in DOMAIN v.specs : w.specs[k] = v.specs[k]
    BY <1>10 DEF Overlay, Row
  <2>2. Continues(w, v)
    BY <2>1 DEF Continues
  <2>3. OpensSpec(w, key, d)
    BY <1>3, <1>4, <2>1 DEF OpensSpec
  <2>4. \A k \in Changed(w.specs, v.specs) : k = key
    BY <2>1 DEF Changed
  <2>5. RowsStated(items, w, v)
    BY <1>3, <1>5, <1>10, <2>1, <2>3, <2>4 DEF RowsStated
  <2> QED
    BY <1>3, <2>1, <2>2, <2>5 DEF SpecRows
<1>11. CASE /\ key \notin DOMAIN v.specs /\ SpecRows(v.specs, i) # {}
            /\ v.specs[last].to = Forever
            /\ rows.specs = Overlay(Row(key, first), Row(last, closed))
  <2>1. /\ DOMAIN w.specs = DOMAIN v.specs \cup {key}
        /\ w.specs[key] = first /\ w.specs[last] = closed
        /\ \A k \in DOMAIN v.specs : k # last => w.specs[k] = v.specs[k]
    BY <1>2, <1>11 DEF Overlay, Row
  <2>2. Continues(w, v)
    BY <1>7, <1>11, <2>1 DEF Continues
  <2>3. OpensSpec(w, key, d) /\ ClosesSpec(w, last, d)
    BY <1>2, <1>3, <1>4, <1>7, <1>11, <2>1 DEF OpensSpec, ClosesSpec
  <2>4. \A k \in Changed(w.specs, v.specs) : k \in {key, last}
    BY <2>1 DEF Changed
  <2>5. RowsStated(items, w, v)
    BY <1>2, <1>3, <1>5, <1>11, <2>1, <2>3, <2>4 DEF RowsStated
  <2> QED
    BY <1>3, <2>1, <2>2, <2>5 DEF SpecRows
<1> QED
  BY <1>1, <1>9, <1>10, <1>11

\* The item is complete.
LEMMA SpecifyWrites ==
    ASSUME CatalogInv, NEW c \in Callers, WrittenOK(c), Specify(c)
    PROVE  WrittenOK(c)'
<1> DEFINE d == Item(c)
           n == position[c]
           v == View(c)
           w == View(c)'
           items == Manifest(c).items
           i == ItemOwner(c)
           rows == SpecificationRows(v.specs, i, d)
<1>1. /\ pc[c] = "specify" /\ pc[c] \in Applying
      /\ UNCHANGED <<catalog, doc>>
      /\ Manifest(c)' = Manifest(c) /\ ItemsOf(c)' = ItemsOf(c)
  BY DEF Specify, Applying, Manifest, ItemsOf
<1>2. ViewOK(c, "specify", n, d, v, catalog)
  BY <1>1 DEF CatalogInv, OpenOK
<1>3. /\ n \in Nat /\ n \in DOMAIN items /\ d = items[n] /\ d \in ItemsOf(c)
      /\ DOMAIN items = 1..Len(items) /\ Len(items) \in Nat /\ d.from \in Nat
  BY <1>1, ItemValid, ForeverTyped DEF ValidManifest, ItemsOf, ValidDefinition
<1>4. CASE Conflict(c)
  BY <1>4, ConflictLeaves, NothingWritten
<1>5. CASE rows # None /\ Write(c, rows) /\ Reached(c, n, Len(items), "symbol", "commit")
  <2>1. /\ w.insts = Overlay(rows.insts, v.insts) /\ w.ids = Overlay(rows.ids, v.ids)
        /\ w.specs = Overlay(rows.specs, v.specs) /\ IsTable(v.specs)
    BY <1>1, <1>5, ViewRows, ReadsItsWrites
  <2>2. rows.insts = <<>> /\ rows.ids = <<>> /\ rows = SpecificationRows(v.specs, i, d)
    <3> HIDE DEF v, i, d
    <3> QED
      BY <1>5, SpecificationOnly
  <2>3. w.insts = v.insts /\ w.ids = v.ids
    BY <2>1, <2>2, ViewRows, OverlayNothing
  <2>4. \/ n = Len(items) /\ pc'[c] = "commit" /\ position'[c] = 1
        \/ n # Len(items) /\ pc'[c] = "symbol" /\ position'[c] = n + 1
    BY <1>5 DEF Reached, Goto, CatalogInv, StateTyped
  <2>5. PICK j : /\ Identifies(v.insts, v.ids, j, d)
                 /\ \E k \in DOMAIN v.ids :
                       k[1] = "BRSAPI_L18" /\ k[2] = d.symbol /\ v.ids[k].owner = j
    BY <1>1 DEF WrittenOK, Placed
  <2>6. /\ RowsTyped(v.insts, v.ids, v.specs) /\ OwnersAreUnique(v.ids)
        /\ i = OwnerAt(v.ids, "ISIN", d.isin, d.from)
        /\ Specified(v.insts, v.specs, {i})
    BY <1>2 DEF ViewOK, Sound, Identified, ItemOwner
  <2> HIDE DEF d, n, v, w, items, i, rows
  <2>7. i = j
    <3>1. PICK k \in ActiveRows(v.ids, "ISIN", d.isin, d.from) : v.ids[k].owner = j
      BY <2>5 DEF Identifies
    <3> QED
      BY <1>3, <2>6, <3>1, OwnerIs
  <2>8. /\ IsAbout(v, i, d) /\ i \in DOMAIN v.insts
        /\ v.insts[i].attributes = d.attributes
    BY <2>5, <2>7, IdentifiedIsAbout
  <2>9. SpecRows(v.specs, i) # {} => SpecChain(v.specs, i)
    BY <2>6, <2>8 DEF Specified
  <2>10. /\ Continues(w, v) /\ RowsStated(ItemsOf(c), w, v)
         /\ \E k \in SpecRows(w.specs, i) : w.specs[k].spec = d.spec
    <3>1. PICK x : x = w
      OBVIOUS
    <3>2. PICK set : set = ItemsOf(c)
      OBVIOUS
    <3>3. /\ d \in set /\ rows # None /\ x.insts = v.insts /\ x.ids = v.ids
          /\ x.specs = Overlay(rows.specs, v.specs)
      BY <1>3, <1>5, <2>1, <2>3, <3>1, <3>2
    <3>4. /\ Continues(x, v) /\ RowsStated(set, x, v)
          /\ \E k \in SpecRows(x.specs, i) : x.specs[k].spec = d.spec
      BY <2>1, <2>2, <2>6, <2>8, <2>9, <3>3, SpecificationStated
    <3> QED
      BY <3>1, <3>2, <3>4
  <2>11. /\ RowsStated(ItemsOf(c), w, catalog)
         /\ \A m \in DOMAIN items : m < n => Stored(w, items[m])
    BY <1>1, <2>10, WroteOn DEF v, n, items
  <2>12. Stored(w, items[n])
    <3>1. IsAbout(w, i, d)
      BY <2>8, <2>10, AboutKept
    <3>2. \E k \in DOMAIN w.ids :
             k[1] = "BRSAPI_L18" /\ k[2] = d.symbol /\ w.ids[k].owner = i
      BY <2>3, <2>5, <2>7
    <3> QED
      BY <1>3, <2>3, <2>8, <2>10, <3>1, <3>2 DEF Stored
  <2>13. \A m \in DOMAIN items :
            pc'[c] = "commit" \/ m < position'[c] => Stored(w, items[m])
    <3> SUFFICES ASSUME NEW m \in DOMAIN items, pc'[c] = "commit" \/ m < position'[c]
                 PROVE  Stored(w, items[m])
      OBVIOUS
    <3>1. m \in Nat /\ m <= Len(items)
      BY <1>3
    <3>2. m < n \/ m = n
      <4>1. CASE n = Len(items)
        BY <1>3, <3>1, <4>1
      <4>2. CASE position'[c] = n + 1 /\ pc'[c] = "symbol"
        BY <1>3, <3>1, <4>2
      <4> QED
        BY <2>4, <4>1, <4>2
    <3> QED
      BY <2>11, <2>12, <3>2
  <2> QED
    BY <1>1, <2>4, <2>11, <2>13 DEF WrittenOK, w, items
<1> QED
  BY <1>4, <1>5 DEF Specify

\* Every step keeps what open transactions have written.
LEMMA WrittenNext ==
    ASSUME CatalogInv, CatalogInv', WrittenInv, [Next]_vars
    PROVE  WrittenInv'
<1>1. IsRows(catalog')
  BY DEF CatalogInv, StateTyped
<1>2. CASE UNCHANGED vars
  <2>1. SameTables
    BY <1>2 DEF SameTables, vars
  <2>2. \A e \in Callers : /\ pc'[e] = pc[e] /\ doc'[e] = doc[e]
                           /\ position'[e] = position[e] /\ work'[e] = work[e]
    BY <1>2 DEF vars
  <2> QED
    BY <1>1, <2>1, <2>2, WrittenKept DEF WrittenInv
<1>3. ASSUME NEW c \in Callers, Aside(c)
      PROVE  WrittenInv'
  BY <1>1, <1>3, WrittenKept, NothingWritten DEF WrittenInv, Aside
<1>4. ASSUME NEW c \in Callers, Within(c)
      PROVE  WrittenInv'
  <2>1. StepOf(c) /\ UNCHANGED catalog /\ SameTables
    BY <1>4, ApplyingSteps DEF Within, SameTables
  <2>2. WrittenOK(c)
    BY DEF WrittenInv
  <2>3. WrittenOK(c)'
    BY <1>4, <2>2, EnsureReferenceWrites, LockSymbolWrites, ResolveInstrumentWrites,
       RenameWrites, SpecifyWrites DEF Within
  <2> QED
    BY <1>1, <2>1, <2>3, WrittenKept DEF WrittenInv, StepOf
<1>5. ASSUME \A e \in Callers : pc'[e] \notin Applying
      PROVE  WrittenInv'
  BY <1>5, NothingWritten DEF WrittenInv
<1>6. CASE Next
  BY <1>3, <1>4, <1>5, <1>6, StepKinds
<1> QED
  BY <1>2, <1>6

-----------------------------------------------------------------------------
(* References *)

\* The references that transaction C has written: those it has passed, as stated, and
\* none that disagrees with a committed one.
RefsOK(c) ==
    /\ pc[c] = "refs" => DOMAIN work[c].refs = 1..(position[c] - 1)
    /\ pc[c] \in Applying => DOMAIN work[c].refs = RefKeys
    /\ pc[c] \in Applying \cup {"refs"} =>
          \A k \in DOMAIN work[c].refs :
             work[c].refs[k] = Manifest(c).refs[k] /\ Agrees(catalog.refs, k, Manifest(c))

RefsInv == \A c \in Callers : RefsOK(c)

\* The table of the references in merged rows.
LEMMA MergedRefs ==
    ASSUME NEW new, NEW old, IsRows(old)
    PROVE  Merge(new, old).refs = Overlay(new.refs, old.refs)
BY DEF Merge, IsRows

\* The rows it has written are locked.
LEMMA RefsAreLocked ==
    ASSUME CatalogInv, NEW c \in Callers, RefsOK(c), pc[c] \in Applying \cup {"refs"},
           NEW k \in DOMAIN work[c].refs
    PROVE  k \in RefKeys /\ <<"ref", k>> \in locks[c]
<1>1. CallOK(c)
  BY DEF CatalogInv
<1>2. CASE pc[c] \in Applying
  BY <1>1, <1>2 DEF RefsOK, CallOK, HoldsReferences
<1>3. CASE pc[c] = "refs"
  <2>1. position[c] \in RefKeys /\ k \in 1..(position[c] - 1)
    BY <1>1, <1>3 DEF RefsOK, CallOK, PositionOK
  <2>2. k \in RefKeys /\ k < position[c]
    BY <2>1, CatalogConstants DEF RefKeys
  <2> QED
    BY <1>1, <1>3, <2>2 DEF CallOK, HoldsReferences
<1> QED
  BY <1>2, <1>3

\* A committed reference is never changed, and those of an open transaction C agree with
\* what is committed meanwhile.
RefsStay == \A k \in DOMAIN catalog.refs : k \in DOMAIN catalog'.refs /\ catalog'.refs[k] = catalog.refs[k]

LEMMA RefsKept ==
    ASSUME CatalogInv, NEW e \in Callers, RefsOK(e), pc'[e] = pc[e], doc'[e] = doc[e],
           position'[e] = position[e], work'[e] = work[e],
           \A k \in DOMAIN work[e].refs :
              Agrees(catalog.refs, k, Manifest(e)) => Agrees(catalog'.refs, k, Manifest(e))
    PROVE  RefsOK(e)'
<1>1. Manifest(e)' = Manifest(e)
  BY DEF Manifest
<1> QED
  BY <1>1 DEF RefsOK, Agrees

LEMMA NoRefs ==
    ASSUME CatalogInv', NEW c \in Callers, pc'[c] \notin Applying \cup {"refs"}
    PROVE  RefsOK(c)'
BY DEF RefsOK

\* Steps of transaction C.
LEMMA WithinRefs ==
    ASSUME CatalogInv, CatalogInv', NEW c \in Callers, RefsOK(c), Within(c)
    PROVE  RefsOK(c)'
<1>1. /\ StateTyped /\ UNCHANGED <<catalog, doc>> /\ Manifest(c)' = Manifest(c)
      /\ pc[c] \in Applying \cup {"refs"} /\ doc[c] # None
  BY DEF CatalogInv, StateTyped, Within, EnsureReference, LockSymbol, ResolveInstrument, Rename,
     Specify, Applying, Manifest, CallOK, CallTyped
<1>2. IsRows(work[c]) /\ work = [e \in Callers |-> work[e]]
  BY ViewRows
<1>3. ASSUME Conflict(c) \/ Refuse(c)
      PROVE  RefsOK(c)'
  <2>1. pc'[c] \in {"fail", "done"}
    BY <1>1, <1>3 DEF Conflict, Refuse, End, Goto, StateTyped
  <2> QED
    BY <2>1, NoRefs DEF Applying
<1>4. ASSUME pc[c] \in Applying, pc'[c] \in Applying,
             DOMAIN work'[c].refs = DOMAIN work[c].refs,
             \A k \in DOMAIN work[c].refs : work'[c].refs[k] = work[c].refs[k]
      PROVE  RefsOK(c)'
  BY <1>1, <1>4 DEF RefsOK, Applying, Agrees
<1>5. ASSUME pc[c] \in Applying, pc'[c] \in Applying, NEW rows, rows.refs = <<>>, Write(c, rows)
      PROVE  RefsOK(c)'
  <2>1. work'[c] = Merge(rows, work[c])
    BY <1>2, <1>5 DEF Write
  <2>2. work'[c].refs = Overlay(<<>>, work[c].refs)
    BY <1>2, <1>5, <2>1, MergedRefs
  <2>3. DOMAIN <<>> = {}
    OBVIOUS
  <2>4. /\ DOMAIN work'[c].refs = DOMAIN work[c].refs
        /\ \A k \in DOMAIN work[c].refs : work'[c].refs[k] = work[c].refs[k]
    BY <2>2, <2>3 DEF Overlay
  <2> QED
    BY <1>4, <1>5, <2>4
<1>6. \A place : Goto(c, place) => pc'[c] = place
  BY <1>1 DEF Goto, StateTyped
<1>7. CASE LockSymbol(c)
  BY <1>4, <1>6, <1>7 DEF LockSymbol, Applying
<1>8. CASE ResolveInstrument(c)
  <2>1. \A i : NewInstrument(c, i).refs = <<>>
    BY DEF NewInstrument, Nothing
  <2>2. CASE CreateInstrument(c) /\ ~Refuse(c)
    <3>1. Write(c, NewInstrument(c, <<c, position[c]>>)) /\ Goto(c, "specify")
      BY <2>2 DEF CreateInstrument
    <3> QED
      BY <1>5, <1>6, <1>8, <2>1, <3>1 DEF ResolveInstrument, Applying
  <2>3. CASE UNCHANGED work /\ ~Conflict(c) /\ ~CreateInstrument(c)
    BY <1>4, <1>6, <1>8, <2>3 DEF ResolveInstrument, Applying
  <2> QED
    BY <1>3, <1>8, <2>2, <2>3 DEF ResolveInstrument
<1>9. CASE Rename(c)
  <2>1. \A k : RenameRows(c, k).refs = <<>>
    BY DEF RenameRows, Nothing
  <2>2. pc[c] = "rename" /\ pc[c] \in Applying /\ "specify" \in Applying
    BY <1>9 DEF Rename, Applying
  <2>3. \/ Conflict(c) \/ Refuse(c)
        \/ Goto(c, "specify") /\ (UNCHANGED work \/ \E k : Write(c, RenameRows(c, k)))
    BY <1>9 DEF Rename
  <2> QED
    BY <1>3, <1>4, <1>5, <1>6, <2>1, <2>2, <2>3
<1>10. CASE Specify(c)
  <2>1. \A f : [Nothing EXCEPT !.specs = f].refs = <<>> /\ Nothing.refs = <<>>
    BY DEF Nothing
  <2>2. \A specs, i, d : SpecificationRows(specs, i, d) # None =>
           SpecificationRows(specs, i, d).refs = <<>>
    BY <2>1 DEF SpecificationRows
  <2>3. pc[c] = "specify" /\ pc[c] \in Applying
    BY <1>10 DEF Specify, Applying
  <2>4. \/ Conflict(c)
        \/ \E specs, i, d :
              /\ SpecificationRows(specs, i, d) # None
              /\ Write(c, SpecificationRows(specs, i, d))
              /\ Reached(c, position[c], Len(Manifest(c).items), "symbol", "commit")
    BY <1>10 DEF Specify
  <2>5. Reached(c, position[c], Len(Manifest(c).items), "symbol", "commit") =>
           pc'[c] \in Applying
    BY <1>6 DEF Reached, Applying
  <2> QED
    BY <1>3, <1>5, <2>2, <2>3, <2>4, <2>5
<1>11. CASE EnsureReference(c)
  <2> DEFINE k == position[c]
             row == Row(k, Manifest(c).refs[k])
             rows == [Nothing EXCEPT !.refs = row]
  <2>1. pc[c] = "refs" /\ k \in RefKeys
    BY <1>11 DEF EnsureReference, CatalogInv, CallOK, PositionOK
  <2>2. CASE /\ Agrees(View(c).refs, k, Manifest(c)) /\ Write(c, rows)
             /\ Reached(c, k, References, "refs", "symbol")
    <3>1. rows.refs = row
      BY DEF Nothing
    <3>2. work'[c] = Merge(rows, work[c])
      BY <1>2, <2>2 DEF Write
    <3> HIDE DEF rows
    <3>3. work'[c].refs = Overlay(row, work[c].refs)
      BY <1>2, <3>1, <3>2, MergedRefs
    <3>4. /\ DOMAIN work'[c].refs = DOMAIN work[c].refs \cup {k}
          /\ work'[c].refs[k] = Manifest(c).refs[k]
          /\ \A l \in DOMAIN work[c].refs : l # k => work'[c].refs[l] = work[c].refs[l]
      BY <3>3 DEF Overlay, Row
    <3>5. k \notin DOMAIN work[c].refs /\ DOMAIN work[c].refs = 1..(k - 1) /\ k \in Nat
      BY <2>1, CatalogConstants DEF RefsOK, RefKeys
    <3>6. Agrees(catalog.refs, k, Manifest(c))
      <4>1. View(c).refs = Overlay(work[c].refs, catalog.refs)
        BY <1>1, MergedRefs DEF View, StateTyped
      <4> QED
        BY <2>2, <3>5, <4>1 DEF Agrees, Overlay
    <3>7. DOMAIN work'[c].refs = 1..k
      BY <2>1, <3>4, <3>5 DEF RefKeys
    <3>8. \A l \in DOMAIN work'[c].refs :
            work'[c].refs[l] = Manifest(c).refs[l] /\ Agrees(catalog.refs, l, Manifest(c))
      BY <1>1, <3>4, <3>6 DEF RefsOK
    <3>9. \/ k = References /\ pc'[c] = "symbol"
          \/ k # References /\ pc'[c] = "refs" /\ position'[c] = k + 1
      BY <1>1, <1>6, <2>2 DEF Reached, StateTyped
    <3>10. CASE k = References /\ pc'[c] = "symbol"
      BY <1>1, <3>7, <3>8, <3>10 DEF RefsOK, RefKeys, Applying, Agrees
    <3>11. CASE pc'[c] = "refs" /\ position'[c] = k + 1
      <4>1. position'[c] - 1 = k
        BY <3>5, <3>11
      <4> QED
        BY <1>1, <3>7, <3>8, <3>11, <4>1 DEF RefsOK, Applying, Agrees
    <3> QED
      BY <3>9, <3>10, <3>11
  <2> QED
    BY <1>3, <1>11, <2>2 DEF EnsureReference
<1> QED
  BY <1>7, <1>8, <1>9, <1>10, <1>11 DEF Within

\* Every step keeps the references of open transactions and the committed ones.
LEMMA RefsNext ==
    ASSUME CatalogInv, CatalogInv', RefsInv, [Next]_vars
    PROVE  RefsInv' /\ RefsStay
<1>1. /\ StateTyped /\ IsRows(catalog)
      /\ \A e \in Callers : RefsOK(e) /\ CallOK(e)
  BY DEF CatalogInv, StateTyped, RefsInv
<1>2. CASE UNCHANGED vars
  BY <1>1, <1>2, RefsKept DEF RefsInv, RefsStay, vars
<1>3. ASSUME NEW c \in Callers, Within(c)
      PROVE  RefsInv' /\ RefsStay
  <2>1. StepOf(c) /\ UNCHANGED catalog
    BY <1>3, ApplyingSteps DEF Within
  <2>2. RefsOK(c)'
    BY <1>1, <1>3, WithinRefs
  <2>3. \A e \in Callers \ {c} : RefsOK(e)'
    BY <1>1, <2>1, RefsKept DEF StepOf
  <2> QED
    BY <2>1, <2>2, <2>3 DEF RefsInv, RefsStay
<1>4. ASSUME NEW c \in Callers, CommitCatalog(c), \A e \in Callers : pc'[e] \notin Applying
      PROVE  RefsInv' /\ RefsStay
  <2>1. pc[c] \in Applying /\ catalog' = View(c) /\ pc'[c] = "done"
    BY <1>1, <1>4 DEF CommitCatalog, End, Goto, Applying, StateTyped
  <2>2. catalog'.refs = Overlay(work[c].refs, catalog.refs)
    BY <1>1, <2>1, MergedRefs DEF View
  <2>3. RefsStay
    BY <1>1, <2>1, <2>2 DEF RefsStay, RefsOK, Agrees, Overlay
  <2>4. ASSUME NEW e \in Callers \ {c}
        PROVE  RefsOK(e)'
    <3>1. /\ pc'[e] = pc[e] /\ doc'[e] = doc[e] /\ position'[e] = position[e]
          /\ work'[e] = work[e]
      BY <1>1, <1>4 DEF CommitCatalog, End, Goto, RollBack, StateTyped
    <3>2. CASE pc[e] \in Applying \cup {"refs"}
      <4>1. DOMAIN work[e].refs = {}
        <5> SUFFICES ASSUME NEW k \in DOMAIN work[e].refs PROVE FALSE
          OBVIOUS
        <5>1. k \in RefKeys /\ <<"ref", k>> \in locks[e]
          BY <1>1, <3>2, RefsAreLocked
        <5>2. <<"ref", k>> \in locks[c]
          BY <1>1, <2>1, <5>1 DEF CallOK, HoldsReferences
        <5> QED
          BY <5>1, <5>2 DEF CatalogInv, ReferencesExclusive
      <4> QED
        BY <1>1, <3>1, <4>1, RefsKept
    <3>3. CASE pc[e] \notin Applying \cup {"refs"}
      BY <3>1, <3>3, NoRefs
    <3> QED
      BY <3>2, <3>3
  <2>5. RefsOK(c)'
    BY <2>1, NoRefs DEF Applying
  <2> QED
    BY <2>3, <2>4, <2>5 DEF RefsInv
<1>5. ASSUME NEW c \in Callers, Aside(c), UNCHANGED catalog, RefsOK(c)'
      PROVE  RefsInv' /\ RefsStay
  BY <1>1, <1>5, RefsKept DEF RefsInv, RefsStay, Aside
<1>6. ASSUME NEW c \in Callers, NEW place, Goto(c, place)
      PROVE  pc'[c] = place
  BY <1>1, <1>6 DEF Goto, StateTyped
<1>7. ASSUME NEW c \in Callers, Aside(c), Begin(c)
      PROVE  RefsInv' /\ RefsStay
  <2>1. \E place \in {"validate", "done"} : Goto(c, place)
    BY <1>7 DEF Begin, Committed, End
  <2>2. RefsOK(c)'
    BY <1>6, <2>1, NoRefs DEF Applying
  <2>3. CASE UNCHANGED catalog
    BY <1>5, <1>7, <2>2, <2>3
  <2>4. CASE /\ Agrees(catalog.refs, Provider, Manifest(c)) /\ Free(c, <<"ref", Provider>>)
             /\ catalog' = [catalog EXCEPT !.refs =
                              Overlay(Row(Provider, Manifest(c).refs[Provider]), @)]
    <3>1. catalog'.refs = Overlay(Row(Provider, Manifest(c).refs[Provider]), catalog.refs)
      BY <1>1, <2>4 DEF IsRows
    <3>2. /\ DOMAIN catalog'.refs = DOMAIN catalog.refs \cup {Provider}
          /\ catalog'.refs[Provider] = Manifest(c).refs[Provider]
          /\ \A k \in DOMAIN catalog.refs : k # Provider => catalog'.refs[k] = catalog.refs[k]
      BY <3>1 DEF Overlay, Row
    <3>3. RefsStay
      BY <2>4, <3>2 DEF RefsStay, Agrees
    <3>4. ASSUME NEW e \in Callers \ {c}
          PROVE  RefsOK(e)'
      <4>1. /\ pc'[e] = pc[e] /\ doc'[e] = doc[e] /\ position'[e] = position[e]
            /\ work'[e] = work[e]
        BY <1>7 DEF Aside
      <4>2. CASE pc[e] \in Applying \cup {"refs"}
        <5>1. \A k \in DOMAIN work[e].refs : k # Provider
          BY <1>1, <2>4, <4>2, RefsAreLocked DEF Free
        <5>2. \A k \in DOMAIN work[e].refs :
                 Agrees(catalog.refs, k, Manifest(e)) => Agrees(catalog'.refs, k, Manifest(e))
          BY <3>2, <5>1 DEF Agrees
        <5> QED
          BY <1>1, <4>1, <5>2, RefsKept
      <4>3. CASE pc[e] \notin Applying \cup {"refs"}
        BY <4>1, <4>3, NoRefs
      <4> QED
        BY <4>2, <4>3
    <3> QED
      BY <2>2, <3>3, <3>4 DEF RefsInv
  <2> QED
    BY <1>7, <2>3, <2>4 DEF Begin
<1>8. ASSUME NEW c \in Callers, Aside(c), RecordEvidence(c)
      PROVE  RefsInv' /\ RefsStay
  <2>1. pc[c] = "validate" /\ UNCHANGED <<catalog, work, position>>
    BY <1>8 DEF RecordEvidence
  <2>2. work[c] = Nothing /\ position[c] = 1
    BY <1>1, <2>1 DEF CallOK, CallTyped, PositionOK, Applying
  <2>3. DOMAIN work'[c].refs = {}
    <3>1. work'[c].refs = <<>>
      BY <2>1, <2>2 DEF Nothing
    <3> QED
      BY <3>1
  <2>4. pc'[c] \notin Applying /\ 1..(position'[c] - 1) = {}
    BY <1>8, <2>1, <2>2 DEF Aside
  <2>5. RefsOK(c)'
    BY <2>3, <2>4 DEF RefsOK
  <2> QED
    BY <1>5, <1>8, <2>1, <2>5
<1>9. ASSUME NEW c \in Callers, Aside(c),
             FinalizeFailure(c) \/ Fail(c) \/ \E d \in Documents[c] : Call(c, d)
      PROVE  RefsInv' /\ RefsStay
  <2>1. UNCHANGED catalog /\ \E place \in {"begin", "done"} : Goto(c, place)
    BY <1>9 DEF FinalizeFailure, Fail, Call, End
  <2>2. RefsOK(c)'
    BY <1>6, <2>1, NoRefs DEF Applying
  <2> QED
    BY <1>5, <1>9, <2>1, <2>2
<1>10. CASE Next
  BY <1>3, <1>4, <1>7, <1>8, <1>9, <1>10, StepKinds
<1> QED
  BY <1>2, <1>10

-----------------------------------------------------------------------------
(* The two theorems *)

\* A batch belongs to the call that created it.
OwnersHaveCalled ==
    \A r \in Requests :
        batch[r] # None => doc[batch[r].owner] # None /\ Request(batch[r].owner) = r

\* All that a succeeded call stated is in the catalog.
StoredFor(c) ==
    /\ \A k \in RefKeys : k \in DOMAIN catalog.refs /\ catalog.refs[k] = Manifest(c).refs[k]
    /\ \A n \in DOMAIN Manifest(c).items : Stored(catalog, Manifest(c).items[n])

SucceededStored ==
    \A c \in Callers :
        doc[c] # None /\ batch[Request(c)] = [status |-> "SUCCEEDED", owner |-> c] =>
            StoredFor(c)

SucceededHasEvidence ==
    \A r \in Requests : batch[r] # None /\ batch[r].status = "SUCCEEDED" => r \in evidence

StoredInv ==
    WrittenInv /\ RefsInv /\ OwnersHaveCalled /\ SucceededStored /\ SucceededHasEvidence

\* What one step does to a batch: it is created, or ended by the call that owns it.
LEMMA BatchSteps ==
    ASSUME CatalogInv, [Next]_vars, NEW r \in Requests, batch'[r] # batch[r]
    PROVE  \E c \in Callers :
              /\ doc[c] # None /\ Request(c) = r /\ UNCHANGED doc
              /\ batch'[r] # None /\ batch'[r].owner = c
              /\ \/ Begin(c) /\ batch[r] = None /\ batch'[r].status = "RUNNING"
                 \/ FinalizeFailure(c) /\ batch'[r].status \in {"FAILED", "QUARANTINED"}
                 \/ CommitCatalog(c) /\ batch'[r].status = "SUCCEEDED"
<1>1. StateTyped /\ \A c \in Callers : CallOK(c)
  BY DEF CatalogInv
<1>2. PICK c \in Callers : Begin(c) \/ FinalizeFailure(c) \/ CommitCatalog(c)
  BY DEF Next, vars, Proceed, Fail, Call, RecordEvidence, EnsureReference, LockSymbol,
     ResolveInstrument, Rename, Specify
<1>3. UNCHANGED doc /\ doc[c] # None
  BY <1>1, <1>2 DEF Begin, FinalizeFailure, CommitCatalog, CallOK, CallTyped
<1>4. Request(c) \in Requests
  BY <1>1, <1>3, RequestTyped
<1>5. CASE Begin(c)
  <2>1. ~Started(c) /\ batch' = [batch EXCEPT ![Request(c)] = [status |-> "RUNNING", owner |-> c]]
    BY <1>5 DEF Begin
  <2>2. r = Request(c) /\ batch'[r] = [status |-> "RUNNING", owner |-> c]
    BY <1>1, <1>4, <2>1 DEF StateTyped
  <2>3. batch'[r] # None
    BY <2>2, BatchIsNotNone DEF Status
  <2> QED
    BY <1>3, <1>5, <2>1, <2>2, <2>3 DEF Started
<1>6. ASSUME NEW status \in Status, pc[c] \in Working,
             batch' = [batch EXCEPT ![Request(c)].status = status]
      PROVE  r = Request(c) /\ batch'[r] # None /\ batch'[r] = [status |-> status, owner |-> c]
  <2>1. batch[Request(c)] = [status |-> "RUNNING", owner |-> c]
    BY <1>1, <1>6 DEF CallOK, OwnBatch
  <2>2. r = Request(c)
    BY <1>1, <1>6 DEF StateTyped
  <2>3. batch'[r] = [batch[r] EXCEPT !.status = status]
    BY <1>1, <1>6, <2>2 DEF StateTyped
  <2>4. batch'[r] = [status |-> status, owner |-> c]
    BY <2>1, <2>2, <2>3
  <2> QED
    BY <2>2, <2>4, BatchIsNotNone
<1>7. CASE FinalizeFailure(c)
  <2>1. PICK status \in {"FAILED", "QUARANTINED"} :
          batch' = [batch EXCEPT ![Request(c)].status = status]
    BY <1>7 DEF FinalizeFailure
  <2>2. pc[c] \in Working /\ status \in Status
    BY <1>7 DEF FinalizeFailure, Working, Status
  <2>3. r = Request(c) /\ batch'[r] # None /\ batch'[r] = [status |-> status, owner |-> c]
    BY <1>6, <2>1, <2>2
  <2>4. batch'[r].status = status /\ batch'[r].owner = c
    BY <2>3
  <2> QED
    BY <1>3, <1>7, <2>3, <2>4
<1>8. CASE CommitCatalog(c)
  <2>1. batch' = [batch EXCEPT ![Request(c)].status = "SUCCEEDED"] /\ pc[c] \in Working
    BY <1>8 DEF CommitCatalog, Working, Applying
  <2>2. "SUCCEEDED" \in Status
    BY DEF Status
  <2>3. r = Request(c) /\ batch'[r] # None /\ batch'[r] = [status |-> "SUCCEEDED", owner |-> c]
    BY <1>6, <2>1, <2>2
  <2>4. batch'[r].status = "SUCCEEDED" /\ batch'[r].owner = c
    BY <2>3
  <2> QED
    BY <1>3, <1>8, <2>3, <2>4
<1> QED
  BY <1>2, <1>5, <1>7, <1>8

\* The document of a call stays, and a new one belongs to no batch yet.
LEMMA DocumentsStay ==
    ASSUME CatalogInv, [Next]_vars, NEW c \in Callers, doc[c] # None
    PROVE  doc'[c] = doc[c]
<1>1. StateTyped /\ \A e \in Callers : CallOK(e)
  BY DEF CatalogInv
<1>2. CASE UNCHANGED doc
  BY <1>2
<1>3. ASSUME NEW e \in Callers, NEW d, Call(e, d)
      PROVE  doc'[c] = doc[c]
  BY <1>1, <1>3 DEF Call, CallOK, CallTyped, StateTyped
<1> QED
  BY <1>2, <1>3 DEF Next, vars, Proceed, Fail, Begin, RecordEvidence, EnsureReference, LockSymbol,
     ResolveInstrument, Rename, Specify, CommitCatalog, FinalizeFailure

\* Every step keeps what succeeded calls have stored.
LEMMA StoredNext ==
    ASSUME CatalogInv, CatalogInv', StoredInv, [Next]_vars
    PROVE  StoredInv'
<1>1. WrittenInv' /\ RefsInv' /\ RefsStay /\ Continues(catalog', catalog)
  BY WrittenNext, RefsNext, StepContinues DEF StoredInv
<1>2. StateTyped /\ StateTyped'
  BY DEF CatalogInv
<1>3. evidence \subseteq evidence'
  <2>1. \/ evidence' = evidence
        \/ \E c \in Callers : evidence' = evidence \cup {Request(c)}
    BY DEF Next, vars, Proceed, Fail, Call, Begin, RecordEvidence, EnsureReference, LockSymbol,
       ResolveInstrument, Rename, Specify, CommitCatalog, FinalizeFailure
  <2> QED
    BY <2>1
<1>4. ASSUME NEW r \in Requests, batch'[r] # None
      PROVE  doc'[batch'[r].owner] # None /\ doc'[batch'[r].owner].request = r
  <2>1. CASE batch'[r] = batch[r]
    <3>1. /\ batch[r].owner \in Callers /\ doc[batch[r].owner] # None
          /\ Request(batch[r].owner) = r
      BY <1>2, <1>4, <2>1 DEF StoredInv, OwnersHaveCalled, StateTyped, Batch
    <3>2. doc'[batch[r].owner] = doc[batch[r].owner]
      BY <3>1, DocumentsStay
    <3> QED
      BY <2>1, <3>1, <3>2 DEF Request
  <2>2. CASE batch'[r] # batch[r]
    BY <2>2, BatchSteps DEF Request
  <2> QED
    BY <2>1, <2>2
<1>5. OwnersHaveCalled'
  <2> SUFFICES ASSUME NEW r \in Requests, batch'[r] # None
               PROVE  doc'[batch'[r].owner] # None /\ doc'[batch'[r].owner].request = r
    BY DEF OwnersHaveCalled, Request
  <2> QED
    BY <1>4
<1>6. SucceededHasEvidence'
  <2> SUFFICES ASSUME NEW r \in Requests, batch'[r] # None, batch'[r].status = "SUCCEEDED"
               PROVE  r \in evidence'
    BY DEF SucceededHasEvidence
  <2>1. CASE batch'[r] = batch[r]
    BY <1>3, <2>1 DEF StoredInv, SucceededHasEvidence
  <2>2. CASE batch'[r] # batch[r]
    <3>1. PICK c \in Callers : Request(c) = r /\ CommitCatalog(c)
      BY <2>2, BatchSteps
    <3>2. Request(c) \in evidence
      BY <3>1 DEF CommitCatalog, CatalogInv, CallOK, OwnBatch, Applying
    <3> QED
      BY <1>3, <3>1, <3>2
  <2> QED
    BY <2>1, <2>2
<1>7. SucceededStored'
  <2> SUFFICES ASSUME NEW c \in Callers, doc'[c] # None,
                      batch'[Request(c)'] = [status |-> "SUCCEEDED", owner |-> c]
               PROVE  StoredFor(c)'
    BY DEF SucceededStored
  <2> DEFINE r == Request(c)'
  <2>1. r \in Requests /\ batch'[r] # None /\ batch'[r].owner = c /\ batch'[r].status = "SUCCEEDED"
    <3>1. doc'[c] \in Document
      BY <1>2 DEF StateTyped
    <3>2. r \in Requests
      BY <3>1 DEF Document, Request
    <3>3. [status |-> "SUCCEEDED", owner |-> c] # None
      BY BatchIsNotNone DEF Status
    <3> QED
      BY <3>2, <3>3
  <2>2. ASSUME doc[c] # None
        PROVE  Request(c) = r /\ Manifest(c)' = Manifest(c)
    BY <2>2, DocumentsStay DEF Request, Manifest
  <2>3. CASE batch'[r] = batch[r]
    <3>1. doc[c] # None /\ Request(c) = r
      BY <2>1, <2>3 DEF StoredInv, OwnersHaveCalled
    <3>2. StoredFor(c) /\ Manifest(c)' = Manifest(c)
      BY <2>2, <2>3, <3>1 DEF StoredInv, SucceededStored
    <3>3. \A n \in DOMAIN Manifest(c).items : Stored(catalog', Manifest(c).items[n])
      BY <1>1, <3>2, StoredKept DEF StoredFor
    <3>4. \A k \in RefKeys : k \in DOMAIN catalog'.refs /\ catalog'.refs[k] = Manifest(c).refs[k]
      BY <1>1, <3>2 DEF StoredFor, RefsStay
    <3> QED
      BY <3>2, <3>3, <3>4 DEF StoredFor
  <2>4. CASE batch'[r] # batch[r]
    <3>1. CommitCatalog(c) /\ doc[c] # None
      BY <2>1, <2>4, BatchSteps
    <3>2. /\ pc[c] = "commit" /\ pc[c] \in Applying /\ catalog' = View(c)
          /\ Manifest(c)' = Manifest(c)
      BY <2>2, <3>1 DEF CommitCatalog, Applying
    <3>3. \A n \in DOMAIN Manifest(c).items : Stored(catalog', Manifest(c).items[n])
      BY <3>2 DEF StoredInv, WrittenInv, WrittenOK
    <3>4. catalog'.refs = Overlay(work[c].refs, catalog.refs)
      BY <1>2, <3>2, MergedRefs DEF View, StateTyped
    <3>5. \A k \in RefKeys : k \in DOMAIN catalog'.refs /\ catalog'.refs[k] = Manifest(c).refs[k]
      BY <3>2, <3>4 DEF StoredInv, RefsInv, RefsOK, Overlay
    <3> QED
      BY <3>2, <3>3, <3>5 DEF StoredFor
  <2> QED
    BY <2>3, <2>4
<1> QED
  BY <1>1, <1>5, <1>6, <1>7 DEF StoredInv

\* There is no batch and no open transaction at first.
LEMMA InitStored == Init => StoredInv
<1> SUFFICES ASSUME Init PROVE StoredInv
  OBVIOUS
<1>1. WrittenInv /\ RefsInv
  BY DEF Init, WrittenInv, WrittenOK, RefsInv, RefsOK, Applying
<1>2. OwnersHaveCalled /\ SucceededHasEvidence
  BY DEF Init, OwnersHaveCalled, SucceededHasEvidence
<1>3. SucceededStored
  BY DEF Init, SucceededStored
<1> QED
  BY <1>1, <1>2, <1>3 DEF StoredInv

LEMMA StoredInvariant == Spec => [](CatalogInv /\ StoredInv)
<1>1. CatalogInv /\ StoredInv /\ CatalogInv' /\ [Next]_vars => StoredInv'
  BY StoredNext
<1> QED
  BY <1>1, InitStored, CatalogInvariant, PTL DEF Spec

\* All that the manifest of a SUCCEEDED batch states is in the catalog for ever: its
\* references, and for each item the instrument with its ISIN and attributes, the symbol
\* and the specification.  The evidence of a SUCCEEDED or FAILED batch remains.
THEOREM SuccessStored == Spec => []SucceededIsStored
<1>1. CatalogInv /\ StoredInv => SucceededIsStored
  BY DEF CatalogInv, FailedHasEvidence, StoredInv, SucceededStored, StoredFor,
     SucceededHasEvidence, SucceededIsStored
<1> QED
  BY <1>1, StoredInvariant, PTL

\* Every step that writes, renames or closes a row of the catalog is the step by which a
\* batch SUCCEEDS with its evidence, and every such row is stated by an item of its
\* manifest, for the instrument with the item's ISIN; but for the audit provider, which is
\* written with the batch itself.
THEOREM WritesHaveSucceeded == Spec => OnlySucceededWrites
<1>1. ASSUME CatalogInv, StoredInv, [Next]_vars, catalog' # catalog
      PROVE  \E c \in Callers :
                \/ Starts(c)
                \/ /\ Succeeds(c) /\ Request(c) \in evidence
                   /\ StatedBy(Manifest(c), catalog', catalog)
  <2>1. StateTyped /\ IsRows(catalog) /\ \A c \in Callers : CallOK(c)
    BY <1>1 DEF CatalogInv, StateTyped
  <2>2. PICK c \in Callers : Begin(c) \/ CommitCatalog(c)
    BY <1>1 DEF Next, vars, Proceed, Fail, Call, RecordEvidence, EnsureReference, LockSymbol,
       ResolveInstrument, Rename, Specify, FinalizeFailure
  <2>3. doc[c] # None /\ Request(c) \in Requests
    <3>1. doc[c] # None
      BY <2>1, <2>2 DEF Begin, CommitCatalog, CallOK, CallTyped
    <3> QED
      BY <2>1, <3>1, RequestTyped
  <2>4. CASE Begin(c)
    <3>1. /\ ~Started(c)
          /\ batch' = [batch EXCEPT ![Request(c)] = [status |-> "RUNNING", owner |-> c]]
          /\ catalog' = [catalog EXCEPT !.refs =
                           Overlay(Row(Provider, Manifest(c).refs[Provider]), @)]
      BY <1>1, <2>4 DEF Begin
    <3>2. /\ batch[Request(c)] = None
          /\ batch'[Request(c)] = [status |-> "RUNNING", owner |-> c]
      BY <2>1, <2>3, <3>1 DEF Started, StateTyped
    <3>3. catalog'.refs = Overlay(Row(Provider, Manifest(c).refs[Provider]), catalog.refs)
      BY <2>1, <3>1 DEF IsRows
    <3>4. catalog' = [catalog EXCEPT !.refs = catalog'.refs]
      BY <3>1, <3>3
    <3>5. Changed(catalog'.refs, catalog.refs) \subseteq {Provider}
      BY <3>3 DEF Changed, Overlay, Row
    <3> QED
      BY <2>3, <3>2, <3>4, <3>5 DEF Starts
  <2>5. CASE CommitCatalog(c)
    <3>1. pc[c] = "commit" /\ pc[c] \in Applying /\ pc[c] \in Working /\ catalog' = View(c)
      BY <2>5 DEF CommitCatalog, Applying, Working
    <3>2. batch[Request(c)] = [status |-> "RUNNING", owner |-> c] /\ Request(c) \in evidence
      BY <2>1, <3>1 DEF CallOK, OwnBatch
    <3>3. batch'[Request(c)].status = "SUCCEEDED"
      <4>1. batch' = [batch EXCEPT ![Request(c)].status = "SUCCEEDED"]
        BY <2>5 DEF CommitCatalog
      <4>2. batch'[Request(c)] = [batch[Request(c)] EXCEPT !.status = "SUCCEEDED"]
        BY <2>1, <2>3, <4>1 DEF StateTyped
      <4> QED
        BY <3>2, <4>2
    <3>4. Succeeds(c)
      BY <2>3, <3>2, <3>3 DEF Succeeds
    <3>5. catalog'.refs = Overlay(work[c].refs, catalog.refs)
      BY <2>1, <3>1, MergedRefs DEF View
    <3>6. \A k \in Changed(catalog'.refs, catalog.refs) : catalog'.refs[k] = Manifest(c).refs[k]
      BY <1>1, <3>1, <3>5 DEF StoredInv, RefsInv, RefsOK, Changed, Overlay
    <3>7. RowsStated(ItemsOf(c), catalog', catalog)
      BY <1>1, <3>1 DEF StoredInv, WrittenInv, WrittenOK
    <3>8. StatedBy(Manifest(c), catalog', catalog)
      BY <3>6, <3>7 DEF StatedBy, ItemsOf
    <3> QED
      BY <3>2, <3>4, <3>8
  <2> QED
    BY <2>2, <2>4, <2>5
<1>2. CatalogInv /\ StoredInv /\ [Next]_vars =>
        [catalog' # catalog =>
            \E c \in Callers :
               \/ Starts(c)
               \/ /\ Succeeds(c) /\ Request(c) \in evidence
                  /\ StatedBy(Manifest(c), catalog', catalog)]_vars
  BY <1>1
<1> QED
  BY <1>2, StoredInvariant, PTL DEF Spec, OnlySucceededWrites
=============================================================================
