----------------------- MODULE BacktestLedger_proofs -----------------------
(***************************************************************************)
(* Proofs about ReferenceEngine, BacktestLedger and PointInTimeReplay, for *)
(* every dataset, schedule, lag, rate and capital.                         *)
(*                                                                         *)
(* First the engine: what its operators yield, its inductive invariant,    *)
(* the progress of its loop, and its books.  Then the ledger: what becomes *)
(* of the orders of a simulation, which trades its fills make, that the    *)
(* database refuses none of it, and that the tables written of it agree    *)
(* with each other.  Last the replay: two calls whose datasets agree up to *)
(* an instant stay in step until it, and keep what they did by then.       *)
(***************************************************************************)
EXTENDS BacktestLedger, PointInTimeReplay, FiniteSetTheorems, WellFoundedInduction, SequenceTheorems, TLAPS

-----------------------------------------------------------------------------
(* Finite sets and numbers.  The library states induction with a predicate as *)
(* parameter; here it is a family of sets with a smallest member.             *)

\* Of the subsets of a finite set that form a family, one has no other below it.
LEMMA SmallestSet ==
    ASSUME NEW S, IsFiniteSet(S), NEW F, F \subseteq SUBSET S, F # {}
    PROVE  \E T \in F : \A U \in F : U \subseteq T => U = T
<1> DEFINE R == StrictSubsetOrdering(S)
<1>1. IsWellFoundedOn(R, SUBSET S)
  BY FS_StrictSubsetOrderingWellFounded, FS_FiniteSubsetsOfFinite
<1>2. PICK T \in F : \A U \in F : <<U, T>> \notin R
  <2> HIDE DEF R
  <2> QED
    BY <1>1, WFMin
<1> QED
  BY <1>2 DEF StrictSubsetOrdering

\* The induction over numbers that the library states with a predicate as parameter.
LEMMA LeastNatural ==
    ASSUME NEW S, S \subseteq Nat, S # {}
    PROVE  \E d \in S : \A other \in S : d <= other
<1>1. PICK n \in S : TRUE
  OBVIOUS
<1> DEFINE Below(x) == 0..x
           T == {Below(x) : x \in {y \in S : y <= n}}
<1>2. IsFiniteSet(0..n)
  BY FS_Interval
<1>3. T \subseteq SUBSET (0..n) /\ T # {}
  BY <1>1
<1>4. PICK U \in T : \A V \in T : V \subseteq U => V = U
  <2> DEFINE F == 0..n
  <2>1. IsFiniteSet(F) /\ T \subseteq SUBSET F /\ T # {}
    BY <1>2, <1>3
  <2> HIDE DEF T, F
  <2> QED
    BY <2>1, SmallestSet
<1>5. PICK d \in {y \in S : y <= n} : U = Below(d)
  OBVIOUS
<1>6. ASSUME NEW other \in S
      PROVE  d <= other
  <2>1. CASE other > n
    BY <2>1
  <2>2. CASE other <= n /\ other < d
    <3>1. Below(other) \in T /\ Below(other) \subseteq U
      BY <2>2, <1>5
    <3>2. Below(other) = U
      BY <3>1, <1>4
    <3>3. d \in U /\ d \notin Below(other)
      BY <1>5, <2>2
    <3> QED
      BY <3>2, <3>3
  <2> QED
    BY <2>1, <2>2
<1> QED
  BY <1>6

\* Min of a set of natural numbers.
LEMMA MinLeast ==
    ASSUME NEW S, S \subseteq Nat, S # {}
    PROVE  Min(S) \in S /\ \A other \in S : Min(S) <= other
<1>1. \E d \in S : \A other \in S : d <= other
  BY LeastNatural
<1> QED
  BY <1>1 DEF Min

\* A finite set of revisions has a newest one (NewestRevision).
LEMMA NewestExists ==
    ASSUME NEW V, IsFiniteSet(V), V # {}, \A row \in V : row.revision_no \in Nat
    PROVE  NewestRevision(V) \in V
<1> DEFINE Above(x) == {y \in V : y.revision_no > x.revision_no}
           F == {Above(x) : x \in V}
<1>1. F \subseteq SUBSET V /\ F # {}
  OBVIOUS
<1>2. PICK T \in F : \A U \in F : U \subseteq T => U = T
  <2> HIDE DEF F
  <2> QED
    BY <1>1, SmallestSet
<1>3. PICK x \in V : T = Above(x)
  OBVIOUS
<1>4. ASSUME NEW y \in V, ~(y.revision_no <= x.revision_no)
      PROVE  FALSE
  <2>1. y \in Above(x) /\ y \notin Above(y)
    BY <1>4
  <2>2. Above(y) \subseteq T /\ Above(y) \in F
    BY <1>3, <1>4
  <2>3. Above(y) = T
    BY <1>2, <2>2
  <2> QED
    BY <2>1, <2>3, <1>3
<1>5. \E row \in V : \A o \in V : o.revision_no <= row.revision_no
  BY <1>4
<1> QED
  BY <1>5 DEF NewestRevision

\* R orders S strictly and totally.
Orders(R, S) ==
    /\ IsFiniteSet(S)
    /\ \A x \in S : <<x, x>> \notin R
    /\ \A x, y \in S : x # y => <<x, y>> \in R \/ <<y, x>> \in R
    /\ \A x, y, z \in S : <<x, y>> \in R /\ <<y, z>> \in R => <<x, z>> \in R

Preceding(x, R, S) == {y \in S : <<y, x>> \in R}
Rank(x, R, S) == Cardinality(Preceding(x, R, S))

\* Ranks grow with the order and stay below the size of the set.
LEMMA RankGrows ==
    ASSUME NEW R, NEW S, Orders(R, S)
    PROVE  /\ \A x \in S : Rank(x, R, S) \in 0..(Cardinality(S) - 1)
           /\ \A x, y \in S : <<x, y>> \in R => Rank(x, R, S) < Rank(y, R, S)
<1>0. IsFiniteSet(S) /\ Cardinality(S) \in Nat
  BY FS_CardinalityType DEF Orders
<1>1. \A x \in S : IsFiniteSet(Preceding(x, R, S)) /\ Rank(x, R, S) \in Nat
  <2>1. \A x \in S : Preceding(x, R, S) \in SUBSET S
    BY DEF Preceding
  <2> QED
    BY <1>0, <2>1, FS_Subset, FS_CardinalityType DEF Rank
<1>2. ASSUME NEW T, IsFiniteSet(T), NEW U \in SUBSET T, NEW e \in T, e \notin U
      PROVE  Cardinality(U) < Cardinality(T)
  <2>1. Cardinality(U) <= Cardinality(T) /\ U # T /\ Cardinality(U) # Cardinality(T)
    BY <1>2, FS_Subset
  <2>2. Cardinality(U) \in Nat /\ Cardinality(T) \in Nat
    BY <1>2, FS_Subset, FS_CardinalityType
  <2> QED
    BY <2>1, <2>2
<1>3. ASSUME NEW x \in S
      PROVE  Rank(x, R, S) < Cardinality(S)
  <2>1. Preceding(x, R, S) \in SUBSET S /\ x \notin Preceding(x, R, S)
    BY DEF Orders, Preceding
  <2> QED
    BY <1>0, <1>2, <2>1 DEF Rank
<1>4. ASSUME NEW x \in S, NEW y \in S, <<x, y>> \in R
      PROVE  Rank(x, R, S) < Rank(y, R, S)
  <2>1. /\ Preceding(x, R, S) \in SUBSET Preceding(y, R, S)
        /\ x \notin Preceding(x, R, S) /\ x \in Preceding(y, R, S)
    BY <1>4 DEF Orders, Preceding
  <2> QED
    BY <1>1, <1>2, <2>1 DEF Rank
<1> QED
  BY <1>0, <1>1, <1>3, <1>4

\* Every rank is taken.
LEMMA RankTaken ==
    ASSUME NEW R, NEW S, Orders(R, S), NEW k \in 1..Cardinality(S)
    PROVE  \E x \in S : Rank(x, R, S) = k - 1
<1> DEFINE n == Cardinality(S)
           T == 0..(n - 1)
           f == [x \in S |-> Rank(x, R, S)]
<1>1. IsFiniteSet(S) /\ n \in Nat
  BY FS_CardinalityType DEF Orders
<1>2. n >= 1
  BY <1>1
<1>3. IsFiniteSet(T) /\ Cardinality(T) = n
  <2>1. 0 \in Int /\ n - 1 \in Int /\ ~(0 > n - 1) /\ (n - 1) - 0 + 1 = n
    BY <1>1, <1>2
  <2> HIDE DEF n
  <2> QED
    BY <2>1, FS_Interval
<1>4. f \in Injection(S, T)
  <2>1. f \in [S -> T]
    BY RankGrows
  <2>2. ASSUME NEW x \in S, NEW y \in S, x # y
        PROVE  f[x] # f[y]
    <3>1. <<x, y>> \in R \/ <<y, x>> \in R
      BY <2>2 DEF Orders
    <3>2. f[x] < f[y] \/ f[y] < f[x]
      BY <3>1, RankGrows
    <3>3. f[x] \in Int /\ f[y] \in Int
      BY RankGrows
    <3> QED
      BY <3>2, <3>3
  <2> HIDE DEF f, T
  <2> QED
    BY <2>1, <2>2 DEF Injection, IsInjective
<1>5. f \in Surjection(S, T)
  <2> HIDE DEF f, T
  <2> QED
    BY <1>1, <1>3, <1>4, FS_Injection
<1>6. k - 1 \in T
  BY <1>1
<1>7. \E x \in S : f[x] = k - 1
  <2> HIDE DEF f, T
  <2> QED
    BY <1>5, <1>6 DEF Surjection
<1> QED
  BY <1>7

\* What Sorted yields for the order R, element by element.
Ranks(q, R, S) ==
    /\ q = [k \in 1..Cardinality(S) |-> q[k]]
    /\ \A k \in 1..Cardinality(S) : q[k] \in S /\ Rank(q[k], R, S) = k - 1

\* Such a function is the sequence of all elements, each once and in order.
LEMMA RankedSequence ==
    ASSUME NEW R, NEW S, Orders(R, S), NEW q, Ranks(q, R, S)
    PROVE  /\ q \in Seq(S) /\ Len(q) = Cardinality(S)
           /\ \A x \in S : \E k \in 1..Len(q) : q[k] = x
           /\ \A j, k \in 1..Len(q) : j < k => <<q[j], q[k]>> \in R
<1> DEFINE n == Cardinality(S)
<1>1. IsFiniteSet(S) /\ n \in Nat
  BY FS_CardinalityType DEF Orders
<1>2. q \in [1..n -> S]
  BY DEF Ranks
<1>3. q \in Seq(S) /\ Len(q) = n
  <2> HIDE DEF n
  <2> QED
    BY <1>1, <1>2
<1>4. ASSUME NEW j \in 1..n, NEW k \in 1..n, j < k
      PROVE  <<q[j], q[k]>> \in R
  <2>1. q[j] \in S /\ q[k] \in S /\ Rank(q[j], R, S) = j - 1 /\ Rank(q[k], R, S) = k - 1
    BY DEF Ranks
  <2>2. ~(Rank(q[k], R, S) < Rank(q[j], R, S)) /\ q[j] # q[k]
    BY <2>1, <1>4, <1>1
  <2> QED
    BY <2>1, <2>2, RankGrows DEF Orders
<1>5. ASSUME NEW x \in S
      PROVE  \E k \in 1..n : q[k] = x
  <2>1. Rank(x, R, S) \in 0..(n - 1)
    BY RankGrows
  <2> DEFINE k == Rank(x, R, S) + 1
  <2>2. k \in 1..n /\ k - 1 = Rank(x, R, S)
    BY <2>1, <1>1
  <2>3. q[k] \in S /\ Rank(q[k], R, S) = Rank(x, R, S)
    BY <2>2 DEF Ranks
  <2>4. q[k] = x
    <3>1. SUFFICES ASSUME q[k] # x
                   PROVE  FALSE
      OBVIOUS
    <3> HIDE DEF k
    <3>2. <<q[k], x>> \in R \/ <<x, q[k]>> \in R
      BY <3>1, <2>3 DEF Orders
    <3>3. Rank(q[k], R, S) < Rank(x, R, S) \/ Rank(x, R, S) < Rank(q[k], R, S)
      BY <3>2, <2>3, RankGrows
    <3> QED
      BY <3>3, <2>3, <2>1
  <2> QED
    BY <2>2, <2>4
<1> QED
  BY <1>1, <1>3, <1>4, <1>5

-----------------------------------------------------------------------------
(* The selector: what ArtifactBarSelector's operators yield *)

\* The rows of one component, bound to one instrument.
Component(rows) == rows \subseteq Bar /\ IsFiniteSet(rows)

\* A bar becomes visible with one of its revisions, and with none before.
LEMMA FirstVisibilityLeast ==
    ASSUME NEW rows, Component(rows), NEW open \in Opens(rows)
    PROVE  /\ FirstVisibility(rows, open) \in Nat
           /\ \E row \in rows : row.open = open /\ row.available = FirstVisibility(rows, open)
           /\ \A row \in rows : row.open = open => FirstVisibility(rows, open) <= row.available
<1> DEFINE S == {row.available : row \in RevisionsOf(rows, open)}
<1>1. S \subseteq Nat
  BY DEF Component, RevisionsOf, Bar
<1>2. S # {}
  BY DEF RevisionsOf, Opens
<1>3. Min(S) \in S /\ \A other \in S : Min(S) <= other
  <2> HIDE DEF S
  <2> QED
    BY <1>1, <1>2, MinLeast
<1>4. FirstVisibility(rows, open) = Min(S)
  BY DEF FirstVisibility
<1>5. \A row \in rows : row.open = open => row.available \in S
  BY DEF RevisionsOf
<1>6. \E row \in rows : row.open = open /\ row.available = Min(S)
  BY <1>3 DEF RevisionsOf
<1> QED
  <2> HIDE DEF S
  <2> QED
    BY <1>1, <1>3, <1>4, <1>5, <1>6

\* At most one revision of a bar is selected, and it is visible.
LEMMA SelectedRow ==
    ASSUME NEW rows, Component(rows), NEW open, NEW ts
    PROVE  /\ \A row \in Selected(rows, open, ts) :
                 row \in rows /\ row.open = open /\ row.available <= ts
           /\ \A a, b \in Selected(rows, open, ts) : a = b
           /\ (\E row \in rows : row.open = open /\ row.available <= ts)
                 => Selected(rows, open, ts) # {}
<1> DEFINE V == {row \in RevisionsOf(rows, open) : row.available <= ts}
<1>1. V \subseteq rows /\ IsFiniteSet(V) /\ \A row \in V : row.revision_no \in Nat
  <2>1. V \in SUBSET rows
    BY DEF RevisionsOf
  <2> QED
    BY <2>1, FS_Subset DEF Component, Bar
<1>2. V # {} => NewestRevision(V) \in V
  <2> HIDE DEF V
  <2> QED
    BY <1>1, NewestExists
<1>3. Selected(rows, open, ts) = IF V = {} THEN {} ELSE {NewestRevision(V)}
  BY DEF Selected
<1>4. \A row \in V : row \in rows /\ row.open = open /\ row.available <= ts
  BY DEF RevisionsOf
<1>5. (\E row \in rows : row.open = open /\ row.available <= ts) => V # {}
  BY DEF RevisionsOf
<1> QED
  <2> HIDE DEF V
  <2> QED
    BY <1>2, <1>3, <1>4, <1>5

\* The selected revisions of all bars.
AllSelected(rows, ts) == UNION {Selected(rows, open, ts) : open \in Opens(rows)}
ByOpen(S) == {pair \in S \X S : pair[1].open < pair[2].open}

\* They are ordered by the opening of their bars.
LEMMA OpeningsOrder ==
    ASSUME NEW rows, Component(rows), NEW ts
    PROVE  /\ AllSelected(rows, ts) \subseteq rows
           /\ \A row \in AllSelected(rows, ts) : row.available <= ts
           /\ \A row \in rows : row.available <= ts =>
                 \E b \in AllSelected(rows, ts) : b.open = row.open
           /\ Orders(ByOpen(AllSelected(rows, ts)), AllSelected(rows, ts))
<1> DEFINE S == AllSelected(rows, ts)
<1>1. \A row \in S : row \in rows /\ row.available <= ts /\ row \in Selected(rows, row.open, ts)
  BY SelectedRow DEF AllSelected
<1>2. \A a, b \in S : a.open = b.open => a = b
  BY <1>1, SelectedRow
<1>3. \A a \in S : a.open \in Nat
  BY <1>1 DEF Component, Bar
<1>4. IsFiniteSet(S)
  <2>1. S \in SUBSET rows
    BY <1>1
  <2> QED
    BY <2>1, FS_Subset DEF Component
<1>5. \A row \in rows : row.available <= ts => \E b \in S : b.open = row.open
  <2> SUFFICES ASSUME NEW row \in rows, row.available <= ts
               PROVE  \E b \in S : b.open = row.open
    OBVIOUS
  <2>1. PICK b \in Selected(rows, row.open, ts) : TRUE
    BY SelectedRow
  <2>2. b \in S /\ b.open = row.open
    BY <2>1, SelectedRow DEF AllSelected, Opens
  <2> QED
    BY <2>2
<1>6. Orders(ByOpen(S), S)
  <2> HIDE DEF S
  <2> QED
    BY <1>2, <1>3, <1>4 DEF Orders, ByOpen
<1> QED
  BY <1>1, <1>5, <1>6

\* The visible bars are a sequence of rows, all available, in the order of opening.
LEMMA VisibleBarsSequence ==
    ASSUME NEW rows, Component(rows), NEW ts
    PROVE  /\ VisibleBars(rows, ts) \in Seq(rows)
           /\ \A k \in 1..Len(VisibleBars(rows, ts)) : VisibleBars(rows, ts)[k] \in AllSelected(rows, ts)
           /\ \A b \in AllSelected(rows, ts) :
                 \E k \in 1..Len(VisibleBars(rows, ts)) : VisibleBars(rows, ts)[k] = b
           /\ \A j, k \in 1..Len(VisibleBars(rows, ts)) :
                 j < k => VisibleBars(rows, ts)[j].open < VisibleBars(rows, ts)[k].open
<1> DEFINE S == AllSelected(rows, ts)
           R == ByOpen(S)
           q == VisibleBars(rows, ts)
<1>1. S \subseteq rows /\ Orders(R, S)
  BY OpeningsOrder
<1>2. q = [k \in 1..Cardinality(S) |-> CHOOSE x \in S : Cardinality({y \in S : y.open < x.open}) = k - 1]
  BY DEF VisibleBars, Sorted, AllSelected
<1>3. \A x \in S : {y \in S : y.open < x.open} = Preceding(x, R, S)
  <2> HIDE DEF S
  <2> QED
    BY DEF Preceding, ByOpen
<1>4. ASSUME NEW k \in 1..Cardinality(S)
      PROVE  q[k] \in S /\ Rank(q[k], R, S) = k - 1
  <2>1. \E x \in S : Cardinality({y \in S : y.open < x.open}) = k - 1
    <3> HIDE DEF S, R
    <3> QED
      BY <1>1, <1>3, RankTaken DEF Rank
  <2>2. q[k] = CHOOSE x \in S : Cardinality({y \in S : y.open < x.open}) = k - 1
    BY <1>2
  <2>3. q[k] \in S /\ Cardinality({y \in S : y.open < q[k].open}) = k - 1
    <3> HIDE DEF S, R, q
    <3> QED
      BY <2>1, <2>2
  <2> QED
    <3> HIDE DEF S, R, q
    <3> QED
      BY <2>3, <1>3 DEF Rank
<1>5. Ranks(q, R, S)
  <2>1. q = [k \in 1..Cardinality(S) |-> q[k]]
    BY <1>2
  <2> HIDE DEF S, R, q
  <2> QED
    BY <1>4, <2>1 DEF Ranks
<1>6. /\ q \in Seq(S)
      /\ \A x \in S : \E k \in 1..Len(q) : q[k] = x
      /\ \A j, k \in 1..Len(q) : j < k => <<q[j], q[k]>> \in R
  <2> HIDE DEF S, R, q
  <2> QED
    BY <1>1, <1>5, RankedSequence
<1>7. q \in Seq(rows)
  BY <1>1, <1>6, SeqMonotonic
<1>8. \A k \in 1..Len(q) : q[k] \in S
  <2> HIDE DEF S, R, q
  <2> QED
    BY <1>6
<1>9. \A j, k \in 1..Len(q) : j < k => q[j].open < q[k].open
  <2> HIDE DEF S, q
  <2> QED
    BY <1>6 DEF ByOpen
<1> QED
  <2> HIDE DEF R
  <2> QED
    BY <1>6, <1>7, <1>8, <1>9

\* An execution bar opens after the signal's and first becomes visible then.
LEMMA NextExecutionRow ==
    ASSUME NEW rows, Component(rows), NEW signal_open, NEW submitted_at, NEW lag,
           NEW bar \in NextExecutionBar(rows, signal_open, submitted_at, lag)
    PROVE  /\ bar \in rows /\ bar.open > signal_open
           /\ bar.available = FirstVisibility(rows, bar.open)
           /\ bar.available >= submitted_at + lag
<1> DEFINE later == {open \in Opens(rows) :
                       open > signal_open /\ FirstVisibility(rows, open) >= submitted_at + lag}
           o == Min(later)
<1>1. later # {} /\ bar \in Selected(rows, o, FirstVisibility(rows, o))
  BY DEF NextExecutionBar
<1>2. later \subseteq Nat
  BY DEF Opens, Component, Bar
<1>3. o \in later
  <2> HIDE DEF later
  <2> QED
    BY <1>1, <1>2, MinLeast
<1>4. o \in Opens(rows) /\ o > signal_open /\ FirstVisibility(rows, o) >= submitted_at + lag
  BY <1>3
<1> HIDE DEF o
<1>5. bar \in rows /\ bar.open = o /\ bar.available <= FirstVisibility(rows, o)
  BY <1>1, SelectedRow
<1>6. FirstVisibility(rows, o) <= bar.available /\ FirstVisibility(rows, o) \in Nat
  BY <1>4, <1>5, FirstVisibilityLeast
<1>7. bar.available \in Nat
  BY <1>5 DEF Component, Bar
<1> QED
  BY <1>4, <1>5, <1>6, <1>7

-----------------------------------------------------------------------------
(* Decision events and due orders, in the order the loop takes them *)

\* The rows of a dataset that a run may be given.
LEMMA DatasetRows ==
    ASSUME NEW d \in Datasets, NEW role \in Role, NEW i \in Instruments
    PROVE  d \in Dataset /\ Component(d[role][i]) /\ d[role][i] # {}
  BY EngineConstants DEF Dataset, Component

\* A decision event is the first visibility of a bar, with the revision then selected.
LEMMA EventFacts ==
    ASSUME NEW d \in Datasets, NEW ts, NEW e \in DecisionEvents(d, ts)
    PROVE  /\ e.instrument \in Instruments /\ e.trigger \in d["signal"][e.instrument]
           /\ e = [instrument |-> e.instrument, trigger |-> e.trigger]
           /\ e \in Event
           /\ ts \in EventFrom..(EventTo - 1)
           /\ ts = FirstVisibility(d["signal"][e.instrument], e.trigger.open)
           /\ e.trigger \in Selected(d["signal"][e.instrument], e.trigger.open, ts)
           /\ e.trigger.open \in Opens(d["signal"][e.instrument])
<1> DEFINE rows == d["signal"][e.instrument]
<1>1. /\ e.instrument \in Instruments
      /\ e = [instrument |-> e.instrument, trigger |-> e.trigger]
      /\ ts \in EventFrom..(EventTo - 1)
      /\ <<ts, e.trigger.open>> \in DecisionSchedule(rows)
      /\ e.trigger \in Selected(rows, e.trigger.open, ts)
  BY DEF DecisionEvents
<1>2. Component(rows)
  BY <1>1, DatasetRows DEF Role
<1>3. ts = FirstVisibility(rows, e.trigger.open) /\ e.trigger.open \in Opens(rows)
  BY <1>1 DEF DecisionSchedule
<1>4. e.trigger \in rows
  <2> HIDE DEF rows
  <2> QED
    BY <1>1, <1>2, SelectedRow
<1>5. e \in Event
  BY <1>1, <1>2, <1>4 DEF Component, Event
<1> QED
  BY <1>1, <1>3, <1>4, <1>5

\* There are finitely many.
LEMMA EventsFinite ==
    ASSUME NEW d \in Datasets, NEW ts
    PROVE  IsFiniteSet(DecisionEvents(d, ts))
<1> DEFINE rows == d["signal"]
           all == Range(rows)
           U == UNION all
           P == Instruments \X U
           Q == [instrument : Instruments, trigger : U]
           f == [p \in P |-> [instrument |-> p[1], trigger |-> p[2]]]
<1>1. "signal" \in Role /\ IsFiniteSet(Instruments) /\ d \in Dataset
  BY EngineConstants DEF Role
<1>2. rows \in [Instruments -> SUBSET Bar]
  BY <1>1 DEF Dataset
<1>3. rows \in Surjection(Instruments, all)
  <2> HIDE DEF rows
  <2> QED
    BY <1>2 DEF Surjection, Range
<1>4. IsFiniteSet(all)
  <2> HIDE DEF all, rows
  <2> QED
    BY <1>1, <1>3, FS_Surjection
<1>5. \A T \in all : IsFiniteSet(T)
  <2>1. \A i \in Instruments : IsFiniteSet(rows[i])
    BY <1>1, DatasetRows DEF Component
  <2> HIDE DEF rows
  <2> QED
    BY <1>2, <2>1 DEF Range
<1>6. IsFiniteSet(U)
  <2> HIDE DEF all
  <2> QED
    BY <1>4, <1>5, FS_UNION
<1>7. IsFiniteSet(P)
  <2> HIDE DEF U
  <2> QED
    BY <1>1, <1>6, FS_Product
<1>8. f \in Surjection(P, Q)
  <2> HIDE DEF U
  <2>1. f \in [P -> Q]
    OBVIOUS
  <2>2. ASSUME NEW e \in Q
        PROVE  \E p \in P : f[p] = e
    <3>1. <<e.instrument, e.trigger>> \in P /\ f[<<e.instrument, e.trigger>>] = e
      OBVIOUS
    <3> QED
      BY <3>1
  <2> HIDE DEF f, P, Q
  <2> QED
    BY <2>1, <2>2 DEF Surjection
<1>9. IsFiniteSet(Q)
  <2> HIDE DEF f, P, Q
  <2> QED
    BY <1>7, <1>8, FS_Surjection
<1>10. DecisionEvents(d, ts) \in SUBSET Q
  BY DEF DecisionEvents
<1> QED
  BY <1>9, <1>10, FS_Subset

ByEvent(S) == {pair \in S \X S : EventBefore(pair[1], pair[2])}

\* The events of an instant are ordered by instrument and bar.
LEMMA EventsOrder ==
    ASSUME NEW d \in Datasets, NEW ts
    PROVE  Orders(ByEvent(DecisionEvents(d, ts)), DecisionEvents(d, ts))
<1> DEFINE S == DecisionEvents(d, ts)
<1>1. IsFiniteSet(S)
  BY EventsFinite
<1>2. \A a \in S : a.instrument \in Int /\ a.trigger.open \in Int
  <2> SUFFICES ASSUME NEW a \in S
               PROVE  a.instrument \in Int /\ a.trigger.open \in Int
    OBVIOUS
  <2>1. a.instrument \in Instruments /\ a.trigger \in Bar
    BY EventFacts DEF Event
  <2>2. \A i \in Instruments : i \in Int
    <3>1. Instruments \subseteq Nat
      BY EngineConstants, Zenon
    <3> QED
      BY <3>1
  <2>3. a.instrument \in Int
    BY <2>1, <2>2
  <2>4. \A b \in Bar : b.open \in Int
    BY DEF Bar
  <2> QED
    BY <2>1, <2>3, <2>4
<1>3. \A a, b \in S : a.instrument = b.instrument /\ a.trigger.open = b.trigger.open => a = b
  <2> SUFFICES ASSUME NEW a \in S, NEW b \in S,
                      a.instrument = b.instrument, a.trigger.open = b.trigger.open
               PROVE  a = b
    OBVIOUS
  <2>1. /\ a.trigger \in Selected(d["signal"][a.instrument], a.trigger.open, ts)
        /\ b.trigger \in Selected(d["signal"][a.instrument], a.trigger.open, ts)
        /\ a.instrument \in Instruments
        /\ a = [instrument |-> a.instrument, trigger |-> a.trigger]
        /\ b = [instrument |-> b.instrument, trigger |-> b.trigger]
    BY EventFacts
  <2>2. Component(d["signal"][a.instrument])
    BY <2>1, DatasetRows DEF Role
  <2>3. a.trigger = b.trigger
    BY <2>1, <2>2, SelectedRow
  <2> QED
    BY <2>1, <2>3
<1> DEFINE I(a) == a.instrument
           O(a) == a.trigger.open
<1>4. \A a, b \in S : EventBefore(a, b) <=> (I(a) < I(b) \/ (I(a) = I(b) /\ O(a) < O(b)))
  BY DEF EventBefore
<1>5. \A a \in S : I(a) \in Int /\ O(a) \in Int
  BY <1>2
<1>6. \A a, b \in S : I(a) = I(b) /\ O(a) = O(b) => a = b
  BY <1>3
<1>7. Orders(ByEvent(S), S)
  <2> HIDE DEF S, I, O
  <2>1. \A a, b \in S : <<a, b>> \in ByEvent(S) <=> EventBefore(a, b)
    BY DEF ByEvent
  <2>2. \A x, y \in S : x # y => EventBefore(x, y) \/ EventBefore(y, x)
    BY <1>4, <1>5, <1>6
  <2>3. \A x, y, z \in S : EventBefore(x, y) /\ EventBefore(y, z) => EventBefore(x, z)
    BY <1>4, <1>5
  <2>4. \A x \in S : ~EventBefore(x, x)
    BY <1>4, <1>5
  <2> QED
    BY <1>1, <2>1, <2>2, <2>3, <2>4 DEF Orders
<1> QED
  BY <1>7

\* They are taken one by one, all of them.
LEMMA EventsSequence ==
    ASSUME NEW d \in Datasets, NEW ts
    PROVE  LET S == DecisionEvents(d, ts)
               q == Sorted(S, EventBefore)
           IN  /\ q \in Seq(S)
               /\ \A e \in S : \E k \in 1..Len(q) : q[k] = e
               /\ \A j, k \in 1..Len(q) : j < k => EventBefore(q[j], q[k])
<1> DEFINE S == DecisionEvents(d, ts)
           R == ByEvent(S)
           q == Sorted(S, EventBefore)
<1>1. Orders(R, S)
  BY EventsOrder
<1>2. q = [k \in 1..Cardinality(S) |-> CHOOSE x \in S : Cardinality({y \in S : EventBefore(y, x)}) = k - 1]
  BY DEF Sorted
<1>3. \A x \in S : {y \in S : EventBefore(y, x)} = Preceding(x, R, S)
  <2> HIDE DEF S
  <2> QED
    BY DEF Preceding, ByEvent
<1>4. ASSUME NEW k \in 1..Cardinality(S)
      PROVE  q[k] \in S /\ Rank(q[k], R, S) = k - 1
  <2>1. \E x \in S : Cardinality({y \in S : EventBefore(y, x)}) = k - 1
    <3> HIDE DEF S, R
    <3>1. PICK x \in S : Rank(x, R, S) = k - 1
      BY <1>1, RankTaken
    <3> QED
      BY <1>3, <3>1 DEF Rank
  <2>2. q[k] = CHOOSE x \in S : Cardinality({y \in S : EventBefore(y, x)}) = k - 1
    BY <1>2
  <2>3. q[k] \in S /\ Cardinality({y \in S : EventBefore(y, q[k])}) = k - 1
    <3> HIDE DEF S, R, q
    <3> QED
      BY <2>1, <2>2
  <2> QED
    <3> HIDE DEF S, R, q
    <3> QED
      BY <2>3, <1>3 DEF Rank
<1>5. Ranks(q, R, S)
  <2>1. q = [k \in 1..Cardinality(S) |-> q[k]]
    BY <1>2
  <2> HIDE DEF S, R, q
  <2> QED
    BY <1>4, <2>1 DEF Ranks
<1>6. /\ q \in Seq(S)
      /\ \A x \in S : \E k \in 1..Len(q) : q[k] = x
      /\ \A j, k \in 1..Len(q) : j < k => <<q[j], q[k]>> \in R
  <2> HIDE DEF S, R, q
  <2> QED
    BY <1>1, <1>5, RankedSequence
<1>7. \A j, k \in 1..Len(q) : j < k => EventBefore(q[j], q[k])
  <2> HIDE DEF S, q
  <2> QED
    BY <1>6 DEF ByEvent
<1> QED
  BY <1>6, <1>7

\* Different decision numbers have different places in the order of keys.
LEMMA KeyRankInjective ==
    ASSUME NEW m \in Nat, NEW n \in Nat, KeyRank(m) = KeyRank(n)
    PROVE  m = n
<1>1. ASSUME NEW k \in Nat
      PROVE  k % 10 \in 0..9 /\ k = 10 * (k \div 10) + (k % 10)
  <2>1. k % 10 \in 0..9
    OBVIOUS
  <2>2. k = 10 * (k \div 10) + (k % 10)
    OBVIOUS
  <2> QED
    BY <2>1, <2>2
<1> QED
  BY <1>1 DEF KeyRank

\* Orders that are told apart by their decision number.
Numbered(S) ==
    /\ IsFiniteSet(S) /\ S \subseteq Order
    /\ \A a, b \in S : a.sequence = b.sequence => a = b

ByKey(S) == {pair \in S \X S : KeyRank(pair[1].sequence) < KeyRank(pair[2].sequence)}

\* What it takes to put orders in the order of their keys.
Keyed(S) ==
    /\ IsFiniteSet(S)
    /\ \A a \in S : a.sequence \in Nat
    /\ \A a, b \in S : a.sequence = b.sequence => a = b

\* Such orders are taken one by one, all of them.
LEMMA KeyedSequence ==
    ASSUME NEW S, Keyed(S)
    PROVE  LET q == Sorted(S, LAMBDA a, b : KeyRank(a.sequence) < KeyRank(b.sequence))
           IN  /\ q \in Seq(S)
               /\ \A o \in S : \E k \in 1..Len(q) : q[k] = o
               /\ \A j, k \in 1..Len(q) :
                     j < k => KeyRank(q[j].sequence) < KeyRank(q[k].sequence)
<1> DEFINE R == ByKey(S)
           q == Sorted(S, LAMBDA a, b : KeyRank(a.sequence) < KeyRank(b.sequence))
<1>1. Orders(R, S)
  <2>1. \A a \in S : a.sequence \in Nat
    BY DEF Keyed
  <2>2. \A n \in Nat : KeyRank(n) \in Int
    BY DEF KeyRank
  <2>3. \A a, b \in S : a # b => KeyRank(a.sequence) # KeyRank(b.sequence)
    BY <2>1, KeyRankInjective DEF Keyed
  <2> DEFINE K(a) == KeyRank(a.sequence)
  <2>4. \A a \in S : K(a) \in Int
    BY <2>1, <2>2
  <2>5. \A a, b \in S : a # b => K(a) # K(b)
    BY <2>3
  <2>6. R = {pair \in S \X S : K(pair[1]) < K(pair[2])}
    BY DEF ByKey
  <2> HIDE DEF K, R
  <2> QED
    BY <2>4, <2>5, <2>6 DEF Orders, Keyed
<1>2. q = [k \in 1..Cardinality(S) |->
             CHOOSE x \in S : Cardinality({y \in S : KeyRank(y.sequence) < KeyRank(x.sequence)}) = k - 1]
  BY DEF Sorted
<1>3. \A x \in S : {y \in S : KeyRank(y.sequence) < KeyRank(x.sequence)} = Preceding(x, R, S)
  BY DEF Preceding, ByKey
<1>4. ASSUME NEW k \in 1..Cardinality(S)
      PROVE  q[k] \in S /\ Rank(q[k], R, S) = k - 1
  <2>1. \E x \in S : Cardinality({y \in S : KeyRank(y.sequence) < KeyRank(x.sequence)}) = k - 1
    <3> HIDE DEF R
    <3> QED
      BY <1>1, <1>3, RankTaken DEF Rank
  <2>2. q[k] = CHOOSE x \in S : Cardinality({y \in S : KeyRank(y.sequence) < KeyRank(x.sequence)}) = k - 1
    BY <1>2
  <2>3. q[k] \in S /\ Cardinality({y \in S : KeyRank(y.sequence) < KeyRank(q[k].sequence)}) = k - 1
    <3> HIDE DEF R, q
    <3> QED
      BY <2>1, <2>2
  <2> QED
    <3> HIDE DEF R, q
    <3> QED
      BY <2>3, <1>3 DEF Rank
<1>5. Ranks(q, R, S)
  <2>1. q = [k \in 1..Cardinality(S) |-> q[k]]
    BY <1>2
  <2> HIDE DEF R, q
  <2> QED
    BY <1>4, <2>1 DEF Ranks
<1>6. /\ q \in Seq(S)
      /\ \A x \in S : \E k \in 1..Len(q) : q[k] = x
      /\ \A j, k \in 1..Len(q) : j < k => <<q[j], q[k]>> \in R
  <2> HIDE DEF R, q
  <2> QED
    BY <1>1, <1>5, RankedSequence
<1>7. \A j, k \in 1..Len(q) : j < k => KeyRank(q[j].sequence) < KeyRank(q[k].sequence)
  <2> HIDE DEF q
  <2> QED
    BY <1>6 DEF ByKey
<1> QED
  BY <1>6, <1>7

\* The orders of the engine are such orders.
LEMMA OrdersSequence ==
    ASSUME NEW S, Numbered(S)
    PROVE  LET q == Sorted(S, LAMBDA a, b : KeyRank(a.sequence) < KeyRank(b.sequence))
           IN  /\ q \in Seq(S)
               /\ \A o \in S : \E k \in 1..Len(q) : q[k] = o
               /\ \A j, k \in 1..Len(q) :
                     j < k => KeyRank(q[j].sequence) < KeyRank(q[k].sequence)
<1>1. Keyed(S)
  BY DEF Numbered, Keyed, Order
<1> QED
  BY <1>1, KeyedSequence

-----------------------------------------------------------------------------
(* The portfolio *)

\* Quotients round down.
LEMMA Quotient ==
    ASSUME NEW k \in Nat, NEW u \in Nat \ {0}
    PROVE  k \div u \in Nat /\ u * (k \div u) <= k
<1>1. k \div u \in Nat
  OBVIOUS
<1>2. u * (k \div u) <= k
  OBVIOUS
<1> QED
  BY <1>1, <1>2

\* Two shares of an amount, rounded down, do not exceed it if their rates do not.
LEMMA SharesWithin ==
    ASSUME NEW n \in Nat, NEW a \in Nat, NEW b \in Nat, NEW u \in Nat \ {0}, a + b <= u
    PROVE  (n * a) \div u + (n * b) \div u <= n
<1>1. n * a \in Nat /\ n * b \in Nat
  OBVIOUS
<1>2. PICK p \in Nat : p = (n * a) \div u /\ u * p <= n * a
  BY <1>1, Quotient
<1>3. PICK q \in Nat : q = (n * b) \div u /\ u * q <= n * b
  BY <1>1, Quotient
<1>4. n * a + n * b = n * (a + b) /\ n * (a + b) <= n * u
  OBVIOUS
<1>5. u * (p + q) <= u * n
  BY <1>2, <1>3, <1>4
<1>6. p + q <= n
  BY <1>5
<1> QED
  BY <1>2, <1>3, <1>6

\* The cost of a part of a position is at most its cost.
LEMMA PartWithin ==
    ASSUME NEW c \in Nat, NEW q \in Nat, NEW h \in Nat \ {0}, q <= h
    PROVE  (c * q) \div h \in 0..c
<1>1. c * q \in Nat /\ c * q <= h * c
  OBVIOUS
<1>2. PICK p \in Nat : p = (c * q) \div h /\ h * p <= c * q
  BY <1>1, Quotient
<1>3. h * p <= h * c
  BY <1>1, <1>2
<1>4. p <= c
  BY <1>3
<1> QED
  BY <1>2, <1>4

\* Shares of an amount that is negative are whole numbers as well.
LEMMA IntQuotient ==
    ASSUME NEW k \in Int, NEW u \in Nat \ {0}
    PROVE  k \div u \in Int
  OBVIOUS

\* What the rates leave of the amounts: they are natural numbers within bounds.
LEMMA AmountTypes ==
    /\ FillAmount \subseteq Int /\ Nat \subseteq FillAmount
    /\ Cash \subseteq Int /\ Nat \subseteq Cash
    /\ SalesPay => FillAmount = Nat /\ Cash = Nat
  BY EngineConstants DEF FillAmount, Cash, SalesPay

\* The economics of an order: a buy costs, a sale pays unless the rates say otherwise.
Priced(e, side, quantity) ==
    /\ e \in Economics /\ e.side = side /\ e.quantity = quantity
    /\ CashDelta(e) \in Int
    /\ side = "BUY" => CashDelta(e) <= 0
    /\ side = "SELL" /\ SalesPay => CashDelta(e) >= 0

\* The price of a fill is a natural number, except for a sale with a slippage of
\* more than the price.
LEMMA PriceType ==
    ASSUME NEW side \in {"BUY", "SELL"}, NEW quantity \in Nat \ {0}, NEW reference \in Nat
    PROVE  /\ PriceFill(side, quantity, reference).price \in FillAmount
           /\ side = "BUY" => PriceFill(side, quantity, reference).price \in Nat
<1> DEFINE buying == reference * (RateUnit + Slippage)
           selling == reference * (RateUnit - Slippage)
           price == PriceFill(side, quantity, reference).price
<1>1. RateUnit \in Nat \ {0} /\ Slippage \in Nat
  BY EngineConstants
<1>2. price = IF side = "BUY" THEN buying \div RateUnit ELSE selling \div RateUnit
  BY DEF PriceFill
<1>3. buying \in Nat /\ selling \in Int /\ (Slippage <= RateUnit => selling \in Nat)
  <2>1. buying \in Nat
    BY <1>1
  <2>2. selling \in Int
    BY <1>1
  <2>3. ASSUME Slippage <= RateUnit
        PROVE  selling \in Nat
    <3>1. RateUnit - Slippage \in Nat
      BY <1>1, <2>3
    <3> QED
      BY <3>1
  <2> QED
    BY <2>1, <2>2, <2>3
<1> HIDE DEF buying, selling, price
<1>4. /\ buying \div RateUnit \in Nat /\ selling \div RateUnit \in Int
      /\ Slippage <= RateUnit => selling \div RateUnit \in Nat
  BY <1>1, <1>3, Quotient, IntQuotient
<1>5. price \in FillAmount /\ (side = "BUY" => price \in Nat)
  BY <1>2, <1>4 DEF FillAmount
<1> QED
  BY <1>5 DEF price

\* What PriceFill makes of an order.
LEMMA PricedFill ==
    ASSUME NEW side \in {"BUY", "SELL"}, NEW quantity \in Nat \ {0}, NEW reference \in Nat
    PROVE  Priced(PriceFill(side, quantity, reference), side, quantity)
<1> DEFINE e == PriceFill(side, quantity, reference)
<1>1. /\ RateUnit \in Nat \ {0} /\ Slippage \in Nat
      /\ Commission \in Nat /\ SellTax \in Nat
  BY EngineConstants
<1>3. e.price \in FillAmount /\ (side = "BUY" => e.price \in Nat)
  BY PriceType
<1> DEFINE n == e.notional
<1>5. /\ e.commission = (n * Commission) \div RateUnit
      /\ e.tax = IF side = "SELL" THEN (n * SellTax) \div RateUnit ELSE 0
      /\ e.side = side /\ e.quantity = quantity
      /\ e = [side |-> e.side, quantity |-> e.quantity, price |-> e.price,
              notional |-> e.notional, commission |-> e.commission, tax |-> e.tax]
  BY DEF PriceFill
<1>6. n = e.price * quantity
  BY DEF PriceFill
<1> HIDE DEF n, e
<1>7. e.price \in Int /\ n \in Int
  <2>1. e.price \in Int
    BY <1>3, AmountTypes
  <2> QED
    BY <1>6, <2>1
<1>8. ASSUME e.price \in Nat
      PROVE  n \in Nat /\ e.commission \in Nat /\ e.tax \in Nat
  <2>1. n \in Nat
    BY <1>6, <1>8
  <2>2. n * Commission \in Nat /\ n * SellTax \in Nat
    BY <1>1, <2>1
  <2>3. (n * Commission) \div RateUnit \in Nat /\ (n * SellTax) \div RateUnit \in Nat
    BY <1>1, <2>2, Quotient
  <2> QED
    BY <1>5, <2>1, <2>3
<1>9. e.commission \in Int /\ e.tax \in Int
  <2>1. n * Commission \in Int /\ n * SellTax \in Int
    BY <1>1, <1>7
  <2>2. (n * Commission) \div RateUnit \in Int /\ (n * SellTax) \div RateUnit \in Int
    BY <1>1, <2>1, IntQuotient
  <2> QED
    BY <1>5, <2>2
<1>10. n \in FillAmount /\ e.commission \in FillAmount /\ e.tax \in FillAmount
  <2>1. CASE Slippage <= RateUnit
    BY <1>3, <1>8, <2>1 DEF FillAmount
  <2>2. CASE ~(Slippage <= RateUnit)
    BY <1>7, <1>9, <2>2 DEF FillAmount
  <2> QED
    BY <2>1, <2>2
<1>11. e \in Economics
  BY <1>3, <1>5, <1>10 DEF Economics, n
<1>12. CashDelta(e) = IF side = "BUY" THEN -(n + e.commission + e.tax)
                                      ELSE n - e.commission - e.tax
  BY <1>5 DEF CashDelta, n
<1>13. ASSUME side = "BUY"
       PROVE  CashDelta(e) <= 0
  <2>1. n \in Nat /\ e.commission \in Nat /\ e.tax \in Nat
    BY <1>3, <1>8, <1>13
  <2> QED
    BY <1>12, <1>13, <2>1
<1>14. ASSUME side = "SELL", SalesPay
       PROVE  CashDelta(e) >= 0
  <2>1. n \in Nat /\ e.commission \in Nat /\ e.tax \in Nat
    BY <1>3, <1>8, <1>14, AmountTypes
  <2>2. (n * Commission) \div RateUnit + (n * SellTax) \div RateUnit <= n
    BY <1>1, <1>14, <2>1, SharesWithin DEF SalesPay
  <2>3. e.commission + e.tax <= n
    BY <1>5, <1>14, <2>2
  <2> QED
    BY <1>12, <1>14, <2>1, <2>3
<1>15. CashDelta(e) \in Int
  BY <1>7, <1>9, <1>12
<1> QED
  BY <1>5, <1>11, <1>13, <1>14, <1>15 DEF Priced, e

\* The fill an account can take: priced as above, and not for more than is held.
Acceptable(state, e) ==
    /\ state \in Position /\ e \in Economics /\ CashDelta(e) \in Int
    /\ e.side = "BUY" => CashDelta(e) <= 0
    /\ e.side = "SELL" => e.quantity <= state.quantity

\* The signed quantity of a fill.
SignedQuantity(e) == IF e.side = "BUY" THEN e.quantity ELSE -e.quantity

\* A position stays one, and what it costs less what it realized changes by what
\* the fill takes from the cash.
LEMMA AppliedFill ==
    ASSUME NEW state, NEW e, Acceptable(state, e)
    PROVE  /\ ApplyFill(state, e) \in Position
           /\ ApplyFill(state, e).quantity = state.quantity + SignedQuantity(e)
           /\ CashDelta(e) + ApplyFill(state, e).cost - ApplyFill(state, e).realized
                = state.cost - state.realized
<1> DEFINE delta == CashDelta(e)
           after == ApplyFill(state, e)
<1>1. /\ state.quantity \in Nat /\ state.cost \in Nat /\ state.realized \in Int
      /\ state = [quantity |-> state.quantity, cost |-> state.cost, realized |-> state.realized]
  BY DEF Acceptable, Position
<1>2. e.quantity \in Nat \ {0} /\ e.side \in {"BUY", "SELL"} /\ delta \in Int
  BY DEF Acceptable, Economics
<1>3. CASE e.side = "BUY"
  <2>1. after = [quantity |-> state.quantity + e.quantity, cost |-> state.cost - delta,
                 realized |-> state.realized]
    BY <1>1, <1>3 DEF ApplyFill
  <2>2. delta <= 0
    BY <1>3 DEF Acceptable
  <2> HIDE DEF delta, after
  <2>3. state.quantity + e.quantity \in Nat /\ state.cost - delta \in Nat
    BY <1>1, <1>2, <2>2
  <2>4. after \in Position
    BY <1>1, <2>1, <2>3 DEF Position
  <2>5. after.quantity = state.quantity + e.quantity /\ after.cost = state.cost - delta
        /\ after.realized = state.realized
    BY <2>1
  <2>6. delta + after.cost - after.realized = state.cost - state.realized
    BY <1>1, <1>2, <2>5
  <2>7. SignedQuantity(e) = e.quantity
    BY <1>3 DEF SignedQuantity
  <2> QED
    BY <2>4, <2>5, <2>6, <2>7 DEF delta, after
<1>4. CASE e.side = "SELL"
  <2> DEFINE part == CostOf(state, e.quantity)
  <2>1. after = [quantity |-> state.quantity - e.quantity, cost |-> state.cost - part,
                 realized |-> state.realized + delta - part]
    BY <1>4 DEF ApplyFill
  <2>2. e.quantity <= state.quantity
    BY <1>4 DEF Acceptable
  <2>3. part \in 0..state.cost
    <3>1. state.quantity \in Nat \ {0} /\ e.quantity \in Nat
      BY <1>1, <1>2, <2>2
    <3> QED
      BY <1>1, <2>2, <3>1, PartWithin DEF CostOf
  <2> HIDE DEF delta, after, part
  <2>4. /\ state.quantity - e.quantity \in Nat /\ state.cost - part \in Nat
        /\ state.realized + delta - part \in Int
    BY <1>1, <1>2, <2>2, <2>3
  <2>5. after \in Position
    BY <2>1, <2>4 DEF Position
  <2>6. after.quantity = state.quantity - e.quantity /\ after.cost = state.cost - part
        /\ after.realized = state.realized + delta - part
    BY <2>1
  <2>7. delta + after.cost - after.realized = state.cost - state.realized
    BY <1>1, <1>2, <2>3, <2>6
  <2>8. SignedQuantity(e) = -e.quantity
    BY <1>4 DEF SignedQuantity
  <2>9. after.quantity = state.quantity + SignedQuantity(e)
    BY <1>1, <1>2, <2>6, <2>8
  <2> QED
    BY <2>5, <2>7, <2>9 DEF delta, after
<1> QED
  BY <1>2, <1>3, <1>4

\* The last bars of a sequence are bars of it.
LEMMA LastBarsSequence ==
    ASSUME NEW S, NEW bars \in Seq(S), NEW n \in Nat \ {0}
    PROVE  /\ LastBars(bars, n) \in Seq(S)
           /\ \A k \in 1..Len(LastBars(bars, n)) :
                 \E j \in 1..Len(bars) : LastBars(bars, n)[k] = bars[j]
           /\ bars # <<>> => /\ LastBars(bars, n) # <<>>
                             /\ LastBars(bars, n)[Len(LastBars(bars, n))] = bars[Len(bars)]
<1> DEFINE m == IF Len(bars) > n THEN Len(bars) - n + 1 ELSE 1
           l == Len(bars)
<1>1. l \in Nat /\ m \in Nat /\ m >= 1 /\ (l > 0 => m <= l)
  OBVIOUS
<1>2. \A i \in m..l : bars[i] \in S
  BY <1>1
<1>3. LastBars(bars, n) = SubSeq(bars, m, l)
  BY DEF LastBars
<1> HIDE DEF m
<1>4. /\ SubSeq(bars, m, l) \in Seq(S)
      /\ Len(SubSeq(bars, m, l)) = IF m <= l THEN l - m + 1 ELSE 0
      /\ \A i \in 1..(l - m + 1) : SubSeq(bars, m, l)[i] = bars[m + i - 1]
  <2>1. m \in Int /\ l \in Int
    BY <1>1
  <2> HIDE DEF l
  <2> QED
    BY <2>1, <1>2, SubSeqProperties
<1>5. ASSUME NEW k \in 1..Len(SubSeq(bars, m, l))
      PROVE  \E j \in 1..l : SubSeq(bars, m, l)[k] = bars[j]
  <2>1. m <= l /\ k \in 1..(l - m + 1)
    BY <1>1, <1>4
  <2>2. m + k - 1 \in 1..l
    BY <2>1, <1>1
  <2> QED
    BY <1>4, <2>1, <2>2
<1>6. ASSUME bars # <<>>
      PROVE  /\ SubSeq(bars, m, l) # <<>>
             /\ SubSeq(bars, m, l)[Len(SubSeq(bars, m, l))] = bars[l]
  <2>1. l > 0
    BY <1>6
  <2>2. Len(SubSeq(bars, m, l)) = l - m + 1 /\ l - m + 1 \in 1..(l - m + 1)
    BY <2>1, <1>1, <1>4
  <2>3. m + (l - m + 1) - 1 = l
    BY <1>1
  <2>4. SubSeq(bars, m, l)[l - m + 1] = bars[l]
    BY <1>4, <2>2, <2>3
  <2>5. SubSeq(bars, m, l) # <<>>
    <3> DEFINE q == SubSeq(bars, m, l)
    <3>1. Len(q) # 0 /\ q \in Seq(S)
      BY <1>1, <1>4, <2>1, <2>2
    <3> HIDE DEF q
    <3>2. q # <<>>
      BY <3>1
    <3> QED
      BY <3>2 DEF q
  <2> QED
    BY <2>2, <2>4, <2>5
<1> QED
  BY <1>3, <1>4, <1>5, <1>6

-----------------------------------------------------------------------------
(* The inductive invariant *)

\* The instants of the rows of a dataset.
Instants(d) ==
    {ts \in Nat : \E role \in Role, i \in Instruments : \E row \in d[role][i] : row.available = ts}

\* What is still to come lies ahead, at an instant of some row.
ScheduleAhead == \A ts \in upcoming : ts > now /\ ts \in Instants(data)

\* The orders that wait have an execution bar and a decision number of their own.
OrdersWait ==
    /\ Numbered(pending)
    /\ \A o \in pending : o.bar # None /\ o.sequence <= Len(decisions)

\* The orders being filled are those of this instant.
OrdersDue == \A k \in 1..Len(filling) : filling[k].bar # None /\ filling[k].bar.available = now

\* The journal is not ahead of the loop, and behind it while orders are filled.
JournalPast ==
    /\ \A k \in 1..Len(fills) : fills[k].ts <= now
    /\ \A n \in 1..Len(decisions) : decisions[n].ts <= now
    /\ filling # <<>> => \A n \in 1..Len(decisions) : decisions[n].ts < now

EngineInv ==
    /\ TypeOK
    /\ data \in Datasets
    /\ ScheduleAhead
    /\ OrdersWait
    /\ OrdersDue
    /\ JournalPast

\* The decision instants of a dataset are instants of its rows.
LEMMA DecisionInstantsAhead ==
    ASSUME NEW d \in Datasets
    PROVE  \A ts \in DecisionInstants(d) : ts > 0 /\ ts \in Nat /\ ts \in Instants(d)
<1> SUFFICES ASSUME NEW ts \in DecisionInstants(d)
             PROVE  ts > 0 /\ ts \in Nat /\ ts \in Instants(d)
  OBVIOUS
<1>1. PICK e : e \in DecisionEvents(d, ts)
  BY DEF DecisionInstants
<1> DEFINE rows == d["signal"][e.instrument]
<1>2. /\ e.instrument \in Instruments /\ ts \in EventFrom..(EventTo - 1)
      /\ ts = FirstVisibility(rows, e.trigger.open) /\ e.trigger.open \in Opens(rows)
  BY <1>1, EventFacts
<1>3. Component(rows) /\ "signal" \in Role
  BY <1>2, DatasetRows DEF Role
<1>4. PICK row \in rows : row.available = ts
  <2> HIDE DEF rows
  <2> QED
    BY <1>2, <1>3, FirstVisibilityLeast
<1>5. ts \in Nat /\ ts > 0
  BY <1>2, EngineConstants
<1> QED
  BY <1>2, <1>3, <1>4, <1>5 DEF Instants

\* The initial state.
LEMMA EngineInitSafe == Init => EngineInv
<1> SUFFICES ASSUME Init
             PROVE  EngineInv
  OBVIOUS
<1>1. data \in Datasets /\ data \in Dataset
  BY EngineConstants DEF Init
<1>2. ScheduleAhead /\ upcoming \subseteq Nat
  BY <1>1, DecisionInstantsAhead DEF Init, ScheduleAhead
<1>3. NoPosition \in Position
  BY DEF NoPosition, Position
<1>4. position \in [Instruments -> Position] /\ valuations \in [Instruments -> Bar \cup {None}]
  BY <1>3 DEF Init
<1>5. cash \in Cash
  BY EngineConstants, AmountTypes DEF Init
<1>6. /\ filling \in Seq(Order) /\ deciding \in Seq(Event) /\ decisions \in Seq(Decision)
      /\ orders \in Seq(Order) /\ fills \in Seq(Fill)
      /\ Len(filling) = 0 /\ Len(decisions) = 0 /\ Len(fills) = 0
  BY DEF Init
<1>7. TypeOK
  BY <1>1, <1>2, <1>4, <1>5, <1>6 DEF Init, TypeOK
<1>8. OrdersWait
  BY FS_EmptySet DEF Init, OrdersWait, Numbered
<1>9. OrdersDue /\ JournalPast
  BY <1>6 DEF Init, OrdersDue, JournalPast
<1> QED
  BY <1>1, <1>2, <1>7, <1>8, <1>9 DEF EngineInv

\* Moving on to the next instant.
LEMMA NextInstantSafe ==
    ASSUME EngineInv, NextInstant
    PROVE  EngineInv' /\ now' > now /\ now' \in Instants(data)
<1> DEFINE ts == Min(upcoming)
           due == Due(ts)
           events == DecisionEvents(data, ts)
<1>1. /\ upcoming # {} /\ upcoming \subseteq Nat /\ now \in Nat /\ data \in Datasets
      /\ pending \subseteq Order
  BY DEF NextInstant, EngineInv, TypeOK
<1>2. ts \in upcoming /\ \A other \in upcoming : ts <= other
  BY <1>1, MinLeast
<1> HIDE DEF ts
<1>3. /\ now' = ts /\ upcoming' = upcoming \ {ts} /\ pending' = pending \ due
      /\ filling' = Sorted(due, LAMBDA a, b : KeyRank(a.sequence) < KeyRank(b.sequence))
      /\ deciding' = Sorted(events, EventBefore)
  BY DEF NextInstant, ts
<1>4. /\ data' = data /\ cash' = cash /\ position' = position /\ decisions' = decisions
      /\ orders' = orders /\ fills' = fills /\ valuations' = valuations /\ outcome' = outcome
  BY DEF NextInstant
<1>5. ts > now /\ ts \in Instants(data) /\ ts \in Nat
  BY <1>1, <1>2 DEF EngineInv, ScheduleAhead
<1>6. ScheduleAhead' /\ upcoming' \subseteq Nat
  <2> SUFFICES ASSUME NEW t \in upcoming \ {ts}
               PROVE  t > ts /\ t \in Instants(data)
    BY <1>1, <1>3, <1>4 DEF ScheduleAhead
  <2>1. t \in Nat /\ ts <= t /\ t # ts
    BY <1>1, <1>2
  <2> QED
    BY <1>5, <2>1 DEF EngineInv, ScheduleAhead
<1>7. Numbered(due) /\ \A o \in due : o.bar # None /\ o.bar.available = ts
  <2>1. due \in SUBSET pending /\ \A o \in due : o.bar.available = ts
    BY DEF Due
  <2> HIDE DEF due
  <2> QED
    BY <2>1, FS_Subset DEF EngineInv, OrdersWait, Numbered
<1>8. filling' \in Seq(due)
  <2> HIDE DEF due
  <2> QED
    BY <1>3, <1>7, OrdersSequence
<1>9. filling' \in Seq(Order) /\ \A k \in 1..Len(filling') : filling'[k] \in due
  <2>1. due \subseteq Order
    BY <1>1 DEF Due
  <2> HIDE DEF due
  <2> QED
    BY <1>8, <2>1, SeqMonotonic
<1>10. OrdersDue'
  <2> HIDE DEF due
  <2> QED
    BY <1>3, <1>7, <1>9 DEF OrdersDue
<1>11. deciding' \in Seq(Event)
  <2>1. deciding' \in Seq(events)
    BY <1>1, <1>3, EventsSequence
  <2>2. events \subseteq Event
    BY <1>1, EventFacts
  <2> HIDE DEF events
  <2> QED
    BY <2>1, <2>2, SeqMonotonic
<1>12. OrdersWait' /\ pending' \subseteq Order
  <2>1. pending' \in SUBSET pending
    BY <1>3
  <2> QED
    BY <1>1, <1>4, <2>1, FS_Subset DEF EngineInv, OrdersWait, Numbered
<1>13. JournalPast'
  <2>1. \A k \in 1..Len(fills) : fills[k].ts <= ts
    <3> SUFFICES ASSUME NEW k \in 1..Len(fills)
                 PROVE  fills[k].ts <= ts
      OBVIOUS
    <3>1. fills[k] \in Fill
      BY DEF EngineInv, TypeOK
    <3>2. fills[k].ts \in Nat /\ fills[k].ts <= now
      BY <3>1 DEF EngineInv, Fill, JournalPast
    <3> QED
      BY <3>2, <1>1, <1>5
  <2>2. \A n \in 1..Len(decisions) : decisions[n].ts < ts /\ decisions[n].ts <= ts
    <3> SUFFICES ASSUME NEW n \in 1..Len(decisions)
                 PROVE  decisions[n].ts < ts /\ decisions[n].ts <= ts
      OBVIOUS
    <3>1. decisions[n] \in Decision
      BY DEF EngineInv, TypeOK
    <3>2. decisions[n].ts \in Nat /\ decisions[n].ts <= now
      BY <3>1 DEF EngineInv, Decision, JournalPast
    <3> QED
      BY <3>2, <1>1, <1>5
  <2> QED
    BY <2>1, <2>2, <1>3, <1>4 DEF JournalPast
<1>14. TypeOK'
  BY <1>3, <1>4, <1>5, <1>6, <1>9, <1>11, <1>12 DEF EngineInv, TypeOK
<1> QED
  BY <1>1, <1>3, <1>4, <1>5, <1>6, <1>10, <1>12, <1>13, <1>14 DEF EngineInv

\* The order at the head of the ones to fill, and what it is worth.
LEMMA DueOrder ==
    ASSUME EngineInv, filling # <<>>
    PROVE  LET o == Head(filling)
               e == PriceFill(o.side, o.quantity, o.bar.close)
           IN  /\ o \in Order /\ o.bar \in Bar /\ o.bar.available = now
               /\ e \in Economics /\ e.side = o.side /\ e.quantity = o.quantity
               /\ CashDelta(e) \in Int
               /\ o.side = "BUY" => CashDelta(e) <= 0
               /\ o.side = "SELL" /\ SalesPay => CashDelta(e) >= 0
               /\ Tail(filling) \in Seq(Order) /\ Len(Tail(filling)) = Len(filling) - 1
               /\ \A k \in 1..Len(Tail(filling)) :
                     k + 1 \in 1..Len(filling) /\ Tail(filling)[k] = filling[k + 1]
<1> DEFINE o == Head(filling)
           e == PriceFill(o.side, o.quantity, o.bar.close)
<1>1. filling \in Seq(Order) /\ Len(filling) \in Nat /\ Len(filling) >= 1
  BY DEF EngineInv, TypeOK
<1>2. o = filling[1] /\ 1 \in 1..Len(filling)
  BY <1>1
<1>3. o \in Order /\ o.bar # None /\ o.bar.available = now
  BY <1>1, <1>2 DEF EngineInv, OrdersDue
<1>4. o.bar \in Bar /\ o.side \in {"BUY", "SELL"} /\ o.quantity \in Nat \ {0}
  <2> HIDE DEF o
  <2> QED
    BY <1>3 DEF Order
<1>5. o.bar.close \in Nat
  <2> HIDE DEF o
  <2> QED
    BY <1>4 DEF Bar
<1>6. /\ e \in Economics /\ e.side = o.side /\ e.quantity = o.quantity
      /\ CashDelta(e) \in Int
      /\ o.side = "BUY" => CashDelta(e) <= 0
      /\ o.side = "SELL" /\ SalesPay => CashDelta(e) >= 0
  <2> DEFINE c == o.bar.close
  <2>1. Priced(PriceFill(o.side, o.quantity, c), o.side, o.quantity)
    <3> HIDE DEF o, c
    <3>1. c \in Nat
      BY <1>5 DEF c
    <3> QED
      BY <1>4, <3>1, PricedFill
  <2> QED
    BY <2>1 DEF Priced
<1>7. /\ Tail(filling) \in Seq(Order) /\ Len(Tail(filling)) = Len(filling) - 1
      /\ \A k \in 1..Len(Tail(filling)) :
            k + 1 \in 1..Len(filling) /\ Tail(filling)[k] = filling[k + 1]
  BY <1>1, HeadTailProperties
<1> QED
  BY <1>3, <1>4, <1>6, <1>7

\* A fill that the portfolio takes leaves it in order.
LEMMA TakenFill ==
    ASSUME EngineInv, NEW o \in Order, NEW e \in Economics,
           CashDelta(e) \in Int,
           e.side = "BUY" => CashDelta(e) <= 0,
           e.side = "SELL" /\ SalesPay => CashDelta(e) >= 0,
           CanApply(o.instrument, e)
    PROVE  /\ o.instrument \in Instruments
           /\ Acceptable(position[o.instrument], e)
           /\ cash + CashDelta(e) \in Cash
<1>1. o.instrument \in Instruments /\ e.side \in {"BUY", "SELL"}
  BY DEF Order, Economics
<1>2. position[o.instrument] \in Position /\ cash \in Cash
  BY <1>1 DEF EngineInv, TypeOK
<1>3. cash + CashDelta(e) \in Cash
  <2>1. CASE SalesPay
    BY <1>1, <1>2, <2>1, AmountTypes DEF CanApply
  <2>2. CASE ~SalesPay
    BY <1>2, <2>2 DEF Cash
  <2> QED
    BY <2>1, <2>2
<1>4. e.side = "SELL" => e.quantity <= position[o.instrument].quantity
  BY DEF CanApply
<1> QED
  BY <1>1, <1>2, <1>3, <1>4 DEF Acceptable

\* Filling an order, or passing over it.
LEMMA FillOrderSafe ==
    ASSUME EngineInv, FillOrder
    PROVE  /\ EngineInv' /\ now' = now
           /\ Len(filling') + Len(deciding') < Len(filling) + Len(deciding)
<1> DEFINE o == Head(filling)
           e == PriceFill(o.side, o.quantity, o.bar.close)
           f == [order |-> o, ts |-> o.bar.available, economics |-> e]
<1>1. filling # <<>> /\ filling' = Tail(filling)
  BY DEF FillOrder
<1>2. /\ data' = data /\ upcoming' = upcoming /\ now' = now /\ deciding' = deciding
      /\ pending' = pending /\ decisions' = decisions /\ orders' = orders
      /\ valuations' = valuations /\ outcome' = outcome
  BY DEF FillOrder
<1>3. /\ o \in Order /\ o.bar \in Bar /\ o.bar.available = now
      /\ e \in Economics /\ e.side = o.side /\ e.quantity = o.quantity
      /\ CashDelta(e) \in Int
      /\ o.side = "BUY" => CashDelta(e) <= 0
      /\ o.side = "SELL" /\ SalesPay => CashDelta(e) >= 0
      /\ filling' \in Seq(Order) /\ Len(filling') = Len(filling) - 1
      /\ \A k \in 1..Len(filling') : k + 1 \in 1..Len(filling) /\ filling'[k] = filling[k + 1]
  BY <1>1, DueOrder
<1>4. \/ /\ CanApply(o.instrument, e)
         /\ cash' = cash + CashDelta(e)
         /\ position' = [position EXCEPT ![o.instrument] = ApplyFill(@, e)]
         /\ fills' = Append(fills, f)
      \/ cash' = cash /\ position' = position /\ fills' = fills
  BY DEF FillOrder
<1> HIDE DEF o, e
<1>5. OrdersDue'
  BY <1>2, <1>3 DEF EngineInv, OrdersDue
<1>6. ScheduleAhead' /\ OrdersWait'
  BY <1>2 DEF EngineInv, ScheduleAhead, OrdersWait
<1>7. f \in Fill /\ f.ts = now
  BY <1>3 DEF Fill, EngineInv, TypeOK
<1>8. /\ cash' \in Cash /\ position' \in [Instruments -> Position] /\ fills' \in Seq(Fill)
      /\ \A k \in 1..Len(fills') : fills'[k].ts <= now
  <2>1. /\ cash \in Cash /\ position \in [Instruments -> Position] /\ fills \in Seq(Fill)
        /\ now \in Nat
    BY DEF EngineInv, TypeOK
  <2>2. \A k \in 1..Len(fills) : fills[k].ts <= now
    BY DEF EngineInv, JournalPast
  <2>3. CASE CanApply(o.instrument, e) /\ cash' = cash + CashDelta(e)
              /\ position' = [position EXCEPT ![o.instrument] = ApplyFill(@, e)]
              /\ fills' = Append(fills, f)
    <3>1. /\ o.instrument \in Instruments /\ Acceptable(position[o.instrument], e)
          /\ cash + CashDelta(e) \in Cash
      BY <1>3, <2>3, TakenFill
    <3>2. ApplyFill(position[o.instrument], e) \in Position
      BY <3>1, AppliedFill
    <3>3. position' \in [Instruments -> Position]
      BY <2>1, <2>3, <3>1, <3>2
    <3> HIDE DEF f
    <3>4. fills' \in Seq(Fill) /\ \A k \in 1..Len(fills') : fills'[k].ts <= now
      <4>1. /\ fills' \in Seq(Fill) /\ Len(fills') = Len(fills) + 1
            /\ \A k \in 1..Len(fills) : fills'[k] = fills[k]
            /\ fills'[Len(fills) + 1] = f
        BY <2>1, <2>3, <1>7, AppendProperties
      <4> QED
        BY <4>1, <2>1, <2>2, <1>7
    <3> QED
      BY <2>3, <3>1, <3>3, <3>4
  <2>4. CASE cash' = cash /\ position' = position /\ fills' = fills
    BY <2>1, <2>2, <2>4
  <2> QED
    BY <1>4, <2>3, <2>4
<1>9. JournalPast'
  BY <1>1, <1>2, <1>8 DEF EngineInv, JournalPast
<1>10. TypeOK'
  BY <1>2, <1>3, <1>8 DEF EngineInv, TypeOK
<1>11. Len(filling') + Len(deciding') < Len(filling) + Len(deciding)
  <2>1. Len(filling) \in Nat /\ Len(deciding) \in Nat
    BY DEF EngineInv, TypeOK
  <2> QED
    BY <1>2, <1>3, <2>1
<1> QED
  BY <1>2, <1>5, <1>6, <1>9, <1>10, <1>11 DEF EngineInv

\* The bars a decision is made from, and the order it may lead to.
LEMMA DecidingEvent ==
    ASSUME EngineInv, deciding # <<>>
    PROVE  LET event == Head(deciding)
               i == event.instrument
               inputs == LastBars(VisibleBars(data["signal"][i], now), SlowWindow)
           IN  /\ event \in Event /\ i \in Instruments /\ event.trigger \in Bar
               /\ inputs \in Seq(Bar)
               /\ \A k \in 1..Len(inputs) : inputs[k].available <= now
               /\ Target(inputs) \in Nat
               /\ Tail(deciding) \in Seq(Event) /\ Len(Tail(deciding)) = Len(deciding) - 1
<1> DEFINE event == Head(deciding)
           i == event.instrument
           rows == data["signal"][i]
           bars == VisibleBars(rows, now)
           inputs == LastBars(bars, SlowWindow)
<1>1. deciding \in Seq(Event) /\ now \in Nat /\ data \in Datasets
  BY DEF EngineInv, TypeOK
<1>2. /\ event \in Event
      /\ Tail(deciding) \in Seq(Event) /\ Len(Tail(deciding)) = Len(deciding) - 1
  BY <1>1, HeadTailProperties
<1>3. i \in Instruments /\ event.trigger \in Bar
  <2> HIDE DEF event
  <2> QED
    BY <1>2 DEF Event
<1>4. Component(rows)
  <2> HIDE DEF i
  <2> QED
    BY <1>1, <1>3, DatasetRows DEF Role
<1>5. /\ bars \in Seq(rows)
      /\ \A k \in 1..Len(bars) : bars[k] \in rows /\ bars[k].available <= now
  <2> HIDE DEF rows
  <2>1. /\ bars \in Seq(rows)
        /\ \A k \in 1..Len(bars) : bars[k] \in AllSelected(rows, now)
    BY <1>4, VisibleBarsSequence
  <2>2. AllSelected(rows, now) \subseteq rows
        /\ \A row \in AllSelected(rows, now) : row.available <= now
    BY <1>4, OpeningsOrder
  <2> QED
    BY <2>1, <2>2
<1>6. SlowWindow \in Nat \ {0} /\ TargetQuantity \in Nat
  BY EngineConstants
<1>7. /\ inputs \in Seq(rows)
      /\ \A k \in 1..Len(inputs) : \E j \in 1..Len(bars) : inputs[k] = bars[j]
  <2> HIDE DEF rows, bars
  <2> QED
    BY <1>5, <1>6, LastBarsSequence
<1>8. inputs \in Seq(Bar) /\ \A k \in 1..Len(inputs) : inputs[k].available <= now
  <2> HIDE DEF rows, bars, inputs
  <2> QED
    BY <1>4, <1>5, <1>7, SeqMonotonic DEF Component
<1>9. Target(inputs) \in Nat
  BY <1>6 DEF Target
<1> QED
  BY <1>2, <1>3, <1>8, <1>9

\* An order for the difference between what is held and what is to be held, with
\* the bar at which it is to be executed.
OrderFor(o, n, event, held, target) ==
    LET rows == data["execution"][event.instrument]
        lag == Lag[event.instrument]
    IN  /\ o \in Order /\ o.sequence = n /\ o.instrument = event.instrument
        /\ o.submitted_at = now /\ o.trigger = event.trigger
        /\ o.side = (IF target > held THEN "BUY" ELSE "SELL")
        /\ o.quantity = (IF target > held THEN target - held ELSE held - target)
        /\ o.bar # None => /\ o.bar \in NextExecutionBar(rows, event.trigger.open, now, lag)
                           /\ o.bar \in rows /\ o.bar.open > event.trigger.open
                           /\ o.bar.available = FirstVisibility(rows, o.bar.open)
                           /\ o.bar.available >= now + lag
        /\ o.bar = None => NextExecutionBar(rows, event.trigger.open, now, lag) = {}

\* What NewOrder makes when there is something to order.
LEMMA NewOrderFacts ==
    ASSUME EngineInv, NEW n \in Nat \ {0}, NEW event \in Event, NEW held \in Nat, NEW target \in Nat,
           target # held
    PROVE  OrderFor(NewOrder(n, event, held, target), n, event, held, target)
<1> DEFINE o == NewOrder(n, event, held, target)
           i == event.instrument
           rows == data["execution"][i]
           bars == NextExecutionBar(rows, event.trigger.open, now, Lag[i])
           bar == CHOOSE b \in bars : TRUE
<1>1. i \in Instruments /\ event.trigger \in Bar
  BY DEF Event
<1>2. Component(rows) /\ now \in Nat /\ None \notin Bar
  <2>1. data \in Datasets /\ "execution" \in Role /\ now \in Nat
    BY DEF EngineInv, Role, TypeOK
  <2> QED
    BY <1>1, <2>1, DatasetRows, EngineConstants
<1>3. o = [sequence |-> n, instrument |-> i,
           side |-> IF target > held THEN "BUY" ELSE "SELL",
           quantity |-> IF target > held THEN target - held ELSE held - target,
           submitted_at |-> now, trigger |-> event.trigger,
           bar |-> IF bars = {} THEN None ELSE bar]
  BY DEF NewOrder
<1>4. (IF target > held THEN target - held ELSE held - target) \in Nat \ {0}
  OBVIOUS
<1>5. ASSUME bars # {}
      PROVE  /\ bar \in bars /\ bar \in rows /\ bar.open > event.trigger.open
             /\ bar.available = FirstVisibility(rows, bar.open)
             /\ bar.available >= now + Lag[i]
  <2>1. bar \in bars
    BY <1>5
  <2> HIDE DEF bar, rows, i
  <2> QED
    BY <1>2, <2>1, NextExecutionRow
<1>6. o.bar \in Bar \cup {None} /\ (o.bar = None => bars = {}) /\ (o.bar # None => bars # {} /\ o.bar = bar)
  <2>1. bars # {} => bar \in Bar
    BY <1>5, <1>2 DEF Component
  <2>2. o.bar = IF bars = {} THEN None ELSE bar
    BY <1>3
  <2> HIDE DEF bar, bars, o
  <2> QED
    BY <2>1, <2>2, <1>2
<1>7. o \in Order
  <2> DEFINE side == IF target > held THEN "BUY" ELSE "SELL"
             quantity == IF target > held THEN target - held ELSE held - target
  <2>1. o = [sequence |-> n, instrument |-> i, side |-> side, quantity |-> quantity,
             submitted_at |-> now, trigger |-> event.trigger, bar |-> o.bar]
    BY <1>3
  <2>2. side \in {"BUY", "SELL"} /\ quantity \in Nat \ {0}
    BY <1>4
  <2> HIDE DEF o, side, quantity, i
  <2> QED
    BY <2>1, <2>2, <1>1, <1>2, <1>6 DEF Order
<1>8. /\ o.sequence = n /\ o.instrument = i /\ o.submitted_at = now /\ o.trigger = event.trigger
      /\ o.side = (IF target > held THEN "BUY" ELSE "SELL")
      /\ o.quantity = (IF target > held THEN target - held ELSE held - target)
  BY <1>3
<1> QED
  <2> HIDE DEF o, bars, bar
  <2>1. o.bar # None => /\ o.bar \in bars /\ o.bar \in rows /\ o.bar.open > event.trigger.open
                        /\ o.bar.available = FirstVisibility(rows, o.bar.open)
                        /\ o.bar.available >= now + Lag[i]
    BY <1>5, <1>6
  <2> QED
    BY <1>6, <1>7, <1>8, <2>1 DEF o, bars, OrderFor

\* Taking a decision.
LEMMA DecideSafe ==
    ASSUME EngineInv, Decide
    PROVE  /\ EngineInv' /\ now' = now
           /\ Len(filling') + Len(deciding') < Len(filling) + Len(deciding)
<1> DEFINE event == Head(deciding)
           i == event.instrument
           inputs == LastBars(VisibleBars(data["signal"][i], now), SlowWindow)
           target == Target(inputs)
           held == position[i].quantity
           order == NewOrder(Len(decisions) + 1, event, held, target)
           taken == [instrument |-> i, ts |-> now, trigger |-> event.trigger,
                     inputs |-> inputs, cash |-> cash, state |-> position[i]]
<1>1. filling = <<>> /\ deciding # <<>> /\ deciding' = Tail(deciding)
  BY DEF Decide
<1>2. /\ data' = data /\ now' = now /\ filling' = filling /\ cash' = cash /\ position' = position
      /\ fills' = fills /\ valuations' = valuations /\ outcome' = outcome
  BY DEF Decide
<1>3. /\ event \in Event /\ i \in Instruments /\ event.trigger \in Bar
      /\ inputs \in Seq(Bar)
      /\ target \in Nat
      /\ deciding' \in Seq(Event) /\ Len(deciding') = Len(deciding) - 1
  BY <1>1, DecidingEvent
<1>4. /\ decisions' = Append(decisions, taken)
      /\ \/ orders' = orders /\ pending' = pending /\ upcoming' = upcoming
         \/ /\ target # held /\ orders' = Append(orders, order)
            /\ \/ pending' = pending /\ upcoming' = upcoming
               \/ /\ order.bar # None /\ pending' = pending \cup {order}
                  /\ upcoming' = Schedule(order.bar)
  BY DEF Decide
<1>5. /\ now \in Nat /\ cash \in Cash /\ position[i] \in Position /\ held \in Nat
      /\ decisions \in Seq(Decision) /\ orders \in Seq(Order) /\ pending \subseteq Order
      /\ upcoming \subseteq Nat /\ data \in Datasets
  <2>1. position[i] \in Position
    BY <1>3 DEF EngineInv, TypeOK
  <2>2. held \in Nat
    BY <2>1 DEF Position
  <2> QED
    BY <2>1, <2>2 DEF EngineInv, TypeOK
<1> HIDE DEF event, inputs, target, held, order
<1>6. taken \in Decision
  BY <1>3, <1>5 DEF Decision
<1>7. /\ decisions' \in Seq(Decision) /\ Len(decisions') = Len(decisions) + 1
      /\ \A n \in 1..Len(decisions) : decisions'[n] = decisions[n]
      /\ decisions'[Len(decisions) + 1].ts = now
  <2>1. taken.ts = now
    OBVIOUS
  <2> HIDE DEF taken
  <2> QED
    BY <1>4, <1>5, <1>6, <2>1, AppendProperties
<1>8. Len(decisions) \in Nat
  BY <1>5
<1>9. ASSUME target # held
      PROVE  /\ order \in Order /\ order.sequence = Len(decisions) + 1
             /\ order.bar # None => /\ order.bar \in data["execution"][i]
                                    /\ order.bar.available >= now + Lag[i]
  <2>1. Len(decisions) + 1 \in Nat \ {0}
    BY <1>8
  <2>2. OrderFor(order, Len(decisions) + 1, event, held, target)
    BY <2>1, <1>3, <1>5, <1>9, NewOrderFacts DEF order
  <2> QED
    BY <2>2 DEF OrderFor
<1>10. orders' \in Seq(Order)
  <2>1. CASE orders' = orders
    BY <2>1, <1>5
  <2>2. CASE target # held /\ orders' = Append(orders, order)
    BY <2>2, <1>5, <1>9, AppendProperties
  <2> QED
    BY <1>4, <2>1, <2>2
<1>11. ASSUME target # held, order.bar # None
       PROVE  /\ order.bar.available \in Nat /\ order.bar.available >= now
              /\ order.bar.available \in Instants(data)
  <2>1. order.bar \in data["execution"][i] /\ order.bar.available >= now + Lag[i] /\ "execution" \in Role
    BY <1>9, <1>11 DEF Role
  <2>2. Component(data["execution"][i]) /\ Lag[i] \in Nat
    BY <1>3, <1>5, <2>1, DatasetRows, EngineConstants
  <2>3. order.bar.available \in Nat
    BY <2>1, <2>2 DEF Component, Bar
  <2>4. order.bar.available \in Instants(data)
    BY <1>3, <2>1, <2>3 DEF Instants
  <2> QED
    BY <2>1, <2>2, <2>3, <2>4, <1>5
<1>12. upcoming' \subseteq Nat /\ ScheduleAhead'
  <2>1. upcoming' = upcoming \/ (target # held /\ order.bar # None /\ upcoming' = Schedule(order.bar))
    BY <1>4
  <2>2. CASE upcoming' = upcoming
    BY <1>2, <1>5, <2>2 DEF EngineInv, ScheduleAhead
  <2>3. CASE target # held /\ order.bar # None /\ upcoming' = Schedule(order.bar)
    <3> SUFFICES ASSUME NEW t \in upcoming'
                 PROVE  t \in Nat /\ t > now /\ t \in Instants(data)
      BY <1>2 DEF ScheduleAhead
    <3>1. t \in upcoming \/ (t = order.bar.available /\ t # now)
      BY <2>3 DEF Schedule
    <3>2. CASE t \in upcoming
      BY <3>2, <1>5 DEF EngineInv, ScheduleAhead
    <3>3. CASE t = order.bar.available /\ t # now
      BY <3>3, <2>3, <1>11, <1>5
    <3> QED
      BY <3>1, <3>2, <3>3
  <2> QED
    BY <2>1, <2>2, <2>3
<1>13. pending' \subseteq Order /\ OrdersWait'
  <2>1. pending' = pending \/ (target # held /\ order.bar # None /\ pending' = pending \cup {order})
    BY <1>4
  <2>2. \A o \in pending : o.sequence \in Nat /\ o.sequence <= Len(decisions) /\ o.bar # None
    BY <1>5 DEF EngineInv, OrdersWait, Order
  <2>3. Numbered(pending)
    BY DEF EngineInv, OrdersWait
  <2>4. CASE pending' = pending
    BY <2>2, <2>3, <2>4, <1>5, <1>7, <1>8 DEF OrdersWait
  <2>5. CASE target # held /\ order.bar # None /\ pending' = pending \cup {order}
    <3>1. Numbered(pending \cup {order})
      BY <2>2, <2>3, <2>5, <1>5, <1>8, <1>9, FS_AddElement DEF Numbered
    <3>2. \A o \in pending \cup {order} : o.bar # None /\ o.sequence <= Len(decisions) + 1
      BY <2>2, <2>5, <1>8, <1>9
    <3> QED
      BY <3>1, <3>2, <2>5, <1>7 DEF OrdersWait, Numbered
  <2> QED
    BY <2>1, <2>4, <2>5
<1>14. OrdersDue'
  BY <1>2 DEF EngineInv, OrdersDue
<1>15. JournalPast'
  <2>1. \A n \in 1..Len(decisions') : decisions'[n].ts <= now
    BY <1>5, <1>7, <1>8 DEF EngineInv, JournalPast
  <2> QED
    BY <2>1, <1>1, <1>2 DEF EngineInv, JournalPast
<1>16. TypeOK'
  BY <1>2, <1>3, <1>7, <1>10, <1>12, <1>13 DEF EngineInv, TypeOK
<1>17. Len(filling') + Len(deciding') < Len(filling) + Len(deciding)
  <2>1. Len(filling) \in Nat /\ Len(deciding) \in Nat
    BY DEF EngineInv, TypeOK
  <2> QED
    BY <1>2, <1>3, <2>1
<1> QED
  BY <1>2, <1>5, <1>12, <1>13, <1>14, <1>15, <1>16, <1>17 DEF EngineInv

\* The last of the bars visible at an instant.
LEMMA LastVisible ==
    ASSUME NEW rows, Component(rows), NEW ts, VisibleBars(rows, ts) # <<>>
    PROVE  Last(VisibleBars(rows, ts)) \in rows /\ Last(VisibleBars(rows, ts)).available <= ts
<1> DEFINE q == VisibleBars(rows, ts)
<1>1. q \in Seq(rows) /\ \A k \in 1..Len(q) : q[k] \in AllSelected(rows, ts)
  BY VisibleBarsSequence
<1>2. Len(q) \in 1..Len(q) /\ Last(q) = q[Len(q)]
  <2> HIDE DEF q
  <2>1. q # <<>>
    BY DEF q
  <2> QED
    BY <1>1, <2>1 DEF Last
<1>3. Last(q) \in AllSelected(rows, ts)
  <2> HIDE DEF q
  <2> QED
    BY <1>1, <1>2
<1> QED
  <2> HIDE DEF q
  <2>1. Last(q) \in rows /\ Last(q).available <= ts
    BY <1>3, OpeningsOrder
  <2> QED
    BY <2>1 DEF q

\* Valuing the positions.
LEMMA ValuePositionsSafe ==
    ASSUME EngineInv, ValuePositions
    PROVE  /\ EngineInv' /\ outcome = "running" /\ outcome' # "running"
           /\ outcome' = "completed" =>
                 \A i \in Instruments : valuations'[i] \in Bar /\ valuations'[i].available <= EventTo
<1>1. /\ data' = data /\ upcoming' = upcoming /\ now' = now /\ filling' = filling
      /\ deciding' = deciding /\ pending' = pending /\ cash' = cash /\ position' = position
      /\ decisions' = decisions /\ orders' = orders /\ fills' = fills
  BY DEF ValuePositions
<1>2. outcome = "running" /\ outcome' \in {"completed", "error"}
  BY DEF ValuePositions
<1>3. ScheduleAhead' /\ OrdersWait' /\ OrdersDue' /\ JournalPast'
  BY <1>1 DEF EngineInv, ScheduleAhead, OrdersWait, OrdersDue, JournalPast
<1>4. \/ outcome' = "error" /\ valuations' = valuations
      \/ /\ \A i \in Instruments : VisibleBars(data["valuation"][i], EventTo) # <<>>
         /\ valuations' = [i \in Instruments |-> Last(VisibleBars(data["valuation"][i], EventTo))]
  BY DEF ValuePositions
<1>5. ASSUME NEW i \in Instruments, VisibleBars(data["valuation"][i], EventTo) # <<>>
      PROVE  /\ Last(VisibleBars(data["valuation"][i], EventTo)) \in Bar
             /\ Last(VisibleBars(data["valuation"][i], EventTo)).available <= EventTo
  <2>1. PICK rows : rows = data["valuation"][i]
    OBVIOUS
  <2>2. Component(rows)
    BY <2>1, DatasetRows DEF EngineInv, Role
  <2> QED
    BY <1>5, <2>1, <2>2, LastVisible DEF Component
<1>6. valuations' \in [Instruments -> Bar \cup {None}]
  BY <1>4, <1>5 DEF EngineInv, TypeOK
<1>7. outcome' = "completed" =>
         \A i \in Instruments : valuations'[i] \in Bar /\ valuations'[i].available <= EventTo
  BY <1>4, <1>5
<1>8. TypeOK'
  BY <1>1, <1>2, <1>6 DEF EngineInv, TypeOK
<1> QED
  BY <1>1, <1>2, <1>3, <1>7, <1>8 DEF EngineInv

\* Every step keeps the invariant and makes progress.
LEMMA EngineStep ==
    ASSUME EngineInv, Next
    PROVE  /\ EngineInv'
           /\ \/ now' > now /\ now' \in Instants(data)
              \/ now' = now /\ Len(filling') + Len(deciding') < Len(filling) + Len(deciding)
              \/ outcome = "running" /\ outcome' # "running"
<1>1. CASE NextInstant
  BY <1>1, NextInstantSafe
<1>2. CASE FillOrder
  BY <1>2, FillOrderSafe
<1>3. CASE Decide
  BY <1>3, DecideSafe
<1>4. CASE ValuePositions
  BY <1>4, ValuePositionsSafe
<1> QED
  BY <1>1, <1>2, <1>3, <1>4 DEF Next

\* Stuttering steps keep it too.
LEMMA EngineStutter ==
    ASSUME EngineInv, UNCHANGED vars
    PROVE  EngineInv'
<1>1. /\ data' = data /\ upcoming' = upcoming /\ now' = now /\ filling' = filling
      /\ deciding' = deciding /\ pending' = pending /\ cash' = cash /\ position' = position
      /\ decisions' = decisions /\ orders' = orders /\ fills' = fills
      /\ valuations' = valuations /\ outcome' = outcome
  BY DEF vars
<1> QED
  BY <1>1 DEF EngineInv, TypeOK, ScheduleAhead, OrdersWait, OrdersDue, JournalPast

\* The invariant holds in every run of the engine.
THEOREM EngineInvariant == Spec => []EngineInv
<1>1. Init => EngineInv
  BY EngineInitSafe
<1>2. EngineInv /\ [Next]_vars => EngineInv'
  BY EngineStep, EngineStutter
<1> QED
  BY <1>1, <1>2, PTL DEF Spec

\* Every variable of the simulation keeps its type, whatever the rates: no position is
\* short or has a negative cost and no order is for nothing; cash is never negative if
\* a sale never costs more than it brings, and no fill is charged a negative amount if
\* slippage is at most the price (LongOnlyPortfolio, price_fill, simulate).
THEOREM EngineTypes == Spec => []TypeOK
<1>1. EngineInv => TypeOK
  BY DEF EngineInv
<1> QED
  BY <1>1, EngineInvariant, PTL

\* The loop of simulate moves on with every step, although all_times grows while
\* it runs.
THEOREM EngineProgresses == Spec => LoopProgresses
<1> DEFINE Moves == \/ /\ now' > now
                       /\ \E role \in Role, i \in Instruments : \E row \in data[role][i] : now' = row.available
                    \/ now' = now /\ Len(filling') + Len(deciding') < Len(filling) + Len(deciding)
                    \/ outcome = "running" /\ outcome' # "running"
<1>1. EngineInv /\ [Next]_vars => [Moves]_vars
  <2>1. ASSUME EngineInv, Next
        PROVE  Moves
    BY <2>1, EngineStep DEF Instants
  <2> QED
    BY <2>1
<1> QED
  BY <1>1, EngineInvariant, PTL DEF Spec, LoopProgresses

-----------------------------------------------------------------------------
(* Sums over finite sets: what MapThenSumSet computes *)

\* The element that MapThenSumSet takes first.
Chosen(T) == CHOOSE x \in T : TRUE

\* f[T] is the sum of the numbers g[x], x \in T, taken in the order of MapThenSumSet.
SumsUp(f, g, S) ==
    f = [T \in SUBSET S |-> IF T = {} THEN 0 ELSE g[Chosen(T)] + f[T \ {Chosen(T)}]]

\* Without one of its elements a finite set is smaller.
LEMMA ChosenProperties ==
    ASSUME NEW T, T # {}, IsFiniteSet(T)
    PROVE  /\ Chosen(T) \in T
           /\ IsFiniteSet(T \ {Chosen(T)})
           /\ Cardinality(T) \in Nat
           /\ Cardinality(T \ {Chosen(T)}) = Cardinality(T) - 1
<1>1. Chosen(T) \in T
  BY DEF Chosen
<1> QED
  BY <1>1, FS_RemoveElement, FS_CardinalityType

\* Such a function exists: the recursion of MapThenSumSet is well founded.
LEMMA SumExists ==
    ASSUME NEW S, IsFiniteSet(S), NEW g \in [S -> Int]
    PROVE  \E f \in [SUBSET S -> Int] : SumsUp(f, g, S)
<1> DEFINE Right(f, T) == f[T] = IF T = {} THEN 0 ELSE g[Chosen(T)] + f[T \ {Chosen(T)}]
           UpTo(f, n) == \A T \in SUBSET S : Cardinality(T) <= n => Right(f, T)
           Bad == {n \in Nat : ~ \E f \in [SUBSET S -> Int] : UpTo(f, n)}
<1>1. \A T \in SUBSET S : IsFiniteSet(T) /\ Cardinality(T) \in Nat
  BY FS_Subset, FS_CardinalityType
<1>2. ASSUME Bad # {}
      PROVE  FALSE
  <2>1. PICK d \in Bad : \A other \in Bad : d <= other
    <3>1. Bad \subseteq Nat
      OBVIOUS
    <3> HIDE DEF Bad
    <3> QED
      BY <1>2, <3>1, LeastNatural
  <2>2. d # 0
    <3> DEFINE zero == [T \in SUBSET S |-> 0]
    <3>1. zero \in [SUBSET S -> Int]
      OBVIOUS
    <3>2. \A T \in SUBSET S : Cardinality(T) <= 0 => T = {}
      BY <1>1, FS_EmptySet
    <3>3. UpTo(zero, 0)
      BY <3>2
    <3>4. 0 \notin Bad
      BY <3>1, <3>3
    <3> QED
      BY <3>4, <2>1
  <2>3. d - 1 \in Nat /\ d - 1 \notin Bad
    <3>1. d \in Nat
      BY <2>1
    <3> HIDE DEF Bad
    <3> QED
      BY <2>1, <2>2, <3>1
  <2>4. PICK f \in [SUBSET S -> Int] : UpTo(f, d - 1)
    BY <2>3
  <2> DEFINE h == [T \in SUBSET S |->
                     IF T # {} /\ Cardinality(T) = d THEN g[Chosen(T)] + f[T \ {Chosen(T)}]
                                                     ELSE f[T]]
  <2>5. h \in [SUBSET S -> Int]
    BY <1>1, ChosenProperties
  <2>6. ASSUME NEW T \in SUBSET S, Cardinality(T) <= d
        PROVE  Right(h, T)
    <3>1. CASE T = {}
      BY <3>1, <2>4, <1>1, FS_EmptySet, <2>3
    <3>2. CASE T # {}
      <4> DEFINE U == T \ {Chosen(T)}
      <4>1. U \in SUBSET S /\ Cardinality(U) = Cardinality(T) - 1 /\ Cardinality(T) \in Nat
        BY <3>2, <1>1, ChosenProperties
      <4>2. h[U] = f[U]
        BY <4>1, <2>6
      <4>3. CASE Cardinality(T) = d
        BY <4>2, <4>3, <3>2
      <4>4. CASE Cardinality(T) # d
        <5>1. Cardinality(T) <= d - 1
          BY <4>1, <4>4, <2>6, <2>3
        <5>2. f[T] = g[Chosen(T)] + f[U]
          BY <5>1, <2>4, <3>2
        <5> QED
          BY <5>2, <4>2, <3>2, <4>4
      <4> QED
        BY <4>3, <4>4
    <3> QED
      BY <3>1, <3>2
  <2> QED
    BY <2>5, <2>6, <2>1
<1>3. PICK f \in [SUBSET S -> Int] : UpTo(f, Cardinality(S))
  BY <1>1, <1>2
<1>4. \A T \in SUBSET S : Right(f, T)
  BY <1>3, <1>1, FS_Subset
<1> QED
  BY <1>4 DEF SumsUp 

\* The equation of a sum, one set at a time.
LEMMA SumEquation ==
    ASSUME NEW S, NEW g, NEW f, SumsUp(f, g, S), NEW T \in SUBSET S
    PROVE  f[T] = IF T = {} THEN 0 ELSE g[Chosen(T)] + f[T \ {Chosen(T)}]
<1> DEFINE h == [U \in SUBSET S |-> IF U = {} THEN 0 ELSE g[Chosen(U)] + f[U \ {Chosen(U)}]]
<1>1. f = h
  BY DEF SumsUp
<1>2. h[T] = IF T = {} THEN 0 ELSE g[Chosen(T)] + f[T \ {Chosen(T)}]
  OBVIOUS
<1> QED
  BY <1>1, <1>2

\* Two sums over a set are equal if what is added is.
LEMMA SumUnique ==
    ASSUME NEW S, NEW g, NEW f, SumsUp(f, g, S),
           NEW R, NEW k, NEW h, SumsUp(h, k, R),
           NEW V \in SUBSET S, V \in SUBSET R, IsFiniteSet(V),
           \A x \in V : g[x] = k[x]
    PROVE  f[V] = h[V]
<1> DEFINE Bad == {T \in SUBSET V : f[T] # h[T]}
<1>1. ASSUME Bad # {}
      PROVE  FALSE
  <2>1. PICK T \in Bad : \A U \in Bad : U \subseteq T => U = T
    <3>1. Bad \subseteq SUBSET V
      OBVIOUS
    <3> HIDE DEF Bad
    <3> QED
      BY <1>1, <3>1, SmallestSet
  <2>2. T \in SUBSET S /\ T \in SUBSET R
    OBVIOUS
  <2>3. /\ f[T] = IF T = {} THEN 0 ELSE g[Chosen(T)] + f[T \ {Chosen(T)}]
        /\ h[T] = IF T = {} THEN 0 ELSE k[Chosen(T)] + h[T \ {Chosen(T)}]
    BY <2>2, SumEquation
  <2>4. T # {}
    BY <2>3
  <2>5. Chosen(T) \in T
    BY <2>4 DEF Chosen
  <2>6. T \ {Chosen(T)} \notin Bad
    <3> HIDE DEF Bad
    <3> QED
      BY <2>1, <2>5
  <2>7. f[T \ {Chosen(T)}] = h[T \ {Chosen(T)}]
    BY <2>6
  <2> QED
    BY <2>3, <2>4, <2>5, <2>7
<1> QED
  BY <1>1

\* A sum of integers is an integer.
LEMMA SumInt ==
    ASSUME NEW S, IsFiniteSet(S), NEW g, NEW f, SumsUp(f, g, S), \A x \in S : g[x] \in Int
    PROVE  \A V \in SUBSET S : f[V] \in Int
<1> DEFINE Bad == {T \in SUBSET S : f[T] \notin Int}
<1>1. ASSUME Bad # {}
      PROVE  FALSE
  <2>1. PICK T \in Bad : \A U \in Bad : U \subseteq T => U = T
    <3>1. Bad \subseteq SUBSET S
      OBVIOUS
    <3> HIDE DEF Bad
    <3> QED
      BY <1>1, <3>1, SmallestSet
  <2>2. T \in SUBSET S
    OBVIOUS
  <2>3. f[T] = IF T = {} THEN 0 ELSE g[Chosen(T)] + f[T \ {Chosen(T)}]
    BY <2>2, SumEquation
  <2>4. T # {}
    BY <2>3
  <2>5. Chosen(T) \in T
    BY <2>4 DEF Chosen
  <2>6. T \ {Chosen(T)} \notin Bad
    <3> HIDE DEF Bad
    <3> QED
      BY <2>1, <2>5
  <2>7. f[T \ {Chosen(T)}] \in Int /\ g[Chosen(T)] \in Int
    BY <2>6, <2>5
  <2> QED
    BY <2>3, <2>4, <2>7
<1> QED
  BY <1>1

\* The order does not matter: any element may be taken out first.
LEMMA SumSplit ==
    ASSUME NEW S, IsFiniteSet(S), NEW g, NEW f, SumsUp(f, g, S), \A x \in S : g[x] \in Int,
           NEW V \in SUBSET S, NEW e \in V
    PROVE  f[V] = g[e] + f[V \ {e}]
<1> DEFINE Bad == {T \in SUBSET S : \E x \in T : f[T] # g[x] + f[T \ {x}]}
<1>1. ASSUME Bad # {}
      PROVE  FALSE
  <2>1. PICK T \in Bad : \A U \in Bad : U \subseteq T => U = T
    <3>1. Bad \subseteq SUBSET S
      OBVIOUS
    <3> HIDE DEF Bad
    <3> QED
      BY <1>1, <3>1, SmallestSet
  <2>2. PICK x \in T : f[T] # g[x] + f[T \ {x}]
    OBVIOUS
  <2> DEFINE p == Chosen(T)
  <2>3. p \in T /\ T \in SUBSET S
    BY <2>2 DEF Chosen
  <2>4. f[T] = g[p] + f[T \ {p}]
    BY <2>3, SumEquation
  <2> HIDE DEF p
  <2>5. p # x
    BY <2>2, <2>4
  <2>6. T \ {p} \notin Bad /\ T \ {x} \notin Bad
    <3> HIDE DEF Bad
    <3> QED
      BY <2>1, <2>3, <2>2
  <2>7. x \in T \ {p} /\ p \in T \ {x} /\ T \ {p} \in SUBSET S /\ T \ {x} \in SUBSET S
    BY <2>2, <2>3, <2>5
  <2> DEFINE W == (T \ {p}) \ {x}
  <2>8. f[T \ {p}] = g[x] + f[W]
    BY <2>6, <2>7
  <2>9. f[T \ {x}] = g[p] + f[(T \ {x}) \ {p}]
    BY <2>6, <2>7
  <2>10. (T \ {x}) \ {p} = W
    OBVIOUS
  <2>11. g[x] \in Int /\ g[p] \in Int /\ f[W] \in Int
    BY <2>7, SumInt
  <2>12. f[T] = g[p] + (g[x] + f[W])
    BY <2>4, <2>8
  <2>13. g[x] + f[T \ {x}] = g[x] + (g[p] + f[W])
    BY <2>9, <2>10
  <2>14. g[p] + (g[x] + f[W]) = g[x] + (g[p] + f[W])
    <3> HIDE DEF W
    <3> QED
      BY <2>11
  <2> QED
    BY <2>2, <2>12, <2>13, <2>14
<1> QED
  BY <1>1 

\* The sum of g[x] over the elements of a finite set.
SumOf(g, V) == (CHOOSE f : SumsUp(f, g, V))[V]

\* A number at each element of a finite set.
Summable(g, V) == IsFiniteSet(V) /\ \A x \in V : g[x] \in Int

\* What SumOf denotes, and the function that shows it.
LEMMA SumOfDef ==
    ASSUME NEW g, NEW V, Summable(g, V)
    PROVE  \E f : SumsUp(f, g, V) /\ SumOf(g, V) = f[V]
<1> DEFINE h == [x \in V |-> g[x]]
<1>1. PICK f : SumsUp(f, h, V)
  BY SumExists DEF Summable
<1>2. SumsUp(f, g, V)
  <2>1. \A T \in SUBSET V : T # {} => h[Chosen(T)] = g[Chosen(T)]
    BY DEF Chosen
  <2> HIDE DEF h
  <2> QED
    BY <1>1, <2>1 DEF SumsUp
<1>3. SumsUp(CHOOSE k : SumsUp(k, g, V), g, V)
  BY <1>2
<1> QED
  BY <1>3 DEF SumOf

\* Any function that adds up g gives its sum.
LEMMA SumOfAny ==
    ASSUME NEW g, NEW V, Summable(g, V), NEW S, NEW k, NEW f, SumsUp(f, k, S), V \subseteq S,
           \A x \in V : g[x] = k[x]
    PROVE  f[V] = SumOf(g, V)
<1>1. PICK h : SumsUp(h, g, V) /\ SumOf(g, V) = h[V]
  BY SumOfDef
<1>2. IsFiniteSet(V) /\ V \in SUBSET V /\ V \in SUBSET S
  BY DEF Summable
<1>3. f[V] = h[V]
  BY <1>1, <1>2, SumUnique
<1> QED
  BY <1>1, <1>3

\* Sums of equal numbers are equal.
LEMMA SumOfEqual ==
    ASSUME NEW g, NEW V, Summable(g, V), NEW k, \A x \in V : g[x] = k[x]
    PROVE  SumOf(g, V) = SumOf(k, V)
<1>1. Summable(k, V)
  BY DEF Summable
<1>2. PICK h : SumsUp(h, k, V) /\ SumOf(k, V) = h[V]
  BY <1>1, SumOfDef
<1> QED
  BY <1>2, SumOfAny

\* The sum of integers, and the sum over the empty set.
LEMMA SumOfInt ==
    ASSUME NEW g, NEW V, Summable(g, V)
    PROVE  SumOf(g, V) \in Int /\ (V = {} => SumOf(g, V) = 0)
<1>1. PICK f : SumsUp(f, g, V) /\ SumOf(g, V) = f[V]
  BY SumOfDef
<1>2. V \in SUBSET V
  OBVIOUS
<1>3. SumOf(g, V) \in Int
  BY <1>1, <1>2, SumInt DEF Summable
<1>4. f[V] = IF V = {} THEN 0 ELSE g[Chosen(V)] + f[V \ {Chosen(V)}]
  BY <1>1, <1>2, SumEquation
<1> QED
  BY <1>1, <1>3, <1>4

\* Taking one element out.
LEMMA SumOfSplit ==
    ASSUME NEW g, NEW V, Summable(g, V), NEW e \in V
    PROVE  SumOf(g, V) = g[e] + SumOf(g, V \ {e})
<1>1. PICK f : SumsUp(f, g, V) /\ SumOf(g, V) = f[V]
  BY SumOfDef
<1>2. f[V] = g[e] + f[V \ {e}]
  <2>1. V \in SUBSET V /\ IsFiniteSet(V) /\ \A x \in V : g[x] \in Int
    BY DEF Summable
  <2> QED
    BY <1>1, <2>1, SumSplit
<1>3. Summable(g, V \ {e})
  BY FS_RemoveElement DEF Summable
<1>4. f[V \ {e}] = SumOf(g, V \ {e})
  BY <1>1, <1>3, SumOfAny
<1> QED
  BY <1>1, <1>2, <1>4

\* Putting one element in.
LEMMA SumOfExtend ==
    ASSUME NEW g, NEW V, NEW e, e \notin V, Summable(g, V), g[e] \in Int
    PROVE  SumOf(g, V \cup {e}) = SumOf(g, V) + g[e]
<1> DEFINE U == V \cup {e}
<1>1. Summable(g, U) /\ e \in U /\ U \ {e} = V
  BY FS_AddElement DEF Summable
<1>2. SumOf(g, U) = g[e] + SumOf(g, V)
  <2> HIDE DEF U
  <2> QED
    BY <1>1, SumOfSplit
<1>3. SumOf(g, V) \in Int
  BY SumOfInt
<1> QED
  BY <1>2, <1>3

\* Changing one of the numbers.
LEMMA SumOfUpdate ==
    ASSUME NEW g, NEW k, NEW V, NEW e \in V, Summable(g, V), Summable(k, V),
           \A x \in V \ {e} : g[x] = k[x]
    PROVE  SumOf(k, V) = SumOf(g, V) + k[e] - g[e]
<1>1. SumOf(g, V) = g[e] + SumOf(g, V \ {e}) /\ SumOf(k, V) = k[e] + SumOf(k, V \ {e})
  BY SumOfSplit
<1>2. Summable(g, V \ {e})
  BY FS_RemoveElement DEF Summable
<1>3. SumOf(g, V \ {e}) = SumOf(k, V \ {e}) /\ SumOf(g, V \ {e}) \in Int
  BY <1>2, SumOfEqual, SumOfInt
<1>4. g[e] \in Int /\ k[e] \in Int
  BY DEF Summable
<1> QED
  BY <1>1, <1>3, <1>4

\* h agrees with g on V and has a number for one more element.
OneMore(g, h, V, e) ==
    Summable(g, V) /\ (\A x \in V : g[x] = h[x]) /\ e \notin V /\ h[e] \in Int

\* Adding up what agrees with g on V, and one more.
LEMMA SumAppend ==
    ASSUME NEW g, NEW h, NEW V, NEW e, OneMore(g, h, V, e)
    PROVE  /\ SumOf(h, V) = SumOf(g, V)
           /\ SumOf(h, V \cup {e}) = SumOf(g, V) + h[e]
<1> USE DEF OneMore
<1>1. SumOf(g, V) = SumOf(h, V)
  BY SumOfEqual
<1>2. Summable(h, V)
  BY DEF Summable
<1> QED
  BY <1>1, <1>2, SumOfExtend

-----------------------------------------------------------------------------
(* The books *)

\* The quantity and the cash a fill moves, by its place in the journal.
Deltas(fs) == [k \in 1..Len(fs) |-> SignedQuantity(fs[k].economics)]
Payments(fs) == [k \in 1..Len(fs) |-> CashDelta(fs[k].economics)]

\* The fills of an instrument, and all fills, up to an instant.
FillsIn(fs, i, ts) == {k \in 1..Len(fs) : fs[k].order.instrument = i /\ fs[k].ts <= ts}
FillsBy(fs, ts) == {k \in 1..Len(fs) : fs[k].ts <= ts}

\* What a journal of fills says is held, and in cash.
HeldIn(fs, i, ts) == SumOf(Deltas(fs), FillsIn(fs, i, ts))
CashIn(fs, ts) == InitialCapital + SumOf(Payments(fs), FillsBy(fs, ts))

\* What the positions cost and what they realized, together.
CostHeld(pos) == SumOf([i \in Instruments |-> pos[i].cost], Instruments)
RealizedBy(pos) == SumOf([i \in Instruments |-> pos[i].realized], Instruments)

\* BooksBalance, with sums that can be reasoned about.
Books ==
    /\ \A n \in 1..Len(decisions) :
          /\ decisions[n].state.quantity = HeldIn(fills, decisions[n].instrument, decisions[n].ts)
          /\ decisions[n].cash = CashIn(fills, decisions[n].ts)
    /\ cash = CashIn(fills, now)
    /\ \A i \in Instruments : position[i].quantity = HeldIn(fills, i, now)
    /\ cash + CostHeld(position) = InitialCapital + RealizedBy(position)

\* The amounts of a typed journal can be added.
LEMMA JournalSummable ==
    ASSUME NEW fs \in Seq(Fill), NEW V \in SUBSET (1..Len(fs))
    PROVE  Summable(Deltas(fs), V) /\ Summable(Payments(fs), V)
<1>1. IsFiniteSet(V)
  <2>1. Len(fs) \in Nat /\ IsFiniteSet(1..Len(fs))
    BY FS_Interval
  <2> QED
    BY <2>1, FS_Subset
<1>2. ASSUME NEW k \in V
      PROVE  Deltas(fs)[k] \in Int /\ Payments(fs)[k] \in Int
  <2>1. fs[k] \in Fill
    OBVIOUS
  <2>2. PICK e \in Economics : e = fs[k].economics
    BY <2>1 DEF Fill
  <2>3. SignedQuantity(e) \in Int /\ CashDelta(e) \in Int
    <3>1. /\ e.quantity \in Nat /\ e.notional \in Int /\ e.commission \in Int /\ e.tax \in Int
          /\ e.side \in {"BUY", "SELL"}
      BY <2>2, AmountTypes DEF Economics
    <3>2. SignedQuantity(e) \in Int
      BY <3>1 DEF SignedQuantity
    <3>3. CashDelta(e) \in Int
      BY <3>1 DEF CashDelta
    <3> QED
      BY <3>2, <3>3
  <2>4. Deltas(fs)[k] = SignedQuantity(e) /\ Payments(fs)[k] = CashDelta(e)
    BY <2>2 DEF Deltas, Payments
  <2> QED
    BY <2>3, <2>4
<1> QED
  BY <1>1, <1>2 DEF Summable

\* The amounts of typed positions can be added.
LEMMA PositionsSummable ==
    ASSUME NEW pos \in [Instruments -> Position]
    PROVE  /\ Summable([i \in Instruments |-> pos[i].cost], Instruments)
           /\ Summable([i \in Instruments |-> pos[i].realized], Instruments)
<1>1. IsFiniteSet(Instruments)
  BY EngineConstants
<1>2. \A i \in Instruments : pos[i] \in Position
  OBVIOUS
<1>3. \A i \in Instruments : pos[i].cost \in Int /\ pos[i].realized \in Int
  BY <1>2 DEF Position
<1> QED
  BY <1>1, <1>3 DEF Summable

\* One more fill counts from its instant on, for its instrument.
Grown(gs, fs, f) ==
    /\ \A i, ts : HeldIn(gs, i, ts) =
          IF f.order.instrument = i /\ f.ts <= ts
          THEN HeldIn(fs, i, ts) + SignedQuantity(f.economics) ELSE HeldIn(fs, i, ts)
    /\ \A ts : CashIn(gs, ts) =
          IF f.ts <= ts THEN CashIn(fs, ts) + CashDelta(f.economics) ELSE CashIn(fs, ts)

\* That is what appending it does.
LEMMA JournalGrows ==
    ASSUME NEW fs \in Seq(Fill), NEW f \in Fill
    PROVE  Grown(Append(fs, f), fs, f)
<1> DEFINE n == Len(fs)
<1>0. PICK gs : gs = Append(fs, f)
  OBVIOUS
<1>1. /\ n \in Nat /\ gs \in Seq(Fill) /\ Len(gs) = n + 1 /\ gs[n + 1] = f
      /\ \A k \in 1..n : gs[k] = fs[k]
  BY <1>0, AppendProperties
<1>2. \A k \in 1..n : Deltas(gs)[k] = Deltas(fs)[k] /\ Payments(gs)[k] = Payments(fs)[k]
  BY <1>1 DEF Deltas, Payments
<1>3. Deltas(gs)[n + 1] = SignedQuantity(f.economics) /\ Payments(gs)[n + 1] = CashDelta(f.economics)
  BY <1>1 DEF Deltas, Payments
<1>4. Deltas(gs)[n + 1] \in Int /\ Payments(gs)[n + 1] \in Int
  <2>1. {n + 1} \in SUBSET (1..Len(gs))
    BY <1>1
  <2>2. Summable(Deltas(gs), {n + 1}) /\ Summable(Payments(gs), {n + 1})
    BY <1>1, <2>1, JournalSummable
  <2> QED
    BY <2>2 DEF Summable
<1>5. ASSUME NEW V \in SUBSET (1..n)
      PROVE  /\ SumOf(Deltas(gs), V) = SumOf(Deltas(fs), V)
             /\ SumOf(Deltas(gs), V \cup {n + 1}) = SumOf(Deltas(fs), V) + SignedQuantity(f.economics)
             /\ SumOf(Payments(gs), V) = SumOf(Payments(fs), V)
             /\ SumOf(Payments(gs), V \cup {n + 1}) = SumOf(Payments(fs), V) + CashDelta(f.economics)
             /\ SumOf(Payments(fs), V) \in Int
  <2>1. Summable(Deltas(fs), V) /\ Summable(Payments(fs), V) /\ n + 1 \notin V
    BY <1>1, JournalSummable
  <2>2. (\A x \in V : Deltas(fs)[x] = Deltas(gs)[x]) /\ (\A x \in V : Payments(fs)[x] = Payments(gs)[x])
    BY <1>2
  <2>3. PICK e : e = n + 1 /\ e \notin V /\ Deltas(gs)[e] \in Int /\ Payments(gs)[e] \in Int
    BY <2>1, <1>4
  <2> HIDE DEF n
  <2>4. /\ SumOf(Deltas(gs), V) = SumOf(Deltas(fs), V)
        /\ SumOf(Deltas(gs), V \cup {e}) = SumOf(Deltas(fs), V) + Deltas(gs)[e]
    <3>1. PICK g, h : g = Deltas(fs) /\ h = Deltas(gs)
      OBVIOUS
    <3>2. OneMore(g, h, V, e)
      BY <2>1, <2>2, <2>3, <3>1 DEF OneMore
    <3>3. SumOf(h, V) = SumOf(g, V) /\ SumOf(h, V \cup {e}) = SumOf(g, V) + h[e]
      BY <3>2, SumAppend
    <3> QED
      BY <3>1, <3>3
  <2>5. /\ SumOf(Payments(gs), V) = SumOf(Payments(fs), V)
        /\ SumOf(Payments(gs), V \cup {e}) = SumOf(Payments(fs), V) + Payments(gs)[e]
    <3>1. PICK g, h : g = Payments(fs) /\ h = Payments(gs)
      OBVIOUS
    <3>2. OneMore(g, h, V, e)
      BY <2>1, <2>2, <2>3, <3>1 DEF OneMore
    <3>3. SumOf(h, V) = SumOf(g, V) /\ SumOf(h, V \cup {e}) = SumOf(g, V) + h[e]
      BY <3>2, SumAppend
    <3> QED
      BY <3>1, <3>3
  <2>6. SumOf(Payments(fs), V) \in Int
    BY <2>1, SumOfInt
  <2> QED
    BY <2>3, <2>4, <2>5, <2>6, <1>3
<1>6. ASSUME NEW i, NEW ts
      PROVE  FillsIn(gs, i, ts) = IF f.order.instrument = i /\ f.ts <= ts
                                  THEN FillsIn(fs, i, ts) \cup {n + 1} ELSE FillsIn(fs, i, ts)
  BY <1>1 DEF FillsIn
<1>7. ASSUME NEW ts
      PROVE  FillsBy(gs, ts) = IF f.ts <= ts THEN FillsBy(fs, ts) \cup {n + 1} ELSE FillsBy(fs, ts)
  BY <1>1 DEF FillsBy
<1>8. ASSUME NEW i, NEW ts
      PROVE  HeldIn(gs, i, ts) =
                 IF f.order.instrument = i /\ f.ts <= ts
                 THEN HeldIn(fs, i, ts) + SignedQuantity(f.economics) ELSE HeldIn(fs, i, ts)
  <2>1. FillsIn(fs, i, ts) \in SUBSET (1..n)
    BY DEF FillsIn
  <2> HIDE DEF n
  <2>2. /\ SumOf(Deltas(gs), FillsIn(fs, i, ts)) = SumOf(Deltas(fs), FillsIn(fs, i, ts))
        /\ SumOf(Deltas(gs), FillsIn(fs, i, ts) \cup {n + 1})
             = SumOf(Deltas(fs), FillsIn(fs, i, ts)) + SignedQuantity(f.economics)
    BY <2>1, <1>5
  <2>3. CASE f.order.instrument = i /\ f.ts <= ts
    <3>1. FillsIn(gs, i, ts) = FillsIn(fs, i, ts) \cup {n + 1}
      BY <2>3, <1>6
    <3> QED
      BY <2>2, <2>3, <3>1 DEF HeldIn
  <2>4. CASE ~(f.order.instrument = i /\ f.ts <= ts)
    <3>1. FillsIn(gs, i, ts) = FillsIn(fs, i, ts)
      BY <2>4, <1>6
    <3> QED
      BY <2>2, <2>4, <3>1 DEF HeldIn
  <2> QED
    BY <2>3, <2>4
<1>9. ASSUME NEW ts
      PROVE  CashIn(gs, ts) =
                 IF f.ts <= ts THEN CashIn(fs, ts) + CashDelta(f.economics) ELSE CashIn(fs, ts)
  <2>1. FillsBy(fs, ts) \in SUBSET (1..n)
    BY DEF FillsBy
  <2>2. InitialCapital \in Int /\ CashDelta(f.economics) \in Int
    BY <1>3, <1>4, EngineConstants
  <2> HIDE DEF n
  <2>3. /\ SumOf(Payments(gs), FillsBy(fs, ts)) = SumOf(Payments(fs), FillsBy(fs, ts))
        /\ SumOf(Payments(gs), FillsBy(fs, ts) \cup {n + 1})
             = SumOf(Payments(fs), FillsBy(fs, ts)) + CashDelta(f.economics)
        /\ SumOf(Payments(fs), FillsBy(fs, ts)) \in Int
    BY <2>1, <1>5
  <2>4. CASE f.ts <= ts
    <3>1. FillsBy(gs, ts) = FillsBy(fs, ts) \cup {n + 1}
      BY <2>4, <1>7
    <3> QED
      BY <2>2, <2>3, <2>4, <3>1 DEF CashIn
  <2>5. CASE ~(f.ts <= ts)
    <3>1. FillsBy(gs, ts) = FillsBy(fs, ts)
      BY <2>5, <1>7
    <3> QED
      BY <2>3, <2>5, <3>1 DEF CashIn
  <2> QED
    BY <2>4, <2>5
<1> QED
  BY <1>0, <1>8, <1>9 DEF Grown

\* What a changed position makes of what is held at cost and what is realized.
Moved(new, pos, i, state) ==
    /\ CostHeld(pos) \in Int /\ RealizedBy(pos) \in Int
    /\ CostHeld(new) = CostHeld(pos) + state.cost - pos[i].cost
    /\ RealizedBy(new) = RealizedBy(pos) + state.realized - pos[i].realized

\* A position that changes moves both sums by its own change.
LEMMA PositionChanges ==
    ASSUME NEW pos \in [Instruments -> Position], NEW i \in Instruments, NEW state \in Position
    PROVE  Moved([pos EXCEPT ![i] = state], pos, i, state)
<1> DEFINE c(p) == [j \in Instruments |-> p[j].cost]
           r(p) == [j \in Instruments |-> p[j].realized]
<1>0. PICK new : new = [pos EXCEPT ![i] = state]
  OBVIOUS
<1>1. new \in [Instruments -> Position] /\ new[i] = state
      /\ \A j \in Instruments \ {i} : new[j] = pos[j]
  BY <1>0
<1>2. /\ Summable(c(pos), Instruments) /\ Summable(r(pos), Instruments)
      /\ Summable(c(new), Instruments) /\ Summable(r(new), Instruments)
  BY <1>1, PositionsSummable
<1>3. /\ \A j \in Instruments \ {i} : c(pos)[j] = c(new)[j] /\ r(pos)[j] = r(new)[j]
      /\ c(new)[i] = state.cost /\ c(pos)[i] = pos[i].cost
      /\ r(new)[i] = state.realized /\ r(pos)[i] = pos[i].realized
  BY <1>1
<1>4. /\ CostHeld(pos) = SumOf(c(pos), Instruments) /\ RealizedBy(pos) = SumOf(r(pos), Instruments)
      /\ CostHeld(new) = SumOf(c(new), Instruments) /\ RealizedBy(new) = SumOf(r(new), Instruments)
  BY DEF CostHeld, RealizedBy
<1>5. SumOf(c(new), Instruments) = SumOf(c(pos), Instruments) + c(new)[i] - c(pos)[i]
  <2>1. PICK g, h : g = c(pos) /\ h = c(new)
    OBVIOUS
  <2>2. \A j \in Instruments \ {i} : g[j] = h[j]
    BY <1>3, <2>1
  <2>3. Summable(g, Instruments) /\ Summable(h, Instruments)
    BY <1>2, <2>1
  <2>4. SumOf(h, Instruments) = SumOf(g, Instruments) + h[i] - g[i]
    BY <2>2, <2>3, SumOfUpdate
  <2> QED
    BY <2>1, <2>4
<1>6. SumOf(r(new), Instruments) = SumOf(r(pos), Instruments) + r(new)[i] - r(pos)[i]
  <2>1. PICK g, h : g = r(pos) /\ h = r(new)
    OBVIOUS
  <2>2. \A j \in Instruments \ {i} : g[j] = h[j]
    BY <1>3, <2>1
  <2>3. Summable(g, Instruments) /\ Summable(h, Instruments)
    BY <1>2, <2>1
  <2>4. SumOf(h, Instruments) = SumOf(g, Instruments) + h[i] - g[i]
    BY <2>2, <2>3, SumOfUpdate
  <2> QED
    BY <2>1, <2>4
<1> HIDE DEF c, r
<1>7. SumOf(c(pos), Instruments) \in Int /\ SumOf(r(pos), Instruments) \in Int
  BY <1>2, SumOfInt
<1> QED
  BY <1>0, <1>3, <1>4, <1>5, <1>6, <1>7 DEF Moved

\* The books of a run that has not begun.
LEMMA BooksBegin == Init => Books
<1> SUFFICES ASSUME Init
             PROVE  Books
  OBVIOUS
<1>1. /\ fills = <<>> /\ decisions = <<>> /\ cash = InitialCapital /\ now = 0
      /\ position = [i \in Instruments |-> NoPosition]
  BY DEF Init
<1>2. Len(fills) = 0 /\ Len(decisions) = 0 /\ fills \in Seq(Fill)
  BY <1>1
<1>3. \A i : FillsIn(fills, i, now) = {}
  BY <1>2 DEF FillsIn
<1>4. FillsBy(fills, now) = {}
  BY <1>2 DEF FillsBy
<1>5. SumOf(Deltas(fills), {}) = 0 /\ SumOf(Payments(fills), {}) = 0
  <2>1. {} \in SUBSET (1..Len(fills))
    OBVIOUS
  <2>2. Summable(Deltas(fills), {}) /\ Summable(Payments(fills), {})
    BY <1>2, <2>1, JournalSummable
  <2> QED
    BY <2>2, SumOfInt
<1>6. InitialCapital \in Int /\ InitialCapital + 0 = InitialCapital
  BY EngineConstants
<1>7. cash = CashIn(fills, now)
  BY <1>1, <1>4, <1>5, <1>6 DEF CashIn
<1>8. \A i \in Instruments : position[i].quantity = HeldIn(fills, i, now)
  BY <1>1, <1>3, <1>5 DEF HeldIn, NoPosition
<1>9. CostHeld(position) = RealizedBy(position)
  <2>1. position \in [Instruments -> Position]
    BY EngineInitSafe DEF EngineInv, TypeOK
  <2> DEFINE g == [i \in Instruments |-> position[i].cost]
             h == [i \in Instruments |-> position[i].realized]
  <2>2. Summable(g, Instruments) /\ \A i \in Instruments : g[i] = h[i]
    BY <1>1, <2>1, PositionsSummable DEF NoPosition
  <2>3. SumOf(g, Instruments) = SumOf(h, Instruments)
    <3> HIDE DEF g, h
    <3> QED
      BY <2>2, SumOfEqual
  <2> QED
    BY <2>3 DEF CostHeld, RealizedBy
<1> QED
  BY <1>1, <1>2, <1>7, <1>8, <1>9 DEF Books

\* What the journal says now it says at any later instant, until it grows.
LEMMA JournalNow ==
    ASSUME EngineInv, NEW ts \in Nat, ts >= now
    PROVE  /\ \A i : HeldIn(fills, i, ts) = HeldIn(fills, i, now)
           /\ CashIn(fills, ts) = CashIn(fills, now)
<1>1. \A k \in 1..Len(fills) : fills[k].ts <= now /\ fills[k].ts <= ts
  <2> SUFFICES ASSUME NEW k \in 1..Len(fills)
               PROVE  fills[k].ts <= now /\ fills[k].ts <= ts
    OBVIOUS
  <2>1. fills[k] \in Fill /\ now \in Nat /\ fills[k].ts <= now
    BY DEF EngineInv, TypeOK, JournalPast
  <2>2. fills[k].ts \in Nat
    BY <2>1 DEF Fill
  <2> QED
    BY <2>1, <2>2
<1>2. \A i : FillsIn(fills, i, ts) = FillsIn(fills, i, now)
  BY <1>1 DEF FillsIn
<1>3. FillsBy(fills, ts) = FillsBy(fills, now)
  BY <1>1 DEF FillsBy
<1> QED
  BY <1>2, <1>3 DEF HeldIn, CashIn

\* The books while the loop moves on.
LEMMA BooksNextInstant ==
    ASSUME EngineInv, Books, NextInstant
    PROVE  Books'
<1>1. /\ cash' = cash /\ position' = position /\ decisions' = decisions /\ fills' = fills
  BY DEF NextInstant
<1>2. now' \in Nat /\ now' >= now
  BY NextInstantSafe DEF EngineInv, TypeOK
<1>3. PICK t \in Nat : t = now' /\ t >= now
  BY <1>2
<1>4. /\ \A i : HeldIn(fills, i, t) = HeldIn(fills, i, now)
      /\ CashIn(fills, t) = CashIn(fills, now)
  BY <1>3, JournalNow
<1> QED
  BY <1>1, <1>3, <1>4 DEF Books

\* The books when a decision is written down.
LEMMA BooksDecide ==
    ASSUME EngineInv, Books, Decide
    PROVE  Books'
<1> DEFINE i == Head(deciding).instrument
<1>1. /\ cash' = cash /\ position' = position /\ fills' = fills /\ now' = now
  BY DEF Decide
<1>2. PICK taken : /\ decisions' = Append(decisions, taken)
                   /\ taken.instrument = i /\ taken.ts = now
                   /\ taken.cash = cash /\ taken.state = position[i]
  BY DEF Decide
<1>3. i \in Instruments
  BY DecidingEvent, Zenon DEF Decide
<1>4. decisions \in Seq(Decision) /\ decisions' \in Seq(Decision)
  BY DecideSafe DEF EngineInv, TypeOK
<1>5. /\ Len(decisions') = Len(decisions) + 1 /\ Len(decisions) \in Nat
      /\ \A n \in 1..Len(decisions) : decisions'[n] = decisions[n]
      /\ decisions'[Len(decisions) + 1] = taken
  BY <1>2, <1>4
<1>6. /\ taken.state.quantity = HeldIn(fills, taken.instrument, taken.ts)
      /\ taken.cash = CashIn(fills, taken.ts)
  BY <1>2, <1>3 DEF Books
<1>7. ASSUME NEW n \in 1..Len(decisions')
      PROVE  /\ decisions'[n].state.quantity = HeldIn(fills, decisions'[n].instrument, decisions'[n].ts)
             /\ decisions'[n].cash = CashIn(fills, decisions'[n].ts)
  <2>1. CASE n \in 1..Len(decisions)
    BY <2>1, <1>5 DEF Books
  <2>2. CASE n = Len(decisions) + 1
    BY <2>2, <1>5, <1>6
  <2> QED
    BY <1>5, <2>1, <2>2
<1> QED
  BY <1>1, <1>7 DEF Books

\* The books when an order is filled.
LEMMA BooksFillOrder ==
    ASSUME EngineInv, Books, FillOrder
    PROVE  Books'
<1> DEFINE o == Head(filling)
           e == PriceFill(o.side, o.quantity, o.bar.close)
           f == [order |-> o, ts |-> o.bar.available, economics |-> e]
           i == o.instrument
<1>1. filling # <<>> /\ now' = now /\ decisions' = decisions
  BY DEF FillOrder
<1>2. /\ o \in Order /\ o.bar \in Bar /\ o.bar.available = now
      /\ e \in Economics /\ e.side = o.side /\ e.quantity = o.quantity
      /\ CashDelta(e) \in Int
      /\ o.side = "BUY" => CashDelta(e) <= 0
      /\ o.side = "SELL" /\ SalesPay => CashDelta(e) >= 0
  BY <1>1, DueOrder
<1>3. \/ /\ CanApply(i, e)
         /\ cash' = cash + CashDelta(e)
         /\ position' = [position EXCEPT ![i] = ApplyFill(position[i], e)]
         /\ fills' = Append(fills, f)
      \/ cash' = cash /\ position' = position /\ fills' = fills
  BY DEF FillOrder
<1> HIDE DEF o, e
<1>4. CASE cash' = cash /\ position' = position /\ fills' = fills
  BY <1>1, <1>4 DEF Books
<1>5. CASE /\ CanApply(i, e)
           /\ cash' = cash + CashDelta(e)
           /\ position' = [position EXCEPT ![i] = ApplyFill(position[i], e)]
           /\ fills' = Append(fills, f)
  <2>1. /\ cash \in Int /\ position \in [Instruments -> Position] /\ fills \in Seq(Fill)
        /\ now \in Nat /\ decisions \in Seq(Decision)
    BY AmountTypes DEF EngineInv, TypeOK
  <2>2. i \in Instruments /\ Acceptable(position[i], e)
    BY <1>2, <1>5, TakenFill
  <2> DEFINE state == ApplyFill(position[i], e)
  <2>3. /\ state \in Position
        /\ state.quantity = position[i].quantity + SignedQuantity(e)
        /\ CashDelta(e) + state.cost - state.realized = position[i].cost - position[i].realized
    BY <2>2, AppliedFill
  <2>4. f \in Fill /\ f.ts = now /\ f.order.instrument = i /\ f.economics = e
    BY <1>2, <2>1 DEF Fill
  <2> HIDE DEF f, state
  <2>5. /\ \A j, ts : HeldIn(fills', j, ts) =
                IF i = j /\ now <= ts
                THEN HeldIn(fills, j, ts) + SignedQuantity(e) ELSE HeldIn(fills, j, ts)
        /\ \A ts : CashIn(fills', ts) =
                IF now <= ts THEN CashIn(fills, ts) + CashDelta(e) ELSE CashIn(fills, ts)
    <3>1. Grown(Append(fills, f), fills, f)
      BY <2>1, <2>4, JournalGrows
    <3> QED
      BY <1>5, <2>4, <3>1 DEF Grown
  <2>6. /\ CostHeld(position) \in Int /\ RealizedBy(position) \in Int
        /\ CostHeld(position') = CostHeld(position) + state.cost - position[i].cost
        /\ RealizedBy(position') = RealizedBy(position) + state.realized - position[i].realized
    <3>1. position' = [position EXCEPT ![i] = state]
      BY <1>5 DEF state
    <3>2. Moved([position EXCEPT ![i] = state], position, i, state)
      <4> HIDE DEF i
      <4> QED
        BY <2>1, <2>2, <2>3, PositionChanges
    <3> QED
      BY <3>1, <3>2 DEF Moved
  <2>7. cash' = CashIn(fills', now)
    BY <1>5, <2>1, <2>5 DEF Books
  <2>8. ASSUME NEW j \in Instruments
        PROVE  position'[j].quantity = HeldIn(fills', j, now)
    <3>1. CASE j = i
      <4>1. position'[j] = state
        BY <1>5, <2>1, <2>2, <3>1 DEF state
      <4>2. HeldIn(fills', j, now) = HeldIn(fills, j, now) + SignedQuantity(e)
        BY <2>1, <2>5, <3>1
      <4> QED
        BY <2>3, <3>1, <4>1, <4>2 DEF Books
    <3>2. CASE j # i
      BY <1>5, <2>1, <2>2, <2>5, <3>2 DEF Books
    <3> QED
      BY <3>1, <3>2
  <2>9. ASSUME NEW n \in 1..Len(decisions)
        PROVE  /\ decisions[n].state.quantity = HeldIn(fills', decisions[n].instrument, decisions[n].ts)
               /\ decisions[n].cash = CashIn(fills', decisions[n].ts)
    <3>1. decisions[n] \in Decision /\ decisions[n].ts < now
      BY <1>1, <2>1 DEF EngineInv, JournalPast
    <3>2. decisions[n].ts \in Nat
      BY <3>1 DEF Decision
    <3>3. ~(now <= decisions[n].ts)
      BY <3>1, <3>2, <2>1
    <3> QED
      BY <2>5, <3>3 DEF Books
  <2>10. cash' + CostHeld(position') = InitialCapital + RealizedBy(position')
    <3>1. state.cost \in Int /\ state.realized \in Int
      BY <2>3 DEF Position
    <3>2. position[i].cost \in Int /\ position[i].realized \in Int
      BY <2>1, <2>2 DEF Position
    <3>3. InitialCapital \in Int /\ cash + CostHeld(position) = InitialCapital + RealizedBy(position)
      BY EngineConstants DEF Books
    <3>4. PICK c \in Int, d \in Int, k \in Int : c = cash /\ d = CashDelta(e) /\ k = InitialCapital
      BY <1>2, <2>1, <3>3
    <3>5. PICK h \in Int, r \in Int : h = CostHeld(position) /\ r = RealizedBy(position)
      BY <2>6
    <3>6. PICK sc \in Int, sr \in Int : sc = state.cost /\ sr = state.realized
      BY <3>1
    <3>7. PICK pc \in Int, pr \in Int : pc = position[i].cost /\ pr = position[i].realized
      BY <3>2
    <3>8. d + sc - sr = pc - pr /\ c + h = k + r
      BY <2>3, <3>3, <3>4, <3>5, <3>6, <3>7
    <3>9. (c + d) + (h + sc - pc) = k + (r + sr - pr)
      <4>1. /\ c \in Int /\ d \in Int /\ k \in Int /\ h \in Int /\ r \in Int
            /\ sc \in Int /\ sr \in Int /\ pc \in Int /\ pr \in Int
        BY <3>4, <3>5, <3>6, <3>7
      <4> QED
        BY <4>1, <3>8
    <3> QED
      BY <1>5, <2>6, <3>4, <3>5, <3>6, <3>7, <3>9
  <2> QED
    BY <1>1, <2>7, <2>8, <2>9, <2>10 DEF Books
<1> QED
  BY <1>3, <1>4, <1>5

\* The books in every state.
THEOREM BooksKept == Spec => []Books
<1>1. Init => Books
  BY BooksBegin
<1>2. EngineInv /\ Books /\ [Next]_vars => Books'
  <2> SUFFICES ASSUME EngineInv, Books, [Next]_vars
               PROVE  Books'
    OBVIOUS
  <2>1. CASE NextInstant
    BY <2>1, BooksNextInstant
  <2>2. CASE FillOrder
    BY <2>2, BooksFillOrder
  <2>3. CASE Decide
    BY <2>3, BooksDecide
  <2>4. CASE ValuePositions
    <3>1. /\ cash' = cash /\ position' = position /\ decisions' = decisions /\ fills' = fills
          /\ now' = now
      BY <2>4 DEF ValuePositions
    <3> QED
      BY <3>1 DEF Books
  <2>5. CASE UNCHANGED vars
    <3>1. /\ cash' = cash /\ position' = position /\ decisions' = decisions /\ fills' = fills
          /\ now' = now
      BY <2>5 DEF vars
    <3> QED
      BY <3>1 DEF Books
  <2> QED
    BY <2>1, <2>2, <2>3, <2>4, <2>5 DEF Next
<1> QED
  BY <1>1, <1>2, EngineInvariant, PTL DEF Spec

-----------------------------------------------------------------------------
(* The books as ReferenceEngine states them *)

\* The sums of HeldAt, CashAt and of the positions, as MapThenSumSet forms them.
AddsDeltas(F, fs, V) ==
    F = [T \in SUBSET V |->
           IF T = {} THEN 0
           ELSE (IF fs[Chosen(T)].economics.side = "BUY" THEN fs[Chosen(T)].economics.quantity
                 ELSE -fs[Chosen(T)].economics.quantity) + F[T \ {Chosen(T)}]]
AddsPayments(F, fs, V) ==
    F = [T \in SUBSET V |->
           IF T = {} THEN 0 ELSE CashDelta(fs[Chosen(T)].economics) + F[T \ {Chosen(T)}]]
AddsCosts(F, pos, V) ==
    F = [T \in SUBSET V |-> IF T = {} THEN 0 ELSE pos[Chosen(T)].cost + F[T \ {Chosen(T)}]]
AddsRealized(F, pos, V) ==
    F = [T \in SUBSET V |-> IF T = {} THEN 0 ELSE pos[Chosen(T)].realized + F[T \ {Chosen(T)}]]

\* They are the sums used in Books: those over the journal ...
LEMMA JournalSums ==
    ASSUME NEW fs \in Seq(Fill), NEW V \in SUBSET (1..Len(fs))
    PROVE  /\ (CHOOSE F : AddsDeltas(F, fs, V))[V] = SumOf(Deltas(fs), V)
           /\ (CHOOSE F : AddsPayments(F, fs, V))[V] = SumOf(Payments(fs), V)
<1>1. /\ Summable(Deltas(fs), V) /\ Summable(Payments(fs), V)
      /\ V \subseteq V
      /\ \A x \in V : Deltas(fs)[x] = Deltas(fs)[x] /\ Payments(fs)[x] = Payments(fs)[x]
  BY JournalSummable
<1>2. \A T \in SUBSET V : T # {} => Chosen(T) \in 1..Len(fs)
  BY DEF Chosen
<1>3. \A F : AddsDeltas(F, fs, V) <=> SumsUp(F, Deltas(fs), V)
  <2>1. \A T \in SUBSET V : T # {} =>
           Deltas(fs)[Chosen(T)] = IF fs[Chosen(T)].economics.side = "BUY"
                                   THEN fs[Chosen(T)].economics.quantity
                                   ELSE -fs[Chosen(T)].economics.quantity
    BY <1>2 DEF Deltas, SignedQuantity
  <2> QED
    BY <2>1 DEF AddsDeltas, SumsUp
<1>4. \A F : AddsPayments(F, fs, V) <=> SumsUp(F, Payments(fs), V)
  <2>1. \A T \in SUBSET V : T # {} => Payments(fs)[Chosen(T)] = CashDelta(fs[Chosen(T)].economics)
    BY <1>2 DEF Payments
  <2> QED
    BY <2>1 DEF AddsPayments, SumsUp
<1>5. SumsUp(CHOOSE F : AddsDeltas(F, fs, V), Deltas(fs), V)
  <2>1. \E F : SumsUp(F, Deltas(fs), V)
    BY <1>1, SumOfDef
  <2>2. AddsDeltas(CHOOSE F : AddsDeltas(F, fs, V), fs, V)
    BY <1>3, <2>1
  <2> QED
    BY <1>3, <2>2
<1>6. SumsUp(CHOOSE F : AddsPayments(F, fs, V), Payments(fs), V)
  <2>1. \E F : SumsUp(F, Payments(fs), V)
    BY <1>1, SumOfDef
  <2>2. AddsPayments(CHOOSE F : AddsPayments(F, fs, V), fs, V)
    BY <1>4, <2>1
  <2> QED
    BY <1>4, <2>2
<1> QED
  BY <1>1, <1>5, <1>6, SumOfAny

\* ... and those over the positions.
LEMMA PositionSums ==
    ASSUME NEW pos \in [Instruments -> Position]
    PROVE  /\ (CHOOSE F : AddsCosts(F, pos, Instruments))[Instruments] = CostHeld(pos)
           /\ (CHOOSE F : AddsRealized(F, pos, Instruments))[Instruments] = RealizedBy(pos)
<1> DEFINE g == [i \in Instruments |-> pos[i].cost]
           h == [i \in Instruments |-> pos[i].realized]
           V == Instruments
<1>1. /\ Summable(g, V) /\ Summable(h, V) /\ V \subseteq V
      /\ \A x \in V : g[x] = g[x] /\ h[x] = h[x]
  BY PositionsSummable
<1>2. \A T \in SUBSET V : T # {} => g[Chosen(T)] = pos[Chosen(T)].cost /\ h[Chosen(T)] = pos[Chosen(T)].realized
  BY DEF Chosen
<1>3. CostHeld(pos) = SumOf(g, V) /\ RealizedBy(pos) = SumOf(h, V)
  BY DEF CostHeld, RealizedBy
<1> HIDE DEF g, h, V
<1>4. \A F : AddsCosts(F, pos, V) <=> SumsUp(F, g, V)
  BY <1>2 DEF AddsCosts, SumsUp
<1>5. \A F : AddsRealized(F, pos, V) <=> SumsUp(F, h, V)
  BY <1>2 DEF AddsRealized, SumsUp
<1>6. SumsUp(CHOOSE F : AddsCosts(F, pos, V), g, V)
  <2>1. \E F : SumsUp(F, g, V)
    BY <1>1, SumOfDef
  <2>2. AddsCosts(CHOOSE F : AddsCosts(F, pos, V), pos, V)
    BY <1>4, <2>1
  <2> QED
    BY <1>4, <2>2
<1>7. SumsUp(CHOOSE F : AddsRealized(F, pos, V), h, V)
  <2>1. \E F : SumsUp(F, h, V)
    BY <1>1, SumOfDef
  <2>2. AddsRealized(CHOOSE F : AddsRealized(F, pos, V), pos, V)
    BY <1>5, <2>1
  <2> QED
    BY <1>5, <2>2
<1>8. /\ (CHOOSE F : AddsCosts(F, pos, V))[V] = SumOf(g, V)
      /\ (CHOOSE F : AddsRealized(F, pos, V))[V] = SumOf(h, V)
  BY <1>1, <1>6, <1>7, SumOfAny
<1> QED
  BY <1>3, <1>8 DEF V

\* What ReferenceEngine's operators denote.
LEMMA EngineSums ==
    ASSUME TypeOK
    PROVE  /\ \A i, ts : HeldAt(i, ts) = HeldIn(fills, i, ts)
           /\ \A ts : CashAt(ts) = CashIn(fills, ts)
           /\ MapThenSumSet(LAMBDA i : position[i].cost, Instruments) = CostHeld(position)
           /\ MapThenSumSet(LAMBDA i : position[i].realized, Instruments) = RealizedBy(position)
<1>1. /\ fills \in Seq(Fill) /\ DOMAIN fills = 1..Len(fills)
      /\ position \in [Instruments -> Position]
  BY DEF TypeOK
<1>2. ASSUME NEW i, NEW ts
      PROVE  HeldAt(i, ts) = HeldIn(fills, i, ts)
  <2>1. PICK V : V = FillsUntil(i, ts)
    OBVIOUS
  <2>2. V = FillsIn(fills, i, ts) /\ V \in SUBSET (1..Len(fills))
    BY <1>1, <2>1 DEF FillsUntil, FillsIn
  <2>3. HeldAt(i, ts) = MapThenSumSet(QuantityDelta, V)
    BY <2>1 DEF HeldAt
  <2>4. MapThenSumSet(QuantityDelta, V) = (CHOOSE F : AddsDeltas(F, fills, V))[V]
    BY DEF MapThenSumSet, MapThenFoldSet, QuantityDelta, AddsDeltas, Chosen
  <2>5. (CHOOSE F : AddsDeltas(F, fills, V))[V] = SumOf(Deltas(fills), V)
    BY <1>1, <2>2, JournalSums
  <2> QED
    BY <2>2, <2>3, <2>4, <2>5 DEF HeldIn
<1>3. ASSUME NEW ts
      PROVE  CashAt(ts) = CashIn(fills, ts)
  <2>1. PICK V : V = UNION {FillsUntil(i, ts) : i \in Instruments}
    OBVIOUS
  <2>2. V = FillsBy(fills, ts) /\ V \in SUBSET (1..Len(fills))
    <3>1. \A k \in 1..Len(fills) : fills[k].order.instrument \in Instruments
      <4> SUFFICES ASSUME NEW k \in 1..Len(fills)
                   PROVE  fills[k].order.instrument \in Instruments
        OBVIOUS
      <4>1. fills[k] \in Fill
        BY <1>1
      <4>2. fills[k].order \in Order
        BY <4>1 DEF Fill
      <4> QED
        BY <4>2 DEF Order
    <3> QED
      BY <1>1, <2>1, <3>1 DEF FillsUntil, FillsBy
  <2>3. CashAt(ts) = InitialCapital + MapThenSumSet(LAMBDA k : CashDelta(fills[k].economics), V)
    BY <2>1 DEF CashAt
  <2>4. MapThenSumSet(LAMBDA k : CashDelta(fills[k].economics), V)
          = (CHOOSE F : AddsPayments(F, fills, V))[V]
    BY DEF MapThenSumSet, MapThenFoldSet, AddsPayments, Chosen
  <2>5. (CHOOSE F : AddsPayments(F, fills, V))[V] = SumOf(Payments(fills), V)
    BY <1>1, <2>2, JournalSums
  <2> QED
    BY <2>2, <2>3, <2>4, <2>5 DEF CashIn
<1>4. MapThenSumSet(LAMBDA i : position[i].cost, Instruments)
        = (CHOOSE F : AddsCosts(F, position, Instruments))[Instruments]
  BY DEF MapThenSumSet, MapThenFoldSet, AddsCosts, Chosen
<1>5. MapThenSumSet(LAMBDA i : position[i].realized, Instruments)
        = (CHOOSE F : AddsRealized(F, position, Instruments))[Instruments]
  BY DEF MapThenSumSet, MapThenFoldSet, AddsRealized, Chosen
<1>6. /\ (CHOOSE F : AddsCosts(F, position, Instruments))[Instruments] = CostHeld(position)
      /\ (CHOOSE F : AddsRealized(F, position, Instruments))[Instruments] = RealizedBy(position)
  BY <1>1, PositionSums
<1> QED
  BY <1>2, <1>3, <1>4, <1>5, <1>6

\* The books of a simulation balance in every state, for every dataset, rate and
\* capital: cash and positions are what the fills made them, no money appears or
\* disappears, and every decision was taken after the fills of its instant
\* (simulate, LongOnlyPortfolio.apply_fill).
THEOREM EngineBooksBalance == Spec => []BooksBalance
<1>1. EngineInv /\ Books => BooksBalance
  <2> SUFFICES ASSUME EngineInv, Books
               PROVE  BooksBalance
    OBVIOUS
  <2>1. /\ \A i, ts : HeldAt(i, ts) = HeldIn(fills, i, ts)
        /\ \A ts : CashAt(ts) = CashIn(fills, ts)
        /\ MapThenSumSet(LAMBDA i : position[i].cost, Instruments) = CostHeld(position)
        /\ MapThenSumSet(LAMBDA i : position[i].realized, Instruments) = RealizedBy(position)
    BY EngineSums DEF EngineInv
  <2>2. DOMAIN decisions = 1..Len(decisions)
    BY DEF EngineInv, TypeOK
  <2>3. DecisionsSeeDueFills
    BY <2>1, <2>2 DEF DecisionsSeeDueFills, Books
  <2>4. cash + MapThenSumSet(LAMBDA i : position[i].cost, Instruments)
          = InitialCapital + MapThenSumSet(LAMBDA i : position[i].realized, Instruments)
    BY <2>1 DEF Books
  <2>5. cash = CashAt(now) /\ \A i \in Instruments : position[i].quantity = HeldAt(i, now)
    BY <2>1 DEF Books
  <2> QED
    BY <2>3, <2>4, <2>5 DEF BooksBalance
<1> QED
  BY <1>1, EngineInvariant, BooksKept, PTL

-----------------------------------------------------------------------------
(* The journal of a simulation, whatever its dataset *)

\* The decision an order was made for, and the bar it waits for.
MadeOn(o, d) ==
    LET signal == d["signal"][o.instrument]
        execution == d["execution"][o.instrument]
    IN  /\ o.trigger.open \in Opens(signal)
        /\ o.submitted_at = FirstVisibility(signal, o.trigger.open)
        /\ o.bar # None => o.bar \in NextExecutionBar(execution, o.trigger.open, o.submitted_at,
                                                      Lag[o.instrument])

\* The orders of a sequence of orders, or of fills.
Among(os, o) == \E n \in 1..Len(os) : os[n] = o
FilledIn(fs, o) == \E k \in 1..Len(fs) : fs[k].order = o

\* Every order is in the journal, with its decision.
OrdersPlaced ==
    /\ \A n \in 1..Len(orders) :
          /\ MadeOn(orders[n], data)
          /\ orders[n].submitted_at <= now
          /\ orders[n].sequence <= Len(decisions)
    /\ \A o \in pending : Among(orders, o)
    /\ \A k \in 1..Len(filling) : Among(orders, filling[k])
    /\ \A k \in 1..Len(fills) : Among(orders, fills[k].order)

\* An order waits, is being filled or was filled, and that only once.
OrdersOnce ==
    /\ \A j, k \in 1..Len(filling) : filling[j] = filling[k] => j = k
    /\ \A j, k \in 1..Len(fills) : fills[j].order = fills[k].order => j = k
    /\ \A k \in 1..Len(filling) : filling[k] \notin pending /\ ~FilledIn(fills, filling[k])
    /\ \A k \in 1..Len(fills) : fills[k].order \notin pending

\* What a fill says of its order.
FillOf(f) ==
    /\ f.order.bar # None /\ f.ts = f.order.bar.available
    /\ f.economics = PriceFill(f.order.side, f.order.quantity, f.order.bar.close)

\* Fills follow each other in time.
FillsPriced ==
    /\ \A k \in 1..Len(fills) : FillOf(fills[k])
    /\ \A j, k \in 1..Len(fills) : j < k => fills[j].ts <= fills[k].ts

\* The decisions that are still to be taken at this instant are others than those
\* for which there are orders.
EventsAhead ==
    /\ \A k \in 1..Len(deciding) : deciding[k] \in DecisionEvents(data, now)
    /\ \A j, k \in 1..Len(deciding) : j < k => EventBefore(deciding[j], deciding[k])
    /\ \A n \in 1..Len(orders), k \in 1..Len(deciding) :
          orders[n].instrument = deciding[k].instrument =>
              orders[n].trigger.open # deciding[k].trigger.open

\* What was known when it was decided.
InputsPast ==
    \A n \in 1..Len(decisions) : \A m \in 1..Len(decisions[n].inputs) :
        decisions[n].inputs[m].available <= decisions[n].ts

\* A simulation ends when nothing is left to do.
Ended ==
    /\ outcome # "running" => filling = <<>> /\ deciding = <<>> /\ upcoming = {}
    /\ outcome = "completed" =>
          \A i \in Instruments : valuations[i] \in Bar /\ valuations[i].available <= EventTo

JournalInv ==
    /\ OrdersPlaced
    /\ OrdersOnce
    /\ FillsPriced
    /\ EventsAhead
    /\ InputsPast
    /\ Ended

-----------------------------------------------------------------------------
(* The trades of an instrument *)

\* The fills of an instrument, the last of them, and the entry of a sale.
FilledFor(fs, i) == {k \in 1..Len(fs) : fs[k].order.instrument = i}
LastFor(fs, i, k) == k \in FilledFor(fs, i) /\ \A m \in FilledFor(fs, i) : m <= k
EntryIn(fs, k) ==
    {j \in 1..(k - 1) :
        /\ fs[j].order.instrument = fs[k].order.instrument
        /\ fs[j].economics.side = "BUY"
        /\ \A m \in (j + 1)..(k - 1) : fs[m].order.instrument # fs[k].order.instrument}

\* The sale that closes a buy, the buys that are open and those that are closed.
ExitsIn(fs, k) == {j \in 1..Len(fs) : fs[j].economics.side = "SELL" /\ k \in EntryIn(fs, j)}
OpenTrades(fs, i) ==
    {k \in FilledFor(fs, i) : fs[k].economics.side = "BUY" /\ ExitsIn(fs, k) = {}}
ClosedTrades(fs, i) ==
    {k \in FilledFor(fs, i) : fs[k].economics.side = "BUY" /\ ExitsIn(fs, k) # {}}

\* What a closed trade brought in, both legs together.
Results(fs) ==
    [k \in 1..Len(fs) |-> CashDelta(fs[k].economics)
                          + CashDelta(fs[CHOOSE j \in ExitsIn(fs, k) : TRUE].economics)]

\* Every sale closes a trade, what was realized is what the closed trades brought,
\* and what is held is the one trade that is open, if one is.
TradesAre(fs, i, state) ==
    /\ \A k \in FilledFor(fs, i) : fs[k].economics.side = "SELL" => EntryIn(fs, k) # {}
    /\ state.realized = SumOf(Results(fs), ClosedTrades(fs, i))
    /\ \/ state.quantity = 0 /\ state.cost = 0 /\ OpenTrades(fs, i) = {}
       \/ /\ state.quantity = TargetQuantity
          /\ \E k \in 1..Len(fs) : /\ OpenTrades(fs, i) = {k} /\ LastFor(fs, i, k)
                                   /\ state.cost = -CashDelta(fs[k].economics)

-----------------------------------------------------------------------------
(* Where bars become visible one by one *)

IsOpen(o) == o \in pending \/ Among(filling, o)

\* One order at a time, which is taken at the instant of its bar, and not lost if
\* it is a sale.
TimelyOrders(i) ==
    /\ \A o \in pending : o.instrument = i => o.bar.available \in upcoming
    /\ \A o, p \in Order : IsOpen(o) /\ IsOpen(p) /\ o.instrument = i /\ p.instrument = i => o = p
    /\ \A n \in 1..Len(orders) :
          orders[n].instrument = i /\ orders[n].side = "SELL" /\ orders[n].bar # None =>
              IsOpen(orders[n]) \/ FilledIn(fills, orders[n])

\* Orders are for the target, to or from nothing.
TimelyTargets(i) ==
    /\ \A n \in 1..Len(orders) : orders[n].instrument = i =>
          /\ orders[n].quantity = TargetQuantity
          /\ orders[n].side = "SELL" =>
                decisions[orders[n].sequence].state.quantity = TargetQuantity
    /\ \A o \in Order : IsOpen(o) /\ o.instrument = i =>
          (o.side = "BUY" <=> position[i].quantity = 0)

TimelyInv ==
    \A i \in Instruments : OneByOne(i) =>
        /\ TimelyOrders(i)
        /\ TimelyTargets(i)
        /\ TradesAre(fills, i, position[i])

-----------------------------------------------------------------------------
(* The cash entries of a journal *)

EntriesIn(fs, k) ==
    LET e == fs[k].economics
    IN  {[key |-> <<k, "notional">>, ts |-> fs[k].ts,
          amount |-> (IF e.side = "BUY" THEN -1 ELSE 1) * e.notional],
         [key |-> <<k, "commission">>, ts |-> fs[k].ts, amount |-> -e.commission]}
        \cup {[key |-> <<k, "tax">>, ts |-> fs[k].ts, amount |-> -e.tax] :
                 x \in IF e.tax # 0 THEN {1} ELSE {}}
Entries(fs) == UNION {EntriesIn(fs, k) : k \in 1..Len(fs)}
Amounts(V) == [e \in V |-> e.amount]

\* They add up to what the fills did to the cash.
CashBooked ==
    /\ Summable(Amounts(Entries(fills)), Entries(fills))
    /\ cash = InitialCapital + SumOf(Amounts(Entries(fills)), Entries(fills))

-----------------------------------------------------------------------------
(* The steps of the loop, with names for what they handle *)

\* The loop moves on to ts, where the orders of due are taken.
InstantStep(ts, due) ==
    /\ outcome = "running" /\ filling = <<>> /\ deciding = <<>>
    /\ ts \in upcoming /\ ts \in Nat /\ ts > now /\ now' = ts /\ upcoming' = upcoming \ {ts}
    /\ due \subseteq pending /\ pending' = pending \ due
    /\ \A o \in pending : o \in due <=> o.bar.available = ts
    /\ \A k \in 1..Len(filling') : filling'[k] \in due
    /\ \A o \in due : Among(filling', o)
    /\ \A j, k \in 1..Len(filling') : filling'[j] = filling'[k] => j = k
    /\ \A k \in 1..Len(deciding') : deciding'[k] \in DecisionEvents(data, ts)
    /\ \A j, k \in 1..Len(deciding') : j < k => EventBefore(deciding'[j], deciding'[k])
    /\ data' = data /\ cash' = cash /\ position' = position /\ decisions' = decisions
    /\ orders' = orders /\ fills' = fills /\ valuations' = valuations /\ outcome' = outcome

\* What NextInstant does.
LEMMA NextInstantStep ==
    ASSUME EngineInv, NextInstant
    PROVE  \E ts, due : InstantStep(ts, due)
<1>1. PICK ts : ts = Min(upcoming)
  OBVIOUS
<1>2. PICK due : due = Due(ts)
  OBVIOUS
<1>3. /\ upcoming # {} /\ upcoming \subseteq Nat /\ now \in Nat /\ data \in Datasets
      /\ pending \subseteq Order
  BY DEF NextInstant, EngineInv, TypeOK
<1>4. ts \in upcoming /\ ts \in Nat /\ ts > now
  BY <1>1, <1>3, MinLeast DEF EngineInv, ScheduleAhead
<1>5. /\ outcome = "running" /\ filling = <<>> /\ deciding = <<>>
      /\ now' = ts /\ upcoming' = upcoming \ {ts} /\ pending' = pending \ due
      /\ filling' = Sorted(due, LAMBDA a, b : KeyRank(a.sequence) < KeyRank(b.sequence))
      /\ deciding' = Sorted(DecisionEvents(data, ts), EventBefore)
  BY <1>1, <1>2 DEF NextInstant
<1>6. /\ data' = data /\ cash' = cash /\ position' = position /\ decisions' = decisions
      /\ orders' = orders /\ fills' = fills /\ valuations' = valuations /\ outcome' = outcome
  BY DEF NextInstant
<1>7. due \in SUBSET pending /\ \A o \in pending : o \in due <=> o.bar.available = ts
  BY <1>2 DEF Due
<1>8. Numbered(due)
  BY <1>7, FS_Subset DEF EngineInv, OrdersWait, Numbered
<1>9. /\ filling' \in Seq(due)
      /\ \A o \in due : \E k \in 1..Len(filling') : filling'[k] = o
      /\ \A j, k \in 1..Len(filling') :
            j < k => KeyRank(filling'[j].sequence) < KeyRank(filling'[k].sequence)
  BY <1>5, <1>8, OrdersSequence
<1>10. \A k \in 1..Len(filling') : filling'[k] \in due
  BY <1>9
<1>11. ASSUME NEW j \in 1..Len(filling'), NEW k \in 1..Len(filling'), filling'[j] = filling'[k]
       PROVE  j = k
  <2>1. KeyRank(filling'[j].sequence) \in Int
    <3>1. filling'[j] \in Order
      BY <1>3, <1>7, <1>10
    <3>2. PICK n \in Nat : n = filling'[j].sequence
      BY <3>1 DEF Order
    <3>3. KeyRank(n) \in Int
      BY DEF KeyRank
    <3> QED
      BY <3>2, <3>3
  <2>2. j \in Int /\ k \in Int
    OBVIOUS
  <2>3. PICK n \in Int : n = KeyRank(filling'[j].sequence) /\ n = KeyRank(filling'[k].sequence)
    BY <2>1, <1>11
  <2>4. ~(j < k)
    <3>1. j < k => n < n
      BY <1>9, <2>3
    <3> QED
      BY <3>1
  <2>5. ~(k < j)
    <3>1. k < j => n < n
      BY <1>9, <2>3
    <3> QED
      BY <3>1
  <2> QED
    BY <2>2, <2>4, <2>5
<1>12. /\ \A k \in 1..Len(deciding') : deciding'[k] \in DecisionEvents(data, ts)
       /\ \A j, k \in 1..Len(deciding') : j < k => EventBefore(deciding'[j], deciding'[k])
  <2>1. /\ deciding' \in Seq(DecisionEvents(data, ts))
        /\ \A j, k \in 1..Len(deciding') : j < k => EventBefore(deciding'[j], deciding'[k])
    BY <1>3, <1>5, EventsSequence
  <2> QED
    BY <2>1
<1>13. InstantStep(ts, due)
  BY <1>4, <1>5, <1>6, <1>7, <1>9, <1>10, <1>11, <1>12 DEF InstantStep, Among
<1> QED
  BY <1>13

\* Order o is tried: f is its fill, which the portfolio takes or refuses.
FillStep(o, f) ==
    /\ filling # <<>> /\ o = filling[1] /\ o \in Order /\ o.instrument \in Instruments
    /\ o.bar \in Bar /\ o.bar # None /\ o.bar.available = now
    /\ f \in Fill /\ f.order = o /\ f.ts = now /\ FillOf(f)
    /\ f.economics.side = o.side /\ f.economics.quantity = o.quantity
    /\ CashDelta(f.economics) \in Int
    /\ Len(filling) \in Nat \ {0} /\ Len(filling') = Len(filling) - 1
    /\ \A k \in 1..Len(filling') : k + 1 \in 1..Len(filling) /\ filling'[k] = filling[k + 1]
    /\ data' = data /\ upcoming' = upcoming /\ now' = now /\ deciding' = deciding
    /\ pending' = pending /\ decisions' = decisions /\ orders' = orders
    /\ valuations' = valuations /\ outcome' = outcome
    /\ \/ /\ CanApply(o.instrument, f.economics)
          /\ cash' = cash + CashDelta(f.economics)
          /\ position' = [position EXCEPT ![o.instrument] =
                                ApplyFill(position[o.instrument], f.economics)]
          /\ fills' = Append(fills, f)
       \/ /\ ~CanApply(o.instrument, f.economics)
          /\ cash' = cash /\ position' = position /\ fills' = fills

\* What FillOrder does.
LEMMA FillOrderStep ==
    ASSUME EngineInv, FillOrder
    PROVE  \E o, f : FillStep(o, f)
<1>1. PICK o : o = Head(filling)
  OBVIOUS
<1>2. PICK e : e = PriceFill(o.side, o.quantity, o.bar.close)
  OBVIOUS
<1>3. PICK f : f = [order |-> o, ts |-> o.bar.available, economics |-> e]
  OBVIOUS
<1>4. filling # <<>> /\ filling' = Tail(filling)
  BY DEF FillOrder
<1>5. /\ o \in Order /\ o.bar \in Bar /\ o.bar.available = now
      /\ e \in Economics /\ e.side = o.side /\ e.quantity = o.quantity
      /\ CashDelta(e) \in Int
      /\ Len(filling') = Len(filling) - 1
      /\ \A k \in 1..Len(filling') : k + 1 \in 1..Len(filling) /\ filling'[k] = filling[k + 1]
  BY <1>1, <1>2, <1>4, DueOrder
<1>6. filling \in Seq(Order) /\ now \in Nat
  BY DEF EngineInv, TypeOK
<1>7. o = filling[1] /\ Len(filling) \in Nat \ {0}
  BY <1>1, <1>4, <1>6
<1>8. o.instrument \in Instruments /\ o.bar # None
  BY <1>5, EngineConstants DEF Order
<1>9. f \in Fill /\ f.order = o /\ f.ts = now /\ f.economics = e
  BY <1>3, <1>5, <1>6 DEF Fill
<1>10. FillOf(f)
  BY <1>2, <1>5, <1>8, <1>9 DEF FillOf
<1>11. /\ data' = data /\ upcoming' = upcoming /\ now' = now /\ deciding' = deciding
       /\ pending' = pending /\ decisions' = decisions /\ orders' = orders
       /\ valuations' = valuations /\ outcome' = outcome
  BY DEF FillOrder
<1>12. \/ /\ CanApply(o.instrument, e)
          /\ cash' = cash + CashDelta(e)
          /\ position' = [position EXCEPT ![o.instrument] = ApplyFill(position[o.instrument], e)]
          /\ fills' = Append(fills, f)
       \/ /\ ~CanApply(o.instrument, e)
          /\ cash' = cash /\ position' = position /\ fills' = fills
  BY <1>1, <1>2, <1>3 DEF FillOrder
<1>13. FillStep(o, f)
  BY <1>4, <1>5, <1>7, <1>8, <1>9, <1>10, <1>11, <1>12 DEF FillStep
<1> QED
  BY <1>13

\* The decision taken on an event, and order o if the target is not what is held.
DecideStep(event, taken, o, target) ==
    /\ filling = <<>> /\ deciding # <<>> /\ event = deciding[1]
    /\ event \in Event /\ event.instrument \in Instruments
    /\ Len(deciding) \in Nat \ {0} /\ Len(deciding') = Len(deciding) - 1
    /\ \A k \in 1..Len(deciding') : k + 1 \in 1..Len(deciding) /\ deciding'[k] = deciding[k + 1]
    /\ data' = data /\ now' = now /\ filling' = filling /\ cash' = cash /\ position' = position
    /\ fills' = fills /\ valuations' = valuations /\ outcome' = outcome
    /\ taken \in Decision /\ taken.ts = now /\ taken.state = position[event.instrument]
    /\ \A k \in 1..Len(taken.inputs) : taken.inputs[k].available <= now
    /\ decisions' = Append(decisions, taken)
    /\ target \in {0, TargetQuantity}
    /\ \/ /\ target = position[event.instrument].quantity
          /\ orders' = orders /\ pending' = pending /\ upcoming' = upcoming
       \/ /\ target # position[event.instrument].quantity
          /\ OrderFor(o, Len(decisions) + 1, event, position[event.instrument].quantity, target)
          /\ orders' = Append(orders, o)
          /\ \/ o.bar = None /\ pending' = pending /\ upcoming' = upcoming
             \/ o.bar # None /\ pending' = pending \cup {o} /\ upcoming' = Schedule(o.bar)

\* What Decide does.
LEMMA DecideStepTaken ==
    ASSUME EngineInv, Decide
    PROVE  \E event, taken, o, target : DecideStep(event, taken, o, target)
<1>1. PICK event : event = Head(deciding)
  OBVIOUS
<1>2. PICK i : i = event.instrument
  OBVIOUS
<1>3. PICK inputs : inputs = LastBars(VisibleBars(data["signal"][i], now), SlowWindow)
  OBVIOUS
<1>4. PICK target : target = Target(inputs)
  OBVIOUS
<1>5. PICK held : held = position[i].quantity
  OBVIOUS
<1>6. PICK o : o = NewOrder(Len(decisions) + 1, event, held, target)
  OBVIOUS
<1>7. PICK taken : taken = [instrument |-> i, ts |-> now, trigger |-> event.trigger,
                            inputs |-> inputs, cash |-> cash, state |-> position[i]]
  OBVIOUS
<1>8. filling = <<>> /\ deciding # <<>> /\ deciding' = Tail(deciding)
  BY DEF Decide
<1>9. /\ data' = data /\ now' = now /\ filling' = filling /\ cash' = cash /\ position' = position
      /\ fills' = fills /\ valuations' = valuations /\ outcome' = outcome
  BY DEF Decide
<1>10. /\ event \in Event /\ i \in Instruments /\ event.trigger \in Bar
       /\ inputs \in Seq(Bar)
       /\ \A k \in 1..Len(inputs) : inputs[k].available <= now
       /\ target \in Nat
       /\ Len(deciding') = Len(deciding) - 1
  BY <1>1, <1>2, <1>3, <1>4, <1>8, DecidingEvent
<1>11. deciding \in Seq(Event) /\ now \in Nat /\ cash \in Cash /\ position \in [Instruments -> Position]
       /\ decisions \in Seq(Decision)
  BY DEF EngineInv, TypeOK
<1>12. /\ event = deciding[1] /\ Len(deciding) \in Nat \ {0}
       /\ \A k \in 1..Len(deciding') : k + 1 \in 1..Len(deciding) /\ deciding'[k] = deciding[k + 1]
  BY <1>1, <1>8, <1>11
<1>13. position[i] \in Position /\ held \in Nat
  BY <1>5, <1>10, <1>11 DEF Position
<1>14. /\ taken \in Decision /\ taken.ts = now /\ taken.state = position[i]
       /\ taken.inputs = inputs
  BY <1>7, <1>10, <1>11, <1>13 DEF Decision
<1>15. target \in {0, TargetQuantity}
  BY <1>4 DEF Target
<1>16. /\ decisions' = Append(decisions, taken)
       /\ \/ target = held /\ orders' = orders /\ pending' = pending /\ upcoming' = upcoming
          \/ /\ target # held /\ orders' = Append(orders, o)
             /\ \/ o.bar = None /\ pending' = pending /\ upcoming' = upcoming
                \/ o.bar # None /\ pending' = pending \cup {o} /\ upcoming' = Schedule(o.bar)
  BY <1>1, <1>2, <1>3, <1>4, <1>5, <1>6, <1>7, Zenon DEF Decide
<1>17. target # held => OrderFor(o, Len(decisions) + 1, event, held, target)
  <2>1. Len(decisions) + 1 \in Nat \ {0}
    BY <1>11
  <2> QED
    BY <2>1, <1>6, <1>10, <1>13, NewOrderFacts
<1>18. DecideStep(event, taken, o, target)
  BY <1>2, <1>5, <1>8, <1>9, <1>10, <1>12, <1>14, <1>15, <1>16, <1>17 DEF DecideStep
<1> QED
  BY <1>18

-----------------------------------------------------------------------------
(* The journal invariant is inductive *)

\* The journal of a run that has not begun.
LEMMA JournalBegin == Init => JournalInv
<1> SUFFICES ASSUME Init
             PROVE  JournalInv
  OBVIOUS
<1>1. /\ filling = <<>> /\ deciding = <<>> /\ pending = {} /\ outcome = "running"
      /\ decisions = <<>> /\ orders = <<>> /\ fills = <<>>
  BY DEF Init
<1>2. Len(filling) = 0 /\ Len(deciding) = 0 /\ Len(decisions) = 0 /\ Len(orders) = 0 /\ Len(fills) = 0
  BY <1>1
<1> QED
  BY <1>1, <1>2 DEF JournalInv, OrdersPlaced, OrdersOnce, FillsPriced, EventsAhead, InputsPast, Ended

\* Taking up an instant.
LEMMA JournalNextInstant ==
    ASSUME EngineInv, JournalInv, NextInstant
    PROVE  JournalInv'
<1>1. PICK ts, due : InstantStep(ts, due)
  BY NextInstantStep
<1>2. /\ ts \in Nat /\ ts > now /\ now' = ts /\ now \in Nat /\ data' = data /\ data \in Datasets
      /\ orders' = orders /\ decisions' = decisions /\ fills' = fills
      /\ due \subseteq pending /\ pending' = pending \ due /\ outcome = "running" /\ outcome' = outcome
      /\ orders \in Seq(Order)
  BY <1>1 DEF InstantStep, EngineInv, TypeOK
<1>3. \A k \in 1..Len(filling') : filling'[k] \in due
  BY <1>1 DEF InstantStep
<1>4. OrdersPlaced'
  <2>1. ASSUME NEW n \in 1..Len(orders)
        PROVE  orders[n].submitted_at <= ts
    <3>1. orders[n].submitted_at \in Nat
      <4>1. orders[n] \in Order
        BY <1>2
      <4> QED
        BY <4>1 DEF Order
    <3>2. orders[n].submitted_at <= now
      BY DEF JournalInv, OrdersPlaced
    <3> QED
      BY <3>1, <3>2, <1>2
  <2> QED
    BY <2>1, <1>2, <1>3 DEF JournalInv, OrdersPlaced, MadeOn, Among
<1>5. OrdersOnce'
  <2>1. \A k \in 1..Len(fills) : fills[k].order \notin pending
    BY DEF JournalInv, OrdersOnce
  <2>2. \A o \in due : o \notin pending' /\ ~FilledIn(fills, o)
    BY <1>2, <2>1 DEF FilledIn
  <2>3. \A j, k \in 1..Len(filling') : filling'[j] = filling'[k] => j = k
    BY <1>1 DEF InstantStep
  <2>4. \A j, k \in 1..Len(fills) : fills[j].order = fills[k].order => j = k
    BY DEF JournalInv, OrdersOnce
  <2>5. \A k \in 1..Len(fills) : fills[k].order \notin pending'
    BY <1>2, <2>1
  <2> QED
    BY <1>2, <1>3, <2>2, <2>3, <2>4, <2>5 DEF OrdersOnce, FilledIn
<1>6. FillsPriced' /\ InputsPast'
  BY <1>2 DEF JournalInv, FillsPriced, InputsPast, FillOf
<1>7. EventsAhead'
  <2>1. /\ \A k \in 1..Len(deciding') : deciding'[k] \in DecisionEvents(data, ts)
        /\ \A j, k \in 1..Len(deciding') : j < k => EventBefore(deciding'[j], deciding'[k])
    BY <1>1 DEF InstantStep
  <2>2. ASSUME NEW n \in 1..Len(orders), NEW k \in 1..Len(deciding'),
               orders[n].instrument = deciding'[k].instrument,
               orders[n].trigger.open = deciding'[k].trigger.open
        PROVE  FALSE
    <3>1. PICK e : e = deciding'[k] /\ e \in DecisionEvents(data, ts)
      BY <2>1
    <3>2. ts = FirstVisibility(data["signal"][e.instrument], e.trigger.open)
      BY <1>2, <3>1, EventFacts
    <3>3. orders[n].submitted_at = FirstVisibility(data["signal"][orders[n].instrument],
                                                   orders[n].trigger.open)
      BY DEF JournalInv, OrdersPlaced, MadeOn
    <3>4. orders[n].submitted_at <= now
      BY DEF JournalInv, OrdersPlaced
    <3> QED
      BY <1>2, <2>2, <3>1, <3>2, <3>3, <3>4
  <2> QED
    BY <1>2, <2>1, <2>2 DEF EventsAhead
<1>8. Ended'
  BY <1>2 DEF Ended
<1> QED
  BY <1>4, <1>5, <1>6, <1>7, <1>8 DEF JournalInv

\* Trying an order.
LEMMA JournalFillOrder ==
    ASSUME EngineInv, JournalInv, FillOrder
    PROVE  JournalInv'
<1>1. PICK o, f : FillStep(o, f)
  BY FillOrderStep
<1>2. /\ data' = data /\ now' = now /\ deciding' = deciding /\ upcoming' = upcoming
      /\ pending' = pending /\ decisions' = decisions /\ orders' = orders
      /\ valuations' = valuations /\ outcome' = outcome
      /\ filling # <<>> /\ o = filling[1] /\ 1 \in 1..Len(filling)
      /\ f \in Fill /\ f.order = o /\ f.ts = now /\ FillOf(f)
  BY <1>1 DEF FillStep
<1>3. \A k \in 1..Len(filling') : k + 1 \in 1..Len(filling) /\ filling'[k] = filling[k + 1]
  BY <1>1 DEF FillStep
<1>4. /\ fills \in Seq(Fill) /\ now \in Nat /\ Len(fills) \in Nat
      /\ \A k \in 1..Len(fills) : fills[k].ts <= now
  BY DEF EngineInv, TypeOK, JournalPast
<1>5. \/ fills' = fills
      \/ /\ Len(fills') = Len(fills) + 1 /\ fills'[Len(fills) + 1] = f
         /\ \A k \in 1..Len(fills) : fills'[k] = fills[k]
  <2>1. fills' = fills \/ fills' = Append(fills, f)
    BY <1>1 DEF FillStep
  <2> QED
    BY <2>1, <1>2, <1>4, AppendProperties
<1>6. \A k \in 1..Len(fills') : \/ k \in 1..Len(fills) /\ fills'[k] = fills[k]
                                \/ k = Len(fills) + 1 /\ fills'[k] = f
  BY <1>4, <1>5
<1>7. OrdersPlaced'
  <2>1. Among(orders, o)
    BY <1>2 DEF JournalInv, OrdersPlaced
  <2>2. \A k \in 1..Len(fills') : Among(orders, fills'[k].order)
    BY <1>2, <1>6, <2>1 DEF JournalInv, OrdersPlaced
  <2>3. \A k \in 1..Len(filling') : Among(orders, filling'[k])
    BY <1>3 DEF JournalInv, OrdersPlaced
  <2> QED
    BY <1>2, <2>2, <2>3 DEF JournalInv, OrdersPlaced, Among, MadeOn
<1>8. OrdersOnce'
  <2>1. /\ \A j, k \in 1..Len(filling) : filling[j] = filling[k] => j = k
        /\ \A j, k \in 1..Len(fills) : fills[j].order = fills[k].order => j = k
        /\ \A k \in 1..Len(filling) : filling[k] \notin pending /\ ~FilledIn(fills, filling[k])
        /\ \A k \in 1..Len(fills) : fills[k].order \notin pending
    BY DEF JournalInv, OrdersOnce
  <2>2. ASSUME NEW j \in 1..Len(filling'), NEW k \in 1..Len(filling'), filling'[j] = filling'[k]
        PROVE  j = k
    <3>1. j + 1 = k + 1
      BY <1>3, <2>1, <2>2
    <3> QED
      BY <3>1
  <2>3. ASSUME NEW j \in 1..Len(fills'), NEW k \in 1..Len(fills'), fills'[j].order = fills'[k].order
        PROVE  j = k
    <3>1. \A m \in 1..Len(fills) : fills[m].order # o
      BY <1>2, <2>1 DEF FilledIn
    <3> QED
      BY <1>2, <1>6, <2>1, <2>3, <3>1
  <2>4. ASSUME NEW k \in 1..Len(filling')
        PROVE  filling'[k] \notin pending /\ ~FilledIn(fills', filling'[k])
    <3>1. /\ k + 1 \in 1..Len(filling) /\ filling'[k] = filling[k + 1] /\ k + 1 # 1
          /\ filling[k + 1] # o
      BY <1>2, <1>3, <2>1
    <3>2. filling'[k] \notin pending /\ ~FilledIn(fills, filling'[k]) /\ filling'[k] # o
      BY <2>1, <3>1
    <3> QED
      BY <1>2, <1>6, <3>2 DEF FilledIn
  <2>5. \A k \in 1..Len(fills') : fills'[k].order \notin pending
    BY <1>2, <1>6, <2>1
  <2> QED
    BY <1>2, <2>2, <2>3, <2>4, <2>5 DEF OrdersOnce, FilledIn
<1>9. FillsPriced'
  <2>1. /\ \A k \in 1..Len(fills) : FillOf(fills[k])
        /\ \A j, k \in 1..Len(fills) : j < k => fills[j].ts <= fills[k].ts
    BY DEF JournalInv, FillsPriced
  <2>2. \A k \in 1..Len(fills') : FillOf(fills'[k])
    BY <1>2, <1>6, <2>1
  <2>3. ASSUME NEW j \in 1..Len(fills'), NEW k \in 1..Len(fills'), j < k
        PROVE  fills'[j].ts <= fills'[k].ts
    <3>1. CASE k \in 1..Len(fills)
      <4>1. j \in 1..Len(fills)
        BY <1>4, <2>3, <3>1
      <4>2. fills'[j] = fills[j] /\ fills'[k] = fills[k]
        BY <1>4, <1>6, <3>1, <4>1
      <4> QED
        BY <2>1, <2>3, <3>1, <4>1, <4>2
    <3>2. CASE k = Len(fills) + 1 /\ fills'[k] = f
      <4>1. j \in 1..Len(fills) /\ fills'[j] = fills[j]
        BY <1>4, <1>6, <2>3, <3>2
      <4> QED
        BY <1>2, <1>4, <3>2, <4>1
    <3> QED
      BY <1>6, <3>1, <3>2
  <2> QED
    BY <2>2, <2>3 DEF FillsPriced, FillOf
<1>10. EventsAhead' /\ InputsPast'
  BY <1>2 DEF JournalInv, EventsAhead, InputsPast
<1>11. Ended'
  BY <1>2 DEF JournalInv, Ended
<1> QED
  BY <1>7, <1>8, <1>9, <1>10, <1>11 DEF JournalInv

\* An order in the journal is one.
LEMMA OrderInJournal ==
    ASSUME EngineInv, JournalInv, NEW o, Among(orders, o)
    PROVE  /\ o \in Order /\ o.sequence \in Nat /\ o.sequence <= Len(decisions)
           /\ MadeOn(o, data) /\ o.submitted_at \in Nat /\ o.submitted_at <= now
           /\ o.instrument \in Instruments
<1>1. PICK n \in 1..Len(orders) : orders[n] = o
  BY DEF Among
<1>2. o \in Order
  BY <1>1 DEF EngineInv, TypeOK
<1>3. MadeOn(o, data) /\ o.submitted_at <= now /\ o.sequence <= Len(decisions)
  BY <1>1 DEF JournalInv, OrdersPlaced
<1> QED
  BY <1>2, <1>3 DEF Order

\* An order made on an event of this instant is new.
LEMMA OrderPlaced ==
    ASSUME EngineInv, JournalInv, NEW event \in DecisionEvents(data, now), NEW o, NEW held, NEW target,
           OrderFor(o, Len(decisions) + 1, event, held, target)
    PROVE  /\ o \in Order /\ o.sequence = Len(decisions) + 1 /\ o.submitted_at = now
           /\ o.instrument = event.instrument /\ o.trigger = event.trigger
           /\ MadeOn(o, data) /\ ~Among(orders, o)
<1>1. data \in Datasets /\ Len(decisions) \in Nat
  BY DEF EngineInv, TypeOK
<1>2. /\ event.trigger.open \in Opens(data["signal"][event.instrument])
      /\ now = FirstVisibility(data["signal"][event.instrument], event.trigger.open)
  BY <1>1, EventFacts
<1>3. /\ o \in Order /\ o.sequence = Len(decisions) + 1 /\ o.submitted_at = now
      /\ o.instrument = event.instrument /\ o.trigger = event.trigger
      /\ o.bar # None => o.bar \in NextExecutionBar(data["execution"][event.instrument],
                                       event.trigger.open, now, Lag[event.instrument])
  BY DEF OrderFor
<1>4. MadeOn(o, data)
  BY <1>2, <1>3 DEF MadeOn
<1>5. ~Among(orders, o)
  <2> SUFFICES ASSUME Among(orders, o)
               PROVE  FALSE
    OBVIOUS
  <2>1. o.sequence <= Len(decisions)
    BY OrderInJournal
  <2> QED
    BY <1>1, <1>3, <2>1
<1> QED
  BY <1>3, <1>4, <1>5

\* Taking a decision.
LEMMA JournalDecide ==
    ASSUME EngineInv, JournalInv, Decide
    PROVE  JournalInv'
<1>1. PICK event, taken, o, target : DecideStep(event, taken, o, target)
  BY DecideStepTaken
<1>2. PICK held : held = position[event.instrument].quantity
  OBVIOUS
<1>3. /\ data' = data /\ now' = now /\ filling' = filling /\ fills' = fills
      /\ valuations' = valuations /\ outcome' = outcome
      /\ filling = <<>> /\ deciding # <<>> /\ event = deciding[1] /\ 1 \in 1..Len(deciding)
  BY <1>1 DEF DecideStep
<1>4. \A k \in 1..Len(deciding') : k + 1 \in 1..Len(deciding) /\ deciding'[k] = deciding[k + 1]
  BY <1>1 DEF DecideStep
<1>5. /\ decisions \in Seq(Decision) /\ orders \in Seq(Order) /\ now \in Nat /\ data \in Datasets
      /\ Len(decisions) \in Nat /\ Len(orders) \in Nat
  BY DEF EngineInv, TypeOK
<1>6. /\ Len(decisions') = Len(decisions) + 1 /\ decisions'[Len(decisions) + 1] = taken
      /\ \A n \in 1..Len(decisions) : decisions'[n] = decisions[n]
  <2>1. decisions' = Append(decisions, taken) /\ taken \in Decision
    BY <1>1 DEF DecideStep
  <2> QED
    BY <1>5, <2>1, AppendProperties
<1>7. \/ orders' = orders /\ pending' = pending
      \/ /\ OrderFor(o, Len(decisions) + 1, event, held, target)
         /\ orders' = Append(orders, o)
         /\ pending' = pending \/ (pending' = pending \cup {o})
  BY <1>1, <1>2 DEF DecideStep
<1>8. event \in DecisionEvents(data, now)
  BY <1>3 DEF JournalInv, EventsAhead
<1>9. ASSUME OrderFor(o, Len(decisions) + 1, event, held, target)
      PROVE  /\ o \in Order /\ o.sequence = Len(decisions) + 1 /\ o.submitted_at = now
             /\ o.instrument = event.instrument /\ o.trigger = event.trigger
             /\ MadeOn(o, data) /\ ~Among(orders, o)
  BY <1>8, <1>9, OrderPlaced
<1>10. \/ orders' = orders /\ pending' = pending
       \/ /\ OrderFor(o, Len(decisions) + 1, event, held, target)
          /\ Len(orders') = Len(orders) + 1 /\ orders'[Len(orders) + 1] = o
          /\ \A n \in 1..Len(orders) : orders'[n] = orders[n]
          /\ pending' = pending \/ (pending' = pending \cup {o})
  BY <1>5, <1>7, <1>9, AppendProperties
<1>11. \A n \in 1..Len(orders') : \/ n \in 1..Len(orders) /\ orders'[n] = orders[n]
                                  \/ /\ n = Len(orders) + 1 /\ orders'[n] = o
                                     /\ OrderFor(o, Len(decisions) + 1, event, held, target)
  BY <1>5, <1>10
<1>12. \A p : Among(orders, p) => Among(orders', p)
  BY <1>5, <1>10 DEF Among
<1>13. \A p \in pending' : p \in pending \/ (p = o /\ Among(orders', o) /\ ~Among(orders, o))
  <2>1. CASE orders' = orders /\ pending' = pending
    BY <2>1
  <2>2. CASE /\ OrderFor(o, Len(decisions) + 1, event, held, target)
             /\ Len(orders') = Len(orders) + 1 /\ orders'[Len(orders) + 1] = o
             /\ pending' = pending \/ (pending' = pending \cup {o})
    <3>1. Len(orders) + 1 \in 1..Len(orders')
      BY <1>5, <2>2
    <3>2. Among(orders', o) /\ ~Among(orders, o)
      BY <1>9, <2>2, <3>1 DEF Among
    <3> QED
      BY <2>2, <3>2
  <2> QED
    BY <1>10, <2>1, <2>2
<1>14. OrdersPlaced'
  <2>1. ASSUME NEW n \in 1..Len(orders')
        PROVE  /\ MadeOn(orders'[n], data) /\ orders'[n].submitted_at <= now
               /\ orders'[n].sequence <= Len(decisions')
    <3>1. CASE n \in 1..Len(orders) /\ orders'[n] = orders[n]
      <4>1. Among(orders, orders[n])
        BY <3>1 DEF Among
      <4>2. /\ MadeOn(orders[n], data) /\ orders[n].submitted_at <= now
            /\ orders[n].sequence \in Nat /\ orders[n].sequence <= Len(decisions)
        BY <4>1, OrderInJournal
      <4> QED
        BY <3>1, <4>2, <1>5, <1>6
    <3>2. CASE orders'[n] = o /\ OrderFor(o, Len(decisions) + 1, event, held, target)
      BY <3>2, <1>5, <1>6, <1>9
    <3> QED
      BY <1>11, <3>1, <3>2
  <2>2. \A p \in pending' : Among(orders', p)
    BY <1>12, <1>13 DEF JournalInv, OrdersPlaced
  <2>3. \A k \in 1..Len(fills) : Among(orders', fills[k].order)
    BY <1>12 DEF JournalInv, OrdersPlaced
  <2>4. \A k \in 1..Len(filling) : Among(orders', filling[k])
    BY <1>12 DEF JournalInv, OrdersPlaced
  <2> QED
    BY <1>3, <2>1, <2>2, <2>3, <2>4 DEF OrdersPlaced, MadeOn, Among
<1>15. OrdersOnce'
  <2>1. \A k \in 1..Len(fills) : fills[k].order \notin pending'
    BY <1>13 DEF JournalInv, OrdersPlaced, OrdersOnce
  <2>2. \A k \in 1..Len(filling) : filling[k] \notin pending'
    BY <1>13 DEF JournalInv, OrdersPlaced, OrdersOnce
  <2> QED
    BY <1>3, <2>1, <2>2 DEF JournalInv, OrdersOnce, FilledIn
<1>16. FillsPriced'
  BY <1>3 DEF JournalInv, FillsPriced, FillOf
<1>17. EventsAhead'
  <2>1. /\ \A k \in 1..Len(deciding) : deciding[k] \in DecisionEvents(data, now)
        /\ \A j, k \in 1..Len(deciding) : j < k => EventBefore(deciding[j], deciding[k])
        /\ \A n \in 1..Len(orders), k \in 1..Len(deciding) :
              orders[n].instrument = deciding[k].instrument =>
                  orders[n].trigger.open # deciding[k].trigger.open
    BY DEF JournalInv, EventsAhead
  <2>2. \A k \in 1..Len(deciding') : deciding'[k] \in DecisionEvents(data, now)
    BY <1>4, <2>1
  <2>3. ASSUME NEW j \in 1..Len(deciding'), NEW k \in 1..Len(deciding'), j < k
        PROVE  EventBefore(deciding'[j], deciding'[k])
    <3>1. /\ j + 1 \in 1..Len(deciding) /\ k + 1 \in 1..Len(deciding) /\ j + 1 < k + 1
          /\ deciding'[j] = deciding[j + 1] /\ deciding'[k] = deciding[k + 1]
      BY <1>4, <2>3
    <3> QED
      BY <2>1, <3>1
  <2>4. ASSUME NEW n \in 1..Len(orders'), NEW k \in 1..Len(deciding'),
               orders'[n].instrument = deciding'[k].instrument
        PROVE  orders'[n].trigger.open # deciding'[k].trigger.open
    <3>1. k + 1 \in 1..Len(deciding) /\ deciding'[k] = deciding[k + 1] /\ 1 < k + 1
      BY <1>4
    <3>2. CASE n \in 1..Len(orders) /\ orders'[n] = orders[n]
      BY <2>1, <2>4, <3>1, <3>2
    <3>3. CASE orders'[n] = o /\ OrderFor(o, Len(decisions) + 1, event, held, target)
      <4>1. PICK other : other = deciding[k + 1] /\ other \in DecisionEvents(data, now)
        BY <2>1, <3>1
      <4>2. EventBefore(event, other)
        BY <1>3, <2>1, <3>1, <4>1
      <4>3. event \in Event /\ other \in Event
        BY <1>5, <1>8, <4>1, EventFacts
      <4>4. /\ event.instrument \in Int /\ other.instrument \in Int
            /\ event.trigger.open \in Int /\ other.trigger.open \in Int
        <5>1. \A i \in Instruments : i \in Int
          BY EngineConstants
        <5>2. /\ event.instrument \in Instruments /\ other.instrument \in Instruments
              /\ event.trigger \in Bar /\ other.trigger \in Bar
          BY <4>3 DEF Event
        <5>3. \A b \in Bar : b.open \in Int
          BY DEF Bar
        <5> QED
          BY <5>1, <5>2, <5>3
      <4>5. event.instrument = other.instrument => event.trigger.open # other.trigger.open
        BY <4>2, <4>4 DEF EventBefore
      <4> QED
        BY <1>9, <2>4, <3>1, <3>3, <4>1, <4>5
    <3> QED
      BY <1>11, <3>2, <3>3
  <2> QED
    BY <1>3, <2>2, <2>3, <2>4 DEF EventsAhead
<1>18. InputsPast'
  <2>1. taken.ts = now /\ \A m \in 1..Len(taken.inputs) : taken.inputs[m].available <= now
    BY <1>1 DEF DecideStep
  <2> SUFFICES ASSUME NEW n \in 1..Len(decisions')
               PROVE  \A m \in 1..Len(decisions'[n].inputs) :
                         decisions'[n].inputs[m].available <= decisions'[n].ts
    BY DEF InputsPast
  <2>2. CASE n \in 1..Len(decisions)
    BY <2>2, <1>6 DEF JournalInv, InputsPast
  <2>3. CASE n = Len(decisions) + 1
    BY <2>1, <2>3, <1>6
  <2> QED
    BY <1>5, <1>6, <2>2, <2>3
<1>19. Ended'
  BY <1>3 DEF JournalInv, Ended
<1> QED
  BY <1>14, <1>15, <1>16, <1>17, <1>18, <1>19 DEF JournalInv

\* The end of the loop.
LEMMA JournalValuePositions ==
    ASSUME EngineInv, JournalInv, ValuePositions
    PROVE  JournalInv'
<1>1. /\ data' = data /\ upcoming' = upcoming /\ now' = now /\ filling' = filling
      /\ deciding' = deciding /\ pending' = pending
      /\ decisions' = decisions /\ orders' = orders /\ fills' = fills
      /\ filling = <<>> /\ deciding = <<>> /\ upcoming = {}
  BY DEF ValuePositions
<1>2. Ended'
  BY <1>1, ValuePositionsSafe DEF Ended
<1>3. OrdersPlaced' /\ OrdersOnce'
  BY <1>1 DEF JournalInv, OrdersPlaced, OrdersOnce, MadeOn, Among, FilledIn
<1>4. FillsPriced' /\ EventsAhead' /\ InputsPast'
  BY <1>1 DEF JournalInv, FillsPriced, FillOf, EventsAhead, InputsPast
<1> QED
  BY <1>2, <1>3, <1>4 DEF JournalInv

\* Nothing happens to the journal.
LEMMA JournalStutter ==
    ASSUME JournalInv, UNCHANGED vars
    PROVE  JournalInv'
<1>1. /\ data' = data /\ upcoming' = upcoming /\ now' = now /\ filling' = filling
      /\ deciding' = deciding /\ pending' = pending
      /\ decisions' = decisions /\ orders' = orders /\ fills' = fills
      /\ valuations' = valuations /\ outcome' = outcome
  BY DEF vars
<1>2. OrdersPlaced' /\ OrdersOnce' /\ Ended'
  BY <1>1 DEF JournalInv, OrdersPlaced, OrdersOnce, MadeOn, Among, FilledIn, Ended
<1>3. FillsPriced' /\ EventsAhead' /\ InputsPast'
  BY <1>1 DEF JournalInv, FillsPriced, FillOf, EventsAhead, InputsPast
<1> QED
  BY <1>2, <1>3 DEF JournalInv

\* What the journal of a simulation holds is consistent in every state: every order
\* belongs to its decision and is filled at most once, at its bar's visibility; every
\* decision used bars that were visible (simulate).
THEOREM JournalKept == Spec => []JournalInv
<1>1. EngineInv /\ JournalInv /\ [Next]_vars => JournalInv'
  BY JournalNextInstant, JournalFillOrder, JournalDecide, JournalValuePositions, JournalStutter DEF Next
<1> QED
  BY <1>1, JournalBegin, EngineInvariant, PTL DEF Spec

-----------------------------------------------------------------------------
(* How trades grow with the journal *)

\* A sale that closes a buy comes later, for the same instrument, and is the only one.
LEMMA ExitFacts ==
    ASSUME NEW fs, Len(fs) \in Nat, NEW k
    PROVE  /\ \A j \in ExitsIn(fs, k) : /\ j \in 1..Len(fs) /\ k \in 1..(j - 1)
                                        /\ fs[j].economics.side = "SELL"
                                        /\ fs[j].order.instrument = fs[k].order.instrument
           /\ \A a, b \in ExitsIn(fs, k) : a = b
<1>1. ASSUME NEW j \in ExitsIn(fs, k)
      PROVE  /\ j \in 1..Len(fs) /\ k \in 1..(j - 1)
             /\ fs[j].economics.side = "SELL"
             /\ fs[j].order.instrument = fs[k].order.instrument
             /\ \A m \in (k + 1)..(j - 1) : fs[m].order.instrument # fs[j].order.instrument
  BY DEF ExitsIn, EntryIn
<1>2. ASSUME NEW a \in ExitsIn(fs, k), NEW b \in ExitsIn(fs, k), a < b
      PROVE  FALSE
  <2>1. a \in (k + 1)..(b - 1)
    BY <1>1, <1>2
  <2> QED
    BY <1>1, <2>1
<1>3. ASSUME NEW a \in ExitsIn(fs, k), NEW b \in ExitsIn(fs, k)
      PROVE  a = b
  <2>1. a \in Int /\ b \in Int
    BY <1>1
  <2> QED
    BY <1>2, <2>1
<1> QED
  BY <1>1, <1>3

\* The last fill of an instrument is not closed.
LEMMA LastIsOpen ==
    ASSUME NEW fs, Len(fs) \in Nat, NEW i, NEW k, LastFor(fs, i, k)
    PROVE  ExitsIn(fs, k) = {}
<1> SUFFICES ASSUME NEW j \in ExitsIn(fs, k)
             PROVE  FALSE
  OBVIOUS
<1>1. /\ j \in 1..Len(fs) /\ k \in 1..(j - 1) /\ fs[j].order.instrument = fs[k].order.instrument
  BY ExitFacts
<1>2. j \in FilledFor(fs, i)
  BY <1>1 DEF LastFor, FilledFor
<1>3. j <= k
  BY <1>2 DEF LastFor
<1> QED
  BY <1>1, <1>3

\* A journal with one more fill.
OneFillMore(gs, fs, f) ==
    /\ Len(fs) \in Nat /\ Len(gs) = Len(fs) + 1 /\ gs[Len(fs) + 1] = f
    /\ \A k \in 1..Len(fs) : gs[k] = fs[k]

\* The entries and exits of the earlier fills, and of the new one.
LEMMA TradesGrow ==
    ASSUME NEW gs, NEW fs, NEW f, OneFillMore(gs, fs, f)
    PROVE  /\ \A i : FilledFor(gs, i) = IF f.order.instrument = i
                                        THEN FilledFor(fs, i) \cup {Len(fs) + 1}
                                        ELSE FilledFor(fs, i)
           /\ \A k \in 1..Len(fs) : EntryIn(gs, k) = EntryIn(fs, k)
           /\ \A k : k \in EntryIn(gs, Len(fs) + 1) <=>
                        fs[k].economics.side = "BUY" /\ LastFor(fs, f.order.instrument, k)
           /\ \A k \in 1..Len(fs) :
                 ExitsIn(gs, k) = IF f.economics.side = "SELL" /\ k \in EntryIn(gs, Len(fs) + 1)
                                  THEN ExitsIn(fs, k) \cup {Len(fs) + 1}
                                  ELSE ExitsIn(fs, k)
           /\ ExitsIn(gs, Len(fs) + 1) = {}
<1>1. PICK n \in Nat : n = Len(fs)
  BY DEF OneFillMore
<1>2. Len(gs) = n + 1 /\ gs[n + 1] = f /\ \A k \in 1..n : gs[k] = fs[k]
  BY <1>1 DEF OneFillMore
<1>3. ASSUME NEW i
      PROVE  FilledFor(gs, i) = IF f.order.instrument = i
                                THEN FilledFor(fs, i) \cup {n + 1} ELSE FilledFor(fs, i)
  BY <1>1, <1>2 DEF FilledFor
<1>4. ASSUME NEW k \in 1..n
      PROVE  EntryIn(gs, k) = EntryIn(fs, k)
  <2>1. \A j \in 1..k : gs[j] = fs[j]
    BY <1>2
  <2> QED
    BY <2>1 DEF EntryIn
<1>5. ASSUME NEW k
      PROVE  k \in EntryIn(gs, n + 1) <=>
                fs[k].economics.side = "BUY" /\ LastFor(fs, f.order.instrument, k)
  <2>1. k \in EntryIn(gs, n + 1) <=>
           /\ k \in 1..n /\ gs[k].order.instrument = f.order.instrument
           /\ gs[k].economics.side = "BUY"
           /\ \A m \in (k + 1)..n : gs[m].order.instrument # f.order.instrument
    BY <1>2 DEF EntryIn
  <2>2. LastFor(fs, f.order.instrument, k) <=>
           /\ k \in 1..n /\ fs[k].order.instrument = f.order.instrument
           /\ \A m \in 1..n : fs[m].order.instrument = f.order.instrument => m <= k
    BY <1>1 DEF LastFor, FilledFor
  <2>3. CASE k \in 1..n
    <3>1. gs[k] = fs[k] /\ \A m \in (k + 1)..n : gs[m] = fs[m] /\ m \in 1..n
      BY <1>2, <2>3
    <3>2. (\A m \in (k + 1)..n : gs[m].order.instrument # f.order.instrument) <=>
          (\A m \in 1..n : fs[m].order.instrument = f.order.instrument => m <= k)
      BY <2>3, <3>1
    <3> QED
      BY <2>1, <2>2, <3>1, <3>2
  <2> QED
    BY <2>1, <2>2, <2>3
<1>6. ASSUME NEW k \in 1..n
      PROVE  ExitsIn(gs, k) = IF f.economics.side = "SELL" /\ k \in EntryIn(gs, n + 1)
                              THEN ExitsIn(fs, k) \cup {n + 1} ELSE ExitsIn(fs, k)
  <2>1. \A j : j \in ExitsIn(gs, k) <=>
           j \in 1..(n + 1) /\ gs[j].economics.side = "SELL" /\ k \in EntryIn(gs, j)
    BY <1>2 DEF ExitsIn
  <2>2. \A j : j \in ExitsIn(fs, k) <=>
           j \in 1..n /\ fs[j].economics.side = "SELL" /\ k \in EntryIn(fs, j)
    BY <1>1 DEF ExitsIn
  <2>3. \A j \in 1..n : j \in ExitsIn(gs, k) <=> j \in ExitsIn(fs, k)
    BY <1>2, <1>4, <2>1, <2>2
  <2>4. n + 1 \in ExitsIn(gs, k) <=> f.economics.side = "SELL" /\ k \in EntryIn(gs, n + 1)
    BY <1>2, <2>1
  <2>5. \A j : j \in ExitsIn(gs, k) => j \in 1..n \/ j = n + 1
    BY <2>1
  <2>6. CASE f.economics.side = "SELL" /\ k \in EntryIn(gs, n + 1)
    <3>1. \A j : j \in ExitsIn(gs, k) <=> j \in ExitsIn(fs, k) \/ j = n + 1
      BY <2>2, <2>3, <2>4, <2>5, <2>6
    <3> QED
      BY <2>6, <3>1
  <2>7. CASE ~(f.economics.side = "SELL" /\ k \in EntryIn(gs, n + 1))
    <3>1. \A j : j \in ExitsIn(gs, k) <=> j \in ExitsIn(fs, k)
      BY <2>2, <2>3, <2>4, <2>5, <2>7
    <3> QED
      BY <2>7, <3>1
  <2> QED
    BY <2>6, <2>7
<1>7. ExitsIn(gs, n + 1) = {}
  <2>1. Len(gs) \in Nat
    BY <1>2
  <2>2. \A j \in ExitsIn(gs, n + 1) : j \in 1..Len(gs) /\ n + 1 \in 1..(j - 1)
    BY <2>1, ExitFacts
  <2> QED
    BY <1>2, <2>2
<1> QED
  BY <1>1, <1>3, <1>4, <1>5, <1>6, <1>7

\* The results of closed trades can be added.
LEMMA ResultsSummable ==
    ASSUME NEW fs \in Seq(Fill), NEW i
    PROVE  Summable(Results(fs), ClosedTrades(fs, i)) /\ ClosedTrades(fs, i) \subseteq 1..Len(fs)
<1>1. ClosedTrades(fs, i) \in SUBSET (1..Len(fs)) /\ Len(fs) \in Nat
  BY DEF ClosedTrades, FilledFor
<1>2. IsFiniteSet(ClosedTrades(fs, i))
  <2>1. IsFiniteSet(1..Len(fs))
    BY <1>1, FS_Interval
  <2> QED
    BY <1>1, <2>1, FS_Subset
<1>3. ASSUME NEW k \in ClosedTrades(fs, i)
      PROVE  Results(fs)[k] \in Int
  <2>1. PICK j : j = CHOOSE x \in ExitsIn(fs, k) : TRUE
    OBVIOUS
  <2>2. j \in ExitsIn(fs, k) /\ k \in 1..Len(fs)
    BY <1>1, <2>1 DEF ClosedTrades
  <2>3. j \in 1..Len(fs)
    BY <1>1, <2>2, ExitFacts
  <2>4. Results(fs)[k] = CashDelta(fs[k].economics) + CashDelta(fs[j].economics)
    BY <2>1, <2>2 DEF Results
  <2>5. \A m \in 1..Len(fs) : CashDelta(fs[m].economics) \in Int
    <3>1. 1..Len(fs) \in SUBSET (1..Len(fs))
      OBVIOUS
    <3>2. Summable(Payments(fs), 1..Len(fs))
      BY <3>1, JournalSummable
    <3> QED
      BY <3>2 DEF Summable, Payments
  <2> QED
    BY <2>2, <2>3, <2>4, <2>5
<1> QED
  BY <1>1, <1>2, <1>3 DEF Summable

\* A closed trade stays as it is.
LEMMA ClosedStays ==
    ASSUME NEW gs, NEW fs, NEW f, OneFillMore(gs, fs, f), NEW i, NEW k \in ClosedTrades(fs, i)
    PROVE  k \in ClosedTrades(gs, i) /\ Results(gs)[k] = Results(fs)[k]
<1>1. /\ Len(fs) \in Nat /\ Len(gs) = Len(fs) + 1 /\ \A j \in 1..Len(fs) : gs[j] = fs[j]
  BY DEF OneFillMore
<1>2. /\ k \in 1..Len(fs) /\ fs[k].order.instrument = i /\ fs[k].economics.side = "BUY"
      /\ ExitsIn(fs, k) # {}
  BY DEF ClosedTrades, FilledFor
<1>3. k \notin EntryIn(gs, Len(fs) + 1)
  <2>1. ~LastFor(fs, f.order.instrument, k)
    BY <1>1, <1>2, LastIsOpen
  <2> QED
    BY <2>1, TradesGrow
<1>4. ExitsIn(gs, k) = ExitsIn(fs, k)
  BY <1>2, <1>3, TradesGrow
<1>5. PICK j : j = CHOOSE x \in ExitsIn(fs, k) : TRUE
  OBVIOUS
<1>6. j \in 1..Len(fs)
  <2>1. j \in ExitsIn(fs, k)
    BY <1>2, <1>5
  <2> QED
    BY <1>1, <2>1, ExitFacts
<1>7. Results(fs)[k] = CashDelta(fs[k].economics) + CashDelta(fs[j].economics)
  BY <1>2, <1>5 DEF Results
<1>8. Results(gs)[k] = CashDelta(gs[k].economics) + CashDelta(gs[j].economics)
  <2>1. k \in 1..Len(gs) /\ j = CHOOSE x \in ExitsIn(gs, k) : TRUE
    BY <1>1, <1>2, <1>4, <1>5
  <2> QED
    BY <2>1 DEF Results
<1>9. k \in ClosedTrades(gs, i)
  <2>1. gs[k] = fs[k] /\ k \in 1..Len(gs)
    BY <1>1, <1>2
  <2> QED
    BY <1>2, <1>4, <2>1 DEF ClosedTrades, FilledFor
<1> QED
  BY <1>1, <1>2, <1>6, <1>7, <1>8, <1>9

\* If no trade is closed, nothing is realized.
LEMMA NothingClosed ==
    ASSUME NEW gs, NEW fs \in Seq(Fill), NEW f, OneFillMore(gs, fs, f), NEW i,
           ClosedTrades(gs, i) = ClosedTrades(fs, i)
    PROVE  SumOf(Results(gs), ClosedTrades(gs, i)) = SumOf(Results(fs), ClosedTrades(fs, i))
<1>1. Summable(Results(fs), ClosedTrades(fs, i))
  BY ResultsSummable
<1>2. \A k \in ClosedTrades(fs, i) : Results(fs)[k] = Results(gs)[k]
  BY ClosedStays
<1>3. PICK g, h, V : g = Results(fs) /\ h = Results(gs) /\ V = ClosedTrades(fs, i)
  OBVIOUS
<1>4. SumOf(g, V) = SumOf(h, V)
  BY <1>1, <1>2, <1>3, SumOfEqual
<1> QED
  BY <1>3, <1>4

\* A fill of another instrument.
LEMMA TradesOther ==
    ASSUME NEW gs, NEW fs \in Seq(Fill), NEW f, OneFillMore(gs, fs, f), NEW i, NEW state,
           f.order.instrument # i, TradesAre(fs, i, state)
    PROVE  TradesAre(gs, i, state)
<1>1. /\ Len(fs) \in Nat /\ Len(gs) = Len(fs) + 1 /\ \A j \in 1..Len(fs) : gs[j] = fs[j]
  BY DEF OneFillMore
<1>2. FilledFor(gs, i) = FilledFor(fs, i)
  BY TradesGrow
<1>3. \A k \in FilledFor(fs, i) : k \in 1..Len(fs) /\ fs[k].order.instrument = i
  BY DEF FilledFor
<1>4. ASSUME NEW k \in FilledFor(fs, i)
      PROVE  gs[k] = fs[k] /\ EntryIn(gs, k) = EntryIn(fs, k) /\ ExitsIn(gs, k) = ExitsIn(fs, k)
  <2>1. ~LastFor(fs, f.order.instrument, k)
    BY <1>3 DEF LastFor, FilledFor
  <2>2. k \notin EntryIn(gs, Len(fs) + 1)
    BY <2>1, TradesGrow
  <2> QED
    BY <1>1, <1>3, <2>2, TradesGrow
<1>5. ClosedTrades(gs, i) = ClosedTrades(fs, i) /\ OpenTrades(gs, i) = OpenTrades(fs, i)
  BY <1>2, <1>4 DEF ClosedTrades, OpenTrades
<1>6. SumOf(Results(gs), ClosedTrades(gs, i)) = SumOf(Results(fs), ClosedTrades(fs, i))
  BY <1>5, NothingClosed
<1>7. \A k \in FilledFor(gs, i) : gs[k].economics.side = "SELL" => EntryIn(gs, k) # {}
  BY <1>2, <1>4 DEF TradesAre
<1>8. CASE state.quantity = 0 /\ state.cost = 0 /\ OpenTrades(fs, i) = {}
  BY <1>5, <1>6, <1>7, <1>8 DEF TradesAre
<1>9. CASE /\ state.quantity = TargetQuantity
           /\ \E k \in 1..Len(fs) : /\ OpenTrades(fs, i) = {k} /\ LastFor(fs, i, k)
                                    /\ state.cost = -CashDelta(fs[k].economics)
  <2>1. PICK k \in 1..Len(fs) : /\ OpenTrades(fs, i) = {k} /\ LastFor(fs, i, k)
                                /\ state.cost = -CashDelta(fs[k].economics)
    BY <1>9
  <2>2. LastFor(gs, i, k) /\ k \in 1..Len(gs) /\ state.cost = -CashDelta(gs[k].economics)
    BY <1>1, <1>2, <2>1 DEF LastFor
  <2> QED
    BY <1>5, <1>6, <1>7, <1>9, <2>1, <2>2 DEF TradesAre
<1> QED
  BY <1>8, <1>9 DEF TradesAre

\* A buy when nothing is held opens a trade.
LEMMA TradesBought ==
    ASSUME NEW gs, NEW fs \in Seq(Fill), NEW f, OneFillMore(gs, fs, f), NEW state, NEW after,
           TradesAre(fs, f.order.instrument, state), state.quantity = 0,
           f.economics.side = "BUY", TargetQuantity # 0,
           after.quantity = TargetQuantity, after.cost = -CashDelta(f.economics),
           after.realized = state.realized
    PROVE  TradesAre(gs, f.order.instrument, after)
<1> DEFINE i == f.order.instrument
           n == Len(fs)
<1>1. /\ n \in Nat /\ Len(gs) = n + 1 /\ gs[n + 1] = f /\ \A j \in 1..n : gs[j] = fs[j]
  BY DEF OneFillMore
<1>2. FilledFor(gs, i) = FilledFor(fs, i) \cup {n + 1}
  BY TradesGrow
<1>3. \A k \in FilledFor(fs, i) : k \in 1..n /\ fs[k].order.instrument = i
  BY DEF FilledFor
<1>4. \A k \in FilledFor(fs, i) :
         gs[k] = fs[k] /\ EntryIn(gs, k) = EntryIn(fs, k) /\ ExitsIn(gs, k) = ExitsIn(fs, k)
  BY <1>1, <1>3, TradesGrow
<1>5. ExitsIn(gs, n + 1) = {}
  BY TradesGrow
<1>6. OpenTrades(fs, i) = {}
  BY DEF TradesAre
<1> HIDE DEF i
<1>7. ClosedTrades(gs, i) = ClosedTrades(fs, i)
  BY <1>2, <1>4, <1>5 DEF ClosedTrades
<1>8. OpenTrades(gs, i) = {n + 1}
  <2>1. n + 1 \in OpenTrades(gs, i)
    BY <1>1, <1>2, <1>5 DEF OpenTrades
  <2>2. ASSUME NEW k \in OpenTrades(gs, i), k # n + 1
        PROVE  FALSE
    <3>1. k \in FilledFor(fs, i) /\ gs[k].economics.side = "BUY" /\ ExitsIn(gs, k) = {}
      BY <1>2, <2>2 DEF OpenTrades
    <3>2. k \in OpenTrades(fs, i)
      BY <1>4, <3>1 DEF OpenTrades
    <3> QED
      BY <1>6, <3>2
  <2> QED
    BY <2>1, <2>2
<1>9. LastFor(gs, i, n + 1)
  <2>1. \A m \in FilledFor(fs, i) : m <= n + 1
    BY <1>1, <1>3
  <2> QED
    BY <1>1, <1>2, <2>1 DEF LastFor
<1>10. SumOf(Results(gs), ClosedTrades(gs, i)) = SumOf(Results(fs), ClosedTrades(fs, i))
  BY <1>7, NothingClosed
<1>11. \A k \in FilledFor(gs, i) : gs[k].economics.side = "SELL" => EntryIn(gs, k) # {}
  BY <1>1, <1>2, <1>4 DEF TradesAre, i
<1>12. after.realized = SumOf(Results(gs), ClosedTrades(gs, i))
  BY <1>10 DEF TradesAre, i
<1>13. n + 1 \in 1..Len(gs) /\ after.cost = -CashDelta(gs[n + 1].economics)
  BY <1>1
<1>14. TradesAre(gs, i, after)
  BY <1>8, <1>9, <1>11, <1>12, <1>13 DEF TradesAre
<1> QED
  BY <1>14 DEF i

\* A sale of what is held closes it.
LEMMA TradesSold ==
    ASSUME NEW gs \in Seq(Fill), NEW fs \in Seq(Fill), NEW f, OneFillMore(gs, fs, f),
           NEW state, NEW after,
           TradesAre(fs, f.order.instrument, state), state.quantity = TargetQuantity,
           f.economics.side = "SELL", TargetQuantity # 0,
           state.cost \in Int, state.realized \in Int, CashDelta(f.economics) \in Int,
           after.quantity = 0, after.cost = 0,
           after.realized = state.realized + CashDelta(f.economics) - state.cost
    PROVE  TradesAre(gs, f.order.instrument, after)
<1> DEFINE i == f.order.instrument
           n == Len(fs)
<1>1. /\ n \in Nat /\ Len(gs) = n + 1 /\ gs[n + 1] = f /\ \A j \in 1..n : gs[j] = fs[j]
  BY DEF OneFillMore
<1>2. FilledFor(gs, i) = FilledFor(fs, i) \cup {n + 1}
  BY TradesGrow
<1>3. \A k \in FilledFor(fs, i) : k \in 1..n /\ fs[k].order.instrument = i
  BY DEF FilledFor
<1>4. PICK last \in 1..n : /\ OpenTrades(fs, i) = {last} /\ LastFor(fs, i, last)
                           /\ state.cost = -CashDelta(fs[last].economics)
  BY DEF TradesAre
<1>5. fs[last].economics.side = "BUY" /\ last \in FilledFor(fs, i) /\ ExitsIn(fs, last) = {}
  BY <1>4 DEF OpenTrades
<1>6. last \in EntryIn(gs, n + 1)
  BY <1>4, <1>5, TradesGrow
<1>7. ExitsIn(gs, last) = {n + 1}
  BY <1>4, <1>5, <1>6, TradesGrow
<1>8. ASSUME NEW k \in FilledFor(fs, i), k # last
      PROVE  gs[k] = fs[k] /\ ExitsIn(gs, k) = ExitsIn(fs, k)
  <2>1. k \in Int /\ last \in Int
    BY <1>3
  <2>2. ~LastFor(fs, i, k)
    BY <1>4, <1>5, <1>8, <2>1 DEF LastFor
  <2>3. k \notin EntryIn(gs, n + 1)
    BY <2>2, TradesGrow
  <2> QED
    BY <1>1, <1>3, <2>3, TradesGrow
<1>9. \A k \in FilledFor(fs, i) : gs[k] = fs[k] /\ EntryIn(gs, k) = EntryIn(fs, k)
  BY <1>1, <1>3, TradesGrow
<1> HIDE DEF i
<1>10. OpenTrades(gs, i) = {}
  <2> SUFFICES ASSUME NEW k \in OpenTrades(gs, i)
               PROVE  FALSE
    OBVIOUS
  <2>1. k \in FilledFor(gs, i) /\ gs[k].economics.side = "BUY" /\ ExitsIn(gs, k) = {}
    BY DEF OpenTrades
  <2>2. k \in FilledFor(fs, i) /\ k # last
    BY <1>1, <1>2, <1>7, <2>1
  <2>3. k \in OpenTrades(fs, i)
    BY <1>8, <2>1, <2>2 DEF OpenTrades
  <2> QED
    BY <1>4, <2>2, <2>3
<1>11. last \notin ClosedTrades(fs, i)
  BY <1>5 DEF ClosedTrades
<1>12. ClosedTrades(gs, i) = ClosedTrades(fs, i) \cup {last}
  <2>1. ASSUME NEW k \in ClosedTrades(gs, i), k # last
        PROVE  k \in ClosedTrades(fs, i)
    <3>1. k \in FilledFor(gs, i) /\ gs[k].economics.side = "BUY" /\ ExitsIn(gs, k) # {}
      BY <2>1 DEF ClosedTrades
    <3>2. k \in FilledFor(fs, i)
      BY <1>1, <1>2, <3>1
    <3> QED
      BY <1>8, <2>1, <3>1, <3>2 DEF ClosedTrades
  <2>2. last \in ClosedTrades(gs, i)
    BY <1>2, <1>5, <1>7, <1>9 DEF ClosedTrades
  <2>3. ClosedTrades(fs, i) \subseteq ClosedTrades(gs, i)
    BY ClosedStays
  <2> QED
    BY <2>1, <2>2, <2>3
<1>13. Results(gs)[last] = CashDelta(fs[last].economics) + CashDelta(f.economics)
  <2>1. last \in 1..Len(gs) /\ gs[last] = fs[last]
    BY <1>1
  <2>2. n + 1 = CHOOSE j \in ExitsIn(gs, last) : TRUE
    BY <1>7
  <2> QED
    BY <1>1, <2>1, <2>2 DEF Results
<1>14. Results(gs)[last] = CashDelta(f.economics) - state.cost /\ Results(gs)[last] \in Int
  <2>1. CashDelta(fs[last].economics) \in Int
    <3>1. Results(gs)[last] \in Int
      <4>1. Summable(Results(gs), ClosedTrades(gs, i)) /\ last \in ClosedTrades(gs, i)
        BY <1>12, ResultsSummable
      <4> QED
        BY <4>1 DEF Summable
    <3>2. {last} \in SUBSET (1..Len(fs))
      BY <1>4
    <3>3. Summable(Payments(fs), {last})
      BY <3>2, JournalSummable
    <3> QED
      BY <1>4, <3>3 DEF Summable, Payments
  <2> QED
    BY <1>4, <1>13, <2>1
<1>15. after.realized = SumOf(Results(gs), ClosedTrades(gs, i))
  <2>1. PICK g, h, V : g = Results(fs) /\ h = Results(gs) /\ V = ClosedTrades(fs, i)
    OBVIOUS
  <2>2. Summable(g, V) /\ \A k \in V : g[k] = h[k]
    BY <2>1, ResultsSummable, ClosedStays
  <2>3. OneMore(g, h, V, last)
    BY <2>1, <2>2, <1>11, <1>14 DEF OneMore
  <2>4. SumOf(h, V \cup {last}) = SumOf(g, V) + h[last]
    BY <2>3, SumAppend
  <2>5. SumOf(g, V) = state.realized
    BY <2>1 DEF TradesAre, i
  <2>6. SumOf(h, V \cup {last}) = state.realized + (CashDelta(f.economics) - state.cost)
    BY <2>1, <2>4, <2>5, <1>14
  <2>7. SumOf(Results(gs), ClosedTrades(gs, i)) = SumOf(h, V \cup {last})
    BY <2>1, <1>12
  <2> QED
    BY <2>6, <2>7
<1>16. \A k \in FilledFor(gs, i) : gs[k].economics.side = "SELL" => EntryIn(gs, k) # {}
  BY <1>2, <1>6, <1>9 DEF TradesAre, i
<1>17. TradesAre(gs, i, after)
  BY <1>10, <1>15, <1>16 DEF TradesAre
<1> QED
  BY <1>17 DEF i

-----------------------------------------------------------------------------
(* Orders where bars become visible one by one *)

\* OneByOne for the rows of a dataset.
Punctual(d, i) ==
    LET execution == d["execution"][i]
    IN  /\ Lag[i] = 0
        /\ DecisionSchedule(d["signal"][i]) \subseteq DecisionSchedule(execution)
        /\ \A a, b \in Opens(execution) :
              a < b => FirstVisibility(execution, a) < FirstVisibility(execution, b)

\* An execution bar is the first that qualifies.
LEMMA NextExecutionFirst ==
    ASSUME NEW rows, Component(rows), NEW signal_open, NEW submitted_at, NEW lag,
           NEW bar \in NextExecutionBar(rows, signal_open, submitted_at, lag),
           NEW open \in Opens(rows),
           open > signal_open, FirstVisibility(rows, open) >= submitted_at + lag
    PROVE  bar.open <= open
<1> DEFINE later == {o \in Opens(rows) :
                       o > signal_open /\ FirstVisibility(rows, o) >= submitted_at + lag}
<1>1. Opens(rows) \subseteq Nat
  BY DEF Component, Opens, Bar
<1>2. open \in later /\ later \subseteq Nat
  BY <1>1
<1>3. bar \in Selected(rows, Min(later), FirstVisibility(rows, Min(later)))
  BY <1>2 DEF NextExecutionBar
<1> HIDE DEF later
<1>4. bar.open = Min(later)
  BY <1>3, SelectedRow
<1>5. Min(later) <= open
  BY <1>2, MinLeast
<1> QED
  BY <1>4, <1>5

\* The order of a punctual instrument waits, and no longer than to the next decision.
LEMMA InTime ==
    ASSUME NEW d \in Datasets, NEW o \in Order, Punctual(d, o.instrument), MadeOn(o, d), o.bar # None
    PROVE  /\ o.bar.available > o.submitted_at
           /\ \A open \in Opens(d["signal"][o.instrument]) :
                 /\ open # o.trigger.open
                 /\ FirstVisibility(d["signal"][o.instrument], open) >= o.submitted_at
                 => o.bar.available <= FirstVisibility(d["signal"][o.instrument], open)
<1>1. PICK i \in Instruments : i = o.instrument
  BY DEF Order
<1>2. PICK s, x : s = d["signal"][i] /\ x = d["execution"][i]
  OBVIOUS
<1>3. Component(s) /\ Component(x)
  <2>1. "signal" \in Role /\ "execution" \in Role
    BY DEF Role
  <2> QED
    BY <1>2, <2>1, DatasetRows
<1>4. PICK t : t = o.trigger.open
  OBVIOUS
<1>5. /\ t \in Opens(s) /\ o.submitted_at = FirstVisibility(s, t)
      /\ o.bar \in NextExecutionBar(x, t, o.submitted_at, 0)
  BY <1>1, <1>2, <1>4 DEF MadeOn, Punctual
<1>6. /\ DecisionSchedule(s) \subseteq DecisionSchedule(x)
      /\ \A a, b \in Opens(x) : a < b => FirstVisibility(x, a) < FirstVisibility(x, b)
  BY <1>1, <1>2 DEF Punctual
<1>7. ASSUME NEW open \in Opens(s)
      PROVE  open \in Opens(x) /\ FirstVisibility(x, open) = FirstVisibility(s, open)
  <2>1. <<FirstVisibility(s, open), open>> \in DecisionSchedule(x)
    BY <1>6 DEF DecisionSchedule
  <2>2. PICK p \in Opens(x) : <<FirstVisibility(s, open), open>> = <<FirstVisibility(x, p), p>>
    BY <2>1 DEF DecisionSchedule
  <2> QED
    BY <2>2
<1>8. \A open \in Opens(x) : open \in Nat /\ FirstVisibility(x, open) \in Nat
  <2>1. \A open \in Opens(x) : open \in Nat
    BY <1>3 DEF Component, Opens, Bar
  <2> QED
    BY <1>3, <2>1, FirstVisibilityLeast
<1>9. PICK sub \in Nat : sub = o.submitted_at /\ sub = FirstVisibility(x, t)
  BY <1>5, <1>7, <1>8
<1>10. /\ o.bar \in x /\ o.bar.open > t /\ o.bar.available = FirstVisibility(x, o.bar.open)
  BY <1>3, <1>5, NextExecutionRow
<1>11. o.bar.open \in Opens(x)
  BY <1>10 DEF Opens
<1>12. o.bar.available > sub
  BY <1>5, <1>6, <1>7, <1>8, <1>9, <1>10, <1>11
<1>13. ASSUME NEW open \in Opens(s), open # t, FirstVisibility(s, open) >= sub
       PROVE  o.bar.available <= FirstVisibility(s, open)
  <2>1. /\ open \in Opens(x) /\ FirstVisibility(x, open) = FirstVisibility(s, open)
        /\ open \in Nat /\ FirstVisibility(x, open) \in Nat /\ t \in Opens(x) /\ t \in Nat
    BY <1>5, <1>7, <1>8
  <2>2. open > t
    BY <1>6, <1>9, <1>13, <2>1
  <2>3. FirstVisibility(x, open) >= sub + 0
    BY <1>13, <2>1
  <2>4. o.bar.open <= open
    BY <1>3, <1>5, <1>9, <2>1, <2>2, <2>3, NextExecutionFirst
  <2>5. o.bar.open = open \/ FirstVisibility(x, o.bar.open) < FirstVisibility(x, open)
    <3>1. PICK p \in Opens(x) : p = o.bar.open
      BY <1>11
    <3>2. p \in Nat /\ open \in Nat
      BY <1>8, <2>1
    <3>3. p <= open
      BY <2>4, <3>1
    <3>4. p = open \/ p < open
      BY <3>2, <3>3
    <3> QED
      BY <1>6, <2>1, <3>1, <3>4
  <2>6. FirstVisibility(x, o.bar.open) \in Nat
    BY <1>8, <1>11
  <2> QED
    BY <1>10, <2>1, <2>5, <2>6
<1> QED
  BY <1>1, <1>2, <1>4, <1>9, <1>12, <1>13

\* When a decision is taken for such an instrument, none of its orders is open.
LEMMA AloneAtDecision ==
    ASSUME EngineInv, JournalInv, NEW event \in DecisionEvents(data, now),
           OneByOne(event.instrument), TimelyOrders(event.instrument),
           filling = <<>>, NEW k \in 1..Len(deciding), event = deciding[k],
           NEW o, IsOpen(o), o.instrument = event.instrument
    PROVE  FALSE
<1>1. o \in pending
  BY DEF IsOpen, Among
<1>2. Among(orders, o) /\ o.bar # None
  BY <1>1 DEF JournalInv, OrdersPlaced, EngineInv, OrdersWait
<1>3. /\ o \in Order /\ MadeOn(o, data) /\ o.submitted_at \in Nat /\ o.submitted_at <= now
  BY <1>2, OrderInJournal
<1>4. data \in Datasets /\ now \in Nat
  BY DEF EngineInv, TypeOK
<1>5. Punctual(data, o.instrument)
  BY DEF OneByOne, Punctual
<1>6. o.trigger.open # event.trigger.open
  <2>1. PICK n \in 1..Len(orders) : orders[n] = o
    BY <1>2 DEF Among
  <2> QED
    BY <2>1 DEF JournalInv, EventsAhead
<1>7. /\ event.trigger.open \in Opens(data["signal"][event.instrument])
      /\ now = FirstVisibility(data["signal"][event.instrument], event.trigger.open)
  BY <1>4, EventFacts
<1>8. o.bar.available <= now
  BY <1>2, <1>3, <1>4, <1>5, <1>6, <1>7, InTime
<1>9. o.bar.available \in upcoming
  BY <1>1 DEF TimelyOrders
<1>10. o.bar.available > now /\ o.bar.available \in Nat
  BY <1>9 DEF EngineInv, ScheduleAhead, TypeOK
<1> QED
  BY <1>4, <1>8, <1>10

-----------------------------------------------------------------------------
(* TimelyInv is inductive *)

\* At the start there is nothing to say.
LEMMA TimelyBegin == Init => TimelyInv
<1> SUFFICES ASSUME Init, NEW i \in Instruments
             PROVE  TimelyOrders(i) /\ TimelyTargets(i) /\ TradesAre(fills, i, position[i])
  BY DEF TimelyInv
<1>1. /\ filling = <<>> /\ pending = {} /\ orders = <<>> /\ fills = <<>>
      /\ position[i] = NoPosition
  BY DEF Init
<1>2. Len(filling) = 0 /\ Len(orders) = 0 /\ Len(fills) = 0 /\ fills \in Seq(Fill)
  BY <1>1
<1>3. \A o : ~IsOpen(o)
  BY <1>1, <1>2 DEF IsOpen, Among
<1>4. TimelyOrders(i) /\ TimelyTargets(i)
  BY <1>1, <1>2, <1>3 DEF TimelyOrders, TimelyTargets
<1>5. FilledFor(fills, i) = {}
  BY <1>2 DEF FilledFor
<1>6. OpenTrades(fills, i) = {} /\ ClosedTrades(fills, i) = {}
  BY <1>5 DEF OpenTrades, ClosedTrades
<1>7. SumOf(Results(fills), ClosedTrades(fills, i)) = 0
  <2>1. PICK g, V : g = Results(fills) /\ V = ClosedTrades(fills, i)
    OBVIOUS
  <2>2. Summable(g, V)
    BY <1>2, <2>1, ResultsSummable
  <2>3. SumOf(g, V) = 0
    BY <2>1, <2>2, <1>6, SumOfInt
  <2> QED
    BY <2>1, <2>3
<1>8. TradesAre(fills, i, position[i])
  BY <1>1, <1>5, <1>6, <1>7 DEF TradesAre, NoPosition
<1> QED
  BY <1>4, <1>8

\* Taking up an instant: the orders that are open stay open.
LEMMA TimelyNextInstant ==
    ASSUME EngineInv, JournalInv, TimelyInv, NextInstant
    PROVE  TimelyInv'
<1>1. PICK ts, due : InstantStep(ts, due)
  BY NextInstantStep
<1>2. /\ filling = <<>> /\ due \subseteq pending /\ pending' = pending \ due
      /\ \A o \in pending : o \in due <=> o.bar.available = ts
      /\ upcoming' = upcoming \ {ts}
      /\ data' = data /\ position' = position /\ decisions' = decisions
      /\ orders' = orders /\ fills' = fills
  BY <1>1 DEF InstantStep
<1>3. \A o : Among(filling', o) <=> o \in due
  BY <1>1 DEF InstantStep, Among
<1>4. \A o : ~Among(filling, o)
  BY <1>2 DEF Among
<1>5. \A o : IsOpen(o)' <=> IsOpen(o)
  BY <1>2, <1>3, <1>4 DEF IsOpen
<1> SUFFICES ASSUME NEW i \in Instruments, OneByOne(i)'
             PROVE  (TimelyOrders(i) /\ TimelyTargets(i) /\ TradesAre(fills, i, position[i]))'
  BY DEF TimelyInv
<1>6. OneByOne(i)
  BY <1>2 DEF OneByOne
<1>7. TimelyOrders(i) /\ TimelyTargets(i) /\ TradesAre(fills, i, position[i])
  BY <1>6 DEF TimelyInv
<1>8. TimelyOrders(i)'
  <2>1. \A o \in pending' : o.instrument = i => o.bar.available \in upcoming'
    BY <1>2, <1>7 DEF TimelyOrders
  <2> QED
    BY <1>2, <1>5, <1>7, <2>1 DEF TimelyOrders
<1>9. TimelyTargets(i)'
  BY <1>2, <1>5, <1>7 DEF TimelyTargets
<1> QED
  BY <1>2, <1>7, <1>8, <1>9

\* The average cost of all that is held is its cost.
LEMMA WholePart ==
    ASSUME NEW c \in Nat, NEW q \in Nat \ {0}
    PROVE  (c * q) \div q = c
<1>1. PICK k \in Nat : k = c * q
  OBVIOUS
<1>2. q * (k \div q) <= k /\ k < q * (k \div q) + q /\ k \div q \in Nat
  OBVIOUS
<1>3. PICK r \in Nat : r = k \div q
  BY <1>2
<1>4. q * r <= c * q /\ c * q < q * r + q
  BY <1>1, <1>2, <1>3
<1>5. q * r <= q * c /\ q * c < q * (r + 1)
  BY <1>4
<1>6. r <= c /\ c < r + 1
  BY <1>5
<1> QED
  BY <1>1, <1>3, <1>6

\* What a taken order makes of the trades of its instrument.
LEMMA TradesTaken ==
    ASSUME NEW fs \in Seq(Fill), NEW f \in Fill, NEW state \in Position,
           TradesAre(fs, f.order.instrument, state),
           f.economics.quantity = TargetQuantity, CashDelta(f.economics) \in Int,
           f.economics.side \in {"BUY", "SELL"},
           (f.economics.side = "BUY") <=> (state.quantity = 0)
    PROVE  TradesAre(Append(fs, f), f.order.instrument, ApplyFill(state, f.economics))
<1>1. PICK gs : gs = Append(fs, f)
  OBVIOUS
<1>2. OneFillMore(gs, fs, f) /\ gs \in Seq(Fill)
  <2>1. /\ gs \in Seq(Fill) /\ Len(gs) = Len(fs) + 1 /\ Len(fs) \in Nat
        /\ gs[Len(fs) + 1] = f /\ \A k \in 1..Len(fs) : gs[k] = fs[k]
    BY <1>1, AppendProperties
  <2> QED
    BY <2>1 DEF OneFillMore
<1>3. PICK e, after : e = f.economics /\ after = ApplyFill(state, e)
  OBVIOUS
<1>4. /\ TargetQuantity \in Nat \ {0}
      /\ state.quantity \in Nat /\ state.cost \in Nat /\ state.realized \in Int
      /\ state = [quantity |-> state.quantity, cost |-> state.cost, realized |-> state.realized]
  BY EngineConstants DEF Position
<1>5. CASE e.side = "BUY"
  <2>1. state.quantity = 0 /\ state.cost = 0
    BY <1>3, <1>4, <1>5 DEF TradesAre
  <2>2. after = [quantity |-> 0 + e.quantity, cost |-> 0 - CashDelta(e), realized |-> state.realized]
    BY <1>3, <1>4, <1>5, <2>1 DEF ApplyFill
  <2>3. /\ after.quantity = TargetQuantity /\ after.cost = -CashDelta(f.economics)
        /\ after.realized = state.realized
    BY <1>3, <1>4, <2>2
  <2>4. TradesAre(gs, f.order.instrument, after)
    BY <1>2, <1>3, <1>4, <1>5, <2>1, <2>3, TradesBought
  <2> QED
    BY <1>1, <1>3, <2>4
<1>6. CASE e.side = "SELL"
  <2>1. state.quantity = TargetQuantity
    BY <1>3, <1>6 DEF TradesAre
  <2>2. CostOf(state, e.quantity) = state.cost
    BY <1>3, <1>4, <2>1, WholePart DEF CostOf
  <2>3. after = [quantity |-> state.quantity - e.quantity,
                 cost |-> state.cost - state.cost,
                 realized |-> state.realized + CashDelta(e) - state.cost]
    BY <1>3, <1>6, <2>2 DEF ApplyFill
  <2>4. /\ after.quantity = 0 /\ after.cost = 0
        /\ after.realized = state.realized + CashDelta(f.economics) - state.cost
    BY <1>3, <1>4, <2>1, <2>3
  <2>5. state.cost \in Int
    BY <1>4
  <2>6. TradesAre(gs, f.order.instrument, after)
    BY <1>2, <1>3, <1>4, <1>6, <2>1, <2>4, <2>5, TradesSold
  <2> QED
    BY <1>1, <1>3, <2>6
<1> QED
  BY <1>3, <1>5, <1>6

\* Trying an order: it is the only one of its instrument, and none is open after it.
LEMMA TimelyFillOrder ==
    ASSUME EngineInv, JournalInv, TimelyInv, FillOrder
    PROVE  TimelyInv'
<1>1. PICK o, f : FillStep(o, f)
  BY FillOrderStep
<1>2. /\ data' = data /\ upcoming' = upcoming /\ pending' = pending /\ decisions' = decisions
      /\ orders' = orders /\ o = filling[1] /\ 1 \in 1..Len(filling)
      /\ o \in Order /\ o.instrument \in Instruments
      /\ f \in Fill /\ f.order = o /\ f.economics.side = o.side /\ f.economics.quantity = o.quantity
      /\ CashDelta(f.economics) \in Int /\ o.bar # None
  BY <1>1 DEF FillStep
<1>3. \A k \in 1..Len(filling') : k + 1 \in 1..Len(filling) /\ filling'[k] = filling[k + 1]
  BY <1>1 DEF FillStep
<1>4. /\ fills \in Seq(Fill) /\ position \in [Instruments -> Position]
  BY DEF EngineInv, TypeOK
<1>5. \/ /\ CanApply(o.instrument, f.economics)
         /\ position' = [position EXCEPT ![o.instrument] =
                               ApplyFill(position[o.instrument], f.economics)]
         /\ fills' = Append(fills, f)
      \/ ~CanApply(o.instrument, f.economics) /\ position' = position /\ fills' = fills
  BY <1>1 DEF FillStep
<1>6. IsOpen(o) /\ Among(orders, o) /\ o \notin pending
  BY <1>2 DEF IsOpen, Among, JournalInv, OrdersPlaced, OrdersOnce
<1>7. \A p : IsOpen(p)' => IsOpen(p) /\ p # o
  <2>1. ASSUME NEW k \in 1..Len(filling')
        PROVE  Among(filling, filling'[k]) /\ filling'[k] # o
    <3>1. k + 1 \in 1..Len(filling) /\ filling'[k] = filling[k + 1] /\ k + 1 # 1
      BY <1>3
    <3>2. filling[k + 1] # filling[1]
      BY <1>2, <3>1 DEF JournalInv, OrdersOnce
    <3> QED
      BY <1>2, <3>1, <3>2 DEF Among
  <2> QED
    BY <1>2, <1>6, <2>1 DEF IsOpen, Among
<1>8. \A p : IsOpen(p) /\ p # o => IsOpen(p)'
  <2>1. ASSUME NEW k \in 1..Len(filling), filling[k] # o
        PROVE  Among(filling', filling[k])
    <3>1. Len(filling) \in Nat /\ Len(filling') = Len(filling) - 1
      BY <1>1 DEF FillStep
    <3>2. k - 1 \in 1..Len(filling') /\ k - 1 + 1 = k
      BY <1>2, <2>1, <3>1
    <3>3. filling'[k - 1] = filling[k]
      BY <1>3, <3>2
    <3> QED
      BY <3>2, <3>3 DEF Among
  <2> QED
    BY <1>2, <2>1 DEF IsOpen, Among
<1>9. OneFillMore(Append(fills, f), fills, f)
  <2>1. /\ Len(Append(fills, f)) = Len(fills) + 1 /\ Len(fills) \in Nat
        /\ Append(fills, f)[Len(fills) + 1] = f
        /\ \A k \in 1..Len(fills) : Append(fills, f)[k] = fills[k]
    BY <1>2, <1>4, AppendProperties
  <2> QED
    BY <2>1 DEF OneFillMore
<1>10. /\ \A p : FilledIn(fills, p) => FilledIn(fills', p)
       /\ fills' = Append(fills, f) => FilledIn(fills', o)
  <2>1. CASE fills' = Append(fills, f)
    <3>1. /\ Len(fills) \in Nat /\ Len(fills') = Len(fills) + 1 /\ fills'[Len(fills) + 1] = f
          /\ \A k \in 1..Len(fills) : fills'[k] = fills[k]
      BY <1>9, <2>1 DEF OneFillMore
    <3>2. Len(fills) + 1 \in 1..Len(fills') /\ \A k \in 1..Len(fills) : k \in 1..Len(fills')
      BY <3>1
    <3> QED
      BY <1>2, <3>1, <3>2 DEF FilledIn
  <2>2. CASE fills' = fills
    <3>1. fills' # Append(fills, f)
      <4>1. Len(Append(fills, f)) # Len(fills)
        BY <1>9 DEF OneFillMore
      <4> QED
        BY <2>2, <4>1
    <3> QED
      BY <2>2, <3>1
  <2> QED
    BY <1>5, <2>1, <2>2
<1> SUFFICES ASSUME NEW i \in Instruments, OneByOne(i)'
             PROVE  (TimelyOrders(i) /\ TimelyTargets(i) /\ TradesAre(fills, i, position[i]))'
  BY DEF TimelyInv
<1>11. OneByOne(i)
  BY <1>2 DEF OneByOne
<1>12. TimelyOrders(i) /\ TimelyTargets(i) /\ TradesAre(fills, i, position[i])
  BY <1>11 DEF TimelyInv
<1>13. \A p \in pending' : p.instrument = i => p.bar.available \in upcoming'
  BY <1>2, <1>12 DEF TimelyOrders
<1>14. \A p, q \in Order : IsOpen(p)' /\ IsOpen(q)' /\ p.instrument = i /\ q.instrument = i => p = q
  BY <1>7, <1>12 DEF TimelyOrders
<1>15. \A n \in 1..Len(orders) : orders[n].instrument = i =>
          /\ orders[n].quantity = TargetQuantity
          /\ orders[n].side = "SELL" => decisions[orders[n].sequence].state.quantity = TargetQuantity
  BY <1>12 DEF TimelyTargets
<1>16. CASE i # o.instrument
  <2>1. position'[i] = position[i]
    BY <1>4, <1>5, <1>16
  <2>2. TimelyOrders(i)'
    <3>1. ASSUME NEW n \in 1..Len(orders), orders[n].instrument = i, orders[n].side = "SELL",
                 orders[n].bar # None
          PROVE  IsOpen(orders[n])' \/ FilledIn(fills', orders[n])
      <4>1. IsOpen(orders[n]) \/ FilledIn(fills, orders[n])
        BY <1>12, <3>1 DEF TimelyOrders
      <4>2. PICK p : p = orders[n] /\ p # o
        BY <1>16, <3>1
      <4>3. IsOpen(p)' \/ FilledIn(fills', p)
        BY <1>8, <1>10, <4>1, <4>2
      <4> QED
        BY <1>2, <4>2, <4>3
    <3> QED
      BY <1>2, <1>13, <1>14, <3>1 DEF TimelyOrders
  <2>3. TimelyTargets(i)'
    <3>1. \A p \in Order : IsOpen(p)' /\ p.instrument = i => (p.side = "BUY" <=> position'[i].quantity = 0)
      BY <1>7, <1>12, <2>1 DEF TimelyTargets
    <3> QED
      BY <1>2, <1>15, <3>1 DEF TimelyTargets
  <2>4. TradesAre(fills', i, position'[i])
    <3>1. TradesAre(Append(fills, f), i, position[i])
      BY <1>2, <1>4, <1>9, <1>12, <1>16, TradesOther
    <3> QED
      BY <1>5, <1>12, <2>1, <3>1
  <2> QED
    BY <2>2, <2>3, <2>4
<1>17. CASE i = o.instrument
  <2>1. \A p \in Order : IsOpen(p)' => p.instrument # i
    BY <1>2, <1>6, <1>7, <1>12, <1>17 DEF TimelyOrders
  <2>2. o.quantity = TargetQuantity
    <3>1. PICK n \in 1..Len(orders) : orders[n] = o
      BY <1>6 DEF Among
    <3> QED
      BY <1>15, <1>17, <3>1
  <2>3. o.side = "BUY" <=> position[i].quantity = 0
    BY <1>2, <1>6, <1>12, <1>17 DEF TimelyTargets
  <2>4. o.side \in {"BUY", "SELL"} /\ position[i] \in Position /\ TargetQuantity \in Nat \ {0}
    BY <1>2, <1>4, EngineConstants DEF Order
  <2>5. o.side = "SELL" => FilledIn(fills', o)
    <3> SUFFICES ASSUME o.side = "SELL"
                 PROVE  FilledIn(fills', o)
      OBVIOUS
    <3>1. position[i].quantity # 0
      BY <2>3
    <3>2. position[i].quantity = TargetQuantity
      BY <1>12, <3>1 DEF TradesAre
    <3>3. CanApply(o.instrument, f.economics)
      BY <1>2, <1>17, <2>2, <2>4, <3>2 DEF CanApply
    <3> QED
      BY <1>5, <1>10, <3>3
  <2>6. TimelyOrders(i)'
    <3>1. ASSUME NEW n \in 1..Len(orders), orders[n].instrument = i, orders[n].side = "SELL",
                 orders[n].bar # None
          PROVE  FilledIn(fills', orders[n])
      <4>1. IsOpen(orders[n]) \/ FilledIn(fills, orders[n])
        BY <1>12, <3>1 DEF TimelyOrders
      <4>2. orders[n] \in Order
        BY DEF EngineInv, TypeOK
      <4>3. CASE IsOpen(orders[n])
        <5>1. orders[n] = o
          BY <1>2, <1>6, <1>12, <1>17, <3>1, <4>2, <4>3 DEF TimelyOrders
        <5> QED
          BY <2>5, <3>1, <5>1
      <4> QED
        BY <1>10, <4>1, <4>3
    <3> QED
      BY <1>2, <1>13, <1>14, <3>1 DEF TimelyOrders
  <2>7. TimelyTargets(i)'
    BY <1>2, <1>15, <2>1 DEF TimelyTargets
  <2>8. TradesAre(fills', i, position'[i])
    <3>1. CASE /\ fills' = Append(fills, f)
               /\ position' = [position EXCEPT ![o.instrument] =
                                     ApplyFill(position[o.instrument], f.economics)]
      <4>1. position'[i] = ApplyFill(position[i], f.economics)
        BY <1>4, <1>17, <3>1
      <4>2. PICK state \in Position : state = position[i]
        BY <2>4
      <4>3. TradesAre(Append(fills, f), f.order.instrument, ApplyFill(state, f.economics))
        BY <1>2, <1>4, <1>12, <1>17, <2>2, <2>3, <2>4, <4>2, TradesTaken
      <4> QED
        BY <1>2, <1>17, <3>1, <4>1, <4>2, <4>3
    <3>2. CASE fills' = fills /\ position' = position
      BY <1>12, <3>2
    <3> QED
      BY <1>5, <3>1, <3>2
  <2> QED
    BY <2>6, <2>7, <2>8
<1> QED
  BY <1>16, <1>17

\* Taking a decision: its order is then the only one that is open.
LEMMA TimelyDecide ==
    ASSUME EngineInv, JournalInv, TimelyInv, Decide
    PROVE  TimelyInv'
<1>1. PICK event, taken, o, target : DecideStep(event, taken, o, target)
  BY DecideStepTaken
<1>2. PICK held : held = position[event.instrument].quantity
  OBVIOUS
<1>3. /\ data' = data /\ filling' = filling /\ fills' = fills /\ position' = position
      /\ filling = <<>> /\ deciding # <<>> /\ event = deciding[1] /\ 1 \in 1..Len(deciding)
      /\ event.instrument \in Instruments /\ taken.state = position[event.instrument]
      /\ target \in {0, TargetQuantity}
  BY <1>1 DEF DecideStep
<1>4. /\ decisions \in Seq(Decision) /\ orders \in Seq(Order) /\ now \in Nat /\ data \in Datasets
      /\ Len(decisions) \in Nat /\ Len(orders) \in Nat /\ upcoming \subseteq Nat
  BY DEF EngineInv, TypeOK
<1>5. /\ Len(decisions') = Len(decisions) + 1 /\ decisions'[Len(decisions) + 1] = taken
      /\ \A n \in 1..Len(decisions) : decisions'[n] = decisions[n]
  <2>1. decisions' = Append(decisions, taken) /\ taken \in Decision
    BY <1>1 DEF DecideStep
  <2> QED
    BY <1>4, <2>1, AppendProperties
<1>6. event \in DecisionEvents(data, now)
  BY <1>3 DEF JournalInv, EventsAhead
<1> DEFINE Placed == OrderFor(o, Len(decisions) + 1, event, held, target)
<1>7. \/ orders' = orders /\ pending' = pending /\ upcoming' = upcoming
      \/ /\ Placed /\ target # held /\ orders' = Append(orders, o)
         /\ \/ o.bar = None /\ pending' = pending /\ upcoming' = upcoming
            \/ o.bar # None /\ pending' = pending \cup {o} /\ upcoming' = Schedule(o.bar)
  BY <1>1, <1>2 DEF DecideStep
<1>8. ASSUME Placed
      PROVE  /\ o \in Order /\ o.sequence = Len(decisions) + 1 /\ o.submitted_at = now
             /\ o.instrument = event.instrument /\ MadeOn(o, data)
             /\ o.side = (IF target > held THEN "BUY" ELSE "SELL")
             /\ o.quantity = (IF target > held THEN target - held ELSE held - target)
  BY <1>6, <1>8, OrderPlaced DEF OrderFor
<1> HIDE DEF Placed
<1>9. \/ orders' = orders /\ pending' = pending /\ upcoming' = upcoming
      \/ /\ Placed /\ target # held
         /\ Len(orders') = Len(orders) + 1 /\ orders'[Len(orders) + 1] = o
         /\ \A n \in 1..Len(orders) : orders'[n] = orders[n]
         /\ \/ o.bar = None /\ pending' = pending /\ upcoming' = upcoming
            \/ o.bar # None /\ pending' = pending \cup {o} /\ upcoming' = Schedule(o.bar)
  BY <1>4, <1>7, <1>8, AppendProperties
<1>10. \A n \in 1..Len(orders') : \/ n \in 1..Len(orders) /\ orders'[n] = orders[n]
                                  \/ orders'[n] = o /\ Placed /\ target # held /\ orders' # orders
  BY <1>4, <1>9
<1>11. upcoming \subseteq upcoming'
  BY <1>9 DEF Schedule
<1>12. \A p \in pending' : \/ p \in pending
                           \/ /\ p = o /\ Placed /\ target # held /\ o.bar # None
                              /\ upcoming' = Schedule(o.bar)
  BY <1>9
<1>13. \A p : ~Among(filling, p)
  BY <1>3 DEF Among
<1>14. \A p : IsOpen(p) => IsOpen(p)'
  BY <1>3, <1>9 DEF IsOpen
<1>15. \A p : IsOpen(p)' => IsOpen(p) \/ (p = o /\ Placed /\ target # held)
  BY <1>3, <1>12, <1>13 DEF IsOpen
<1>16. Placed /\ orders' # orders /\ o.bar # None => IsOpen(o)'
  BY <1>7 DEF IsOpen
<1> SUFFICES ASSUME NEW i \in Instruments, OneByOne(i)'
             PROVE  (TimelyOrders(i) /\ TimelyTargets(i) /\ TradesAre(fills, i, position[i]))'
  BY DEF TimelyInv
<1>17. OneByOne(i)
  BY <1>3 DEF OneByOne
<1>18. TimelyOrders(i) /\ TimelyTargets(i) /\ TradesAre(fills, i, position[i])
  BY <1>17 DEF TimelyInv
<1>19. ASSUME NEW n \in 1..Len(orders), orders[n].instrument = i
       PROVE  /\ orders[n].quantity = TargetQuantity
              /\ orders[n].side = "SELL" =>
                    decisions'[orders[n].sequence].state.quantity = TargetQuantity
  <2>1. Among(orders, orders[n])
    BY DEF Among
  <2>2. orders[n] \in Order /\ orders[n].sequence <= Len(decisions)
    BY <2>1, OrderInJournal
  <2>3. orders[n].sequence \in 1..Len(decisions)
    BY <2>2, <1>4 DEF Order
  <2> QED
    BY <1>5, <1>18, <1>19, <2>3 DEF TimelyTargets
<1>20. ASSUME NEW n \in 1..Len(orders), orders[n].instrument = i, orders[n].side = "SELL",
              orders[n].bar # None
       PROVE  \E p : p = orders[n] /\ (IsOpen(p)' \/ FilledIn(fills', p))
  <2>1. PICK p : p = orders[n]
    OBVIOUS
  <2>2. IsOpen(p) \/ FilledIn(fills, p)
    BY <1>18, <1>20, <2>1 DEF TimelyOrders
  <2> QED
    BY <1>3, <1>14, <2>1, <2>2
<1>21. CASE i # event.instrument
  <2>1. Placed => o.instrument # i
    BY <1>8, <1>21
  <2>2. \A p : IsOpen(p)' /\ p.instrument = i => IsOpen(p)
    BY <1>15, <2>1
  <2>3. \A n \in 1..Len(orders') : orders'[n].instrument = i =>
           n \in 1..Len(orders) /\ orders'[n] = orders[n]
    BY <1>10, <2>1
  <2>4. TimelyOrders(i)'
    <3>1. \A p \in pending' : p.instrument = i => p.bar.available \in upcoming'
      BY <1>11, <1>12, <1>18, <2>1 DEF TimelyOrders
    <3>2. \A p, q \in Order : IsOpen(p)' /\ IsOpen(q)' /\ p.instrument = i /\ q.instrument = i => p = q
      BY <1>18, <2>2 DEF TimelyOrders
    <3>3. ASSUME NEW n \in 1..Len(orders'), orders'[n].instrument = i, orders'[n].side = "SELL",
                 orders'[n].bar # None
          PROVE  IsOpen(orders[n])' \/ FilledIn(fills', orders'[n])
      BY <1>20, <2>3, <3>3
    <3> QED
      BY <3>1, <3>2, <3>3 DEF TimelyOrders
  <2>5. TimelyTargets(i)'
    <3>1. \A n \in 1..Len(orders') : orders'[n].instrument = i =>
             /\ orders'[n].quantity = TargetQuantity
             /\ orders'[n].side = "SELL" =>
                   decisions'[orders'[n].sequence].state.quantity = TargetQuantity
      BY <1>19, <2>3
    <3>2. \A p \in Order : IsOpen(p)' /\ p.instrument = i => (p.side = "BUY" <=> position[i].quantity = 0)
      BY <1>18, <2>2 DEF TimelyTargets
    <3> QED
      BY <1>3, <3>1, <3>2 DEF TimelyTargets
  <2> QED
    BY <1>3, <1>18, <2>4, <2>5
<1>22. CASE i = event.instrument
  <2>1. \A p : IsOpen(p) => p.instrument # i
    BY <1>3, <1>6, <1>17, <1>18, <1>22, AloneAtDecision
  <2>2. \A p : IsOpen(p)' /\ p.instrument = i => p = o /\ Placed /\ target # held
    BY <1>15, <2>1
  <2>3. held \in {0, TargetQuantity} /\ TargetQuantity \in Nat \ {0} /\ held = position[i].quantity
    BY <1>2, <1>18, <1>22, EngineConstants DEF TradesAre
  <2>4. ASSUME Placed, target # held
        PROVE  /\ o.quantity = TargetQuantity
               /\ o.side = "BUY" <=> held = 0
               /\ o.side = "SELL" => held = TargetQuantity
    <3>1. CASE held = 0
      <4>1. target = TargetQuantity /\ target > held /\ target - held = TargetQuantity
        BY <1>3, <2>3, <2>4, <3>1
      <4> QED
        BY <1>8, <2>3, <2>4, <3>1, <4>1
    <3>2. CASE held = TargetQuantity
      <4>1. target = 0 /\ ~(target > held) /\ held - target = TargetQuantity
        BY <1>3, <2>3, <2>4, <3>2
      <4> QED
        BY <1>8, <2>3, <2>4, <3>2, <4>1
    <3> QED
      BY <2>3, <3>1, <3>2
  <2>5. TimelyOrders(i)'
    <3>1. ASSUME NEW p \in pending', p.instrument = i
          PROVE  p.bar.available \in upcoming'
      <4>1. ~(p \in pending)
        BY <2>1, <3>1 DEF IsOpen
      <4>2. p = o /\ Placed /\ o.bar # None /\ upcoming' = Schedule(o.bar)
        BY <1>12, <4>1
      <4>3. o \in Order /\ o.submitted_at = now /\ o.instrument = i /\ MadeOn(o, data)
        BY <1>8, <1>22, <4>2
      <4>4. Punctual(data, o.instrument)
        BY <1>17, <4>3 DEF OneByOne, Punctual
      <4>5. o.bar.available > now
        BY <1>4, <4>2, <4>3, <4>4, InTime
      <4> QED
        BY <1>4, <4>2, <4>5 DEF Schedule
    <3>2. \A p, q \in Order : IsOpen(p)' /\ IsOpen(q)' /\ p.instrument = i /\ q.instrument = i => p = q
      BY <2>2
    <3>3. ASSUME NEW n \in 1..Len(orders'), orders'[n].instrument = i, orders'[n].side = "SELL",
                 orders'[n].bar # None
          PROVE  IsOpen(orders[n])' \/ FilledIn(fills', orders'[n])
      <4>1. CASE n \in 1..Len(orders) /\ orders'[n] = orders[n]
        BY <1>20, <3>3, <4>1
      <4>2. CASE orders'[n] = o /\ Placed /\ orders' # orders
        BY <1>16, <3>3, <4>2
      <4> QED
        BY <1>10, <4>1, <4>2
    <3> QED
      BY <3>1, <3>2, <3>3 DEF TimelyOrders
  <2>6. TimelyTargets(i)'
    <3>1. ASSUME NEW n \in 1..Len(orders'), orders'[n].instrument = i
          PROVE  /\ orders'[n].quantity = TargetQuantity
                 /\ orders'[n].side = "SELL" =>
                       decisions'[orders'[n].sequence].state.quantity = TargetQuantity
      <4>1. CASE n \in 1..Len(orders) /\ orders'[n] = orders[n]
        BY <1>19, <3>1, <4>1
      <4>2. CASE orders'[n] = o /\ Placed /\ target # held
        <5>1. decisions'[o.sequence].state.quantity = held
          BY <1>2, <1>3, <1>5, <1>8, <4>2
        <5> QED
          BY <2>4, <4>2, <5>1
      <4> QED
        BY <1>10, <4>1, <4>2
    <3>2. \A p \in Order : IsOpen(p)' /\ p.instrument = i => (p.side = "BUY" <=> position[i].quantity = 0)
      BY <2>2, <2>3, <2>4
    <3> QED
      BY <1>3, <3>1, <3>2 DEF TimelyTargets
  <2> QED
    BY <1>3, <1>18, <2>5, <2>6
<1> QED
  BY <1>21, <1>22

\* Steps that leave the orders alone.
LEMMA TimelySame ==
    ASSUME TimelyInv, data' = data, upcoming' = upcoming, filling' = filling, pending' = pending,
           position' = position, decisions' = decisions, orders' = orders, fills' = fills
    PROVE  TimelyInv'
<1>1. \A p : IsOpen(p)' <=> IsOpen(p)
  BY DEF IsOpen
<1> SUFFICES ASSUME NEW i \in Instruments, OneByOne(i)'
             PROVE  (TimelyOrders(i) /\ TimelyTargets(i) /\ TradesAre(fills, i, position[i]))'
  BY DEF TimelyInv
<1>2. OneByOne(i)
  BY DEF OneByOne
<1>3. TimelyOrders(i) /\ TimelyTargets(i) /\ TradesAre(fills, i, position[i])
  BY <1>2 DEF TimelyInv
<1>4. TimelyOrders(i)'
  BY <1>1, <1>3 DEF TimelyOrders
<1>5. TimelyTargets(i)'
  BY <1>1, <1>3 DEF TimelyTargets
<1> QED
  BY <1>3, <1>4, <1>5

\* Where the bars of an instrument become visible one by one, its orders are made,
\* tried and turned into trades one after the other, each for the whole target
\* (simulate, sizing and pending orders).
THEOREM TimelyKept == Spec => []TimelyInv
<1>1. EngineInv /\ JournalInv /\ TimelyInv /\ [Next]_vars => TimelyInv'
  <2> SUFFICES ASSUME EngineInv, JournalInv, TimelyInv, [Next]_vars
               PROVE  TimelyInv'
    OBVIOUS
  <2>1. CASE NextInstant
    BY <2>1, TimelyNextInstant
  <2>2. CASE FillOrder
    BY <2>2, TimelyFillOrder
  <2>3. CASE Decide
    BY <2>3, TimelyDecide
  <2>4. CASE ValuePositions
    BY <2>4, TimelySame DEF ValuePositions
  <2>5. CASE UNCHANGED vars
    BY <2>5, TimelySame DEF vars
  <2> QED
    BY <2>1, <2>2, <2>3, <2>4, <2>5 DEF Next
<1> QED
  BY <1>1, TimelyBegin, EngineInvariant, JournalKept, PTL DEF Spec

-----------------------------------------------------------------------------
(* The cash entries add up *)

\* The entries of the earlier fills stay, and those of the new one have new keys.
LEMMA EntriesGrow ==
    ASSUME NEW gs, NEW fs, NEW f, OneFillMore(gs, fs, f)
    PROVE  /\ Entries(gs) = Entries(fs) \cup EntriesIn(gs, Len(fs) + 1)
           /\ \A x \in Entries(fs) : x.key[1] # Len(fs) + 1
<1>1. PICK n \in Nat : n = Len(fs)
  BY DEF OneFillMore
<1>2. Len(gs) = n + 1 /\ gs[n + 1] = f /\ \A k \in 1..n : gs[k] = fs[k]
  BY <1>1 DEF OneFillMore
<1>3. ASSUME NEW k \in 1..n
      PROVE  EntriesIn(gs, k) = EntriesIn(fs, k)
  <2>1. gs[k] = fs[k]
    BY <1>2
  <2> QED
    BY <2>1 DEF EntriesIn
<1>4. \A x : x \in Entries(gs) <=> \E k \in 1..(n + 1) : x \in EntriesIn(gs, k)
  BY <1>2 DEF Entries
<1>5. \A x : x \in Entries(fs) <=> \E k \in 1..n : x \in EntriesIn(fs, k)
  BY <1>1 DEF Entries
<1>6. \A k \in 1..(n + 1) : k \in 1..n \/ k = n + 1
  OBVIOUS
<1>7. n + 1 \in 1..(n + 1) /\ \A k \in 1..n : k \in 1..(n + 1) /\ k # n + 1
  OBVIOUS
<1>8. \A x : x \in Entries(gs) <=> x \in Entries(fs) \/ x \in EntriesIn(gs, n + 1)
  BY <1>3, <1>4, <1>5, <1>6, <1>7
<1>9. ASSUME NEW x \in Entries(fs)
      PROVE  x.key[1] # n + 1
  <2>1. PICK k \in 1..n : x \in EntriesIn(fs, k)
    BY <1>5
  <2>2. x.key[1] = k
    BY <2>1 DEF EntriesIn
  <2> QED
    BY <1>7, <2>2
<1> QED
  BY <1>1, <1>8, <1>9

\* The two or three entries of a fill.
Booking(k, kind, ts, amount) == [key |-> <<k, kind>>, ts |-> ts, amount |-> amount]

\* They add up to what it does to the cash.
LEMMA EntriesAdded ==
    ASSUME NEW gs, NEW fs, NEW f \in Fill, OneFillMore(gs, fs, f),
           Summable(Amounts(Entries(fs)), Entries(fs))
    PROVE  /\ Summable(Amounts(Entries(gs)), Entries(gs))
           /\ SumOf(Amounts(Entries(gs)), Entries(gs))
                = SumOf(Amounts(Entries(fs)), Entries(fs)) + CashDelta(f.economics)
<1>1. PICK n, e : n = Len(fs) + 1 /\ e = f.economics /\ e \in Economics
  BY DEF Fill
<1>2. gs[n] = f
  BY <1>1 DEF OneFillMore
<1>3. /\ e.notional \in Int /\ e.commission \in Int /\ e.tax \in Int /\ e.side \in {"BUY", "SELL"}
  BY <1>1, AmountTypes DEF Economics
<1>4. PICK a : a = Booking(n, "notional", f.ts, (IF e.side = "BUY" THEN -1 ELSE 1) * e.notional)
  OBVIOUS
<1>5. PICK b : b = Booking(n, "commission", f.ts, -e.commission)
  OBVIOUS
<1>6. PICK c : c = Booking(n, "tax", f.ts, -e.tax)
  OBVIOUS
<1>7. EntriesIn(gs, n) = {a, b} \cup {c : x \in IF e.tax # 0 THEN {1} ELSE {}}
  BY <1>1, <1>2, <1>4, <1>5, <1>6 DEF EntriesIn, Booking
<1>8. EntriesIn(gs, n) = {a, b} \cup (IF e.tax # 0 THEN {c} ELSE {})
  BY <1>7
<1>9. /\ a.key = <<n, "notional">> /\ b.key = <<n, "commission">> /\ c.key = <<n, "tax">>
      /\ a.amount = (IF e.side = "BUY" THEN -1 ELSE 1) * e.notional
      /\ b.amount = -e.commission /\ c.amount = -e.tax
  BY <1>4, <1>5, <1>6 DEF Booking
<1>10. a # b /\ a # c /\ b # c /\ a.key[1] = n /\ b.key[1] = n /\ c.key[1] = n
  BY <1>9
<1>11. a.amount \in Int /\ b.amount \in Int /\ c.amount \in Int
  BY <1>3, <1>9
<1>12. PICK V : V = Entries(fs)
  OBVIOUS
<1>13. a \notin V /\ b \notin V /\ c \notin V
  BY <1>1, <1>10, <1>12, EntriesGrow
<1>14. PICK U : U = V \cup {a} \cup {b} \cup {c}
  OBVIOUS
<1>15. \A x \in U : Amounts(U)[x] = x.amount
  BY DEF Amounts
<1>16. PICK g : g = Amounts(U)
  OBVIOUS
<1>17. /\ g[a] = a.amount /\ g[b] = b.amount /\ g[c] = c.amount
       /\ \A x \in V : g[x] = x.amount
  BY <1>14, <1>15, <1>16
<1>18. Summable(g, V) /\ SumOf(g, V) = SumOf(Amounts(V), V)
  <2>1. Summable(Amounts(V), V)
    BY <1>12
  <2>2. \A x \in V : Amounts(V)[x] = g[x]
    BY <1>17 DEF Amounts
  <2>3. Summable(g, V)
    BY <2>1, <2>2 DEF Summable
  <2>4. PICK h : h = Amounts(V)
    OBVIOUS
  <2>5. SumOf(h, V) = SumOf(g, V)
    BY <2>1, <2>2, <2>4, SumOfEqual
  <2> QED
    BY <2>3, <2>4, <2>5
<1>19. PICK A, B, C : A = V \cup {a} /\ B = A \cup {b} /\ C = B \cup {c}
  OBVIOUS
<1>20. Summable(g, A) /\ SumOf(g, A) = SumOf(g, V) + a.amount
  <2>1. g[a] \in Int
    BY <1>11, <1>17
  <2>2. SumOf(g, A) = SumOf(g, V) + g[a]
    BY <1>13, <1>18, <1>19, <2>1, SumOfExtend
  <2>3. IsFiniteSet(A)
    BY <1>18, <1>19, FS_AddElement DEF Summable
  <2> QED
    BY <1>17, <1>18, <1>19, <2>1, <2>2, <2>3 DEF Summable
<1>21. Summable(g, B) /\ SumOf(g, B) = SumOf(g, A) + b.amount
  <2>1. g[b] \in Int /\ b \notin A
    BY <1>10, <1>11, <1>13, <1>17, <1>19
  <2>2. SumOf(g, B) = SumOf(g, A) + g[b]
    BY <1>19, <1>20, <2>1, SumOfExtend
  <2>3. IsFiniteSet(B)
    BY <1>20, <1>19, FS_AddElement DEF Summable
  <2> QED
    BY <1>17, <1>19, <1>20, <2>1, <2>2, <2>3 DEF Summable
<1>22. Summable(g, C) /\ SumOf(g, C) = SumOf(g, B) + c.amount
  <2>1. g[c] \in Int /\ c \notin B
    BY <1>10, <1>11, <1>13, <1>17, <1>19
  <2>2. SumOf(g, C) = SumOf(g, B) + g[c]
    BY <1>19, <1>21, <2>1, SumOfExtend
  <2>3. IsFiniteSet(C)
    BY <1>21, <1>19, FS_AddElement DEF Summable
  <2> QED
    BY <1>17, <1>19, <1>21, <2>1, <2>2, <2>3 DEF Summable
<1>23. SumOf(g, V) \in Int
  BY <1>18, SumOfInt
<1>24. PICK W : W = Entries(gs) /\ W = (IF e.tax # 0 THEN C ELSE B)
  <2>1. Entries(gs) = V \cup ({a, b} \cup (IF e.tax # 0 THEN {c} ELSE {}))
    BY <1>1, <1>8, <1>12, EntriesGrow
  <2>2. Entries(gs) = IF e.tax # 0 THEN C ELSE B
    BY <1>19, <2>1
  <2> QED
    BY <2>2
<1>25. CashDelta(e) = IF e.side = "BUY" THEN -(e.notional + e.commission + e.tax)
                      ELSE e.notional - e.commission - e.tax
  BY DEF CashDelta
<1>26. SumOf(g, W) = SumOf(g, V) + CashDelta(e) /\ Summable(g, W)
  <2>1. PICK s \in Int : s = SumOf(g, V)
    BY <1>23
  <2>2. SumOf(g, B) = s + a.amount + b.amount
    BY <1>20, <1>21, <2>1
  <2>3. SumOf(g, C) = s + a.amount + b.amount + c.amount
    BY <1>22, <2>2
  <2>4. a.amount + b.amount + c.amount = CashDelta(e)
    BY <1>3, <1>9, <1>25
  <2>5. CASE e.tax # 0
    <3>1. s + a.amount + b.amount + c.amount = s + (a.amount + b.amount + c.amount)
      BY <1>11, <2>1
    <3> QED
      BY <1>22, <1>24, <2>1, <2>3, <2>4, <2>5, <3>1
  <2>6. CASE e.tax = 0
    <3>1. s + a.amount + b.amount = s + (a.amount + b.amount + c.amount)
      BY <1>9, <1>11, <2>1, <2>6
    <3> QED
      BY <1>21, <1>24, <2>1, <2>2, <2>4, <2>6, <3>1
  <2> QED
    BY <2>5, <2>6
<1>27. PICK h : h = Amounts(W) /\ \A x \in W : h[x] = g[x]
  <2>1. W \subseteq U
    BY <1>14, <1>19, <1>24
  <2>2. \A x \in W : Amounts(W)[x] = x.amount
    BY DEF Amounts
  <2> QED
    BY <1>15, <1>16, <2>1, <2>2
<1>28. Summable(h, W) /\ SumOf(h, W) = SumOf(g, W)
  <2>1. Summable(h, W)
    BY <1>26, <1>27 DEF Summable
  <2> QED
    BY <1>27, <2>1, SumOfEqual
<1> QED
  BY <1>1, <1>12, <1>18, <1>24, <1>26, <1>27, <1>28

\* Cash is the initial capital and the entries that the fills so far would be booked
\* with (cash_ledger against LongOnlyPortfolio.cash).
THEOREM CashIsBooked == Spec => []CashBooked
<1>1. Init => CashBooked
  <2> SUFFICES ASSUME Init
               PROVE  CashBooked
    OBVIOUS
  <2>1. fills = <<>> /\ cash = InitialCapital /\ InitialCapital \in Int
    BY EngineConstants DEF Init
  <2>2. PICK V : V = Entries(fills) /\ V = {}
    <3>1. Len(fills) = 0
      BY <2>1
    <3> QED
      BY <3>1 DEF Entries
  <2>3. PICK g : g = Amounts(V)
    OBVIOUS
  <2>4. Summable(g, V)
    BY <2>2, FS_EmptySet DEF Summable
  <2>5. SumOf(g, V) = 0
    BY <2>2, <2>4, SumOfInt
  <2>6. cash = InitialCapital + 0
    BY <2>1
  <2>7. cash = InitialCapital + SumOf(Amounts(Entries(fills)), Entries(fills))
    BY <2>2, <2>3, <2>5, <2>6
  <2>8. Summable(Amounts(Entries(fills)), Entries(fills))
    BY <2>2, <2>3, <2>4
  <2> QED
    BY <2>7, <2>8 DEF CashBooked
<1>2. EngineInv /\ CashBooked /\ [Next]_vars => CashBooked'
  <2> SUFFICES ASSUME EngineInv, CashBooked, [Next]_vars
               PROVE  CashBooked'
    OBVIOUS
  <2>1. CASE cash' = cash /\ fills' = fills
    BY <2>1 DEF CashBooked
  <2>2. CASE FillOrder
    <3>1. PICK o, f : FillStep(o, f)
      BY <2>2, FillOrderStep
    <3>2. CASE cash' = cash + CashDelta(f.economics) /\ fills' = Append(fills, f)
      <4>1. fills \in Seq(Fill) /\ cash \in Int /\ f \in Fill /\ CashDelta(f.economics) \in Int
            /\ InitialCapital \in Int
        BY <3>1, EngineConstants, AmountTypes DEF EngineInv, TypeOK, FillStep
      <4>2. PICK gs : gs = fills'
        OBVIOUS
      <4>3. OneFillMore(gs, fills, f)
        <5>1. /\ Len(Append(fills, f)) = Len(fills) + 1 /\ Len(fills) \in Nat
              /\ Append(fills, f)[Len(fills) + 1] = f
              /\ \A k \in 1..Len(fills) : Append(fills, f)[k] = fills[k]
          BY <4>1, AppendProperties
        <5> QED
          BY <3>2, <4>2, <5>1 DEF OneFillMore
      <4>4. /\ Summable(Amounts(Entries(fills)), Entries(fills))
            /\ cash = InitialCapital + SumOf(Amounts(Entries(fills)), Entries(fills))
        BY DEF CashBooked
      <4>5. /\ Summable(Amounts(Entries(gs)), Entries(gs))
            /\ SumOf(Amounts(Entries(gs)), Entries(gs))
                 = SumOf(Amounts(Entries(fills)), Entries(fills)) + CashDelta(f.economics)
        BY <4>1, <4>3, <4>4, EntriesAdded
      <4>6. PICK s \in Int : s = SumOf(Amounts(Entries(fills)), Entries(fills))
        <5>1. PICK h, V : h = Amounts(Entries(fills)) /\ V = Entries(fills)
          OBVIOUS
        <5>2. SumOf(h, V) \in Int
          BY <4>4, <5>1, SumOfInt
        <5> QED
          BY <5>1, <5>2
      <4>7. (InitialCapital + s) + CashDelta(f.economics) = InitialCapital + (s + CashDelta(f.economics))
        BY <4>1, <4>6
      <4>8. cash' = InitialCapital + SumOf(Amounts(Entries(gs)), Entries(gs))
        BY <3>2, <4>4, <4>5, <4>6, <4>7
      <4> QED
        BY <4>2, <4>5, <4>8 DEF CashBooked
    <3>3. CASE cash' = cash /\ fills' = fills
      BY <2>1, <3>3
    <3> QED
      BY <3>1, <3>2, <3>3 DEF FillStep
  <2>3. NextInstant \/ Decide \/ ValuePositions \/ UNCHANGED vars => cash' = cash /\ fills' = fills
    BY DEF NextInstant, Decide, ValuePositions, vars
  <2> QED
    BY <2>1, <2>2, <2>3 DEF Next
<1> QED
  BY <1>1, <1>2, EngineInvariant, PTL DEF Spec

-----------------------------------------------------------------------------
(* What the database makes of a simulation *)

\* The sum of one number.
LEMMA SumOfOne ==
    ASSUME NEW g, NEW j, g[j] \in Int
    PROVE  Summable(g, {j}) /\ SumOf(g, {j}) = g[j]
<1>1. PICK V : V = {}
  OBVIOUS
<1>2. Summable(g, V) /\ j \notin V
  BY <1>1, FS_EmptySet DEF Summable
<1>3. SumOf(g, V) = 0
  BY <1>1, <1>2, SumOfInt
<1>4. SumOf(g, V \cup {j}) = SumOf(g, V) + g[j]
  BY <1>2, SumOfExtend
<1>5. V \cup {j} = {j}
  BY <1>1
<1>6. SumOf(g, {j}) = 0 + g[j]
  BY <1>3, <1>4, <1>5
<1>7. Summable(g, {j})
  BY FS_Singleton DEF Summable
<1> QED
  BY <1>6, <1>7

\* The quantities of fills, and their sum as MapThenSumSet forms it.
Quantities(fs) == [k \in 1..Len(fs) |-> fs[k].economics.quantity]
AddsQuantities(F, fs, V) ==
    F = [T \in SUBSET V |->
           IF T = {} THEN 0 ELSE fs[Chosen(T)].economics.quantity + F[T \ {Chosen(T)}]]

\* It is the sum of the quantities.
LEMMA QuantitySums ==
    ASSUME NEW fs \in Seq(Fill), NEW V \in SUBSET (1..Len(fs))
    PROVE  /\ Summable(Quantities(fs), V)
           /\ (CHOOSE F : AddsQuantities(F, fs, V))[V] = SumOf(Quantities(fs), V)
<1>0. \A k \in 1..Len(fs) : Quantities(fs)[k] = fs[k].economics.quantity
  BY DEF Quantities
<1>1. PICK g : g = Quantities(fs) /\ \A k \in 1..Len(fs) : g[k] = fs[k].economics.quantity
  BY <1>0
<1>2. Summable(g, V)
  <2>1. IsFiniteSet(V)
    <3>1. Len(fs) \in Nat /\ IsFiniteSet(1..Len(fs))
      BY FS_Interval
    <3> QED
      BY <3>1, FS_Subset
  <2>2. ASSUME NEW k \in V
        PROVE  g[k] \in Int
    <3>1. fs[k] \in Fill /\ k \in 1..Len(fs)
      OBVIOUS
    <3>2. fs[k].economics \in Economics
      BY <3>1 DEF Fill
    <3>3. fs[k].economics.quantity \in Int
      BY <3>2 DEF Economics
    <3> QED
      BY <1>1, <3>1, <3>3
  <2> QED
    BY <2>1, <2>2 DEF Summable
<1>3. \A T \in SUBSET V : T # {} => g[Chosen(T)] = fs[Chosen(T)].economics.quantity
  BY <1>1 DEF Chosen
<1>4. \A F : AddsQuantities(F, fs, V) <=> SumsUp(F, g, V)
  BY <1>3 DEF AddsQuantities, SumsUp
<1>5. SumsUp(CHOOSE F : AddsQuantities(F, fs, V), g, V)
  <2>1. \E F : SumsUp(F, g, V)
    BY <1>2, SumOfDef
  <2>2. AddsQuantities(CHOOSE F : AddsQuantities(F, fs, V), fs, V)
    BY <1>4, <2>1
  <2> QED
    BY <1>4, <2>2
<1>6. (CHOOSE F : AddsQuantities(F, fs, V))[V] = SumOf(g, V)
  BY <1>2, <1>5, SumOfAny
<1> QED
  BY <1>1, <1>2, <1>6

\* A fill is typed, is for the quantity of its order and not before it.
LEMMA FillOfOrder ==
    ASSUME EngineInv, JournalInv, NEW k \in 1..Len(fills)
    PROVE  /\ fills[k] \in Fill /\ fills[k].order \in Order /\ fills[k].economics \in Economics
           /\ fills[k].economics.quantity = fills[k].order.quantity
           /\ fills[k].economics.side = fills[k].order.side
           /\ fills[k].order.bar # None /\ fills[k].ts = fills[k].order.bar.available
           /\ fills[k].order.instrument \in Instruments
           /\ fills[k].ts >= fills[k].order.submitted_at
<1>1. PICK f, o : f = fills[k] /\ o = f.order
  OBVIOUS
<1>2. f \in Fill /\ o \in Order /\ f.economics \in Economics
  <2>1. f \in Fill
    BY <1>1 DEF EngineInv, TypeOK
  <2> QED
    BY <1>1, <2>1 DEF Fill
<1>3. FillOf(f) /\ Among(orders, o)
  BY <1>1 DEF JournalInv, FillsPriced, OrdersPlaced
<1>4. f.economics.quantity = o.quantity /\ f.economics.side = o.side
  <2>1. f.economics = PriceFill(o.side, o.quantity, o.bar.close)
    BY <1>1, <1>3 DEF FillOf
  <2> QED
    BY <2>1 DEF PriceFill
<1>5. o.bar # None /\ f.ts = o.bar.available
  BY <1>1, <1>3 DEF FillOf
<1>6. o.instrument \in Instruments /\ MadeOn(o, data) /\ o.submitted_at \in Nat
  BY <1>3, OrderInJournal
<1>7. f.ts >= o.submitted_at
  <2>1. PICK rows : rows = data["execution"][o.instrument]
    OBVIOUS
  <2>2. PICK lag \in Nat : lag = Lag[o.instrument]
    BY <1>6, EngineConstants
  <2>3. o.bar \in NextExecutionBar(rows, o.trigger.open, o.submitted_at, lag)
    BY <1>5, <1>6, <2>1, <2>2 DEF MadeOn
  <2>4. Component(rows)
    BY <1>6, <2>1, DatasetRows DEF EngineInv, Role
  <2>5. o.bar \in rows /\ o.bar.available >= o.submitted_at + lag
    BY <2>3, <2>4, NextExecutionRow
  <2>6. o.bar.available \in Nat
    BY <2>4, <2>5 DEF Component, Bar
  <2> QED
    BY <1>5, <1>6, <2>2, <2>5, <2>6
<1> QED
  BY <1>1, <1>2, <1>4, <1>5, <1>6, <1>7

\* validate_order_fill_totals finds nothing.
LEMMA OrdersTotal ==
    ASSUME EngineInv, JournalInv, NEW n \in 1..Len(orders)
    PROVE  OrderTotals(orders[n])
<1>1. PICK o, V : o = orders[n] /\ V = FillsOf(o)
  OBVIOUS
<1>2. fills \in Seq(Fill) /\ DOMAIN fills = 1..Len(fills)
  BY DEF EngineInv, TypeOK
<1>3. V = {k \in 1..Len(fills) : fills[k].order = o}
  BY <1>1, <1>2 DEF FillsOf
<1>4. V \in SUBSET (1..Len(fills))
  BY <1>3
<1>5. o.quantity \in Nat \ {0}
  <2>1. o \in Order
    BY <1>1 DEF EngineInv, TypeOK
  <2> QED
    BY <2>1 DEF Order
<1>6. PICK filled : filled = MapThenSumSet(LAMBDA k : fills[k].economics.quantity, V)
  OBVIOUS
<1>7. filled = SumOf(Quantities(fills), V)
  <2>1. MapThenSumSet(LAMBDA k : fills[k].economics.quantity, V)
          = (CHOOSE F : AddsQuantities(F, fills, V))[V]
    BY DEF MapThenSumSet, MapThenFoldSet, AddsQuantities, Chosen
  <2>2. (CHOOSE F : AddsQuantities(F, fills, V))[V] = SumOf(Quantities(fills), V)
    BY <1>2, <1>4, QuantitySums
  <2> QED
    BY <1>6, <2>1, <2>2
<1>8. \A j, k \in V : j = k
  BY <1>3 DEF JournalInv, OrdersOnce
<1>9. \A k \in V : fills[k].ts >= o.submitted_at /\ fills[k].economics.quantity = o.quantity
  BY <1>3, FillOfOrder
<1>10. /\ V = {} => filled = 0
       /\ V # {} => filled = o.quantity
  <2>0. \A k \in 1..Len(fills) : Quantities(fills)[k] = fills[k].economics.quantity
    BY DEF Quantities
  <2>1. PICK g : g = Quantities(fills) /\ \A k \in 1..Len(fills) : g[k] = fills[k].economics.quantity
    BY <2>0
  <2>2. Summable(g, V)
    BY <1>2, <1>4, <2>1, QuantitySums
  <2>3. CASE V = {}
    <3>1. SumOf(g, V) = 0
      BY <2>2, <2>3, SumOfInt
    <3> QED
      BY <1>7, <2>1, <2>3, <3>1
  <2>4. CASE V # {}
    <3>1. PICK k \in V : V = {k}
      BY <1>8, <2>4
    <3>2. g[k] = o.quantity /\ g[k] \in Int
      BY <1>4, <1>5, <1>9, <2>1
    <3>3. SumOf(g, {k}) = g[k]
      BY <3>2, SumOfOne
    <3> QED
      BY <1>7, <2>1, <2>4, <3>1, <3>2, <3>3
  <2> QED
    BY <2>3, <2>4
<1>11. OrderStatus(o) = IF V # {} THEN "FILLED" ELSE "REJECTED"
  BY <1>1 DEF OrderStatus
<1>12. /\ \A k \in V : fills[k].ts >= o.submitted_at
       /\ filled <= o.quantity
       /\ OrderStatus(o) = "FILLED" => filled = o.quantity
       /\ OrderStatus(o) = "REJECTED" => filled = 0
  BY <1>5, <1>9, <1>10, <1>11
<1>13. OrderTotals(o)
  BY <1>1, <1>6, <1>12 DEF OrderTotals
<1> QED
  BY <1>1, <1>13

\* The entries and exits of BacktestLedger.
LEMMA EntriesAndExits ==
    ASSUME EngineInv
    PROVE  /\ DOMAIN fills = 1..Len(fills)
           /\ \A k : EntryOf(k) = EntryIn(fills, k)
           /\ \A k : ExitsOf(k) = ExitsIn(fills, k)
<1>1. DOMAIN fills = 1..Len(fills)
  BY DEF EngineInv, TypeOK
<1>2. \A k : EntryOf(k) = EntryIn(fills, k)
  BY DEF EntryOf, EntryIn
<1>3. \A k : ExitsOf(k) = ExitsIn(fills, k)
  BY <1>1, <1>2 DEF ExitsOf, ExitsIn
<1> QED
  BY <1>1, <1>2, <1>3

\* The triggers and checks of migration 0002 accept every completed simulation, and
\* so do those of migration 0001 unless slippage is above the price.
LEMMA DatabaseWilling ==
    ASSUME EngineInv, JournalInv, outcome = "completed"
    PROVE  /\ FillChecks => DatabaseAccepts
           /\ ~FillChecks => Slippage > RateUnit
<1>1. /\ DOMAIN fills = 1..Len(fills) /\ DOMAIN orders = 1..Len(orders)
      /\ DOMAIN decisions = 1..Len(decisions) /\ decisions \in Seq(Decision)
  BY DEF EngineInv, TypeOK
<1>2. InputsAvailable
  <2> SUFFICES ASSUME NEW n \in 1..Len(decisions), NEW b \in Range(decisions[n].inputs)
               PROVE  b.available <= decisions[n].ts
    BY <1>1 DEF InputsAvailable
  <2>1. decisions[n] \in Decision
    BY <1>1
  <2>2. DOMAIN decisions[n].inputs = 1..Len(decisions[n].inputs)
    BY <2>1 DEF Decision
  <2>3. PICK m \in 1..Len(decisions[n].inputs) : b = decisions[n].inputs[m]
    BY <2>2 DEF Range
  <2> QED
    BY <2>3 DEF JournalInv, InputsPast
<1>3. ReferencesAvailable
  <2> SUFFICES ASSUME NEW k \in 1..Len(fills)
               PROVE  fills[k].order.bar.available <= fills[k].ts
    BY <1>1 DEF ReferencesAvailable
  <2>1. fills[k] \in Fill /\ fills[k].ts = fills[k].order.bar.available
    BY FillOfOrder
  <2>2. fills[k].ts \in Nat
    BY <2>1 DEF Fill
  <2> QED
    BY <2>1, <2>2
<1>4. ValuationsAvailable
  BY DEF JournalInv, Ended, ValuationsAvailable
<1>5. \A n \in DOMAIN orders : OrderTotals(orders[n])
  BY <1>1, OrdersTotal
<1>6. TradeChecks
  <2>1. ASSUME NEW k \in Buys, NEW j \in ExitsOf(k)
        PROVE  fills[j].ts >= fills[k].ts
    <3>1. j \in ExitsIn(fills, k) /\ Len(fills) \in Nat
      BY EntriesAndExits DEF EngineInv, TypeOK
    <3>2. j \in 1..Len(fills) /\ k \in 1..(j - 1)
      BY <3>1, ExitFacts
    <3>3. k \in 1..Len(fills) /\ k < j
      BY <3>1, <3>2
    <3>4. fills[k].ts <= fills[j].ts
      BY <3>2, <3>3 DEF JournalInv, FillsPriced
    <3>5. fills[k].ts \in Nat /\ fills[j].ts \in Nat
      <4>1. fills[k] \in Fill /\ fills[j] \in Fill
        BY <3>2, <3>3, FillOfOrder
      <4> QED
        BY <4>1 DEF Fill
    <3> QED
      BY <3>4, <3>5
  <2>2. ASSUME NEW k \in 1..Len(fills)
        PROVE  fills[k].economics.quantity > 0
    <3>1. fills[k].economics \in Economics
      BY FillOfOrder
    <3> QED
      BY <3>1 DEF Economics
  <2> QED
    BY <1>1, <2>1, <2>2 DEF TradeChecks
<1>7. ASSUME ~(Slippage > RateUnit)
      PROVE  FillChecks
  <2>1. FillAmount = Nat
    BY <1>7, EngineConstants DEF FillAmount
  <2>2. ASSUME NEW k \in 1..Len(fills)
        PROVE  fills[k].economics.commission >= 0 /\ fills[k].economics.tax >= 0
    <3>1. fills[k].economics \in Economics
      BY FillOfOrder
    <3>2. fills[k].economics.commission \in Nat /\ fills[k].economics.tax \in Nat
      BY <2>1, <3>1 DEF Economics
    <3> QED
      BY <3>2
  <2> QED
    BY <1>1, <2>2 DEF FillChecks
<1> QED
  BY <1>2, <1>3, <1>4, <1>5, <1>6, <1>7 DEF DatabaseAccepts

\* A sale of an instrument whose bars become visible one by one closes a trade.
LEMMA TimelyTradesClose ==
    ASSUME EngineInv, JournalInv, TimelyInv, NEW k \in 1..Len(fills), ~ClosesTrade(k)
    PROVE  fills[k].order.instrument \notin Timely
<1> SUFFICES ASSUME fills[k].order.instrument \in Timely
             PROVE  FALSE
  OBVIOUS
<1>1. PICK i \in Instruments : i = fills[k].order.instrument /\ OneByOne(i)
  BY DEF Timely
<1>2. TradesAre(fills, i, position[i])
  BY <1>1 DEF TimelyInv
<1>3. k \in FilledFor(fills, i)
  BY <1>1 DEF FilledFor
<1>4. fills[k].economics.side = "SELL" => EntryIn(fills, k) # {}
  BY <1>2, <1>3 DEF TradesAre
<1>5. ClosesTrade(k)
  BY <1>4, EntriesAndExits DEF ClosesTrade
<1> QED
  BY <1>5

-----------------------------------------------------------------------------
(* The end of a run *)

\* The ledger is written when the simulation is over.
LedgerLast == ledger # NoLedger => outcome # "running"

\* A run with its ledger is a run.
LEMMA LedgerRuns == LedgerSpec => Spec
<1>1. LedgerInit => Init
  BY DEF LedgerInit
<1>2. [LedgerNext]_<<vars, ledger>> => [Next]_vars
  BY DEF LedgerNext, Persist, MarkFailed
<1> QED
  BY <1>1, <1>2, PTL DEF LedgerSpec, Spec

\* After its ledger is written nothing happens any more.
LEMMA LedgerSteps ==
    ASSUME JournalInv, LedgerLast, [LedgerNext]_<<vars, ledger>>
    PROVE  /\ LedgerLast'
           /\ \/ ledger' = NoLedger
              \/ ledger = NoLedger /\ Persist
              \/ ledger = NoLedger /\ MarkFailed
              \/ UNCHANGED <<vars, ledger>>
<1>1. CASE Next /\ UNCHANGED ledger
  <2>1. outcome = "running" \/ filling # <<>> \/ deciding # <<>>
    BY <1>1 DEF Next, NextInstant, FillOrder, Decide, ValuePositions
  <2>2. outcome = "running"
    BY <2>1 DEF JournalInv, Ended
  <2>3. ledger = NoLedger
    BY <2>2 DEF LedgerLast
  <2> QED
    BY <1>1, <2>3 DEF LedgerLast
<1>2. CASE Persist
  <2>1. ledger = NoLedger /\ outcome' # "running"
    BY <1>2 DEF Persist, vars
  <2> QED
    BY <1>2, <2>1 DEF LedgerLast
<1>3. CASE MarkFailed
  <2>1. ledger = NoLedger /\ outcome' # "running"
    BY <1>3 DEF MarkFailed, vars
  <2> QED
    BY <1>3, <2>1 DEF LedgerLast
<1>4. CASE UNCHANGED <<vars, ledger>>
  <2>1. ledger' = ledger /\ outcome' = outcome
    BY <1>4 DEF vars
  <2> QED
    BY <1>4, <2>1 DEF LedgerLast
<1> QED
  BY <1>1, <1>2, <1>3, <1>4 DEF LedgerNext

\* Signals agree with orders, and no sale is refused, for the instruments of a set.
SignalsAgree(L, S) ==
    /\ \A n \in DOMAIN L.signals : L.signals[n].instrument \in S =>
          ((L.signals[n].signal_type = "ENTRY") <=> (L.orders[n].side = "BUY"))
    /\ \A n \in DOMAIN L.orders :
          L.orders[n].instrument \in S /\ L.orders[n].reject_reason = "INSUFFICIENT_CASH"
          => L.orders[n].side = "BUY"

\* What the tables of a run say of its orders, or why there are none.
RecordInv ==
    /\ LedgerLast
    /\ Recorded => SignalsAgree(ledger, Timely)
    /\ RefusedOnlyForTrades

\* The orders that are open for an instrument at the end.
LEMMA NoneOpen ==
    ASSUME EngineInv, JournalInv, TimelyInv, outcome # "running", NEW i \in Instruments, OneByOne(i),
           NEW o, IsOpen(o)
    PROVE  o.instrument # i
<1>1. filling = <<>> /\ upcoming = {}
  BY DEF JournalInv, Ended
<1>2. TimelyOrders(i)
  BY DEF TimelyInv
<1>3. o \in pending
  BY <1>1 DEF IsOpen, Among
<1> QED
  BY <1>1, <1>2, <1>3 DEF TimelyOrders

\* The tables of orders and signals, when they are written.
LEMMA SignalsWritten ==
    ASSUME EngineInv, JournalInv, TimelyInv, Persist
    PROVE  SignalsAgree(ledger', Timely)
<1>1. PICK L : L = ledger'
  OBVIOUS
<1>2. /\ L.signals = [n \in DOMAIN orders |-> SignalRow(orders[n])]
      /\ L.orders = [n \in DOMAIN orders |-> OrderRow(orders[n])]
      /\ outcome = "completed"
  BY <1>1 DEF Persist
<1>3. DOMAIN orders = 1..Len(orders) /\ orders \in Seq(Order) /\ decisions \in Seq(Decision)
      /\ Len(decisions) \in Nat
  BY DEF EngineInv, TypeOK
<1>4. ASSUME NEW n \in 1..Len(orders), orders[n].instrument \in Timely
      PROVE  (SignalRow(orders[n]).signal_type = "ENTRY") <=> (OrderRow(orders[n]).side = "BUY")
  <2>1. PICK o : o = orders[n] /\ o \in Order
    BY <1>3
  <2>2. OneByOne(o.instrument) /\ o.instrument \in Instruments
    BY <1>4, <2>1 DEF Timely
  <2>3. TimelyTargets(o.instrument)
    BY <2>2 DEF TimelyInv
  <2>4. /\ o.quantity = TargetQuantity
        /\ o.side = "SELL" => decisions[o.sequence].state.quantity = TargetQuantity
    BY <2>1, <2>3 DEF TimelyTargets
  <2>5. PICK held \in Nat : held = decisions[o.sequence].state.quantity
    <3>1. o.sequence <= Len(decisions)
      BY <2>1 DEF JournalInv, OrdersPlaced
    <3>2. o.sequence \in 1..Len(decisions)
      BY <1>3, <2>1, <3>1 DEF Order
    <3>3. decisions[o.sequence] \in Decision
      BY <1>3, <3>2
    <3>4. decisions[o.sequence].state \in Position
      BY <3>3 DEF Decision
    <3> QED
      BY <3>4 DEF Position
  <2>6. TargetOf(o) = IF o.side = "BUY" THEN held + o.quantity ELSE held - o.quantity
    BY <2>5 DEF TargetOf
  <2>7. o.side \in {"BUY", "SELL"} /\ TargetQuantity \in Nat \ {0}
    BY <2>1, EngineConstants DEF Order
  <2>8. TargetOf(o) > 0 <=> o.side = "BUY"
    BY <2>4, <2>5, <2>6, <2>7
  <2>9. SignalRow(o).signal_type = IF TargetOf(o) > 0 THEN "ENTRY" ELSE "EXIT"
    BY DEF SignalRow
  <2>10. OrderRow(o).side = o.side
    BY DEF OrderRow
  <2> QED
    BY <2>1, <2>8, <2>9, <2>10
<1>5. ASSUME NEW n \in 1..Len(orders), orders[n].instrument \in Timely,
             OrderRow(orders[n]).reject_reason = "INSUFFICIENT_CASH"
      PROVE  OrderRow(orders[n]).side = "BUY"
  <2>1. PICK o : o = orders[n] /\ o \in Order
    BY <1>3
  <2>2. OneByOne(o.instrument) /\ o.instrument \in Instruments
    BY <1>5, <2>1 DEF Timely
  <2>3. o.bar # None /\ FillsOf(o) = {}
    BY <1>5, <2>1 DEF OrderRow, OrderStatus
  <2>4. ~FilledIn(fills, o)
    BY <2>3, EntriesAndExits DEF FillsOf, FilledIn
  <2>5. ~IsOpen(o)
    BY <1>2, <2>2, NoneOpen
  <2>6. o.side # "SELL"
    BY <2>1, <2>2, <2>3, <2>4, <2>5 DEF TimelyInv, TimelyOrders
  <2>7. OrderRow(o).side = o.side /\ o.side \in {"BUY", "SELL"}
    BY <2>1 DEF OrderRow, Order
  <2> QED
    BY <2>1, <2>6, <2>7
<1>6. \A n \in 1..Len(orders) : /\ SignalRow(orders[n]).instrument = orders[n].instrument
                                /\ OrderRow(orders[n]).instrument = orders[n].instrument
  BY DEF SignalRow, OrderRow
<1>7. \A n \in DOMAIN L.signals : n \in 1..Len(orders) /\ L.signals[n] = SignalRow(orders[n])
                                  /\ L.orders[n] = OrderRow(orders[n])
  BY <1>2, <1>3
<1>8. \A n \in DOMAIN L.orders : n \in 1..Len(orders) /\ L.orders[n] = OrderRow(orders[n])
  BY <1>2, <1>3
<1>9. SignalsAgree(L, Timely)
  BY <1>4, <1>5, <1>6, <1>7, <1>8 DEF SignalsAgree
<1> QED
  BY <1>1, <1>9

\* Why a completed simulation is refused.
LEMMA RefusedBecause ==
    ASSUME EngineInv, JournalInv, TimelyInv, outcome = "completed", ~Recordable
    PROVE  \/ decisions = <<>>
           \/ \E k \in DOMAIN fills : ~ClosesTrade(k) /\ fills[k].order.instrument \notin Timely
           \/ Slippage > RateUnit /\ ~FillChecks
<1>1. DatabaseAccepts \/ (Slippage > RateUnit /\ ~FillChecks)
  BY DatabaseWilling
<1>2. \/ decisions = <<>>
      \/ \E k \in DOMAIN fills : ~ClosesTrade(k)
      \/ Slippage > RateUnit /\ ~FillChecks
  BY <1>1 DEF Recordable
<1> QED
  BY <1>2, EntriesAndExits, TimelyTradesClose

\* RecordInv is inductive.
LEMMA RecordStep ==
    ASSUME EngineInv, JournalInv, TimelyInv, RecordInv, [LedgerNext]_<<vars, ledger>>
    PROVE  RecordInv'
<1>1. /\ LedgerLast'
      /\ \/ ledger' = NoLedger
         \/ ledger = NoLedger /\ Persist
         \/ ledger = NoLedger /\ MarkFailed
         \/ UNCHANGED <<vars, ledger>>
  BY LedgerSteps DEF RecordInv
<1>2. UNCHANGED vars => /\ Timely' = Timely /\ decisions' = decisions /\ fills' = fills
                        /\ outcome' = outcome /\ FillChecks' = FillChecks
                        /\ \A k : ClosesTrade(k)' <=> ClosesTrade(k)
  BY DEF vars, Timely, OneByOne, ClosesTrade, EntryOf, FillChecks
<1>3. CASE ledger' = NoLedger
  <2>1. ~Recorded' /\ ledger' # FailedLedger
    BY <1>3 DEF Recorded, NoLedger, FailedLedger
  <2> QED
    BY <1>1, <2>1 DEF RecordInv, RefusedOnlyForTrades
<1>4. CASE Persist
  <2>1. SignalsAgree(ledger', Timely)
    BY <1>4, SignalsWritten
  <2>2. UNCHANGED vars
    BY <1>4 DEF Persist
  <2>3. ledger' # FailedLedger
    <3>1. ledger'.status = "SUCCEEDED"
      BY <1>4 DEF Persist
    <3> QED
      BY <3>1 DEF FailedLedger
  <2> QED
    BY <1>1, <1>2, <2>1, <2>2, <2>3 DEF RecordInv, RefusedOnlyForTrades
<1>5. CASE MarkFailed
  <2>1. UNCHANGED vars /\ ledger' = FailedLedger /\ ~(outcome = "completed" /\ Recordable)
    BY <1>5 DEF MarkFailed
  <2>2. ~Recorded'
    BY <2>1 DEF Recorded, FailedLedger
  <2>3. outcome = "completed" =>
           \/ decisions = <<>>
           \/ \E k \in DOMAIN fills : ~ClosesTrade(k) /\ fills[k].order.instrument \notin Timely
           \/ Slippage > RateUnit /\ ~FillChecks
    BY <2>1, RefusedBecause
  <2>4. RefusedOnlyForTrades'
    BY <1>2, <2>1, <2>3 DEF RefusedOnlyForTrades
  <2> QED
    BY <1>1, <2>2, <2>4 DEF RecordInv
<1>6. CASE UNCHANGED <<vars, ledger>>
  <2>1. ledger' = ledger /\ UNCHANGED vars
    BY <1>6
  <2>2. RefusedOnlyForTrades'
    BY <1>2, <2>1 DEF RecordInv, RefusedOnlyForTrades
  <2>3. Recorded' => SignalsAgree(ledger', Timely')
    BY <1>2, <2>1 DEF RecordInv, Recorded
  <2> QED
    BY <1>1, <2>2, <2>3 DEF RecordInv
<1> QED
  BY <1>1, <1>3, <1>4, <1>5, <1>6

\* For every dataset, rate and schedule: where the bars of an instrument become visible
\* one by one, every order is tried, no position passes its target, no sale is refused,
\* signals and orders agree, and the triggers of migration 0002 accept whatever the
\* engine completes; the checks of migration 0001 do unless slippage is above the
\* price (simulate, persist, migrations 0001 and 0002).
THEOREM TimelyRecords == LedgerSpec => []TimelyRunsAreRecorded
<1>1. LedgerInit => RecordInv
  <2> SUFFICES ASSUME LedgerInit
               PROVE  RecordInv
    OBVIOUS
  <2>1. ledger = NoLedger
    BY DEF LedgerInit
  <2>2. ~Recorded /\ ledger # FailedLedger
    BY <2>1 DEF Recorded, NoLedger, FailedLedger
  <2> QED
    BY <2>1, <2>2 DEF RecordInv, LedgerLast, RefusedOnlyForTrades
<1>2. EngineInv /\ JournalInv /\ TimelyInv /\ RecordInv /\ [LedgerNext]_<<vars, ledger>> => RecordInv'
  BY RecordStep
<1>3. EngineInv /\ JournalInv /\ TimelyInv /\ RecordInv => TimelyRunsAreRecorded
  <2> SUFFICES ASSUME EngineInv, JournalInv, TimelyInv, RecordInv
               PROVE  TimelyRunsAreRecorded
    OBVIOUS
  <2>1. TimelyOrdersSettled
    <3> SUFFICES ASSUME outcome # "running", NEW i \in Instruments, OneByOne(i), NEW o \in pending
                 PROVE  o.instrument # i
      BY DEF TimelyOrdersSettled, Settled
    <3>1. IsOpen(o)
      BY DEF IsOpen
    <3> QED
      BY <3>1, NoneOpen
  <2>2. TimelyPositionWithinTarget
    <3> SUFFICES ASSUME NEW i \in Instruments, OneByOne(i)
                 PROVE  position[i].quantity <= TargetQuantity
      BY DEF TimelyPositionWithinTarget
    <3>1. TradesAre(fills, i, position[i])
      BY DEF TimelyInv
    <3>2. position[i].quantity = 0 \/ position[i].quantity = TargetQuantity
      BY <3>1 DEF TradesAre
    <3> QED
      BY <3>2, EngineConstants
  <2>3. TimelySignalsMatchOrders /\ TimelySellsFilled
    BY DEF RecordInv, SignalsAgree, TimelySignalsMatchOrders, TimelySellsFilled
  <2> QED
    BY <2>1, <2>2, <2>3 DEF RecordInv, TimelyRunsAreRecorded
<1> QED
  BY <1>1, <1>2, <1>3, LedgerRuns, EngineInvariant, JournalKept, TimelyKept, PTL DEF LedgerSpec

-----------------------------------------------------------------------------
(* More about sums *)

\* Sums can be added and subtracted element by element.
LEMMA SumOfThree ==
    ASSUME NEW a, NEW b, NEW c, NEW g, NEW V,
           Summable(a, V), Summable(b, V), Summable(c, V),
           \A x \in V : g[x] = a[x] + b[x] - c[x]
    PROVE  Summable(g, V) /\ SumOf(g, V) = SumOf(a, V) + SumOf(b, V) - SumOf(c, V)
<1>1. IsFiniteSet(V) /\ \A x \in V : a[x] \in Int /\ b[x] \in Int /\ c[x] \in Int /\ g[x] \in Int
  BY DEF Summable
<1>2. ASSUME NEW T \in SUBSET V
      PROVE  Summable(a, T) /\ Summable(b, T) /\ Summable(c, T) /\ Summable(g, T)
  <2>1. IsFiniteSet(T)
    BY <1>1, FS_Subset
  <2> QED
    BY <1>1, <2>1 DEF Summable
<1> DEFINE Right(T) == SumOf(g, T) = SumOf(a, T) + SumOf(b, T) - SumOf(c, T)
           Bad == {T \in SUBSET V : ~Right(T)}
<1>3. ASSUME Bad # {}
      PROVE  FALSE
  <2>1. PICK T \in Bad : \A U \in Bad : U \subseteq T => U = T
    <3>1. Bad \subseteq SUBSET V
      OBVIOUS
    <3> HIDE DEF Bad
    <3> QED
      BY <1>1, <1>3, <3>1, SmallestSet
  <2>2. T \in SUBSET V /\ ~Right(T)
    OBVIOUS
  <2>3. Summable(a, T) /\ Summable(b, T) /\ Summable(c, T) /\ Summable(g, T)
    BY <1>2, <2>2
  <2>4. T # {}
    <3> SUFFICES ASSUME T = {}
                 PROVE  FALSE
      OBVIOUS
    <3>1. SumOf(a, T) = 0 /\ SumOf(b, T) = 0 /\ SumOf(c, T) = 0 /\ SumOf(g, T) = 0
      BY <2>3, SumOfInt
    <3> QED
      BY <2>2, <3>1
  <2>5. PICK e \in T : TRUE
    BY <2>4
  <2>6. PICK U : U = T \ {e}
    OBVIOUS
  <2>7. Right(U)
    <3>1. U \notin Bad
      <4> HIDE DEF Bad
      <4> QED
        BY <2>1, <2>5, <2>6
    <3>2. U \in SUBSET V
      BY <2>2, <2>6
    <3> QED
      BY <3>1, <3>2
  <2>8. /\ SumOf(a, T) = a[e] + SumOf(a, U) /\ SumOf(b, T) = b[e] + SumOf(b, U)
        /\ SumOf(c, T) = c[e] + SumOf(c, U) /\ SumOf(g, T) = g[e] + SumOf(g, U)
    BY <2>3, <2>5, <2>6, SumOfSplit
  <2>9. SumOf(a, U) \in Int /\ SumOf(b, U) \in Int /\ SumOf(c, U) \in Int
    <3>1. U \in SUBSET V
      BY <2>2, <2>6
    <3> QED
      BY <1>2, <3>1, SumOfInt
  <2>10. e \in V /\ g[e] = a[e] + b[e] - c[e] /\ a[e] \in Int /\ b[e] \in Int /\ c[e] \in Int
    BY <1>1, <2>2, <2>5
  <2>11. PICK x \in Int, y \in Int, z \in Int : x = SumOf(a, U) /\ y = SumOf(b, U) /\ z = SumOf(c, U)
    BY <2>9
  <2>12. SumOf(g, T) = (a[e] + b[e] - c[e]) + (x + y - z)
    BY <2>7, <2>8, <2>10, <2>11
  <2>13. (a[e] + b[e] - c[e]) + (x + y - z) = (a[e] + x) + (b[e] + y) - (c[e] + z)
    BY <2>10, <2>11
  <2> QED
    BY <2>2, <2>8, <2>11, <2>12, <2>13
<1>4. Right(V)
  BY <1>3
<1> QED
  BY <1>2, <1>4

\* The sizes of the parts of a finite set, by a label.
Parted(parts, C, I, label) ==
    /\ IsFiniteSet(C) /\ IsFiniteSet(I)
    /\ \A i \in I : parts[i] = Cardinality({b \in C : label[b] = i})
    /\ \A b \in C : label[b] \in I

\* The parts make up the whole.
LEMMA CountParts ==
    ASSUME NEW parts, NEW C, NEW I, NEW label, Parted(parts, C, I, label)
    PROVE  Summable(parts, I) /\ SumOf(parts, I) = Cardinality(C)
<1>0. /\ IsFiniteSet(C) /\ IsFiniteSet(I)
      /\ \A i \in I : parts[i] = Cardinality({b \in C : label[b] = i})
      /\ \A b \in C : label[b] \in I
  BY DEF Parted
<1> DEFINE With(i) == {b \in C : label[b] = i}
           Within(S) == {b \in C : label[b] \in S}
<1>1. ASSUME NEW i
      PROVE  IsFiniteSet(With(i)) /\ Cardinality(With(i)) \in Nat
  <2>1. With(i) \in SUBSET C
    OBVIOUS
  <2> HIDE DEF With
  <2> QED
    BY <1>0, <2>1, FS_Subset, FS_CardinalityType
<1>2. ASSUME NEW S
      PROVE  IsFiniteSet(Within(S)) /\ Cardinality(Within(S)) \in Nat
  <2>1. Within(S) \in SUBSET C
    OBVIOUS
  <2> HIDE DEF Within
  <2> QED
    BY <1>0, <2>1, FS_Subset, FS_CardinalityType
<1>3. ASSUME NEW S \in SUBSET I
      PROVE  Summable(parts, S)
  <2>1. IsFiniteSet(S)
    BY <1>0, FS_Subset
  <2>2. \A i \in S : parts[i] = Cardinality(With(i))
    BY <1>0
  <2> HIDE DEF With
  <2>3. \A i \in S : parts[i] \in Int
    BY <1>1, <2>2
  <2> QED
    BY <2>1, <2>3 DEF Summable
<1> DEFINE Bad == {S \in SUBSET I : SumOf(parts, S) # Cardinality(Within(S))}
<1>4. ASSUME Bad # {}
      PROVE  FALSE
  <2>1. PICK S \in Bad : \A U \in Bad : U \subseteq S => U = S
    <3>1. Bad \subseteq SUBSET I
      OBVIOUS
    <3> HIDE DEF Bad
    <3> QED
      BY <1>0, <1>4, <3>1, SmallestSet
  <2>2. S \in SUBSET I /\ SumOf(parts, S) # Cardinality(Within(S))
    OBVIOUS
  <2>3. Summable(parts, S)
    BY <1>3, <2>2
  <2>4. S # {}
    <3> SUFFICES ASSUME S = {}
                 PROVE  FALSE
      OBVIOUS
    <3>1. SumOf(parts, S) = 0
      BY <2>3, SumOfInt
    <3>2. Within(S) = {}
      OBVIOUS
    <3>3. Cardinality(Within(S)) = 0
      BY <3>2, FS_EmptySet
    <3> QED
      BY <2>2, <3>1, <3>3
  <2>5. PICK e \in S : TRUE
    BY <2>4
  <2>6. PICK U : U = S \ {e}
    OBVIOUS
  <2>7. SumOf(parts, U) = Cardinality(Within(U))
    <3>1. U \notin Bad
      <4> HIDE DEF Bad
      <4> QED
        BY <2>1, <2>5, <2>6
    <3>2. U \in SUBSET I
      BY <2>2, <2>6
    <3> QED
      BY <3>1, <3>2
  <2>8. SumOf(parts, S) = parts[e] + SumOf(parts, U)
    BY <2>3, <2>5, <2>6, SumOfSplit
  <2>9. parts[e] = Cardinality(With(e))
    BY <1>0, <2>2, <2>5
  <2>10. Within(S) = With(e) \cup Within(U) /\ With(e) \cap Within(U) = {}
    BY <2>5, <2>6
  <2>11. Cardinality(Within(S)) = Cardinality(With(e)) + Cardinality(Within(U))
    <3>1. PICK p, q : p = With(e) /\ q = Within(U)
      OBVIOUS
    <3>2. IsFiniteSet(p) /\ IsFiniteSet(q) /\ Cardinality(p) \in Nat /\ Cardinality(q) \in Nat
      BY <1>1, <1>2, <3>1
    <3>3. p \cap q = {} /\ Within(S) = p \cup q
      BY <2>10, <3>1
    <3>4. Cardinality(p \cup q) = Cardinality(p) + Cardinality(q) - Cardinality(p \cap q)
      BY <3>2, FS_Union
    <3>5. Cardinality(p \cap q) = 0
      BY <3>3, FS_EmptySet
    <3>6. Cardinality(p \cup q) = Cardinality(p) + Cardinality(q)
      BY <3>2, <3>4, <3>5
    <3> QED
      BY <3>1, <3>3, <3>6
  <2> QED
    BY <2>2, <2>7, <2>8, <2>9, <2>11
<1>5. SumOf(parts, I) = Cardinality(Within(I))
  BY <1>4
<1>6. Summable(parts, I)
  BY <1>3
<1>7. Within(I) = C
  BY <1>0
<1> QED
  BY <1>5, <1>6, <1>7

-----------------------------------------------------------------------------
(* What the tables of a run say, with sums that can be reasoned about *)

\* The numbers that are added up in the tables L of a run.
Values(L) == [i \in Instruments |-> L.snapshots[i].market_value]
Moves(L) == [k \in DOMAIN L.positions |-> L.positions[k].delta]
Bought(L) == [k \in DOMAIN L.trades |-> L.trades[k].quantity]
Earned(L) == [k \in DOMAIN L.trades |-> L.trades[k].net_pnl + L.trades[k].slippage]
Gains(L) == [i \in Instruments |-> L.snapshots[i].realized + L.snapshots[i].unrealized]

\* The position entries, and the trades of one status, of an instrument.
MovesOf(L, i) == {k \in DOMAIN L.positions : L.positions[k].instrument = i}
TradesIn(L, i, status) ==
    {k \in DOMAIN L.trades : L.trades[k].instrument = i /\ L.trades[k].status = status}
Counts(L) == [i \in Instruments |-> Cardinality(TradesIn(L, i, "CLOSED"))]

\* LedgersReconstruct.
Rebuilt(L) ==
    /\ Summable(Amounts(L.cash), L.cash)
    /\ L.equity_point.cash = SumOf(Amounts(L.cash), L.cash)
    /\ Summable(Values(L), Instruments)
    /\ L.equity_point.equity = L.equity_point.cash + SumOf(Values(L), Instruments)
    /\ \A i \in Instruments : /\ Summable(Moves(L), MovesOf(L, i))
                              /\ L.snapshots[i].quantity = SumOf(Moves(L), MovesOf(L, i))

\* TradesMatchPositions and TradesExplainRealizedGross, for one instrument.
Matched(L, i) ==
    /\ Summable(Bought(L), TradesIn(L, i, "OPEN"))
    /\ L.snapshots[i].quantity = SumOf(Bought(L), TradesIn(L, i, "OPEN"))
    /\ \A k \in TradesIn(L, i, "CLOSED") : L.trades[k].exited = L.trades[k].quantity
    /\ Summable(Earned(L), TradesIn(L, i, "CLOSED"))
    /\ L.snapshots[i].realized = SumOf(Earned(L), TradesIn(L, i, "CLOSED"))

\* SummaryMatchesPositions.
Summed(L) ==
    /\ Summable(Gains(L), Instruments) /\ L.summary.net_pnl = SumOf(Gains(L), Instruments)
    /\ Summable(Counts(L), Instruments) /\ L.summary.trade_count = SumOf(Counts(L), Instruments)

Story(L, S) == Rebuilt(L) /\ Summed(L) /\ \A i \in S : Matched(L, i)

StoryInv == LedgerLast /\ (Recorded => Story(ledger, Timely))

-----------------------------------------------------------------------------
(* The sums of BacktestLedger, as MapThenSumSet forms them *)

\* The cash entries.
AddsAmounts(F, V) ==
    F = [T \in SUBSET V |-> IF T = {} THEN 0 ELSE (Chosen(T).amount) + F[T \ {Chosen(T)}]]

\* It is a sum.
LEMMA AmountsSum ==
    ASSUME NEW V, Summable(Amounts(V), V)
    PROVE  (CHOOSE F : AddsAmounts(F, V))[V] = SumOf(Amounts(V), V)
<1>1. \A T \in SUBSET V : T # {} => Amounts(V)[Chosen(T)] = Chosen(T).amount
  BY DEF Chosen, Amounts
<1>2. PICK g : g = Amounts(V)
  OBVIOUS
<1>3. \A F : AddsAmounts(F, V) <=> SumsUp(F, g, V)
  BY <1>1, <1>2 DEF AddsAmounts, SumsUp
<1>4. SumsUp(CHOOSE F : AddsAmounts(F, V), g, V)
  <2>1. \E F : SumsUp(F, g, V)
    BY <1>2, SumOfDef
  <2>2. AddsAmounts(CHOOSE F : AddsAmounts(F, V), V)
    BY <1>3, <2>1
  <2> QED
    BY <1>3, <2>2
<1>5. (CHOOSE F : AddsAmounts(F, V))[V] = SumOf(g, V)
  BY <1>2, <1>4, SumOfAny
<1> QED
  BY <1>2, <1>5

\* The market values.
AddsValues(F, L, V) ==
    F = [T \in SUBSET V |-> IF T = {} THEN 0 ELSE (L.snapshots[Chosen(T)].market_value) + F[T \ {Chosen(T)}]]

\* It is a sum.
LEMMA ValuesSum ==
    ASSUME NEW L, NEW V, Summable(Values(L), V), V \subseteq Instruments
    PROVE  (CHOOSE F : AddsValues(F, L, V))[V] = SumOf(Values(L), V)
<1>1. \A T \in SUBSET V : T # {} => Values(L)[Chosen(T)] = L.snapshots[Chosen(T)].market_value
  BY DEF Chosen, Values
<1>2. PICK g : g = Values(L)
  OBVIOUS
<1>3. \A F : AddsValues(F, L, V) <=> SumsUp(F, g, V)
  BY <1>1, <1>2 DEF AddsValues, SumsUp
<1>4. SumsUp(CHOOSE F : AddsValues(F, L, V), g, V)
  <2>1. \E F : SumsUp(F, g, V)
    BY <1>2, SumOfDef
  <2>2. AddsValues(CHOOSE F : AddsValues(F, L, V), L, V)
    BY <1>3, <2>1
  <2> QED
    BY <1>3, <2>2
<1>5. (CHOOSE F : AddsValues(F, L, V))[V] = SumOf(g, V)
  BY <1>2, <1>4, SumOfAny
<1> QED
  BY <1>2, <1>5

\* The deltas of positions.
AddsMoves(F, L, V) ==
    F = [T \in SUBSET V |-> IF T = {} THEN 0 ELSE (L.positions[Chosen(T)].delta) + F[T \ {Chosen(T)}]]

\* It is a sum.
LEMMA MovesSum ==
    ASSUME NEW L, NEW V, Summable(Moves(L), V), V \subseteq DOMAIN L.positions
    PROVE  (CHOOSE F : AddsMoves(F, L, V))[V] = SumOf(Moves(L), V)
<1>1. \A T \in SUBSET V : T # {} => Moves(L)[Chosen(T)] = L.positions[Chosen(T)].delta
  BY DEF Chosen, Moves
<1>2. PICK g : g = Moves(L)
  OBVIOUS
<1>3. \A F : AddsMoves(F, L, V) <=> SumsUp(F, g, V)
  BY <1>1, <1>2 DEF AddsMoves, SumsUp
<1>4. SumsUp(CHOOSE F : AddsMoves(F, L, V), g, V)
  <2>1. \E F : SumsUp(F, g, V)
    BY <1>2, SumOfDef
  <2>2. AddsMoves(CHOOSE F : AddsMoves(F, L, V), L, V)
    BY <1>3, <2>1
  <2> QED
    BY <1>3, <2>2
<1>5. (CHOOSE F : AddsMoves(F, L, V))[V] = SumOf(g, V)
  BY <1>2, <1>4, SumOfAny
<1> QED
  BY <1>2, <1>5

\* What was bought.
AddsBought(F, L, V) ==
    F = [T \in SUBSET V |-> IF T = {} THEN 0 ELSE (L.trades[Chosen(T)].quantity) + F[T \ {Chosen(T)}]]

\* It is a sum.
LEMMA BoughtSum ==
    ASSUME NEW L, NEW V, Summable(Bought(L), V), V \subseteq DOMAIN L.trades
    PROVE  (CHOOSE F : AddsBought(F, L, V))[V] = SumOf(Bought(L), V)
<1>1. \A T \in SUBSET V : T # {} => Bought(L)[Chosen(T)] = L.trades[Chosen(T)].quantity
  BY DEF Chosen, Bought
<1>2. PICK g : g = Bought(L)
  OBVIOUS
<1>3. \A F : AddsBought(F, L, V) <=> SumsUp(F, g, V)
  BY <1>1, <1>2 DEF AddsBought, SumsUp
<1>4. SumsUp(CHOOSE F : AddsBought(F, L, V), g, V)
  <2>1. \E F : SumsUp(F, g, V)
    BY <1>2, SumOfDef
  <2>2. AddsBought(CHOOSE F : AddsBought(F, L, V), L, V)
    BY <1>3, <2>1
  <2> QED
    BY <1>3, <2>2
<1>5. (CHOOSE F : AddsBought(F, L, V))[V] = SumOf(g, V)
  BY <1>2, <1>4, SumOfAny
<1> QED
  BY <1>2, <1>5

\* What trades brought.
AddsEarned(F, L, V) ==
    F = [T \in SUBSET V |-> IF T = {} THEN 0 ELSE (L.trades[Chosen(T)].net_pnl + L.trades[Chosen(T)].slippage) + F[T \ {Chosen(T)}]]

\* It is a sum.
LEMMA EarnedSum ==
    ASSUME NEW L, NEW V, Summable(Earned(L), V), V \subseteq DOMAIN L.trades
    PROVE  (CHOOSE F : AddsEarned(F, L, V))[V] = SumOf(Earned(L), V)
<1>1. \A T \in SUBSET V : T # {} => Earned(L)[Chosen(T)] = L.trades[Chosen(T)].net_pnl + L.trades[Chosen(T)].slippage
  BY DEF Chosen, Earned
<1>2. PICK g : g = Earned(L)
  OBVIOUS
<1>3. \A F : AddsEarned(F, L, V) <=> SumsUp(F, g, V)
  BY <1>1, <1>2 DEF AddsEarned, SumsUp
<1>4. SumsUp(CHOOSE F : AddsEarned(F, L, V), g, V)
  <2>1. \E F : SumsUp(F, g, V)
    BY <1>2, SumOfDef
  <2>2. AddsEarned(CHOOSE F : AddsEarned(F, L, V), L, V)
    BY <1>3, <2>1
  <2> QED
    BY <1>3, <2>2
<1>5. (CHOOSE F : AddsEarned(F, L, V))[V] = SumOf(g, V)
  BY <1>2, <1>4, SumOfAny
<1> QED
  BY <1>2, <1>5

\* Profits, made and in prospect.
AddsGains(F, L, V) ==
    F = [T \in SUBSET V |-> IF T = {} THEN 0 ELSE (L.snapshots[Chosen(T)].realized + L.snapshots[Chosen(T)].unrealized) + F[T \ {Chosen(T)}]]

\* It is a sum.
LEMMA GainsSum ==
    ASSUME NEW L, NEW V, Summable(Gains(L), V), V \subseteq Instruments
    PROVE  (CHOOSE F : AddsGains(F, L, V))[V] = SumOf(Gains(L), V)
<1>1. \A T \in SUBSET V : T # {} => Gains(L)[Chosen(T)] = L.snapshots[Chosen(T)].realized + L.snapshots[Chosen(T)].unrealized
  BY DEF Chosen, Gains
<1>2. PICK g : g = Gains(L)
  OBVIOUS
<1>3. \A F : AddsGains(F, L, V) <=> SumsUp(F, g, V)
  BY <1>1, <1>2 DEF AddsGains, SumsUp
<1>4. SumsUp(CHOOSE F : AddsGains(F, L, V), g, V)
  <2>1. \E F : SumsUp(F, g, V)
    BY <1>2, SumOfDef
  <2>2. AddsGains(CHOOSE F : AddsGains(F, L, V), L, V)
    BY <1>3, <2>1
  <2> QED
    BY <1>3, <2>2
<1>5. (CHOOSE F : AddsGains(F, L, V))[V] = SumOf(g, V)
  BY <1>2, <1>4, SumOfAny
<1> QED
  BY <1>2, <1>5

\* The numbers of closed trades.
AddsCounts(F, L, V) ==
    F = [T \in SUBSET V |-> IF T = {} THEN 0 ELSE (Cardinality(TradesIn(L, Chosen(T), "CLOSED"))) + F[T \ {Chosen(T)}]]

\* It is a sum.
LEMMA CountsSum ==
    ASSUME NEW L, NEW V, Summable(Counts(L), V), V \subseteq Instruments
    PROVE  (CHOOSE F : AddsCounts(F, L, V))[V] = SumOf(Counts(L), V)
<1>1. \A T \in SUBSET V : T # {} => Counts(L)[Chosen(T)] = Cardinality(TradesIn(L, Chosen(T), "CLOSED"))
  BY DEF Chosen, Counts
<1>2. PICK g : g = Counts(L)
  OBVIOUS
<1>3. \A F : AddsCounts(F, L, V) <=> SumsUp(F, g, V)
  BY <1>1, <1>2 DEF AddsCounts, SumsUp
<1>4. SumsUp(CHOOSE F : AddsCounts(F, L, V), g, V)
  <2>1. \E F : SumsUp(F, g, V)
    BY <1>2, SumOfDef
  <2>2. AddsCounts(CHOOSE F : AddsCounts(F, L, V), L, V)
    BY <1>3, <2>1
  <2> QED
    BY <1>3, <2>2
<1>5. (CHOOSE F : AddsCounts(F, L, V))[V] = SumOf(g, V)
  BY <1>2, <1>4, SumOfAny
<1> QED
  BY <1>2, <1>5

\* A story with these sums is the one BacktestLedger tells.
LEMMA StoryTold ==
    ASSUME Recorded => Story(ledger, Timely)
    PROVE  LedgersTellOneStory
<1>1. CASE ~Recorded
  BY <1>1 DEF LedgersTellOneStory, LedgersReconstruct, TradesMatchPositions, SummaryMatchesPositions,
              TradesExplainRealizedGross
<1>2. CASE Recorded
  <2>1. Rebuilt(ledger) /\ Summed(ledger) /\ \A i \in Timely : Matched(ledger, i)
    BY <1>2 DEF Story
  <2>2. ledger.equity_point.cash = SumOver(ledger.cash, LAMBDA e : e.amount)
    <3>1. PICK V : V = ledger.cash
      OBVIOUS
    <3>2. SumOver(V, LAMBDA e : e.amount) = (CHOOSE F : AddsAmounts(F, V))[V]
      BY DEF SumOver, MapThenSumSet, MapThenFoldSet, AddsAmounts, Chosen
    <3>3. (CHOOSE F : AddsAmounts(F, V))[V] = SumOf(Amounts(V), V)
      BY <2>1, <3>1, AmountsSum DEF Rebuilt
    <3> QED
      BY <2>1, <3>1, <3>2, <3>3 DEF Rebuilt
  <2>3. ledger.equity_point.equity = ledger.equity_point.cash
                           + SumOver(Instruments, LAMBDA i : ledger.snapshots[i].market_value)
    <3>1. SumOver(Instruments, LAMBDA i : ledger.snapshots[i].market_value)
            = (CHOOSE F : AddsValues(F, ledger, Instruments))[Instruments]
      BY DEF SumOver, MapThenSumSet, MapThenFoldSet, AddsValues, Chosen
    <3>2. (CHOOSE F : AddsValues(F, ledger, Instruments))[Instruments] = SumOf(Values(ledger), Instruments)
      BY <2>1, ValuesSum DEF Rebuilt
    <3> QED
      BY <2>1, <3>1, <3>2 DEF Rebuilt
  <2>4. ASSUME NEW i \in Instruments
        PROVE  ledger.snapshots[i].quantity =
                 SumOver({k \in DOMAIN ledger.positions : ledger.positions[k].instrument = i},
                         LAMBDA k : ledger.positions[k].delta)
    <3>1. PICK V : V = {k \in DOMAIN ledger.positions : ledger.positions[k].instrument = i}
      OBVIOUS
    <3>2. V = MovesOf(ledger, i) /\ V \subseteq DOMAIN ledger.positions
      BY <3>1 DEF MovesOf
    <3>3. SumOver(V, LAMBDA k : ledger.positions[k].delta) = (CHOOSE F : AddsMoves(F, ledger, V))[V]
      BY DEF SumOver, MapThenSumSet, MapThenFoldSet, AddsMoves, Chosen
    <3>4. (CHOOSE F : AddsMoves(F, ledger, V))[V] = SumOf(Moves(ledger), V)
      BY <2>1, <3>2, MovesSum DEF Rebuilt
    <3> QED
      BY <2>1, <3>1, <3>2, <3>3, <3>4 DEF Rebuilt
  <2>5. LedgersReconstruct
    BY <2>2, <2>3, <2>4 DEF LedgersReconstruct
  <2>6. ASSUME NEW i \in Timely
        PROVE  ledger.snapshots[i].quantity =
                  SumOver(TradesOf(i, "OPEN"), LAMBDA k : ledger.trades[k].quantity)
    <3>1. PICK V : V = TradesOf(i, "OPEN")
      OBVIOUS
    <3>2. V = TradesIn(ledger, i, "OPEN") /\ V \subseteq DOMAIN ledger.trades
      BY <3>1 DEF TradesOf, TradesIn
    <3>3. SumOver(V, LAMBDA k : ledger.trades[k].quantity) = (CHOOSE F : AddsBought(F, ledger, V))[V]
      BY DEF SumOver, MapThenSumSet, MapThenFoldSet, AddsBought, Chosen
    <3>4. (CHOOSE F : AddsBought(F, ledger, V))[V] = SumOf(Bought(ledger), V)
      BY <2>1, <3>2, BoughtSum DEF Matched
    <3> QED
      BY <2>1, <3>1, <3>2, <3>3, <3>4 DEF Matched
  <2>7. ASSUME NEW i \in Timely
        PROVE  \A k \in TradesOf(i, "CLOSED") : ledger.trades[k].exited = ledger.trades[k].quantity
    <3>1. TradesOf(i, "CLOSED") = TradesIn(ledger, i, "CLOSED")
      BY DEF TradesOf, TradesIn
    <3> QED
      BY <2>1, <3>1 DEF Matched
  <2>8. TradesMatchPositions
    BY <2>6, <2>7 DEF TradesMatchPositions
  <2>9. ASSUME NEW i \in Timely
        PROVE  ledger.snapshots[i].realized =
                  SumOver(TradesOf(i, "CLOSED"),
                          LAMBDA k : ledger.trades[k].net_pnl + ledger.trades[k].slippage)
    <3>1. PICK V : V = TradesOf(i, "CLOSED")
      OBVIOUS
    <3>2. V = TradesIn(ledger, i, "CLOSED") /\ V \subseteq DOMAIN ledger.trades
      BY <3>1 DEF TradesOf, TradesIn
    <3>3. SumOver(V, LAMBDA k : ledger.trades[k].net_pnl + ledger.trades[k].slippage)
            = (CHOOSE F : AddsEarned(F, ledger, V))[V]
      BY DEF SumOver, MapThenSumSet, MapThenFoldSet, AddsEarned, Chosen
    <3>4. (CHOOSE F : AddsEarned(F, ledger, V))[V] = SumOf(Earned(ledger), V)
      BY <2>1, <3>2, EarnedSum DEF Matched
    <3> QED
      BY <2>1, <3>1, <3>2, <3>3, <3>4 DEF Matched
  <2>10. TradesExplainRealizedGross
    BY <2>9 DEF TradesExplainRealizedGross
  <2>11. ledger.summary.net_pnl =
            SumOver(Instruments, LAMBDA i : ledger.snapshots[i].realized
                                            + ledger.snapshots[i].unrealized)
    <3>1. SumOver(Instruments, LAMBDA i : ledger.snapshots[i].realized + ledger.snapshots[i].unrealized)
            = (CHOOSE F : AddsGains(F, ledger, Instruments))[Instruments]
      BY DEF SumOver, MapThenSumSet, MapThenFoldSet, AddsGains, Chosen
    <3>2. (CHOOSE F : AddsGains(F, ledger, Instruments))[Instruments] = SumOf(Gains(ledger), Instruments)
      BY <2>1, GainsSum DEF Summed
    <3> QED
      BY <2>1, <3>1, <3>2 DEF Summed
  <2>12. ledger.summary.trade_count =
            SumOver(Instruments, LAMBDA i : Cardinality(TradesOf(i, "CLOSED")))
    <3>1. SumOver(Instruments, LAMBDA i : Cardinality(TradesOf(i, "CLOSED")))
            = (CHOOSE F : AddsCounts(F, ledger, Instruments))[Instruments]
      BY DEF SumOver, MapThenSumSet, MapThenFoldSet, AddsCounts, Chosen, TradesOf, TradesIn
    <3>2. (CHOOSE F : AddsCounts(F, ledger, Instruments))[Instruments] = SumOf(Counts(ledger), Instruments)
      BY <2>1, CountsSum DEF Summed
    <3> QED
      BY <2>1, <3>1, <3>2 DEF Summed
  <2>13. SummaryMatchesPositions
    BY <2>11, <2>12 DEF SummaryMatchesPositions
  <2> QED
    BY <2>5, <2>8, <2>10, <2>13 DEF LedgersTellOneStory
<1> QED
  BY <1>1, <1>2


-----------------------------------------------------------------------------
(* The tables as they are written *)

\* The tables that are added up.
Written(L) ==
    /\ L.cash = CashLedger
    /\ L.positions = PositionLedger
    /\ L.trades = [k \in Buys |-> TradeRow(k)]
    /\ L.snapshots = [i \in Instruments |-> SnapshotRow(i)]
    /\ L.equity_point = EquityPoint
    /\ L.summary = Summary

\* The cash entries of the run, the initial capital among them, are the cash.
LEMMA CashRebuilt ==
    ASSUME EngineInv, CashBooked
    PROVE  /\ Summable(Amounts(CashLedger), CashLedger)
           /\ SumOf(Amounts(CashLedger), CashLedger) = cash
<1>1. PICK x : x = [key |-> <<0, "initial-capital">>, ts |-> decisions[1].ts, amount |-> InitialCapital]
  OBVIOUS
<1>2. PICK V : V = Entries(fills)
  OBVIOUS
<1>3. CashLedger = V \cup {x}
  <2>1. \A k : CashEntries(k) = EntriesIn(fills, k)
    BY DEF CashEntries, EntriesIn
  <2>2. DOMAIN fills = 1..Len(fills)
    BY EntriesAndExits
  <2>3. UNION {CashEntries(k) : k \in DOMAIN fills} = V
    BY <1>2, <2>1, <2>2 DEF Entries
  <2> QED
    BY <1>1, <2>3 DEF CashLedger
<1>4. x \notin V
  <2> SUFFICES ASSUME x \in V
               PROVE  FALSE
    OBVIOUS
  <2>1. PICK k \in 1..Len(fills) : x \in EntriesIn(fills, k)
    BY <1>2 DEF Entries
  <2>2. x.key[1] = k
    BY <2>1 DEF EntriesIn
  <2>3. x.key[1] = 0
    BY <1>1
  <2>4. k # 0
    BY <2>1 DEF EngineInv, TypeOK
  <2> QED
    BY <2>2, <2>3, <2>4
<1>5. Summable(Amounts(V), V) /\ cash = InitialCapital + SumOf(Amounts(V), V)
  BY <1>2 DEF CashBooked
<1>6. PICK g : g = Amounts(V \cup {x})
  OBVIOUS
<1>7. (\A e \in V : g[e] = Amounts(V)[e]) /\ g[x] = InitialCapital
  <2>1. \A e \in V \cup {x} : g[e] = e.amount
    BY <1>6 DEF Amounts
  <2>2. x.amount = InitialCapital
    BY <1>1
  <2>3. \A e \in V : Amounts(V)[e] = e.amount
    BY DEF Amounts
  <2> QED
    BY <2>1, <2>2, <2>3
<1>8. InitialCapital \in Int
  BY EngineConstants
<1>9. OneMore(Amounts(V), g, V, x)
  BY <1>4, <1>5, <1>7, <1>8 DEF OneMore
<1>10. SumOf(g, V \cup {x}) = SumOf(Amounts(V), V) + InitialCapital
  BY <1>7, <1>9, SumAppend
<1>11. SumOf(Amounts(V), V) \in Int
  BY <1>5, SumOfInt
<1>12. Summable(g, V \cup {x})
  <2>1. IsFiniteSet(V) /\ \A e \in V : g[e] \in Int
    BY <1>5, <1>7 DEF Summable
  <2>2. IsFiniteSet(V \cup {x})
    BY <2>1, FS_AddElement
  <2> QED
    BY <1>7, <1>8, <2>1, <2>2 DEF Summable
<1>13. InitialCapital + SumOf(Amounts(V), V) = SumOf(Amounts(V), V) + InitialCapital
  BY <1>8, <1>11
<1> QED
  BY <1>3, <1>5, <1>6, <1>10, <1>12, <1>13

\* What the positions are worth, and the sum of it as MapThenSumSet forms it.
Worth(pos, vals) == [i \in Instruments |-> pos[i].quantity * vals[i].close]
AddsWorth(F, pos, vals, V) ==
    F = [T \in SUBSET V |->
           IF T = {} THEN 0 ELSE (pos[Chosen(T)].quantity * vals[Chosen(T)].close) + F[T \ {Chosen(T)}]]

\* Equity is the cash and what the positions are worth.
LEMMA EquityIs ==
    ASSUME EngineInv, JournalInv, outcome = "completed"
    PROVE  /\ Summable(Worth(position, valuations), Instruments)
           /\ Equity = cash + SumOf(Worth(position, valuations), Instruments)
           /\ \A i \in Instruments : MarketValue(i) = Worth(position, valuations)[i]
<1>1. PICK pos, vals, g : pos = position /\ vals = valuations /\ g = Worth(pos, vals)
  OBVIOUS
<1>2. \A i \in Instruments : g[i] = pos[i].quantity * vals[i].close
  BY <1>1 DEF Worth
<1>3. \A i \in Instruments : g[i] \in Int
  <2> TAKE i \in Instruments
  <2>1. pos[i].quantity \in Nat
    BY <1>1 DEF EngineInv, TypeOK, Position
  <2>2. vals[i].close \in Nat
    BY <1>1 DEF JournalInv, Ended, Bar
  <2> QED
    BY <1>2, <2>1, <2>2
<1>4. Summable(g, Instruments)
  BY <1>3, EngineConstants DEF Summable
<1>5. \A T \in SUBSET Instruments : T # {} => g[Chosen(T)] = pos[Chosen(T)].quantity * vals[Chosen(T)].close
  BY <1>2 DEF Chosen
<1>6. \A F : AddsWorth(F, pos, vals, Instruments) <=> SumsUp(F, g, Instruments)
  BY <1>5 DEF AddsWorth, SumsUp
<1>7. SumsUp(CHOOSE F : AddsWorth(F, pos, vals, Instruments), g, Instruments)
  <2>1. \E F : SumsUp(F, g, Instruments)
    BY <1>4, SumOfDef
  <2>2. AddsWorth(CHOOSE F : AddsWorth(F, pos, vals, Instruments), pos, vals, Instruments)
    BY <1>6, <2>1
  <2> QED
    BY <1>6, <2>2
<1>8. (CHOOSE F : AddsWorth(F, pos, vals, Instruments))[Instruments] = SumOf(g, Instruments)
  BY <1>4, <1>7, SumOfAny
<1>9. MapThenSumSet(MarketValue, Instruments) = (CHOOSE F : AddsWorth(F, pos, vals, Instruments))[Instruments]
  <2>1. MapThenSumSet(MarketValue, Instruments)
          = (CHOOSE F : AddsWorth(F, position, valuations, Instruments))[Instruments]
    BY DEF MapThenSumSet, MapThenFoldSet, AddsWorth, Chosen, MarketValue
  <2> QED
    BY <1>1, <2>1
<1>10. \A i \in Instruments : MarketValue(i) = g[i]
  BY <1>1, <1>2 DEF MarketValue
<1> QED
  BY <1>1, <1>4, <1>8, <1>9, <1>10 DEF Equity

\* What a row of position_snapshot says.
LEMMA SnapshotRows ==
    ASSUME NEW L, Written(L), NEW i \in Instruments
    PROVE  /\ L.snapshots[i].quantity = position[i].quantity
           /\ L.snapshots[i].market_value = MarketValue(i)
           /\ L.snapshots[i].realized = position[i].realized
           /\ L.snapshots[i].unrealized = MarketValue(i) - position[i].cost
<1>1. L.snapshots[i] = SnapshotRow(i)
  BY DEF Written
<1> QED
  BY <1>1 DEF SnapshotRow

\* The ledgers of cash and positions reconstruct the equity point and the snapshots.
LEMMA RebuiltWhenWritten ==
    ASSUME EngineInv, JournalInv, CashBooked, Books, outcome = "completed", NEW L, Written(L)
    PROVE  Rebuilt(L)
<1>1. L.equity_point.cash = cash /\ L.equity_point.equity = Equity
  BY DEF Written, EquityPoint
<1>2. Summable(Amounts(L.cash), L.cash) /\ L.equity_point.cash = SumOf(Amounts(L.cash), L.cash)
  <2>1. L.cash = CashLedger
    BY DEF Written
  <2> QED
    BY <1>1, <2>1, CashRebuilt
<1>3. /\ Summable(Values(L), Instruments)
      /\ L.equity_point.equity = L.equity_point.cash + SumOf(Values(L), Instruments)
  <2>1. PICK g : g = Worth(position, valuations)
    OBVIOUS
  <2>2. Summable(g, Instruments) /\ Equity = cash + SumOf(g, Instruments)
        /\ \A i \in Instruments : MarketValue(i) = g[i]
    BY <2>1, EquityIs
  <2>3. \A i \in Instruments : Values(L)[i] = g[i]
    <3> TAKE i \in Instruments
    <3>1. L.snapshots[i].market_value = MarketValue(i)
      BY SnapshotRows
    <3> QED
      BY <2>2, <3>1 DEF Values
  <2>4. SumOf(g, Instruments) = SumOf(Values(L), Instruments)
    BY <2>2, <2>3, SumOfEqual
  <2>5. Summable(Values(L), Instruments)
    BY <2>2, <2>3 DEF Summable
  <2> QED
    BY <1>1, <2>2, <2>4, <2>5
<1>4. ASSUME NEW i \in Instruments
      PROVE  /\ Summable(Moves(L), MovesOf(L, i))
             /\ L.snapshots[i].quantity = SumOf(Moves(L), MovesOf(L, i))
  <2>1. PICK fs, ts : fs = fills /\ ts = now
    OBVIOUS
  <2>2. fs \in Seq(Fill) /\ DOMAIN fs = 1..Len(fs)
    BY <2>1, EntriesAndExits DEF EngineInv, TypeOK
  <2>3. PICK P : P = L.positions
    OBVIOUS
  <2>4. P = PositionLedger
    BY <2>3 DEF Written
  <2>5. /\ DOMAIN P = 1..Len(fs)
        /\ \A k \in 1..Len(fs) : /\ P[k].instrument = fs[k].order.instrument
                                 /\ P[k].delta = SignedQuantity(fs[k].economics)
    BY <2>1, <2>2, <2>4 DEF PositionLedger, QuantityDelta, SignedQuantity
  <2>6. \A k \in 1..Len(fs) : Moves(L)[k] = Deltas(fs)[k]
    BY <2>3, <2>5 DEF Moves, Deltas
  <2>7. MovesOf(L, i) = FillsIn(fs, i, ts)
    <3>1. \A k \in 1..Len(fs) : fs[k].ts <= ts
      BY <2>1 DEF EngineInv, JournalPast
    <3>2. \A k : k \in MovesOf(L, i) <=> k \in FillsIn(fs, i, ts)
      BY <2>3, <2>5, <3>1 DEF MovesOf, FillsIn
    <3> QED
      BY <3>2 DEF MovesOf, FillsIn
  <2>8. PICK V : V = FillsIn(fs, i, ts)
    OBVIOUS
  <2>9. V \in SUBSET (1..Len(fs))
    BY <2>8 DEF FillsIn
  <2>10. Summable(Deltas(fs), V)
    BY <2>2, <2>9, JournalSummable
  <2>11. \A k \in V : Deltas(fs)[k] = Moves(L)[k]
    BY <2>6, <2>9
  <2>12. SumOf(Deltas(fs), V) = SumOf(Moves(L), V)
    BY <2>10, <2>11, SumOfEqual
  <2>13. Summable(Moves(L), V)
    BY <2>10, <2>11 DEF Summable
  <2>14. position[i].quantity = SumOf(Deltas(fs), V)
    BY <2>1, <2>8 DEF Books, HeldIn
  <2>15. L.snapshots[i].quantity = position[i].quantity
    BY SnapshotRows
  <2> QED
    BY <2>7, <2>8, <2>12, <2>13, <2>14, <2>15
<1> QED
  BY <1>1, <1>2, <1>3, <1>4 DEF Rebuilt

\* The numbers of a typed fill.
FillNumbers(f) ==
    /\ f.economics.quantity \in Nat /\ f.economics.price \in Int /\ f.economics.notional \in Int
    /\ f.economics.commission \in Int /\ f.economics.tax \in Int
    /\ f.economics.side \in {"BUY", "SELL"}
    /\ f.economics.notional = f.economics.price * f.economics.quantity
    /\ f.order.bar.close \in Nat
    /\ SlippageAmount(f) \in Int

\* They are what PriceFill made them.
LEMMA FillNumbersKnown ==
    ASSUME EngineInv, JournalInv, NEW k \in 1..Len(fills)
    PROVE  FillNumbers(fills[k])
<1>1. PICK f : f = fills[k]
  OBVIOUS
<1>2. f \in Fill /\ f.order \in Order /\ f.economics \in Economics /\ f.order.bar # None
  BY <1>1, FillOfOrder
<1>3. PICK e, o : e = f.economics /\ o = f.order
  OBVIOUS
<1>4. /\ e.quantity \in Nat /\ e.price \in Int /\ e.notional \in Int
      /\ e.commission \in Int /\ e.tax \in Int /\ e.side \in {"BUY", "SELL"}
  BY <1>2, <1>3, AmountTypes DEF Economics
<1>5. o.bar \in Bar
  BY <1>2, <1>3 DEF Order
<1>6. o.bar.close \in Nat
  BY <1>5 DEF Bar
<1>7. e.notional = e.price * e.quantity
  <2>1. e = PriceFill(o.side, o.quantity, o.bar.close)
    BY <1>1, <1>3 DEF JournalInv, FillsPriced, FillOf
  <2> QED
    BY <2>1 DEF PriceFill
<1>8. SlippageAmount(f) \in Int
  <2>1. SlippageAmount(f) = e.quantity * (IF e.price > o.bar.close THEN e.price - o.bar.close
                                                                  ELSE o.bar.close - e.price)
    BY <1>3 DEF SlippageAmount
  <2>2. (IF e.price > o.bar.close THEN e.price - o.bar.close ELSE o.bar.close - e.price) \in Int
    BY <1>4, <1>6
  <2> QED
    BY <1>4, <2>1, <2>2
<1>9. FillNumbers(f)
  BY <1>3, <1>4, <1>6, <1>7, <1>8 DEF FillNumbers
<1> QED
  BY <1>1, <1>9

\* The costs of the two legs of a trade, slippage given back, leave what was paid and
\* received.
LEMMA TradeBrings ==
    ASSUME NEW f, NEW h, FillNumbers(f), FillNumbers(h),
           f.economics.side = "BUY", h.economics.side = "SELL",
           f.economics.quantity = h.economics.quantity
    PROVE  ((h.economics.price - f.economics.price) * h.economics.quantity - Costs(f) - Costs(h))
             + (SlippageAmount(f) + SlippageAmount(h))
           = CashDelta(f.economics) + CashDelta(h.economics)
<1>1. PICK e, c : e = f.economics /\ c = h.economics
  OBVIOUS
<1>2. PICK s, t : s = SlippageAmount(f) /\ t = SlippageAmount(h)
  OBVIOUS
<1>3. /\ e.quantity \in Int /\ e.price \in Int /\ e.commission \in Int /\ e.tax \in Int
      /\ c.quantity \in Int /\ c.price \in Int /\ c.commission \in Int /\ c.tax \in Int
      /\ s \in Int /\ t \in Int /\ e.quantity = c.quantity
      /\ e.notional = e.price * e.quantity /\ c.notional = c.price * c.quantity
  BY <1>1, <1>2 DEF FillNumbers
<1>4. CashDelta(e) = -(e.notional + e.commission + e.tax)
  BY <1>1 DEF CashDelta
<1>5. CashDelta(c) = c.notional - c.commission - c.tax
  BY <1>1 DEF CashDelta
<1>6. Costs(f) = e.commission + s + e.tax /\ Costs(h) = c.commission + t + c.tax
  BY <1>1, <1>2 DEF Costs
<1>7. PICK q, p, r : q = e.quantity /\ p = e.price /\ r = c.price
  OBVIOUS
<1>8. (r - p) * q = r * q - p * q
  BY <1>3, <1>7
<1>9. PICK n \in Int, m \in Int : n = r * q /\ m = p * q
  BY <1>3, <1>7
<1>10. e.notional = m /\ c.notional = n /\ (c.price - e.price) * c.quantity = n - m
  BY <1>3, <1>7, <1>8, <1>9
<1>11. PICK x \in Int, y \in Int, u \in Int : x = e.commission /\ y = e.tax /\ u = c.commission
  BY <1>3
<1>12. PICK z \in Int : z = c.tax
  BY <1>3
<1>13. ((n - m) - (x + s + y) - (u + t + z)) + (s + t) = (-(m + x + y)) + (n - u - z)
  BY <1>3, <1>9, <1>11, <1>12
<1> QED
  BY <1>1, <1>2, <1>4, <1>5, <1>6, <1>10, <1>11, <1>12, <1>13

\* The slippage and the results over the sales that close a buy, as MapThenSumSet
\* forms their sums.
AddsSlippage(F, fs, V) ==
    F = [T \in SUBSET V |-> IF T = {} THEN 0 ELSE SlippageAmount(fs[Chosen(T)]) + F[T \ {Chosen(T)}]]
NetOf(fs, k, j) ==
    (fs[j].economics.price - fs[k].economics.price) * fs[j].economics.quantity
    - Costs(fs[k]) - Costs(fs[j])
AddsNet(F, fs, k, V) ==
    F = [T \in SUBSET V |-> IF T = {} THEN 0 ELSE NetOf(fs, k, Chosen(T)) + F[T \ {Chosen(T)}]]

\* Over one sale they are its own.
LEMMA SlippageOfOne ==
    ASSUME NEW fs, NEW j, SlippageAmount(fs[j]) \in Int
    PROVE  (CHOOSE F : AddsSlippage(F, fs, {j}))[{j}] = SlippageAmount(fs[j])
<1>1. PICK g : g = [x \in {j} |-> SlippageAmount(fs[x])]
  OBVIOUS
<1>2. g[j] = SlippageAmount(fs[j])
  BY <1>1
<1>3. Summable(g, {j}) /\ SumOf(g, {j}) = g[j]
  BY <1>2, SumOfOne
<1>4. \A T \in SUBSET {j} : T # {} => g[Chosen(T)] = SlippageAmount(fs[Chosen(T)])
  BY <1>1 DEF Chosen
<1>5. \A F : AddsSlippage(F, fs, {j}) <=> SumsUp(F, g, {j})
  BY <1>4 DEF AddsSlippage, SumsUp
<1>6. SumsUp(CHOOSE F : AddsSlippage(F, fs, {j}), g, {j})
  <2>1. \E F : SumsUp(F, g, {j})
    BY <1>3, SumOfDef
  <2>2. AddsSlippage(CHOOSE F : AddsSlippage(F, fs, {j}), fs, {j})
    BY <1>5, <2>1
  <2> QED
    BY <1>5, <2>2
<1>7. (CHOOSE F : AddsSlippage(F, fs, {j}))[{j}] = SumOf(g, {j})
  BY <1>3, <1>6, SumOfAny
<1> QED
  BY <1>2, <1>3, <1>7

\* The same for the results.
LEMMA NetOfOne ==
    ASSUME NEW fs, NEW k, NEW j, NetOf(fs, k, j) \in Int
    PROVE  (CHOOSE F : AddsNet(F, fs, k, {j}))[{j}] = NetOf(fs, k, j)
<1>1. PICK g : g = [x \in {j} |-> NetOf(fs, k, x)]
  OBVIOUS
<1>2. g[j] = NetOf(fs, k, j)
  BY <1>1
<1>3. Summable(g, {j}) /\ SumOf(g, {j}) = g[j]
  BY <1>2, SumOfOne
<1>4. \A T \in SUBSET {j} : T # {} => g[Chosen(T)] = NetOf(fs, k, Chosen(T))
  BY <1>1 DEF Chosen
<1>5. \A F : AddsNet(F, fs, k, {j}) <=> SumsUp(F, g, {j})
  BY <1>4 DEF AddsNet, SumsUp
<1>6. SumsUp(CHOOSE F : AddsNet(F, fs, k, {j}), g, {j})
  <2>1. \E F : SumsUp(F, g, {j})
    BY <1>3, SumOfDef
  <2>2. AddsNet(CHOOSE F : AddsNet(F, fs, k, {j}), fs, k, {j})
    BY <1>5, <2>1
  <2> QED
    BY <1>5, <2>2
<1>7. (CHOOSE F : AddsNet(F, fs, k, {j}))[{j}] = SumOf(g, {j})
  BY <1>3, <1>6, SumOfAny
<1> QED
  BY <1>2, <1>3, <1>7

\* The row of a trade with one exit: it was sold as far as the exit says, and slippage
\* given back it brought what its legs did.
LEMMA ClosedRow ==
    ASSUME EngineInv, JournalInv, NEW k \in 1..Len(fills), NEW j \in 1..Len(fills),
           ExitsIn(fills, k) = {j},
           fills[k].economics.side = "BUY", fills[j].economics.side = "SELL",
           fills[k].economics.quantity = fills[j].economics.quantity
    PROVE  /\ TradeRow(k).exited = fills[j].economics.quantity
           /\ TradeRow(k).net_pnl + TradeRow(k).slippage
                = CashDelta(fills[k].economics) + CashDelta(fills[j].economics)
<1>1. ExitsOf(k) = {j}
  BY EntriesAndExits
<1>2. PICK fs : fs = fills
  OBVIOUS
<1>3. FillNumbers(fs[k]) /\ FillNumbers(fs[j])
  BY <1>2, FillNumbersKnown
<1>4. SlippageAmount(fs[k]) \in Int /\ SlippageAmount(fs[j]) \in Int
  BY <1>3 DEF FillNumbers
<1>5. TradeRow(k).exited = fs[j].economics.quantity
  <2>1. TradeRow(k).exited = MapThenSumSet(LAMBDA x : fills[x].economics.quantity, {j})
    BY <1>1 DEF TradeRow
  <2>2. MapThenSumSet(LAMBDA x : fills[x].economics.quantity, {j})
          = (CHOOSE F : AddsQuantities(F, fills, {j}))[{j}]
    BY DEF MapThenSumSet, MapThenFoldSet, AddsQuantities, Chosen
  <2>3. fills \in Seq(Fill) /\ {j} \in SUBSET (1..Len(fills))
    BY DEF EngineInv, TypeOK
  <2>4. (CHOOSE F : AddsQuantities(F, fills, {j}))[{j}] = SumOf(Quantities(fills), {j})
    BY <2>3, QuantitySums
  <2>5. Quantities(fills)[j] = fs[j].economics.quantity
    BY <1>2 DEF Quantities
  <2>6. Quantities(fills)[j] \in Int
    BY <1>3, <2>5, SMTT(30) DEF FillNumbers
  <2>7. SumOf(Quantities(fills), {j}) = Quantities(fills)[j]
    BY <2>6, SumOfOne
  <2> QED
    BY <2>1, <2>2, <2>4, <2>5, <2>7
<1>6. TradeRow(k).slippage = SlippageAmount(fs[k]) + SlippageAmount(fs[j])
  <2>1. TradeRow(k).slippage = SlippageAmount(fills[k])
                               + MapThenSumSet(LAMBDA x : SlippageAmount(fills[x]), {j})
    BY <1>1 DEF TradeRow
  <2>2. MapThenSumSet(LAMBDA x : SlippageAmount(fills[x]), {j})
          = (CHOOSE F : AddsSlippage(F, fills, {j}))[{j}]
    BY DEF MapThenSumSet, MapThenFoldSet, AddsSlippage, Chosen
  <2>3. (CHOOSE F : AddsSlippage(F, fs, {j}))[{j}] = SlippageAmount(fs[j])
    BY <1>4, SlippageOfOne
  <2> QED
    BY <1>2, <2>1, <2>2, <2>3
<1>7. NetOf(fs, k, j) \in Int /\ NetOf(fs, k, j) + (SlippageAmount(fs[k]) + SlippageAmount(fs[j]))
                                   = CashDelta(fs[k].economics) + CashDelta(fs[j].economics)
  <2>1. PICK f, h : f = fs[k] /\ h = fs[j]
    OBVIOUS
  <2>2. NetOf(fs, k, j) = (h.economics.price - f.economics.price) * h.economics.quantity
                          - Costs(f) - Costs(h)
    BY <2>1 DEF NetOf
  <2>3. FillNumbers(f) /\ FillNumbers(h) /\ f.economics.side = "BUY" /\ h.economics.side = "SELL"
        /\ f.economics.quantity = h.economics.quantity
    BY <1>2, <1>3, <2>1
  <2>4. Costs(f) \in Int /\ Costs(h) \in Int
    <3>1. ASSUME NEW x, FillNumbers(x)
          PROVE  Costs(x) \in Int
      <4>1. x.economics.commission \in Int /\ x.economics.tax \in Int /\ SlippageAmount(x) \in Int
        BY <3>1 DEF FillNumbers
      <4> QED
        BY <4>1 DEF Costs
    <3> QED
      BY <2>3, <3>1
  <2>5. (h.economics.price - f.economics.price) * h.economics.quantity \in Int
    <3>1. /\ h.economics.price \in Int /\ f.economics.price \in Int
          /\ h.economics.quantity \in Int
      <4>1. \A x : FillNumbers(x) => x.economics.price \in Int /\ x.economics.quantity \in Int
        BY DEF FillNumbers
      <4> QED
        BY <2>3, <4>1
    <3>2. PICK a \in Int, b \in Int, c \in Int :
             a = h.economics.price /\ b = f.economics.price /\ c = h.economics.quantity
      BY <3>1
    <3>3. (a - b) * c \in Int
      OBVIOUS
    <3> QED
      BY <3>2, <3>3
  <2>6. NetOf(fs, k, j) \in Int
    BY <2>2, <2>4, <2>5
  <2>7. ((h.economics.price - f.economics.price) * h.economics.quantity - Costs(f) - Costs(h))
          + (SlippageAmount(f) + SlippageAmount(h)) = CashDelta(f.economics) + CashDelta(h.economics)
    BY <2>3, TradeBrings
  <2> QED
    BY <2>1, <2>2, <2>6, <2>7
<1>8. TradeRow(k).net_pnl = NetOf(fs, k, j)
  <2>1. TradeRow(k).net_pnl = MapThenSumSet(LAMBDA x : TradeNet(k, x), {j})
    BY <1>1 DEF TradeRow
  <2>2. MapThenSumSet(LAMBDA x : TradeNet(k, x), {j}) = (CHOOSE F : AddsNet(F, fills, k, {j}))[{j}]
    BY DEF MapThenSumSet, MapThenFoldSet, AddsNet, NetOf, TradeNet, Chosen
  <2>3. (CHOOSE F : AddsNet(F, fs, k, {j}))[{j}] = NetOf(fs, k, j)
    BY <1>7, NetOfOne
  <2> QED
    BY <1>2, <2>1, <2>2, <2>3
<1> QED
  BY <1>2, <1>5, <1>6, <1>7, <1>8

\* The table of trades has one row for each buy, open or closed.
LEMMA TradeRows ==
    ASSUME EngineInv, NEW L, Written(L)
    PROVE  /\ DOMAIN L.trades = {k \in 1..Len(fills) : fills[k].economics.side = "BUY"}
           /\ \A k \in DOMAIN L.trades : L.trades[k] = TradeRow(k)
           /\ \A i : TradesIn(L, i, "OPEN") = OpenTrades(fills, i)
           /\ \A i : TradesIn(L, i, "CLOSED") = ClosedTrades(fills, i)
<1>1. PICK T : T = L.trades
  OBVIOUS
<1>2. T = [k \in Buys |-> TradeRow(k)]
  BY <1>1 DEF Written
<1>3. Buys = {k \in 1..Len(fills) : fills[k].economics.side = "BUY"}
  BY EntriesAndExits DEF Buys
<1>4. DOMAIN T = {k \in 1..Len(fills) : fills[k].economics.side = "BUY"}
  BY <1>2, <1>3
<1>5. \A k \in DOMAIN T : T[k] = TradeRow(k)
  BY <1>2
<1>6. \A k \in DOMAIN T : /\ T[k].instrument = fills[k].order.instrument
                          /\ T[k].status = IF ExitsIn(fills, k) = {} THEN "OPEN" ELSE "CLOSED"
  <2> TAKE k \in DOMAIN T
  <2>1. ExitsOf(k) = ExitsIn(fills, k)
    BY EntriesAndExits
  <2>2. /\ TradeRow(k).instrument = fills[k].order.instrument
        /\ TradeRow(k).status = IF ExitsOf(k) = {} THEN "OPEN" ELSE "CLOSED"
    BY DEF TradeRow
  <2> QED
    BY <1>5, <2>1, <2>2
<1>7. ASSUME NEW i
      PROVE  TradesIn(L, i, "OPEN") = OpenTrades(fills, i)
  <2>1. \A k : k \in TradesIn(L, i, "OPEN") <=> k \in OpenTrades(fills, i)
    BY <1>1, <1>4, <1>6 DEF TradesIn, OpenTrades, FilledFor
  <2> QED
    BY <2>1
<1>8. ASSUME NEW i
      PROVE  TradesIn(L, i, "CLOSED") = ClosedTrades(fills, i)
  <2>1. \A k : k \in TradesIn(L, i, "CLOSED") <=> k \in ClosedTrades(fills, i)
    BY <1>1, <1>4, <1>6 DEF TradesIn, ClosedTrades, FilledFor
  <2> QED
    BY <2>1
<1> QED
  BY <1>1, <1>4, <1>5, <1>7, <1>8

\* Where bars become visible one by one, every fill is for the whole target.
LEMMA TimelyQuantities ==
    ASSUME EngineInv, JournalInv, TimelyInv, NEW k \in 1..Len(fills),
           OneByOne(fills[k].order.instrument)
    PROVE  fills[k].economics.quantity = TargetQuantity
<1>1. /\ fills[k].economics.quantity = fills[k].order.quantity
      /\ fills[k].order.instrument \in Instruments
  BY FillOfOrder
<1>2. PICK o : o = fills[k].order
  OBVIOUS
<1>3. Among(orders, o)
  BY <1>2 DEF JournalInv, OrdersPlaced
<1>4. PICK n \in 1..Len(orders) : orders[n] = o
  BY <1>3 DEF Among
<1>5. TimelyTargets(o.instrument)
  BY <1>1, <1>2 DEF TimelyInv
<1>6. orders[n].instrument = o.instrument
  BY <1>4
<1>7. orders[n].quantity = TargetQuantity
  BY <1>5, <1>6 DEF TimelyTargets
<1> QED
  BY <1>1, <1>2, <1>4, <1>7

\* Where bars become visible one by one, the trades are the position and what it
\* realized.
LEMMA MatchedWhenWritten ==
    ASSUME EngineInv, JournalInv, TimelyInv, NEW L, Written(L), NEW i \in Timely
    PROVE  Matched(L, i)
<1>1. i \in Instruments /\ OneByOne(i)
  BY DEF Timely
<1>2. TradesAre(fills, i, position[i])
  BY <1>1 DEF TimelyInv
<1>3. /\ L.snapshots[i].quantity = position[i].quantity
      /\ L.snapshots[i].realized = position[i].realized
  BY <1>1, SnapshotRows
<1>4. PICK O, C : O = OpenTrades(fills, i) /\ C = ClosedTrades(fills, i)
  OBVIOUS
<1>5. TradesIn(L, i, "OPEN") = O /\ TradesIn(L, i, "CLOSED") = C
  BY <1>4, TradeRows
<1>6. ASSUME NEW k \in FilledFor(fills, i)
      PROVE  k \in 1..Len(fills) /\ fills[k].economics.quantity = TargetQuantity
  <2>1. k \in 1..Len(fills) /\ fills[k].order.instrument = i
    BY <1>6 DEF FilledFor
  <2> QED
    BY <1>1, <2>1, TimelyQuantities
<1>7. ASSUME NEW k \in O \cup C
      PROVE  /\ k \in FilledFor(fills, i) /\ k \in DOMAIN L.trades
             /\ L.trades[k] = TradeRow(k) /\ L.trades[k].quantity = TargetQuantity
             /\ fills[k].economics.side = "BUY"
  <2>1. k \in FilledFor(fills, i) /\ fills[k].economics.side = "BUY"
    BY <1>4 DEF OpenTrades, ClosedTrades
  <2>2. k \in 1..Len(fills)
    BY <1>6, <2>1
  <2>3. k \in DOMAIN L.trades /\ L.trades[k] = TradeRow(k)
    BY <2>1, <2>2, TradeRows
  <2>4. TradeRow(k).quantity = fills[k].economics.quantity
    BY DEF TradeRow
  <2> QED
    BY <1>6, <2>1, <2>3, <2>4
<1>8. TargetQuantity \in Int
  BY EngineConstants
<1>9. Summable(Bought(L), O) /\ position[i].quantity = SumOf(Bought(L), O)
  <2>1. \A k \in O : Bought(L)[k] = TargetQuantity
    BY <1>7 DEF Bought
  <2>2. CASE position[i].quantity = 0 /\ O = {}
    <3>1. Summable(Bought(L), O)
      BY <2>2, FS_EmptySet DEF Summable
    <3>2. SumOf(Bought(L), O) = 0
      BY <2>2, <3>1, SumOfInt
    <3> QED
      BY <2>2, <3>1, <3>2
  <2>3. CASE position[i].quantity = TargetQuantity /\ \E k : O = {k}
    <3>1. PICK k : O = {k}
      BY <2>3
    <3>2. Bought(L)[k] = TargetQuantity
      BY <2>1, <3>1
    <3>3. Summable(Bought(L), {k}) /\ SumOf(Bought(L), {k}) = Bought(L)[k]
      BY <1>8, <3>2, SumOfOne
    <3> QED
      BY <2>3, <3>1, <3>2, <3>3
  <2>4. \/ position[i].quantity = 0 /\ O = {}
        \/ position[i].quantity = TargetQuantity /\ \E k : O = {k}
    BY <1>2, <1>4 DEF TradesAre
  <2> QED
    BY <2>2, <2>3, <2>4
<1>10. ASSUME NEW k \in C
       PROVE  /\ L.trades[k].exited = L.trades[k].quantity
              /\ Earned(L)[k] = Results(fills)[k]
  <2>1. /\ k \in FilledFor(fills, i) /\ k \in DOMAIN L.trades
        /\ L.trades[k] = TradeRow(k) /\ L.trades[k].quantity = TargetQuantity
        /\ fills[k].economics.side = "BUY"
    BY <1>7
  <2>2. k \in 1..Len(fills) /\ fills[k].economics.quantity = TargetQuantity
    BY <1>6, <2>1
  <2>3. PICK j : j \in ExitsIn(fills, k)
    BY <1>4 DEF ClosedTrades
  <2>4. Len(fills) \in Nat
    BY DEF EngineInv, TypeOK
  <2>5. /\ j \in 1..Len(fills) /\ fills[j].economics.side = "SELL"
        /\ fills[j].order.instrument = fills[k].order.instrument
        /\ ExitsIn(fills, k) = {j}
    BY <2>3, <2>4, ExitFacts
  <2>6. fills[j].economics.quantity = TargetQuantity
    <3>1. j \in FilledFor(fills, i)
      BY <2>1, <2>5 DEF FilledFor
    <3> QED
      BY <1>6, <3>1
  <2>7. /\ TradeRow(k).exited = fills[j].economics.quantity
        /\ TradeRow(k).net_pnl + TradeRow(k).slippage
             = CashDelta(fills[k].economics) + CashDelta(fills[j].economics)
    BY <2>1, <2>2, <2>5, <2>6, ClosedRow
  <2>8. Earned(L)[k] = TradeRow(k).net_pnl + TradeRow(k).slippage
    BY <2>1 DEF Earned
  <2>9. (CHOOSE x \in ExitsIn(fills, k) : TRUE) = j
    BY <2>5
  <2>10. Results(fills)[k] = CashDelta(fills[k].economics) + CashDelta(fills[j].economics)
    BY <2>2, <2>9 DEF Results
  <2> QED
    BY <2>1, <2>6, <2>7, <2>8, <2>10
<1>11. Summable(Earned(L), C) /\ position[i].realized = SumOf(Earned(L), C)
  <2>1. PICK g, h : g = Results(fills) /\ h = Earned(L)
    OBVIOUS
  <2>2. fills \in Seq(Fill)
    BY DEF EngineInv, TypeOK
  <2>3. Summable(g, C)
    BY <1>4, <2>1, <2>2, ResultsSummable
  <2>4. \A k \in C : g[k] = h[k]
    BY <1>10, <2>1
  <2>5. SumOf(g, C) = SumOf(h, C)
    BY <2>3, <2>4, SumOfEqual
  <2>6. Summable(h, C)
    BY <2>3, <2>4 DEF Summable
  <2>7. position[i].realized = SumOf(g, C)
    BY <1>2, <1>4, <2>1 DEF TradesAre
  <2> QED
    BY <2>1, <2>5, <2>6, <2>7
<1> QED
  BY <1>3, <1>5, <1>9, <1>10, <1>11 DEF Matched

\* The summary says what the positions made, and how many trades were closed.
LEMMA SummedWhenWritten ==
    ASSUME EngineInv, JournalInv, Books, outcome = "completed", NEW L, Written(L)
    PROVE  Summed(L)
<1>1. L.summary.net_pnl = Equity - InitialCapital /\ L.summary.trade_count = Cardinality(DOMAIN ClosedTradePnls)
  BY DEF Written, Summary
<1>2. Summable(Gains(L), Instruments) /\ Equity - InitialCapital = SumOf(Gains(L), Instruments)
  <2>1. PICK w, a, c : /\ w = Worth(position, valuations)
                       /\ a = [i \in Instruments |-> position[i].realized]
                       /\ c = [i \in Instruments |-> position[i].cost]
    OBVIOUS
  <2>2. /\ Summable(w, Instruments) /\ Equity = cash + SumOf(w, Instruments)
        /\ \A i \in Instruments : MarketValue(i) = w[i]
    BY <2>1, EquityIs
  <2>3. Summable(a, Instruments) /\ Summable(c, Instruments)
    <3>1. position \in [Instruments -> Position]
      BY DEF EngineInv, TypeOK
    <3> QED
      BY <2>1, <3>1, PositionsSummable
  <2>4. PICK g : g = Gains(L)
    OBVIOUS
  <2>5. \A i \in Instruments : g[i] = a[i] + w[i] - c[i]
    <3> TAKE i \in Instruments
    <3>1. /\ L.snapshots[i].realized = position[i].realized
          /\ L.snapshots[i].unrealized = MarketValue(i) - position[i].cost
      BY SnapshotRows
    <3>2. g[i] = position[i].realized + (MarketValue(i) - position[i].cost)
      BY <2>4, <3>1 DEF Gains
    <3>3. a[i] = position[i].realized /\ c[i] = position[i].cost /\ MarketValue(i) = w[i]
      BY <2>1, <2>2
    <3>4. a[i] \in Int /\ w[i] \in Int /\ c[i] \in Int
      BY <2>2, <2>3 DEF Summable
    <3>5. g[i] = a[i] + (w[i] - c[i])
      BY <3>2, <3>3
    <3> QED
      BY <3>4, <3>5
  <2>6. /\ Summable(g, Instruments)
        /\ SumOf(g, Instruments) = SumOf(a, Instruments) + SumOf(w, Instruments) - SumOf(c, Instruments)
    BY <2>2, <2>3, <2>5, SumOfThree
  <2>7. cash + SumOf(c, Instruments) = InitialCapital + SumOf(a, Instruments)
    BY <2>1 DEF Books, CostHeld, RealizedBy
  <2>8. SumOf(a, Instruments) \in Int /\ SumOf(w, Instruments) \in Int /\ SumOf(c, Instruments) \in Int
    BY <2>2, <2>3, SumOfInt
  <2>9. PICK x \in Int, y \in Int, z \in Int :
           x = SumOf(a, Instruments) /\ y = SumOf(w, Instruments) /\ z = SumOf(c, Instruments)
    BY <2>8
  <2>10. cash \in Int /\ InitialCapital \in Int
    BY EngineConstants, AmountTypes DEF EngineInv, TypeOK
  <2>11. cash + z = InitialCapital + x
    BY <2>7, <2>9
  <2>12. (cash + y) - InitialCapital = x + y - z
    BY <2>10, <2>11
  <2> QED
    BY <2>2, <2>4, <2>6, <2>9, <2>12
<1>3. /\ Summable(Counts(L), Instruments)
      /\ Cardinality(DOMAIN ClosedTradePnls) = SumOf(Counts(L), Instruments)
  <2>1. PICK C : C = DOMAIN ClosedTradePnls
    OBVIOUS
  <2>2. \A k : k \in C <=> k \in 1..Len(fills) /\ fills[k].economics.side = "BUY" /\ ExitsIn(fills, k) # {}
    BY <2>1, EntriesAndExits DEF ClosedTradePnls, Buys
  <2>3. IsFiniteSet(C)
    <3>1. IsFiniteSet(1..Len(fills))
      BY FS_Interval DEF EngineInv, TypeOK
    <3>2. C \in SUBSET (1..Len(fills))
      BY <2>2
    <3> QED
      BY <3>1, <3>2, FS_Subset
  <2>4. PICK label : label = [k \in 1..Len(fills) |-> fills[k].order.instrument]
    OBVIOUS
  <2>5. \A k \in C : label[k] = fills[k].order.instrument /\ label[k] \in Instruments
    BY <2>2, <2>4, FillOfOrder
  <2>6. ASSUME NEW i \in Instruments
        PROVE  Counts(L)[i] = Cardinality({b \in C : label[b] = i})
    <3>1. \A k : k \in ClosedTrades(fills, i) <=> k \in {b \in C : label[b] = i}
      BY <2>2, <2>5 DEF ClosedTrades, FilledFor
    <3>2. ClosedTrades(fills, i) = {b \in C : label[b] = i}
      BY <3>1
    <3>3. TradesIn(L, i, "CLOSED") = ClosedTrades(fills, i)
      BY TradeRows
    <3>4. Counts(L)[i] = Cardinality(TradesIn(L, i, "CLOSED"))
      BY DEF Counts
    <3> QED
      BY <3>2, <3>3, <3>4
  <2>7. PICK parts : parts = Counts(L)
    OBVIOUS
  <2>8. \A i \in Instruments : parts[i] = Cardinality({b \in C : label[b] = i})
    BY <2>6, <2>7
  <2>9. IsFiniteSet(Instruments)
    BY EngineConstants
  <2>10. Parted(parts, C, Instruments, label)
    BY <2>3, <2>5, <2>8, <2>9 DEF Parted
  <2>11. Summable(parts, Instruments) /\ SumOf(parts, Instruments) = Cardinality(C)
    BY <2>10, CountParts
  <2> QED
    BY <2>1, <2>7, <2>11
<1> QED
  BY <1>1, <1>2, <1>3 DEF Summed

\* The tables as they are written tell one story.
LEMMA StoryWritten ==
    ASSUME EngineInv, JournalInv, TimelyInv, Books, CashBooked, Persist
    PROVE  Story(ledger', Timely)
<1>1. PICK L : L = ledger'
  OBVIOUS
<1>2. outcome = "completed"
  BY DEF Persist
<1>3. Written(L)
  BY <1>1 DEF Persist, Written
<1>4. Rebuilt(L)
  BY <1>2, <1>3, RebuiltWhenWritten
<1>5. Summed(L)
  BY <1>2, <1>3, SummedWhenWritten
<1>6. \A i \in Timely : Matched(L, i)
  BY <1>3, MatchedWhenWritten
<1>7. Story(L, Timely)
  BY <1>4, <1>5, <1>6 DEF Story
<1> QED
  BY <1>1, <1>7

\* StoryInv is inductive.
LEMMA StoryStep ==
    ASSUME EngineInv, JournalInv, TimelyInv, Books, CashBooked, StoryInv, [LedgerNext]_<<vars, ledger>>
    PROVE  StoryInv'
<1>1. /\ LedgerLast'
      /\ \/ ledger' = NoLedger
         \/ ledger = NoLedger /\ Persist
         \/ ledger = NoLedger /\ MarkFailed
         \/ UNCHANGED <<vars, ledger>>
  BY LedgerSteps DEF StoryInv
<1>2. UNCHANGED vars => Timely' = Timely
  BY DEF vars, Timely, OneByOne
<1>3. CASE ~Recorded'
  BY <1>1, <1>3 DEF StoryInv
<1>4. CASE Persist
  <2>1. Story(ledger', Timely)
    BY <1>4, StoryWritten
  <2>2. UNCHANGED vars
    BY <1>4 DEF Persist
  <2> QED
    BY <1>1, <1>2, <2>1, <2>2 DEF StoryInv
<1>5. CASE UNCHANGED <<vars, ledger>>
  <2>1. ledger' = ledger /\ UNCHANGED vars
    BY <1>5
  <2>2. Recorded' <=> Recorded
    BY <2>1 DEF Recorded
  <2> QED
    BY <1>1, <1>2, <2>1, <2>2 DEF StoryInv
<1>6. ledger' = NoLedger \/ MarkFailed => ~Recorded'
  BY DEF Recorded, NoLedger, FailedLedger, MarkFailed
<1> QED
  BY <1>1, <1>3, <1>4, <1>5, <1>6

\* The tables of every recorded run agree with each other, for every dataset, rate and
\* capital: ledgers, snapshots, equity and summary always, and the trades where bars
\* become visible one by one (persist, _summary, _closed_trade_pnls).
THEOREM LedgersAgree == LedgerSpec => []LedgersTellOneStory
<1>1. LedgerInit => StoryInv
  <2> SUFFICES ASSUME LedgerInit
               PROVE  StoryInv
    OBVIOUS
  <2>1. ledger = NoLedger
    BY DEF LedgerInit
  <2>2. ~Recorded
    BY <2>1 DEF Recorded, NoLedger
  <2> QED
    BY <2>1, <2>2 DEF StoryInv, LedgerLast
<1>2. EngineInv /\ JournalInv /\ TimelyInv /\ Books /\ CashBooked /\ StoryInv
        /\ [LedgerNext]_<<vars, ledger>> => StoryInv'
  BY StoryStep
<1>3. StoryInv => LedgersTellOneStory
  BY StoryTold DEF StoryInv
<1> QED
  BY <1>1, <1>2, <1>3, LedgerRuns, EngineInvariant, JournalKept, TimelyKept, BooksKept, CashIsBooked, PTL
     DEF LedgerSpec

-----------------------------------------------------------------------------
(* Point-in-time replay: the steps of a simulation as a relation between the    *)
(* states of one call, so that what is shown of it holds of both.               *)

\* The states of the two calls, without what no later step reads.
State1 == [data |-> data, upcoming |-> upcoming, now |-> now, filling |-> filling,
           deciding |-> deciding, pending |-> pending, cash |-> cash,
           position |-> position, decisions |-> decisions, fills |-> fills,
           outcome |-> outcome]
State2 == [data |-> data2, upcoming |-> upcoming2, now |-> now2, filling |-> filling2,
           deciding |-> deciding2, pending |-> pending2, cash |-> cash2,
           position |-> position2, decisions |-> decisions2, fills |-> fills2,
           outcome |-> outcome2]

\* The orders in which orders of an instant are tried and its events are decided.
InKeyOrder(S) == Sorted(S, LAMBDA a, b : KeyRank(a.sequence) < KeyRank(b.sequence))
InEventOrder(S) == Sorted(S, EventBefore)

\* The waiting orders that are taken at an instant.
DueAt(waiting, ts) == {o \in waiting : o.bar.available = ts}

\* NextInstant
Advances(s, t) ==
    /\ s.filling = <<>> /\ s.deciding = <<>> /\ s.upcoming # {}
    /\ t.now = Min(s.upcoming) /\ t.upcoming = s.upcoming \ {t.now}
    /\ t.pending = s.pending \ DueAt(s.pending, t.now)
    /\ t.filling = InKeyOrder(DueAt(s.pending, t.now))
    /\ t.deciding = InEventOrder(DecisionEvents(s.data, t.now))
    /\ t.data = s.data /\ t.cash = s.cash /\ t.position = s.position
    /\ t.decisions = s.decisions /\ t.fills = s.fills /\ t.outcome = s.outcome

\* The portfolio takes the fill of an order.
Takes(money, held, o) ==
    LET e == PriceFill(o.side, o.quantity, o.bar.close)
    IN  IF e.side = "BUY" THEN -CashDelta(e) <= money
                          ELSE e.quantity <= held[o.instrument].quantity

\* What a fill leaves behind: cash, position, and its entry in the journal.
MoneyAfter(money, o) == money + CashDelta(PriceFill(o.side, o.quantity, o.bar.close))
HeldAfter(held, o) ==
    [held EXCEPT ![o.instrument] = ApplyFill(@, PriceFill(o.side, o.quantity, o.bar.close))]
FillEntry(o) == [order |-> o, ts |-> o.bar.available,
                 economics |-> PriceFill(o.side, o.quantity, o.bar.close)]

\* FillOrder
Tries(s, t) ==
    /\ s.filling # <<>>
    /\ \/ /\ Takes(s.cash, s.position, Head(s.filling))
          /\ t.cash = MoneyAfter(s.cash, Head(s.filling))
          /\ t.position = HeldAfter(s.position, Head(s.filling))
          /\ t.fills = Append(s.fills, FillEntry(Head(s.filling)))
       \/ /\ ~Takes(s.cash, s.position, Head(s.filling))
          /\ t.cash = s.cash /\ t.position = s.position /\ t.fills = s.fills
    /\ t.filling = Tail(s.filling)
    /\ t.data = s.data /\ t.upcoming = s.upcoming /\ t.now = s.now
    /\ t.deciding = s.deciding /\ t.pending = s.pending
    /\ t.decisions = s.decisions /\ t.outcome = s.outcome

\* What a decision of an event reads, asks for and writes down.
InputsOf(d, event, ts) == LastBars(VisibleBars(d["signal"][event.instrument], ts), SlowWindow)
ExecutionsOf(d, event, ts) ==
    NextExecutionBar(d["execution"][event.instrument], event.trigger.open, ts,
                     Lag[event.instrument])
DecisionEntry(event, ts, inputs, money, held) ==
    [instrument |-> event.instrument, ts |-> ts, trigger |-> event.trigger,
     inputs |-> inputs, cash |-> money, state |-> held[event.instrument]]
OrderEntry(n, event, ts, held, target, bars) ==
    [sequence |-> n, instrument |-> event.instrument,
     side |-> IF target > held THEN "BUY" ELSE "SELL",
     quantity |-> IF target > held THEN target - held ELSE held - target,
     submitted_at |-> ts, trigger |-> event.trigger,
     bar |-> IF bars = {} THEN None ELSE CHOOSE bar \in bars : TRUE]

\* One decision, with what it reads and the order it leads to.
DecidesOn(s, t, event, inputs, order) ==
    /\ event = Head(s.deciding)
    /\ inputs = InputsOf(s.data, event, s.now)
    /\ order = OrderEntry(Len(s.decisions) + 1, event, s.now,
                          s.position[event.instrument].quantity, Target(inputs),
                          ExecutionsOf(s.data, event, s.now))
    /\ t.decisions = Append(s.decisions, DecisionEntry(event, s.now, inputs, s.cash, s.position))
    /\ \/ /\ Target(inputs) = s.position[event.instrument].quantity \/ order.bar = None
          /\ t.pending = s.pending /\ t.upcoming = s.upcoming
       \/ /\ Target(inputs) # s.position[event.instrument].quantity /\ order.bar # None
          /\ t.pending = s.pending \cup {order}
          /\ t.upcoming = s.upcoming \cup ({order.bar.available} \ {s.now})

\* Decide
Decides(s, t) ==
    /\ s.filling = <<>> /\ s.deciding # <<>>
    /\ \E event, inputs, order : DecidesOn(s, t, event, inputs, order)
    /\ t.deciding = Tail(s.deciding)
    /\ t.data = s.data /\ t.now = s.now /\ t.filling = s.filling
    /\ t.cash = s.cash /\ t.position = s.position /\ t.fills = s.fills
    /\ t.outcome = s.outcome

\* ValuePositions
Ends(s, t) ==
    /\ s.filling = <<>> /\ s.deciding = <<>> /\ s.upcoming = {}
    /\ t.data = s.data /\ t.upcoming = s.upcoming /\ t.now = s.now
    /\ t.filling = s.filling /\ t.deciding = s.deciding /\ t.pending = s.pending
    /\ t.cash = s.cash /\ t.position = s.position
    /\ t.decisions = s.decisions /\ t.fills = s.fills

\* A step of one call.
Steps(s, t) == Advances(s, t) \/ Tries(s, t) \/ Decides(s, t) \/ Ends(s, t)

\* The steps of the first call.
LEMMA FirstSteps == Next => Steps(State1, State1')
<1>1. NextInstant => Advances(State1, State1')
  BY DEF NextInstant, Due, Advances, State1, InKeyOrder, InEventOrder, DueAt
<1>2. FillOrder => Tries(State1, State1')
  BY DEF FillOrder, CanApply, Tries, State1, Takes, MoneyAfter, HeldAfter, FillEntry
<1>3. ASSUME Decide
      PROVE  Decides(State1, State1')
  <2>1. PICK event : event = Head(deciding)
    OBVIOUS
  <2>2. PICK inputs : inputs = InputsOf(data, event, now)
    OBVIOUS
  <2>3. PICK held : held = position[event.instrument].quantity
    OBVIOUS
  <2>4. PICK order : order = OrderEntry(Len(decisions) + 1, event, now, held, Target(inputs),
                                        ExecutionsOf(data, event, now))
    OBVIOUS
  <2>5. order = NewOrder(Len(decisions) + 1, event, held, Target(inputs))
    BY <2>4 DEF NewOrder, OrderEntry, ExecutionsOf
  <2>6. inputs = LastBars(VisibleBars(data["signal"][event.instrument], now), SlowWindow)
    BY <2>2 DEF InputsOf
  <2>7. decisions' = Append(decisions, DecisionEntry(event, now, inputs, cash, position))
    BY <1>3, <2>1, <2>6 DEF Decide, DecisionEntry
  <2>8. \/ /\ Target(inputs) = held \/ order.bar = None
           /\ pending' = pending /\ upcoming' = upcoming
        \/ /\ Target(inputs) # held /\ order.bar # None
           /\ pending' = pending \cup {order}
           /\ upcoming' = upcoming \cup ({order.bar.available} \ {now})
    BY <1>3, <2>1, <2>3, <2>5, <2>6, Zenon DEF Decide, Schedule
  <2>9. /\ filling = <<>> /\ deciding # <<>> /\ deciding' = Tail(deciding)
        /\ data' = data /\ now' = now /\ filling' = filling
        /\ cash' = cash /\ position' = position /\ fills' = fills
        /\ outcome' = outcome
    BY <1>3 DEF Decide
  <2>10. DecidesOn(State1, State1', event, inputs, order)
    BY <2>1, <2>2, <2>3, <2>4, <2>7, <2>8, Zenon DEF DecidesOn, State1
  <2>11. /\ State1.filling = <<>> /\ State1.deciding # <<>>
         /\ State1'.deciding = Tail(State1.deciding)
         /\ State1'.data = State1.data /\ State1'.now = State1.now
         /\ State1'.filling = State1.filling /\ State1'.cash = State1.cash
         /\ State1'.position = State1.position /\ State1'.fills = State1.fills
         /\ State1'.outcome = State1.outcome
    BY <2>9 DEF State1
  <2> QED
    BY <2>10, <2>11 DEF Decides
<1>4. ValuePositions => Ends(State1, State1')
  BY DEF ValuePositions, Ends, State1
<1> QED
  BY <1>1, <1>2, <1>3, <1>4 DEF Next, Steps

\* The operators of the other call are those of the first.
LEMMA SameOperators ==
    /\ \A S : Other!Min(S) = Min(S)
    /\ \A S : Other!Sorted(S, LAMBDA a, b : Other!KeyRank(a.sequence) < Other!KeyRank(b.sequence))
                = InKeyOrder(S)
    /\ \A S : Other!Sorted(S, Other!EventBefore) = InEventOrder(S)
    /\ \A d, ts : Other!DecisionEvents(d, ts) = DecisionEvents(d, ts)
    /\ \A d : Other!DecisionInstants(d) = DecisionInstants(d)
    /\ \A side, q, reference : Other!PriceFill(side, q, reference) = PriceFill(side, q, reference)
    /\ \A e : Other!CashDelta(e) = CashDelta(e)
    /\ \A state, e : Other!ApplyFill(state, e) = ApplyFill(state, e)
    /\ \A rows, ts : Other!VisibleBars(rows, ts) = VisibleBars(rows, ts)
    /\ \A bars, n : Other!LastBars(bars, n) = LastBars(bars, n)
    /\ \A inputs : Other!Target(inputs) = Target(inputs)
    /\ \A rows, open, ts, lag :
          Other!NextExecutionBar(rows, open, ts, lag) = NextExecutionBar(rows, open, ts, lag)
<1>1. \A S : Other!Min(S) = Min(S)
  BY DEF Other!Min, Min
<1>2. ASSUME NEW S
      PROVE  Other!Sorted(S, LAMBDA a, b : Other!KeyRank(a.sequence) < Other!KeyRank(b.sequence))
                = InKeyOrder(S)
  BY DEF InKeyOrder, Other!Sorted, Sorted, Other!Cardinality, Cardinality, Other!KeyRank, KeyRank
<1>3. ASSUME NEW S
      PROVE  Other!Sorted(S, Other!EventBefore) = InEventOrder(S)
  BY DEF InEventOrder, Other!Sorted, Sorted, Other!Cardinality, Cardinality,
         Other!EventBefore, EventBefore
<1>4. ASSUME NEW d, NEW ts
      PROVE  Other!DecisionEvents(d, ts) = DecisionEvents(d, ts)
  BY DEF Other!DecisionEvents, DecisionEvents, Other!Range, Range,
         Other!DecisionSchedule, DecisionSchedule, Other!FirstVisibility, FirstVisibility,
         Other!Selected, Selected, Other!RevisionsOf, RevisionsOf,
         Other!NewestRevision, NewestRevision, Other!Opens, Opens, Other!Min, Min
<1>5. ASSUME NEW d
      PROVE  Other!DecisionInstants(d) = DecisionInstants(d)
  BY <1>4 DEF Other!DecisionInstants, DecisionInstants, Other!Range, Range
<1>6. \A side, q, reference : Other!PriceFill(side, q, reference) = PriceFill(side, q, reference)
  BY DEF Other!PriceFill, PriceFill
<1>7. \A e : Other!CashDelta(e) = CashDelta(e)
  BY DEF Other!CashDelta, CashDelta
<1>8. ASSUME NEW state, NEW e
      PROVE  Other!ApplyFill(state, e) = ApplyFill(state, e)
  BY DEF Other!ApplyFill, ApplyFill, Other!CashDelta, CashDelta, Other!CostOf, CostOf
<1>9. ASSUME NEW rows, NEW ts
      PROVE  Other!VisibleBars(rows, ts) = VisibleBars(rows, ts)
  BY DEF Other!VisibleBars, VisibleBars, Other!Sorted, Sorted, Other!Cardinality, Cardinality,
         Other!Selected, Selected, Other!RevisionsOf, RevisionsOf,
         Other!NewestRevision, NewestRevision, Other!Opens, Opens
<1>10. \A bars, n : Other!LastBars(bars, n) = LastBars(bars, n)
  BY DEF Other!LastBars, LastBars
<1>11. ASSUME NEW inputs
       PROVE  Other!Target(inputs) = Target(inputs)
  BY DEF Other!Target, Target, Other!SumOfCloses, SumOfCloses, Other!LastBars, LastBars,
         Other!SumFunction, SumFunction, Other!SumFunctionOnSet, SumFunctionOnSet,
         Other!FoldFunctionOnSet, FoldFunctionOnSet, Other!MapThenFoldSet, MapThenFoldSet
<1>12. ASSUME NEW rows, NEW open, NEW ts, NEW lag
       PROVE  Other!NextExecutionBar(rows, open, ts, lag) = NextExecutionBar(rows, open, ts, lag)
  BY DEF Other!NextExecutionBar, NextExecutionBar, Other!FirstVisibility, FirstVisibility,
         Other!Selected, Selected, Other!RevisionsOf, RevisionsOf,
         Other!NewestRevision, NewestRevision, Other!Opens, Opens, Other!Min, Min
<1> QED
  BY <1>1, <1>2, <1>3, <1>4, <1>5, <1>6, <1>7, <1>8, <1>9, <1>10, <1>11, <1>12

\* The steps of the other call.
LEMMA OtherSteps == Other!Next => Steps(State2, State2')
<1>1. Other!NextInstant => Advances(State2, State2')
  BY SameOperators DEF Other!NextInstant, Other!Due, Advances, State2, DueAt
<1>2. ASSUME Other!FillOrder
      PROVE  Tries(State2, State2')
  <2>1. PICK o : o = Head(filling2)
    OBVIOUS
  <2>2. PICK e : e = PriceFill(o.side, o.quantity, o.bar.close)
    OBVIOUS
  <2>3. /\ e = Other!PriceFill(o.side, o.quantity, o.bar.close)
        /\ Other!CashDelta(e) = CashDelta(e)
        /\ \A state : Other!ApplyFill(state, e) = ApplyFill(state, e)
    BY <2>2, SameOperators
  <2>4. Takes(cash2, position2, o) <=> Other!CanApply(o.instrument, e)
    BY <2>2, <2>3 DEF Takes, Other!CanApply
  <2>5. \/ /\ Takes(cash2, position2, o)
           /\ cash2' = MoneyAfter(cash2, o) /\ position2' = HeldAfter(position2, o)
           /\ fills2' = Append(fills2, FillEntry(o))
        \/ /\ ~Takes(cash2, position2, o)
           /\ cash2' = cash2 /\ position2' = position2 /\ fills2' = fills2
    BY <1>2, <2>1, <2>2, <2>3, <2>4 DEF Other!FillOrder, MoneyAfter, HeldAfter, FillEntry
  <2>6. /\ filling2 # <<>> /\ filling2' = Tail(filling2)
        /\ data2' = data2 /\ upcoming2' = upcoming2 /\ now2' = now2 /\ deciding2' = deciding2
        /\ pending2' = pending2 /\ decisions2' = decisions2 /\ outcome2' = outcome2
    BY <1>2 DEF Other!FillOrder
  <2> QED
    BY <2>1, <2>5, <2>6 DEF Tries, State2
<1>3. ASSUME Other!Decide
      PROVE  Decides(State2, State2')
  <2>1. PICK event : event = Head(deciding2)
    OBVIOUS
  <2>2. PICK inputs : inputs = InputsOf(data2, event, now2)
    OBVIOUS
  <2>3. PICK held : held = position2[event.instrument].quantity
    OBVIOUS
  <2>4. PICK order : order = OrderEntry(Len(decisions2) + 1, event, now2, held, Target(inputs),
                                        ExecutionsOf(data2, event, now2))
    OBVIOUS
  <2>5. order = Other!NewOrder(Len(decisions2) + 1, event, held, Other!Target(inputs))
    BY <2>4, SameOperators DEF Other!NewOrder, OrderEntry, ExecutionsOf
  <2>6. inputs = Other!LastBars(Other!VisibleBars(data2["signal"][event.instrument], now2), SlowWindow)
    BY <2>2, SameOperators DEF InputsOf
  <2>7. decisions2' = Append(decisions2, DecisionEntry(event, now2, inputs, cash2, position2))
    BY <1>3, <2>1, <2>6 DEF Other!Decide, DecisionEntry
  <2>8. Other!Target(inputs) = Target(inputs)
    BY SameOperators
  <2>9. \/ /\ Target(inputs) = held \/ order.bar = None
           /\ pending2' = pending2 /\ upcoming2' = upcoming2
        \/ /\ Target(inputs) # held /\ order.bar # None
           /\ pending2' = pending2 \cup {order}
           /\ upcoming2' = upcoming2 \cup ({order.bar.available} \ {now2})
    BY <1>3, <2>1, <2>3, <2>5, <2>6, <2>8, Zenon DEF Other!Decide, Other!Schedule
  <2>10. /\ filling2 = <<>> /\ deciding2 # <<>> /\ deciding2' = Tail(deciding2)
         /\ data2' = data2 /\ now2' = now2 /\ filling2' = filling2
         /\ cash2' = cash2 /\ position2' = position2 /\ fills2' = fills2
         /\ outcome2' = outcome2
    BY <1>3 DEF Other!Decide
  <2>11. DecidesOn(State2, State2', event, inputs, order)
    BY <2>1, <2>2, <2>3, <2>4, <2>7, <2>9 DEF DecidesOn, State2
  <2>12. /\ State2.filling = <<>> /\ State2.deciding # <<>>
         /\ State2'.deciding = Tail(State2.deciding)
         /\ State2'.data = State2.data /\ State2'.now = State2.now
         /\ State2'.filling = State2.filling /\ State2'.cash = State2.cash
         /\ State2'.position = State2.position /\ State2'.fills = State2.fills
         /\ State2'.outcome = State2.outcome
    BY <2>10 DEF State2
  <2> QED
    BY <2>11, <2>12 DEF Decides
<1>4. Other!ValuePositions => Ends(State2, State2')
  BY DEF Other!ValuePositions, Ends, State2
<1> QED
  BY <1>1, <1>2, <1>3, <1>4 DEF Other!Next, Steps

-----------------------------------------------------------------------------
(* What two datasets that agree up to an instant have in common by then *)

\* The rows of a component that are visible by an instant.
UpTo(rows, ts) == {row \in rows : row.available <= ts}

\* Selection at an instant reads no later rows.
LEMMA SameSelected ==
    ASSUME NEW a, NEW b, Component(a), Component(b), NEW ts \in Nat, UpTo(a, ts) = UpTo(b, ts),
           NEW t \in Nat, t <= ts, NEW open
    PROVE  Selected(a, open, t) = Selected(b, open, t)
<1> DEFINE V(rows) == {row \in RevisionsOf(rows, open) : row.available <= t}
<1>1. \A row : row \in UpTo(a, ts) <=> row \in UpTo(b, ts)
  OBVIOUS
<1>2. \A row \in a \cup b : row.available \in Nat
  BY DEF Component, Bar
<1>3. \A row : row \in V(a) <=> row \in V(b)
  BY <1>1, <1>2 DEF UpTo, RevisionsOf
<1>4. V(a) = V(b)
  BY <1>3
<1> QED
  BY <1>4 DEF Selected

\* The order of the bars that a strategy is given.
InOpenOrder(S) == Sorted(S, LAMBDA a, b : a.open < b.open)

\* Neither do the inputs of a decision.
LEMMA SameVisible ==
    ASSUME NEW a, NEW b, Component(a), Component(b), NEW ts \in Nat, UpTo(a, ts) = UpTo(b, ts),
           NEW t \in Nat, t <= ts
    PROVE  VisibleBars(a, t) = VisibleBars(b, t)
<1>1. \A open : Selected(a, open, t) = Selected(b, open, t)
  BY SameSelected
<1>2. /\ \A row \in AllSelected(a, t) : row.open \in Opens(a) /\ row \in Selected(a, row.open, t)
      /\ \A row \in AllSelected(b, t) : row.open \in Opens(b) /\ row \in Selected(b, row.open, t)
  BY SelectedRow DEF AllSelected
<1>3. /\ \A open : Selected(a, open, t) # {} => open \in Opens(a)
      /\ \A open : Selected(b, open, t) # {} => open \in Opens(b)
  BY SelectedRow DEF Opens
<1>4. AllSelected(a, t) = AllSelected(b, t)
  BY <1>1, <1>2, <1>3 DEF AllSelected
<1>5. VisibleBars(a, t) = InOpenOrder(AllSelected(a, t)) /\ VisibleBars(b, t) = InOpenOrder(AllSelected(b, t))
  BY DEF VisibleBars, AllSelected, InOpenOrder
<1> QED
  BY <1>4, <1>5

\* A bar that is visible by then became visible at the same instant.
LEMMA SameFirst ==
    ASSUME NEW a, NEW b, Component(a), Component(b), NEW ts \in Nat, UpTo(a, ts) = UpTo(b, ts),
           NEW open \in Opens(a), FirstVisibility(a, open) <= ts
    PROVE  open \in Opens(b) /\ FirstVisibility(b, open) = FirstVisibility(a, open)
<1>1. /\ FirstVisibility(a, open) \in Nat
      /\ \A row \in a : row.open = open => FirstVisibility(a, open) <= row.available
  BY FirstVisibilityLeast
<1>2. PICK row \in a : row.open = open /\ row.available = FirstVisibility(a, open)
  BY FirstVisibilityLeast
<1>3. row \in b
  BY <1>2 DEF UpTo
<1>4. open \in Opens(b)
  BY <1>2, <1>3 DEF Opens
<1>5. /\ FirstVisibility(b, open) \in Nat
      /\ \A r \in b : r.open = open => FirstVisibility(b, open) <= r.available
  BY <1>4, FirstVisibilityLeast
<1>6. PICK r \in b : r.open = open /\ r.available = FirstVisibility(b, open)
  BY <1>4, FirstVisibilityLeast
<1>7. FirstVisibility(b, open) <= FirstVisibility(a, open)
  BY <1>2, <1>3, <1>5
<1>8. r \in a
  BY <1>1, <1>5, <1>6, <1>7 DEF UpTo
<1>9. FirstVisibility(a, open) <= FirstVisibility(b, open)
  BY <1>1, <1>6, <1>8
<1> QED
  BY <1>1, <1>4, <1>5, <1>7, <1>9

\* No bar of a component becomes visible before one that opens earlier.
InOrder(rows) ==
    \A x, y \in Opens(rows) : x < y => FirstVisibility(rows, x) <= FirstVisibility(rows, y)

\* An execution bar that is visible by then is the execution bar for both.  The search
\* goes by opening and passes over bars of the future, which is why these must not open
\* earlier than bars that are visible.
LEMMA SameExecution ==
    ASSUME NEW a, NEW b, Component(a), Component(b), NEW ts \in Nat, UpTo(a, ts) = UpTo(b, ts),
           InOrder(b), NEW signal_open, NEW submitted_at, NEW lag,
           NEW bar \in NextExecutionBar(a, signal_open, submitted_at, lag), bar.available <= ts
    PROVE  NextExecutionBar(b, signal_open, submitted_at, lag)
             = NextExecutionBar(a, signal_open, submitted_at, lag)
<1> DEFINE Later(rows) == {open \in Opens(rows) :
                             open > signal_open /\ FirstVisibility(rows, open) >= submitted_at + lag}
<1>1. PICK m : m = Min(Later(a))
  OBVIOUS
<1>2. /\ Later(a) # {} /\ bar \in Selected(a, m, FirstVisibility(a, m))
      /\ NextExecutionBar(a, signal_open, submitted_at, lag) = Selected(a, m, FirstVisibility(a, m))
  BY <1>1 DEF NextExecutionBar
<1>3. Later(a) \subseteq Nat /\ Later(b) \subseteq Nat
  BY DEF Opens, Component, Bar
<1>4. m \in Later(a) /\ \A x \in Later(a) : m <= x
  <2> DEFINE L == Later(a)
  <2>1. L \subseteq Nat /\ L # {} /\ m = Min(L)
    BY <1>1, <1>2, <1>3
  <2> HIDE DEF L
  <2>2. m \in L /\ \A x \in L : m <= x
    BY <2>1, MinLeast
  <2> QED
    BY <2>2 DEF L
<1>5. bar \in a /\ bar.open = m /\ bar.available = FirstVisibility(a, m)
  <2>1. bar.open = m
    BY <1>2, SelectedRow
  <2> QED
    BY <2>1, NextExecutionRow
<1>6. m \in Opens(b) /\ FirstVisibility(b, m) = FirstVisibility(a, m)
  BY <1>4, <1>5, SameFirst
<1>7. m \in Later(b)
  BY <1>4, <1>6
<1>8. ASSUME NEW x \in Later(b), x < m
      PROVE  FALSE
  <2>1. x \in Opens(b) /\ FirstVisibility(b, x) <= FirstVisibility(b, m)
    BY <1>6, <1>8 DEF InOrder
  <2>2. FirstVisibility(b, x) \in Nat /\ FirstVisibility(a, m) \in Nat
    BY <1>4, <2>1, FirstVisibilityLeast
  <2>3. FirstVisibility(b, x) <= ts
    BY <1>5, <1>6, <2>1, <2>2
  <2>4. x \in Opens(a) /\ FirstVisibility(a, x) = FirstVisibility(b, x)
    BY <2>1, <2>3, SameFirst
  <2>5. x \in Later(a)
    BY <1>8, <2>4
  <2> QED
    BY <1>3, <1>4, <1>8, <2>5
<1>9. m = Min(Later(b))
  <2> DEFINE L == Later(b)
  <2>1. L \subseteq Nat /\ L # {} /\ m \in L
    BY <1>3, <1>7
  <2>2. \A x \in L : ~(x < m)
    BY <1>8
  <2> HIDE DEF L
  <2>3. Min(L) \in L /\ \A x \in L : Min(L) <= x
    BY <2>1, MinLeast
  <2>4. PICK n \in Nat : n = Min(L)
    BY <2>1, <2>3
  <2>5. m \in Nat /\ n <= m /\ ~(n < m)
    BY <2>1, <2>2, <2>3, <2>4
  <2>6. m = Min(L)
    BY <2>4, <2>5
  <2> QED
    BY <2>6 DEF L
<1>10. NextExecutionBar(b, signal_open, submitted_at, lag) = Selected(b, m, FirstVisibility(b, m))
  BY <1>7, <1>9 DEF NextExecutionBar
<1>11. FirstVisibility(a, m) \in Nat /\ FirstVisibility(a, m) <= ts
  BY <1>4, <1>5, FirstVisibilityLeast
<1>12. Selected(a, m, FirstVisibility(a, m)) = Selected(b, m, FirstVisibility(a, m))
  BY <1>11, SameSelected
<1> QED
  BY <1>2, <1>6, <1>10, <1>12

\* Two datasets that have the same signal and execution rows up to an instant.
AgreeUpTo(d, e, ts) ==
    \A i \in Instruments :
        /\ UpTo(d["signal"][i], ts) = UpTo(e["signal"][i], ts)
        /\ UpTo(d["execution"][i], ts) = UpTo(e["execution"][i], ts)

\* The decision events of one are those of the other.
LEMMA EventsCarryOver ==
    ASSUME NEW d \in Datasets, NEW e \in Datasets, NEW ts \in Nat, AgreeUpTo(d, e, ts),
           NEW t \in Nat, t <= ts, NEW event \in DecisionEvents(d, t)
    PROVE  event \in DecisionEvents(e, t)
<1> DEFINE i == event.instrument
           open == event.trigger.open
           a == d["signal"][i]
           b == e["signal"][i]
<1>1. /\ i \in Instruments /\ event = [instrument |-> i, trigger |-> event.trigger]
      /\ t \in EventFrom..(EventTo - 1) /\ t = FirstVisibility(a, open)
      /\ event.trigger \in Selected(a, open, t) /\ open \in Opens(a)
  BY EventFacts
<1>2. Component(a) /\ Component(b) /\ UpTo(a, ts) = UpTo(b, ts) /\ e \in Dataset
  BY <1>1, DatasetRows DEF AgreeUpTo, Role
<1>3. open \in Opens(b) /\ FirstVisibility(b, open) = t
  <2> HIDE DEF a, b, open
  <2> QED
    BY <1>1, <1>2, SameFirst
<1>4. event.trigger \in Selected(b, open, t)
  <2> HIDE DEF a, b, open
  <2> QED
    BY <1>1, <1>2, SameSelected
<1>5. <<t, open>> \in DecisionSchedule(b)
  BY <1>3 DEF DecisionSchedule
<1>6. event.trigger \in b
  <2> HIDE DEF b, open
  <2> QED
    BY <1>2, <1>4, SelectedRow
<1>7. event.trigger \in UNION Range(e["signal"])
  BY <1>1, <1>2, <1>6 DEF Range, Dataset, Role
<1> QED
  BY <1>1, <1>4, <1>5, <1>7 DEF DecisionEvents

\* So are its decision instants.
LEMMA InstantsCarryOver ==
    ASSUME NEW d \in Datasets, NEW e \in Datasets, NEW ts \in Nat, AgreeUpTo(d, e, ts),
           NEW t \in DecisionInstants(d), t <= ts
    PROVE  t \in DecisionInstants(e)
<1>1. PICK event : event \in DecisionEvents(d, t)
  BY DEF DecisionInstants
<1>2. t \in Nat
  BY DecisionInstantsAhead
<1>3. event \in DecisionEvents(e, t)
  BY <1>1, <1>2, EventsCarryOver
<1> DEFINE i == event.instrument
           b == e["signal"][i]
<1>4. /\ i \in Instruments /\ t = FirstVisibility(b, event.trigger.open)
      /\ event.trigger.open \in Opens(b)
  BY <1>3, EventFacts
<1>5. Component(b) /\ e \in Dataset
  BY <1>4, DatasetRows DEF Role
<1>6. PICK row \in b : row.available = t
  <2> HIDE DEF b
  <2> QED
    BY <1>4, <1>5, FirstVisibilityLeast
<1>7. row \in UNION Range(e["signal"])
  BY <1>4, <1>5, <1>6 DEF Range, Dataset, Role
<1> QED
  BY <1>3, <1>6, <1>7 DEF DecisionInstants

-----------------------------------------------------------------------------
(* One call *)

\* A sequence, whatever it holds.
IsSequence(q) == \E S : q \in Seq(S)

\* What becomes of a sequence of any elements.
LEMMA SequenceFacts ==
    ASSUME NEW q, IsSequence(q)
    PROVE  /\ Len(q) \in Nat /\ DOMAIN q = 1..Len(q)
           /\ \A e : /\ IsSequence(Append(q, e)) /\ Len(Append(q, e)) = Len(q) + 1
                     /\ \A k \in 1..Len(q) : Append(q, e)[k] = q[k]
                     /\ Append(q, e)[Len(q) + 1] = e
           /\ q # <<>> => /\ Len(q) > 0 /\ Head(q) = q[1]
                          /\ IsSequence(Tail(q)) /\ Len(Tail(q)) = Len(q) - 1
                          /\ \A k \in 1..(Len(q) - 1) : Tail(q)[k] = q[k + 1]
<1>1. PICK S : q \in Seq(S)
  BY DEF IsSequence
<1>2. Len(q) \in Nat /\ DOMAIN q = 1..Len(q)
  BY <1>1
<1>3. ASSUME NEW e
      PROVE  /\ IsSequence(Append(q, e)) /\ Len(Append(q, e)) = Len(q) + 1
             /\ \A k \in 1..Len(q) : Append(q, e)[k] = q[k]
             /\ Append(q, e)[Len(q) + 1] = e
  <2> DEFINE T == S \cup {e}
  <2>1. q \in Seq(T) /\ e \in T
    BY <1>1
  <2> HIDE DEF T
  <2> QED
    BY <2>1 DEF IsSequence
<1>4. ASSUME q # <<>>
      PROVE  /\ Len(q) > 0 /\ Head(q) = q[1]
             /\ IsSequence(Tail(q)) /\ Len(Tail(q)) = Len(q) - 1
             /\ \A k \in 1..(Len(q) - 1) : Tail(q)[k] = q[k + 1]
  BY <1>1, <1>4 DEF IsSequence
<1> QED
  BY <1>2, <1>3, <1>4

\* Orders wait for a bar of the dataset, each with a number of its own.
Waiting(s) ==
    /\ IsFiniteSet(s.pending)
    /\ \A o \in s.pending : /\ o.sequence \in Nat /\ o.sequence <= Len(s.decisions)
                             /\ o.bar.available \in Nat
    /\ \A o, p \in s.pending : o.sequence = p.sequence => o = p

\* The schedule lies ahead, what is being filled and decided is of this instant, and
\* nothing is left when the call has ended.
Sound(s) ==
    /\ s.data \in Datasets
    /\ s.now \in Nat /\ s.upcoming \subseteq Nat /\ \A t \in s.upcoming : t > s.now
    /\ IsSequence(s.decisions) /\ IsSequence(s.fills)
    /\ Waiting(s)
    /\ IsSequence(s.filling) /\ \A k \in 1..Len(s.filling) : s.filling[k].bar.available = s.now
    /\ IsSequence(s.deciding)
    /\ \A k \in 1..Len(s.deciding) : s.deciding[k] \in DecisionEvents(s.data, s.now)
    /\ s.outcome # "running" => s.filling = <<>> /\ s.deciding = <<>> /\ s.upcoming = {}

\* An order that is put among the pending ones waits for a bar that is not visible
\* before now.
LEMMA ScheduledBar ==
    ASSUME NEW d \in Datasets, NEW ts \in Nat, NEW event \in DecisionEvents(d, ts),
           NEW n, NEW held, NEW target, NEW order,
           order = OrderEntry(n, event, ts, held, target, ExecutionsOf(d, event, ts)),
           order.bar # None
    PROVE  /\ order.bar \in ExecutionsOf(d, event, ts)
           /\ order.bar.available \in Nat /\ order.bar.available >= ts
           /\ order.sequence = n
<1> DEFINE i == event.instrument
           rows == d["execution"][i]
<1>1. i \in Instruments
  BY EventFacts
<1>2. Component(rows) /\ Lag[i] \in Nat
  BY <1>1, DatasetRows, EngineConstants DEF Role
<1>3. PICK bars : bars = ExecutionsOf(d, event, ts)
  OBVIOUS
<1>4. order.bar = (IF bars = {} THEN None ELSE CHOOSE bar \in bars : TRUE) /\ order.sequence = n
  BY <1>3 DEF OrderEntry
<1>5. order.bar \in bars
  BY <1>4
<1>6. order.bar \in NextExecutionBar(rows, event.trigger.open, ts, Lag[i])
  BY <1>3, <1>5 DEF ExecutionsOf
<1>7. order.bar \in rows /\ order.bar.available >= ts + Lag[i]
  <2> HIDE DEF rows
  <2> QED
    BY <1>2, <1>6, NextExecutionRow
<1>8. order.bar.available \in Nat
  BY <1>2, <1>7 DEF Component, Bar
<1> QED
  BY <1>2, <1>3, <1>4, <1>5, <1>7, <1>8

\* NextInstant keeps a call sound.
LEMMA SoundAdvances ==
    ASSUME NEW s, NEW t, Sound(s), Advances(s, t)
    PROVE  Sound(t) /\ t.now \in s.upcoming /\ \A x \in s.upcoming : t.now <= x
<1>1. PICK up, ts, due : up = s.upcoming /\ ts = t.now /\ due = DueAt(s.pending, t.now)
  OBVIOUS
<1>2. ts \in up /\ ts \in Nat /\ ts > s.now /\ \A x \in up : ts <= x
  <2>1. up \subseteq Nat /\ up # {} /\ ts = Min(up)
    BY <1>1 DEF Sound, Advances
  <2>2. ts \in up /\ \A x \in up : ts <= x
    BY <2>1, MinLeast
  <2> QED
    BY <1>1, <2>1, <2>2 DEF Sound
<1>3. t.upcoming \subseteq Nat /\ \A x \in t.upcoming : x > ts
  <2>1. t.upcoming = up \ {ts} /\ up \subseteq Nat
    BY <1>1 DEF Advances, Sound
  <2>2. ASSUME NEW x \in up, x # ts
        PROVE  x \in Nat /\ x > ts
    BY <1>2, <2>1, <2>2
  <2> QED
    BY <2>1, <2>2
<1>4. due \in SUBSET s.pending /\ \A o \in due : o.bar.available = ts
  BY <1>1 DEF DueAt
<1>5. Keyed(due)
  BY <1>4, FS_Subset DEF Sound, Waiting, Keyed
<1>6. t.filling \in Seq(due)
  <2>1. t.filling = Sorted(due, LAMBDA a, b : KeyRank(a.sequence) < KeyRank(b.sequence))
    BY <1>1 DEF Advances, InKeyOrder
  <2> QED
    BY <1>5, <2>1, KeyedSequence
<1>7. IsSequence(t.filling) /\ \A k \in 1..Len(t.filling) : t.filling[k].bar.available = ts
  BY <1>4, <1>6 DEF IsSequence
<1>8. t.deciding \in Seq(DecisionEvents(s.data, ts))
  <2>1. t.deciding = Sorted(DecisionEvents(s.data, ts), EventBefore) /\ s.data \in Datasets
    BY <1>1 DEF Advances, InEventOrder, Sound
  <2> QED
    BY <2>1, EventsSequence
<1>9. IsSequence(t.deciding) /\ \A k \in 1..Len(t.deciding) : t.deciding[k] \in DecisionEvents(s.data, ts)
  BY <1>8 DEF IsSequence
<1>10. Waiting(t)
  <2>1. t.pending = s.pending \ due /\ t.decisions = s.decisions
    BY <1>1 DEF Advances
  <2>2. t.pending \in SUBSET s.pending
    BY <2>1
  <2>3. Waiting(s)
    BY DEF Sound
  <2> QED
    BY <2>1, <2>2, <2>3, FS_Subset DEF Waiting
<1>11. /\ t.data = s.data /\ s.data \in Datasets /\ t.decisions = s.decisions /\ t.fills = s.fills
       /\ IsSequence(s.decisions) /\ IsSequence(s.fills) /\ t.outcome = s.outcome
       /\ s.outcome = "running"
  BY DEF Advances, Sound
<1> QED
  BY <1>1, <1>2, <1>3, <1>7, <1>9, <1>10, <1>11 DEF Sound

\* FillOrder keeps a call sound, and what it fills it fills now.
LEMMA SoundTries ==
    ASSUME NEW s, NEW t, Sound(s), Tries(s, t)
    PROVE  /\ Sound(t)
           /\ FillEntry(Head(s.filling)).ts = s.now
<1>1. PICK q : q = s.filling
  OBVIOUS
<1>2. /\ q # <<>> /\ IsSequence(q) /\ \A k \in 1..Len(q) : q[k].bar.available = s.now
      /\ t.filling = Tail(q) /\ t.now = s.now
  BY <1>1 DEF Sound, Tries
<1>3. /\ Len(q) > 0 /\ Len(q) \in Nat /\ Head(q) = q[1] /\ IsSequence(Tail(q)) /\ Len(Tail(q)) = Len(q) - 1
      /\ \A k \in 1..(Len(q) - 1) : Tail(q)[k] = q[k + 1]
  BY <1>2, SequenceFacts
<1>4. Head(q).bar.available = s.now
  BY <1>2, <1>3
<1>5. IsSequence(t.filling) /\ \A k \in 1..Len(t.filling) : t.filling[k].bar.available = t.now
  BY <1>2, <1>3
<1>6. IsSequence(t.fills)
  <2>1. PICK e : t.fills = s.fills \/ t.fills = Append(s.fills, e)
    BY DEF Tries
  <2>2. IsSequence(s.fills)
    BY DEF Sound
  <2>3. IsSequence(Append(s.fills, e))
    BY <2>2, SequenceFacts
  <2> QED
    BY <2>1, <2>2, <2>3
<1>7. FillEntry(Head(q)).ts = s.now
  BY <1>4 DEF FillEntry
<1>8. Waiting(t)
  BY DEF Sound, Tries, Waiting
<1>9. /\ t.data = s.data /\ t.upcoming = s.upcoming /\ t.now = s.now /\ t.deciding = s.deciding
      /\ t.decisions = s.decisions /\ t.outcome = s.outcome /\ s.outcome = "running"
  BY <1>1, <1>2 DEF Sound, Tries
<1> QED
  BY <1>1, <1>5, <1>6, <1>7, <1>8, <1>9 DEF Sound

\* Decide keeps a call sound, and what it schedules lies ahead.
LEMMA SoundDecides ==
    ASSUME NEW s, NEW t, Sound(s), Decides(s, t)
    PROVE  /\ Sound(t)
           /\ \A x \in t.upcoming : x \in s.upcoming \/ x > s.now
<1>1. PICK event, inputs, order : DecidesOn(s, t, event, inputs, order)
  BY DEF Decides
<1>2. PICK q : q = s.deciding
  OBVIOUS
<1>3. /\ q # <<>> /\ IsSequence(q) /\ \A k \in 1..Len(q) : q[k] \in DecisionEvents(s.data, s.now)
      /\ t.deciding = Tail(q) /\ t.now = s.now /\ t.data = s.data /\ s.now \in Nat /\ s.data \in Datasets
  BY <1>2 DEF Sound, Decides
<1>4. /\ Len(q) > 0 /\ Len(q) \in Nat /\ Head(q) = q[1] /\ IsSequence(Tail(q)) /\ Len(Tail(q)) = Len(q) - 1
      /\ \A k \in 1..(Len(q) - 1) : Tail(q)[k] = q[k + 1]
  BY <1>3, SequenceFacts
<1>5. event \in DecisionEvents(s.data, s.now)
  <2>1. event = Head(q)
    BY <1>1, <1>2, Zenon DEF DecidesOn
  <2>2. event = q[1]
    BY <2>1, <1>4
  <2>3. 1 \in 1..Len(q)
    BY <1>4
  <2> QED
    BY <1>3, <2>2, <2>3
<1>6. /\ IsSequence(t.deciding)
      /\ \A k \in 1..Len(t.deciding) : t.deciding[k] \in DecisionEvents(t.data, t.now)
  BY <1>3, <1>4
<1>7. IsSequence(t.decisions) /\ Len(s.decisions) \in Nat /\ Len(t.decisions) = Len(s.decisions) + 1
  <2>1. IsSequence(s.decisions)
    BY DEF Sound
  <2>2. PICK e : t.decisions = Append(s.decisions, e)
    BY <1>1, Zenon DEF DecidesOn
  <2>3. Len(s.decisions) \in Nat /\ IsSequence(Append(s.decisions, e)) /\ Len(Append(s.decisions, e)) = Len(s.decisions) + 1
    BY <2>1, SequenceFacts
  <2> QED
    BY <2>2, <2>3
<1>8. order.bar # None =>
          /\ order.bar.available \in Nat /\ order.bar.available >= s.now
          /\ order.sequence = Len(s.decisions) + 1
  <2> SUFFICES ASSUME order.bar # None
               PROVE  /\ order.bar.available \in Nat /\ order.bar.available >= s.now
                      /\ order.sequence = Len(s.decisions) + 1
    OBVIOUS
  <2>1. PICK d, ts, n, held, target :
           /\ d = s.data /\ ts = s.now /\ n = Len(s.decisions) + 1
           /\ held = s.position[event.instrument].quantity /\ target = Target(inputs)
    OBVIOUS
  <2>2. order = OrderEntry(n, event, ts, held, target, ExecutionsOf(d, event, ts))
    BY <1>1, <2>1, Zenon DEF DecidesOn
  <2>3. d \in Datasets /\ ts \in Nat /\ event \in DecisionEvents(d, ts)
    BY <1>3, <1>5, <2>1
  <2>4. order.bar.available \in Nat /\ order.bar.available >= ts /\ order.sequence = n
    BY <2>2, <2>3, ScheduledBar
  <2> QED
    BY <2>1, <2>4
<1>9. Waiting(t)
  <2>1. Waiting(s)
    BY DEF Sound
  <2>2. CASE t.pending = s.pending
    BY <1>7, <2>1, <2>2 DEF Waiting
  <2>3. CASE order.bar # None /\ t.pending = s.pending \cup {order}
    <3>1. PICK n \in Nat : n = Len(s.decisions)
      BY <1>7
    <3>2. order.sequence = n + 1 /\ order.bar.available \in Nat /\ Len(t.decisions) = n + 1
      BY <1>7, <1>8, <2>3, <3>1
    <3>3. \A o \in s.pending : o.sequence \in Nat /\ o.sequence <= n /\ o.bar.available \in Nat
      BY <2>1, <3>1 DEF Waiting
    <3>4. IsFiniteSet(t.pending)
      BY <2>1, <2>3, FS_AddElement DEF Waiting
    <3>5. \A o, p \in s.pending : o.sequence = p.sequence => o = p
      BY <2>1 DEF Waiting
    <3> QED
      BY <2>3, <3>2, <3>3, <3>4, <3>5 DEF Waiting
  <2> QED
    BY <1>1, <2>2, <2>3, Zenon DEF DecidesOn
<1>10. t.upcoming \subseteq Nat /\ \A x \in t.upcoming : x > s.now /\ (x \in s.upcoming \/ x > s.now)
  <2>1. s.upcoming \subseteq Nat /\ \A x \in s.upcoming : x > s.now
    BY DEF Sound
  <2>2. order.bar # None => order.bar.available \in Nat /\ (order.bar.available # s.now => order.bar.available > s.now)
    BY <1>3, <1>8
  <2> QED
    BY <1>1, <2>1, <2>2, Zenon DEF DecidesOn
<1>11. /\ t.filling = s.filling /\ IsSequence(s.filling)
       /\ \A k \in 1..Len(s.filling) : s.filling[k].bar.available = s.now
       /\ t.fills = s.fills /\ IsSequence(s.fills) /\ t.outcome = s.outcome /\ s.outcome = "running"
  BY <1>2, <1>3 DEF Sound, Decides
<1> QED
  BY <1>3, <1>6, <1>7, <1>9, <1>10, <1>11 DEF Sound

\* ValuePositions keeps a call sound.
LEMMA SoundEnds ==
    ASSUME NEW s, NEW t, Sound(s), Ends(s, t)
    PROVE  Sound(t)
  BY DEF Sound, Ends, Waiting

-----------------------------------------------------------------------------
(* Two calls *)

\* A call that has done everything up to an instant.
Past(s, ts) ==
    /\ \A x \in s.upcoming : x > ts
    /\ s.now > ts \/ (s.filling = <<>> /\ s.deciding = <<>>)

\* An entry of a later instant is not among those up to ts.
LEMMA UntilAppend ==
    ASSUME NEW j, IsSequence(j), NEW e, NEW ts \in Nat, e.ts \in Nat, e.ts > ts
    PROVE  JournalUntil(Append(j, e), ts) = JournalUntil(j, ts)
<1>1. PICK q, n : q = Append(j, e) /\ n = Len(j)
  OBVIOUS
<1>2. /\ n \in Nat /\ DOMAIN j = 1..n /\ IsSequence(q) /\ Len(q) = n + 1
      /\ \A k \in 1..n : q[k] = j[k]
      /\ q[n + 1] = e
  BY <1>1, SequenceFacts
<1>3. DOMAIN q = 1..(n + 1)
  BY <1>2, SequenceFacts
<1>4. {k \in DOMAIN q : q[k].ts <= ts} = {k \in DOMAIN j : j[k].ts <= ts}
  BY <1>2, <1>3
<1> QED
  BY <1>1, <1>2, <1>4 DEF JournalUntil

\* It stays so, and its journal up to that instant is complete.
LEMMA PastStays ==
    ASSUME NEW s, NEW t, NEW ts \in Nat, Sound(s), Past(s, ts), Steps(s, t)
    PROVE  /\ Past(t, ts)
           /\ JournalUntil(t.decisions, ts) = JournalUntil(s.decisions, ts)
           /\ JournalUntil(t.fills, ts) = JournalUntil(s.fills, ts)
<1>1. CASE Advances(s, t)
  <2>1. t.now \in s.upcoming /\ t.now \in Nat /\ t.now > ts
    BY <1>1, SoundAdvances DEF Past, Sound
  <2>2. \A x \in t.upcoming : x > ts
    BY <1>1 DEF Advances, Past
  <2> QED
    BY <1>1, <2>1, <2>2 DEF Past, Advances
<1>2. CASE Tries(s, t)
  <2>1. s.now \in Nat /\ s.now > ts /\ IsSequence(s.fills)
    BY <1>2 DEF Past, Tries, Sound
  <2>2. PICK e : e = FillEntry(Head(s.filling))
    OBVIOUS
  <2>3. e.ts = s.now
    BY <1>2, <2>2, SoundTries
  <2>4. JournalUntil(Append(s.fills, e), ts) = JournalUntil(s.fills, ts)
    BY <2>1, <2>3, UntilAppend
  <2>5. t.fills = s.fills \/ t.fills = Append(s.fills, e)
    BY <1>2, <2>2 DEF Tries
  <2> QED
    BY <1>2, <2>1, <2>4, <2>5 DEF Past, Tries
<1>3. CASE Decides(s, t)
  <2>1. s.now \in Nat /\ s.now > ts /\ IsSequence(s.decisions)
    BY <1>3 DEF Past, Decides, Sound
  <2>2. PICK event, inputs :
           t.decisions = Append(s.decisions, DecisionEntry(event, s.now, inputs, s.cash, s.position))
    BY <1>3, Zenon DEF Decides, DecidesOn
  <2>3. PICK e : e = DecisionEntry(event, s.now, inputs, s.cash, s.position)
    OBVIOUS
  <2>4. e.ts = s.now
    BY <2>3 DEF DecisionEntry
  <2>5. JournalUntil(Append(s.decisions, e), ts) = JournalUntil(s.decisions, ts)
    BY <2>1, <2>4, UntilAppend
  <2>6. \A x \in t.upcoming : x > ts
    <3>1. \A x \in t.upcoming : x \in Nat /\ (x \in s.upcoming \/ x > s.now)
      BY <1>3, SoundDecides DEF Sound
    <3> QED
      BY <2>1, <3>1 DEF Past
  <2>7. t.now = s.now /\ t.fills = s.fills
    BY <1>3 DEF Decides
  <2> QED
    BY <2>1, <2>2, <2>3, <2>5, <2>6, <2>7 DEF Past
<1>4. CASE Ends(s, t)
  BY <1>4 DEF Past, Ends
<1> QED
  BY <1>1, <1>2, <1>3, <1>4 DEF Steps

\* Two calls are in step up to an instant: they differ in nothing but in what has to
\* do with later ones.
InStep(s, u, ts) ==
    /\ s.now = u.now /\ s.now <= ts
    /\ s.filling = u.filling /\ s.deciding = u.deciding
    /\ s.cash = u.cash /\ s.position = u.position
    /\ s.decisions = u.decisions /\ s.fills = u.fills
    /\ \A o : o.bar.available <= ts => (o \in s.pending <=> o \in u.pending)
    /\ \A x : x <= ts => (x \in s.upcoming <=> x \in u.upcoming)

\* They are in step, or both have gone past the instant with the same journal.
Alike(s, u, ts) ==
    \/ InStep(s, u, ts)
    \/ /\ Past(s, ts) /\ Past(u, ts)
       /\ JournalUntil(s.decisions, ts) = JournalUntil(u.decisions, ts)
       /\ JournalUntil(s.fills, ts) = JournalUntil(u.fills, ts)

\* In step, one instant begins for both.
LEMMA AdvanceTogether ==
    ASSUME NEW s, NEW u, NEW t, NEW v, NEW ts \in Nat, Sound(s), Sound(u), InStep(s, u, ts),
           AgreeUpTo(s.data, u.data, ts), AgreeUpTo(u.data, s.data, ts),
           Advances(s, t), Advances(u, v), \E x \in s.upcoming : x <= ts
    PROVE  InStep(t, v, ts)
<1>1. /\ t.now \in s.upcoming /\ t.now \in Nat /\ \A x \in s.upcoming : t.now <= x
      /\ s.upcoming \subseteq Nat
  BY SoundAdvances DEF Sound
<1>2. /\ v.now \in u.upcoming /\ v.now \in Nat /\ \A x \in u.upcoming : v.now <= x
      /\ u.upcoming \subseteq Nat
  BY SoundAdvances DEF Sound
<1>3. t.now <= ts
  BY <1>1
<1>4. t.now \in u.upcoming
  BY <1>1, <1>3 DEF InStep
<1>5. v.now <= t.now
  BY <1>2, <1>4
<1>6. v.now \in s.upcoming
  BY <1>1, <1>2, <1>3, <1>5 DEF InStep
<1>7. t.now = v.now
  BY <1>1, <1>2, <1>5, <1>6
<1>8. PICK x \in Nat : x = t.now /\ x = v.now /\ x <= ts
  BY <1>1, <1>3, <1>7
<1>9. DueAt(s.pending, x) = DueAt(u.pending, x)
  <2>1. \A o : o.bar.available = x => o.bar.available <= ts
    BY <1>8
  <2> QED
    BY <2>1 DEF DueAt, InStep
<1>10. DecisionEvents(s.data, x) = DecisionEvents(u.data, x)
  <2>1. s.data \in Datasets /\ u.data \in Datasets
    BY DEF Sound
  <2>2. \A e \in DecisionEvents(s.data, x) : e \in DecisionEvents(u.data, x)
    BY <1>8, <2>1, EventsCarryOver
  <2>3. \A e \in DecisionEvents(u.data, x) : e \in DecisionEvents(s.data, x)
    BY <1>8, <2>1, EventsCarryOver
  <2> QED
    BY <2>2, <2>3
<1>11. t.filling = v.filling /\ t.deciding = v.deciding
  BY <1>8, <1>9, <1>10 DEF Advances
<1>12. \A o : o.bar.available <= ts => (o \in t.pending <=> o \in v.pending)
  <2>1. /\ t.pending = s.pending \ DueAt(s.pending, x)
        /\ v.pending = u.pending \ DueAt(s.pending, x)
    BY <1>8, <1>9 DEF Advances
  <2> QED
    BY <2>1 DEF InStep
<1>13. \A y : y <= ts => (y \in t.upcoming <=> y \in v.upcoming)
  <2>1. t.upcoming = s.upcoming \ {x} /\ v.upcoming = u.upcoming \ {x}
    BY <1>8 DEF Advances
  <2> QED
    BY <2>1 DEF InStep
<1> QED
  BY <1>8, <1>11, <1>12, <1>13 DEF InStep, Advances

\* In step, the same order is tried with the same result.
LEMMA TryTogether ==
    ASSUME NEW s, NEW u, NEW t, NEW v, NEW ts \in Nat, InStep(s, u, ts), Tries(s, t), Tries(u, v)
    PROVE  InStep(t, v, ts)
<1>1. PICK o, money, held, journal :
         /\ o = Head(s.filling) /\ o = Head(u.filling) /\ money = s.cash /\ money = u.cash
         /\ held = s.position /\ held = u.position /\ journal = s.fills /\ journal = u.fills
  BY DEF InStep
<1>2. t.cash = v.cash /\ t.position = v.position /\ t.fills = v.fills
  BY <1>1, Zenon DEF Tries
<1> QED
  BY <1>2 DEF InStep, Tries

\* The execution bars of an order in the two runs: the same, if one of them is visible
\* by then.
LEMMA SameExecutions ==
    ASSUME NEW d \in Datasets, NEW e \in Datasets, NEW ts \in Nat, AgreeUpTo(d, e, ts),
           PublishedInOrder(e), NEW now1, NEW event, event.instrument \in Instruments,
           NEW bar \in ExecutionsOf(d, event, now1), bar.available <= ts
    PROVE  ExecutionsOf(e, event, now1) = ExecutionsOf(d, event, now1)
<1>1. PICK i \in Instruments : i = event.instrument
  OBVIOUS
<1>2. PICK a, b, open, lag : /\ a = d["execution"][i] /\ b = e["execution"][i]
                             /\ open = event.trigger.open /\ lag = Lag[i]
  OBVIOUS
<1>3. Component(a) /\ Component(b) /\ UpTo(a, ts) = UpTo(b, ts) /\ InOrder(b)
  BY <1>2, DatasetRows DEF AgreeUpTo, Role, PublishedInOrder, InOrder
<1>4. /\ ExecutionsOf(d, event, now1) = NextExecutionBar(a, open, now1, lag)
      /\ ExecutionsOf(e, event, now1) = NextExecutionBar(b, open, now1, lag)
  BY <1>1, <1>2 DEF ExecutionsOf
<1> QED
  BY <1>3, <1>4, SameExecution

\* What has no bar that is visible by an instant.
NotBy(o, ts) == o.bar = None \/ (o.bar.available \in Nat /\ o.bar.available > ts)

\* The orders of one decision in the two runs: the same, or none that is executed by then.
LEMMA OrdersAlike ==
    ASSUME NEW d \in Datasets, NEW e \in Datasets, NEW ts \in Nat,
           AgreeUpTo(d, e, ts), AgreeUpTo(e, d, ts), PublishedInOrder(d), PublishedInOrder(e),
           NEW now1 \in Nat, NEW event \in DecisionEvents(d, now1), event \in DecisionEvents(e, now1),
           NEW n, NEW held, NEW target, NEW o, NEW p,
           o = OrderEntry(n, event, now1, held, target, ExecutionsOf(d, event, now1)),
           p = OrderEntry(n, event, now1, held, target, ExecutionsOf(e, event, now1))
    PROVE  o = p \/ (NotBy(o, ts) /\ NotBy(p, ts))
<1>1. event.instrument \in Instruments
  BY EventFacts
<1>2. o.bar # None => o.bar \in ExecutionsOf(d, event, now1) /\ o.bar.available \in Nat
  BY ScheduledBar
<1>3. p.bar # None => p.bar \in ExecutionsOf(e, event, now1) /\ p.bar.available \in Nat
  BY ScheduledBar
<1>4. CASE o.bar # None /\ o.bar.available <= ts
  <2>1. ExecutionsOf(e, event, now1) = ExecutionsOf(d, event, now1)
    BY <1>1, <1>2, <1>4, SameExecutions
  <2> QED
    BY <2>1
<1>5. CASE p.bar # None /\ p.bar.available <= ts
  <2>1. ExecutionsOf(d, event, now1) = ExecutionsOf(e, event, now1)
    BY <1>1, <1>3, <1>5, SameExecutions
  <2> QED
    BY <2>1
<1> QED
  BY <1>2, <1>3, <1>4, <1>5 DEF NotBy

\* In step, the same decision is taken, and orders wait that are the same by then.
LEMMA DecideTogether ==
    ASSUME NEW s, NEW u, NEW t, NEW v, NEW ts \in Nat, Sound(s), Sound(u), InStep(s, u, ts),
           AgreeUpTo(s.data, u.data, ts), AgreeUpTo(u.data, s.data, ts),
           PublishedInOrder(s.data), PublishedInOrder(u.data),
           Decides(s, t), Decides(u, v)
    PROVE  InStep(t, v, ts)
<1>1. PICK d, e, x, q, journal, money, held :
         /\ d = s.data /\ e = u.data /\ x = s.now /\ x = u.now
         /\ q = s.deciding /\ q = u.deciding /\ journal = s.decisions /\ journal = u.decisions
         /\ money = s.cash /\ money = u.cash /\ held = s.position /\ held = u.position
  BY DEF InStep
<1>2. PICK event, inputs, o : DecidesOn(s, t, event, inputs, o)
  BY DEF Decides
<1>3. PICK event2, inputs2, p : DecidesOn(u, v, event2, inputs2, p)
  BY DEF Decides
<1>4. event = Head(q) /\ event2 = event
  BY <1>1, <1>2, <1>3, Zenon DEF DecidesOn
<1>5. d \in Datasets /\ e \in Datasets /\ x \in Nat /\ x <= ts
  BY <1>1 DEF Sound, InStep
<1>6. event \in DecisionEvents(d, x) /\ event \in DecisionEvents(e, x)
  <2>1. /\ q # <<>> /\ IsSequence(q) /\ \A k \in 1..Len(q) : q[k] \in DecisionEvents(d, x)
        /\ \A k \in 1..Len(q) : q[k] \in DecisionEvents(e, x)
    BY <1>1 DEF Sound, Decides
  <2>2. Len(q) \in Nat /\ Len(q) > 0 /\ Head(q) = q[1]
    BY <2>1, SequenceFacts
  <2>3. 1 \in 1..Len(q) /\ event = q[1]
    BY <1>4, <2>2
  <2> QED
    BY <2>1, <2>3
<1>7. event.instrument \in Instruments
  BY <1>5, <1>6, EventFacts
<1>8. InputsOf(d, event, x) = InputsOf(e, event, x)
  <2>1. PICK i \in Instruments : i = event.instrument
    BY <1>7
  <2>2. PICK a, b : a = d["signal"][i] /\ b = e["signal"][i]
    OBVIOUS
  <2>3. Component(a) /\ Component(b) /\ UpTo(a, ts) = UpTo(b, ts)
    BY <1>1, <1>5, <2>2, DatasetRows DEF AgreeUpTo, Role
  <2>4. VisibleBars(a, x) = VisibleBars(b, x)
    BY <1>5, <2>3, SameVisible
  <2> QED
    BY <2>1, <2>2, <2>4 DEF InputsOf
<1>9. inputs = InputsOf(d, event, x) /\ inputs2 = inputs
  BY <1>1, <1>2, <1>8, <1>3, <1>4, Zenon DEF DecidesOn
<1>10. PICK n, quantity, target :
         /\ n = Len(journal) + 1 /\ quantity = held[event.instrument].quantity
         /\ target = Target(inputs)
  OBVIOUS
<1>11. /\ o = OrderEntry(n, event, x, quantity, target, ExecutionsOf(d, event, x))
       /\ p = OrderEntry(n, event, x, quantity, target, ExecutionsOf(e, event, x))
  BY <1>1, <1>2, <1>9, <1>10, <1>3, <1>4, Zenon DEF DecidesOn
<1>12. o = p \/ (NotBy(o, ts) /\ NotBy(p, ts))
  <2>1. /\ AgreeUpTo(d, e, ts) /\ AgreeUpTo(e, d, ts)
        /\ PublishedInOrder(d) /\ PublishedInOrder(e)
    BY <1>1
  <2> QED
    BY <1>5, <1>6, <1>11, <2>1, OrdersAlike
<1>13. /\ t.decisions = Append(journal, DecisionEntry(event, x, inputs, money, held))
       /\ \/ /\ target = quantity \/ o.bar = None
             /\ t.pending = s.pending /\ t.upcoming = s.upcoming
          \/ /\ target # quantity /\ o.bar # None
             /\ t.pending = s.pending \cup {o}
             /\ t.upcoming = s.upcoming \cup ({o.bar.available} \ {x})
  BY <1>1, <1>2, <1>9, <1>10, Zenon DEF DecidesOn
<1>14. /\ v.decisions = Append(journal, DecisionEntry(event, x, inputs, money, held))
       /\ \/ /\ target = quantity \/ p.bar = None
             /\ v.pending = u.pending /\ v.upcoming = u.upcoming
          \/ /\ target # quantity /\ p.bar # None
             /\ v.pending = u.pending \cup {p}
             /\ v.upcoming = u.upcoming \cup ({p.bar.available} \ {x})
  BY <1>1, <1>3, <1>4, <1>9, <1>10, Zenon DEF DecidesOn
<1>15. /\ \A y : y.bar.available <= ts => (y \in s.pending <=> y \in u.pending)
       /\ \A y : y <= ts => (y \in s.upcoming <=> y \in u.upcoming)
  BY DEF InStep
<1>16. /\ \A y : y.bar.available <= ts => (y \in t.pending <=> y \in v.pending)
       /\ \A y : y <= ts => (y \in t.upcoming <=> y \in v.upcoming)
  <2>1. CASE target = quantity
    BY <1>13, <1>14, <1>15, <2>1
  <2>2. CASE target # quantity /\ o = p
    BY <1>13, <1>14, <1>15, <2>2
  <2>3. CASE target # quantity /\ NotBy(o, ts) /\ NotBy(p, ts)
    <3>1. o.bar # None => ~(o.bar.available <= ts)
      BY <2>3 DEF NotBy
    <3>2. p.bar # None => ~(p.bar.available <= ts)
      BY <2>3 DEF NotBy
    <3>3. /\ \A y : y.bar.available <= ts => (y \in t.pending <=> y \in s.pending)
          /\ \A y : y <= ts => (y \in t.upcoming <=> y \in s.upcoming)
      BY <1>13, <2>3, <3>1
    <3>4. /\ \A y : y.bar.available <= ts => (y \in v.pending <=> y \in u.pending)
          /\ \A y : y <= ts => (y \in v.upcoming <=> y \in u.upcoming)
      BY <1>14, <2>3, <3>2
    <3> QED
      BY <1>15, <3>3, <3>4
  <2> QED
    BY <1>12, <2>1, <2>2, <2>3
<1>17. /\ t.now = x /\ v.now = x /\ t.filling = v.filling /\ t.deciding = v.deciding
       /\ t.cash = v.cash /\ t.position = v.position /\ t.fills = v.fills
  <2>1. /\ t.now = x /\ t.deciding = Tail(q) /\ t.filling = s.filling
        /\ t.cash = s.cash /\ t.position = s.position /\ t.fills = s.fills
    BY <1>1 DEF Decides
  <2>2. /\ v.now = x /\ v.deciding = Tail(q) /\ v.filling = u.filling
        /\ v.cash = u.cash /\ v.position = u.position /\ v.fills = u.fills
    BY <1>1 DEF Decides
  <2> QED
    BY <2>1, <2>2 DEF InStep
<1> QED
  BY <1>5, <1>13, <1>14, <1>16, <1>17 DEF InStep

\* Two calls whose datasets agree up to an instant remain alike when both take a step.
LEMMA StepTogether ==
    ASSUME NEW s, NEW u, NEW t, NEW v, NEW ts \in Nat, Sound(s), Sound(u), Alike(s, u, ts),
           AgreeUpTo(s.data, u.data, ts), AgreeUpTo(u.data, s.data, ts),
           PublishedInOrder(s.data), PublishedInOrder(u.data),
           Steps(s, t), Steps(u, v)
    PROVE  Alike(t, v, ts)
<1>1. ASSUME Past(s, ts), Past(u, ts),
             JournalUntil(s.decisions, ts) = JournalUntil(u.decisions, ts),
             JournalUntil(s.fills, ts) = JournalUntil(u.fills, ts)
      PROVE  Alike(t, v, ts)
  <2>1. /\ Past(t, ts)
        /\ JournalUntil(t.decisions, ts) = JournalUntil(s.decisions, ts)
        /\ JournalUntil(t.fills, ts) = JournalUntil(s.fills, ts)
    BY <1>1, PastStays
  <2>2. /\ Past(v, ts)
        /\ JournalUntil(v.decisions, ts) = JournalUntil(u.decisions, ts)
        /\ JournalUntil(v.fills, ts) = JournalUntil(u.fills, ts)
    BY <1>1, PastStays
  <2> QED
    BY <1>1, <2>1, <2>2 DEF Alike
<1>2. CASE InStep(s, u, ts)
  <2>1. CASE s.filling # <<>>
    <3>1. u.filling # <<>>
      BY <1>2, <2>1 DEF InStep
    <3>2. Tries(s, t) /\ Tries(u, v)
      BY <2>1, <3>1 DEF Steps, Advances, Decides, Ends
    <3> QED
      BY <1>2, <3>2, TryTogether DEF Alike
  <2>2. CASE s.filling = <<>> /\ s.deciding # <<>>
    <3>1. u.filling = <<>> /\ u.deciding # <<>>
      BY <1>2, <2>2 DEF InStep
    <3>2. Decides(s, t) /\ Decides(u, v)
      BY <2>2, <3>1 DEF Steps, Advances, Tries, Ends
    <3> QED
      BY <1>2, <3>2, DecideTogether DEF Alike
  <2>3. CASE s.filling = <<>> /\ s.deciding = <<>> /\ \E x \in s.upcoming : x <= ts
    <3>1. u.filling = <<>> /\ u.deciding = <<>> /\ u.upcoming # {} /\ s.upcoming # {}
      BY <1>2, <2>3 DEF InStep
    <3>2. Advances(s, t) /\ Advances(u, v)
      BY <2>3, <3>1 DEF Steps, Decides, Tries, Ends
    <3> QED
      BY <1>2, <2>3, <3>2, AdvanceTogether DEF Alike
  <2>4. CASE s.filling = <<>> /\ s.deciding = <<>> /\ ~(\E x \in s.upcoming : x <= ts)
    <3>1. s.upcoming \subseteq Nat /\ u.upcoming \subseteq Nat
      BY DEF Sound
    <3>2. Past(s, ts) /\ Past(u, ts)
      BY <1>2, <2>4, <3>1 DEF Past, InStep
    <3> QED
      BY <1>1, <1>2, <3>2 DEF InStep
  <2> QED
    BY <2>1, <2>2, <2>3, <2>4
<1> QED
  BY <1>1, <1>2 DEF Alike

\* They remain alike when one has ended and the other goes on.
LEMMA StepAlone ==
    ASSUME NEW s, NEW u, NEW t, NEW ts \in Nat, Sound(s), Sound(u),
           Alike(s, u, ts) \/ Alike(u, s, ts), u.outcome # "running", Steps(s, t)
    PROVE  Alike(t, u, ts) /\ Alike(u, t, ts)
<1>1. u.filling = <<>> /\ u.deciding = <<>> /\ u.upcoming = {}
  BY DEF Sound
<1>2. Past(u, ts)
  BY <1>1 DEF Past
<1>3. Past(s, ts) /\ JournalUntil(s.decisions, ts) = JournalUntil(u.decisions, ts)
      /\ JournalUntil(s.fills, ts) = JournalUntil(u.fills, ts)
  <2>1. CASE InStep(s, u, ts) \/ InStep(u, s, ts)
    <3>1. /\ s.filling = <<>> /\ s.deciding = <<>> /\ \A x \in s.upcoming : ~(x <= ts)
          /\ s.decisions = u.decisions /\ s.fills = u.fills
      BY <1>1, <2>1 DEF InStep
    <3>2. s.upcoming \subseteq Nat
      BY DEF Sound
    <3> QED
      BY <3>1, <3>2 DEF Past
  <2> QED
    BY <2>1 DEF Alike
<1>4. /\ Past(t, ts)
      /\ JournalUntil(t.decisions, ts) = JournalUntil(s.decisions, ts)
      /\ JournalUntil(t.fills, ts) = JournalUntil(s.fills, ts)
  BY <1>3, PastStays
<1> QED
  BY <1>2, <1>3, <1>4 DEF Alike

-----------------------------------------------------------------------------
(* The replay *)

\* Both calls are sound, and alike up to every instant until which their datasets agree.
ReplayInv ==
    /\ Sound(State1) /\ Sound(State2)
    /\ PublishedInOrder(data) /\ PublishedInOrder(data2) =>
          \A ts \in Nat : AgreeUpTo(data, data2, ts) => Alike(State1, State2, ts)

\* The agreement of two datasets is that of each of their components.
LEMMA AgreeBoth ==
    ASSUME NEW d, NEW e, NEW ts, AgreeUpTo(d, e, ts)
    PROVE  AgreeUpTo(e, d, ts)
  BY DEF AgreeUpTo

\* A call begins sound.
LEMMA SoundBegin ==
    ASSUME NEW s, NEW d \in Datasets, s.data = d, s.upcoming = DecisionInstants(d), s.now = 0,
           s.filling = <<>>, s.deciding = <<>>, s.pending = {}, s.decisions = <<>>,
           s.fills = <<>>, s.outcome = "running"
    PROVE  Sound(s)
<1>1. \A x \in s.upcoming : x > 0 /\ x \in Nat
  BY DecisionInstantsAhead
<1>2. IsSequence(<<>>) /\ Len(<<>>) = 0
  BY DEF IsSequence
<1>3. Waiting(s)
  BY FS_EmptySet DEF Waiting
<1> QED
  BY <1>1, <1>2, <1>3 DEF Sound

\* Two calls begin alike.
LEMMA ReplayBegins == ReplayInit => ReplayInv
<1> SUFFICES ASSUME ReplayInit
             PROVE  ReplayInv
  OBVIOUS
<1>1. /\ data \in Datasets /\ upcoming = DecisionInstants(data) /\ now = 0
      /\ filling = <<>> /\ deciding = <<>> /\ pending = {} /\ cash = InitialCapital
      /\ position = [i \in Instruments |-> NoPosition]
      /\ decisions = <<>> /\ fills = <<>> /\ outcome = "running"
  BY DEF ReplayInit, Init
<1>2. /\ data2 \in Datasets /\ upcoming2 = DecisionInstants(data2) /\ now2 = 0
      /\ filling2 = <<>> /\ deciding2 = <<>> /\ pending2 = {} /\ cash2 = InitialCapital
      /\ position2 = [i \in Instruments |-> NoPosition]
      /\ decisions2 = <<>> /\ fills2 = <<>> /\ outcome2 = "running"
  BY SameOperators DEF ReplayInit, Other!Init, Other!NoPosition, NoPosition
<1>3. Sound(State1)
  BY <1>1, SoundBegin DEF State1
<1>4. Sound(State2)
  BY <1>2, SoundBegin DEF State2
<1>5. ASSUME NEW ts \in Nat, AgreeUpTo(data, data2, ts)
      PROVE  Alike(State1, State2, ts)
  <2>1. \A x : x <= ts /\ x \in upcoming => x \in upcoming2
    BY <1>1, <1>2, <1>5, InstantsCarryOver
  <2>2. \A x : x <= ts /\ x \in upcoming2 => x \in upcoming
    BY <1>1, <1>2, <1>5, AgreeBoth, InstantsCarryOver
  <2> QED
    BY <1>1, <1>2, <2>1, <2>2 DEF Alike, InStep, State1, State2
<1> QED
  BY <1>3, <1>4, <1>5 DEF ReplayInv

\* They remain so.
LEMMA ReplayContinues == ReplayInv /\ [ReplayNext]_replayVars => ReplayInv'
<1> SUFFICES ASSUME ReplayInv, [ReplayNext]_replayVars
             PROVE  ReplayInv'
  OBVIOUS
<1>1. ASSUME NEW s, NEW t, Sound(s), Steps(s, t)
      PROVE  Sound(t) /\ t.data = s.data
  <2>1. Sound(t)
    BY <1>1, SoundAdvances, SoundTries, SoundDecides, SoundEnds DEF Steps
  <2>2. t.data = s.data
    BY <1>1 DEF Steps, Advances, Tries, Decides, Ends
  <2> QED
    BY <2>1, <2>2
<1>2. PICK s, u, t, v : s = State1 /\ u = State2 /\ t = State1' /\ v = State2'
  OBVIOUS
<1>3. /\ s.data = data /\ u.data = data2 /\ t.data = data' /\ v.data = data2'
      /\ s.outcome = outcome /\ u.outcome = outcome2
  BY <1>2 DEF State1, State2
<1>4. /\ Sound(s) /\ Sound(u)
      /\ PublishedInOrder(s.data) /\ PublishedInOrder(u.data) =>
            \A ts \in Nat : AgreeUpTo(s.data, u.data, ts) => Alike(s, u, ts)
  BY <1>2, <1>3 DEF ReplayInv
<1>5. SUFFICES /\ Sound(t) /\ Sound(v)
               /\ PublishedInOrder(t.data) /\ PublishedInOrder(v.data) =>
                     \A ts \in Nat : AgreeUpTo(t.data, v.data, ts) => Alike(t, v, ts)
  BY <1>2, <1>3 DEF ReplayInv
<1>6. CASE BothRun
  <2>1. Steps(s, t) /\ Steps(u, v)
    BY <1>2, <1>6, FirstSteps, OtherSteps DEF BothRun
  <2>2. Sound(t) /\ Sound(v) /\ t.data = s.data /\ v.data = u.data
    BY <1>1, <1>4, <2>1
  <2>3. ASSUME NEW ts \in Nat, AgreeUpTo(s.data, u.data, ts), PublishedInOrder(s.data), PublishedInOrder(u.data)
        PROVE  Alike(t, v, ts)
    BY <1>4, <2>1, <2>3, AgreeBoth, StepTogether
  <2> QED
    BY <2>2, <2>3
<1>7. CASE OnlyFirstRuns
  <2>1. Steps(s, t) /\ v = u /\ u.outcome # "running"
    BY <1>2, <1>3, <1>7, FirstSteps DEF OnlyFirstRuns, otherVars, State2
  <2>2. Sound(t) /\ t.data = s.data
    BY <1>1, <1>4, <2>1
  <2>3. ASSUME NEW ts \in Nat, Alike(s, u, ts)
        PROVE  Alike(t, u, ts)
    BY <1>4, <2>1, <2>3, StepAlone
  <2> QED
    BY <1>4, <2>1, <2>2, <2>3
<1>8. CASE OnlyOtherRuns
  <2>1. Steps(u, v) /\ t = s /\ s.outcome # "running"
    BY <1>2, <1>3, <1>8, OtherSteps DEF OnlyOtherRuns, vars, State1
  <2>2. Sound(v) /\ v.data = u.data
    BY <1>1, <1>4, <2>1
  <2>3. ASSUME NEW ts \in Nat, Alike(s, u, ts)
        PROVE  Alike(s, v, ts)
    BY <1>4, <2>1, <2>3, StepAlone
  <2> QED
    BY <1>4, <2>1, <2>2, <2>3
<1>9. CASE UNCHANGED replayVars
  <2>1. t = s /\ v = u
    BY <1>2, <1>9 DEF replayVars, vars, otherVars, State1, State2
  <2> QED
    BY <1>4, <2>1
<1> QED
  BY <1>6, <1>7, <1>8, <1>9 DEF ReplayNext

\* No look-ahead, for every pair of datasets, every lag, window, rate and capital: what
\* the engine has decided and filled by an instant depends only on the rows visible by
\* then, if execution bars do not become visible before ones that open earlier
\* (ArtifactBarSelector, simulate).
THEOREM NothingAhead == ReplaySpec => []NoLookAhead
<1>1. ReplayInv => NoLookAhead
  <2> SUFFICES ASSUME ReplayInv, PublishedInOrder(data), PublishedInOrder(data2),
                      outcome # "running", outcome2 # "running",
                      NEW ts \in {row.available : row \in UNION Range(data["signal"])} \cup {now},
                      VisibleRows(data, ts) = VisibleRows(data2, ts)
               PROVE  /\ JournalUntil(decisions, ts) = JournalUntil(decisions2, ts)
                      /\ JournalUntil(fills, ts) = JournalUntil(fills2, ts)
    BY DEF NoLookAhead
  <2>1. data \in Datasets /\ data2 \in Datasets /\ now \in Nat
    BY DEF ReplayInv, Sound, State1, State2
  <2>2. ts \in Nat
    <3>1. data \in Dataset
      BY <2>1, EngineConstants
    <3>2. \A row \in UNION Range(data["signal"]) : row \in Bar
      BY <3>1 DEF Range, Dataset, Role
    <3> QED
      BY <2>1, <3>2 DEF Bar
  <2>3. ASSUME NEW i \in Instruments, NEW role \in {"signal", "execution"}
        PROVE  UpTo(data[role][i], ts) = UpTo(data2[role][i], ts)
    <3>1. VisibleRows(data, ts)[role][i] = VisibleRows(data2, ts)[role][i]
      OBVIOUS
    <3> QED
      BY <3>1 DEF VisibleRows, UpTo
  <2>4. AgreeUpTo(data, data2, ts)
    BY <2>3 DEF AgreeUpTo
  <2>5. Alike(State1, State2, ts)
    BY <2>2, <2>4 DEF ReplayInv
  <2> QED
    BY <2>5 DEF Alike, InStep, State1, State2
<1> QED
  BY <1>1, ReplayBegins, ReplayContinues, PTL DEF ReplaySpec

=============================================================================
