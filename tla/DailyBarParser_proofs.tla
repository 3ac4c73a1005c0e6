----------------------- MODULE DailyBarParser_proofs -----------------------
(***************************************************************************)
(* Proofs about DailyBarParser, for every payload: rows of any kind, in    *)
(* any order and number.                                                   *)
(***************************************************************************)
EXTENDS DailyBarPayloads, FiniteSetTheorems, WellFoundedInduction, SequenceTheorems, TLAPS

-----------------------------------------------------------------------------
(* What the parser makes of one row *)

\* The rows of an array that are valid and have the date of row i.
Rivals(rows, requested, i) ==
    {j \in 1..Len(rows) : ValidateRow(rows[j], requested) /\ rows[j].date = rows[i].date}

\* Row i stands: it is valid, and no valid row of its date differs from it.
Stands(rows, requested, i) ==
    /\ ValidateRow(rows[i], requested)
    /\ \A j \in Rivals(rows, requested, i) : rows[j] = rows[i]

\* What a parsed array says of its rows.
ParsedRows(r, rows, requested) ==
    /\ DOMAIN r = 1..Len(rows)
    /\ \A i \in 1..Len(rows) :
          /\ r[i].accepted <=> Stands(rows, requested, i)
          /\ r[i].include <=> /\ Stands(rows, requested, i)
                              /\ \A j \in Rivals(rows, requested, i) : i <= j
          /\ ValidateRow(rows[i], requested) =>
                r[i].date = rows[i].date /\ r[i].value = CandidateValue(rows[i])

\* An array of objects that has rows.
Array(p) == DOMAIN p.rows = 1..Len(p.rows) /\ Len(p.rows) \in Nat

\* That is what ParseCandles yields for a success array.
LEMMA RowsParsed ==
    ASSUME NEW p, NEW requested, Array(p), ParseEnvelope(p) = "rows"
    PROVE  ParsedRows(ParseCandles(p, requested).rows, p.rows, requested)
<1>1. PICK rows : rows = p.rows
  OBVIOUS
<1>2. DOMAIN rows = 1..Len(rows) /\ Len(rows) \in Nat
  BY <1>1 DEF Array
<1>3. PICK r : r = [i \in DOMAIN rows |-> RowResult(rows, requested, i)]
  OBVIOUS
<1>4. ParseCandles(p, requested).rows = r
  BY <1>1, <1>3 DEF ParseCandles
<1>5. \A i : DuplicateGroup(rows, requested, i) = Rivals(rows, requested, i)
  BY <1>2 DEF DuplicateGroup, Rivals
<1>6. ASSUME NEW i \in 1..Len(rows)
      PROVE  (/\ ValidateRow(rows[i], requested)
              /\ \A j, k \in Rivals(rows, requested, i) : rows[j] = rows[k])
             <=> Stands(rows, requested, i)
  BY <1>6 DEF Stands, Rivals
<1>7. ASSUME NEW i \in 1..Len(rows)
      PROVE  /\ r[i].accepted <=> Stands(rows, requested, i)
             /\ r[i].include <=> /\ Stands(rows, requested, i)
                                 /\ \A j \in Rivals(rows, requested, i) : i <= j
  <2>1. r[i] = RowResult(rows, requested, i)
    BY <1>2, <1>3
  <2>2. PICK d : d = ApplyDuplicatePolicy(rows, requested, i)
    OBVIOUS
  <2>3. /\ d.accepted <=> /\ ValidateRow(rows[i], requested)
                          /\ \A j, k \in DuplicateGroup(rows, requested, i) : rows[j] = rows[k]
        /\ d.include <=> d.accepted /\ \A j \in DuplicateGroup(rows, requested, i) : i <= j
    BY <2>2, Zenon DEF ApplyDuplicatePolicy
  <2>4. r[i].accepted = d.accepted /\ r[i].include = d.include
    BY <2>1, <2>2 DEF RowResult
  <2> QED
    BY <1>5, <1>6, <2>3, <2>4
<1>8. ASSUME NEW i \in 1..Len(rows), ValidateRow(rows[i], requested)
      PROVE  r[i].date = rows[i].date /\ r[i].value = CandidateValue(rows[i])
  <2>1. r[i] = RowResult(rows, requested, i)
    BY <1>2, <1>3
  <2> QED
    BY <1>8, <2>1 DEF RowResult
<1>9. DOMAIN r = 1..Len(rows)
  BY <1>2, <1>3
<1>10. ParsedRows(r, rows, requested)
  BY <1>7, <1>8, <1>9 DEF ParsedRows
<1> QED
  BY <1>1, <1>4, <1>10

\* No two rows of one date go on.
LEMMA OncePerDate ==
    ASSUME NEW r, NEW rows, NEW requested, ParsedRows(r, rows, requested), Len(rows) \in Nat,
           NEW i \in 1..Len(rows), NEW j \in 1..Len(rows),
           r[i].include, r[j].include, r[i].date = r[j].date
    PROVE  i = j
<1>1. /\ ValidateRow(rows[i], requested) /\ \A k \in Rivals(rows, requested, i) : i <= k
      /\ ValidateRow(rows[j], requested) /\ \A k \in Rivals(rows, requested, j) : j <= k
  BY DEF ParsedRows, Stands
<1>2. rows[i].date = rows[j].date
  BY <1>1 DEF ParsedRows
<1>3. i \in Rivals(rows, requested, j) /\ j \in Rivals(rows, requested, i)
  BY <1>1, <1>2 DEF Rivals
<1>4. i <= j /\ j <= i
  BY <1>1, <1>3
<1> QED
  BY <1>4

-----------------------------------------------------------------------------
(* What a response contributes depends on which rows it has, and on nothing else *)

\* The rows of an array, those of them that are not contradicted, and their bars.
RowsIn(rows) == {rows[i] : i \in 1..Len(rows)}
Undisputed(S, requested) ==
    {row \in S : /\ ValidateRow(row, requested)
                 /\ \A other \in S : ValidateRow(other, requested) /\ other.date = row.date
                                     => other = row}
BarsOf(S, requested) == {<<row.date, CandidateValue(row)>> : row \in Undisputed(S, requested)}

\* Of the indices of a row that occurs, one is the first.
LEMMA FirstIndex ==
    ASSUME NEW n \in Nat, NEW S, S \subseteq 1..n, S # {}
    PROVE  \E d \in S : \A other \in S : d <= other
<1> DEFINE F == 1..n
           Upto(x) == {k \in S : k <= x}
           T == {Upto(x) : x \in S}
           R == StrictSubsetOrdering(F)
<1>1. IsWellFoundedOn(R, SUBSET F)
  <2>1. IsFiniteSet(F)
    BY FS_Interval
  <2> HIDE DEF F
  <2> QED
    BY <2>1, FS_StrictSubsetOrderingWellFounded, FS_FiniteSubsetsOfFinite
<1>2. T \subseteq SUBSET F /\ T # {}
  OBVIOUS
<1>3. PICK U \in T : \A V \in T : <<V, U>> \notin R
  <2> HIDE DEF T, R, F
  <2> QED
    BY <1>1, <1>2, WFMin
<1>4. PICK d \in S : U = Upto(d)
  BY <1>3
<1>5. ASSUME NEW e \in S, e < d
      PROVE  FALSE
  <2>1. Upto(e) \in T /\ Upto(e) \subseteq U /\ d \in U /\ d \notin Upto(e)
    <3>1. e \in Int /\ d \in Int /\ \A k \in S : k \in Int
      OBVIOUS
    <3>2. Upto(e) \subseteq Upto(d) /\ d \in Upto(d) /\ d \notin Upto(e)
      <4>1. (\A k \in S : k <= e => k <= d) /\ d <= d /\ ~(d <= e)
        BY <1>5, <3>1
      <4> QED
        BY <4>1
    <3>3. Upto(e) \in T
      BY <1>5
    <3> HIDE DEF Upto, T
    <3> QED
      BY <1>4, <3>2, <3>3
  <2>2. Upto(e) \in SUBSET F /\ U \in SUBSET F
    BY <1>2, <1>3, <2>1
  <2>3. <<Upto(e), U>> \in R
    <3> HIDE DEF Upto, F, T
    <3> QED
      BY <2>1, <2>2 DEF StrictSubsetOrdering
  <2> QED
    BY <1>3, <2>1, <2>3
<1> QED
  BY <1>5

\* A row stands if nothing contradicts it.
LEMMA StandsUndisputed ==
    ASSUME NEW rows, NEW requested, NEW i \in 1..Len(rows)
    PROVE  Stands(rows, requested, i) <=> rows[i] \in Undisputed(RowsIn(rows), requested)
BY DEF Stands, Rivals, Undisputed, RowsIn

\* The bars of a parsed array are those of its undisputed rows.
LEMMA CanonicalBars ==
    ASSUME NEW parsed, NEW rows, NEW requested, Len(rows) \in Nat,
           ParsedRows(parsed.rows, rows, requested)
    PROVE  Canonical(parsed) = BarsOf(RowsIn(rows), requested)
<1>1. PICK r : r = parsed.rows
  OBVIOUS
<1>2. PICK W : W = Undisputed(RowsIn(rows), requested)
  OBVIOUS
<1>3. \A i \in 1..Len(rows) : Stands(rows, requested, i) <=> rows[i] \in W
  BY <1>2, StandsUndisputed
<1>4. ASSUME NEW bar \in Canonical(parsed)
      PROVE  bar \in BarsOf(RowsIn(rows), requested)
  <2>1. PICK i \in DOMAIN r : r[i].include /\ bar = <<r[i].date, r[i].value>>
    BY <1>1 DEF Canonical
  <2>2. i \in 1..Len(rows) /\ Stands(rows, requested, i) /\ ValidateRow(rows[i], requested)
    BY <1>1, <2>1 DEF ParsedRows, Stands
  <2>3. rows[i] \in W /\ bar = <<rows[i].date, CandidateValue(rows[i])>>
    BY <1>1, <1>3, <2>1, <2>2 DEF ParsedRows
  <2> QED
    BY <1>2, <2>3 DEF BarsOf
<1>5. ASSUME NEW bar \in BarsOf(RowsIn(rows), requested)
      PROVE  bar \in Canonical(parsed)
  <2>1. PICK row \in W : bar = <<row.date, CandidateValue(row)>>
    BY <1>2 DEF BarsOf
  <2>2. PICK S : S = {i \in 1..Len(rows) : rows[i] = row}
    OBVIOUS
  <2>3. row \in RowsIn(rows)
    BY <1>2, <2>1 DEF Undisputed
  <2>4. S \subseteq 1..Len(rows) /\ S # {}
    BY <2>2, <2>3 DEF RowsIn
  <2>5. PICK i \in S : \A other \in S : i <= other
    BY <2>4, FirstIndex
  <2>6. i \in 1..Len(rows) /\ rows[i] = row
    BY <2>2, <2>5
  <2>7. Stands(rows, requested, i) /\ ValidateRow(rows[i], requested)
    BY <1>3, <2>1, <2>6 DEF Stands
  <2>8. \A j \in Rivals(rows, requested, i) : i <= j
    <3> TAKE j \in Rivals(rows, requested, i)
    <3>1. rows[j] = row /\ j \in 1..Len(rows)
      BY <2>6, <2>7 DEF Stands, Rivals
    <3>2. j \in S
      BY <2>2, <3>1
    <3> QED
      BY <2>5, <3>2
  <2>9. i \in DOMAIN r /\ r[i].include /\ r[i].date = row.date /\ r[i].value = CandidateValue(row)
    BY <1>1, <2>6, <2>7, <2>8 DEF ParsedRows
  <2> QED
    BY <1>1, <2>1, <2>9 DEF Canonical
<1> QED
  BY <1>4, <1>5

\* Reversing the rows, or repeating them, leaves the set of rows as it is.
LEMMA SameRows ==
    ASSUME NEW S, NEW rows \in Seq(S), rows # <<>>
    PROVE  /\ Reverse(rows) \in Seq(S) /\ Reverse(rows) # <<>>
           /\ RowsIn(Reverse(rows)) = RowsIn(rows)
           /\ rows \o rows \in Seq(S) /\ rows \o rows # <<>>
           /\ RowsIn(rows \o rows) = RowsIn(rows)
<1>1. PICK n \in Nat : n = Len(rows)
  OBVIOUS
<1>2. \A i \in 1..n : rows[i] \in S /\ (n - i) + 1 \in 1..n
  BY <1>1
<1>3. n # 0
  BY <1>1, EmptySeq
<1>4. PICK q : q = Reverse(rows)
  OBVIOUS
<1>5. q = [i \in 1..n |-> rows[(n - i) + 1]]
  BY <1>1, <1>4 DEF Reverse
<1>6. q \in Seq(S) /\ Len(q) = n
  <2>1. \A i \in 1..n : q[i] \in S
    BY <1>2, <1>5
  <2>2. q \in [1..n -> S]
    BY <1>5, <2>1
  <2> QED
    BY <2>2
<1>7. \A i \in 1..n : q[i] = rows[(n - i) + 1]
  BY <1>5
<1>8. RowsIn(q) = RowsIn(rows)
  <2>1. ASSUME NEW x \in RowsIn(q)
        PROVE  x \in RowsIn(rows)
    <3>1. PICK i \in 1..n : x = q[i]
      BY <1>6 DEF RowsIn
    <3> QED
      BY <1>1, <1>2, <1>7, <3>1 DEF RowsIn
  <2>2. ASSUME NEW x \in RowsIn(rows)
        PROVE  x \in RowsIn(q)
    <3>1. PICK i \in 1..n : x = rows[i]
      BY <1>1 DEF RowsIn
    <3>2. (n - i) + 1 \in 1..n /\ (n - ((n - i) + 1)) + 1 = i
      OBVIOUS
    <3>3. q[(n - i) + 1] = x
      BY <1>7, <3>1, <3>2
    <3> QED
      BY <1>6, <3>2, <3>3 DEF RowsIn
  <2> QED
    BY <2>1, <2>2
<1>9. PICK t : t = rows \o rows
  OBVIOUS
<1>10. /\ t \in Seq(S) /\ Len(t) = n + n
       /\ \A i \in 1..(n + n) : t[i] = IF i <= n THEN rows[i] ELSE rows[i - n]
  BY <1>1, <1>9, ConcatProperties
<1>11. RowsIn(t) = RowsIn(rows)
  <2>1. ASSUME NEW x \in RowsIn(t)
        PROVE  x \in RowsIn(rows)
    <3>1. PICK i \in 1..(n + n) : x = t[i]
      BY <1>10 DEF RowsIn
    <3>2. CASE i <= n
      BY <1>1, <1>10, <3>1, <3>2 DEF RowsIn
    <3>3. CASE ~(i <= n)
      <4>1. i - n \in 1..n /\ x = rows[i - n]
        BY <1>10, <3>1, <3>3
      <4> QED
        BY <1>1, <4>1 DEF RowsIn
    <3> QED
      BY <3>2, <3>3
  <2>2. ASSUME NEW x \in RowsIn(rows)
        PROVE  x \in RowsIn(t)
    <3>1. PICK i \in 1..n : x = rows[i]
      BY <1>1 DEF RowsIn
    <3>2. i \in 1..(n + n) /\ t[i] = x
      BY <1>10, <3>1
    <3> QED
      BY <1>10, <3>2 DEF RowsIn
  <2> QED
    BY <2>1, <2>2
<1>12. q # <<>> /\ t # <<>>
  BY <1>3, <1>6, <1>10
<1> QED
  BY <1>4, <1>6, <1>8, <1>9, <1>10, <1>11, <1>12

-----------------------------------------------------------------------------
(* Theorems *)

\* What DailyBarIngestion assumes of a reply (ReplyWellFormed), of a parsed response.
WellFormed(parsed, rows, requested) ==
    /\ parsed.outcome # "rows" => parsed.rows = <<>>
    /\ \A i \in DOMAIN parsed.rows :
          /\ parsed.rows[i].include => parsed.rows[i].accepted
          /\ parsed.rows[i].accepted =>
                /\ i \in 1..Len(rows) /\ ValidateRow(rows[i], requested)
                /\ parsed.rows[i].date = rows[i].date /\ parsed.rows[i].date # Bad
                /\ parsed.rows[i].value = CandidateValue(rows[i])
    /\ \A i, j \in DOMAIN parsed.rows :
          parsed.rows[i].include /\ parsed.rows[j].include
            /\ parsed.rows[i].date = parsed.rows[j].date => i = j

\* Whatever a provider answers, the parser's reply is one the ingestion service can
\* work with: rows only with the outcome "rows", a date and values wherever a row is
\* accepted, no rejected row and no date twice among the rows that go on
\* (parse_unadjusted_daily_candles; the assumption RepliesWellFormed).
THEOREM RepliesAreWellFormed ==
    ASSUME NEW p, NEW requested, Array(p)
    PROVE  WellFormed(ParseCandles(p, requested), p.rows, requested)
<1>1. PICK parsed, rows : parsed = ParseCandles(p, requested) /\ rows = p.rows
  OBVIOUS
<1>2. parsed.outcome = ParseEnvelope(p)
  BY <1>1 DEF ParseCandles
<1>3. CASE ParseEnvelope(p) # "rows"
  <2>1. parsed.rows = <<>>
    BY <1>1, <1>3 DEF ParseCandles
  <2>2. DOMAIN parsed.rows = {}
    BY <2>1
  <2>3. WellFormed(parsed, rows, requested)
    BY <2>1, <2>2 DEF WellFormed
  <2> QED
    BY <1>1, <2>3
<1>4. CASE ParseEnvelope(p) = "rows"
  <2>1. PICK r : r = parsed.rows
    OBVIOUS
  <2>2. ParsedRows(r, rows, requested) /\ Len(rows) \in Nat
    BY <1>1, <1>4, <2>1, RowsParsed DEF Array
  <2>3. DOMAIN r = 1..Len(rows)
    BY <2>2 DEF ParsedRows
  <2>4. ASSUME NEW i \in DOMAIN r
        PROVE  /\ r[i].include => r[i].accepted
               /\ r[i].accepted => /\ i \in 1..Len(rows) /\ ValidateRow(rows[i], requested)
                                   /\ r[i].date = rows[i].date /\ r[i].date # Bad
                                   /\ r[i].value = CandidateValue(rows[i])
    <3>1. /\ r[i].include => r[i].accepted
          /\ r[i].accepted => /\ i \in 1..Len(rows) /\ ValidateRow(rows[i], requested)
                              /\ r[i].date = rows[i].date /\ r[i].value = CandidateValue(rows[i])
      BY <2>2, <2>3 DEF ParsedRows, Stands
    <3>2. ValidateRow(rows[i], requested) => rows[i].date # Bad
      BY DEF ValidateRow
    <3> QED
      BY <3>1, <3>2
  <2>5. \A i, j \in DOMAIN r : r[i].include /\ r[j].include /\ r[i].date = r[j].date => i = j
    BY <2>2, <2>3, OncePerDate
  <2>6. parsed.outcome = "rows"
    BY <1>2, <1>4
  <2>7. WellFormed(parsed, rows, requested)
    BY <2>1, <2>4, <2>5, <2>6 DEF WellFormed
  <2> QED
    BY <1>1, <2>7
<1> QED
  BY <1>3, <1>4

\* A payload under construction, and the result that belongs to it.
PayloadInv ==
    /\ payload \in [shape : PayloadShape, rows : Seq(Rows), allObjects : BOOLEAN,
                    status : {"none", "no_data", "error"}, successful : {"none", "true", "false"},
                    code : {200}, message : BOOLEAN]
    /\ result = NotParsed \/ result = ParseCandles(payload, Symbol)

\* It is inductive.
LEMMA PayloadsKept == Spec => []PayloadInv
<1>1. ASSUME Init
      PROVE  PayloadInv
  <2>1. PICK shape \in PayloadShape, status \in {"none", "no_data", "error"},
             successful \in {"none", "true", "false"}, message \in BOOLEAN, all \in BOOLEAN :
               payload = Body(shape, status, successful, message, all)
    BY <1>1 DEF Init
  <2>2. <<>> \in Seq(Rows)
    OBVIOUS
  <2>3. result = NotParsed
    BY <1>1 DEF Init
  <2> QED
    BY <2>1, <2>2, <2>3 DEF PayloadInv, Body
<1>2. ASSUME PayloadInv, [Next]_vars
      PROVE  PayloadInv'
  <2>1. CASE ReceiveRow
    <3>1. PICK row \in Rows : payload' = [payload EXCEPT !.rows = Append(payload.rows, row)]
      BY <2>1 DEF ReceiveRow
    <3>2. Append(payload.rows, row) \in Seq(Rows)
      BY <1>2 DEF PayloadInv
    <3>3. result' = NotParsed
      BY <2>1 DEF ReceiveRow
    <3> QED
      BY <1>2, <3>1, <3>2, <3>3 DEF PayloadInv
  <2>2. CASE Parse
    BY <1>2, <2>2 DEF Parse, PayloadInv
  <2>3. CASE UNCHANGED vars
    BY <1>2, <2>3 DEF vars, PayloadInv
  <2> QED
    BY <1>2, <2>1, <2>2, <2>3 DEF Next
<1> QED
  BY <1>1, <1>2, PTL DEF Spec

\* Payloads that differ in their rows only.
LEMMA OtherRows ==
    ASSUME PayloadInv, ParseEnvelope(payload) = "rows", NEW rows \in Seq(Rows), rows # <<>>
    PROVE  Canonical(WithRows(rows)) = BarsOf(RowsIn(rows), Symbol)
<1>1. PICK p : p = [payload EXCEPT !.rows = rows]
  OBVIOUS
<1>2. p.rows = rows /\ p.shape = payload.shape /\ p.allObjects = payload.allObjects
  BY <1>1 DEF PayloadInv
<1>3. payload.shape = "array" /\ payload.allObjects
  <2>1. payload.shape \in PayloadShape
    BY DEF PayloadInv
  <2>2. CASE payload.shape = "undecodable"
    BY <2>2 DEF ParseEnvelope
  <2>3. CASE payload.shape = "scalar"
    BY <2>3 DEF ParseEnvelope
  <2>4. CASE payload.shape = "object"
    BY <2>4 DEF ParseEnvelope
  <2>5. CASE payload.shape = "array"
    BY <2>5 DEF ParseEnvelope
  <2> QED
    BY <2>1, <2>2, <2>3, <2>4, <2>5 DEF PayloadShape
<1>4. ParseEnvelope(p) = "rows"
  BY <1>2, <1>3 DEF ParseEnvelope
<1>5. Array(p) /\ Len(rows) \in Nat
  BY <1>2 DEF Array
<1>6. ParsedRows(ParseCandles(p, Symbol).rows, rows, Symbol)
  BY <1>2, <1>4, <1>5, RowsParsed
<1>7. Canonical(ParseCandles(p, Symbol)) = BarsOf(RowsIn(rows), Symbol)
  BY <1>5, <1>6, CanonicalBars
<1> QED
  BY <1>1, <1>7 DEF WithRows

\* For arrays of any rows and any length: which bars are canonicalized depends on
\* neither the order of the provider's rows nor their repetition
\* (_apply_duplicate_policy).
THEOREM OrderIsIgnored == Spec => []OrderAndRepetitionIgnored
<1>1. PayloadInv => OrderAndRepetitionIgnored
  <2> SUFFICES ASSUME PayloadInv, result.outcome = "rows"
               PROVE  /\ Canonical(WithRows(Reverse(payload.rows))) = Canonical(result)
                      /\ Canonical(WithRows(payload.rows \o payload.rows)) = Canonical(result)
    BY DEF OrderAndRepetitionIgnored
  <2>1. result = ParseCandles(payload, Symbol)
    BY DEF PayloadInv, NotParsed
  <2>2. ParseEnvelope(payload) = "rows"
    BY <2>1 DEF ParseCandles
  <2>3. PICK rows : rows = payload.rows
    OBVIOUS
  <2>4. rows \in Seq(Rows)
    BY <2>3 DEF PayloadInv
  <2>5. rows # <<>>
    <3>1. payload.shape \in PayloadShape
      BY DEF PayloadInv
    <3> QED
      BY <2>2, <2>3, <3>1 DEF ParseEnvelope, PayloadShape
  <2>6. /\ Reverse(rows) \in Seq(Rows) /\ Reverse(rows) # <<>>
        /\ RowsIn(Reverse(rows)) = RowsIn(rows)
        /\ rows \o rows \in Seq(Rows) /\ rows \o rows # <<>>
        /\ RowsIn(rows \o rows) = RowsIn(rows)
    BY <2>4, <2>5, SameRows
  <2>7. Canonical(WithRows(rows)) = BarsOf(RowsIn(rows), Symbol)
    BY <2>2, <2>4, <2>5, OtherRows
  <2>8. Canonical(WithRows(Reverse(rows))) = BarsOf(RowsIn(rows), Symbol)
    BY <2>2, <2>6, OtherRows
  <2>9. Canonical(WithRows(rows \o rows)) = BarsOf(RowsIn(rows), Symbol)
    BY <2>2, <2>6, OtherRows
  <2>10. WithRows(rows) = result
    <3>1. [payload EXCEPT !.rows = rows] = payload
      BY <2>3 DEF PayloadInv
    <3> QED
      BY <2>1, <3>1 DEF WithRows
  <2> QED
    BY <2>3, <2>7, <2>8, <2>9, <2>10
<1> QED
  BY <1>1, PayloadsKept, PTL

\* Every bar that leaves the parser passes the CHECK constraints of
\* market.bar_revision, and no date leaves it twice, whatever the provider sent
\* (_validate_row, _apply_duplicate_policy).
THEOREM CandidatesPass == Spec => []CandidatesPassTableChecks
<1>1. PayloadInv => CandidatesPassTableChecks
  <2> SUFFICES ASSUME PayloadInv
               PROVE  CandidatesPassTableChecks
    OBVIOUS
  <2>1. PICK rows, parsed : rows = payload.rows /\ parsed = ParseCandles(payload, Symbol)
    OBVIOUS
  <2>2. Array(payload)
    BY DEF PayloadInv, Array
  <2>3. WellFormed(parsed, rows, Symbol)
    BY <2>1, <2>2, RepliesAreWellFormed
  <2>4. CASE result = NotParsed
    <3>1. result.rows = <<>> /\ DOMAIN result.rows = {}
      BY <2>4 DEF NotParsed
    <3> QED
      BY <3>1 DEF CandidatesPassTableChecks, Canonical
  <2>5. CASE result = parsed
    <3>1. ASSUME NEW bar \in Canonical(result)
          PROVE  /\ bar[2][2] >= bar[2][3]
                 /\ bar[2][3] <= bar[2][1] /\ bar[2][1] <= bar[2][2]
                 /\ bar[2][3] <= bar[2][4] /\ bar[2][4] <= bar[2][2]
                 /\ bar[2][5] >= 0
      <4>1. PICK i \in DOMAIN result.rows :
               result.rows[i].include /\ bar = <<result.rows[i].date, result.rows[i].value>>
        BY DEF Canonical
      <4>2. ValidateRow(rows[i], Symbol) /\ result.rows[i].value = CandidateValue(rows[i])
        BY <2>3, <2>5, <4>1 DEF WellFormed
      <4>3. PICK row : row = rows[i]
        OBVIOUS
      <4>4. bar[2] = <<row.open, row.high, row.low, row.close, row.volume>>
        BY <4>1, <4>2, <4>3 DEF CandidateValue
      <4>5. /\ row.high >= row.low /\ row.low <= row.open /\ row.open <= row.high
            /\ row.low <= row.close /\ row.close <= row.high /\ row.volume >= 0
        BY <4>2, <4>3 DEF ValidateRow
      <4> QED
        BY <4>4, <4>5
    <3>2. \A i, j \in DOMAIN result.rows :
             result.rows[i].include /\ result.rows[j].include
               /\ result.rows[i].date = result.rows[j].date => i = j
      BY <2>3, <2>5 DEF WellFormed
    <3> QED
      BY <3>1, <3>2 DEF CandidatesPassTableChecks
  <2> QED
    BY <2>1, <2>4, <2>5 DEF PayloadInv
<1> QED
  BY <1>1, PayloadsKept, PTL
=============================================================================
