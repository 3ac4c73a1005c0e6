--------------------------- MODULE DailyBarParser ---------------------------
(***************************************************************************)
(* parse_unadjusted_daily_candles of integrations/brsapi/parser.py as pure *)
(* operators: the envelope is classified, every row of a success array is  *)
(* validated on its own, and the duplicate policy then settles the rows    *)
(* that name the same trading date.                                        *)
(*                                                                         *)
(* A payload is what strict JSON decoding leaves: its shape, the items of  *)
(* an array, the four status fields of an object.  A field of a row is a   *)
(* value of its type, or Bad when it is absent, has another type or cannot *)
(* be read (a Jalali date that does not exist, a number that is not        *)
(* finite); each of those cases adds an error to the row.  A source time   *)
(* is optional, so its absence is a value of its own.                      *)
(***************************************************************************)
EXTENDS Integers, Sequences, FiniteSets

CONSTANT Bad        \* a field the row validator reports an error for

PayloadShape == {"undecodable", "array", "object", "scalar"}

(***************************************************************************)
(* parse_candlestick_envelope.  "malformed" and "contract_error" are the   *)
(* two exceptions that quarantine a batch, "provider_error" fails it.      *)
(***************************************************************************)
ParseEnvelope(p) ==
    CASE p.shape = "undecodable" -> "malformed"
      [] p.shape = "scalar" -> "contract_error"
      [] p.shape = "array" ->
            IF p.rows = <<>> \/ ~p.allObjects THEN "contract_error" ELSE "rows"
      [] p.shape = "object" /\ p.status = "no_data" ->
            IF p.successful = "true" /\ p.code = 200 /\ ~p.message
            THEN "no_data" ELSE "contract_error"
      [] p.shape = "object" /\ p.status # "no_data" ->
            IF p.successful = "false" \/ p.message \/ p.status = "error"
            THEN "provider_error" ELSE "contract_error"

Prices(row) == {row.open, row.high, row.low, row.close}

\* Faulty variant: the close is not compared with the low and the high.
ValidateRowWithoutClose(row, requested) ==
    /\ Bad \notin {row.l18, row.type, row.count, row.date, row.time, row.volume}
    /\ Bad \notin Prices(row)
    /\ row.l18 = requested
    /\ row.count >= 0
    /\ \A price \in Prices(row) : price >= 0
    /\ row.volume >= 0
    /\ row.high >= row.low
    /\ row.low <= row.open /\ row.open <= row.high

(***************************************************************************)
(* _validate_row: the row has no error, so it yields a candidate.  A wrong *)
(* "type" or a "count" that differs from the number of rows only warns.    *)
(***************************************************************************)
ValidateRow(row, requested) ==
    /\ Bad \notin {row.l18, row.type, row.count, row.date, row.time, row.volume}
    /\ Bad \notin Prices(row)
    /\ row.l18 = requested
    /\ row.count >= 0
    /\ \A price \in Prices(row) : price >= 0
    /\ row.volume >= 0
    /\ row.high >= row.low
    /\ row.low <= row.open /\ row.open <= row.high
    /\ row.low <= row.close /\ row.close <= row.high

\* The rows that _apply_duplicate_policy groups with row i: the valid ones of
\* its date.  Valid rows carry the requested symbol, so the date is the key.
DuplicateGroup(rows, requested, i) ==
    {j \in DOMAIN rows : /\ ValidateRow(rows[j], requested)
                         /\ rows[j].date = rows[i].date}

\* Faulty variant: the first row of a group wins, whatever the others say.
ApplyDuplicatePolicyFirstWins(rows, requested, i) ==
    LET accepted == ValidateRow(rows[i], requested)
    IN  [accepted |-> accepted,
         include  |-> accepted /\ \A j \in DuplicateGroup(rows, requested, i) : i <= j]

(***************************************************************************)
(* _apply_duplicate_policy for row i.  Rows of a group with one payload    *)
(* hash stay accepted and only the first goes on; a group with two hashes  *)
(* is rejected as a whole.  The hash is of the canonical JSON of the raw   *)
(* row: equal rows and only equal rows share it.                           *)
(***************************************************************************)
ApplyDuplicatePolicy(rows, requested, i) ==
    LET group     == DuplicateGroup(rows, requested, i)
        identical == \A j, k \in group : rows[j] = rows[k]
        accepted  == ValidateRow(rows[i], requested) /\ identical
    IN  [accepted |-> accepted,
         include  |-> accepted /\ \A j \in group : i <= j]

\* The financial values of a candidate: what the canonical bar stores.
CandidateValue(row) == <<row.open, row.high, row.low, row.close, row.volume>>

RowResult(rows, requested, i) ==
    LET disposition == ApplyDuplicatePolicy(rows, requested, i)
        candidate   == ValidateRow(rows[i], requested)
    IN  [accepted |-> disposition.accepted,
         include  |-> disposition.include,
         date     |-> IF candidate THEN rows[i].date ELSE Bad,
         value    |-> IF candidate THEN CandidateValue(rows[i]) ELSE Bad]

\* parse_unadjusted_daily_candles: the outcome the service branches on and,
\* for a success array, one result per provider row in provider order.
ParseCandles(p, requested) ==
    LET outcome == ParseEnvelope(p)
    IN  [outcome |-> outcome,
         rows    |-> IF outcome = "rows"
                     THEN [i \in DOMAIN p.rows |-> RowResult(p.rows, requested, i)]
                     ELSE <<>>]
=============================================================================
