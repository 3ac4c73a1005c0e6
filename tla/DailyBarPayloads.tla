-------------------------- MODULE DailyBarPayloads --------------------------
(***************************************************************************)
(* parse_unadjusted_daily_candles at work: a response body is made of rows *)
(* of any kind, in any order and number, and is then parsed.               *)
(***************************************************************************)
EXTENDS DailyBarParser, SequencesExt

CONSTANTS
    Rows,       \* the decoded rows that may occur in a success array
    Symbol,     \* the requested symbol
    MaxRows     \* bound on the rows of a success array

VARIABLES
    payload,    \* the decoded response body
    result      \* what the parser returned, once it ran

vars == <<payload, result>>

NotParsed == [outcome |-> "none", rows |-> <<>>]

Body(shape, status, successful, message, allObjects) ==
    [shape |-> shape, rows |-> <<>>, allObjects |-> allObjects, status |-> status,
     successful |-> successful, code |-> 200, message |-> message]

Init ==
    /\ payload \in {Body(shape, status, successful, message, all) :
                      shape \in PayloadShape, status \in {"none", "no_data", "error"},
                      successful \in {"none", "true", "false"},
                      message \in BOOLEAN, all \in BOOLEAN}
    /\ payload.shape # "array" => payload.allObjects
    /\ payload.shape # "object" =>
          payload.status = "none" /\ payload.successful = "none" /\ ~payload.message
    /\ result = NotParsed

ReceiveRow ==
    /\ payload.shape = "array" /\ result = NotParsed
    /\ Len(payload.rows) < MaxRows
    /\ \E row \in Rows : payload' = [payload EXCEPT !.rows = Append(@, row)]
    /\ UNCHANGED result

Parse ==
    /\ result = NotParsed
    /\ result' = ParseCandles(payload, Symbol)
    /\ UNCHANGED payload

Next == ReceiveRow \/ Parse

Spec == Init /\ [][Next]_vars

-----------------------------------------------------------------------------
(* Properties *)

\* The bars a parsed response contributes: date and values of the rows that go on.
Canonical(parsed) ==
    {<<parsed.rows[i].date, parsed.rows[i].value>> :
        i \in {k \in DOMAIN parsed.rows : parsed.rows[k].include}}

WithRows(rows) == ParseCandles([payload EXCEPT !.rows = rows], Symbol)

\* Neither the order of the provider's rows nor a literal repetition of them
\* changes which bars are canonicalized (_apply_duplicate_policy: the first row
\* of a group has no privilege but to represent identical rows).
OrderAndRepetitionIgnored ==
    result.outcome = "rows" =>
        /\ Canonical(WithRows(Reverse(payload.rows))) = Canonical(result)
        /\ Canonical(WithRows(payload.rows \o payload.rows)) = Canonical(result)

\* A bar that leaves the parser passes the CHECK constraints of
\* market.bar_revision, and no date leaves it twice: one row cannot make the
\* whole canonicalization transaction fail.
CandidatesPassTableChecks ==
    /\ \A bar \in Canonical(result) :
          LET v == bar[2]
          IN  /\ v[2] >= v[3]
              /\ v[3] <= v[1] /\ v[1] <= v[2]
              /\ v[3] <= v[4] /\ v[4] <= v[2]
              /\ v[5] >= 0
    /\ \A i, j \in DOMAIN result.rows :
          result.rows[i].include /\ result.rows[j].include
            /\ result.rows[i].date = result.rows[j].date => i = j
=============================================================================
