------------------------- MODULE MCReferenceEngine -------------------------
(***************************************************************************)
(* Small instances of ReferenceEngine.  The strategy compares the last two *)
(* closes: a rise is a buy of one unit, a fall a sale.  Bars are given by  *)
(* their closes and by the instants at which they become visible.          *)
(***************************************************************************)
EXTENDS ReferenceEngine

Low == 100
High == 200

Rows(closes, visible) ==
    {[open |-> k, revision_no |-> 1, available |-> visible[k], close |-> closes[k]] :
        k \in DOMAIN closes}

Correction(open, ts, close) ==
    [open |-> open, revision_no |-> 2, available |-> ts, close |-> close]

\* One series for every role.
OneSeries(rows) == [role \in Role |-> rows]
Pair(one, two) == OneSeries(1 :> one @@ 2 :> two)

\* One instrument whose signals come from another series than its executions.
Split(signal, execution, two) ==
    [role \in Role |-> 1 :> (IF role = "signal" THEN signal ELSE execution) @@ 2 :> two]

Closes(n) == [1..n -> {Low, High}]

NoLag == [i \in Instruments |-> 0]
MixedLag == [i \in Instruments |-> i - 1]

\* Bars of one instrument beside one that rises and falls: four bars published in
\* any order and together, the last or all of them after the run, one of them
\* corrected early or late; five bars published one by one; and executions that lack
\* a signal's bar, have one more, or become visible before the signal.
AnyDatasets ==
    LET two == Rows(<<Low, High, Low>>, <<1, 2, 4>>)
        timely(c) == Rows(c, [k \in DOMAIN c |-> k])
    IN  {Pair(rows, two) :
            rows \in {Rows(c, v) \cup extra :
                        c \in Closes(4),
                        v \in [1..4 -> 1..4] \cup {<<1, 2, 3, 6>>, <<6, 6, 6, 6>>},
                        extra \in {{}, {Correction(1, 2, Low)}, {Correction(2, 4, Low)}}}
                     \cup {Rows(c, v) : c \in Closes(5), v \in {<<1, 2, 3, 4, 5>>, <<1, 2, 3, 4, 6>>}}}
        \cup UNION {{Split(timely(c), {row \in timely(c) : row.open # 3}, two),
                    Split({row \in timely(c) : row.open # 3}, timely(c), two),
                    Split(Rows(c, <<2, 3, 4, 5>>), timely(c), two)} : c \in Closes(4)}

\* Bars 2 and 3 of a rise become visible together, as the bars of one backfill do.
BackfilledDatasets == {OneSeries(1 :> Rows(c, <<1, 2, 2, 3>>)) : c \in Closes(4)}

\* One bar at every instant.
DailyDatasets == {OneSeries(1 :> Rows(c, [k \in 1..8 |-> k])) : c \in Closes(8)}

=============================================================================
