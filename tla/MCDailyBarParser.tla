-------------------------- MODULE MCDailyBarParser --------------------------
(***************************************************************************)
(* Small instances of DailyBarPayloads.                                    *)
(***************************************************************************)
EXTENDS DailyBarPayloads

CONSTANT MaxPrice    \* bound on the prices of a row

MCSymbol == "symbol"

Row(date, time, o, h, l, c, volume) ==
    [l18 |-> MCSymbol, type |-> 2, count |-> 2, date |-> date, time |-> time,
     open |-> o, high |-> h, low |-> l, close |-> c, volume |-> volume]

Plain == Row(11, "none", 1, 1, 1, 1, 1)

\* Every OHLC order on one date; rows that repeat or contradict one another on
\* two dates; and a row for each field the validator reports an error for.
MCRows ==
    {Row(11, "none", o, h, l, c, 1) : o, h, l, c \in 1..MaxPrice}
      \cup {Row(d, t, 1, 1, 1, 1, v) : d \in {11, 12}, t \in {"none", "noon"}, v \in {0, 1}}
      \cup {[Plain EXCEPT !.l18 = "other"], [Plain EXCEPT !.volume = -1],
            [Plain EXCEPT !.count = -1], [Plain EXCEPT !.date = Bad],
            [Plain EXCEPT !.open = -1, !.low = -1], [Plain EXCEPT !.type = 1]}
=============================================================================
