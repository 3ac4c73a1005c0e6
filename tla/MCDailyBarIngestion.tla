------------------------ MODULE MCDailyBarIngestion ------------------------
(***************************************************************************)
(* Small instances of DailyBarIngestion.  Provider replies are what        *)
(* DailyBarParser makes of a handful of payloads.  Dates are day numbers,  *)
(* ten to a month; the session of date d is closed at time 1 in every      *)
(* instance, so a reply received at time 0 is before the close.            *)
(***************************************************************************)
EXTENDS DailyBarIngestion, TLC

Parser == INSTANCE DailyBarParser WITH Bad <- None

Candle(s, d, price) ==
    [l18 |-> s, type |-> 2, count |-> 1, date |-> d, time |-> "none",
     open |-> price, high |-> price, low |-> price, close |-> price, volume |-> 1]

Unreadable(s) == [Candle(s, None, 1) EXCEPT !.open = None]

Payload(shape, rows, status) ==
    [shape |-> shape, rows |-> rows, allObjects |-> TRUE, status |-> status,
     successful |-> IF status = "error" THEN "false" ELSE "true",
     code |-> 200, message |-> FALSE]

Array(rows) == Payload("array", rows, "none")

Parsed(s, payloads) == {Parser!ParseCandles(p, s) : p \in payloads}

NoResponse(outcome) == [outcome |-> outcome, rows |-> <<>>]

MCValues == {<<p, p, p, p, 1>> : p \in 1..2}
MCMonthOf == [d \in Dates |-> d \div 10]
MCStored == [v \in Values |-> v]
MCInstrument == CHOOSE i \in Instruments : TRUE
MCResolution ==
    [s \in Symbols |-> [d \in Dates |->
        [instrument |-> MCInstrument, valid |-> TRUE, close |-> 1]]]

\* Corrections of one bar, a reply that spans two months, a reply with a row
\* the parser rejects, and every kind of failed provider call.
SafetyReplies ==
    [s \in Symbols |->
        Parsed(s, {Array(<<Candle(s, 11, 1)>>),
                   Array(<<Candle(s, 21, 1), Candle(s, 11, 2)>>),
                   Array(<<Candle(s, 21, 2), Unreadable(s)>>),
                   Payload("object", <<>>, "no_data"),
                   Payload("object", <<>>, "error"),
                   Payload("undecodable", <<>>, "none")})
        \cup {NoResponse("http_error"), NoResponse("transport_error")}]

\* One bar, and the readings that may follow each other.
CorrectionReplies ==
    [s \in Symbols |-> Parsed(s, {Array(<<Candle(s, 11, price)>>) : price \in 1..2})]

\* Two instruments that exchanged their symbols after date 21.  The session of date 22
\* is not a trading day, that of date 12 is not known.
ExchangedResolution ==
    [s \in Symbols |-> [d \in Dates |->
        IF d = 12 THEN None
        ELSE [instrument |-> IF (s = "s1") = (d <= 21) THEN "i1" ELSE "i2",
              valid |-> d # 22, close |-> 1]]]

\* Every verdict of canonicalization (usable rows, an identical duplicate, a
\* conflicting one, a date without a session and one that is not a trading day), and
\* replies that name both instruments in both orders and share two months, one or
\* none.  Month 0 has no partition.
ExchangedReplies ==
    [s \in Symbols |->
        Parsed(s, {Array(<<Candle(s, 11, 1), Candle(s, 11, 1), Candle(s, 41, 1)>>),
                   Array(<<Candle(s, 31, 1), Candle(s, 22, 1), Candle(s, 21, 1)>>),
                   Array(<<Candle(s, 11, 2), Candle(s, 31, 1), Candle(s, 31, 2),
                           Candle(s, 1, 1)>>),
                   Array(<<Candle(s, 12, 1)>>)})]

\* Sessions closed before the first reply.
ClosedResolution ==
    [s \in Symbols |-> [d \in Dates |->
        [instrument |-> MCInstrument, valid |-> TRUE, close |-> 0]]]

WorkerSymmetry == Permutations(Workers) \cup Permutations(RequestIds)
=============================================================================
