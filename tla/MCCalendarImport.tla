-------------------------- MODULE MCCalendarImport --------------------------
(***************************************************************************)
(* Three calls whose ranges overlap in one, two or three dates, with equal *)
(* and with different sessions, a request id used twice, and a calendar in *)
(* another timezone.                                                       *)
(***************************************************************************)
EXTENDS CalendarImport, TLC

CONSTANTS c1, c2, c3, r1, r2, r3, open, closed, tehran, utc

Regular(dates) == [timezone |-> tehran, sessions |-> [d \in dates |-> open]]

Full == Regular({1, 2, 3})
Head == Regular({1, 2})
Tail == Regular({2, 3})
Holiday == [Full EXCEPT !.sessions[3] = closed]
Foreign == [Head EXCEPT !.timezone = utc]

AllCalendars == {Full, Head, Tail, Holiday, Foreign}

Doc(request, calendar) == [request |-> request, calendar |-> calendar]

MixedDocuments ==
    c1 :> {Doc(r1, Full), Doc(r1, Head)} @@
    c2 :> {Doc(r2, m) : m \in {Tail, Holiday, Foreign}} @@
    c3 :> {Doc(r, m) : r \in {r1, r3}, m \in {Head, Holiday}}

UnevenFaults == c1 :> 2 @@ c2 :> 1 @@ c3 :> 0
=============================================================================
