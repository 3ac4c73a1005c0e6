------------------------- MODULE PointInTimeReplay -------------------------
(***************************************************************************)
(* What a point-in-time replay promises: what the engine does up to an     *)
(* instant depends only on rows that were visible by that instant.  Two    *)
(* calls of simulate() are run side by side over two datasets, and their   *)
(* journals are compared up to every instant until which the datasets      *)
(* agree.  The calls share nothing, and each is deterministic, so that the *)
(* order in which their steps are interleaved is of no account.            *)
(***************************************************************************)
EXTENDS ReferenceEngine

VARIABLES   \* of the other call
    data2, upcoming2, now2, filling2, deciding2, pending2, cash2, position2,
    decisions2, orders2, fills2, valuations2, outcome2

Other == INSTANCE ReferenceEngine
    WITH data <- data2, upcoming <- upcoming2, now <- now2, filling <- filling2,
         deciding <- deciding2, pending <- pending2, cash <- cash2,
         position <- position2, decisions <- decisions2, orders <- orders2,
         fills <- fills2, valuations <- valuations2, outcome <- outcome2

otherVars == <<data2, upcoming2, now2, filling2, deciding2, pending2, cash2, position2,
               decisions2, orders2, fills2, valuations2, outcome2>>
replayVars == <<vars, otherVars>>

ReplayInit == Init /\ Other!Init

BothRun == Next /\ Other!Next
OnlyFirstRuns == outcome2 # "running" /\ Next /\ UNCHANGED otherVars
OnlyOtherRuns == outcome # "running" /\ Other!Next /\ UNCHANGED vars

ReplayNext == BothRun \/ OnlyFirstRuns \/ OnlyOtherRuns

ReplaySpec == ReplayInit /\ [][ReplayNext]_replayVars

-----------------------------------------------------------------------------
(* Properties *)

VisibleRows(d, ts) ==
    [role \in {"signal", "execution"} |->
        [i \in Instruments |-> {row \in d[role][i] : row.available <= ts}]]

\* No execution bar becomes visible before one that opens earlier; bars may become
\* visible together.
PublishedInOrder(d) ==
    \A i \in Instruments : \A a, b \in Opens(d["execution"][i]) :
        a < b => FirstVisibility(d["execution"][i], a) <= FirstVisibility(d["execution"][i], b)

\* The entries of a journal up to an instant, with their numbers.
JournalUntil(journal, ts) ==
    {<<k, journal[k]>> : k \in {n \in DOMAIN journal : journal[n].ts <= ts}}

\* No look-ahead: two runs whose datasets agree on every row visible at an instant
\* have taken the same decisions and made the same fills by that instant, whatever
\* bars and corrections come later (ArtifactBarSelector, simulate).
NoLookAhead ==
    /\ outcome # "running" /\ outcome2 # "running"
    /\ PublishedInOrder(data) /\ PublishedInOrder(data2)
    => \A ts \in {row.available : row \in UNION Range(data["signal"])} \cup {now} :
            VisibleRows(data, ts) = VisibleRows(data2, ts) =>
                /\ JournalUntil(decisions, ts) = JournalUntil(decisions2, ts)
                /\ JournalUntil(fills, ts) = JournalUntil(fills2, ts)
=============================================================================
