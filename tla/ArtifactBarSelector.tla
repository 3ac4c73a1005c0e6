------------------------ MODULE ArtifactBarSelector ------------------------
(***************************************************************************)
(* ArtifactBarSelector (backtest/selector.py): point-in-time selection     *)
(* over the rows of one frozen snapshot component.  A component is the set *)
(* of its rows.  A row is a revision of the bar that opens at `open', and  *)
(* `available' is its effective_available_at.                              *)
(***************************************************************************)
EXTENDS Integers, FiniteSets, FiniteSetsExt, SequencesExt

\* The elements of a finite set in the order of Before, a strict total order
\* on it (SetToSortSeq enumerates all sequences over the set).
Sorted(S, Before(_, _)) ==
    [k \in 1..Cardinality(S) |-> CHOOSE x \in S : Cardinality({y \in S : Before(y, x)}) = k - 1]

Opens(rows) == {row.open : row \in rows}
RevisionsOf(rows, open) == {row \in rows : row.open = open}

\* The newest revision of a set of revisions of one bar.
NewestRevision(revisions) ==
    CHOOSE row \in revisions : \A other \in revisions : other.revision_no <= row.revision_no

FirstVisibility(rows, open) == Min({row.available : row \in RevisionsOf(rows, open)})

\* One decision instant per bar.
DecisionSchedule(rows) == {<<FirstVisibility(rows, open), open>> : open \in Opens(rows)}

\* Faulty variant: the newest revision, whether or not it is visible yet.
SelectedNewest(rows, open, ts) ==
    LET visible == {row \in RevisionsOf(rows, open) : row.available <= ts}
    IN  IF visible = {} THEN {} ELSE {NewestRevision(RevisionsOf(rows, open))}

\* The newest revision of a bar that is visible at an instant, if any is.
Selected(rows, open, ts) ==
    LET visible == {row \in RevisionsOf(rows, open) : row.available <= ts}
    IN  IF visible = {} THEN {} ELSE {NewestRevision(visible)}

\* The visible bars, in the order of their opening.
VisibleBars(rows, ts) ==
    Sorted(UNION {Selected(rows, open, ts) : open \in Opens(rows)},
           LAMBDA a, b : a.open < b.open)

\* The revision with which the first later bar becomes executable, as a set
\* that is empty when there is no such bar.
NextExecutionBar(rows, signal_open, submitted_at, lag) ==
    LET later == {open \in Opens(rows) :
                    open > signal_open /\ FirstVisibility(rows, open) >= submitted_at + lag}
    IN  IF later = {} THEN {}
        ELSE Selected(rows, Min(later), FirstVisibility(rows, Min(later)))
=============================================================================
