------------------------- MODULE MCSnapshotBuilder -------------------------
(***************************************************************************)
(* Small instances of SnapshotBuilder: a revision of each of two series,   *)
(* a specification that takes both in whatever was committed, and one that *)
(* fails on an empty component or on a series that does not exist.         *)
(***************************************************************************)
EXTENDS SnapshotBuilder

MCRevisions == {"x1", "y1"}

Selecting(revisions, allow_empty) ==
    [selects |-> revisions, allow_empty |-> allow_empty, resolvable |-> TRUE]

MCComponents ==
    [s \in Specs |->
        IF s = "both" THEN <<Selecting({"x1"}, TRUE), Selecting({"y1"}, TRUE)>>
        ELSE <<Selecting({"x1"}, FALSE), [Selecting({}, TRUE) EXCEPT !.resolvable = FALSE]>>]
=============================================================================
