------------------------ MODULE MCPointInTimeReplay ------------------------
(***************************************************************************)
(* Small instances of PointInTimeReplay: bars with any closes, published   *)
(* one by one, together, late or out of order, and a correction of one of  *)
(* the first two at any instant.                                           *)
(***************************************************************************)
EXTENDS PointInTimeReplay, MCReferenceEngine

CorrectedDatasets ==
    LET corrections == {{Correction(o, ts, close)} : o \in 1..2, ts \in 2..4, close \in {Low, High}}
        together == <<1, 2, 2>>
        late == <<1, 2, 4>>
        crossed(c) == Rows(c, <<1, 2, 4, 3>>)
    IN  {OneSeries(1 :> rows) :
            rows \in {Rows(c, <<1, 2, 3>>) \cup extra : c \in Closes(3), extra \in {{}} \cup corrections}
                     \cup {Rows(c, v) : c \in Closes(3), v \in {together, late}}
                     \cup {crossed(c) : c \in Closes(4)}
                     \cup {{row \in crossed(c) : row.open # 3} : c \in Closes(4)}}
=============================================================================
