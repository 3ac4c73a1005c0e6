--------------------------- MODULE MCBacktestRuns ---------------------------
(***************************************************************************)
(* Three calls on two codes: the same document twice, another specification *)
(* for the same code, which cannot be simulated, a second code with the    *)
(* same specification from either of two installed programs, and with one  *)
(* whose universe or series the catalog does not have.                     *)
(***************************************************************************)
EXTENDS BacktestRuns, TLC

CONSTANTS c1, c2, c3, k1, k2, s1, s2, s3, p1, p2

Doc(code, spec, source) == [code |-> code, spec |-> spec, source |-> source]

FiveDocuments == {Doc(k1, s1, p1), Doc(k1, s2, p1), Doc(k2, s1, p1), Doc(k2, s1, p2),
                  Doc(k2, s3, p1)}

\* A call that may fail twice, and two that do not fail (they may be stopped).
UnevenFaults == c1 :> 2 @@ c2 :> 0 @@ c3 :> 0
=============================================================================
