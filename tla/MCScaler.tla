------------------------------ MODULE MCScaler ------------------------------
(***************************************************************************)
(* A small instance of Scaler: counts of nothing, and of one request at a  *)
(* rate far below one in a second.                                         *)
(***************************************************************************)
EXTENDS Scaler

TwoReadings == {NoCount, [concurrency |-> 1, rps |-> 16]}

OneOrBoth == {{"concurrency"}, Kinds}
=============================================================================
