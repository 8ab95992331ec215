--------------------------- MODULE MCScalerHealth ---------------------------
(***************************************************************************)
(* A small instance of ScalerHealth.                                       *)
(***************************************************************************)
EXTENDS ScalerHealth, TLC

TwoReadings == {NoCount, [concurrency |-> 1, rps |-> 16]}

SameInterceptors == Permutations(Interceptors)
=============================================================================
