--------------------------- MODULE MCForwardWait ---------------------------
(***************************************************************************)
(* Small instances of ForwardWait.                                         *)
(***************************************************************************)
EXTENDS ForwardWait, TLC

CONSTANTS r1, r2, s1, s2, n1, n2

(* Both requests are for the one service, and all slices are its slices.   *)
SameTarget == [r \in Requests |-> n1]
SameService == [s \in Slices |-> n1]

(* Each request has a service, and each service a slice.                   *)
OwnTarget == r1 :> n1 @@ r2 :> n2
OwnService == s1 :> n1 @@ s2 :> n2

SameRequests == Permutations(Requests)
=============================================================================
