---------------------------- MODULE MCApiResults ----------------------------
(***************************************************************************)
(* Two calls of any kind, in the same millisecond or in different ones.    *)
(***************************************************************************)
EXTENDS ApiResults

CONSTANTS r1, r2

MCRequests == {r1, r2}

=============================================================================
