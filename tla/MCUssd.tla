-------------------------------- MODULE MCUssd --------------------------------
(***************************************************************************)
(* A request, one that is not valid, an answer in a dialogue and another   *)
(* request.                                                                *)
(***************************************************************************)
EXTENDS Ussd

CONSTANTS query, answer, invalid

=============================================================================
