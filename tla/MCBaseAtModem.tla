--------------------------- MODULE MCBaseAtModem ---------------------------
(***************************************************************************)
(* The thread of the Loop, a modem that may hang or be lost, two ordinary  *)
(* commands and self tests of two pings.                                   *)
(***************************************************************************)
EXTENDS BaseAtModem

CONSTANTS loop, creg

MCSenders == {loop}
MCPrefixes == {creg}
MCRequests == {Ping}

=============================================================================
