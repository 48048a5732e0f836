---------------------------- MODULE MCAtChannel ----------------------------
(***************************************************************************)
(* Two threads share the channel, and one of them may stop it.  Each       *)
(* command asks for several lines; one unsolicited line with the prefix    *)
(* asked for may come in at any moment.                                    *)
(***************************************************************************)
EXTENDS AtChannel

CONSTANTS s1, s2, creg

MCSenders == {s1, s2}
MCStoppers == {s1}
MCPrefixes == {creg}
MCRequests == {[type |-> "MULTILINE", prefix |-> creg, wrapper |-> TRUE]}

=============================================================================
