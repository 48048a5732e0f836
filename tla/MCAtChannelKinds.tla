-------------------------- MODULE MCAtChannelKinds --------------------------
(***************************************************************************)
(* One thread makes two calls of any kinds, amid an unsolicited line: what *)
(* a line means depends on the kind of the call that runs, or, for a       *)
(* moment, on the kind of the call before.                                 *)
(***************************************************************************)
EXTENDS AtChannel

CONSTANTS s1, creg, cops

MCSenders == {s1}
MCPrefixes == {creg, cops}
MCRequests ==
  [type : {"DEFAULT", "NUMERIC"}, prefix : {creg, None}, wrapper : {TRUE}]
    \cup [type : {"MULTILINE"}, prefix : {creg}, wrapper : {TRUE}]
    \cup [type : {"DIAL", "NO_PREFIX", "NO_PREFIX_ALL"}, prefix : {None}, wrapper : {TRUE}]

=============================================================================
