------------------------------ MODULE MCSmsStore ------------------------------
(***************************************************************************)
(* A message of two parts, a part of another one with the same number of   *)
(* parts, and a message whose header contradicts itself, in two slots; the *)
(* card wants the PIN.                                                     *)
(***************************************************************************)
EXTENDS SmsStore

MCStorages == {<<{"ME"}, {"ME"}, {"ME"}>>}
MCParts ==
  {[msg |-> 1, part |-> 1, parts |-> 2, ref |-> 7, time |-> 2],
   [msg |-> 1, part |-> 2, parts |-> 2, ref |-> 7, time |-> 2],
   [msg |-> 2, part |-> 2, parts |-> 2, ref |-> 8, time |-> 3],
   [msg |-> 3, part |-> 3, parts |-> 2, ref |-> 7, time |-> 1]}

=============================================================================
