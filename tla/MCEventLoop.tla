---------------------------- MODULE MCEventLoop ----------------------------
(***************************************************************************)
(* The owner of the loop and one other thread, which post two timers with  *)
(* two different delays within two ticks of the clock.                     *)
(***************************************************************************)
EXTENDS EventLoop

CONSTANTS owner, other

MCOthers == {other}
MCDelays == {0, 1}

=============================================================================
