--------------------------------- MODULE MCSim ---------------------------------
(***************************************************************************)
(* A card of any kind, a modem with all storages and one that cannot read  *)
(* from the storage it can send from.                                      *)
(***************************************************************************)
EXTENDS Sim

MCStorages == {<<{"SM", "ME", "MT"}, {"SM", "ME"}, {"SM", "ME"}>>,
               <<{"ME"}, {"SM", "ME"}, {"SM", "MT"}>>,
               <<{"SM"}, {"SM"}, {"SM"}>>}

=============================================================================
