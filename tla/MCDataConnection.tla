-------------------------- MODULE MCDataConnection --------------------------
(* A modem that reports packet registration and LTE, with two contexts. *)
EXTENDS DataConnection

MCDomains == {"CREG", "CEREG"}
MCNetworks == {[stat |-> "roaming", tech |-> "unknown"], [stat |-> "home", tech |-> "lte"]}
MCContexts == {{<<"v4", "a">>}, {<<"v4", "b">>, <<"v6", "c">>}}
MCConfigs == {
  [vendor |-> "asr", proto |-> "static", pdp |-> "IPV4V6", roaming |-> TRUE],
  [vendor |-> "asr", proto |-> "dhcp", pdp |-> "IP", roaming |-> TRUE],
  [vendor |-> "huawei", proto |-> "static", pdp |-> "IP", roaming |-> FALSE],
  [vendor |-> "huawei", proto |-> "dhcp", pdp |-> "IPV4V6", roaming |-> TRUE]}

=============================================================================
