----------------------------- MODULE MCService -----------------------------
(* Two modems of one kind on the bus, of which the second has no network device; mobile *)
(* takes the first that fits its URL, ppp names a file of each, one through a link.     *)
EXTENDS Service

MCOrder == <<"mobile", "ppp">>
MCDevices == <<"m1", "m2">>
MCTty == [m1 |-> <<"ttyACM0">>, m2 |-> <<"ttyACM1">>]
MCNet == [m1 |-> <<"usb0">>, m2 |-> <<>>]
MCOption ==
    [mobile |-> [type |-> "asr1802", device |-> "usb", url |-> {"m1", "m2"}, control |-> 0,
                 ppp |-> 0, net |-> 0],
     ppp |-> [type |-> "ppp", device |-> "custom", url |-> {}, control |-> "ttyACM1",
              ppp |-> "modem", net |-> ""]]
MCRealPath ==
    [n \in {"ttyACM0", "ttyACM1", "usb0", "modem"} |->
        IF n = "modem" THEN "ttyACM0" ELSE n]
=============================================================================
