------------------------ MODULE MC_HostEnumeration ------------------------
(* Three host devices: two on bus 1 behind the same port number, one on  *)
(* bus 11, with numbers whose decimal forms could run into each other    *)
(* ("1-12-1" and "11-2-1").                                              *)
EXTENDS HostEnumeration, TLC

CONSTANTS h1, h2, h3

MCHostDevices == {h1, h2, h3}
MCHostList == <<h1, h2, h3>>
MCBus == [h \in MCHostDevices |-> IF h = h2 THEN 11 ELSE 1]
MCAddr == (h1 :> 12) @@ (h2 :> 2) @@ (h3 :> 3)
MCPort == [h \in MCHostDevices |-> 1]
=============================================================================
