------------------------------ MODULE MCNetPath ------------------------------
(* NetPath with two peers.  Packets come from the first, from its host with *)
(* the port of the second, and from the second, one for another address.   *)
EXTENDS NetPath

MCRemotes == {<<2, 7>>, <<3, 8>>}
From(kinds, addr, ports_, here, data) ==
  [kind : kinds, saddr : {addr[1]}, sport : {addr[2]}, dport : ports_,
   here : {here}, data : {data}]
MCPackets == From(Kinds, <<2, 7>>, {0, 1}, TRUE, TRUE)
             \cup From(Kinds, <<2, 8>>, {1}, TRUE, TRUE)
             \cup From(Kinds, <<3, 8>>, {1}, TRUE, FALSE)
             \cup From({"UDP"}, <<3, 8>>, {1}, FALSE, FALSE)
=============================================================================
