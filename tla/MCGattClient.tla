---------------------------- MODULE MCGattClient ----------------------------
(* Instances of GattClient for TLC: kernel sets the client up and down and   *)
(* explores the peer, general uses it at the same time.                      *)
EXTENDS GattClient

CONSTANTS kernel, general, h1

Rq(ops, conns) == [op : ops, conn : conns, num : {1}]
Explore(conns) == [op : {"explore"}, conn : conns, num : {2}]

\* One procedure of every kind the client tells apart: desc is started and
\* answered like chars, mtu like write and write_cmd like desc_write.
Session == (kernel :> Rq({"init", "deinit", "chars", "desc_write"}, {h1}) \cup Explore({h1}))
           @@ (general :> Rq({"read", "desc_read", "service", "write"}, {h1}))

=============================================================================
