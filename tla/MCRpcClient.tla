---------------------------- MODULE MCRpcClient ----------------------------
(* Two callers with overlapping lists and two servers: both miss the cache *)
(* for the same configuration, one finds what the other is about to write, *)
(* and a second call of the same caller finds what its first one left.     *)
EXTENDS RpcClient

CONSTANTS f, g, v, w

MCConf == {f, g}
MCValue == [x \in MCConf |-> IF x = g THEN w ELSE v]
MCLists == {<<f>>, <<g, f>>}
=============================================================================
