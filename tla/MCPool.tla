------------------------------- MODULE MCPool -------------------------------
(***************************************************************************)
(* Instances of RedisPool for TLC: two servers, and keys for both.         *)
(***************************************************************************)
EXTENDS RedisPool

MCConf == <<"r1", "r2">>
MCServer == {"r1", "r2"}
MCKey == {"txs", "lock"}
MCHash == [k \in MCKey |-> IF k = "txs" THEN 4 ELSE 7]
=============================================================================
