-------------------------- MODULE MCShardStoreNode --------------------------
(* Hash codes at the ends of the range of int and around zero. *)
EXTENDS ShardStoreNode

MinInt == -2147483647 - 1  \* -2^31
MCHashCodes == {MinInt, MinInt + 1, -7, -1, 0, 1, 2147483647}
=============================================================================
