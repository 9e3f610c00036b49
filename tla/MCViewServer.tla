---------------------------- MODULE MCViewServer ----------------------------
(* Small instances of ViewServer for TLC. *)
EXTENDS ViewServer

CONSTANTS s1, s2, s3
MCServers == {s1, s2, s3}

\* The order in which the hash map yields its keys.
KeyOrder == <<s1, s2, s3>>
MCFirstOf ==
  [S \in SUBSET Servers |->
     IF S = {} THEN Null
     ELSE SelectSeq(KeyOrder, LAMBDA a : a \in S)[1]]
MCKeyOrders == {SelectSeq(KeyOrder, LAMBDA a : a \in Servers)}
=============================================================================
