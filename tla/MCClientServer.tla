--------------------------- MODULE MCClientServer ---------------------------
(* A small instance of lab 1 for TLC: the application is a key/value store. *)
EXTENDS WrappedApplication, TLC

CONSTANTS c1, c2, k, a, b

Store == INSTANCE KVStore WITH Key <- {k}, Letter <- {a, b}

AppendTo(v) == [type |-> "Append", key |-> k, value |-> v]
Workload ==
  (c1 :> <<AppendTo(<<a>>), [type |-> "Get", key |-> k]>>)
  @@ (c2 :> <<AppendTo(<<b>>), [type |-> "Put", key |-> k, value |-> <<b>>]>>)

MCNewState == <<>>
MCApply(s, cmd) ==
  LET x == Store!Execute(s, Workload[cmd.addr][cmd.sequenceNum])
  IN  [state |-> x.data, result |-> x.result]
=============================================================================
