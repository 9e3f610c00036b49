------------------------------ MODULE KVStore ------------------------------
(***************************************************************************)
(* dslabs.kvstore.KVStore: what Get, Put and Append do to the map and      *)
(* answer.  A key without a value is outside the map's domain.  A string   *)
(* is a sequence of letters, since Append concatenates.                    *)
(*                                                                         *)
(* Definitions introduced by "Slip:" stand for plausible mistakes in the   *)
(* code (see ViewServerCore).                                              *)
(***************************************************************************)
EXTENDS Sequences

CONSTANTS Key, Letter

Value == Seq(Letter)
IsData(d) == DOMAIN d \subseteq Key /\ d \in [DOMAIN d -> Value]

\* data.put(k, v), data.remove(k)
Bind(data, k, v) ==
  [x \in DOMAIN data \cup {k} |-> IF x = k THEN v ELSE data[x]]

\* Slip: the key stays, with a null.
RemoveValue(data, k) ==
  [x \in DOMAIN data \cup {k} |-> IF x = k THEN "null" ELSE data[x]]

Remove(data, k) == [x \in DOMAIN data \ {k} |-> data[x]]

GetResult(v) == [type |-> "GetResult", value |-> v]
AppendResult(v) == [type |-> "AppendResult", value |-> v]
KeyNotFound == [type |-> "KeyNotFound"]
PutOk == [type |-> "PutOk"]

\* The value that Append stores.
\* Slip: the new value takes the old one's place.
Overwritten(data, k, v) == v

Appended(data, k, v) == IF k \in DOMAIN data THEN data[k] \o v ELSE v

\* execute(cmd): the map after it, and the result.
Execute(data, cmd) ==
  CASE cmd.type = "Get" ->
         [data |-> data,
          result |-> IF cmd.key \in DOMAIN data
                     THEN GetResult(data[cmd.key]) ELSE KeyNotFound]
    [] cmd.type = "Put" ->
         [data |-> Bind(data, cmd.key, cmd.value), result |-> PutOk]
    [] cmd.type = "Append" ->
         LET v == Appended(data, cmd.key, cmd.value)
         IN  [data |-> Bind(data, cmd.key, v), result |-> AppendResult(v)]

=============================================================================
