------------------------ MODULE TransactionalKVStore ------------------------
(***************************************************************************)
(* dslabs.kvstore.TransactionalKVStore: MultiGet, MultiPut and Swap with   *)
(* their read and write sets.                                              *)
(*                                                                         *)
(* execute is not filled in for transactions: it throws, and changes       *)
(* nothing.  RunTransaction is the caller that the comment of              *)
(* Transaction.run describes: it hands run the part of the map that        *)
(* belongs to keySet, and takes from it what became of writeSet.           *)
(***************************************************************************)
EXTENDS KVStore, Naturals

CONSTANTS
  Input,          \* the values that commands carry
  KEY_NOT_FOUND,  \* MultiGetResult.KEY_NOT_FOUND, a string like any value
  MaxLog          \* bound: the length of the log

ASSUME InputAssumption == Input \subseteq Value
ASSUME NotFoundAssumption == KEY_NOT_FOUND \in Value
ASSUME MaxLogAssumption == MaxLog \in Nat

KVStoreCommand ==
  [type : {"Get"}, key : Key]
    \cup [type : {"Put", "Append"}, key : Key, value : Input]

Transaction ==
  [type : {"MultiGet"}, keys : SUBSET Key]
    \cup [type : {"MultiPut"}, values : UNION {[S -> Input] : S \in SUBSET Key}]
    \cup [type : {"Swap"}, key1 : Key, key2 : Key]

readSet(t) ==
  CASE t.type = "MultiGet" -> t.keys
    [] t.type = "MultiPut" -> {}
    [] t.type = "Swap" -> {t.key1, t.key2}

\* Slip: a swap is thought to write its first key only.
writeSetFirst(t) ==
  CASE t.type = "MultiGet" -> {}
    [] t.type = "MultiPut" -> DOMAIN t.values
    [] t.type = "Swap" -> {t.key1}

writeSet(t) ==
  CASE t.type = "MultiGet" -> {}
    [] t.type = "MultiPut" -> DOMAIN t.values
    [] t.type = "Swap" -> readSet(t)

keySet(t) == readSet(t) \cup writeSet(t)

RunMultiGet(db, keys) ==
  [db |-> db,
   result |-> [type |-> "MultiGetResult",
               values |-> [k \in keys |->
                             IF k \in DOMAIN db THEN db[k] ELSE KEY_NOT_FOUND]]]

RunMultiPut(db, values) ==
  [db |-> [k \in DOMAIN db \cup DOMAIN values |->
             IF k \in DOMAIN values THEN values[k] ELSE db[k]],
   result |-> [type |-> "MultiPutOk"]]

\* Slip: a key that has no value leaves the other one as it is.
RunSwapPresent(db, k1, k2) ==
  LET one == IF k2 \in DOMAIN db THEN Bind(db, k1, db[k2]) ELSE Remove(db, k1)
  IN  [db |-> IF k1 \in DOMAIN db THEN Bind(one, k2, db[k1]) ELSE one,
       result |-> [type |-> "SwapOk"]]

RunSwap(db, k1, k2) ==
  LET one == IF k2 \in DOMAIN db THEN Bind(db, k1, db[k2]) ELSE Remove(db, k1)
  IN  [db |-> IF k1 \in DOMAIN db THEN Bind(one, k2, db[k1]) ELSE Remove(one, k2),
       result |-> [type |-> "SwapOk"]]

\* run(db): the map after it, and the result.
Run(t, db) ==
  CASE t.type = "MultiGet" -> RunMultiGet(db, t.keys)
    [] t.type = "MultiPut" -> RunMultiPut(db, t.values)
    [] t.type = "Swap" -> RunSwap(db, t.key1, t.key2)

-----------------------------------------------------------------------------

VARIABLES
  data,  \* KVStore.data
  log    \* history: the commands executed and what they answered

vars == <<data, log>>

TypeOK == IsData(data)

Init == data = <<>> /\ log = <<>>

Record(cmd, res) ==
  /\ Len(log) < MaxLog
  /\ log' = Append(log, [command |-> cmd, result |-> res])

ExecuteCommand(cmd) ==
  LET x == Execute(data, cmd)
  IN  data' = x.data /\ Record(cmd, x.result)

\* The part of the map that belongs to S.
Part(d, S) == [k \in DOMAIN d \cap S |-> d[k]]

RunTransaction(t) ==
  LET x == Run(t, Part(data, keySet(t)))
      W == writeSet(t)
  IN  /\ data' = [k \in (DOMAIN data \ W) \cup (DOMAIN x.db \cap W) |->
                    IF k \in W THEN x.db[k] ELSE data[k]]
      /\ Record(t, x.result)

Next ==
  \/ \E cmd \in KVStoreCommand : ExecuteCommand(cmd)
  \/ \E t \in Transaction : RunTransaction(t)

Spec == Init /\ [][Next]_vars

-----------------------------------------------------------------------------

\* What a map holds for a key: no value or one.
NoValue == <<>>
Held(d, k) == IF k \in DOMAIN d THEN <<d[k]>> ELSE NoValue

\* What the history leaves in key k by a command, where before tells what
\* each key held.
AfterCommand(cmd, before, k) ==
  CASE cmd.type = "Put" /\ cmd.key = k -> <<cmd.value>>
    [] cmd.type = "Append" /\ cmd.key = k ->
         IF before[k] = NoValue THEN <<cmd.value>>
         ELSE <<before[k][1] \o cmd.value>>
    [] cmd.type = "MultiPut" /\ k \in DOMAIN cmd.values -> <<cmd.values[k]>>
    [] cmd.type = "Swap" /\ cmd.key1 = k -> before[cmd.key2]
    [] cmd.type = "Swap" /\ cmd.key2 = k -> before[cmd.key1]
    [] OTHER -> before[k]

\* What each key holds after n commands, followed back through the history.
HistoryOf ==
  LET after[n \in 0..Len(log)] ==
        [k \in Key |->
           IF n = 0 THEN NoValue
           ELSE AfterCommand(log[n].command, after[n - 1], k)]
  IN  after

\* A swap of keys with or without values, a put of many and an append to
\* nothing leave in each key what its own history says.
HeldByHistory ==
  \A k \in Key : Held(data, k) = HistoryOf[Len(log)][k]

\* res answers cmd, when the keys held before what before tells and hold after
\* it what after tells; a MultiGet tells KEY_NOT_FOUND of a key without a value.
Answers(cmd, res, before, after) ==
  /\ cmd.type = "Get" =>
       before[cmd.key]
         = IF res.type = "GetResult" THEN <<res.value>> ELSE NoValue
  /\ cmd.type = "Append" => after[cmd.key] = <<res.value>>
  /\ cmd.type = "MultiGet" =>
       /\ DOMAIN res.values = cmd.keys
       /\ \A k \in cmd.keys :
            res.values[k] = IF before[k] = NoValue THEN KEY_NOT_FOUND
                            ELSE before[k][1]

\* Every value an answer tells is what the key held then.
AnswersByHistory ==
  LET h == HistoryOf
  IN  \A n \in DOMAIN log :
        Answers(log[n].command, log[n].result, h[n - 1], h[n])

\* The promise of Transaction.run to whoever partitions the map: on the keys of
\* keySet alone it answers and leaves there what it would on the whole map, of
\* which it changes nothing outside writeSet.
RunIsLocal ==
  \A t \in Transaction :
    LET whole == Run(t, data)
        part == Run(t, Part(data, keySet(t)))
    IN  /\ part.result = whole.result
        /\ \A k \in keySet(t) : Held(part.db, k) = Held(whole.db, k)
        /\ \A k \in Key \ writeSet(t) : Held(whole.db, k) = Held(data, k)

=============================================================================
