------------------------- MODULE ShardedStoreProofs -------------------------
(***************************************************************************)
(* Lab 4, for any keys, letters, values, shards and sequences of commands: *)
(* the map stays a map from keys to strings, what Transaction.run promises *)
(* holds of MultiGet, MultiPut and Swap, each key holds and each answer    *)
(* tells what the history says, and keyToShard names the right shard.      *)
(***************************************************************************)
EXTENDS TransactionalKVStore, ShardStoreNode, WellFoundedInduction,
        TLAPS

\* What a transaction does to a map d is confined to the keys it names.
LocalIn(t, d) ==
  LET whole == Run(t, d)
      part == Run(t, Part(d, keySet(t)))
  IN  /\ part.result = whole.result
      /\ \A k \in keySet(t) : Held(part.db, k) = Held(whole.db, k)
      /\ \A k \in Key \ writeSet(t) : Held(whole.db, k) = Held(d, k)

-----------------------------------------------------------------------------
(* The operations keep the type *)

LEMMA ConcatType == \A u, w \in Value : u \o w \in Value
  BY DEF Value

LEMMA BindType ==
  ASSUME NEW d, IsData(d), NEW k \in Key, NEW v \in Value
  PROVE  IsData(Bind(d, k, v))
  BY DEF IsData, Bind

LEMMA RemoveType ==
  ASSUME NEW d, IsData(d), NEW k \in Key
  PROVE  IsData(Remove(d, k))
  BY DEF IsData, Remove

LEMMA PartType ==
  ASSUME NEW d, IsData(d), NEW S
  PROVE  IsData(Part(d, S))
  BY DEF IsData, Part

\* execute leaves a map, whatever the command.
LEMMA ExecuteType ==
  ASSUME NEW d, IsData(d), NEW cmd \in KVStoreCommand
  PROVE  IsData(Execute(d, cmd).data)
<1>1. CASE cmd.type = "Get"
  BY <1>1 DEF Execute
<1>2. CASE cmd.type = "Put"
  <2>1. cmd.key \in Key /\ cmd.value \in Value
    BY <1>2, InputAssumption DEF KVStoreCommand
  <2>2. Execute(d, cmd).data = Bind(d, cmd.key, cmd.value)
    BY <1>2 DEF Execute
  <2> QED
    BY <2>1, <2>2, BindType
<1>3. CASE cmd.type = "Append"
  <2>1. cmd.key \in Key /\ cmd.value \in Value
    BY <1>3, InputAssumption DEF KVStoreCommand
  <2>2. Appended(d, cmd.key, cmd.value) \in Value
    BY <2>1, ConcatType DEF Appended, IsData
  <2>3. Execute(d, cmd).data = Bind(d, cmd.key, Appended(d, cmd.key, cmd.value))
    BY <1>3 DEF Execute
  <2> QED
    BY <2>1, <2>2, <2>3, BindType
<1> QED
  BY <1>1, <1>2, <1>3 DEF KVStoreCommand

LEMMA SwapType ==
  ASSUME NEW d, IsData(d), NEW k1 \in Key, NEW k2 \in Key
  PROVE  IsData(RunSwap(d, k1, k2).db)
<1> DEFINE one == IF k2 \in DOMAIN d THEN Bind(d, k1, d[k2]) ELSE Remove(d, k1)
<1>1. \A k \in DOMAIN d : d[k] \in Value
  BY DEF IsData
<1>2. IsData(one)
  BY <1>1, BindType, RemoveType
<1>3. RunSwap(d, k1, k2).db
        = IF k1 \in DOMAIN d THEN Bind(one, k2, d[k1]) ELSE Remove(one, k2)
  BY DEF RunSwap
<1> HIDE DEF one
<1> QED
  BY <1>1, <1>2, <1>3, BindType, RemoveType

LEMMA RunType ==
  ASSUME NEW d, IsData(d), NEW t \in Transaction
  PROVE  IsData(Run(t, d).db)
<1>1. CASE t.type = "MultiGet"
  BY <1>1 DEF Run, RunMultiGet
<1>2. CASE t.type = "MultiPut"
  <2>1. DOMAIN t.values \subseteq Key /\ t.values \in [DOMAIN t.values -> Value]
    BY <1>2, InputAssumption DEF Transaction
  <2>2. Run(t, d).db = [k \in DOMAIN d \cup DOMAIN t.values |->
                          IF k \in DOMAIN t.values THEN t.values[k] ELSE d[k]]
    BY <1>2 DEF Run, RunMultiPut
  <2> QED
    BY <2>1, <2>2 DEF IsData
<1>3. CASE t.type = "Swap"
  <2>1. t.key1 \in Key /\ t.key2 \in Key
    BY <1>3 DEF Transaction
  <2>2. Run(t, d).db = RunSwap(d, t.key1, t.key2).db
    BY <1>3 DEF Run
  <2> QED
    BY <2>1, <2>2, SwapType
<1> QED
  BY <1>1, <1>2, <1>3 DEF Transaction

\* The map stays a map from keys to strings, whatever is executed and run.
THEOREM TypeCorrect == Spec => []TypeOK
<1>1. Init => TypeOK
  BY DEF Init, TypeOK, IsData
<1>2. TypeOK /\ [Next]_vars => TypeOK'
  <2> SUFFICES ASSUME TypeOK, [Next]_vars PROVE TypeOK'
    OBVIOUS
  <2>1. ASSUME NEW cmd \in KVStoreCommand, ExecuteCommand(cmd) PROVE TypeOK'
    BY <2>1, ExecuteType DEF ExecuteCommand, TypeOK
  <2>2. ASSUME NEW t \in Transaction, RunTransaction(t) PROVE TypeOK'
    <3> DEFINE x == Run(t, Part(data, keySet(t)))
               W == writeSet(t)
    <3>1. IsData(x.db)
      BY PartType, RunType DEF TypeOK
    <3>2. data' = [k \in (DOMAIN data \ W) \cup (DOMAIN x.db \cap W) |->
                     IF k \in W THEN x.db[k] ELSE data[k]]
      BY <2>2 DEF RunTransaction
    <3> HIDE DEF x, W
    <3> QED
      BY <3>1, <3>2 DEF TypeOK, IsData
  <2>3. CASE UNCHANGED vars
    BY <2>3 DEF vars, TypeOK
  <2> QED
    BY <2>1, <2>2, <2>3 DEF Next
<1> QED
  BY <1>1, <1>2, PTL DEF Spec

-----------------------------------------------------------------------------
(* Transactions are local *)

LEMMA MultiGetLocal ==
  ASSUME NEW d, NEW t \in Transaction, t.type = "MultiGet"
  PROVE  LocalIn(t, d)
<1>1. readSet(t) = t.keys /\ writeSet(t) = {} /\ keySet(t) = t.keys
  BY DEF readSet, writeSet, keySet
<1>2. \A e : /\ Run(t, e).db = e
             /\ Run(t, e).result
                  = [type |-> "MultiGetResult",
                     values |-> [k \in t.keys |-> IF k \in DOMAIN e THEN e[k]
                                                  ELSE KEY_NOT_FOUND]]
  BY DEF Run, RunMultiGet
<1> DEFINE e == Part(d, t.keys)
<1>3. \A k \in t.keys : /\ k \in DOMAIN e <=> k \in DOMAIN d
                        /\ k \in DOMAIN d => e[k] = d[k]
  BY DEF Part
<1>4. [k \in t.keys |-> IF k \in DOMAIN e THEN e[k] ELSE KEY_NOT_FOUND]
        = [k \in t.keys |-> IF k \in DOMAIN d THEN d[k] ELSE KEY_NOT_FOUND]
  BY <1>3
<1>5. \A k \in t.keys : Held(e, k) = Held(d, k)
  BY <1>3 DEF Held
<1> HIDE DEF e
<1>6. Part(d, keySet(t)) = e
  BY <1>1 DEF e
<1>7. Run(t, e).result = Run(t, d).result
  BY <1>2, <1>4
<1>8. Run(t, e).db = e /\ Run(t, d).db = d
  BY <1>2
<1> QED
  BY <1>1, <1>5, <1>6, <1>7, <1>8 DEF LocalIn

LEMMA MultiPutLocal ==
  ASSUME NEW d, NEW t \in Transaction, t.type = "MultiPut"
  PROVE  LocalIn(t, d)
<1> DEFINE V == t.values
<1>1. readSet(t) = {} /\ writeSet(t) = DOMAIN V /\ keySet(t) = DOMAIN V
  BY DEF readSet, writeSet, keySet
<1>2. \A e : /\ Run(t, e).result = [type |-> "MultiPutOk"]
             /\ Run(t, e).db = [x \in DOMAIN e \cup DOMAIN V |->
                                  IF x \in DOMAIN V THEN V[x] ELSE e[x]]
  BY DEF Run, RunMultiPut
<1>3. \A e, k : Held(Run(t, e).db, k)
                  = IF k \in DOMAIN V THEN <<V[k]>> ELSE Held(e, k)
  <2> TAKE e, k
  <2> DEFINE after == Run(t, e).db
  <2>1. after = [x \in DOMAIN e \cup DOMAIN V |->
                   IF x \in DOMAIN V THEN V[x] ELSE e[x]]
    BY <1>2
  <2> HIDE DEF after, V
  <2>2. Held(after, k) = IF k \in DOMAIN V THEN <<V[k]>> ELSE Held(e, k)
    BY <2>1 DEF Held
  <2> QED
    BY <2>2 DEF after
<1> HIDE DEF V
<1> QED
  BY <1>1, <1>2, <1>3 DEF LocalIn

\* What a swap leaves in each key.
LEMMA SwapHolds ==
  ASSUME NEW d, NEW k1, NEW k2, NEW k
  PROVE  Held(RunSwap(d, k1, k2).db, k)
           = IF k = k1 THEN Held(d, k2) ELSE IF k = k2 THEN Held(d, k1) ELSE Held(d, k)
<1> DEFINE one == IF k2 \in DOMAIN d THEN Bind(d, k1, d[k2]) ELSE Remove(d, k1)
<1>1. Held(one, k) = IF k = k1 THEN Held(d, k2) ELSE Held(d, k)
  BY DEF Held, Bind, Remove
<1>2. RunSwap(d, k1, k2).db
        = IF k1 \in DOMAIN d THEN Bind(one, k2, d[k1]) ELSE Remove(one, k2)
  BY DEF RunSwap
<1> HIDE DEF one
<1>3. Held(RunSwap(d, k1, k2).db, k) = IF k = k2 THEN Held(d, k1) ELSE Held(one, k)
  BY <1>2 DEF Held, Bind, Remove
<1> QED
  BY <1>1, <1>3

LEMMA SwapLocal ==
  ASSUME NEW d, NEW t \in Transaction, t.type = "Swap"
  PROVE  LocalIn(t, d)
<1> DEFINE K == {t.key1, t.key2}
           e == Part(d, K)
<1>1. writeSet(t) = K /\ keySet(t) = K
  BY DEF readSet, writeSet, keySet
<1>2. \A f : /\ Run(t, f).db = RunSwap(f, t.key1, t.key2).db
             /\ Run(t, f).result = [type |-> "SwapOk"]
  BY DEF Run, RunSwap
<1>3. \A k \in K : Held(e, k) = Held(d, k)
  BY DEF Held, Part
<1>4. \A k \in K : Held(Run(t, e).db, k) = Held(Run(t, d).db, k)
  BY <1>2, <1>3, SwapHolds
<1>5. \A k : k \notin K => Held(Run(t, d).db, k) = Held(d, k)
  BY <1>2, SwapHolds
<1> HIDE DEF K, e
<1>6. Part(d, keySet(t)) = e
  BY <1>1 DEF e
<1> QED
  BY <1>1, <1>2, <1>4, <1>5, <1>6 DEF LocalIn

\* On the keys of keySet alone, a transaction answers and leaves there what it
\* would on the whole map, and it changes nothing outside writeSet.
THEOREM Local == Spec => []RunIsLocal
<1>1. RunIsLocal
  <2>1. \A t \in Transaction : LocalIn(t, data)
    BY MultiGetLocal, MultiPutLocal, SwapLocal DEF Transaction
  <2> QED
    BY <2>1 DEF LocalIn, RunIsLocal
<1> QED
  BY <1>1, PTL

-----------------------------------------------------------------------------
(* Induction *)

\* Every set of naturals that is not empty has a least element.
LEMMA LeastNatural ==
  ASSUME NEW T, T \subseteq Nat, T # {}
  PROVE  \E m \in T : \A n \in T : m <= n
<1>1. \A x, y \in Nat : x < y => <<x, y>> \in OpToRel(<, Nat)
  BY DEF OpToRel
<1>2. PICK R : /\ IsWellFoundedOn(R, Nat)
               /\ \A x, y \in Nat : x < y => <<x, y>> \in R
  BY <1>1, NatLessThanWellFounded, Zenon
<1>3. PICK x \in T : \A y \in T : ~ (<<y, x>> \in R)
  <2>1. IsWellFoundedOn(R, Nat)
    BY <1>2
  <2> QED
    BY <2>1, WFMin, Zenon
<1>4. \A y \in T : ~ (y < x)
  BY <1>2, <1>3
<1> QED
  BY <1>4

\* A set that has 0, and with a number up to N the next one, has them all.
LEMMA UpTo ==
  ASSUME NEW N \in Nat, NEW T, 0 \in T,
         \A n \in 0..(N - 1) : n \in T => n + 1 \in T
  PROVE  \A n \in 0..N : n \in T
<1> SUFFICES ASSUME (0..N) \ T # {} PROVE FALSE
  OBVIOUS
<1>1. PICK m \in (0..N) \ T : \A n \in (0..N) \ T : m <= n
  <2>1. (0..N) \ T \subseteq Nat
    OBVIOUS
  <2> QED
    BY <2>1, LeastNatural, Zenon
<1>2. m - 1 \in 0..(N - 1) /\ m - 1 \in T
  BY <1>1
<1> QED
  BY <1>1, <1>2

-----------------------------------------------------------------------------
(* The history of a log *)

Row(g, l, n) ==
  [k \in Key |-> IF n = 0 THEN NoValue
                 ELSE AfterCommand(l[n].command, g[n - 1], k)]

\* g tells what each key held after each of the commands of l.
IsHistory(g, l) == g = [n \in 0..Len(l) |-> Row(g, l, n)]

LEMMA HistoryChosen == HistoryOf = CHOOSE g : IsHistory(g, log)
  BY DEF HistoryOf, IsHistory, Row

LEMMA HistoryRow ==
  ASSUME NEW g, NEW l, IsHistory(g, l), NEW n \in 0..Len(l)
  PROVE  g[n] = Row(g, l, n)
  BY DEF IsHistory

LEMMA RowByRow ==
  ASSUME NEW g, NEW h, NEW l, NEW n \in Nat, n # 0, g[n - 1] = h[n - 1]
  PROVE  Row(g, l, n) = Row(h, l, n)
  BY DEF Row

LEMMA FirstRow ==
  ASSUME NEW g, NEW h, NEW l
  PROVE  Row(g, l, 0) = Row(h, l, 0)
  BY DEF Row

\* A log has one history.
LEMMA HistoryUnique ==
  ASSUME NEW l, Len(l) \in Nat, NEW g, NEW h, IsHistory(g, l), IsHistory(h, l)
  PROVE  g = h
<1> DEFINE T == {n \in 0..Len(l) : g[n] = h[n]}
<1>1. 0 \in T
  BY FirstRow, HistoryRow
<1>2. ASSUME NEW n \in 0..(Len(l) - 1), n \in T PROVE n + 1 \in T
  <2>1. n + 1 \in 0..Len(l) /\ n + 1 \in Nat /\ n + 1 # 0 /\ (n + 1) - 1 = n
    OBVIOUS
  <2>2. g[n] = h[n]
    BY <1>2
  <2>3. Row(g, l, n + 1) = Row(h, l, n + 1)
    BY <2>1, <2>2, RowByRow
  <2> QED
    BY <2>1, <2>3, HistoryRow
<1> HIDE DEF T
<1>3. \A n \in 0..Len(l) : n \in T
  BY <1>1, <1>2, UpTo
<1>4. \A n \in 0..Len(l) : g[n] = h[n]
  BY <1>3 DEF T
<1> QED
  BY <1>4 DEF IsHistory

\* A command at the end of a log adds to its history, and changes nothing in it.
LEMMA HistoryGrows ==
  ASSUME NEW S, NEW l \in Seq(S), NEW e \in S, NEW g, IsHistory(g, l)
  PROVE  \E h : /\ IsHistory(h, Append(l, e))
                /\ \A n \in 0..Len(l) : h[n] = g[n]
                /\ h[Len(l) + 1] = [k \in Key |->
                                      AfterCommand(e.command, g[Len(l)], k)]
<1> DEFINE N == Len(l)
           m == Append(l, e)
           h == [n \in 0..(N + 1) |-> IF n <= N THEN g[n] ELSE Row(g, m, n)]
<1>1. /\ N \in Nat /\ Len(m) = N + 1 /\ m[N + 1] = e
      /\ \A n \in 1..N : m[n] = l[n]
  OBVIOUS
<1> HIDE DEF N, m
<1>2. \A n \in 0..N : h[n] = g[n]
  BY <1>1
<1>3. h[N + 1] = Row(g, m, N + 1)
  BY <1>1
<1>4. ASSUME NEW n \in 0..N PROVE h[n] = Row(h, m, n)
  <2>1. h[n] = Row(g, l, n)
    BY <1>2, HistoryRow DEF N
  <2>2. CASE n = 0
    BY <2>1, <2>2 DEF Row
  <2>3. CASE n # 0
    <3>1. m[n] = l[n] /\ h[n - 1] = g[n - 1]
      BY <1>1, <1>2, <2>3
    <3> HIDE DEF h
    <3> QED
      BY <2>1, <2>3, <3>1 DEF Row
  <2> QED
    BY <2>2, <2>3
<1>5. h[N + 1] = Row(h, m, N + 1)
  BY <1>1, <1>2, <1>3, RowByRow
<1>6. h[N + 1] = [k \in Key |-> AfterCommand(e.command, g[N], k)]
  <2>1. N + 1 # 0 /\ (N + 1) - 1 = N
    BY <1>1
  <2> HIDE DEF h
  <2> QED
    BY <1>1, <1>3, <2>1 DEF Row
<1>7. h = [n \in 0..Len(m) |-> h[n]]
  BY <1>1
<1> HIDE DEF h
<1>8. \A n \in 0..Len(m) : h[n] = Row(h, m, n)
  BY <1>1, <1>4, <1>5
<1>9. IsHistory(h, m)
  BY <1>7, <1>8 DEF IsHistory
<1> QED
  BY <1>2, <1>6, <1>9 DEF N, m

-----------------------------------------------------------------------------
(* The map and the answers follow the history *)

LEMMA SomeIsNotNone == \A x : <<x>> # NoValue /\ <<x>>[1] = x
  BY DEF NoValue

\* What a map holds for every key.
Holding(d) == [k \in Key |-> Held(d, k)]

LEMMA BindHolds ==
  ASSUME NEW d, NEW k1, NEW v, NEW k
  PROVE  Held(Bind(d, k1, v), k) = IF k = k1 THEN <<v>> ELSE Held(d, k)
  BY DEF Held, Bind

\* What a command leaves in a key is what the history says.
LEMMA ExecuteHolds ==
  ASSUME NEW d, NEW cmd \in KVStoreCommand, NEW k \in Key
  PROVE  Held(Execute(d, cmd).data, k) = AfterCommand(cmd, Holding(d), k)
<1>1. Holding(d)[k] = Held(d, k)
  BY DEF Holding
<1>2. CASE cmd.type = "Get"
  BY <1>1, <1>2 DEF Execute, AfterCommand
<1>3. CASE cmd.type = "Put"
  <2>1. Execute(d, cmd).data = Bind(d, cmd.key, cmd.value)
    BY <1>3 DEF Execute
  <2> QED
    BY <1>1, <1>3, <2>1, BindHolds DEF AfterCommand
<1>4. CASE cmd.type = "Append"
  <2> DEFINE v == Appended(d, cmd.key, cmd.value)
  <2>1. Execute(d, cmd).data = Bind(d, cmd.key, v)
    BY <1>4 DEF Execute
  <2>2. <<v>> = IF Held(d, cmd.key) = NoValue THEN <<cmd.value>>
                ELSE <<Held(d, cmd.key)[1] \o cmd.value>>
    <3>1. CASE cmd.key \in DOMAIN d
      <4>1. Held(d, cmd.key) = <<d[cmd.key]>> /\ v = d[cmd.key] \o cmd.value
        BY <3>1 DEF Held, Appended
      <4>2. Held(d, cmd.key) # NoValue /\ Held(d, cmd.key)[1] = d[cmd.key]
        BY <4>1, SomeIsNotNone, Zenon
      <4> HIDE DEF v
      <4> QED
        BY <4>1, <4>2
    <3>2. CASE cmd.key \notin DOMAIN d
      BY <3>2 DEF Held, Appended
    <3> QED
      BY <3>1, <3>2
  <2> HIDE DEF v
  <2>3. CASE k = cmd.key
    BY <1>1, <1>4, <2>1, <2>2, <2>3, BindHolds DEF AfterCommand
  <2>4. CASE k # cmd.key
    BY <1>1, <1>4, <2>1, <2>4, BindHolds DEF AfterCommand
  <2> QED
    BY <2>3, <2>4
<1> QED
  BY <1>2, <1>3, <1>4 DEF KVStoreCommand

LEMMA RunHolds ==
  ASSUME NEW d, NEW t \in Transaction, NEW k \in Key
  PROVE  Held(Run(t, d).db, k) = AfterCommand(t, Holding(d), k)
<1>1. \A x \in Key : Holding(d)[x] = Held(d, x)
  BY DEF Holding
<1>2. CASE t.type = "MultiGet"
  BY <1>1, <1>2 DEF Run, RunMultiGet, AfterCommand
<1>3. CASE t.type = "MultiPut"
  <2> DEFINE V == t.values
             after == [x \in DOMAIN d \cup DOMAIN V |->
                         IF x \in DOMAIN V THEN V[x] ELSE d[x]]
  <2>1. Run(t, d).db = after
    BY <1>3 DEF Run, RunMultiPut
  <2>2. Held(after, k) = IF k \in DOMAIN V THEN <<V[k]>> ELSE Held(d, k)
    BY DEF Held
  <2>3. AfterCommand(t, Holding(d), k)
          = IF k \in DOMAIN V THEN <<V[k]>> ELSE Held(d, k)
    BY <1>1, <1>3 DEF AfterCommand
  <2> HIDE DEF after, V
  <2> QED
    BY <2>1, <2>2, <2>3
<1>4. CASE t.type = "Swap"
  <2>1. t.key1 \in Key /\ t.key2 \in Key
    BY <1>4 DEF Transaction
  <2>2. Run(t, d).db = RunSwap(d, t.key1, t.key2).db
    BY <1>4 DEF Run
  <2>3. AfterCommand(t, Holding(d), k)
          = IF k = t.key1 THEN Held(d, t.key2)
            ELSE IF k = t.key2 THEN Held(d, t.key1) ELSE Held(d, k)
    BY <1>1, <1>4, <2>1 DEF AfterCommand
  <2> QED
    BY <2>2, <2>3, SwapHolds
<1> QED
  BY <1>2, <1>3, <1>4 DEF Transaction

\* What a command answers is what the keys hold then.
LEMMA ExecuteAnswers ==
  ASSUME NEW d, NEW cmd \in KVStoreCommand
  PROVE  Answers(cmd, Execute(d, cmd).result, Holding(d),
                 Holding(Execute(d, cmd).data))
<1> DEFINE res == Execute(d, cmd).result
           after == Execute(d, cmd).data
<1>1. cmd.key \in Key /\ Holding(d)[cmd.key] = Held(d, cmd.key)
        /\ Holding(after)[cmd.key] = Held(after, cmd.key)
  BY DEF KVStoreCommand, Holding
<1>2. CASE cmd.type = "Get"
  <2>1. res = IF cmd.key \in DOMAIN d THEN GetResult(d[cmd.key])
              ELSE KeyNotFound
    BY <1>2 DEF Execute
  <2>2. Held(d, cmd.key)
          = IF res.type = "GetResult" THEN <<res.value>> ELSE NoValue
    BY <2>1 DEF Held, GetResult, KeyNotFound
  <2> HIDE DEF res, after
  <2> QED
    BY <1>1, <1>2, <2>2 DEF Answers, res, after
<1>3. CASE cmd.type = "Put"
  BY <1>3 DEF Answers
<1>4. CASE cmd.type = "Append"
  <2> DEFINE v == Appended(d, cmd.key, cmd.value)
  <2>1. res = AppendResult(v) /\ after = Bind(d, cmd.key, v)
    BY <1>4 DEF Execute
  <2> HIDE DEF res, after, v
  <2>2. Held(after, cmd.key) = <<res.value>>
    BY <2>1, BindHolds DEF AppendResult
  <2> QED
    BY <1>1, <1>4, <2>2 DEF Answers, res, after
<1> QED
  BY <1>2, <1>3, <1>4 DEF KVStoreCommand

LEMMA RunAnswers ==
  ASSUME NEW d, NEW t \in Transaction, NEW after
  PROVE  Answers(t, Run(t, d).result, Holding(d), after)
<1>1. CASE t.type = "MultiGet"
  <2> DEFINE res == Run(t, d).result
  <2>1. t.keys \subseteq Key
    BY <1>1 DEF Transaction
  <2>2. res.values = [k \in t.keys |-> IF k \in DOMAIN d THEN d[k]
                                       ELSE KEY_NOT_FOUND]
    BY <1>1 DEF Run, RunMultiGet
  <2> HIDE DEF res
  <2>3. ASSUME NEW k \in t.keys
        PROVE  res.values[k] = IF Holding(d)[k] = NoValue THEN KEY_NOT_FOUND
                               ELSE Holding(d)[k][1]
    <3>1. Holding(d)[k] = Held(d, k)
      BY <2>1 DEF Holding
    <3>2. CASE k \in DOMAIN d
      BY <2>2, <3>1, <3>2, SomeIsNotNone DEF Held
    <3>3. CASE k \notin DOMAIN d
      BY <2>2, <3>1, <3>3 DEF Held
    <3> QED
      BY <3>2, <3>3
  <2> QED
    BY <1>1, <2>2, <2>3 DEF Answers, res
<1>2. CASE t.type # "MultiGet"
  BY <1>2 DEF Transaction, Answers
<1> QED
  BY <1>1, <1>2

-----------------------------------------------------------------------------

\* The log has a history, which tells what the map holds and what was answered.
TellsAnswers(h) ==
  \A n \in DOMAIN log : Answers(log[n].command, log[n].result, h[n - 1], h[n])

HistoryInv ==
  /\ \E S : log \in Seq(S)
  /\ \E h : IsHistory(h, log) /\ h[Len(log)] = Holding(data) /\ TellsAnswers(h)

\* A step that executes cmd, and leaves and answers what the history says.
LEMMA RecordKeeps ==
  ASSUME HistoryInv, NEW cmd, NEW res, Record(cmd, res),
         \A k \in Key : Held(data', k) = AfterCommand(cmd, Holding(data), k),
         \A after : after = Holding(data') =>
                      Answers(cmd, res, Holding(data), after)
  PROVE  HistoryInv'
<1> DEFINE e == [command |-> cmd, result |-> res]
           N == Len(log)
<1>1. PICK S : log \in Seq(S)
  BY DEF HistoryInv
<1>2. PICK g : IsHistory(g, log) /\ g[N] = Holding(data) /\ TellsAnswers(g)
  BY DEF HistoryInv
<1>3. log' = Append(log, e) /\ e.command = cmd /\ e.result = res
  BY DEF Record
<1> HIDE DEF e
<1>4. log \in Seq(S \cup {e}) /\ e \in S \cup {e}
  BY <1>1
<1>5. PICK h : /\ IsHistory(h, Append(log, e))
               /\ \A n \in 0..N : h[n] = g[n]
               /\ h[N + 1] = [k \in Key |-> AfterCommand(e.command, g[N], k)]
  BY <1>2, <1>4, HistoryGrows
<1>6. h[N + 1] = Holding(data')
  BY <1>2, <1>3, <1>5 DEF Holding
<1>7. /\ log' \in Seq(S \cup {e}) /\ N \in Nat
      /\ Len(log') = N + 1 /\ log'[N + 1] = e
      /\ \A n \in 1..N : log'[n] = log[n]
      /\ DOMAIN log = 1..N /\ DOMAIN log' = 1..(N + 1)
  BY <1>3, <1>4
<1>8. ASSUME NEW n \in DOMAIN log'
      PROVE  Answers(log'[n].command, log'[n].result, h[n - 1], h[n])
  <2>1. CASE n \in 1..N
    <3>1. h[n - 1] = g[n - 1] /\ h[n] = g[n] /\ log'[n] = log[n]
      BY <1>5, <1>7, <2>1
    <3> QED
      BY <1>2, <1>7, <2>1, <3>1 DEF TellsAnswers
  <2>2. CASE n = N + 1
    <3>1. h[n - 1] = Holding(data) /\ h[n] = Holding(data') /\ log'[n] = e
      BY <1>2, <1>5, <1>6, <1>7, <2>2
    <3> QED
      BY <1>3, <3>1
  <2> QED
    BY <1>7, <2>1, <2>2
<1>9. IsHistory(h, log') /\ h[Len(log')] = Holding(data') /\ TellsAnswers(h)'
  BY <1>3, <1>5, <1>6, <1>7, <1>8 DEF TellsAnswers
<1> HIDE DEF N
<1> QED
  BY <1>7, <1>9 DEF HistoryInv

LEMMA HistoryStart == Init => HistoryInv
<1> SUFFICES ASSUME Init PROVE HistoryInv
  OBVIOUS
<1> DEFINE h == [n \in {0} |-> [k \in Key |-> NoValue]]
<1>1. log \in Seq({}) /\ Len(log) = 0 /\ 0..Len(log) = {0} /\ DOMAIN log = {}
  BY DEF Init
<1>2. Row(h, log, 0) = [k \in Key |-> NoValue]
  BY DEF Row
<1>3. IsHistory(h, log)
  BY <1>1, <1>2 DEF IsHistory
<1>4. h[Len(log)] = Holding(data)
  <2>1. DOMAIN data = {}
    BY DEF Init
  <2> QED
    BY <1>1, <2>1 DEF Holding, Held
<1>5. TellsAnswers(h)
  BY <1>1 DEF TellsAnswers
<1> HIDE DEF h
<1> QED
  BY <1>1, <1>3, <1>4, <1>5 DEF HistoryInv

LEMMA HistoryNext == HistoryInv /\ [Next]_vars => HistoryInv'
<1> SUFFICES ASSUME HistoryInv, [Next]_vars PROVE HistoryInv'
  OBVIOUS
<1>1. ASSUME NEW cmd \in KVStoreCommand, ExecuteCommand(cmd)
      PROVE  HistoryInv'
  <2> DEFINE x == Execute(data, cmd)
  <2>1. data' = x.data /\ Record(cmd, x.result)
    BY <1>1 DEF ExecuteCommand
  <2>2. \A k \in Key : Held(x.data, k) = AfterCommand(cmd, Holding(data), k)
    BY ExecuteHolds
  <2>3. Answers(cmd, x.result, Holding(data), Holding(x.data))
    BY ExecuteAnswers
  <2> HIDE DEF x
  <2> QED
    BY <2>1, <2>2, <2>3, RecordKeeps
<1>2. ASSUME NEW t \in Transaction, RunTransaction(t)
      PROVE  HistoryInv'
  <2> DEFINE W == writeSet(t)
             x == Run(t, Part(data, keySet(t)))
             whole == Run(t, data)
  <2>1. /\ data' = [k \in (DOMAIN data \ W) \cup (DOMAIN x.db \cap W) |->
                      IF k \in W THEN x.db[k] ELSE data[k]]
        /\ Record(t, x.result)
    BY <1>2 DEF RunTransaction
  <2>2. /\ x.result = whole.result
        /\ \A k \in keySet(t) : Held(x.db, k) = Held(whole.db, k)
        /\ \A k \in Key \ W : Held(whole.db, k) = Held(data, k)
    BY MultiGetLocal, MultiPutLocal, SwapLocal DEF Transaction, LocalIn
  <2>3. W \subseteq keySet(t)
    BY DEF keySet
  <2>4. \A k \in Key : Held(whole.db, k) = AfterCommand(t, Holding(data), k)
    BY RunHolds
  <2>5. \A after : Answers(t, whole.result, Holding(data), after)
    BY RunAnswers
  <2> HIDE DEF W, x, whole
  <2>6. \A k \in Key :
          Held(data', k) = IF k \in W THEN Held(x.db, k) ELSE Held(data, k)
    BY <2>1 DEF Held
  <2> QED
    BY <2>1, <2>2, <2>3, <2>4, <2>5, <2>6, RecordKeeps
<1>3. CASE UNCHANGED vars
  BY <1>3 DEF vars, HistoryInv, TellsAnswers
<1> QED
  BY <1>1, <1>2, <1>3 DEF Next

\* The one history of the log is HistoryOf.
LEMMA HistoryOfTells ==
  ASSUME HistoryInv
  PROVE  /\ HistoryOf[Len(log)] = Holding(data)
         /\ TellsAnswers(HistoryOf)
<1>1. PICK h : IsHistory(h, log) /\ h[Len(log)] = Holding(data) /\ TellsAnswers(h)
  BY DEF HistoryInv
<1>2. Len(log) \in Nat
  BY DEF HistoryInv
<1>3. IsHistory(HistoryOf, log)
  BY <1>1, HistoryChosen
<1>4. HistoryOf = h
  BY <1>1, <1>2, <1>3, HistoryUnique
<1> QED
  BY <1>1, <1>4

\* After any commands and transactions, swaps of missing or equal keys among
\* them, each key holds what its own history in the log says.
THEOREM HeldIsHistory == Spec => []HeldByHistory
<1>1. HistoryInv => HeldByHistory
  BY HistoryOfTells DEF HeldByHistory, Holding
<1> QED
  BY <1>1, HistoryStart, HistoryNext, PTL DEF Spec

\* Every value that a Get, an Append or a MultiGet answers is what the key held
\* then by its history, and a MultiGet says which keys held none.
THEOREM AnswersAreHistory == Spec => []AnswersByHistory
<1>1. HistoryInv => AnswersByHistory
  BY HistoryOfTells DEF AnswersByHistory, TellsAnswers
<1> QED
  BY <1>1, HistoryStart, HistoryNext, PTL DEF Spec

-----------------------------------------------------------------------------

\* Whatever the hash, its sign included, the shard is one of 1..numShards.
THEOREM ShardOfInRange ==
  ASSUME NEW hash \in Int, NEW numShards \in Nat \ {0}
  PROVE  ShardOf(hash, numShards) \in 1..numShards
<1>1. hash % numShards \in 0..(numShards - 1)
  OBVIOUS
<1>2. Rem(hash, numShards) \in Int
        /\ -numShards < Rem(hash, numShards) /\ Rem(hash, numShards) < numShards
  BY <1>1 DEF Rem
<1> QED
  BY <1>2 DEF ShardOf
-----------------------------------------------------------------------------
(* Numbers modulo n *)

LEMMA DivMod ==
  ASSUME NEW x \in Int, NEW n \in Nat \ {0}
  PROVE  /\ x = n * (x \div n) + (x % n)
         /\ x % n \in 0..(n - 1)
         /\ x \div n \in Int
  OBVIOUS

LEMMA NotBelow ==
  ASSUME NEW n \in Nat \ {0}, NEW d \in Int, d >= 1
  PROVE  n * d >= n
  OBVIOUS

LEMMA QuotientUnique ==
  ASSUME NEW n \in Nat \ {0}, NEW q \in Int, NEW p \in Int,
         NEW r \in 0..(n - 1), NEW s \in 0..(n - 1), n * q + r = n * p + s
  PROVE  r = s
<1>1. n * (q - p) = s - r /\ n * (p - q) = r - s
  OBVIOUS
<1>2. ~ (q - p >= 1)
  <2> SUFFICES ASSUME q - p >= 1 PROVE FALSE
    OBVIOUS
  <2>1. n * (q - p) >= n
    BY NotBelow
  <2> QED
    BY <1>1, <2>1
<1>3. ~ (p - q >= 1)
  <2> SUFFICES ASSUME p - q >= 1 PROVE FALSE
    OBVIOUS
  <2>1. n * (p - q) >= n
    BY NotBelow
  <2> QED
    BY <1>1, <2>1
<1>4. q = p
  BY <1>2, <1>3
<1> QED
  BY <1>4

LEMMA ModIs ==
  ASSUME NEW n \in Nat \ {0}, NEW x \in Int, NEW q \in Int,
         NEW r \in 0..(n - 1), x = n * q + r
  PROVE  x % n = r
  BY DivMod, QuotientUnique

\* A digit at the end of a number may be added to its remainder.
LEMMA ModDigit ==
  ASSUME NEW n \in Nat \ {0}, NEW x \in Int, NEW d \in Int
  PROVE  (x * 10 + d) % n = ((x % n) * 10 + d) % n
<1> DEFINE y == (x % n) * 10 + d
<1>1. x = n * (x \div n) + (x % n) /\ x \div n \in Int /\ x % n \in Int
  BY DivMod
<1>2. y \in Int
  BY <1>1
<1>3. y = n * (y \div n) + (y % n) /\ y \div n \in Int /\ y % n \in 0..(n - 1)
  BY <1>2, DivMod
<1>4. x * 10 + d = n * (10 * (x \div n)) + y
  BY <1>1
<1> HIDE DEF y
<1>5. x * 10 + d = n * (10 * (x \div n) + (y \div n)) + (y % n)
  BY <1>1, <1>3, <1>4
<1>6. x * 10 + d \in Int /\ 10 * (x \div n) + (y \div n) \in Int
  BY <1>1, <1>3
<1>7. (x * 10 + d) % n = y % n
  BY <1>3, <1>5, <1>6, ModIs
<1> QED
  BY <1>7 DEF y

\* The shard of a hash that is not negative is the hash modulo numShards.
LEMMA ShardOfMod ==
  ASSUME NEW n \in Nat \ {0}, NEW hash \in Nat
  PROVE  ShardOf(hash, n) % n = hash % n
<1>1. hash % n \in 0..(n - 1)
  BY DivMod
<1>2. CASE hash % n = 0
  <2>1. ShardOf(hash, n) = n
    BY <1>2 DEF ShardOf, Rem
  <2>2. n = n * 1 + 0 /\ 0 \in 0..(n - 1)
    OBVIOUS
  <2>3. n % n = 0
    BY <2>2, ModIs
  <2> QED
    BY <1>2, <2>1, <2>3
<1>3. CASE hash % n # 0
  <2>1. ShardOf(hash, n) = hash % n
    BY <1>1, <1>3 DEF ShardOf, Rem
  <2>2. hash % n = n * 0 + (hash % n) /\ hash % n \in Int
    BY <1>1
  <2>3. (hash % n) % n = hash % n
    BY <1>1, <2>2, ModIs
  <2> QED
    BY <2>1, <2>3
<1> QED
  BY <1>2, <1>3

-----------------------------------------------------------------------------
(* Loops over the digits of a key *)

Stepping(u, a, N, step) == u[0] = a /\ \A i \in 1..N : u[i] = step[i][u[i - 1]]

\* N steps in a row, each from the value the last one left, have values.
LEMMA Steps ==
  ASSUME NEW S, NEW a \in S, NEW N \in Nat, NEW step \in [1..N -> [S -> S]]
  PROVE  \E u \in [0..N -> S] : Stepping(u, a, N, step)
<1> DEFINE Good(n, u) == u[0] = a /\ \A i \in 1..n : u[i] = step[i][u[i - 1]]
           T == {n \in 0..N : \E u \in [0..n -> S] : Good(n, u)}
<1>1. 0 \in T
  <2> DEFINE u == [i \in 0..0 |-> a]
  <2>1. u \in [0..0 -> S] /\ Good(0, u) /\ 0 \in 0..N
    OBVIOUS
  <2> HIDE DEF u, Good
  <2> QED
    BY <2>1
<1>2. ASSUME NEW n \in 0..(N - 1), n \in T PROVE n + 1 \in T
  <2>1. PICK u \in [0..n -> S] : Good(n, u)
    BY <1>2
  <2> DEFINE w == [i \in 0..(n + 1) |-> IF i <= n THEN u[i]
                                        ELSE step[n + 1][u[n]]]
  <2>2. n + 1 \in 1..N /\ u[n] \in S
    OBVIOUS
  <2>3. step[n + 1][u[n]] \in S
    BY <2>2
  <2>4. w \in [0..(n + 1) -> S]
    BY <2>3
  <2>5. \A i \in 0..n : w[i] = u[i]
    OBVIOUS
  <2>6. w[n + 1] = step[n + 1][u[n]]
    OBVIOUS
  <2> HIDE DEF w
  <2>7. Good(n + 1, w)
    BY <2>1, <2>5, <2>6
  <2> QED
    BY <2>4, <2>7
<1>3. N \in T
  <2> HIDE DEF T
  <2>1. N \in 0..N
    OBVIOUS
  <2> QED
    BY <1>1, <1>2, <2>1, UpTo
<1> QED
  BY <1>3 DEF Stepping

LEMMA TimesTenPlusInt ==
  ASSUME NEW h \in Int, NEW d \in Int
  PROVE  TimesTenPlus(h, d) \in Int
  BY SMT DEF TimesTenPlus, Word, HalfWord

\* 2^31, the first number that does not fit an int.
TooLong == 2147483648

\* Nothing is lost of a number that fits an int.
LEMMA TimesTenPlusExact ==
  ASSUME NEW h \in Nat, NEW d \in Nat, h * 10 + d < TooLong
  PROVE  TimesTenPlus(h, d) = h * 10 + d
  BY SMT DEF TooLong, TimesTenPlus, Word, HalfWord

\* The loop of keyToShard over cl, step by step.
LEMMA ParsedSteps ==
  ASSUME NEW cl \in Seq(0..9)
  PROVE  /\ Parsed(cl)[0] = 0
         /\ \A i \in 1..Len(cl) :
              Parsed(cl)[i] = TimesTenPlus(Parsed(cl)[i - 1], cl[i])
<1> DEFINE N == Len(cl)
           F(g) == [n \in 0..N |-> IF n = 0 THEN 0
                                   ELSE TimesTenPlus(g[n - 1], cl[n])]
           step == [i \in 1..N |-> [x \in Int |-> TimesTenPlus(x, cl[i])]]
<1>1. N \in Nat /\ \A i \in 1..N : cl[i] \in 0..9
  OBVIOUS
<1>2. Parsed(cl) = CHOOSE g : g = F(g)
  BY DEF Parsed
<1>3. \E g : g = F(g)
  <2>1. ASSUME NEW x \in Int, NEW i \in 1..N
        PROVE  TimesTenPlus(x, cl[i]) \in Int
    <3>1. cl[i] \in Int
      BY <1>1
    <3> QED
      BY <3>1, TimesTenPlusInt
  <2>2. step \in [1..N -> [Int -> Int]]
    BY <2>1
  <2>3. \A i \in 1..N, x \in Int : step[i][x] = TimesTenPlus(x, cl[i])
    OBVIOUS
  <2> HIDE DEF N, step
  <2>4. PICK u \in [0..N -> Int] : Stepping(u, 0, N, step)
    <3>1. N \in Nat /\ 0 \in Int
      BY <1>1
    <3> QED
      BY <2>2, <3>1, Steps
  <2>5. \A i \in 0..N : u[i] = IF i = 0 THEN 0
                               ELSE TimesTenPlus(u[i - 1], cl[i])
    <3>1. u[0] = 0 /\ \A i \in 1..N : u[i] = step[i][u[i - 1]]
      BY <2>4 DEF Stepping
    <3>2. \A i \in 1..N : u[i - 1] \in Int
      BY <1>1
    <3> QED
      BY <1>1, <2>3, <3>1, <3>2
  <2>6. u = F(u)
    BY <2>5
  <2> QED
    BY <2>6
<1> DEFINE p == Parsed(cl)
<1>4. p = F(p)
  BY <1>2, <1>3
<1> HIDE DEF p
<1>5. p[0] = 0 /\ \A i \in 1..N : p[i] = TimesTenPlus(p[i - 1], cl[i])
  BY <1>1, <1>4
<1> QED
  BY <1>5 DEF p

\* The loop of NumberMod over ds, step by step.
LEMMA ResidueSteps ==
  ASSUME NEW ds \in Seq(0..9), NEW n \in Nat \ {0}
  PROVE  /\ Residues(ds, n)[0] = 0
         /\ \A i \in 1..Len(ds) :
              Residues(ds, n)[i] = (Residues(ds, n)[i - 1] * 10 + ds[i]) % n
<1> DEFINE N == Len(ds)
           F(g) == [i \in 0..N |-> IF i = 0 THEN 0
                                   ELSE (g[i - 1] * 10 + ds[i]) % n]
           step == [i \in 1..N |-> [x \in Int |-> (x * 10 + ds[i]) % n]]
<1>1. N \in Nat /\ \A i \in 1..N : ds[i] \in 0..9
  OBVIOUS
<1>2. Residues(ds, n) = CHOOSE g : g = F(g)
  BY DEF Residues
<1>3. \E g : g = F(g)
  <2>1. ASSUME NEW x \in Int, NEW i \in 1..N
        PROVE  (x * 10 + ds[i]) % n \in Int
    <3>1. x * 10 + ds[i] \in Int
      BY <1>1
    <3> QED
      BY <3>1, DivMod
  <2>2. step \in [1..N -> [Int -> Int]]
    BY <2>1
  <2>3. \A i \in 1..N, x \in Int : step[i][x] = (x * 10 + ds[i]) % n
    OBVIOUS
  <2> HIDE DEF N, step
  <2>4. PICK u \in [0..N -> Int] : Stepping(u, 0, N, step)
    <3>1. N \in Nat /\ 0 \in Int
      BY <1>1
    <3> QED
      BY <2>2, <3>1, Steps
  <2>5. \A i \in 0..N : u[i] = IF i = 0 THEN 0 ELSE (u[i - 1] * 10 + ds[i]) % n
    <3>1. u[0] = 0 /\ \A i \in 1..N : u[i] = step[i][u[i - 1]]
      BY <2>4 DEF Stepping
    <3>2. \A i \in 1..N : u[i - 1] \in Int
      BY <1>1
    <3>3. \A i \in 1..N : u[i] = (u[i - 1] * 10 + ds[i]) % n
      BY <2>3, <3>1, <3>2
    <3> QED
      BY <1>1, <3>1, <3>3
  <2>6. u = F(u)
    BY <2>5
  <2> QED
    BY <2>6
<1> DEFINE p == Residues(ds, n)
<1>4. p = F(p)
  BY <1>2, <1>3
<1> HIDE DEF p
<1>5. p[0] = 0 /\ \A i \in 1..N : p[i] = (p[i - 1] * 10 + ds[i]) % n
  BY <1>1, <1>4
<1> QED
  BY <1>5 DEF p

\* What the loop computes is an int, however long the key.
LEMMA ParsedInt ==
  ASSUME NEW cl \in Seq(0..9)
  PROVE  Parsed(cl)[Len(cl)] \in Int
<1> DEFINE N == Len(cl)
           p == Parsed(cl)
           T == {n \in 0..N : p[n] \in Int}
<1>1. N \in Nat /\ \A i \in 1..N : cl[i] \in Int
  OBVIOUS
<1>2. p[0] = 0 /\ \A i \in 1..N : p[i] = TimesTenPlus(p[i - 1], cl[i])
  BY ParsedSteps
<1> HIDE DEF N, p
<1>3. 0 \in T
  BY <1>1, <1>2
<1>4. ASSUME NEW n \in 0..(N - 1), n \in T PROVE n + 1 \in T
  <2>1. n + 1 \in 1..N /\ (n + 1) - 1 = n /\ p[n] \in Int
    BY <1>1, <1>4
  <2>2. cl[n + 1] \in Int /\ p[n + 1] = TimesTenPlus(p[n], cl[n + 1])
    BY <1>1, <1>2, <2>1
  <2>3. p[n + 1] \in Int
    BY <2>1, <2>2, TimesTenPlusInt
  <2> QED
    BY <1>1, <2>1, <2>3
<1>5. N \in T
  <2> HIDE DEF T
  <2>1. N \in 0..N
    BY <1>1
  <2> QED
    BY <1>1, <1>3, <1>4, <2>1, UpTo
<1> QED
  BY <1>5 DEF N, p

\* The largest numbers of up to nine digits.
Nines == [i \in 0..9 |->
  <<0, 9, 99, 999, 9999, 99999, 999999, 9999999, 99999999, 999999999>>[i + 1]]

LEMMA NinesGrow ==
  /\ Nines[0] = 0
  /\ \A i \in 0..8 : /\ Nines[i] \in Nat
                     /\ Nines[i + 1] = Nines[i] * 10 + 9
                     /\ Nines[i + 1] < TooLong
  BY SMT DEF Nines, TooLong

LEMMA DigitBound ==
  ASSUME NEW m \in Nat, NEW x \in 0..m, NEW d \in 0..9, m * 10 + 9 < TooLong
  PROVE  /\ x \in Nat /\ d \in Nat
         /\ x * 10 + d \in 0..(m * 10 + 9)
         /\ x * 10 + d < TooLong
  BY SMT DEF TooLong

\* Of up to nine digits the loop computes the number, so the same modulo n as
\* NumberMod.
LEMMA ParsedMod ==
  ASSUME NEW cl \in Seq(0..9), Len(cl) <= 9, NEW n \in Nat \ {0}
  PROVE  /\ Parsed(cl)[Len(cl)] \in Nat
         /\ Parsed(cl)[Len(cl)] % n = NumberMod(cl, n)
<1> DEFINE N == Len(cl)
           p == Parsed(cl)
           q == Residues(cl, n)
           Good(i) == p[i] \in 0..Nines[i] /\ p[i] % n = q[i]
           T == {i \in 0..N : Good(i)}
<1>1. N \in 0..9 /\ \A i \in 1..N : cl[i] \in 0..9
  <2>1. N \in Nat /\ N <= 9
    OBVIOUS
  <2>2. \A i \in 1..N : cl[i] \in 0..9
    OBVIOUS
  <2> HIDE DEF N
  <2> QED
    BY <2>1, <2>2
<1>2. p[0] = 0 /\ \A i \in 1..N : p[i] = TimesTenPlus(p[i - 1], cl[i])
  BY ParsedSteps
<1>3. q[0] = 0 /\ \A i \in 1..N : q[i] = (q[i - 1] * 10 + cl[i]) % n
  BY ResidueSteps
<1>4. Parsed(cl)[Len(cl)] = p[N] /\ NumberMod(cl, n) = q[N]
  BY DEF NumberMod
<1> HIDE DEF N, p, q
<1>5. 0 \in T
  <2>1. 0 = n * 0 + 0 /\ 0 \in 0..(n - 1)
    OBVIOUS
  <2>2. 0 % n = 0
    BY <2>1, ModIs
  <2>3. Nines[0] = 0
    BY NinesGrow
  <2> QED
    BY <1>1, <1>2, <1>3, <2>2, <2>3
<1>6. ASSUME NEW i \in 0..(N - 1), i \in T PROVE i + 1 \in T
  <2>1. i + 1 \in 1..N /\ (i + 1) - 1 = i /\ i \in 0..8
    BY <1>1
  <2>2. p[i] \in 0..Nines[i] /\ p[i] % n = q[i]
    BY <1>6
  <2>3. Nines[i] \in Nat /\ Nines[i + 1] = Nines[i] * 10 + 9
          /\ Nines[i + 1] < TooLong
    BY <2>1, NinesGrow
  <2> DEFINE d == cl[i + 1]
  <2>4. d \in 0..9 /\ p[i + 1] = TimesTenPlus(p[i], d)
          /\ q[i + 1] = (q[i] * 10 + d) % n
    BY <1>1, <1>2, <1>3, <2>1
  <2> HIDE DEF d
  <2>5. p[i] \in Nat /\ d \in Nat /\ p[i] * 10 + d \in 0..Nines[i + 1]
          /\ p[i] * 10 + d < TooLong
    BY <2>2, <2>3, <2>4, DigitBound
  <2>6. p[i + 1] = p[i] * 10 + d
    BY <2>4, <2>5, TimesTenPlusExact
  <2>7. p[i + 1] % n = q[i + 1]
    <3>1. p[i] \in Int /\ d \in Int
      BY <2>5
    <3>2. (p[i] * 10 + d) % n = ((p[i] % n) * 10 + d) % n
      BY <3>1, ModDigit
    <3> QED
      BY <2>2, <2>4, <2>6, <3>2
  <2> QED
    BY <1>1, <2>1, <2>5, <2>6, <2>7
<1>7. N \in T
  <2> HIDE DEF T
  <2>1. N \in 0..N /\ N \in Nat
    BY <1>1
  <2> QED
    BY <1>5, <1>6, <2>1, UpTo
<1>8. p[N] \in 0..Nines[N] /\ p[N] % n = q[N]
  BY <1>7
<1>9. p[N] \in Nat
  BY <1>8
<1> QED
  BY <1>4, <1>8, <1>9

-----------------------------------------------------------------------------
(* The keys that grow *)

KeyOK == key \in [hashCode : HashCodes \cup {0}, digits : Seq(0..9)]

LEMMA Digit ==
  /\ <<>> \in Seq(0..9) /\ Len(<<>>) = 0
  /\ \A ds \in Seq(0..9), d \in 0..9 : Append(ds, d) \in Seq(0..9)
  OBVIOUS

LEMMA KeysOK == KeySpec => []KeyOK
<1>1. KeyInit => KeyOK
  BY Digit, Zenon DEF KeyInit, KeyOK
<1>2. ASSUME KeyOK, NEW d \in Digits, Grow(d) PROVE KeyOK'
  <2> DEFINE ds == Append(key.digits, d)
  <2>1. key.digits \in Seq(0..9) /\ d \in 0..9
    <3>1. key.digits \in Seq(0..9)
      BY <1>2 DEF KeyOK
    <3>2. d \in 0..9
      BY KeysAssumption
    <3> QED
      BY <3>1, <3>2
  <2>2. ds \in Seq(0..9)
    BY <2>1, Digit, Zenon
  <2>3. key' = [hashCode |-> 0, digits |-> ds]
    BY <1>2 DEF Grow
  <2> HIDE DEF ds
  <2> QED
    BY <2>2, <2>3 DEF KeyOK
<1>3. KeyOK /\ [KeyNext]_key => KeyOK'
  BY <1>2 DEF KeyOK, KeyNext
<1> QED
  BY <1>1, <1>3, PTL DEF KeySpec

LEMMA HashInt ==
  ASSUME KeyOK
  PROVE  Hash(key) \in Int
<1>1. key.hashCode \in Int /\ key.digits \in Seq(0..9)
  <2>1. key.hashCode \in HashCodes \cup {0} /\ key.digits \in Seq(0..9)
    BY DEF KeyOK
  <2>2. HashCodes \cup {0} \subseteq Int
    BY KeysAssumption
  <2> QED
    BY <2>1, <2>2
<1>2. Parsed(key.digits)[Len(key.digits)] \in Int
  BY <1>1, ParsedInt
<1> QED
  BY <1>1, <1>2 DEF Hash, Trailing

\* Every key has one of the shards 1..numShards, whatever its hash code, and
\* however long the number it ends in and whatever an overflow makes of it.
THEOREM KeysInRange == KeySpec => []ShardInRange
<1>1. KeyOK => ShardInRange
  <2> SUFFICES ASSUME KeyOK, NEW n \in Shards PROVE keyToShard(key, n) \in 1..n
    BY DEF ShardInRange
  <2>1. n \in Nat \ {0}
    BY BoundsAssumption DEF Shards
  <2> QED
    BY <2>1, HashInt, ShardOfInRange DEF keyToShard
<1> QED
  BY <1>1, KeysOK, PTL

\* A key that ends in a number of up to nine digits has the shard that its
\* comment gives it, for any number of shards.
THEOREM KeysByNumber == KeySpec => []ShardByNumber
<1>1. KeyOK => ShardByNumber
  <2> SUFFICES ASSUME KeyOK, NEW n \in Shards, Len(key.digits) \in 1..9
               PROVE  keyToShard(key, n) % n = NumberMod(key.digits, n)
    BY DEF ShardByNumber
  <2> DEFINE cl == key.digits
  <2>1. n \in Nat \ {0}
    BY BoundsAssumption DEF Shards
  <2>2. cl \in Seq(0..9) /\ cl # <<>> /\ Len(cl) <= 9
    <3>1. cl \in Seq(0..9)
      BY DEF KeyOK
    <3>2. Len(cl) \in 1..9
      OBVIOUS
    <3> HIDE DEF cl
    <3>3. Len(cl) # 0 /\ Len(cl) <= 9
      <4>1. \A x \in 1..9 : x # 0 /\ x <= 9
        OBVIOUS
      <4> QED
        BY <3>2, <4>1, Zenon
    <3>4. cl # <<>>
      BY <3>3, Digit, Zenon
    <3> QED
      BY <3>1, <3>3, <3>4
  <2>3. Hash(key) = Parsed(cl)[Len(cl)]
    BY <2>2 DEF Hash, Trailing
  <2> HIDE DEF cl
  <2>4. Hash(key) \in Nat /\ Hash(key) % n = NumberMod(cl, n)
    BY <2>1, <2>2, <2>3, ParsedMod
  <2>5. keyToShard(key, n) % n = Hash(key) % n
    BY <2>1, <2>4, ShardOfMod DEF keyToShard
  <2> QED
    BY <2>4, <2>5 DEF cl
<1> QED
  BY <1>1, KeysOK, PTL

=============================================================================
