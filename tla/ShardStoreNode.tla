--------------------------- MODULE ShardStoreNode ---------------------------
(***************************************************************************)
(* dslabs.shardkv.ShardStoreNode.keyToShard, in the int arithmetic of      *)
(* Java.  A key is the hash code of its string and the digits it ends in;  *)
(* the keys on which keyToShard is compared with its comment grow by a     *)
(* digit at each step, past the numbers that fit an int.                   *)
(*                                                                         *)
(* Definitions introduced by "Slip:" stand for plausible mistakes in the   *)
(* code (see ViewServerCore).                                              *)
(***************************************************************************)
EXTENDS Integers, Sequences

CONSTANTS
  HashCodes,  \* the results of String.hashCode
  Digits,     \* the digits a key grows by
  MaxDigits,  \* bound: the digits of a key
  MaxShards   \* bound: numShards

ASSUME KeysAssumption == HashCodes \subseteq Int /\ Digits \subseteq 0..9
ASSUME BoundsAssumption == MaxDigits \in Nat /\ MaxShards \in Nat

Word == 65536  \* 2^16
HalfWord == 32768

\* The int h * 10 + d, wrapped to 32 bits: computed in two halves, so that no
\* intermediate result is longer than an int.
TimesTenPlus(h, d) ==
  LET low == (h % Word) * 10 + d
      high == (h \div Word) * 10 + (low \div Word)
  IN  (((high + HalfWord) % Word) - HalfWord) * Word + (low % Word)

\* Java's remainder: it has the sign of a.
Rem(a, n) == IF a < 0 /\ a % n # 0 THEN (a % n) - n ELSE a % n

\* Slip: the digits are left in the order in which they are collected.
TrailingBackwards(key) ==
  [i \in DOMAIN key.digits |-> key.digits[Len(key.digits) + 1 - i]]

Trailing(key) == key.digits

\* What the loop over cl has computed after each character.
Parsed(cl) ==
  LET upTo[n \in 0..Len(cl)] ==
        IF n = 0 THEN 0 ELSE TimesTenPlus(upTo[n - 1], cl[n])
  IN  upTo

Hash(key) ==
  LET cl == Trailing(key)
  IN  IF cl = <<>> THEN key.hashCode ELSE Parsed(cl)[Len(cl)]

\* Slip: a remainder of zero is left alone.
ShardOfNegative(hash, numShards) ==
  LET mod == Rem(hash, numShards)
  IN  IF mod < 0 THEN mod + numShards ELSE mod

ShardOf(hash, numShards) ==
  LET mod == Rem(hash, numShards)
  IN  IF mod <= 0 THEN mod + numShards ELSE mod

keyToShard(key, numShards) == ShardOf(Hash(key), numShards)

-----------------------------------------------------------------------------

VARIABLE key

KeyInit == key \in [hashCode : HashCodes, digits : {<<>>}]

Grow(d) ==
  /\ Len(key.digits) < MaxDigits
  /\ key' = [hashCode |-> 0, digits |-> Append(key.digits, d)]

KeyNext == \E d \in Digits : Grow(d)

KeySpec == KeyInit /\ [][KeyNext]_key

Shards == 1..MaxShards

\* The numbers that the beginnings of ds write, modulo n, computed without a
\* long number.
Residues(ds, n) ==
  LET upTo[i \in 0..Len(ds)] ==
        IF i = 0 THEN 0 ELSE (upTo[i - 1] * 10 + ds[i]) % n
  IN  upTo

NumberMod(ds, n) == Residues(ds, n)[Len(ds)]

\* Comment of keyToShard: the shard is "in 1..numShards inclusive", whatever
\* the sign of the remainder, for the smallest int too and for a number that is
\* too long for an int.
ShardInRange == \A n \in Shards : keyToShard(key, n) \in 1..n

\* Comment of keyToShard: the shard of a key that ends in a number is that
\* number modulo numShards (with numShards for zero).  So it is for nine
\* digits; longer numbers do not all fit an int.
ShardByNumber ==
  \A n \in Shards :
    Len(key.digits) \in 1..9 =>
      keyToShard(key, n) % n = NumberMod(key.digits, n)

=============================================================================
