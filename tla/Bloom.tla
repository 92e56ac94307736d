------------------------------- MODULE Bloom --------------------------------
(***************************************************************************)
(* The Bloom filter a table may carry.  The hash of a key is any number of *)
(* HashBits bits; a filter may be asked by a policy with another number of *)
(* bits per key than the one it was built with.                            *)
(***************************************************************************)
EXTENDS Integers, Sequences, FiniteSets, SequencesExt

CONSTANTS
    Keys,
    HashBits, Rotation,   \* 32 and 17 in the code
    MinBits, ByteBits,    \* 64 and 8 in the code
    BitsPerKey            \* the policies there are

BloomAssumption ==
    /\ HashBits \in Nat /\ Rotation \in 0..HashBits
    /\ MinBits \in Nat /\ ByteBits \in Nat \ {0} /\ BitsPerKey \subseteq Nat

VARIABLES
    hash,     \* BloomHash of each key
    keys,     \* what the filter was built from
    filter,   \* [bits, set, k]
    policy    \* bits per key of the policy in use

vars == <<hash, keys, filter, policy>>

k_(bits_per_key) ==
    LET k == (bits_per_key * 69) \div 100
    IN  IF k < 1 THEN 1 ELSE IF k > 30 THEN 30 ELSE k

Delta(h) == (h \div 2^Rotation) + (h % 2^Rotation) * 2^(HashBits - Rotation)

Probe(h, j, bits) == ((h + j * Delta(h)) % 2^HashBits) % bits

(* Seeded defect: the size that is asked for, not the one there is.        *)
SizeNotRounded(n, bits_per_key) ==
    IF n * bits_per_key < MinBits THEN MinBits ELSE n * bits_per_key

Size(n, bits_per_key) ==
    LET bits == IF n * bits_per_key < MinBits THEN MinBits ELSE n * bits_per_key
    IN  ((bits + ByteBits - 1) \div ByteBits) * ByteBits

Bytes(bits) == (bits + ByteBits - 1) \div ByteBits

CreateFilter(ks, bits_per_key) ==
    LET bits == Size(Cardinality(ks), bits_per_key)
        k == k_(bits_per_key)
    IN  [bytes |-> Bytes(bits), k |-> k,
         set |-> {Probe(hash[key], j, bits) : key \in ks, j \in 0..(k - 1)}]

(* The number of probes is the filter's, its size that of its bytes.       *)
KeyMayMatch(key, f) ==
    \/ f.k > 30
    \/ \A j \in 0..(f.k - 1) : Probe(hash[key], j, f.bytes * ByteBits) \in f.set

Init ==
    /\ hash \in [Keys -> 0..(2^HashBits - 1)]
    /\ policy \in BitsPerKey
    /\ keys = {} /\ filter = CreateFilter({}, policy)

Build ==
    /\ keys' \in SUBSET Keys
    /\ filter' = CreateFilter(keys', policy)
    /\ UNCHANGED <<hash, policy>>

Reopen == policy' \in BitsPerKey /\ UNCHANGED <<hash, keys, filter>>

Next == Build \/ Reopen

Spec == Init /\ [][Next]_vars

-----------------------------------------------------------------------------
TypeOK == filter.set \subseteq 0..(filter.bytes * ByteBits - 1)

(* A filter never hides a key it was built from, whichever policy reads it *)
(* back.                                                                   *)
NoKeyIsHidden == \A key \in keys : KeyMayMatch(key, filter)
=============================================================================
