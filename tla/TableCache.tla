----------------------------- MODULE TableCache -----------------------------
(***************************************************************************)
(* The cache of open tables (and, with other charges, of blocks): threads  *)
(* look a key up, open what is missing without the lock, insert it, use    *)
(* it and release it, while others evict keys and prune the cache.         *)
(*                                                                         *)
(* Every method of LRUCache holds its mutex from start to end and is one   *)
(* step.  A handle is a piece of memory; a free one may be used again.     *)
(* The chains of HandleTable are left out: a key has one handle or none.   *)
(***************************************************************************)
EXTENDS Integers, Sequences, FiniteSets, FiniteSetsExt, SequencesExt

CONSTANTS
    Threads, Keys,
    Handles,      \* enough of them: one per thread and key, and one more
    Charge,       \* Keys -> Nat \ {0}
    Capacity      \* capacity_ of the shard

TableCacheAssumption ==
    /\ 0 \notin Handles /\ Handles \subseteq Nat /\ Capacity \in Nat
    /\ Charge \in [Keys -> Nat \ {0}]

Free == [refs |-> 0]

VARIABLES
    cache,        \* [handle, lru, in_use, table, usage]
    pc,           \* of each thread: "idle", "opening" or "using"
    key, held     \* the key it works on, the handle it has (0: none)

vars == <<cache, pc, key, held>>
thread == <<pc, key, held>>

Init ==
    /\ cache = [handle |-> [h \in Handles |-> Free], lru |-> <<>>, in_use |-> {},
                table |-> [k \in Keys |-> 0], usage |-> 0]
    /\ pc = [t \in Threads |-> "idle"]
    /\ key \in [Threads -> Keys]
    /\ held = [t \in Threads |-> 0]

-----------------------------------------------------------------------------
(* Seeded defect: a lookup takes the entry off the lru list only.          *)
RefUncounted(s, h) == [s EXCEPT !.lru = SelectSeq(@, LAMBDA g : g # h), !.in_use = @ \cup {h}]

Ref(s, h) ==
    LET e == s.handle[h]
        onLru == e.refs = 1 /\ e.in_cache
    IN  [s EXCEPT !.handle[h].refs = @ + 1,
                  !.lru = IF onLru THEN SelectSeq(@, LAMBDA g : g # h) ELSE @,
                  !.in_use = IF onLru THEN @ \cup {h} ELSE @]

(* The last reference gone, the entry is deleted and freed; the last but   *)
(* the cache's, it is the newest of the lru list.                          *)
Unref(s, h) ==
    LET e == s.handle[h]
    IN  IF e.refs = 1 THEN [s EXCEPT !.handle[h] = Free]
        ELSE [s EXCEPT !.handle[h].refs = @ - 1,
                       !.in_use = IF e.in_cache /\ e.refs = 2 THEN @ \ {h} ELSE @,
                       !.lru = IF e.in_cache /\ e.refs = 2 THEN Append(@, h) ELSE @]

(* Seeded defect: the charge of an erased entry is not given back.         *)
FinishEraseKeepsCharge(s, h) ==
    IF h = 0 THEN s
    ELSE Unref([s EXCEPT !.lru = SelectSeq(@, LAMBDA g : g # h), !.in_use = @ \ {h},
                         !.handle[h].in_cache = FALSE], h)

(* The entry is out of the table already.                                  *)
FinishErase(s, h) ==
    IF h = 0 THEN s
    ELSE Unref([s EXCEPT !.lru = SelectSeq(@, LAMBDA g : g # h), !.in_use = @ \ {h},
                         !.handle[h].in_cache = FALSE,
                         !.usage = @ - Charge[s.handle[h].key]], h)

Erased(s, k) == FinishErase([s EXCEPT !.table[k] = 0], s.table[k])

(* Oldest first, as long as too much is cached and something is unused.    *)
Evicted(s, capacity) ==
    FoldLeft(LAMBDA t, i : IF t.usage > capacity /\ t.lru # <<>>
                           THEN Erased(t, t.handle[Head(t.lru)].key) ELSE t,
             s, [i \in 1..Cardinality(Handles) |-> i])

Unused(s) == Min({h \in Handles : s.handle[h] = Free})

(* Insert: the entry takes the place of one with the same key.             *)
Inserted(s, k) ==
    LET h == Unused(s)
        new(in, refs) == [s EXCEPT !.handle[h] = [key |-> k, refs |-> refs, in_cache |-> in]]
        put == [new(TRUE, 2) EXCEPT !.in_use = @ \cup {h}, !.table[k] = h, !.usage = @ + Charge[k]]
    IN  Evicted(IF Capacity > 0 THEN FinishErase(put, s.table[k]) ELSE new(FALSE, 1), Capacity)

-----------------------------------------------------------------------------
(* FindTable: the handle of the key, or the table has to be opened.        *)
Lookup(t, k) ==
    /\ pc[t] = "idle"
    /\ key' = [key EXCEPT ![t] = k]
    /\ IF cache.table[k] # 0
       THEN /\ cache' = Ref(cache, cache.table[k])
            /\ held' = [held EXCEPT ![t] = cache.table[k]]
            /\ pc' = [pc EXCEPT ![t] = "using"]
       ELSE pc' = [pc EXCEPT ![t] = "opening"] /\ UNCHANGED <<cache, held>>

Insert(t) ==
    /\ pc[t] = "opening"
    /\ cache' = Inserted(cache, key[t])
    /\ held' = [held EXCEPT ![t] = Unused(cache)]
    /\ pc' = [pc EXCEPT ![t] = "using"]
    /\ UNCHANGED key

(* The table cannot be opened: errors are not cached.                      *)
OpenFails(t) ==
    /\ pc[t] = "opening"
    /\ pc' = [pc EXCEPT ![t] = "idle"]
    /\ UNCHANGED <<cache, key, held>>

(* After a Get, or when the iterator is destroyed (UnrefEntry).            *)
Release(t) ==
    /\ pc[t] = "using"
    /\ cache' = Unref(cache, held[t])
    /\ held' = [held EXCEPT ![t] = 0]
    /\ pc' = [pc EXCEPT ![t] = "idle"]
    /\ UNCHANGED key

Evict(k) == cache' = Erased(cache, k) /\ UNCHANGED thread

Prune == cache' = Evicted(cache, 0) /\ UNCHANGED thread

Next ==
    \/ \E t \in Threads : \E k \in Keys : Lookup(t, k)
    \/ \E t \in Threads : Insert(t) \/ OpenFails(t) \/ Release(t)
    \/ \E k \in Keys : Evict(k)
    \/ Prune

Spec == Init /\ [][Next]_vars

-----------------------------------------------------------------------------
TypeOK ==
    /\ \A h \in Handles : cache.handle[h].refs \in 0..(Cardinality(Threads) + 1)
    /\ pc \in [Threads -> {"idle", "opening", "using"}] /\ cache.usage \in Nat

(* A thread's handle is neither freed nor used for another key, although   *)
(* the key may have been evicted or inserted anew meanwhile.               *)
HeldIsAlive ==
    \A t \in Threads : pc[t] = "using" =>
        cache.handle[held[t]] # Free /\ cache.handle[held[t]].key = key[t]

(* Nothing is lost or counted twice: an entry has one reference per thread *)
(* that holds it and one for the cache, is on the list that says so, and   *)
(* is freed when the last one is gone; usage is what is in the cache.      *)
AccountsBalance ==
    /\ \A h \in Handles : cache.handle[h] # Free =>
          LET e == cache.handle[h]
              users == Cardinality({t \in Threads : held[t] = h})
          IN  /\ e.refs = users + IF e.in_cache THEN 1 ELSE 0
              /\ e.in_cache <=> cache.table[e.key] = h
              /\ h \in Range(cache.lru) <=> e.in_cache /\ users = 0
              /\ h \in cache.in_use <=> e.in_cache /\ users > 0
    /\ cache.usage = MapThenSumSet(LAMBDA k : IF cache.table[k] = 0 THEN 0 ELSE Charge[k], Keys)
=============================================================================
