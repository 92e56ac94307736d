------------------------------ MODULE SSTable -------------------------------
(***************************************************************************)
(* A table file: how TableBuilder lays sorted entries out in blocks with   *)
(* prefix-compressed keys, restart points, an index of shortened keys and  *)
(* a filter per range of offsets, and how the iterators find them again.   *)
(*                                                                         *)
(* An internal key is a sequence of bytes whose last one stands for the    *)
(* eight of sequence number and type.  A place in a block is the number    *)
(* of an entry; sizes are kept, as they decide where blocks end and which  *)
(* filter a block belongs to.  A filter is the set of its user keys.       *)
(***************************************************************************)
EXTENDS Integers, Sequences, FiniteSets, FiniteSetsExt, SequencesExt

CONSTANTS
    UserKeys,             \* non-empty sequences of bytes 0..Top
    Top,                  \* 0xff
    MaxSequence,          \* kMaxSequenceNumber; entries have 1..MaxSequence - 1
    MaxEntries,           \* bound
    Layouts,              \* [block_size, filter_base] tried: blocks may be
                          \* smaller or larger than the range of a filter
    RestartInterval

SSTableAssumption ==
    /\ UserKeys \subseteq Seq(0..Top) /\ MaxSequence \in Nat /\ MaxEntries \in Nat
    /\ RestartInterval \in Nat \ {0}
    /\ Layouts \subseteq [block_size : Nat, filter_base : Nat \ {0}]

NoBlock == [entries |-> <<>>, restarts |-> <<1>>, counter |-> 0, last_key |-> <<>>, size |-> 8]

VARIABLES
    options,
    builder,      \* data_block
    last_key, pending,     \* TableBuilder::Rep; pending: [index, block] or none
    blocks,       \* finished data blocks: [entries, restarts, offset]
    index,        \* index_block
    filters, keys,         \* FilterBlockBuilder: filters made, keys since
    offset,
    closed,
    entries,      \* what was added, in order
    iter, at      \* an iterator and the entry it should be at; 0: not valid

layout == <<blocks, index, filters, keys, offset>>
vars == <<options, builder, last_key, pending, layout, closed, entries, iter, at>>

-----------------------------------------------------------------------------
(* Slice::compare: bytewise, a prefix comes first.                         *)
Before(a, b) ==
    \E i \in 1..Len(b) :
        /\ i <= Len(a) + 1
        /\ SubSeq(a, 1, i - 1) = SubSeq(b, 1, i - 1)
        /\ i <= Len(a) => a[i] < b[i]

ExtractUserKey(key) == Front(key)

(* InternalKeyComparator::Compare(a, b) < 0.                               *)
Less(a, b) ==
    \/ Before(ExtractUserKey(a), ExtractUserKey(b))
    \/ ExtractUserKey(a) = ExtractUserKey(b) /\ Last(a) > Last(b)

Shared(a, b) ==
    Max({n \in 0..Len(a) : n <= Len(b) /\ SubSeq(a, 1, n) = SubSeq(b, 1, n)})

Shortened(start, tmp) ==
    IF Len(tmp) < Len(ExtractUserKey(start)) /\ Before(ExtractUserKey(start), tmp)
    THEN Append(tmp, MaxSequence) ELSE start

(* Seeded defect: the separator is the next block's first key.             *)
FindShortestSeparatorIsLimit(start, limit) == limit

(* A short key from start on and before limit.                             *)
FindShortestSeparator(start, limit) ==
    LET us == ExtractUserKey(start)
        ul == ExtractUserKey(limit)
        d == Shared(us, ul) + 1
        tmp == IF d <= Len(us) /\ d <= Len(ul) /\ us[d] < Top /\ us[d] + 1 < ul[d]
               THEN Append(SubSeq(us, 1, d - 1), us[d] + 1) ELSE us
    IN  Shortened(start, tmp)

FindShortSuccessor(key) ==
    LET u == ExtractUserKey(key)
        small == {i \in 1..Len(u) : u[i] # Top}
        tmp == IF small = {} THEN u
               ELSE Append(SubSeq(u, 1, Min(small) - 1), u[Min(small)] + 1)
    IN  Shortened(key, tmp)

-----------------------------------------------------------------------------
(* BlockBuilder::Add: a key shares a prefix with the one before it, except *)
(* at a restart point.  size is CurrentSizeEstimate, of values of one byte.*)
BlockAdd(b, key, value, interval) ==
    LET restart == b.counter >= interval
        shared == IF restart THEN 0 ELSE Shared(b.last_key, key)
    IN  [entries |-> Append(b.entries, [shared |-> shared, delta |-> SubSeq(key, shared + 1, Len(key)),
                                        value |-> value]),
         restarts |-> IF restart THEN Append(b.restarts, Len(b.entries) + 1) ELSE b.restarts,
         counter |-> (IF restart THEN 0 ELSE b.counter) + 1,
         last_key |-> key,
         size |-> b.size + 4 + Len(key) - shared + IF restart THEN 4 ELSE 0]

(* Seeded defect: the filters a long block passes over are not made.       *)
StartBlockOne(fs, ks, o) ==
    IF o \div options.filter_base > Len(fs) THEN [made |-> Append(fs, ks), rest |-> {}]
    ELSE [made |-> fs, rest |-> ks]

(* FilterBlockBuilder::StartBlock: filters up to offset o's, the first of  *)
(* the keys collected, the others empty.                                   *)
StartBlock(fs, ks, o) ==
    LET n == o \div options.filter_base
    IN  [made |-> [i \in 1..Max({n, Len(fs)}) |->
                      IF i <= Len(fs) THEN fs[i] ELSE IF i = Len(fs) + 1 THEN ks ELSE {}],
         rest |-> IF n > Len(fs) THEN {} ELSE ks]

NotPositioned == [index |-> [current |-> 0], data |-> [current |-> 0], block |-> 0]

Init ==
    /\ options \in Layouts
    /\ builder = NoBlock /\ last_key = <<>> /\ pending = 0
    /\ blocks = <<>> /\ index = NoBlock /\ filters = <<>> /\ keys = {} /\ offset = 0
    /\ closed = FALSE /\ entries = <<>>
    /\ iter = NotPositioned /\ at = 0

(* Flush: the block is written with its trailer, the index entry waits for *)
(* the next key.                                                           *)
Flushed(b, ks) ==
    LET o == offset + b.size + 5
        f == StartBlock(filters, ks, o)
    IN  /\ blocks' = Append(blocks, [entries |-> b.entries, restarts |-> b.restarts,
                                     offset |-> offset])
        /\ offset' = o
        /\ filters' = f.made /\ keys' = f.rest
        /\ builder' = NoBlock

Add(key) ==
    LET b == BlockAdd(builder, key, Len(entries) + 1, RestartInterval)
        ks == keys \cup {ExtractUserKey(key)}
    IN  /\ ~closed /\ Len(entries) < MaxEntries
        /\ entries # <<>> => Less(Last(entries), key)
        /\ entries' = Append(entries, key)
        /\ index' = IF pending = 0 THEN index
                    ELSE BlockAdd(index, FindShortestSeparator(last_key, key), pending, 1)
        /\ last_key' = key
        /\ IF b.size >= options.block_size
           THEN Flushed(b, ks) /\ pending' = Len(blocks) + 1
           ELSE builder' = b /\ keys' = ks /\ pending' = 0 /\ UNCHANGED <<blocks, filters, offset>>
        /\ UNCHANGED <<options, closed, iter, at>>

(* The last block, then what is left of the filters and the index.         *)
Finish ==
    /\ ~closed /\ entries # <<>>
    /\ closed' = TRUE
    /\ LET open == builder.entries # <<>>
           o == offset + builder.size + 5
           f == IF open THEN StartBlock(filters, keys, o) ELSE [made |-> filters, rest |-> keys]
           last == IF open THEN Len(blocks) + 1 ELSE pending
       IN  /\ blocks' = IF open THEN Append(blocks, [entries |-> builder.entries,
                                            restarts |-> builder.restarts, offset |-> offset])
                        ELSE blocks
           /\ offset' = IF open THEN o ELSE offset
           /\ filters' = IF f.rest = {} THEN f.made ELSE Append(f.made, f.rest)
           /\ index' = BlockAdd(index, FindShortSuccessor(last_key), last, 1)
    /\ builder' = NoBlock /\ keys' = {} /\ pending' = 0
    /\ UNCHANGED <<options, last_key, entries, iter, at>>

-----------------------------------------------------------------------------
(***************************************************************************)
(* Block::Iter: current entry (one past the last: not valid), the restart  *)
(* point it belongs to, the key put together so far.                       *)
(***************************************************************************)
Size(b) == Len(b.entries)

Past(b) == [current |-> Size(b) + 1, restart |-> Len(b.restarts) + 1, key |-> <<>>]

SeekToRestartPoint(b, r) == [current |-> b.restarts[r] - 1, restart |-> r, key |-> <<>>]

ParseNextKey(b, it) ==
    LET c == it.current + 1
        e == b.entries[c]
    IN  IF c > Size(b) THEN Past(b)
        ELSE [current |-> c,
              restart |-> Max({it.restart} \cup {r \in 1..Len(b.restarts) :
                                  r > it.restart /\ b.restarts[r] < c}),
              key |-> SubSeq(it.key, 1, e.shared) \o e.delta]

(* From restart point r on, entry after entry, to entry c.                 *)
ParseTo(b, r, c) ==
    FoldLeft(LAMBDA it, i : ParseNextKey(b, it), SeekToRestartPoint(b, r),
             [i \in 1..(c - b.restarts[r] + 1) |-> i])

BlockValid(b, it) == it.current \in 1..Size(b)

BlockFirst(b) == ParseTo(b, 1, 1)
BlockLast(b) == ParseTo(b, Len(b.restarts), Size(b))

(* Seeded defect: stays in the restart block of the current entry.         *)
BlockPrevStays(b, it) ==
    LET r == it.restart
    IN  IF it.current = 1 THEN Past(b) ELSE ParseTo(b, r, Max({it.current - 1, b.restarts[r]}))

BlockPrev(b, it) ==
    LET before == {r \in 1..it.restart : b.restarts[r] < it.current}
    IN  IF before = {} THEN Past(b) ELSE ParseTo(b, Max(before), it.current - 1)

(* A binary search of the restart points for the last key before target,   *)
(* then entry after entry to the first key that is not.                    *)
BlockSeek(b, target) ==
    LET n == Len(b.restarts)
        search[left \in 1..n, right \in 0..n] ==
            LET mid == (left + right + 1) \div 2
            IN  IF left >= right THEN left
                ELSE IF Less(b.entries[b.restarts[mid]].delta, target) THEN search[mid, right]
                ELSE search[left, mid - 1]
        r == search[1, n]
        found == {c \in b.restarts[r]..Size(b) : ~Less(ParseTo(b, r, c).key, target)}
    IN  IF found = {} THEN Past(b) ELSE ParseTo(b, r, Min(found))

-----------------------------------------------------------------------------
(***************************************************************************)
(* TwoLevelIterator: an iterator of the index and one of the block it      *)
(* points to (block 0: none).                                              *)
(***************************************************************************)
InitDataBlock(s) ==
    IF ~BlockValid(index, s.index) THEN [s EXCEPT !.block = 0, !.data = [current |-> 0]]
    ELSE LET n == index.entries[s.index.current].value
         IN  IF s.block = n THEN s ELSE [s EXCEPT !.block = n, !.data = Past(blocks[n])]

Valid(s) == s.block # 0 /\ BlockValid(blocks[s.block], s.data)

Positioned(s, op(_)) == IF s.block = 0 THEN s ELSE [s EXCEPT !.data = op(blocks[s.block])]

SkipEmptyDataBlocks(s, move(_, _), op(_)) ==
    FoldLeft(LAMBDA t, i :
                 IF Valid(t) THEN t
                 ELSE IF ~BlockValid(index, t.index) THEN [t EXCEPT !.block = 0, !.data = [current |-> 0]]
                 ELSE Positioned(InitDataBlock([t EXCEPT !.index = move(index, @)]), op),
             s, [i \in 1..(Len(blocks) + 1) |-> i])

Forward(s) == SkipEmptyDataBlocks(s, ParseNextKey, BlockFirst)
Backward(s) == SkipEmptyDataBlocks(s, BlockPrev, BlockLast)

TableSeek(s, target) ==
    Forward(Positioned(InitDataBlock([s EXCEPT !.index = BlockSeek(index, target)]),
                       LAMBDA b : BlockSeek(b, target)))
TableFirst(s) == Forward(Positioned(InitDataBlock([s EXCEPT !.index = BlockFirst(index)]), BlockFirst))
TableLast(s) == Backward(Positioned(InitDataBlock([s EXCEPT !.index = BlockLast(index)]), BlockLast))
TableNext(s) == Forward([s EXCEPT !.data = ParseNextKey(blocks[s.block], @)])
TablePrev(s) == Backward([s EXCEPT !.data = BlockPrev(blocks[s.block], @)])

(* FilterBlockReader::KeyMayMatch, of the block at offset o.               *)
KeyMayMatch(o, key) ==
    LET i == o \div options.filter_base + 1
    IN  i <= Len(filters) => ExtractUserKey(key) \in filters[i]

(* Table::InternalGet: the entries it shows to its caller, at most one.    *)
InternalGet(key) ==
    LET i == BlockSeek(index, key)
        b == blocks[index.entries[i.current].value]
        it == BlockSeek(b, key)
    IN  IF ~BlockValid(index, i) \/ ~KeyMayMatch(b.offset, key) THEN {}
        ELSE IF BlockValid(b, it) THEN {it.key} ELSE {}

-----------------------------------------------------------------------------
Lookups == {Append(u, n) : u \in UserKeys, n \in 1..MaxSequence}
Internal == {k \in Lookups : Last(k) < MaxSequence}

Reach(target) == Min({i \in 1..Len(entries) : ~Less(entries[i], target)} \cup {Len(entries) + 1})

Moved(s, i) == iter' = s /\ at' = i % (Len(entries) + 1)
                /\ UNCHANGED <<options, builder, last_key, pending, layout, closed, entries>>

Seek(target) == closed /\ Moved(TableSeek(iter, target), Reach(target))
SeekToFirst == closed /\ Moved(TableFirst(iter), 1)
SeekToLast == closed /\ Moved(TableLast(iter), Len(entries))
Step == closed /\ at # 0 /\ Moved(TableNext(iter), at + 1)
StepBack == closed /\ at # 0 /\ Moved(TablePrev(iter), at - 1)

Next ==
    \/ \E key \in Internal : Add(key)
    \/ Finish \/ SeekToFirst \/ SeekToLast \/ Step \/ StepBack
    \/ \E key \in Lookups : Seek(key)

Spec == Init /\ [][Next]_vars

-----------------------------------------------------------------------------
TypeOK ==
    /\ closed \in BOOLEAN /\ at \in 0..Len(entries)
    /\ pending # 0 => builder.entries = <<>> /\ pending = Len(blocks)

(* Wherever it was before, in whichever direction it moves, an iterator is *)
(* at the entry it should be at, with the whole key put together again.    *)
IteratorAgrees ==
    closed /\ iter.index # [current |-> 0] =>
        /\ Valid(iter) <=> at # 0
        /\ at # 0 => /\ iter.data.key = entries[at]
                     /\ blocks[iter.block].entries[iter.data.current].value = at

(* A lookup meets the newest entry of its user key that is old enough:     *)
(* neither the shortened keys of the index nor the filters hide it.        *)
LookupFinds ==
    closed /\ iter = NotPositioned => \A k \in Lookups :
        LET i == Reach(k)
            hit == i <= Len(entries) /\ ExtractUserKey(entries[i]) = ExtractUserKey(k)
        IN  IF hit THEN InternalGet(k) = {entries[i]}
            ELSE \A e \in InternalGet(k) : ExtractUserKey(e) # ExtractUserKey(k)
=============================================================================
