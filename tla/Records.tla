------------------------------ MODULE Records -------------------------------
(***************************************************************************)
(* The records that LevelDB writes to its files, as bytes: the edits of    *)
(* the manifest (version_edit.cc) and the batches of the write-ahead log   *)
(* (write_batch.cc), both made of the varints and length-prefixed slices   *)
(* of coding.cc.  An edit or a batch is encoded, its bytes may lose their  *)
(* end or have one byte altered, and are decoded.                          *)
(*                                                                         *)
(* A byte holds a continuation bit and a value of Group bits; the          *)
(* header of a batch, 12 bytes in the code, is one byte for the sequence   *)
(* number and one for the count.  Keys and values are strings of bytes.    *)
(***************************************************************************)
EXTENDS Integers, Sequences, FiniteSets, FiniteSetsExt, SequencesExt

CONSTANTS
    Group,               \* value bits of a byte of a varint (7)
    Bits32, Bits64,      \* bits of uint32_t and uint64_t
    NumLevels,
    Edits,               \* the edits that are logged
    Keys, Values,        \* the strings that are put
    MaxOps,              \* bound: operations in the batches together
    AlteredBytes         \* what an altered byte becomes

Radix == 2^Group
Bytes == 0..(2 * Radix - 1)

VARIABLES
    phase,   \* "building", "edit" or "batch": encoded; "decoded"
    edit,    \* the edit that was encoded
    ops,     \* the operations put into the two batches, in order
    batch,   \* the two batches: [sequence, count, data]
    harm,    \* "none", "cut", "altered"
    wire,    \* the bytes
    result   \* [kind, ok, val]: the decoded edit, or the entries inserted

vars == <<phase, edit, ops, batch, harm, wire, result>>

-----------------------------------------------------------------------------
(* coding.cc.  Readers return whether they succeeded, the rest of the      *)
(* input and the value.                                                    *)

Fail == [ok |-> FALSE, rest |-> <<>>, val |-> 0]
Got(rest, val) == [ok |-> TRUE, rest |-> rest, val |-> val]
Drop(s, n) == SubSeq(s, n + 1, Len(s))

(* The most bytes that a varint of w bits takes: 5 of 32, 10 of 64.        *)
GroupsOf(w) == (w + Group - 1) \div Group

VarintLength(v) == CHOOSE n \in 1..GroupsOf(Bits64) : v < Radix^n /\ (n = 1 \/ v >= Radix^(n - 1))

PutVarint(v) ==
    LET n == VarintLength(v)
    IN  [i \in 1..n |-> ((v \div Radix^(i - 1)) % Radix) + (IF i < n THEN Radix ELSE 0)]

PutLengthPrefixedSlice(s) == PutVarint(Len(s)) \o s

(* A varint that does not end within the bytes its width takes is refused, *)
(* bits past the width are shifted out.                                    *)
GetVarint(s, w) ==
    LET ends == {i \in DOMAIN s : s[i] < Radix}
        n == Min(ends)
    IN  IF ends = {} \/ n > GroupsOf(w) THEN Fail
        ELSE Got(Drop(s, n), FoldLeft(LAMBDA a, i : a + (s[i] % Radix) * Radix^(i - 1),
                                      0, [i \in 1..n |-> i]) % 2^w)

GetVarint32(s) == GetVarint(s, Bits32)
GetVarint64(s) == GetVarint(s, Bits64)

(* Seeded defect: a slice longer than the input ends with it.            *)
GetLengthPrefixedSliceShort(s) ==
    LET len == GetVarint32(s)
        n == Min({len.val, Len(len.rest)})
    IN  IF len.ok THEN Got(Drop(len.rest, n), SubSeq(len.rest, 1, n)) ELSE Fail

Slice(len) ==
    IF len.ok /\ Len(len.rest) >= len.val
    THEN Got(Drop(len.rest, len.val), SubSeq(len.rest, 1, len.val))
    ELSE Fail

GetLengthPrefixedSlice(s) == Slice(GetVarint32(s))

(* Seeded defect: every level is taken.                                  *)
GetLevelAny(s) == GetVarint32(s)

Level(v) == IF v.ok /\ v.val < NumLevels THEN v ELSE Fail

GetLevel(s) == Level(GetVarint32(s))

(* The values that the readers in gets take one after the other.           *)
Joined(r, next) ==
    IF r.ok /\ next.ok THEN Got(next.rest, Append(r.val, next.val)) ELSE Fail

ReadNext(r, get) ==
    Joined(r, CASE get = "level" -> GetLevel(r.rest)
                [] get = "number" -> GetVarint64(r.rest)
                [] get = "slice" -> GetLengthPrefixedSlice(r.rest))

ReadAll(s, gets) == FoldLeft(ReadNext, Got(s, <<>>), gets)

-----------------------------------------------------------------------------
(* version_edit.cc.  A field that may be absent is a sequence of at most   *)
(* one value.                                                              *)

kComparator == 1
kLogNumber == 2
kNextFileNumber == 3
kLastSequence == 4
kCompactPointer == 5
kDeletedFile == 6
kNewFile == 7
kPrevLogNumber == 9

NoEdit ==
    [comparator |-> <<>>, log_number |-> <<>>, prev_log_number |-> <<>>,
     next_file_number |-> <<>>, last_sequence |-> <<>>,
     compact_pointers |-> <<>>, deleted_files |-> {}, new_files |-> <<>>]

Each(tag, entries, Encoded(_)) ==
    FlattenSeq([i \in DOMAIN entries |-> PutVarint(tag) \o Encoded(entries[i])])

(* The deleted files come in the order of their set.                       *)
EncodeTo(e) ==
    LET Pointer(p) == PutVarint(p[1]) \o PutLengthPrefixedSlice(p[2])
        Deleted(d) == PutVarint(d[1]) \o PutVarint(d[2])
        New(f) == PutVarint(f[1]) \o PutVarint(f[2]) \o PutVarint(f[3])
                  \o PutLengthPrefixedSlice(f[4]) \o PutLengthPrefixedSlice(f[5])
        Before(d, c) == d[1] < c[1] \/ (d[1] = c[1] /\ d[2] < c[2])
    IN  Each(kComparator, e.comparator, PutLengthPrefixedSlice)
        \o Each(kLogNumber, e.log_number, PutVarint)
        \o Each(kPrevLogNumber, e.prev_log_number, PutVarint)
        \o Each(kNextFileNumber, e.next_file_number, PutVarint)
        \o Each(kLastSequence, e.last_sequence, PutVarint)
        \o Each(kCompactPointer, e.compact_pointers, Pointer)
        \o Each(kDeletedFile, SetToSortSeq(e.deleted_files, Before), Deleted)
        \o Each(kNewFile, e.new_files, New)

(* What follows each tag.                                                  *)
Parts(tag) == CASE tag = kComparator -> <<"slice">>
                [] tag \in {kLogNumber, kPrevLogNumber, kNextFileNumber, kLastSequence} ->
                      <<"number">>
                [] tag = kCompactPointer -> <<"level", "slice">>
                [] tag = kDeletedFile -> <<"level", "number">>
                [] tag = kNewFile -> <<"level", "number", "number", "slice", "slice">>

Tags == 1..9 \ {8}

WithField(e, tag, v) ==
    CASE tag = kComparator -> [e EXCEPT !.comparator = v]
      [] tag = kLogNumber -> [e EXCEPT !.log_number = v]
      [] tag = kPrevLogNumber -> [e EXCEPT !.prev_log_number = v]
      [] tag = kNextFileNumber -> [e EXCEPT !.next_file_number = v]
      [] tag = kLastSequence -> [e EXCEPT !.last_sequence = v]
      [] tag = kCompactPointer -> [e EXCEPT !.compact_pointers = Append(@, v)]
      [] tag = kDeletedFile -> [e EXCEPT !.deleted_files = @ \cup {v}]
      [] tag = kNewFile -> [e EXCEPT !.new_files = Append(@, v)]

(* One tagged entry after the other; bytes after which no tag can be read  *)
(* are an error of their own.                                              *)
RECURSIVE DecodeEdit(_, _)
AfterField(e, tag, read) ==
    IF read.ok THEN DecodeEdit(read.rest, WithField(e, tag, read.val)) ELSE Fail

AfterTag(e, tag) ==
    IF ~tag.ok \/ tag.val \notin Tags THEN Fail
    ELSE AfterField(e, tag.val, ReadAll(tag.rest, Parts(tag.val)))

DecodeEdit(s, e) == IF s = <<>> THEN Got(s, e) ELSE AfterTag(e, GetVarint32(s))

DecodeFrom(s) == DecodeEdit(s, NoEdit)

-----------------------------------------------------------------------------
(* write_batch.cc.                                                         *)

kTypeDeletion == 0
kTypeValue == 1

Contents(b) == <<b.sequence, b.count>> \o b.data
kHeader == 2

Entry(op) ==
    IF op.type = kTypeValue
    THEN <<kTypeValue>> \o PutLengthPrefixedSlice(op.key) \o PutLengthPrefixedSlice(op.value)
    ELSE <<kTypeDeletion>> \o PutLengthPrefixedSlice(op.key)

Added(b, op) == [b EXCEPT !.count = @ + 1, !.data = @ \o Entry(op)]

(* Seeded defect: the count of the second batch is not added.            *)
AppendedUncounted(dst, b) == [dst EXCEPT !.data = @ \o b.data]

Appended(dst, b) == [dst EXCEPT !.count = @ + b.count, !.data = @ \o b.data]

(* The entries of the data, each inserted as it is read with the next      *)
(* sequence number: those before an error are in the memtable.             *)
RECURSIVE Iterate(_, _, _)
AfterEntry(type, read, sequence, inserted) ==
    LET op == [type |-> type, key |-> read.val[1],
               value |-> IF type = kTypeValue THEN read.val[2] ELSE <<>>]
    IN  IF type \notin {kTypeValue, kTypeDeletion} \/ ~read.ok
        THEN [ok |-> FALSE, val |-> inserted]
        ELSE Iterate(read.rest, sequence + 1, Append(inserted, <<sequence, op>>))

Iterate(s, sequence, inserted) ==
    IF s = <<>> THEN [ok |-> TRUE, val |-> inserted]
    ELSE AfterEntry(s[1], ReadAll(Tail(s), IF s[1] = kTypeValue THEN <<"slice", "slice">>
                                           ELSE <<"slice">>),
                    sequence, inserted)

Counted(r, count) == [r EXCEPT !.ok = @ /\ Len(r.val) = count]

InsertInto(s) ==
    IF Len(s) < kHeader THEN [ok |-> FALSE, val |-> <<>>]
    ELSE Counted(Iterate(Drop(s, kHeader), s[1], <<>>), s[2])

-----------------------------------------------------------------------------
EmptyBatch == [sequence |-> 0, count |-> 0, data |-> <<>>]

Init ==
    /\ phase = "building"
    /\ edit = NoEdit
    /\ ops = <<<<>>, <<>>>>
    /\ batch = <<EmptyBatch, EmptyBatch>>
    /\ harm = "none"
    /\ wire = <<>>
    /\ result = [kind |-> "none", ok |-> FALSE, val |-> <<>>]

LogEdit(e) ==
    /\ phase = "building" /\ ops = <<<<>>, <<>>>>
    /\ phase' = "edit"
    /\ edit' = e
    /\ wire' = EncodeTo(e)
    /\ UNCHANGED <<ops, batch, harm, result>>

AddOp(b, op) ==
    /\ phase = "building"
    /\ Len(ops[1]) + Len(ops[2]) < MaxOps
    /\ batch' = [batch EXCEPT ![b] = Added(@, op)]
    /\ ops' = [ops EXCEPT ![b] = Append(@, op)]
    /\ UNCHANGED <<phase, edit, harm, wire, result>>

Put(b, k, v) == AddOp(b, [type |-> kTypeValue, key |-> k, value |-> v])
Delete(b, k) == AddOp(b, [type |-> kTypeDeletion, key |-> k, value |-> <<>>])

(* BuildBatchGroup: the second batch joins the first, which is logged.     *)
LogGroup(sequence) ==
    /\ phase = "building"
    /\ phase' = "batch"
    /\ LET group == [Appended(batch[1], batch[2]) EXCEPT !.sequence = sequence]
       IN  /\ batch' = [batch EXCEPT ![1] = group]
           /\ wire' = Contents(group)
    /\ UNCHANGED <<edit, ops, harm, result>>

Harm(kind, bytes) ==
    /\ phase \in {"edit", "batch"} /\ harm = "none"
    /\ harm' = kind
    /\ wire' = bytes
    /\ UNCHANGED <<phase, edit, ops, batch, result>>

Cut(n) == n < Len(wire) /\ Harm("cut", SubSeq(wire, 1, n))

Alter(i, b) == i <= Len(wire) /\ b # wire[i] /\ Harm("altered", [wire EXCEPT ![i] = b])

ReadEdit ==
    /\ phase = "edit"
    /\ phase' = "decoded"
    /\ \E r \in {DecodeFrom(wire)} :
           result' = [kind |-> "edit", ok |-> r.ok, val |-> IF r.ok THEN r.val ELSE <<>>]
    /\ UNCHANGED <<edit, ops, batch, harm, wire>>

ReadBatch ==
    /\ phase = "batch"
    /\ phase' = "decoded"
    /\ \E r \in {InsertInto(wire)} : result' = [kind |-> "batch", ok |-> r.ok, val |-> r.val]
    /\ UNCHANGED <<edit, ops, batch, harm, wire>>

(* Bound: no record of the instance is longer.                             *)
Longest == 40

Next ==
    \/ \E e \in Edits : LogEdit(e)
    \/ \E b \in 1..2, k \in Keys : Delete(b, k) \/ \E v \in Values : Put(b, k, v)
    \/ \E sequence \in {0, Radix - 1} : LogGroup(sequence)
    \/ \E n \in 0..Longest : Cut(n)
    \/ \E i \in 1..Longest, b \in AlteredBytes : Alter(i, b)
    \/ ReadEdit
    \/ ReadBatch

Spec == Init /\ [][Next]_vars

-----------------------------------------------------------------------------
TypeOK ==
    /\ phase \in {"building", "edit", "batch", "decoded"}
    /\ edit \in Edits \cup {NoEdit}
    /\ \A b \in 1..2 : batch[b].count \in Nat /\ batch[b].data \in Seq(Bytes)
    /\ harm \in {"none", "cut", "altered"}
    /\ wire \in Seq(Bytes)
    /\ Len(wire) <= Longest
    /\ result.ok \in BOOLEAN

(* An edit is read back as it was logged, whatever fields it has and in    *)
(* whatever order they came; one that lost its end is refused or is the    *)
(* edit of what is left: no field is made up of half of another.           *)
EditReadsBack ==
    result.kind = "edit" =>
        /\ harm = "none" => result.ok /\ result.val = edit
        /\ harm = "cut" /\ result.ok => EncodeTo(result.val) = wire

(* Whatever the bytes are, an edit that is accepted names levels that      *)
(* exist: Apply and Builder use them as indexes without a check.           *)
LevelsInRange ==
    result.kind = "edit" /\ result.ok =>
        LET InRange(entries) == \A entry \in entries : entry[1] < NumLevels
        IN  /\ InRange(ToSet(result.val.compact_pointers))
            /\ InRange(result.val.deleted_files)
            /\ InRange(ToSet(result.val.new_files))

(* The operations of a group, in the order they were made and the batches  *)
(* joined, get consecutive sequence numbers from the group's on; of a      *)
(* batch that is cut an error is reported, and what the memtable has got   *)
(* by then is the front of it.                                             *)
BatchIsWhole ==
    result.kind = "batch" =>
        LET all == ops[1] \o ops[2]
            expected == [i \in DOMAIN all |-> <<batch[1].sequence + i - 1, all[i]>>]
        IN  /\ harm = "none" => result.ok /\ result.val = expected
            /\ harm = "cut" => ~result.ok /\ IsPrefix(result.val, expected)
=============================================================================
