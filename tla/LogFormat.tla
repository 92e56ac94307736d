----------------------------- MODULE LogFormat ------------------------------
(***************************************************************************)
(* The format of logs and manifests: records cut into fragments that never *)
(* cross a block, and a reader that has to cope with a file that ends      *)
(* anywhere and with what failed appends have left in the middle.          *)
(*                                                                         *)
(* A file is a sequence of bytes; a byte knows the fragment it belongs to  *)
(* and its place in it.  The checksum is taken to be right for exactly the *)
(* bytes of one fragment in their order.                                   *)
(***************************************************************************)
EXTENDS Integers, Sequences, FiniteSets, FiniteSetsExt, SequencesExt

CONSTANTS
    BlockSize, HeaderSize,   \* kBlockSize, kHeaderSize
    Lengths,                 \* sizes of records
    MaxRecords               \* bound

LogFormatAssumption ==
    /\ HeaderSize \in Nat \ {0} /\ BlockSize \in Nat /\ BlockSize > HeaderSize
    /\ Lengths \subseteq Nat /\ MaxRecords \in Nat

VARIABLES
    file,
    block_offset,   \* where in a block the writer believes to be
    records,        \* what was added: [length, start, stop, whole]
    damage          \* first byte that is not part of a whole record, or 0

vars == <<file, block_offset, records, damage>>

TypeOK ==
    /\ block_offset \in 0..BlockSize
    /\ Len(records) <= MaxRecords
    /\ damage \in 0..(Len(file) + 1)

Init == file = <<>> /\ block_offset = 0 /\ records = <<>> /\ damage = 0

Zero == [rec |-> 0, part |-> 0, at |-> 1, length |-> 0, type |-> "zero"]

(* EmitPhysicalRecord: header and payload of one fragment.                 *)
Fragment(rec, part, length, type) ==
    [i \in 1..(HeaderSize + length) |->
        [rec |-> rec, part |-> part, at |-> i, length |-> length, type |-> type]]

(* Seeded defect: a fragment that begins where a block has no room for its *)
(* header is not moved to the next block.                                  *)
TrailerNever(offset) == 0

(* A block's end that cannot hold a header is filled with zeros.           *)
Trailer(offset) == IF BlockSize - offset < HeaderSize THEN BlockSize - offset ELSE 0

(***************************************************************************)
(* AddRecord: its bytes, fragment by fragment, and the offset after it.    *)
(***************************************************************************)
AddRecord(rec, length, offset) ==
    LET emit[left \in 0..length, o \in 0..BlockSize, part \in 1..(length + 2)] ==
            LET fill == Trailer(o)
                from == IF fill > 0 \/ o = BlockSize THEN 0 ELSE o
                avail == IF BlockSize - from > HeaderSize THEN BlockSize - from - HeaderSize ELSE 0
                size == IF left < avail THEN left ELSE avail
                end == left = size
                type == CASE part = 1 /\ end -> "full"
                          [] part = 1 /\ ~end -> "first"
                          [] part > 1 /\ end -> "last"
                          [] OTHER -> "middle"
                here == [i \in 1..fill |-> Zero] \o Fragment(rec, part, size, type)
                after == IF from + HeaderSize + size > BlockSize THEN BlockSize
                         ELSE from + HeaderSize + size
            IN  IF end THEN [bytes |-> here, offset |-> after]
                ELSE LET rest == emit[left - size, after, part + 1]
                     IN  [bytes |-> here \o rest.bytes, offset |-> rest.offset]
    IN  emit[length, offset, 1]

Add(length) ==
    LET r == AddRecord(Len(records) + 1, length, block_offset)
    IN  /\ Len(records) < MaxRecords
        /\ file' = file \o r.bytes
        /\ block_offset' = r.offset
        /\ records' = Append(records, [start |-> Len(file) + 1, stop |-> Len(file) + Len(r.bytes),
                                       whole |-> TRUE])
        /\ UNCHANGED damage

(* A write of the file fails after n bytes, within or before a fragment:   *)
(* the writer gives the record up, but counts the whole fragment.          *)
AddFails(length, n) ==
    LET r == AddRecord(Len(records) + 1, length, block_offset)
        kept == SubSeq(r.bytes, 1, n)
        part == IF n = Len(r.bytes) THEN r.bytes[n].part ELSE r.bytes[n + 1].part
        counted == Max({i \in 1..Len(r.bytes) : r.bytes[i].part = part})
    IN  /\ Len(records) < MaxRecords /\ n < Len(r.bytes)
        /\ r.bytes[n + 1] # Zero
        /\ file' = file \o kept
        /\ block_offset' = (block_offset + counted) % BlockSize
        /\ records' = Append(records, [start |-> Len(file) + 1, stop |-> Len(file) + n,
                                       whole |-> FALSE])
        /\ damage' = IF damage = 0 THEN Len(file) + 1 ELSE damage

(* The write of a trailer fails after some of its bytes, which nobody      *)
(* notices: the record goes on as if the next block had begun.             *)
TrailerFails(length, n) ==
    LET r == AddRecord(Len(records) + 1, length, block_offset)
        next == Min({i \in (n + 1)..Len(r.bytes) : r.bytes[i] # Zero})
        written == SubSeq(r.bytes, 1, n) \o SubSeq(r.bytes, next, Len(r.bytes))
    IN  /\ Len(records) < MaxRecords /\ n < Len(r.bytes)
        /\ r.bytes[n + 1] = Zero
        /\ file' = file \o written
        /\ block_offset' = r.offset
        /\ records' = Append(records, [start |-> Len(file) + 1, stop |-> Len(file) + Len(written),
                                       whole |-> FALSE])
        /\ damage' = IF damage = 0 THEN Len(file) + 1 ELSE damage

(* The file is cut by a crash and then appended to (reuse_logs).           *)
Reopen(n) ==
    LET left == SelectSeq(records, LAMBDA r : r.stop <= n)
        torn == \E i \in 1..Len(records) : records[i].start <= n /\ n < records[i].stop
    IN  /\ records # <<>> /\ Len(records) < MaxRecords
        /\ file' = SubSeq(file, 1, n)
        /\ block_offset' = n % BlockSize
        /\ records' = [i \in 1..Len(records) |->
               IF records[i].stop <= n THEN records[i]
               ELSE [records[i] EXCEPT !.start = n + 1, !.stop = n, !.whole = FALSE]]
        /\ damage' = IF damage > 0 /\ damage <= n THEN damage
                     ELSE IF torn THEN Max({0} \cup {r.stop : r \in Range(left)}) + 1 ELSE 0

Next ==
    \/ \E length \in Lengths : Add(length)
    \/ \E length \in Lengths : \E n \in 0..(3 * BlockSize) :
          AddFails(length, n) \/ TrailerFails(length, n)
    \/ \E n \in 0..Len(file) : Reopen(n)

Spec == Init /\ [][Next]_vars

-----------------------------------------------------------------------------
(***************************************************************************)
(* The reader.  ReadPhysicalRecord takes the fragment at position p of a   *)
(* block that ends at e; what is not intact costs the rest of the block,   *)
(* and is reported unless it may be the end of a writer that died.         *)
(***************************************************************************)
(* Seeded defect: the checksum is not looked at.                           *)
IntactUnchecked(f, p, e) == p + HeaderSize + f[p].length - 1 <= e

Intact(f, p, e) ==
    LET stop == p + HeaderSize + f[p].length - 1
    IN  stop <= e /\ \A i \in p..stop : f[i] = [f[p] EXCEPT !.at = i - p + 1]

(* A header of zeros: skipped without a report.                            *)
Blank(f, p) == \A i \in p..(p + HeaderSize - 1) : f[i] = Zero

Tails(f) ==
    LET at[p \in 1..(Len(f) + BlockSize + 1)] ==
            LET e == Min({((p - 1) \div BlockSize + 1) * BlockSize, Len(f)})
                full == e % BlockSize = 0
                next == ((p - 1) \div BlockSize + 1) * BlockSize + 1
            IN  IF p > Len(f) THEN <<>>
                ELSE IF e - p + 1 < HeaderSize THEN (IF full THEN at[next] ELSE <<>>)
                ELSE IF Intact(f, p, e) THEN <<f[p]>> \o at[p + HeaderSize + f[p].length]
                ELSE IF ~full /\ p + HeaderSize + f[p].length - 1 > e THEN <<>>
                ELSE <<[Zero EXCEPT !.type = IF Blank(f, p) THEN "skipped" ELSE "bad"]>>
                         \o (IF full THEN at[next] ELSE <<>>)
    IN  at

(* ReadRecord over the fragments: whole records, and how many times it     *)
(* reports bytes as lost.                                                  *)
Read(f) ==
    LET start == [out |-> <<>>, scratch |-> <<>>, open |-> FALSE, reports |-> 0]
        count(P) == IF P THEN 1 ELSE 0
        partial(s) == count(s.open /\ \E g \in Range(s.scratch) : g.length > 0)
        step(s, g) ==
            CASE g.type = "full" ->
                     [out |-> Append(s.out, <<g>>), scratch |-> <<>>, open |-> FALSE,
                      reports |-> s.reports + partial(s)]
              [] g.type = "first" ->
                     [s EXCEPT !.scratch = <<g>>, !.open = TRUE,
                               !.reports = @ + partial(s)]
              [] g.type = "middle" ->
                     IF s.open THEN [s EXCEPT !.scratch = Append(@, g)]
                     ELSE [s EXCEPT !.reports = @ + 1]
              [] g.type = "last" ->
                     IF s.open THEN [s EXCEPT !.out = Append(@, Append(s.scratch, g)),
                                              !.scratch = <<>>, !.open = FALSE]
                     ELSE [s EXCEPT !.reports = @ + 1]
              [] OTHER -> [s EXCEPT !.scratch = <<>>, !.open = FALSE,
                                    !.reports = @ + count(g.type = "bad") + count(s.open)]
    IN  FoldLeft(step, start, Tails(f)[1])

(* The records that are whole in the first n bytes.                        *)
WholeIn(n, before) ==
    {i \in 1..Len(records) : records[i].whole /\ records[i].stop <= n /\ records[i].stop < before}

ReadIds(f) == {g[1].rec : g \in Range(Read(f).out)}

(* Wherever a crash cuts an undamaged file, the reader returns exactly the *)
(* records that are whole, and reports nothing.                            *)
CutFileReadsBack ==
    damage = 0 => \A n \in 0..Len(file) :
        LET f == SubSeq(file, 1, n)
        IN  ReadIds(f) = WholeIn(n, Len(file) + 1) /\ Read(f).reports = 0

(* No damage makes the reader return anything but whole records, each once *)
(* and in order, or miss one that ends before the damage.                  *)
NothingInvented ==
    LET out == Read(file).out
    IN  /\ \A g \in Range(out) :
              /\ \A k \in 1..Len(g) : g[k].rec = g[1].rec /\ g[k].part = k
              /\ g[Len(g)].type \in {"full", "last"}
        /\ \A i, j \in 1..Len(out) : i < j => out[i][1].rec < out[j][1].rec
        /\ damage > 0 => WholeIn(Len(file), damage) \subseteq ReadIds(file)
=============================================================================
