------------------------------ MODULE MCEngine ------------------------------
(***************************************************************************)
(* The storage engine below the database: the lock on its directory, its   *)
(* caches, tables, iterators, memory, filters, checksums and logs, its     *)
(* repairs, and the encodings of what it stores.  Every behaviour is one   *)
(* of a single part.                                                       *)
(***************************************************************************)
EXTENDS FileLock

VARIABLES
    part,   \* which of them runs
    c_cache, c_pc, c_key, c_held, o_place, o_allowed, s_options, s_builder, s_last_key,
    s_pending, s_blocks, s_index, s_filters, s_keys, s_offset, s_closed, s_entries,
    s_iter, s_at, i_child, i_last_sequence, i_sequence, i_cursor, i_current,
    i_merge_direction, i_direction, i_valid, i_saved_key, i_saved_value, i_expected,
    k_next, k_max_height, k_writer, k_reader, a_alloc_ptr, a_alloc_bytes_remaining,
    a_blocks, a_memory_usage, a_pieces, f_hash, f_keys, f_filter, f_policy, h_crc,
    h_data, g_file, g_block_offset, g_records, g_damage, r_logs, r_tables, r_manifests,
    r_current, r_lost, r_repair, r_found, r_broken, r_mishaps, d_phase, d_edit, d_ops, d_batch,
    d_harm, d_wire, d_result, n_phase, n_msg, n_size, n_max, n_stream, n_harm, n_before,
    n_wire, n_dest, t_phase, t_src, t_text, t_harm, t_sizes, t_result

MCProcessOf == [t \in Threads |-> IF t < 3 THEN "p" ELSE "q"]

(* Keys, and blocks smaller and larger than the range of a filter.        *)
MCUserKeys == {<<0>>, <<0, 1>>, <<1, 2>>, <<2>>}
MCLayouts == {[block_size |-> 13, filter_base |-> 64], [block_size |-> 30, filter_base |-> 8]}

(* Chunks that end in and after the loops over strides, with one byte set. *)
MCChunks ==
    {[i \in 1..n |-> IF i = p THEN 3 ELSE 0] : n \in {3, 10, 17}, p \in {1, 8, 9}}

(* Directories with tables and logs that are whole or damaged.             *)
Good(S) == [seqs |-> S, whole |-> TRUE]
Bad(S) == [seqs |-> S, whole |-> FALSE]
FoundTables == {[n \in {2, 4} |-> IF n = 2 THEN a ELSE b] :
                   a \in {Good({1}), Bad({2}), Bad({})}, b \in {Good({4}), Bad({5})}}
MCDirectories ==
    {[logs |-> [n \in ls |-> IF n = 5 THEN Bad({6}) ELSE Good({3})], tables |-> t,
      manifests |-> {3}, current |-> 3] :
        ls \in SUBSET {1, 5}, t \in FoundTables}

(* Edits with numbers of up to three bytes, empty and other names, one or  *)
(* two entries of each kind.                                               *)
NoEdit ==
    [comparator |-> <<>>, log_number |-> <<>>, prev_log_number |-> <<>>,
     next_file_number |-> <<>>, last_sequence |-> <<>>,
     compact_pointers |-> <<>>, deleted_files |-> {}, new_files |-> <<>>]

EditNames == {<<>>, <<1, 6>>}
EditNumbers == {17, 300}

Singles(v, s) ==
    {[NoEdit EXCEPT !.comparator = <<s>>, !.log_number = <<v>>],
     [NoEdit EXCEPT !.prev_log_number = <<v>>, !.next_file_number = <<v>>],
     [NoEdit EXCEPT !.last_sequence = <<v>>, !.compact_pointers = <<<<1, s>>, <<0, s>>>>],
     [NoEdit EXCEPT !.deleted_files = {<<0, v>>, <<1, 0>>}],
     [NoEdit EXCEPT !.deleted_files = {<<1, v>>},
                    !.new_files = <<<<1, v, 2, s, <<7>>>>, <<0, 3, v, s, s>>>>]}

MCEdits == {NoEdit} \cup UNION {Singles(v, s) : v \in EditNumbers, s \in EditNames}

(* A message with a field of every kind and a nested message: structs     *)
(* with at most two fields set, and one with all of them.                  *)
Field(tag, ltype, htype, atype, bits, capacity, array, sub) ==
    [tag |-> tag, ltype |-> ltype, htype |-> htype, atype |-> atype, bits |-> bits,
     size |-> capacity, array |-> array, sub |-> sub]

MCInner == <<Field(1, "svarint", "required", "static", 6, 0, 0, <<>>),
             Field(2, "string", "optional", "static", 0, 2, 0, <<>>)>>

MCFields == <<Field(1, "varint", "optional", "static", 7, 0, 0, <<>>),
              Field(2, "uvarint", "repeated", "static", 6, 0, 2, <<>>),
              Field(3, "submessage", "optional", "static", 0, 0, 0, MCInner),
              Field(4, "varint", "oneof", "static", 14, 0, 0, <<>>),
              Field(5, "bytes", "oneof", "pointer", 0, 0, 0, <<>>),
              Field(6, "submessage", "repeated", "pointer", 0, 0, 0, MCInner),
              Field(7, "fixed32", "repeated", "pointer", 0, 0, 0, <<>>)>>

Set(v) == [has |-> TRUE, val |-> v]
Unset(v) == [has |-> FALSE, val |-> v]

InnerA == <<-32, Unset(<<>>)>>
InnerB == <<31, Set(<<1>>)>>

MCBlank == <<Unset(0), <<>>, Unset(<<0, Unset(<<>>)>>), Unset(0), Unset(<<>>), <<>>, <<>>>>
MCFull == <<Set(-64), <<0, 63>>, Set(InnerB), Set(-8192), Unset(<<>>), <<InnerA, InnerB>>,
            <<1023, 1>>>>

FieldValues == <<{Set(-64), Set(63)}, {<<0>>, <<63, 1>>}, {Set(InnerA), Set(InnerB)},
             {Set(-8192), Set(0)}, {Set(<<>>), Set(<<0, 9>>)},
             {<<InnerA>>, <<InnerB, InnerA>>}, {<<1023, 1>>}>>

MCMessages ==
    {MCBlank, MCFull} \cup
    UNION {{[MCBlank EXCEPT ![p[1]] = v, ![p[2]] = w] : v \in FieldValues[p[1]], w \in FieldValues[p[2]]} :
           p \in {q \in (1..7) \X (1..7) : q[1] <= q[2] /\ q # <<4, 5>>}}

(* Field 8 as a number, a string, four bytes of fixed size, and eight.     *)
MCUnknown == {<<16, 4, 31, 1>>, <<18, 4, 2, 31, 0>>, <<21, 4, 7, 7>>, <<17, 4, 1, 2, 3, 4>>}

(* All texts of up to four of three bytes.                                 *)
MCSources == UNION {[1..n -> {0, 1, 255}] : n \in 0..4}

C == INSTANCE TableCache WITH
    Threads <- {1, 2, 3}, Keys <- {1, 2}, Handles <- 1..6,
    Charge <- [k \in {1, 2} |-> k], Capacity <- 2, cache <- c_cache, pc <- c_pc,
    key <- c_key, held <- c_held

O == INSTANCE OpenFiles WITH
    Files <- 1..4, MaxMmaps <- 1, MaxOpenFiles <- 1, place <- o_place,
    allowed <- o_allowed

S == INSTANCE SSTable WITH
    UserKeys <- MCUserKeys, Top <- 2, MaxSequence <- 3, MaxEntries <- 5,
    Layouts <- MCLayouts, RestartInterval <- 2, options <- s_options,
    builder <- s_builder, last_key <- s_last_key, pending <- s_pending,
    blocks <- s_blocks, index <- s_index, filters <- s_filters, keys <- s_keys,
    offset <- s_offset, closed <- s_closed, entries <- s_entries, iter <- s_iter,
    at <- s_at

I == INSTANCE ReadPath WITH
    Keys <- {1, 2}, Tables <- {1}, StartSeq <- 3, MaxSeq <- 4, child <- i_child,
    last_sequence <- i_last_sequence, sequence <- i_sequence, cursor <- i_cursor,
    current <- i_current, merge_direction <- i_merge_direction,
    direction <- i_direction, valid <- i_valid, saved_key <- i_saved_key,
    saved_value <- i_saved_value, expected <- i_expected

K == INSTANCE SkipList WITH
    Keys <- {1, 2, 3}, MaxHeight <- 2, Readers <- {1}, next <- k_next,
    max_height <- k_max_height, writer <- k_writer, reader <- k_reader

A == INSTANCE Arena WITH
    BlockSize <- 8, Align <- 2, PointerSize <- 2, Sizes <- {1, 2, 3, 5}, MaxPieces <- 5,
    alloc_ptr <- a_alloc_ptr, alloc_bytes_remaining <- a_alloc_bytes_remaining,
    blocks <- a_blocks, memory_usage <- a_memory_usage, pieces <- a_pieces

F == INSTANCE Bloom WITH
    Keys <- {"x", "y"}, HashBits <- 5, Rotation <- 3, MinBits <- 4, ByteBits <- 4,
    BitsPerKey <- {1, 3, 5}, hash <- f_hash, keys <- f_keys, filter <- f_filter,
    policy <- f_policy

H == INSTANCE Checksum WITH
    ByteBits <- 2, WordBytes <- 2, Poly <- 12, Rotation <- 3, MaskDelta <- 10,
    Chunks <- MCChunks, MaxBytes <- 27, crc <- h_crc, data <- h_data

G == INSTANCE LogFormat WITH
    BlockSize <- 5, HeaderSize <- 2, Lengths <- {0, 1, 5}, MaxRecords <- 3,
    file <- g_file, block_offset <- g_block_offset, records <- g_records,
    damage <- g_damage

R == INSTANCE Repair WITH
    Directories <- MCDirectories, MaxMishaps <- 2, MaxNumber <- 8, logs <- r_logs,
    tables <- r_tables, manifests <- r_manifests, current <- r_current, lost <- r_lost,
    repair <- r_repair, found <- r_found, broken <- r_broken, mishaps <- r_mishaps

D == INSTANCE Records WITH
    Group <- 4, Bits32 <- 7, Bits64 <- 10, NumLevels <- 2, Edits <- MCEdits,
    Keys <- {<<1>>, <<2, 9>>}, Values <- {<<>>, <<0>>}, MaxOps <- 2,
    AlteredBytes <- {0, 1, 2, 5, 17}, phase <- d_phase, edit <- d_edit, ops <- d_ops,
    batch <- d_batch, harm <- d_harm, wire <- d_wire, result <- d_result

N == INSTANCE Nanopb WITH
    Group <- 4, Narrow <- 7, Wide <- 14, FixedBytes <- 2, Fields <- MCFields,
    Messages <- MCMessages, BufferSizes <- {7, 60}, Unknown <- MCUnknown,
    AlteredBytes <- {0, 2, 17, 31}, phase <- n_phase, msg <- n_msg, size <- n_size,
    max <- n_max, stream <- n_stream, harm <- n_harm, before <- n_before,
    wire <- n_wire, dest <- n_dest

T == INSTANCE Base64 WITH
    Sources <- MCSources, TargetSizes <- {2, 4, 5, 13},
    Damages <- {0, 1, 35, 63, 64, 65, 66}, phase <- t_phase, src <- t_src,
    text <- t_text, harm <- t_harm, sizes <- t_sizes, result <- t_result

ASSUME C!TableCacheAssumption
ASSUME O!OpenFilesAssumption
ASSUME S!SSTableAssumption
ASSUME I!ReadPathAssumption
ASSUME K!SkipListAssumption
ASSUME A!ArenaAssumption
ASSUME F!BloomAssumption
ASSUME H!ChecksumAssumption
ASSUME G!LogFormatAssumption
ASSUME R!RepairAssumption

TableCacheVars == <<c_cache, c_pc, c_key, c_held>>
OpenFilesVars == <<o_place, o_allowed>>
SSTableVars ==
    <<s_options, s_builder, s_last_key, s_pending, s_blocks, s_index, s_filters, s_keys,
      s_offset, s_closed, s_entries, s_iter, s_at>>
ReadPathVars ==
    <<i_child, i_last_sequence, i_sequence, i_cursor, i_current, i_merge_direction,
      i_direction, i_valid, i_saved_key, i_saved_value, i_expected>>
SkipListVars == <<k_next, k_max_height, k_writer, k_reader>>
ArenaVars ==
    <<a_alloc_ptr, a_alloc_bytes_remaining, a_blocks, a_memory_usage, a_pieces>>
BloomVars == <<f_hash, f_keys, f_filter, f_policy>>
ChecksumVars == <<h_crc, h_data>>
LogFormatVars == <<g_file, g_block_offset, g_records, g_damage>>
RepairVars ==
    <<r_logs, r_tables, r_manifests, r_current, r_lost, r_repair, r_found, r_broken, r_mishaps>>
RecordsVars == <<d_phase, d_edit, d_ops, d_batch, d_harm, d_wire, d_result>>
NanopbVars ==
    <<n_phase, n_msg, n_size, n_max, n_stream, n_harm, n_before, n_wire, n_dest>>
Base64Vars == <<t_phase, t_src, t_text, t_harm, t_sizes, t_result>>

(* The parts share nothing: one of them runs, the others stay as they are. *)
PartsInit ==
    /\ part \in {"file_lock", "table_cache", "open_files", "table", "iterator", "skiplist", "arena", "bloom", "checksum", "log_format", "repair", "records", "nanopb", "base64"}
    /\ Init
    /\ C!Init
    /\ part # "table_cache" => c_key = [t \in {1, 2, 3} |-> 1]
    /\ O!Init
    /\ S!Init
    /\ part # "table" => s_options = [block_size |-> 30, filter_base |-> 8]
    /\ I!Init
    /\ part # "iterator" => i_sequence = 1 /\ i_child = [c \in {0, 1} |-> IF c = 1 THEN {} ELSE {[key |-> 1, seq |-> s, type |-> "value"] : s \in 1..3}]
    /\ K!Init
    /\ A!Init
    /\ F!Init
    /\ part # "bloom" => f_policy = 1 /\ f_hash = [k \in {"x", "y"} |-> 0]
    /\ H!Init
    /\ G!Init
    /\ R!Init
    /\ part # "repair" => r_logs = [n \in {} |-> R!NoFile] /\ r_tables[2] = Good({1})
                            /\ r_tables[4] = Good({4})
    /\ D!Init
    /\ N!Init
    /\ T!Init

FileLockStep ==
    /\ part = "file_lock" /\ Next
    /\ UNCHANGED <<part, TableCacheVars, OpenFilesVars, SSTableVars, ReadPathVars,
                   SkipListVars, ArenaVars, BloomVars, ChecksumVars, LogFormatVars,
                   RepairVars, RecordsVars, NanopbVars, Base64Vars>>

TableCacheStep ==
    /\ part = "table_cache" /\ C!Next
    /\ UNCHANGED <<part, vars, OpenFilesVars, SSTableVars, ReadPathVars, SkipListVars,
                   ArenaVars, BloomVars, ChecksumVars, LogFormatVars, RepairVars,
                   RecordsVars, NanopbVars, Base64Vars>>

OpenFilesStep ==
    /\ part = "open_files" /\ O!Next
    /\ UNCHANGED <<part, vars, TableCacheVars, SSTableVars, ReadPathVars, SkipListVars,
                   ArenaVars, BloomVars, ChecksumVars, LogFormatVars, RepairVars,
                   RecordsVars, NanopbVars, Base64Vars>>

SSTableStep ==
    /\ part = "table" /\ S!Next
    /\ UNCHANGED <<part, vars, TableCacheVars, OpenFilesVars, ReadPathVars,
                   SkipListVars, ArenaVars, BloomVars, ChecksumVars, LogFormatVars,
                   RepairVars, RecordsVars, NanopbVars, Base64Vars>>

ReadPathStep ==
    /\ part = "iterator" /\ I!Next
    /\ UNCHANGED <<part, vars, TableCacheVars, OpenFilesVars, SSTableVars, SkipListVars,
                   ArenaVars, BloomVars, ChecksumVars, LogFormatVars, RepairVars,
                   RecordsVars, NanopbVars, Base64Vars>>

SkipListStep ==
    /\ part = "skiplist" /\ K!Next
    /\ UNCHANGED <<part, vars, TableCacheVars, OpenFilesVars, SSTableVars, ReadPathVars,
                   ArenaVars, BloomVars, ChecksumVars, LogFormatVars, RepairVars,
                   RecordsVars, NanopbVars, Base64Vars>>

ArenaStep ==
    /\ part = "arena" /\ A!Next
    /\ UNCHANGED <<part, vars, TableCacheVars, OpenFilesVars, SSTableVars, ReadPathVars,
                   SkipListVars, BloomVars, ChecksumVars, LogFormatVars, RepairVars,
                   RecordsVars, NanopbVars, Base64Vars>>

BloomStep ==
    /\ part = "bloom" /\ F!Next
    /\ UNCHANGED <<part, vars, TableCacheVars, OpenFilesVars, SSTableVars, ReadPathVars,
                   SkipListVars, ArenaVars, ChecksumVars, LogFormatVars, RepairVars,
                   RecordsVars, NanopbVars, Base64Vars>>

ChecksumStep ==
    /\ part = "checksum" /\ H!Next
    /\ UNCHANGED <<part, vars, TableCacheVars, OpenFilesVars, SSTableVars, ReadPathVars,
                   SkipListVars, ArenaVars, BloomVars, LogFormatVars, RepairVars,
                   RecordsVars, NanopbVars, Base64Vars>>

LogFormatStep ==
    /\ part = "log_format" /\ G!Next
    /\ UNCHANGED <<part, vars, TableCacheVars, OpenFilesVars, SSTableVars, ReadPathVars,
                   SkipListVars, ArenaVars, BloomVars, ChecksumVars, RepairVars,
                   RecordsVars, NanopbVars, Base64Vars>>

RepairStep ==
    /\ part = "repair" /\ R!Next
    /\ UNCHANGED <<part, vars, TableCacheVars, OpenFilesVars, SSTableVars, ReadPathVars,
                   SkipListVars, ArenaVars, BloomVars, ChecksumVars, LogFormatVars,
                   RecordsVars, NanopbVars, Base64Vars>>

RecordsStep ==
    /\ part = "records" /\ D!Next
    /\ UNCHANGED <<part, vars, TableCacheVars, OpenFilesVars, SSTableVars, ReadPathVars,
                   SkipListVars, ArenaVars, BloomVars, ChecksumVars, LogFormatVars,
                   RepairVars, NanopbVars, Base64Vars>>

NanopbStep ==
    /\ part = "nanopb" /\ N!Next
    /\ UNCHANGED <<part, vars, TableCacheVars, OpenFilesVars, SSTableVars, ReadPathVars,
                   SkipListVars, ArenaVars, BloomVars, ChecksumVars, LogFormatVars,
                   RepairVars, RecordsVars, Base64Vars>>

Base64Step ==
    /\ part = "base64" /\ T!Next
    /\ UNCHANGED <<part, vars, TableCacheVars, OpenFilesVars, SSTableVars, ReadPathVars,
                   SkipListVars, ArenaVars, BloomVars, ChecksumVars, LogFormatVars,
                   RepairVars, RecordsVars, NanopbVars>>

PartsNext ==
    \/ FileLockStep
    \/ TableCacheStep
    \/ OpenFilesStep
    \/ SSTableStep
    \/ ReadPathStep
    \/ SkipListStep
    \/ ArenaStep
    \/ BloomStep
    \/ ChecksumStep
    \/ LogFormatStep
    \/ RepairStep
    \/ RecordsStep
    \/ NanopbStep
    \/ Base64Step

all == <<part, vars, TableCacheVars, OpenFilesVars, SSTableVars, ReadPathVars, SkipListVars,
         ArenaVars, BloomVars, ChecksumVars, LogFormatVars, RepairVars, RecordsVars,
         NanopbVars, Base64Vars>>

PartsSpec == PartsInit /\ [][PartsNext]_all

-----------------------------------------------------------------------------
(* The type invariants of the parts.                                       *)
PartsTypeOK ==
    /\ part = "file_lock" => TypeOK
    /\ part = "table_cache" => C!TypeOK
    /\ part = "open_files" => O!TypeOK
    /\ part = "table" => S!TypeOK
    /\ part = "iterator" => I!TypeOK
    /\ part = "skiplist" => K!TypeOK
    /\ part = "arena" => A!TypeOK
    /\ part = "bloom" => F!TypeOK
    /\ part = "checksum" => H!TypeOK
    /\ part = "log_format" => G!TypeOK
    /\ part = "repair" => R!TypeOK
    /\ part = "records" => D!TypeOK
    /\ part = "nanopb" => N!TypeOK
    /\ part = "base64" => T!TypeOK

(* A table in use is not closed, the cache accounts for what it holds      *)
(* (LRUCache), and the permits for open files add up (Limiter).            *)
HeldIsAlive ==
    /\ part = "table_cache" => C!HeldIsAlive /\ C!AccountsBalance
    /\ part = "open_files" => O!LimitsKept

(* An iterator over a table is where its entries say, a lookup finds what  *)
(* was added, and a filter hides none of its keys (Block, Table,           *)
(* BloomFilterPolicy).                                                     *)
TableFindsAll ==
    /\ part = "table" => S!IteratorAgrees /\ S!LookupFinds
    /\ part = "bloom" => F!NoKeyIsHidden

(* An iterator shows the store as of its snapshot, whichever way it turns  *)
(* (DBIter, MergingIterator).                                              *)
ShowsItsSnapshot == part = "iterator" => I!ShowsItsSnapshot

(* A search among insertions finds what was there and every level is part  *)
(* of the one below (SkipList); pieces of memory do not overlap (Arena).   *)
MemtableHolds ==
    /\ part = "skiplist" => K!SearchesSeeTheList /\ K!LevelsNest
    /\ part = "arena" => A!PiecesAreApart

(* A log cut anywhere reads back to its whole records, silently; damage    *)
(* makes up none and costs none before it (log::Reader).  Strides and      *)
(* pieces make no difference to a checksum, Unmask undoes Mask (crc32c).   *)
LogsReadBack ==
    /\ part = "log_format" => G!CutFileReadsBack /\ G!NothingInvented
    /\ part = "checksum" => H!ExtendIsTheChecksum /\ H!MaskIsUndone

(* A repair that ran through lists all that could be read before the first *)
(* run, but for what failed calls and a kill at one point have cost; it    *)
(* can be opened; no number that it gives out is taken (Repairer).         *)
RepairKeepsAll ==
    part = "repair" => R!KeepsWhatItFound /\ R!DoneIsOpenable /\ R!NumbersFree

(* An edit reads back as it was and names existing levels; a batch gets    *)
(* consecutive sequence numbers, and one that is cut is reported           *)
(* (VersionEdit, WriteBatch).                                              *)
RecordsReadBack ==
    part = "records" => D!EditReadsBack /\ D!LevelsInRange /\ D!BatchIsWhole

(* What was encoded decodes to itself, in the size computed before; two    *)
(* encodings in a row merge; bytes that were cut or altered never decode   *)
(* to another message or past the fields of the struct (nanopb).           *)
MessagesReadBack ==
    part = "nanopb" =>
        /\ N!SizeIsExact /\ N!RoundTrip /\ N!TwiceIsMerged
        /\ N!CutShowsNoOther /\ N!DecodedFits

(* A text decodes to what it was written from, and of the texts for some   *)
(* bytes only that one is accepted (fbase64.c).                            *)
TextsReadBack == part = "base64" => T!ReadsBack /\ T!OneTextPerValue
=============================================================================
