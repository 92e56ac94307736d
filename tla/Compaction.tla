----------------------------- MODULE Compaction -----------------------------
(***************************************************************************)
(* Memtables, files and compactions of the storage engine, with snapshots  *)
(* and readers.  One background thread flushes the immutable memtable and  *)
(* runs compactions; while a compaction has let go of the mutex, writes go *)
(* on, snapshots come and go, and the same thread may flush in between.    *)
(*                                                                         *)
(* Writes are atomic here (their queue is in WriteQueue, their log in      *)
(* Recovery); one unit of write buffer is one entry.                       *)
(***************************************************************************)
EXTENDS VersionFiles

CONSTANTS
    Earlier,       \* keys that an earlier run stored, a file of level 1 each
    MaxSeq,        \* bound: writes, those of the earlier run included
    MaxSnapshots,  \* bound: snapshots and readers at a time
    MaxManual,     \* bound: manual compactions
    Deletable      \* bound: keys that may be deleted

ASSUME CompactionAssumption ==
    /\ Earlier \subseteq Keys
    /\ {MaxSeq, MaxSnapshots, MaxManual} \subseteq Nat /\ Cardinality(Earlier) <= MaxSeq
    /\ Deletable \subseteq Keys

NoEntry == [key |-> Min(Keys) - 1, seq |-> 0, deleted |-> TRUE]
NoFile == <<>>
Idle == [level |-> -1]

VARIABLES
    written,       \* every entry ever written
    mem, imm,      \* memtables; an empty imm is nullptr
    files,         \* the current version
    fileToCompact, \* of the current version, <<level, file>>, or NoFile
    compactPointer,
    tables,        \* table files on disk: number |-> entries
    nextFile,
    compaction,    \* the one being worked on, or Idle
    pending,       \* pending_outputs_
    snapshots,     \* sequence numbers of the snapshots held
    readers,       \* reads under way: what they hold on to
    bg_error,      \* bg_error_ is set
    manuals,       \* manual compactions so far
    gapFlush       \* a memtable was flushed into the gap between the inputs
                   \* of a manual compaction (recorded for the properties)

vars == <<written, mem, imm, files, fileToCompact, compactPointer, tables, nextFile,
          compaction, pending, bg_error, snapshots, readers, manuals, gapFlush>>

Entry == [key : Keys, seq : 1..MaxSeq, deleted : BOOLEAN]
LastSequence == Cardinality(written)

TypeOK ==
    /\ written \in SUBSET Entry /\ mem \in SUBSET written /\ imm \in SUBSET written
    /\ DOMAIN files = Levels /\ DOMAIN compactPointer = Levels
    /\ \A l \in Levels : \A f \in Range(files[l]) :
           f.smallest \in written /\ f.largest \in written /\ f.size \in Nat
    /\ fileToCompact = NoFile \/ fileToCompact[1] \in Levels
    /\ DOMAIN tables \subseteq 1..nextFile /\ pending \subseteq 1..nextFile
    /\ snapshots \subseteq 0..MaxSeq
    /\ manuals \in 0..MaxManual /\ gapFlush \in BOOLEAN /\ bg_error \in BOOLEAN

(* Each of the earlier keys was written and flushed by itself.             *)
EarlierEntries ==
    {[key |-> k, seq |-> Cardinality({x \in Earlier : x <= k}), deleted |-> FALSE] : k \in Earlier}

Init ==
    /\ written = EarlierEntries /\ mem = {} /\ imm = {}
    /\ files = [l \in Levels |->
                   IF l = 1 THEN SortedBy({FileOf(e.seq, {e}) : e \in EarlierEntries},
                                          LAMBDA f, g : f.number < g.number)
                   ELSE <<>>]
    /\ fileToCompact = NoFile
    /\ compactPointer = [l \in Levels |-> NoEntry]
    /\ tables = [n \in 1..Cardinality(Earlier) |-> {e \in EarlierEntries : e.seq = n}]
    /\ nextFile = Cardinality(Earlier) + 1
    /\ compaction = Idle
    /\ pending = {}
    /\ bg_error = FALSE
    /\ snapshots = {} /\ readers = {}
    /\ manuals = 0 /\ gapFlush = FALSE

disk == <<files, fileToCompact, compactPointer, tables, nextFile>>
work == <<compaction, pending, bg_error, manuals, gapFlush>>

-----------------------------------------------------------------------------
Write(k, deleted) ==
    /\ LastSequence < MaxSeq /\ ~bg_error
    /\ deleted => k \in Deletable
    /\ LET e == [key |-> k, seq |-> LastSequence + 1, deleted |-> deleted]
       IN  written' = written \cup {e} /\ mem' = mem \cup {e}
    /\ UNCHANGED <<imm, disk, work, snapshots, readers>>

(* The last branch of MakeRoomForWrite: the memtable is full.              *)
SwitchMemTable ==
    /\ mem # {} /\ imm = {} /\ ~bg_error
    /\ imm' = mem /\ mem' = {}
    /\ UNCHANGED <<written, disk, work, snapshots, readers>>

GetSnapshot ==
    /\ Cardinality(snapshots) + Cardinality(readers) < MaxSnapshots
    /\ snapshots' = snapshots \cup {LastSequence}
    /\ UNCHANGED <<written, mem, imm, disk, work, readers>>

ReleaseSnapshot(s) ==
    /\ snapshots' = snapshots \ {s}
    /\ UNCHANGED <<written, mem, imm, disk, work, readers>>

(* Get and NewInternalIterator: take references, let go of the mutex.      *)
StartRead ==
    /\ Cardinality(snapshots) + Cardinality(readers) < MaxSnapshots
    /\ \E s \in snapshots \cup {LastSequence} :
          readers' = readers \cup {[snapshot |-> s, mem |-> mem, imm |-> imm, files |-> files,
                                     gap |-> gapFlush]}
    /\ UNCHANGED <<written, mem, imm, disk, work, snapshots>>

(* The references go; a read that looked at two files charges the first.   *)
EndRead(r) ==
    /\ readers' = readers \ {r}
    /\ \/ UNCHANGED fileToCompact
       \/ /\ r.files = files /\ fileToCompact = NoFile
          /\ \E k \in Keys :
                LET consulted == FilesConsulted(files, k, r.snapshot)
                IN  Len(consulted) > 1 /\ fileToCompact' = consulted[1]
    /\ UNCHANGED <<written, mem, imm, files, compactPointer, tables, nextFile, work, snapshots>>

-----------------------------------------------------------------------------
Numbers(v) == UNION {{f.number : f \in Range(v[l])} : l \in Levels}

(* Seeded defect: files being written do not count.                        *)
LiveWithoutPending(v, pend, rs, c) ==
    Numbers(v) \cup UNION {Numbers(r.files) : r \in rs}
        \cup (IF c = Idle THEN {} ELSE Numbers(c.version))

(* AddLiveFiles, with pending_outputs_: a version lives as long as it is   *)
(* current or a reader or the compaction holds it.                         *)
Live(v, pend, rs, c) ==
    Numbers(v) \cup pend \cup UNION {Numbers(r.files) : r \in rs}
        \cup (IF c = Idle THEN {} ELSE Numbers(c.version))

(* After an error it is not known which version the manifest has.          *)
DeleteObsoleteFiles(all, v, pend, c) ==
    IF bg_error THEN all ELSE Restrict(all, DOMAIN all \cap Live(v, pend, readers, c))

Inputs(c) == Range(c.inputs[1]) \cup Range(c.inputs[2])

(* The file f, flushed to a level, lies between the inputs of the manual   *)
(* compaction that writes to that level.                                   *)
InGap(f, level) ==
    /\ compaction # Idle /\ compaction.manual
    /\ level = compaction.level + 1
    /\ LET all == compaction.inputs[1] \o compaction.inputs[2]
       IN  Overlaps(f, Smallest(all).key, Largest(all).key)

(* CompactMemTable, by itself or within a compaction: a file in the level  *)
(* picked by the current version, then the garbage collection.  Within a   *)
(* compaction it is tried again even after it failed.                      *)
CompactMemTable ==
    /\ imm # {}
    /\ compaction = Idle => ~bg_error
    /\ LET f == FileOf(nextFile, imm)
           level == PickLevelForMemTableOutput(files, f.smallest.key, f.largest.key)
       IN  /\ files' = SaveTo(files, {}, {<<level, f>>})
           /\ tables' = DeleteObsoleteFiles([n \in DOMAIN tables \cup {nextFile} |->
                            IF n = nextFile THEN imm ELSE tables[n]], files', pending, compaction)
           /\ gapFlush' = (gapFlush \/ InGap(f, level))
    /\ nextFile' = nextFile + 1
    /\ fileToCompact' = NoFile
    /\ imm' = {}
    /\ UNCHANGED <<written, mem, compactPointer, compaction, pending, bg_error, manuals,
                   snapshots, readers>>

(* The table or the manifest could not be written: the memtable stays.     *)
CompactMemTableFails ==
    /\ imm # {} /\ ~bg_error
    /\ nextFile' = nextFile + 1
    /\ bg_error' = TRUE
    /\ UNCHANGED <<written, mem, imm, files, fileToCompact, compactPointer, tables, compaction,
                   pending, manuals, gapFlush, snapshots, readers>>

SmallestSnapshot == IF snapshots = {} THEN LastSequence ELSE Min(snapshots)

(* The compaction c is begun, or carried out at once as a trivial move; of *)
(* a move that cannot be logged only the compaction pointer remains.       *)
Begin(c, manual) ==
    LET f == c.inputs[1][1] IN
    /\ compactPointer' = [compactPointer EXCEPT ![c.level] = c.pointer]
    /\ IF ~manual /\ IsTrivialMove(c)
       THEN /\ \/ /\ files' = SaveTo(files, {<<c.level, f.number>>}, {<<c.level + 1, f>>})
                  /\ fileToCompact' = NoFile
                  /\ UNCHANGED bg_error
               \/ /\ bg_error' = TRUE
                  /\ UNCHANGED <<files, fileToCompact>>
            /\ UNCHANGED compaction
       ELSE /\ compaction' = c @@ [manual |-> manual, outputs |-> <<>>, written |-> FALSE,
                                   smallest_snapshot |-> SmallestSnapshot]
            /\ UNCHANGED <<files, fileToCompact, bg_error>>
    /\ UNCHANGED <<written, mem, imm, tables, nextFile, pending, gapFlush, snapshots, readers>>

(* BackgroundCompaction: a memtable goes first, then size, then seeks.     *)
BackgroundCompaction ==
    /\ compaction = Idle /\ imm = {} /\ ~bg_error
    /\ LET level == compaction_level(files)
       IN  IF SizeCompactionNeeded(files)
           THEN Begin(PickCompaction(files, level, PickFile(files, level, compactPointer[level])),
                      FALSE)
           ELSE /\ fileToCompact # NoFile
                /\ Begin(PickCompaction(files, fileToCompact[1], fileToCompact[2]), FALSE)
    /\ UNCHANGED manuals

ManualCompaction(level, lo, hi) ==
    /\ compaction = Idle /\ imm = {} /\ ~bg_error
    /\ manuals < MaxManual /\ manuals' = manuals + 1
    /\ LET in == CompactRangeInputs(files, level, lo, hi)
       IN  in # <<>> /\ Begin(SetupOtherInputs(files, level, in), TRUE)

(* Seeded defect: the numbers of the outputs are given out again.          *)
TakenForgotten(count) == nextFile

(* NewFileNumber for each output.                                          *)
Taken(count) == nextFile + count

(* The outputs of DoCompactionWork, without the mutex.                     *)
WriteOutputs ==
    /\ compaction # Idle /\ ~compaction.written
    /\ LET outs == CompactionOutputs(compaction,
                       UNION {tables[f.number] : f \in Inputs(compaction)},
                       compaction.smallest_snapshot)
           made == nextFile..(nextFile + Len(outs) - 1)
       IN  /\ tables' = [n \in DOMAIN tables \cup made |->
                             IF n \in made THEN outs[n - nextFile + 1] ELSE tables[n]]
           /\ compaction' = [compaction EXCEPT !.written = TRUE, !.outputs =
                  [i \in 1..Len(outs) |-> FileOf(nextFile + i - 1, outs[i])]]
           /\ pending' = pending \cup made
           /\ nextFile' = Taken(Len(outs))
    /\ UNCHANGED <<written, mem, imm, files, fileToCompact, compactPointer, bg_error, manuals,
                   gapFlush, snapshots, readers>>

(* InstallCompactionResults, CleanupCompaction, DeleteObsoleteFiles.       *)
InstallCompactionResults ==
    /\ compaction # Idle /\ compaction.written
    /\ files' = SaveTo(files, AddInputDeletions(compaction),
                       {<<compaction.level + 1, f>> : f \in Range(compaction.outputs)})
    /\ fileToCompact' = NoFile
    /\ pending' = {}
    /\ compaction' = Idle
    /\ tables' = DeleteObsoleteFiles(tables, files', {}, Idle)
    /\ UNCHANGED <<written, mem, imm, compactPointer, nextFile, bg_error, manuals, gapFlush,
                   snapshots, readers>>

(* A failed output or manifest: the outputs are nobody's, and stay.        *)
CompactionFails ==
    /\ compaction # Idle
    /\ compaction' = Idle /\ pending' = {} /\ bg_error' = TRUE
    /\ UNCHANGED <<written, mem, imm, disk, manuals, gapFlush, snapshots, readers>>

Next ==
    \/ \E k \in Keys, deleted \in BOOLEAN : Write(k, deleted)
    \/ SwitchMemTable \/ CompactMemTable \/ CompactMemTableFails
    \/ GetSnapshot \/ StartRead
    \/ \E s \in snapshots : ReleaseSnapshot(s)
    \/ \E r \in readers : EndRead(r)
    \/ BackgroundCompaction \/ WriteOutputs \/ InstallCompactionResults
    \/ CompactionFails
    \/ \E level \in 0..(NumLevels - 2), lo, hi \in Keys :
          lo <= hi /\ ManualCompaction(level, lo, hi)

Spec == Init /\ [][Next]_vars

-----------------------------------------------------------------------------
(* The newest entry of k that snapshot s sees in a set of entries.         *)
Newest(entries, k, s) ==
    LET seen == {e \in entries : e.key = k /\ e.seq <= s}
    IN  IF seen = {} THEN NoEntry ELSE CHOOSE e \in seen : \A d \in seen : d.seq <= e.seq

ValueOf(e) == IF e.deleted THEN 0 ELSE e.seq

(* Get: the memtables, then the files in the order consulted; the first    *)
(* that has an entry of the key decides.                                   *)
Get(m, i, v, k, s) ==
    LET consulted == FilesConsulted(v, k, s)
        places == <<m, i>> \o [j \in 1..Len(consulted) |-> tables[consulted[j][2].number]]
        hits == {j \in 1..Len(places) : Newest(places[j], k, s) # NoEntry}
    IN  IF hits = {} THEN 0 ELSE ValueOf(Newest(places[Min(hits)], k, s))

(* No file that a reader, the compaction or the current version needs is   *)
(* deleted, although garbage is collected in the midst of their work.      *)
NeededFilesExist ==
    /\ Numbers(files) \cup UNION {Numbers(r.files) : r \in readers} \subseteq DOMAIN tables
    /\ compaction # Idle =>
           {f.number : f \in Inputs(compaction) \cup Range(compaction.outputs)}
               \subseteq DOMAIN tables

(* Every read under way and every snapshot held sees exactly the writes    *)
(* before it, whatever was flushed, moved, merged or dropped meanwhile.    *)
(* Nothing is claimed of a version made after a memtable was flushed into  *)
(* the gap between the inputs of a manual compaction: the output overlaps  *)
(* the flushed file then, and Get, which takes one file of a level         *)
(* (FindFile), can miss the other.  Reads begun before that stay right.    *)
ReadsSeeTheirSnapshot ==
    NeededFilesExist =>
        /\ \A r \in readers, k \in Keys : ~r.gap =>
              Get(r.mem, r.imm, r.files, k, r.snapshot) = ValueOf(Newest(written, k, r.snapshot))
        /\ ~gapFlush => \A s \in snapshots \cup {LastSequence}, k \in Keys :
              Get(mem, imm, files, k, s) = ValueOf(Newest(written, k, s))

(* "Must not overlap": the files of a level from 1 on are in order and     *)
(* disjoint.                                                               *)
LevelsDisjoint ==
    \A l \in Levels \ {0} : \A i \in 2..Len(files[l]) :
        Before(files[l][i - 1].largest, files[l][i].smallest)

(* Levels overlap only after a flush into the gap between the inputs of a  *)
(* manual compaction: neither a compaction that the engine picks nor a     *)
(* manual one without such a flush makes files of a level overlap          *)
(* (PickLevelForMemTableOutput, SetupOtherInputs).                         *)
OverlapNeedsGapFlush == LevelsDisjoint \/ gapFlush
=============================================================================
