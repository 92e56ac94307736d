---------------------------- MODULE VersionFiles ----------------------------
(***************************************************************************)
(* The files of a version of the storage engine (leveldb): which of them a *)
(* read consults, where a flushed memtable goes, what a compaction takes   *)
(* in and what it writes.                                                  *)
(*                                                                         *)
(* An entry is a user key with the sequence number of its write; that      *)
(* number stands for the value, too.  A file is its number, its first and  *)
(* last entry and its size, one unit per entry.  A version is a function   *)
(* from levels to sequences of files.                                      *)
(***************************************************************************)
EXTENDS Integers, Sequences, FiniteSets, SequencesExt

CONSTANTS
    Keys,                 \* user keys, a finite set of integers
    NumLevels,            \* config::kNumLevels
    MaxMemCompactLevel,   \* config::kMaxMemCompactLevel
    L0CompactionTrigger,  \* config::kL0_CompactionTrigger
    MaxBytesForLevel1, LevelGrowth,   \* sizes of the levels
    MaxFileSize,          \* MaxFileSizeForLevel, in entries
    MaxGrandParentOverlapBytes, ExpandedCompactionByteSizeLimit

ASSUME VersionFilesAssumption ==
    /\ Keys \subseteq Int /\ IsFiniteSet(Keys)
    /\ NumLevels \in Nat /\ NumLevels > 1
    /\ MaxMemCompactLevel \in 0..(NumLevels - 1)

Levels == 0..(NumLevels - 1)
Infinity == 1000000   \* kMaxSequenceNumber

(* InternalKeyComparator: ascending user keys, newest entry first.         *)
Before(a, b) == a.key < b.key \/ (a.key = b.key /\ a.seq > b.seq)

SortedBy(S, precedes(_, _)) ==
    [i \in 1..Cardinality(S) |->
        CHOOSE x \in S : Cardinality({y \in S : precedes(y, x)}) = i - 1]
Sorted(entries) == SortedBy(entries, Before)

FileOf(number, entries) ==
    LET s == Sorted(entries)
    IN  [number |-> number, smallest |-> s[1], largest |-> s[Len(s)], size |-> Len(s)]

TotalFileSize(s) == FoldSeq(LAMBDA f, sum : f.size + sum, 0, s)

-----------------------------------------------------------------------------
(* The first file whose largest entry is not before e, by binary search.   *)
FindFile(s, e) ==
    LET find[left \in 0..Len(s), right \in 0..Len(s)] ==
            LET mid == (left + right) \div 2
            IN  IF left >= right THEN right
                ELSE IF Before(s[mid + 1].largest, e) THEN find[mid + 1, right]
                ELSE find[left, mid]
    IN  find[0, Len(s)] + 1

Covers(f, k) == f.smallest.key <= k /\ k <= f.largest.key
Overlaps(f, lo, hi) == ~(lo > f.largest.key) /\ ~(hi < f.smallest.key)

(* SomeFileOverlapsRange.                                                  *)
OverlapInLevel(v, level, lo, hi) ==
    IF level = 0 THEN \E f \in Range(v[0]) : Overlaps(f, lo, hi)
    ELSE LET i == FindFile(v[level], [key |-> lo, seq |-> Infinity])
         IN  i <= Len(v[level]) /\ ~(hi < v[level][i].smallest.key)

(* In level 0 a file that reaches beyond the range widens it.              *)
GetOverlappingInputs(v, level, lo, hi) ==
    LET inputs[l \in Keys, h \in Keys] ==
            LET in == SelectSeq(v[level], LAMBDA f : Overlaps(f, l, h))
                low == Min({l} \cup {f.smallest.key : f \in Range(in)})
                high == Max({h} \cup {f.largest.key : f \in Range(in)})
            IN  IF level = 0 /\ <<low, high>> # <<l, h>> THEN inputs[low, high] ELSE in
    IN  inputs[lo, hi]

(* Seeded defect: overlap with the level itself is not looked at.          *)
PickLevelTooDeep(v, lo, hi) ==
    Max({0} \cup {level \in 1..MaxMemCompactLevel :
        level + 1 < NumLevels =>
            TotalFileSize(GetOverlappingInputs(v, level + 1, lo, hi))
                <= MaxGrandParentOverlapBytes})

(* The deepest level such that no file of it and of those above overlaps.  *)
PickLevelForMemTableOutput(v, lo, hi) ==
    LET free(level) ==
            /\ ~OverlapInLevel(v, level, lo, hi)
            /\ level + 1 < NumLevels =>
                   TotalFileSize(GetOverlappingInputs(v, level + 1, lo, hi))
                       <= MaxGrandParentOverlapBytes
    IN  IF OverlapInLevel(v, 0, lo, hi) THEN 0
        ELSE Max({0} \cup {level \in 1..MaxMemCompactLevel :
                              \A l \in 1..level : free(l)})

-----------------------------------------------------------------------------
(* The files that may hold key k for snapshot s, as <<level, file>> in the *)
(* order in which Get and ForEachOverlapping look at them.                 *)
FilesConsulted(v, k, s) ==
    LET newest == SortedBy({f \in Range(v[0]) : Covers(f, k)},
                           LAMBDA f, g : f.number > g.number)
        inLevel(level) ==
            LET i == FindFile(v[level], [key |-> k, seq |-> s])
            IN  IF i <= Len(v[level]) /\ k >= v[level][i].smallest.key
                THEN << <<level, v[level][i]>> >> ELSE <<>>
    IN  [j \in DOMAIN newest |-> <<0, newest[j]>>]
            \o FlattenSeq([level \in 1..(NumLevels - 1) |-> inLevel(level)])

-----------------------------------------------------------------------------
(* Finalize: the level that needs a compaction most; scores are fractions. *)
MaxBytesForLevel ==
    [level \in 1..NumLevels |-> MaxBytesForLevel1 * LevelGrowth^(level - 1)]

Score(v, level) ==
    IF level = 0 THEN <<Len(v[0]), L0CompactionTrigger>>
    ELSE <<TotalFileSize(v[level]), MaxBytesForLevel[level]>>
compaction_level(v) ==
    LET worse(l, m) == Score(v, l)[1] * Score(v, m)[2] > Score(v, m)[1] * Score(v, l)[2]
    IN  Min({l \in 0..(NumLevels - 2) : \A m \in 0..(NumLevels - 2) : ~worse(m, l)})
SizeCompactionNeeded(v) ==
    LET score == Score(v, compaction_level(v)) IN score[1] >= score[2]

(* GetRange over inputs that are not empty.                                *)
Smallest(s) == CHOOSE e \in {f.smallest : f \in Range(s)} :
                \A f \in Range(s) : ~Before(f.smallest, e)
Largest(s) == CHOOSE e \in {f.largest : f \in Range(s)} :
                \A f \in Range(s) : ~Before(e, f.largest)

(* Seeded defect: files that share a user key are torn apart.              *)
AddBoundaryInputsNever(levelFiles, inputs) == inputs

(* A file that begins with older entries of the key at which the inputs    *)
(* end has to come along, and so on from its end.                          *)
AddBoundaryInputs(levelFiles, inputs) ==
    LET boundary(s) == {f \in Range(levelFiles) :
                           Before(Largest(s), f.smallest) /\ f.smallest.key = Largest(s).key}
        grown[n \in 0..Len(levelFiles)] ==
            IF n = 0 THEN inputs
            ELSE LET s == grown[n - 1] IN
                 IF boundary(s) = {} THEN s
                 ELSE Append(s, CHOOSE f \in boundary(s) :
                                    \A g \in boundary(s) : ~Before(g.smallest, f.smallest))
    IN  IF inputs = <<>> THEN inputs ELSE grown[Len(levelFiles)]

(***************************************************************************)
(* SetupOtherInputs: the inputs of the next level, more inputs of this one *)
(* if that takes in no more of the next, and the grandparents.             *)
(***************************************************************************)
SetupOtherInputs(v, level, picked) ==
    LET overlap(l, s) == GetOverlappingInputs(v, l, Smallest(s).key, Largest(s).key)
        in0 == AddBoundaryInputs(v[level], picked)
        in1 == overlap(level + 1, in0)
        expanded0 == AddBoundaryInputs(v[level], overlap(level, in0 \o in1))
        grow == /\ in1 # <<>>
                /\ Len(expanded0) > Len(in0)
                /\ TotalFileSize(in1) + TotalFileSize(expanded0)
                       < ExpandedCompactionByteSizeLimit
                /\ Len(overlap(level + 1, expanded0)) = Len(in1)
        inputs0 == IF grow THEN expanded0 ELSE in0
        inputs1 == IF grow THEN overlap(level + 1, expanded0) ELSE in1
    IN  [level |-> level, inputs |-> <<inputs0, inputs1>>,
         grandparents |-> IF level + 2 < NumLevels THEN overlap(level + 2, inputs0 \o inputs1)
                          ELSE <<>>,
         pointer |-> Largest(inputs0), version |-> v]

(* A picked file of level 0 brings in those that overlap it.               *)
PickCompaction(v, level, f) ==
    SetupOtherInputs(v, level,
        IF level = 0 THEN GetOverlappingInputs(v, 0, f.smallest.key, f.largest.key) ELSE <<f>>)

(* The first file after the compaction pointer, or else the first.         *)
PickFile(v, level, pointer) ==
    LET after == SelectSeq(v[level], LAMBDA f : Before(pointer, f.largest))
    IN  IF after = <<>> THEN v[level][1] ELSE after[1]

(* The inputs of a manual compaction, cut off at the size of a file.       *)
CompactRangeInputs(v, level, lo, hi) ==
    LET in == GetOverlappingInputs(v, level, lo, hi)
        full == {i \in 1..Len(in) : TotalFileSize(SubSeq(in, 1, i)) >= MaxFileSize}
    IN  IF level = 0 \/ full = {} THEN in ELSE SubSeq(in, 1, Min(full))

IsTrivialMove(c) ==
    /\ Len(c.inputs[1]) = 1 /\ c.inputs[2] = <<>>
    /\ TotalFileSize(c.grandparents) <= MaxGrandParentOverlapBytes

-----------------------------------------------------------------------------
IsBaseLevelForKey(c, k) ==
    \A level \in (c.level + 2)..(NumLevels - 1) :
        \A f \in Range(c.version[level]) : ~Covers(f, k)

(* Seeded defect: a deletion is dropped although a deeper level has the    *)
(* key.                                                                    *)
DropsAnyDeletion(c, e, newer, smallest_snapshot) ==
    \/ newer <= smallest_snapshot
    \/ e.deleted /\ e.seq <= smallest_snapshot

(* An entry goes when no snapshot sees it past a newer one, a deletion     *)
(* when there is nothing deeper that it hides.                             *)
Drops(c, e, newer, smallest_snapshot) ==
    \/ newer <= smallest_snapshot
    \/ e.deleted /\ e.seq <= smallest_snapshot /\ IsBaseLevelForKey(c, e.key)

(***************************************************************************)
(* DoCompactionWork: the merged entries in order, without those to drop,   *)
(* cut into outputs at the size of a file and where an output would        *)
(* overlap too much of the grandparents (ShouldStopBefore).                *)
(***************************************************************************)
CompactionOutputs(c, entries, smallest_snapshot) ==
    LET gp == c.grandparents
        step(acc, e) ==
            LET skip == {i \in acc.gp..Len(gp) : Before(gp[i].largest, e)}
                bytes == acc.bytes + IF acc.seen
                                     THEN MapThenSumSet(LAMBDA i : gp[i].size, skip) ELSE 0
                stop == bytes > MaxGrandParentOverlapBytes
                newer == IF acc.key = e.key THEN acc.last ELSE Infinity
                open == acc.open /\ ~stop
                n == Len(acc.outs)
                outs == IF Drops(c, e, newer, smallest_snapshot) THEN acc.outs
                        ELSE IF open THEN [acc.outs EXCEPT ![n] = @ \cup {e}]
                        ELSE Append(acc.outs, {e})
            IN  [outs |-> outs, key |-> e.key, last |-> e.seq, seen |-> TRUE,
                 gp |-> acc.gp + Cardinality(skip), bytes |-> IF stop THEN 0 ELSE bytes,
                 open |-> /\ open \/ outs # acc.outs
                          /\ Cardinality(outs[Len(outs)]) < MaxFileSize]
        start == [outs |-> <<>>, key |-> Min(Keys) - 1, last |-> Infinity, seen |-> FALSE,
                  gp |-> 1, bytes |-> 0, open |-> FALSE]
    IN  FoldLeft(step, start, Sorted(entries)).outs

(* Builder: the files of a level without the deleted ones, with the new    *)
(* ones, in the order of their first entries.                              *)
SaveTo(v, deleted, added) ==
    [level \in Levels |->
        SortedBy({f \in Range(v[level]) : <<level, f.number>> \notin deleted}
                     \cup {a[2] : a \in {x \in added : x[1] = level}},
                 LAMBDA f, g : Before(f.smallest, g.smallest)
                                   \/ (f.smallest = g.smallest /\ f.number < g.number))]

AddInputDeletions(c) ==
    UNION {{<<c.level + which - 1, f.number>> : f \in Range(c.inputs[which])} : which \in {1, 2}}

=============================================================================
