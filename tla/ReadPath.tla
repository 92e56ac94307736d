------------------------------ MODULE ReadPath ------------------------------
(***************************************************************************)
(* Iterating over the store: a DBIter, which shows each user key once as   *)
(* of its snapshot, on top of a MergingIterator over the memtable and the  *)
(* tables.  Either may turn round at every step, and the memtable keeps    *)
(* growing under the iterator.                                             *)
(*                                                                         *)
(* A child is a set of entries and its cursor an entry or None (not        *)
(* valid): what SSTable shows of table iterators, and a memtable's cursor  *)
(* is a node of its list.                                                  *)
(***************************************************************************)
EXTENDS Integers, Sequences, FiniteSets, FiniteSetsExt, SequencesExt

CONSTANTS
    Keys,          \* user keys, numbers in their order
    Tables,        \* children other than the memtable, 1..n
    StartSeq,      \* sequence number of the last write before the iterator
    MaxSeq         \* bound

ReadPathAssumption ==
    Keys \subseteq Nat \ {0} /\ StartSeq \in Nat /\ MaxSeq \in Nat /\ 0 \notin Tables

Entries == [key : Keys, seq : 1..MaxSeq, type : {"value", "deletion"}]
None == [key |-> 0]
Children == {0} \cup Tables          \* 0 is the memtable

VARIABLES
    child,        \* entries of each child
    last_sequence,
    sequence,     \* sequence_ of the iterator
    cursor, current, merge_direction,      \* MergingIterator; -1: nullptr
    direction, valid, saved_key, saved_value,   \* DBIter
    expected      \* the user key it should show; 0: none

merge == <<cursor, current, merge_direction>>
dbiter == <<direction, valid, saved_key, saved_value>>
vars == <<child, last_sequence, sequence, merge, dbiter, expected>>

AllEntries == UNION {child[c] : c \in Children}

(* InternalKeyComparator: the newest entry of a user key comes first.      *)
Before(a, b) == a.key < b.key \/ (a.key = b.key /\ a.seq > b.seq)

First(S) == IF S = {} THEN None ELSE CHOOSE e \in S : \A f \in S : f = e \/ Before(e, f)
Final(S) == IF S = {} THEN None ELSE CHOOSE e \in S : \A f \in S : f = e \/ Before(f, e)

SeekIn(c, target) == First({e \in child[c] : ~Before(e, target)})
NextIn(c, e) == First({f \in child[c] : Before(e, f)})
PrevIn(c, e) == Final({f \in child[c] : Before(f, e)})

-----------------------------------------------------------------------------
(***************************************************************************)
(* MergingIterator, as [cursor, current, direction].                       *)
(***************************************************************************)
FindSmallest(cur) ==
    LET ready == {c \in Children : cur[c] # None}
    IN  IF ready = {} THEN -1
        ELSE CHOOSE c \in ready : \A d \in ready : d = c \/ Before(cur[c], cur[d])

FindLargest(cur) ==
    LET ready == {c \in Children : cur[c] # None}
    IN  IF ready = {} THEN -1
        ELSE CHOOSE c \in ready : \A d \in ready : d = c \/ Before(cur[d], cur[c])

Smallest(cur) == [cursor |-> cur, current |-> FindSmallest(cur), direction |-> "forward"]
Largest(cur) == [cursor |-> cur, current |-> FindLargest(cur), direction |-> "reverse"]

MergeValid(m) == m.current # -1
MergeEntry(m) == m.cursor[m.current]

MergeSeek(target) == Smallest([c \in Children |-> SeekIn(c, target)])
MergeFirst == Smallest([c \in Children |-> First(child[c])])
MergeLast == Largest([c \in Children |-> Final(child[c])])

(* Seeded defect: the other children stay where they are.                  *)
MergeNextStays(m) == Smallest([m.cursor EXCEPT ![m.current] = NextIn(m.current, @)])

(* Turning round puts the other children after the current entry; a child  *)
(* that holds the same entry goes past it.                                 *)
MergeNext(m) ==
    LET e == MergeEntry(m)
        turned == [c \in Children |->
                      IF m.direction = "forward" \/ c = m.current THEN m.cursor[c]
                      ELSE IF SeekIn(c, e) = e THEN NextIn(c, e) ELSE SeekIn(c, e)]
    IN  Smallest([turned EXCEPT ![m.current] = NextIn(m.current, e)])

(* Seeded defect: a child with nothing from the entry on is given up.      *)
MergePrevGivesUp(m) ==
    LET e == MergeEntry(m)
        before(c) == IF SeekIn(c, e) = None THEN None ELSE PrevIn(c, SeekIn(c, e))
        turned == [c \in Children |->
                      IF m.direction = "reverse" \/ c = m.current THEN m.cursor[c] ELSE before(c)]
    IN  Largest([turned EXCEPT ![m.current] = PrevIn(m.current, e)])

(* ... and before it, or at their last entry if they have none after it.   *)
MergePrev(m) ==
    LET e == MergeEntry(m)
        before(c) == IF SeekIn(c, e) = None THEN Final(child[c]) ELSE PrevIn(c, SeekIn(c, e))
        turned == [c \in Children |->
                      IF m.direction = "reverse" \/ c = m.current THEN m.cursor[c] ELSE before(c)]
    IN  Largest([turned EXCEPT ![m.current] = PrevIn(m.current, e)])

-----------------------------------------------------------------------------
(***************************************************************************)
(* DBIter.  Forward the merging iterator is at the entry that is shown,    *)
(* backward just before all entries of the user key that is shown.         *)
(***************************************************************************)
Merged == [cursor |-> cursor, current |-> current, direction |-> merge_direction]

MoveTo(m) == cursor' = m.cursor /\ current' = m.current /\ merge_direction' = m.direction

(* The loops run at most once per entry.                                   *)
Repeat(step(_), s) == FoldLeft(LAMBDA t, i : IF t.done THEN t ELSE step(t), s,
                               [i \in 1..(Cardinality(AllEntries) + 1) |-> i])

(* Seeded defect: a deletion does not hide what comes after it.            *)
FindNextUserEntryShowsDeleted(start, skipping, skip) ==
    LET step(s) ==
            LET e == MergeEntry(s.m)
                on == MergeNext(s.m)
                shown == e.seq <= sequence /\ e.type = "value" /\ ~(s.skipping /\ e.key <= s.skip)
            IN  IF shown THEN [s EXCEPT !.done = TRUE, !.valid = TRUE]
                ELSE [s EXCEPT !.m = on, !.done = ~MergeValid(on)]
    IN  Repeat(step, [m |-> start, skipping |-> skipping, skip |-> skip, done |-> FALSE,
                      valid |-> FALSE])

FindNextUserEntry(start, skipping, skip) ==
    LET step(s) ==
            LET e == MergeEntry(s.m)
                on == MergeNext(s.m)
                hides == e.seq <= sequence /\ e.type = "deletion"
                shown == e.seq <= sequence /\ e.type = "value" /\ ~(s.skipping /\ e.key <= s.skip)
            IN  IF shown THEN [s EXCEPT !.done = TRUE, !.valid = TRUE]
                ELSE [s EXCEPT !.m = on, !.done = ~MergeValid(on),
                               !.skipping = @ \/ hides, !.skip = IF hides THEN e.key ELSE @]
    IN  Repeat(step, [m |-> start, skipping |-> skipping, skip |-> skip, done |-> FALSE,
                      valid |-> FALSE])

ShowForward(m, skipping, skip) ==
    LET s == FindNextUserEntry(m, skipping, skip)
    IN  /\ MoveTo(s.m)
        /\ direction' = "forward" /\ valid' = s.valid
        /\ saved_key' = 0

(* Backward the last entry met of a key is its newest: a deletion as the   *)
(* newest lets the search go on.                                           *)
FindPrevUserEntry(start, key, value) ==
    LET step(s) ==
            LET e == MergeEntry(s.m)
                on == MergePrev(s.m)
                seen == e.seq <= sequence
                stop == seen /\ s.type # "deletion" /\ e.key < s.key
                go == [s EXCEPT !.m = on, !.done = ~MergeValid(on)]
            IN  IF stop THEN [s EXCEPT !.done = TRUE]
                ELSE IF ~seen THEN go
                ELSE [go EXCEPT !.type = e.type, !.key = IF e.type = "deletion" THEN 0 ELSE e.key,
                                !.value = IF e.type = "deletion" THEN 0 ELSE e.seq]
    IN  Repeat(step, [m |-> start, type |-> "deletion", key |-> key, value |-> value,
                      done |-> ~MergeValid(start)])

ShowReverse(m, key, value) ==
    LET s == FindPrevUserEntry(m, key, value)
        found == s.type # "deletion"
    IN  /\ MoveTo(s.m)
        /\ valid' = found
        /\ direction' = IF found THEN "reverse" ELSE "forward"
        /\ saved_key' = IF found THEN s.key ELSE 0
        /\ saved_value' = IF found THEN s.value ELSE 0

-----------------------------------------------------------------------------
(* What the snapshot shows: the keys whose newest entry is a value.        *)
Newest(k) == First({e \in AllEntries : e.key = k /\ e.seq <= sequence})
Shown == {k \in Keys : Newest(k) # None /\ Newest(k).type = "value"}
FirstShown(S) == IF S = {} THEN 0 ELSE Min(S)
LastShown(S) == IF S = {} THEN 0 ELSE Max(S)

(* The memtable holds the latest writes, a table whatever went into it.    *)
Init ==
    /\ \E f \in [1..StartSeq -> [key : Keys, type : {"value", "deletion"}]],
          place \in [1..StartSeq -> Children] :
          /\ \A s, t \in 1..StartSeq : s < t /\ place[s] = 0 => place[t] = 0
          /\ child = [c \in Children |->
                 {[key |-> f[s].key, seq |-> s, type |-> f[s].type] : s \in {t \in 1..StartSeq : place[t] = c}}]
    /\ last_sequence = StartSeq
    /\ sequence \in 1..StartSeq
    /\ cursor = [c \in Children |-> None] /\ current = -1 /\ merge_direction = "forward"
    /\ direction = "forward" /\ valid = FALSE /\ saved_key = 0 /\ saved_value = 0
    /\ expected = 0

(* A write while the iterator is in use.                                   *)
Write(k, type) ==
    /\ last_sequence < MaxSeq
    /\ last_sequence' = last_sequence + 1
    /\ child' = [child EXCEPT ![0] = @ \cup {[key |-> k, seq |-> last_sequence', type |-> type]}]
    /\ UNCHANGED <<sequence, merge, dbiter, expected>>

Started(m, key) ==
    IF MergeValid(m) THEN ShowForward(m, FALSE, 0)
    ELSE MoveTo(m) /\ direction' = "forward" /\ valid' = FALSE /\ saved_key' = key

SeekToFirst ==
    /\ Started(MergeFirst, saved_key) /\ saved_value' = 0
    /\ expected' = FirstShown(Shown)
    /\ UNCHANGED <<child, last_sequence, sequence>>

Seek(k) ==
    /\ Started(MergeSeek([key |-> k, seq |-> sequence]), k) /\ saved_value' = 0
    /\ expected' = FirstShown({s \in Shown : s >= k})
    /\ UNCHANGED <<child, last_sequence, sequence>>

SeekToLast ==
    /\ ShowReverse(MergeLast, saved_key, 0)
    /\ expected' = LastShown(Shown)
    /\ UNCHANGED <<child, last_sequence, sequence>>

(* DBIter::Next.  Turning round, it first steps into the key's entries.    *)
StepNext ==
    /\ valid
    /\ IF direction = "forward"
       THEN ShowForward(Merged, TRUE, MergeEntry(Merged).key)
       ELSE LET m == IF MergeValid(Merged) THEN MergeNext(Merged) ELSE MergeFirst
            IN  IF MergeValid(m) THEN ShowForward(m, TRUE, saved_key)
                ELSE MoveTo(m) /\ direction' = "forward" /\ valid' = FALSE /\ saved_key' = 0
    /\ expected' = FirstShown({s \in Shown : s > expected})
    /\ UNCHANGED <<child, last_sequence, sequence, saved_value>>

(* Turning round, back to the first entry of an earlier key.               *)
ScanBack(m, k) ==
    Repeat(LAMBDA s : LET on == MergePrev(s.m)
                      IN  [m |-> on, done |-> ~MergeValid(on) \/ MergeEntry(on).key < k],
           [m |-> m, done |-> FALSE])

Prev ==
    /\ valid
    /\ IF direction = "reverse"
       THEN ShowReverse(Merged, saved_key, saved_value)
       ELSE LET k == MergeEntry(Merged).key
                s == ScanBack(Merged, k)
            IN  IF MergeValid(s.m) THEN ShowReverse(s.m, k, saved_value)
                ELSE /\ MoveTo(s.m) /\ valid' = FALSE /\ saved_key' = 0 /\ saved_value' = 0
                     /\ UNCHANGED direction
    /\ expected' = LastShown({s \in Shown : s < expected})
    /\ UNCHANGED <<child, last_sequence, sequence>>

Next ==
    \/ \E k \in Keys, type \in {"value", "deletion"} : Write(k, type)
    \/ SeekToFirst \/ SeekToLast \/ StepNext \/ Prev
    \/ \E k \in Keys : Seek(k)

Spec == Init /\ [][Next]_vars

-----------------------------------------------------------------------------
TypeOK ==
    /\ \A c \in Children : child[c] \subseteq Entries /\ cursor[c] \in child[c] \cup {None}
    /\ current \in Children \cup {-1}
    /\ direction \in {"forward", "reverse"} /\ merge_direction \in {"forward", "reverse"}
    /\ valid \in BOOLEAN /\ expected \in Keys \cup {0}

Key == IF direction = "forward" THEN MergeEntry(Merged).key ELSE saved_key
Value == IF direction = "forward" THEN MergeEntry(Merged).seq ELSE saved_value

(* However it got there, and whatever was written meanwhile, the iterator  *)
(* shows the key it should, with the value of its snapshot.                *)
ShowsItsSnapshot ==
    /\ valid <=> expected # 0
    /\ valid => Key = expected /\ Value = Newest(expected).seq
=============================================================================
