------------------------------ MODULE SkipList ------------------------------
(***************************************************************************)
(* The memtable's skip list: one writer links a node level by level while  *)
(* readers, without a lock, walk the same links.                           *)
(*                                                                         *)
(* A node is its key; 0 is head_ and Null the end.  Each load or store of  *)
(* a link is a step.  Links are stored with release and loaded with        *)
(* acquire, so a reader sees a node's own links before it sees the node;   *)
(* max_height_ is relaxed: a reader may get any value it has had.          *)
(***************************************************************************)
EXTENDS Integers, Sequences, FiniteSets, FiniteSetsExt

CONSTANTS Keys, MaxHeight, Readers

SkipListAssumption == Keys \subseteq Nat \ {0} /\ MaxHeight \in Nat \ {0}

Null == Max(Keys \cup {0}) + 1
Nodes == Keys \cup {0}
Levels == 0..(MaxHeight - 1)

VARIABLES
    next,          \* next_[level] of each node
    max_height,
    writer,        \* [key, height, prev, level] of Insert; key 0: none
    reader         \* of each reader: [op, key, x, level, seen, found]

vars == <<next, max_height, writer, reader>>

(* seen: keys in the list when the search began; found: its result or -1.  *)
Idle == [op |-> "none", key |-> 0, x |-> 0, level |-> 0, seen |-> {}, found |-> -1]
NoInsert == [key |-> 0, height |-> 0, prev |-> <<>>, level |-> 0]

Init ==
    /\ next = [n \in Nodes |-> [l \in Levels |-> Null]]
    /\ max_height = 1
    /\ writer = NoInsert
    /\ reader = [r \in Readers |-> Idle]

(* The nodes reached by the links of a level.                              *)
Reached(level) ==
    LET walk[n \in 0..Cardinality(Nodes)] ==
            IF n = 0 THEN {0} ELSE walk[n - 1] \cup ({next[m][level] : m \in walk[n - 1]} \ {Null})
    IN  walk[Cardinality(Nodes)] \ {0}

InList == Reached(0)

-----------------------------------------------------------------------------
(* FindGreaterOrEqual by the writer, who sees its own stores: the last     *)
(* node before the key on every level.  Above the height that is head_.    *)
Prev(key) == [l \in Levels |-> IF l >= max_height THEN 0
                               ELSE Max({n \in Reached(l) \cup {0} : n < key})]

(* Insert, up to the store of max_height_.                                 *)
Insert(key, height) ==
    /\ writer.key = 0 /\ key \notin InList
    /\ writer' = [key |-> key, height |-> height, prev |-> Prev(key), level |-> 0]
    /\ max_height' = Max({height, max_height})
    /\ UNCHANGED <<next, reader>>

(* Seeded defect: from the top level down.                                 *)
LinkTopDown ==
    LET w == writer
        l == w.height - 1 - w.level
    IN  /\ w.key # 0 /\ w.level < w.height
        /\ next' = [next EXCEPT ![w.key][l] = next[w.prev[l]][l], ![w.prev[l]][l] = w.key]
        /\ writer' = IF w.level + 1 = w.height THEN NoInsert ELSE [w EXCEPT !.level = @ + 1]
        /\ UNCHANGED <<max_height, reader>>

(* The new node's link of a level, which nobody sees yet, and the link to  *)
(* it from the one before.                                                 *)
Link ==
    LET w == writer
        l == w.level
    IN  /\ w.key # 0 /\ l < w.height
        /\ next' = [next EXCEPT ![w.key][l] = next[w.prev[l]][l], ![w.prev[l]][l] = w.key]
        /\ writer' = IF l + 1 = w.height THEN NoInsert ELSE [w EXCEPT !.level = @ + 1]
        /\ UNCHANGED <<max_height, reader>>

-----------------------------------------------------------------------------
(* Seek, Prev and SeekToLast of an iterator begin at head_, on a level     *)
(* they take to be the highest.                                            *)
Begin(r, op, key, height) ==
    /\ reader[r].op = "none"
    /\ height \in 1..max_height
    /\ reader' = [reader EXCEPT ![r] = [op |-> op, key |-> key, x |-> 0, level |-> height - 1,
                                        seen |-> InList, found |-> -1]]
    /\ UNCHANGED <<next, max_height, writer>>

Further(op, key, n) ==
    CASE op \in {"FindGreaterOrEqual", "FindLessThan"} -> n # Null /\ n < key
      [] op = "FindLast" -> n # Null

(* One link: on along it, or down, or the search is over.                  *)
Walk(r) ==
    LET s == reader[r]
        n == next[s.x][s.level]
    IN  /\ s.op # "none" /\ s.found = -1
        /\ reader' = [reader EXCEPT ![r] =
               IF Further(s.op, s.key, n) THEN [s EXCEPT !.x = n]
               ELSE IF s.level > 0 THEN [s EXCEPT !.level = @ - 1]
               ELSE [s EXCEPT !.found = IF s.op = "FindGreaterOrEqual" THEN n ELSE s.x]]
        /\ UNCHANGED <<next, max_height, writer>>

End(r) ==
    /\ reader[r].found # -1
    /\ reader' = [reader EXCEPT ![r] = Idle]
    /\ UNCHANGED <<next, max_height, writer>>

Next ==
    \/ \E key \in Keys, height \in 1..MaxHeight : Insert(key, height)
    \/ Link
    \/ \E r \in Readers :
          \/ \E op \in {"FindGreaterOrEqual", "FindLessThan"}, key \in Keys, height \in 1..MaxHeight :
                Begin(r, op, key, height)
          \/ \E height \in 1..MaxHeight : Begin(r, "FindLast", 0, height)
          \/ Walk(r) \/ End(r)

Spec == Init /\ [][Next]_vars

-----------------------------------------------------------------------------
TypeOK ==
    /\ next \in [Nodes -> [Levels -> Nodes \cup {Null}]]
    /\ max_height \in 1..MaxHeight
    /\ \A r \in Readers : reader[r].x \in Nodes

(* A search passes over no node that was in the list when it began, and    *)
(* returns one that is in the list (or its end).                           *)
SearchesSeeTheList ==
    \A r \in Readers : reader[r].found # -1 =>
        LET s == reader[r] IN
        CASE s.op = "FindGreaterOrEqual" ->
                 /\ s.found >= s.key /\ s.found \in InList \cup {Null}
                 /\ \A k \in s.seen : k >= s.key => s.found <= k
          [] s.op = "FindLessThan" ->
                 /\ s.found < s.key /\ s.found \in InList \cup {0}
                 /\ \A k \in s.seen : k < s.key => s.found >= k
          [] OTHER -> s.found \in InList \cup {0} /\ \A k \in s.seen : s.found >= k

(* Every level is a sorted part of the one below, at every moment.         *)
LevelsNest ==
    /\ \A l \in Levels \ {0} : Reached(l) \subseteq Reached(l - 1)
    /\ \A n \in InList \cup {0}, l \in Levels : next[n][l] > n
=============================================================================
