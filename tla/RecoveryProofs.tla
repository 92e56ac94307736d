--------------------------- MODULE RecoveryProofs ---------------------------
(***************************************************************************)
(* The files of leveldb across crashes (Recovery), for any number of       *)
(* writes, files, failures and crashes.                                    *)
(*                                                                         *)
(* None of what is claimed is inductive: a crash may bring back any of the *)
(* versions that the unsynced end of the manifest describes, with any      *)
(* front of the unsynced end of each log.  The invariant (RecInv) says of  *)
(* every such version that it can be opened, that it still has what was    *)
(* acknowledged, and that it shows the same data as the last one; of every *)
(* set of records that it has the earlier acknowledged writes of a log     *)
(* with the later ones; and of every step of the process what it has read, *)
(* written and named so far, up to the edit that is on its way.  From it   *)
(* follows that what can be read has all that was promised, and with that  *)
(* that every step of the files is one of StoreContract or a stutter.      *)
(***************************************************************************)
EXTENDS MCDurability, ListLemmas, FiniteSetTheorems, SequenceTheorems, TLAPS

-----------------------------------------------------------------------------
(* The files across crashes (Recovery).                                    *)

(* Records and edits; what a reader gets out of a log, or of the part of   *)
(* it that is on the disk for good; what a version of the database holds.  *)
Rec == [id : Nat \ {0}, seq : Nat]
EditRec == [add : SUBSET Nat, del : SUBSET Nat, log : Nat, next : Nat, seq : Nat]
Pending == [add : SUBSET Nat, del : SUBSET Nat, log : Nat]

Read(recs) == R!Readable(recs)
Whole(recs, i) == recs[i] # R!Torn
Synced(n) == SubSeq(r_logs[n].recs, 1, r_logs[n].synced)

LogData(from) == UNION {Read(r_logs[n].recs) : n \in {m \in DOMAIN r_logs : m >= from}}
SyncedData(from) == UNION {Read(Synced(n)) : n \in {m \in DOMAIN r_logs : m >= from}}
TablesOf(files) == UNION {r_tables[n] : n \in files}
Data(v) == TablesOf(v.files) \cup LogData(v.log)

Vis(X) == {w \in X : w.id \notin r_exposed}
HasId(X, i) == \E w \in X : w.id = i

(* The versions that a crash may leave: those after the edits that are     *)
(* synced, and after some or all of the others.                            *)
Current == r_manifests[r_current].recs
LastVersion == R!Apply(Current)
Survivors ==
    IF r_current = 0 THEN {}
    ELSE {R!Apply(SubSeq(Current, 1, k)) : k \in r_manifests[r_current].synced..Len(Current)}

-----------------------------------------------------------------------------
(* Readers of logs.                                                        *)

(* A reader returns the records that are whole.                            *)
LEMMA ReadIs ==
    ASSUME NEW recs \in Seq(Rec \cup {R!Torn})
    PROVE  \A x : x \in Read(recs) <=> \E i \in 1..Len(recs) : recs[i] = x /\ Whole(recs, i)
<1>1. DOMAIN recs = 1..Len(recs)
  BY LenProperties
<1> QED
  BY <1>1 DEF Read, R!Readable, R!Range, Whole

(* No torn record is read.                                                 *)
LEMMA ReadTyped ==
    ASSUME NEW recs \in Seq(Rec \cup {R!Torn})
    PROVE  Read(recs) \subseteq Rec /\ Read(recs) \subseteq R!Range(recs)
<1>1. Len(recs) \in Nat /\ DOMAIN recs = 1..Len(recs) /\ \A i \in 1..Len(recs) : recs[i] \in Rec \cup {R!Torn}
  BY LenProperties, ElementOfSeq
<1>2. \A i \in 1..Len(recs) : Whole(recs, i) => recs[i] \in Rec
  BY <1>1 DEF Whole
<1> QED
  BY <1>1, <1>2, ReadIs DEF R!Range

(* The front of a log.                                                     *)
LEMMA FrontFacts ==
    ASSUME NEW S, NEW recs \in Seq(S), NEW k \in 0..Len(recs)
    PROVE  /\ SubSeq(recs, 1, k) \in Seq(S) /\ Len(SubSeq(recs, 1, k)) = k
           /\ \A i \in 1..k : SubSeq(recs, 1, k)[i] = recs[i]
<1>1. PICK n \in Nat : n = Len(recs)
  BY LenProperties
<1>2. \A i \in 1..k : recs[i] \in S
  BY <1>1, ElementOfSeq
<1>3. PICK s : s = SubSeq(recs, 1, k)
  OBVIOUS
<1>4. k \in Nat
  BY <1>1
<1>5. /\ s \in Seq(S) /\ Len(s) = IF 1 <= k THEN k - 1 + 1 ELSE 0
      /\ \A i \in 1..(k - 1 + 1) : s[i] = recs[1 + i - 1]
  BY <1>2, <1>3, <1>4, SubSeqProperties
<1>6. Len(s) = k /\ \A i \in 1..k : s[i] = recs[i]
  BY <1>4, <1>5
<1> QED
  BY <1>3, <1>5, <1>6

(* What is read of the front.                                              *)
LEMMA ReadFront ==
    ASSUME NEW recs \in Seq(Rec \cup {R!Torn}), NEW k \in 0..Len(recs)
    PROVE  \A x : x \in Read(SubSeq(recs, 1, k)) <=>
                     \E i \in 1..k : recs[i] = x /\ Whole(recs, i)
<1>1. PICK s \in Seq(Rec \cup {R!Torn}) : s = SubSeq(recs, 1, k)
  BY FrontFacts
<1>2. Len(s) = k /\ \A i \in 1..k : s[i] = recs[i]
  BY <1>1, FrontFacts
<1>3. k \in Nat
  BY LenProperties
<1>4. \A i \in 1..k : Whole(s, i) <=> Whole(recs, i)
  BY <1>2 DEF Whole
<1>5. \A x : x \in Read(s) <=> \E i \in 1..k : s[i] = x /\ Whole(s, i)
  BY <1>2, ReadIs
<1> QED
  BY <1>1, <1>2, <1>4, <1>5

(* What is read of the front is read of the whole.                         *)
LEMMA FrontIsRead ==
    ASSUME NEW recs \in Seq(Rec \cup {R!Torn}), NEW k \in 0..Len(recs)
    PROVE  Read(SubSeq(recs, 1, k)) \subseteq Read(recs)
<1>1. Len(recs) \in Nat
  BY LenProperties
<1> QED
  BY <1>1, ReadFront, ReadIs

(* A record behind the others is read unless it is torn.                   *)
LEMMA ReadAppend ==
    ASSUME NEW recs \in Seq(Rec \cup {R!Torn}), NEW w \in Rec \cup {R!Torn}
    PROVE  /\ Append(recs, w) \in Seq(Rec \cup {R!Torn})
           /\ Read(Append(recs, w)) = IF w = R!Torn THEN Read(recs) ELSE Read(recs) \cup {w}
<1>1. PICK n \in Nat : n = Len(recs)
  BY LenProperties
<1>2. PICK s \in Seq(Rec \cup {R!Torn}) : s = Append(recs, w)
  BY AppendProperties
<1>3. Len(s) = n + 1 /\ s[n + 1] = w /\ \A i \in 1..n : s[i] = recs[i]
  BY <1>1, <1>2, AppendProperties
<1>4. \A x : x \in Read(s) <=> \/ \E i \in 1..n : recs[i] = x /\ Whole(recs, i)
                               \/ x = w /\ w # R!Torn
  <2>1. \A x : x \in Read(s) <=> \E i \in 1..(n + 1) : s[i] = x /\ Whole(s, i)
    BY <1>3, ReadIs
  <2> QED
    BY <1>3, <2>1 DEF Whole
<1>5. \A x : x \in Read(recs) <=> \E i \in 1..n : recs[i] = x /\ Whole(recs, i)
  BY <1>1, ReadIs
<1> QED
  BY <1>2, <1>4, <1>5

(* An empty log has no records.                                            *)
LEMMA ReadNothing == Read(<<>>) = {}
<1>1. PICK s \in Seq(Rec \cup {R!Torn}) : s = <<>>
  BY EmptySeq
<1>2. \A x : x \notin Read(s)
  <2>1. Len(s) = 0
    BY <1>1, EmptySeq
  <2>2. \A x : x \in Read(s) <=> \E i \in 1..Len(s) : s[i] = x /\ Whole(s, i)
    BY ReadIs
  <2>3. \A i : i \notin 1..0
    OBVIOUS
  <2> QED
    BY <2>1, <2>2, <2>3
<1> QED
  BY <1>1, <1>2

-----------------------------------------------------------------------------
(* Manifests.                                                              *)

(* The fields of a version.                                                *)
LEMMA ApplyFields ==
    ASSUME NEW recs \in Seq(EditRec), NEW n \in Nat, n = Len(recs)
    PROVE  /\ \A f : f \in R!Apply(recs).files <=>
                  /\ \E i \in 1..n : f \in recs[i].add
                  /\ \A i \in 1..n : f \in recs[i].del => \E k \in i..n : f \in recs[k].add
           /\ (\A i \in 1..n : recs[i].next = 0) =>
                  R!Apply(recs).log = 0 /\ R!Apply(recs).next = 0 /\ R!Apply(recs).seq = 0
           /\ \A i \in 1..n : recs[i].next # 0 /\ (\A j \in (i + 1)..n : recs[j].next = 0) =>
                  /\ R!Apply(recs).log = recs[i].log
                  /\ R!Apply(recs).next = recs[i].next
                  /\ R!Apply(recs).seq = recs[i].seq
<1> DEFINE counted == {i \in 1..n : recs[i].next # 0}
           last == IF counted = {} THEN R!Edit({}, {}, 0, 0, 0) ELSE recs[R!Max(counted)]
           files == {f \in UNION {e.add : e \in R!Range(recs)} :
                        \A i \in 1..n : f \in recs[i].del => \E k \in i..n : f \in recs[k].add}
<1>1. DOMAIN recs = 1..n
  BY LenProperties
<1>2. R!Apply(recs) = [files |-> files, log |-> last.log, next |-> last.next, seq |-> last.seq]
  BY DEF R!Apply
<1>3. /\ R!Apply(recs).files = files /\ R!Apply(recs).log = last.log
      /\ R!Apply(recs).next = last.next /\ R!Apply(recs).seq = last.seq
  BY <1>2
<1>4. \A f : f \in R!Apply(recs).files <=>
                  /\ \E i \in 1..n : f \in recs[i].add
                  /\ \A i \in 1..n : f \in recs[i].del => \E k \in i..n : f \in recs[k].add
  BY <1>1, <1>3 DEF R!Range
<1>5. ASSUME \A i \in 1..n : recs[i].next = 0
      PROVE  last.log = 0 /\ last.next = 0 /\ last.seq = 0
  BY <1>5 DEF R!Edit
<1>6. ASSUME NEW i \in 1..n, recs[i].next # 0, \A j \in (i + 1)..n : recs[j].next = 0
      PROVE  last = recs[i]
  <2>1. i \in counted /\ \A y \in counted : i >= y
    BY <1>6
  <2>2. R!Max(counted) = i
    <3>1. counted \subseteq Nat
      OBVIOUS
    <3> HIDE DEF counted
    <3>2. PICK m \in counted : m = R!Max(counted) /\ \A y \in counted : m >= y
      BY <2>1 DEF R!Max
    <3> QED
      BY <2>1, <3>1, <3>2
  <2> QED
    BY <2>1, <2>2
<1> QED
  BY <1>3, <1>4, <1>5, <1>6

(* The version that a manifest describes has sets of numbers and numbers.  *)
LEMMA ApplyTyped ==
    ASSUME NEW recs \in Seq(EditRec)
    PROVE  /\ R!Apply(recs).files \subseteq Nat /\ R!Apply(recs).log \in Nat
           /\ R!Apply(recs).next \in Nat /\ R!Apply(recs).seq \in Nat
<1>1. PICK n \in Nat : n = Len(recs)
  BY LenProperties
<1>2. \A i \in 1..n : recs[i] \in EditRec
  BY <1>1, ElementOfSeq
<1>3. \A i \in 1..n : /\ recs[i].add \subseteq Nat /\ recs[i].log \in Nat
                      /\ recs[i].next \in Nat /\ recs[i].seq \in Nat
  BY <1>2 DEF EditRec
<1>4. R!Apply(recs).files \subseteq Nat
  BY <1>1, <1>3, ApplyFields
<1>5. CASE \A i \in 1..n : recs[i].next = 0
  <2>1. R!Apply(recs).log = 0 /\ R!Apply(recs).next = 0 /\ R!Apply(recs).seq = 0
    BY <1>1, <1>5, ApplyFields
  <2> QED
    BY <1>4, <2>1
<1>6. CASE ~\A i \in 1..n : recs[i].next = 0
  <2> DEFINE U == {i \in 1..n : recs[i].next # 0}
  <2>1. PICK i \in U : \A y \in U : y <= i
    <3>1. U \subseteq 1..n /\ U # {}
      BY <1>6
    <3> HIDE DEF U
    <3> QED
      BY <3>1, GreatestNatural
  <2>2. i \in 1..n /\ recs[i].next # 0 /\ \A j \in (i + 1)..n : recs[j].next = 0
    BY <2>1
  <2>3. /\ R!Apply(recs).log = recs[i].log /\ R!Apply(recs).next = recs[i].next
        /\ R!Apply(recs).seq = recs[i].seq
    BY <1>1, <2>2, ApplyFields
  <2> QED
    BY <1>3, <1>4, <2>2, <2>3
<1> QED
  BY <1>5, <1>6

(* One more edit: its files come and go, its counters count.               *)
LEMMA ApplyAppend ==
    ASSUME NEW recs \in Seq(EditRec), NEW e \in EditRec
    PROVE  /\ Append(recs, e) \in Seq(EditRec)
           /\ R!Apply(Append(recs, e)).files = (R!Apply(recs).files \ e.del) \cup e.add
           /\ e.next # 0 => /\ R!Apply(Append(recs, e)).log = e.log
                            /\ R!Apply(Append(recs, e)).next = e.next
                            /\ R!Apply(Append(recs, e)).seq = e.seq
<1>1. PICK n \in Nat : n = Len(recs)
  BY LenProperties
<1>2. PICK s \in Seq(EditRec) : s = Append(recs, e)
  BY AppendProperties
<1>3. Len(s) = n + 1 /\ s[n + 1] = e /\ \A i \in 1..n : s[i] = recs[i]
  BY <1>1, <1>2, AppendProperties
<1>4. n + 1 \in Nat
  OBVIOUS
<1>5. \A f : f \in R!Apply(s).files <=>
                  /\ \E i \in 1..(n + 1) : f \in s[i].add
                  /\ \A i \in 1..(n + 1) : f \in s[i].del => \E k \in i..(n + 1) : f \in s[k].add
  BY <1>3, <1>4, ApplyFields
<1>6. \A f : f \in R!Apply(recs).files <=>
                  /\ \E i \in 1..n : f \in recs[i].add
                  /\ \A i \in 1..n : f \in recs[i].del => \E k \in i..n : f \in recs[k].add
  BY <1>1, ApplyFields
<1>7. ASSUME NEW f
      PROVE  f \in R!Apply(s).files <=> f \in (R!Apply(recs).files \ e.del) \cup e.add
  <2>1. CASE f \in e.add
    <3>1. \A i \in 1..(n + 1) : n + 1 \in i..(n + 1)
      OBVIOUS
    <3> QED
      BY <1>3, <1>5, <2>1, <3>1
  <2>2. CASE f \notin e.add
    <3>1. \A i \in 1..n : (\E k \in i..(n + 1) : f \in s[k].add) <=> \E k \in i..n : f \in recs[k].add
      BY <1>3, <2>2
    <3>2. (\E k \in (n + 1)..(n + 1) : f \in s[k].add) <=> FALSE
      BY <1>3, <2>2
    <3>3. (\E i \in 1..(n + 1) : f \in s[i].add) <=> \E i \in 1..n : f \in recs[i].add
      BY <1>3, <2>2
    <3>4. (\A i \in 1..(n + 1) : f \in s[i].del => \E k \in i..(n + 1) : f \in s[k].add)
             <=> /\ \A i \in 1..n : f \in recs[i].del => \E k \in i..n : f \in recs[k].add
                 /\ f \notin e.del
      <4>1. \A i : i \in 1..(n + 1) <=> i \in 1..n \/ i = n + 1
        OBVIOUS
      <4> QED
        BY <1>3, <3>1, <3>2, <4>1
    <3> QED
      BY <1>5, <1>6, <2>2, <3>3, <3>4
  <2> QED
    BY <2>1, <2>2
<1>8. ASSUME e.next # 0
      PROVE  R!Apply(s).log = e.log /\ R!Apply(s).next = e.next /\ R!Apply(s).seq = e.seq
  <2>1. n + 1 \in 1..(n + 1) /\ \A j \in (n + 1 + 1)..(n + 1) : s[j].next = 0
    OBVIOUS
  <2> QED
    BY <1>3, <1>4, <1>8, <2>1, ApplyFields
<1> QED
  BY <1>2, <1>7, <1>8

(* A manifest without records describes a version that has nothing.        *)
LEMMA ApplyNothing ==
    /\ <<>> \in Seq(EditRec) /\ R!Apply(<<>>).files = {}
    /\ R!Apply(<<>>).log = 0 /\ R!Apply(<<>>).next = 0 /\ R!Apply(<<>>).seq = 0
<1>1. PICK s \in Seq(EditRec) : s = <<>>
  BY EmptySeq
<1>2. PICK n \in Nat : n = Len(s) /\ n = 0
  BY <1>1, EmptySeq
<1>3. \A i : i \notin 1..n
  BY <1>2
<1>4. \A f : f \in R!Apply(s).files => \E i \in 1..n : f \in s[i].add
  BY <1>2, ApplyFields
<1>5. R!Apply(s).log = 0 /\ R!Apply(s).next = 0 /\ R!Apply(s).seq = 0
  BY <1>2, <1>3, ApplyFields
<1>6. R!Apply(s).files \subseteq {}
  BY <1>3, <1>4
<1> QED
  BY <1>1, <1>5, <1>6

-----------------------------------------------------------------------------
(* What an instance counts is what its module counts.                      *)
LEMMA CardinalityAgain == \A S : R!Cardinality(S) = Cardinality(S)
  BY DEF R!Cardinality, Cardinality

(* The logs to replay are those from a number on, each once.               *)
LEMMA LogsFromFacts ==
    ASSUME DOMAIN r_logs \subseteq Nat, IsFiniteSet(DOMAIN r_logs), NEW from \in Nat
    PROVE  /\ R!LogsFrom(from) \in Seq(Nat)
           /\ R!Range(R!LogsFrom(from)) = {m \in DOMAIN r_logs : m >= from}
<1> DEFINE S == {m \in DOMAIN r_logs : m >= from}
           below(m) == {k \in S : k < m}
           at(i) == CHOOSE m \in S : R!Cardinality(below(m)) = i - 1
           rank == [m \in S |-> Cardinality(below(m)) + 1]
<1>1. S \subseteq Nat /\ IsFiniteSet(S)
  BY FS_Subset
<1>2. PICK c \in Nat : c = Cardinality(S)
  BY <1>1, FS_CardinalityType
<1>3. \A m \in S : IsFiniteSet(below(m)) /\ Cardinality(below(m)) \in 0..(c - 1)
  <2> HIDE DEF S
  <2> SUFFICES ASSUME NEW m \in S
               PROVE  IsFiniteSet(below(m)) /\ Cardinality(below(m)) \in 0..(c - 1)
    OBVIOUS
  <2>1. below(m) \subseteq S \ {m}
    BY <1>1
  <2>2. IsFiniteSet(S \ {m}) /\ Cardinality(S \ {m}) = c - 1
    BY <1>1, <1>2, FS_RemoveElement
  <2>3. IsFiniteSet(below(m)) /\ Cardinality(below(m)) <= c - 1
    BY <2>1, <2>2, FS_Subset
  <2>4. Cardinality(below(m)) \in Nat
    BY <2>3, FS_CardinalityType
  <2> QED
    BY <1>2, <2>3, <2>4
<1>4. \A l, m \in S : l < m => Cardinality(below(l)) < Cardinality(below(m))
  <2> SUFFICES ASSUME NEW l \in S, NEW m \in S, l < m
               PROVE  Cardinality(below(l)) < Cardinality(below(m))
    OBVIOUS
  <2>1. l \in below(m) /\ l \notin below(l) /\ \A k \in below(l) : k \in below(m)
    BY <1>1
  <2>2. PICK X : X = below(l)
    OBVIOUS
  <2>3. PICK Y : Y = below(m)
    OBVIOUS
  <2>4. X \in SUBSET Y /\ X # Y
    BY <2>1, <2>2, <2>3
  <2>5. IsFiniteSet(Y) /\ Cardinality(X) \in Nat /\ Cardinality(Y) \in Nat
    <3> HIDE DEF S, below, at, rank
    <3> QED
      BY <1>2, <1>3, <2>2, <2>3
  <2>6. Cardinality(X) <= Cardinality(Y) /\ (Cardinality(Y) = Cardinality(X) => Y = X)
    BY ONLY <2>4, <2>5, FS_Subset
  <2> QED
    BY <2>2, <2>3, <2>4, <2>5, <2>6
<1>5. rank \in Injection(S, 1..c)
  <2> HIDE DEF S
  <2>1. \A m \in S : rank[m] \in 1..c
    BY <1>2, <1>3
  <2>2. \A l, m \in S : rank[l] = rank[m] => l = m
    <3>1. \A l, m \in S : l < m => rank[l] < rank[m]
      <4>1. \A m \in S : rank[m] = Cardinality(below(m)) + 1 /\ Cardinality(below(m)) \in Int
        BY <1>2, <1>3
      <4> HIDE DEF rank, below
      <4> QED
        BY <1>4, <4>1
    <3>2. \A l, m \in S : l = m \/ l < m \/ m < l
      BY <1>1
    <3>3. \A l \in S : rank[l] \in Int
      BY <2>1
    <3> HIDE DEF rank, below, at
    <3> QED
      BY <3>1, <3>2, <3>3
  <2> QED
    BY <2>1, <2>2 DEF Injection, IsInjective
<1>6. rank \in Surjection(S, 1..c)
  <2>1. IsFiniteSet(1..c) /\ Cardinality(1..c) = c
    BY <1>2, FS_Interval
  <2> HIDE DEF S, rank
  <2> QED
    BY <1>2, <1>5, <2>1, FS_Injection
<1>7. \A i \in 1..c : \E m \in S : Cardinality(below(m)) = i - 1
  <2> HIDE DEF S
  <2>1. \A i \in 1..c : \E m \in S : rank[m] = i
    <3> HIDE DEF rank
    <3> QED
      BY <1>6 DEF Surjection
  <2>2. \A m \in S : rank[m] = Cardinality(below(m)) + 1 /\ Cardinality(below(m)) \in Int
    BY <1>2, <1>3
  <2> HIDE DEF rank, below
  <2> QED
    BY <1>2, <2>1, <2>2
<1>8. \A i \in 1..c : at(i) \in S /\ Cardinality(below(at(i))) = i - 1
  <2>1. \A i \in 1..c : \E m \in S : R!Cardinality(below(m)) = i - 1
    BY <1>7, CardinalityAgain
  <2>2. \A i \in 1..c : at(i) \in S /\ R!Cardinality(below(at(i))) = i - 1
    <3> HIDE DEF S, below
    <3> QED
      BY <2>1
  <2> QED
    BY <2>2, CardinalityAgain
<1>9. \A m \in S : \E i \in 1..c : at(i) = m
  <2> SUFFICES ASSUME NEW m \in S PROVE \E i \in 1..c : at(i) = m
    OBVIOUS
  <2>1. rank[m] \in 1..c /\ Cardinality(below(m)) = rank[m] - 1
    <3> HIDE DEF S
    <3> QED
      BY <1>2, <1>3
  <2>2. at(rank[m]) \in S /\ Cardinality(below(at(rank[m]))) = Cardinality(below(m))
    BY <1>8, <2>1
  <2>3. at(rank[m]) = m
    <3> HIDE DEF S, at, rank
    <3>1. PICK l \in S : l = at(rank[m])
      BY <2>2
    <3>2. ~(l < m) /\ ~(m < l)
      <4> HIDE DEF below
      <4>1. Cardinality(below(l)) = Cardinality(below(m)) /\ Cardinality(below(m)) \in Int
        BY <1>2, <1>3, <2>2, <3>1
      <4> QED
        BY <1>4, <3>1, <4>1
    <3> QED
      BY <1>1, <3>1, <3>2
  <2> QED
    BY <2>1, <2>3
<1>10. R!LogsFrom(from) = [i \in 1..c |-> at(i)]
  <2>1. R!Cardinality(S) = c
    BY <1>2, CardinalityAgain
  <2> QED
    BY <2>1 DEF R!LogsFrom
<1>11. \A i \in 1..c : at(i) \in Nat
  <2> HIDE DEF S, at
  <2> QED
    BY <1>1, <1>8
<1>12. [i \in 1..c |-> at(i)] \in Seq(Nat)
  <2> HIDE DEF at
  <2> QED
    BY <1>11, IsASeq
<1>13. R!Range([i \in 1..c |-> at(i)]) = S
  <2> HIDE DEF S, at
  <2> QED
    BY <1>8, <1>9 DEF R!Range
<1> QED
  BY <1>10, <1>12, <1>13

-----------------------------------------------------------------------------
(* The inductive invariant of recovery.                                    *)
DBRec ==
    [step : R!Steps, at : R!EditSteps, edit : {R!NoEdit} \cup Pending, mem : SUBSET Rec,
     imm : SUBSET Rec, log : Nat, log_number : Nat, files : SUBSET Nat, next_file : Nat,
     manifest : Nat, described : BOOLEAN, last_sequence : Nat, todo : Seq(Nat),
     bg_error : BOOLEAN]
AckRec == [id : Nat \ {0}, log : Nat, sync : BOOLEAN]

LogFile == [recs : Seq(Rec \cup {R!Torn}), synced : Nat]
Manifest == [recs : Seq(EditRec), synced : Nat]

LogsTyped ==
    /\ DOMAIN r_logs \subseteq Nat /\ IsFiniteSet(DOMAIN r_logs)
    /\ \A n \in DOMAIN r_logs : r_logs[n] \in LogFile /\ r_logs[n].synced <= Len(r_logs[n].recs)
ManifestsTyped ==
    /\ DOMAIN r_manifests \subseteq Nat \ {0}
    /\ \A n \in DOMAIN r_manifests :
          r_manifests[n] \in Manifest /\ r_manifests[n].synced <= Len(r_manifests[n].recs)
    /\ r_current \in Nat
    /\ r_current # 0 => r_current \in DOMAIN r_manifests
TablesTyped == \A n \in DOMAIN r_tables : r_tables[n] \subseteq Rec
GhostsTyped ==
    /\ r_acked \subseteq AckRec
    /\ r_exposed \subseteq Nat /\ r_cut \subseteq Nat /\ r_issued \in Nat

(* An edit is being made, with what it adds.                               *)
Editing == r_db.step = "logs" \/ r_db.at \in {"log", "sync", "point", "install"}
Added == IF Editing THEN r_db.edit.add ELSE {}
DBTyped == r_db \in DBRec /\ (Editing => r_db.edit \in Pending)

(* Ids are given out once, and what is acknowledged is only in its log.    *)
Old(X) == \A w \in X : w.id <= r_issued
LogsIssued ==
    /\ \A n \in DOMAIN r_logs : \A i \in 1..Len(r_logs[n].recs) : r_logs[n].recs[i].id <= r_issued
    /\ \A a \in r_acked : a.id <= r_issued
    /\ \A i \in r_exposed : i <= r_issued
TablesIssued == \A n \in DOMAIN r_tables : Old(r_tables[n])
MemIssued == Old(r_db.mem) /\ Old(r_db.imm)
OwnLog ==
    \A a \in r_acked, n \in DOMAIN r_logs : \A i \in 1..Len(r_logs[n].recs) :
        r_logs[n].recs[i].id = a.id => n = a.log

(* Whatever has an acknowledged write has the earlier ones of its log, but *)
(* for those behind a failed append.                                       *)
ClosedSet(X) ==
    \A a, b \in r_acked : a.log = b.log /\ a.id < b.id /\ a.id \notin r_exposed /\ HasId(X, b.id)
                             => HasId(X, a.id)
LogClosed(recs) ==
    \A i \in 1..Len(recs) : \A a, b \in r_acked :
        Whole(recs, i) /\ recs[i].id = b.id /\ a.log = b.log /\ a.id < b.id /\ a.id \notin r_exposed
            => \E j \in 1..i : recs[j].id = a.id
LogsClosed == \A n \in DOMAIN r_logs : LogClosed(r_logs[n].recs)
TablesClosed == \A n \in DOMAIN r_tables : ClosedSet(r_tables[n])
MemClosed == ClosedSet(r_db.mem) /\ ClosedSet(r_db.imm)

(* What is acknowledged can be found, except what crashes took and what    *)
(* stands behind a failed append; what is synced, after any crash.         *)
HasAcked(X) == \A a \in r_acked : a.id \notin r_cut \cup r_exposed => HasId(X, a.id)
HasSynced(X) == \A a \in r_acked : a.sync /\ a.id \notin r_exposed => HasId(X, a.id)

(* A version that a crash may leave can be opened and has it all.          *)
Sound(v) ==
    /\ v.files \subseteq DOMAIN r_tables
    /\ v.next # 0 => r_current < v.next /\ v.log < v.next
    /\ v.next = 0 => r_current = 1
    /\ \A n \in v.files : n < v.next
    /\ \A w \in TablesOf(v.files) : w.seq <= v.seq
    /\ HasAcked(Data(v))
    /\ HasSynced(TablesOf(v.files) \cup SyncedData(v.log))
    /\ \A a \in r_acked : a.log \in DOMAIN r_logs \/ a.log < v.log
Agrees(v) == v.next <= LastVersion.next /\ Vis(Data(v)) = Vis(Data(LastVersion))
VersionsSound == \A v \in Survivors : Sound(v) /\ Agrees(v)

(* What the next incarnation finds.                                        *)
Found == IF r_current = 0 THEN {} ELSE {w.id : w \in Vis(Data(LastVersion))}

(* No two writes that may still be found share a sequence number.          *)
InMemory == r_db.mem \cup r_db.imm \cup TablesOf(r_db.files)
Alive == InMemory \cup TablesOf(Added) \cup UNION {Data(v) : v \in Survivors}
Unique == \A w, x \in Alive : w.seq = x.seq => w = x

(* Where the process is.                                                   *)
Phase ==
    /\ r_db.step \in {"down", "corrupt", "current", "versions"} =>
          r_db = [R!Down EXCEPT !.step = r_db.step]
    /\ r_db.step = "logs" => r_db.at = "none" /\ ~r_db.described
    /\ r_db.step = "newlog" => /\ r_db.at \in {"log", "sync", "point", "install", "collect"}
                               /\ r_db.at \in {"log", "sync", "point"} <=> ~r_db.described
    /\ r_db.step = "open" => /\ r_db.at \in {"none", "log", "sync", "install", "collect"}
                             /\ r_db.described
    /\ r_db.step \notin {"down", "current"} => r_current # 0
    /\ r_current = 0 => DOMAIN r_logs = {} /\ r_acked = {}
    /\ r_db.step = "corrupt" => r_current = 1
    /\ r_db.step = "current" =>
          /\ r_current = 0 /\ 1 \in DOMAIN r_manifests
          /\ r_manifests[1] = R!File(<<R!Edit({}, {}, 0, 2, 0)>>, 0)

(* The last version is being recovered: what it needs is left alone, and   *)
(* the tables made of its logs are not in the way.                         *)
Recovering ==
    r_db.step = "logs" \/ (r_db.step = "newlog" /\ ~r_db.described) =>
        /\ LastVersion.next # 0
        /\ r_db.files = LastVersion.files /\ r_db.log_number = LastVersion.log
        /\ r_db.manifest = LastVersion.next /\ r_db.manifest < r_db.next_file
        /\ r_db.edit.del = {}
        /\ \A n \in r_db.edit.add : n \in DOMAIN r_tables /\ r_db.manifest < n /\ n < r_db.next_file
        /\ TablesOf(r_db.edit.add) \subseteq LogData(r_db.log_number)
Replaying ==
    r_db.step = "logs" =>
        /\ R!Range(r_db.todo) \subseteq {m \in DOMAIN r_logs : m >= r_db.log_number}
        /\ \A n \in DOMAIN r_logs :
              \/ n \in R!Range(r_db.todo)
              \/ /\ n < r_db.next_file
                 /\ n >= r_db.log_number => Read(r_logs[n].recs) \subseteq TablesOf(r_db.edit.add)
NothingYet ==
    r_db.step = "logs" \/ (r_db.step = "newlog" /\ r_db.at # "collect") =>
        /\ r_db.mem = {} /\ r_db.imm = {} /\ ~r_db.bg_error
        /\ \A w \in TablesOf(r_db.files) \cup TablesOf(r_db.edit.add) : w.seq <= r_db.last_sequence

(* All logs are replayed; the new one is empty.                            *)
Replayed ==
    r_db.step = "newlog" /\ r_db.at # "collect" =>
        /\ r_db.edit.log = r_db.log /\ r_db.edit.del = {}
        /\ r_logs[r_db.log].recs = <<>>
        /\ LogData(r_db.log_number) \subseteq TablesOf(r_db.edit.add)
        /\ \A n \in r_db.files \cup r_db.edit.add : n < r_db.log
        /\ r_db.manifest < r_db.log

EditOut == R!Edit(r_db.edit.add, r_db.edit.del, r_db.edit.log, r_db.next_file, r_db.last_sequence)
ManifestWritten ==
    r_db.step = "newlog" /\ r_db.at \in {"sync", "point"} =>
        /\ r_db.manifest \in DOMAIN r_manifests
        /\ r_manifests[r_db.manifest].recs = <<R!Snapshot, EditOut>>
        /\ r_db.at = "point" => r_manifests[r_db.manifest].synced = 2

(* The log in use is the last.                                             *)
LogInUse ==
    r_db.step \in {"newlog", "open"} =>
        /\ r_db.log \in DOMAIN r_logs /\ r_db.log < r_db.next_file
        /\ \A n \in DOMAIN r_logs : n <= r_db.log
        /\ \A a \in r_acked : a.log <= r_db.log
        /\ \A a \in r_acked : a.log = r_db.log =>
              /\ HasId(r_db.mem, a.id)
              /\ a.id \notin r_exposed =>
                    \E i \in 1..Len(r_logs[r_db.log].recs) : r_logs[r_db.log].recs[i].id = a.id

(* The manifest in use describes the version in memory, or that and the    *)
(* next one, or the next one, or cannot be written any more.               *)
TargetFiles == (r_db.files \ r_db.edit.del) \cup r_db.edit.add
IsBase(v) == v.files = r_db.files /\ v.log = r_db.log_number
IsTarget(v) == v.files = TargetFiles /\ v.log = r_db.edit.log
Describing ==
    r_db.described =>
        /\ r_db.manifest = r_current /\ r_db.manifest < r_db.next_file
        /\ LastVersion.next <= r_db.next_file
        /\ r_db.log_number <= r_db.log
        /\ \A v \in Survivors : v.log <= r_db.log
        /\ r_db.at = "none" /\ ~r_db.bg_error => \A v \in Survivors : IsBase(v)
        /\ r_db.at \in {"log", "collect"} => \A v \in Survivors : IsBase(v)
        /\ r_db.at = "sync" => IsTarget(LastVersion) /\ \A v \in Survivors : IsBase(v) \/ IsTarget(v)
        /\ r_db.at = "install" => \A v \in Survivors : IsTarget(v)

(* Memory and files of an open database.                                   *)
NumbersApart(files, from) ==
    /\ \A n \in files : n < r_db.next_file /\ n # r_db.manifest /\ ~(n \in DOMAIN r_logs /\ n >= from)
    /\ r_db.manifest < from
OlderLogs(from) == UNION {Read(r_logs[n].recs) : n \in {m \in DOMAIN r_logs : from <= m /\ m < r_db.log}}
InUse == Read(r_logs[r_db.log].recs)
Installed ==
    r_db.step = "open" \/ r_db.at = "collect" =>
        /\ r_db.files \subseteq DOMAIN r_tables
        /\ NumbersApart(r_db.files, r_db.log_number)
        /\ r_db.imm = {} <=> r_db.log_number = r_db.log
        /\ Vis(r_db.mem) \subseteq InUse
        /\ r_db.bg_error \/ Vis(InUse) \subseteq r_db.mem
        /\ Vis(r_db.imm) = Vis(OlderLogs(r_db.log_number))
        /\ \A w \in Alive : w.seq <= r_db.last_sequence
        /\ HasAcked(InMemory)
EditPending ==
    r_db.described /\ r_db.at \in {"log", "sync", "install"} =>
        /\ r_db.edit.add \subseteq DOMAIN r_tables
        /\ \A n \in r_db.edit.add : n < r_db.next_file
        /\ NumbersApart(TargetFiles, r_db.edit.log)
        /\ r_db.step = "open" =>
              \/ r_db.edit.log = r_db.log /\ r_db.edit.del = {} /\ r_db.imm # {}
                 /\ TablesOf(r_db.edit.add) = r_db.imm
              \/ r_db.edit.log = r_db.log_number
                 /\ TablesOf(TargetFiles) = TablesOf(r_db.files)

RecTyped == LogsTyped /\ ManifestsTyped /\ TablesTyped /\ GhostsTyped /\ DBTyped
RecIds ==
    /\ LogsIssued /\ TablesIssued /\ MemIssued /\ OwnLog
    /\ LogsClosed /\ TablesClosed /\ MemClosed
RecPhase ==
    /\ Phase /\ Recovering /\ Replaying /\ NothingYet /\ Replayed /\ ManifestWritten
    /\ LogInUse /\ Describing /\ Installed /\ EditPending
RecInv == RecTyped /\ RecIds /\ VersionsSound /\ Unique /\ RecPhase

-----------------------------------------------------------------------------
(* What follows for versions and data.                                     *)

(* The last version is one of those that a crash may leave, and all of     *)
(* them are typed.                                                         *)
LEMMA SurvivorFacts ==
    ASSUME ManifestsTyped
    PROVE  /\ r_current = 0 => Survivors = {}
           /\ r_current # 0 => LastVersion \in Survivors
           /\ \A v \in Survivors : /\ v.files \subseteq Nat /\ v.log \in Nat
                                   /\ v.next \in Nat /\ v.seq \in Nat
<1>1. r_current = 0 => Survivors = {}
  BY DEF Survivors
<1>2. ASSUME r_current # 0
      PROVE  /\ Current \in Seq(EditRec) /\ r_manifests[r_current].synced \in Nat
             /\ r_manifests[r_current].synced <= Len(Current)
  BY <1>2 DEF ManifestsTyped, Manifest, Current
<1>3. ASSUME r_current # 0
      PROVE  LastVersion \in Survivors
  <2>1. PICK n \in Nat : n = Len(Current)
    BY <1>2, <1>3, LenProperties
  <2>2. SubSeq(Current, 1, n) = Current
    BY <1>2, <1>3, <2>1, SubSeqFull
  <2>3. n \in r_manifests[r_current].synced..Len(Current)
    BY <1>2, <1>3, <2>1
  <2> QED
    BY <1>3, <2>2, <2>3 DEF Survivors, LastVersion
<1>4. ASSUME NEW v \in Survivors
      PROVE  /\ v.files \subseteq Nat /\ v.log \in Nat
             /\ v.next \in Nat /\ v.seq \in Nat
  <2>1. r_current # 0
    BY <1>1
  <2>2. PICK k \in r_manifests[r_current].synced..Len(Current) : v = R!Apply(SubSeq(Current, 1, k))
    BY <2>1 DEF Survivors
  <2>3. k \in 0..Len(Current)
    <3>1. Len(Current) \in Nat
      BY <1>2, <2>1, LenProperties
    <3> QED
      BY <1>2, <2>1, <3>1
  <2>4. SubSeq(Current, 1, k) \in Seq(EditRec)
    BY <1>2, <2>1, <2>3, FrontFacts
  <2> QED
    BY <2>2, <2>4, ApplyTyped
<1> QED
  BY <1>1, <1>3, <1>4

(* A step that leaves CURRENT and its manifest alone.                      *)
LEMMA SameSurvivors ==
    ASSUME r_current' = r_current, r_current # 0 => r_manifests'[r_current] = r_manifests[r_current]
    PROVE  Survivors' = Survivors /\ (r_current # 0 => LastVersion' = LastVersion)
<1>1. r_current # 0 => Current' = Current
  BY DEF Current
<1> QED
  BY <1>1 DEF Survivors, LastVersion

(* The tables of a union are those of its parts, and more files have more. *)
LEMMA TablesOfFacts ==
    /\ \A A, C : TablesOf(A \cup C) = TablesOf(A) \cup TablesOf(C)
    /\ \A n : TablesOf({n}) = r_tables[n]
    /\ TablesOf({}) = {}
    /\ \A A : TablesTyped /\ A \subseteq DOMAIN r_tables => TablesOf(A) \subseteq Rec
  BY DEF TablesOf, TablesTyped

(* What a log holds on the disk and in the buffers of the system are       *)
(* sequences of records.                                                   *)
LEMMA LogTypes ==
    ASSUME LogsTyped
    PROVE  \A n \in DOMAIN r_logs :
              /\ r_logs[n].recs \in Seq(Rec \cup {R!Torn}) /\ Len(r_logs[n].recs) \in Nat
              /\ r_logs[n].synced \in 0..Len(r_logs[n].recs)
              /\ Read(r_logs[n].recs) \subseteq Rec
              /\ Read(Synced(n)) \subseteq Read(r_logs[n].recs)
<1>1. TAKE n \in DOMAIN r_logs
<1>2. r_logs[n].recs \in Seq(Rec \cup {R!Torn}) /\ r_logs[n].synced \in Nat
      /\ r_logs[n].synced <= Len(r_logs[n].recs)
  BY DEF LogsTyped, LogFile
<1>3. Len(r_logs[n].recs) \in Nat
  BY <1>2, LenProperties
<1>4. r_logs[n].synced \in 0..Len(r_logs[n].recs)
  BY <1>2, <1>3
<1>5. Read(Synced(n)) \subseteq Read(r_logs[n].recs)
  BY <1>2, <1>4, FrontIsRead DEF Synced
<1> QED
  BY <1>2, <1>3, <1>4, <1>5, ReadTyped

(* What is read of logs are records.                                       *)
LEMMA LogDataTyped ==
    ASSUME LogsTyped, NEW from
    PROVE  LogData(from) \subseteq Rec /\ SyncedData(from) \subseteq LogData(from)
  BY LogTypes DEF LogData, SyncedData

(* What is visible alike is found alike.                                   *)
LEMMA VisibleIsFound ==
    ASSUME NEW X, NEW Y, Vis(X) \subseteq Vis(Y)
    PROVE  /\ \A i : i \notin r_exposed /\ HasId(X, i) => HasId(Y, i)
           /\ HasAcked(X) => HasAcked(Y)
           /\ HasSynced(X) => HasSynced(Y)
<1>1. \A i : i \notin r_exposed /\ HasId(X, i) => HasId(Y, i)
  BY DEF Vis, HasId
<1> QED
  BY <1>1 DEF HasAcked, HasSynced

(* What has a write has it when there is more.                             *)
LEMMA MoreHas ==
    ASSUME NEW X, NEW Y, X \subseteq Y
    PROVE  (HasAcked(X) => HasAcked(Y)) /\ (HasSynced(X) => HasSynced(Y))
  BY DEF HasAcked, HasSynced, HasId

(* Unions of closed sets are closed; logs are.                             *)
LEMMA ClosedUnion ==
    ASSUME NEW SS, \A X \in SS : ClosedSet(X)
    PROVE  ClosedSet(UNION SS)
  BY DEF ClosedSet, HasId

(* Two sets that have the earlier writes of a log have them together.      *)
LEMMA ClosedPair ==
    ASSUME NEW X, NEW Y, ClosedSet(X), ClosedSet(Y)
    PROVE  ClosedSet(X \cup Y)
  BY DEF ClosedSet, HasId

(* What a version reads of the logs, from the one in use and before.       *)
LEMMA LogDataParts ==
    ASSUME LogsTyped, r_db.log \in DOMAIN r_logs, \A n \in DOMAIN r_logs : n <= r_db.log,
           NEW from \in Nat, from <= r_db.log
    PROVE  LogData(from) = OlderLogs(from) \cup InUse
<1>1. \A n \in DOMAIN r_logs : n \in Nat
  BY DEF LogsTyped
<1>2. {m \in DOMAIN r_logs : m >= from}
         = {m \in DOMAIN r_logs : from <= m /\ m < r_db.log} \cup {r_db.log}
  BY <1>1
<1> QED
  BY <1>2 DEF LogData, OlderLogs, InUse

(* Nothing is behind the log in use.                                       *)
LEMMA LogDataLast ==
    ASSUME LogsTyped, r_db.log \in DOMAIN r_logs, \A n \in DOMAIN r_logs : n <= r_db.log
    PROVE  LogData(r_db.log) = InUse
<1>1. \A n \in DOMAIN r_logs : n \in Nat
  BY DEF LogsTyped
<1>2. {m \in DOMAIN r_logs : m >= r_db.log} = {r_db.log}
  BY <1>1
<1> QED
  BY <1>2 DEF LogData, InUse

(* Nothing on a disk or in memory has an id that is still to be given out. *)
LEMMA DataIssued ==
    ASSUME LogsTyped, LogsIssued, TablesIssued, NEW from, NEW files, files \subseteq DOMAIN r_tables
    PROVE  Old(LogData(from)) /\ Old(TablesOf(files))
<1>1. ASSUME NEW n \in DOMAIN r_logs, NEW w \in Read(r_logs[n].recs)
      PROVE  w.id <= r_issued
  <2>1. r_logs[n].recs \in Seq(Rec \cup {R!Torn})
    BY LogTypes
  <2>2. PICK i \in 1..Len(r_logs[n].recs) : r_logs[n].recs[i] = w
    BY <1>1, <2>1, ReadIs
  <2> QED
    BY <2>2 DEF LogsIssued
<1>2. Old(LogData(from))
  BY <1>1 DEF Old, LogData
<1>3. Old(TablesOf(files))
  BY DEF Old, TablesOf, TablesIssued
<1> QED
  BY <1>2, <1>3

-----------------------------------------------------------------------------
(* What steps do to logs.                                                  *)

(* Logs that read alike.                                                   *)
LEMMA LogsAlike ==
    ASSUME DOMAIN r_logs' = DOMAIN r_logs, \A n \in DOMAIN r_logs : r_logs'[n] = r_logs[n]
    PROVE  /\ \A from : LogData(from)' = LogData(from) /\ SyncedData(from)' = SyncedData(from)
           /\ LogsTyped => LogsTyped'
           /\ UNCHANGED <<r_acked, r_exposed>> /\ (\A i : i <= r_issued => i <= r_issued') =>
                 /\ LogsIssued => LogsIssued'
                 /\ OwnLog => OwnLog'
                 /\ LogsClosed => LogsClosed'
<1>1. ASSUME NEW from
      PROVE  LogData(from)' = LogData(from) /\ SyncedData(from)' = SyncedData(from)
  <2>1. {m \in DOMAIN r_logs' : m >= from} = {m \in DOMAIN r_logs : m >= from}
    OBVIOUS
  <2>2. \A n \in DOMAIN r_logs : Synced(n)' = Synced(n)
    BY DEF Synced
  <2> QED
    BY <2>1, <2>2 DEF LogData, SyncedData
<1>2. LogsTyped => LogsTyped'
  BY DEF LogsTyped
<1>3. ASSUME UNCHANGED <<r_acked, r_exposed>>, \A i : i <= r_issued => i <= r_issued'
      PROVE  (LogsIssued => LogsIssued') /\ (OwnLog => OwnLog') /\ (LogsClosed => LogsClosed')
  <2>1. LogsIssued => LogsIssued'
    BY <1>3 DEF LogsIssued
  <2>2. OwnLog => OwnLog'
    BY <1>3 DEF OwnLog
  <2>3. LogsClosed => LogsClosed'
    BY <1>3 DEF LogsClosed, LogClosed
  <2> QED
    BY <2>1, <2>2, <2>3
<1> QED
  BY <1>1, <1>2, <1>3

(* A new log is empty.                                                     *)
LEMMA EmptyLog ==
    ASSUME LogsTyped, NEW X, X \in Nat, X \notin DOMAIN r_logs,
           r_logs' = R!With(r_logs, X, R!File(<<>>, 0))
    PROVE  /\ LogsTyped' /\ DOMAIN r_logs' = DOMAIN r_logs \cup {X}
           /\ \A n \in DOMAIN r_logs : r_logs'[n] = r_logs[n]
           /\ r_logs'[X].recs = <<>> /\ Len(r_logs'[X].recs) = 0 /\ Read(r_logs'[X].recs) = {}
           /\ \A from : LogData(from)' = LogData(from) /\ SyncedData(from)' = SyncedData(from)
           /\ UNCHANGED <<r_acked, r_exposed, r_issued>> =>
                 (LogsIssued => LogsIssued') /\ (OwnLog => OwnLog') /\ (LogsClosed => LogsClosed')
<1>1. DOMAIN r_logs' = DOMAIN r_logs \cup {X} /\ r_logs'[X] = R!File(<<>>, 0)
      /\ \A n \in DOMAIN r_logs : r_logs'[n] = r_logs[n]
  BY DEF R!With
<1>2. r_logs'[X].recs = <<>> /\ r_logs'[X].synced = 0
  BY <1>1 DEF R!File
<1>3. PICK e \in Seq(Rec \cup {R!Torn}) : e = <<>>
  BY EmptySeq
<1>4. Len(e) = 0 /\ \A i : i \notin 1..0
  BY <1>3, EmptySeq
<1>5. Read(e) = {}
  BY <1>4, ReadIs
<1>6. PICK d \in Seq(Rec \cup {R!Torn}) : d = SubSeq(e, 1, 0)
  <2>1. 0 \in 0..Len(e)
    BY <1>4
  <2> QED
    BY <2>1, FrontFacts
<1>7. Read(d) = {}
  <2>1. 0 \in 0..Len(e)
    BY <1>4
  <2> QED
    BY <1>4, <1>6, <2>1, ReadFront
<1>8. LogsTyped'
  <2>1. R!File(<<>>, 0) \in LogFile /\ R!File(<<>>, 0).synced <= Len(R!File(<<>>, 0).recs)
    BY <1>3, <1>4 DEF R!File, LogFile
  <2>2. IsFiniteSet(DOMAIN r_logs \cup {X})
    BY FS_AddElement DEF LogsTyped
  <2> QED
    BY <1>1, <2>1, <2>2 DEF LogsTyped
<1>9. ASSUME NEW from
      PROVE  LogData(from)' = LogData(from) /\ SyncedData(from)' = SyncedData(from)
  <2>1. \A n \in DOMAIN r_logs : Synced(n)' = Synced(n)
    BY <1>1 DEF Synced
  <2>2. Read(Synced(X)') = {} /\ Read(r_logs'[X].recs) = {}
    BY <1>2, <1>3, <1>5, <1>6, <1>7 DEF Synced
  <2>3. \A m : m \in DOMAIN r_logs' <=> m \in DOMAIN r_logs \/ m = X
    BY <1>1
  <2> QED
    BY <1>1, <2>1, <2>2, <2>3 DEF LogData, SyncedData
<1>10. \A i : i \notin 1..Len(r_logs'[X].recs)
  BY <1>2, <1>3, <1>4
<1>11. UNCHANGED <<r_acked, r_exposed, r_issued>> => (LogsIssued => LogsIssued')
  BY <1>1, <1>10 DEF LogsIssued
<1>12. UNCHANGED <<r_acked, r_exposed, r_issued>> => (OwnLog => OwnLog')
  BY <1>1, <1>10 DEF OwnLog
<1>13. ASSUME UNCHANGED <<r_acked, r_exposed, r_issued>>, LogsClosed
       PROVE  LogsClosed'
  <2>1. ASSUME NEW n, n \in DOMAIN r_logs'
        PROVE  LogClosed(r_logs[n].recs)'
    <3>1. CASE n \in DOMAIN r_logs
      <4>1. r_logs'[n].recs = r_logs[n].recs
        BY <1>1, <3>1
      <4>2. LogClosed(r_logs[n].recs)
        BY <1>13, <3>1 DEF LogsClosed
      <4>3. PICK q : q = r_logs[n].recs
        OBVIOUS
      <4>4. LogClosed(q) /\ q = r_logs'[n].recs
        BY <4>1, <4>2, <4>3
      <4>5. r_acked' = r_acked /\ r_exposed' = r_exposed
        BY <1>13
      <4> QED
        BY ONLY <4>4, <4>5 DEF LogClosed, Whole
    <3>2. CASE n = X
      BY <1>10, <3>2 DEF LogClosed
    <3> QED
      BY <1>1, <2>1, <3>1, <3>2
  <2> QED
    BY <2>1 DEF LogsClosed
<1> QED
  BY <1>1, <1>2, <1>3, <1>4, <1>5, <1>8, <1>9, <1>11, <1>12, <1>13

(* A record is added to a log, which is synced or not.                     *)
LEMMA AppendedLog ==
    ASSUME LogsTyped, NEW l, l \in DOMAIN r_logs, NEW x, x \in Rec \cup {R!Torn}, NEW s, s \in Nat,
           s = r_logs[l].synced \/ s = Len(r_logs[l].recs) + 1,
           r_logs' = [r_logs EXCEPT ![l] = R!File(Append(r_logs[l].recs, x), s)],
           NEW new, new = IF x = R!Torn THEN {} ELSE {x}
    PROVE  /\ LogsTyped' /\ DOMAIN r_logs' = DOMAIN r_logs
           /\ \A n \in DOMAIN r_logs : n # l => r_logs'[n] = r_logs[n]
           /\ Len(r_logs'[l].recs) = Len(r_logs[l].recs) + 1
           /\ \A i \in 1..Len(r_logs[l].recs) : r_logs'[l].recs[i] = r_logs[l].recs[i]
           /\ r_logs'[l].recs[Len(r_logs[l].recs) + 1] = x
           /\ Read(r_logs'[l].recs) = Read(r_logs[l].recs) \cup new
           /\ \A from : from <= l => LogData(from)' = LogData(from) \cup new
           /\ \A from : SyncedData(from) \subseteq SyncedData(from)'
<1> DEFINE recs == r_logs[l].recs
<1>1. /\ recs \in Seq(Rec \cup {R!Torn}) /\ Len(recs) \in Nat
      /\ r_logs[l].synced \in 0..Len(recs)
  BY LogTypes
<1>2. PICK t \in Seq(Rec \cup {R!Torn}) : t = Append(recs, x)
  BY <1>1, AppendProperties
<1>3. Len(t) = Len(recs) + 1 /\ t[Len(recs) + 1] = x /\ \A i \in 1..Len(recs) : t[i] = recs[i]
  BY <1>1, <1>2, AppendProperties
<1>4. DOMAIN r_logs' = DOMAIN r_logs /\ (\A n \in DOMAIN r_logs : n # l => r_logs'[n] = r_logs[n])
      /\ r_logs'[l] = R!File(t, s)
  BY <1>2
<1>5. r_logs'[l].recs = t /\ r_logs'[l].synced = s
  BY <1>4 DEF R!File
<1>6. Read(t) = Read(recs) \cup new
  BY <1>1, <1>2, ReadAppend
<1>7. LogsTyped'
  <2>1. s <= Len(t)
    BY <1>1, <1>3
  <2>2. R!File(t, s) \in LogFile /\ R!File(t, s).synced <= Len(R!File(t, s).recs)
    BY <2>1 DEF R!File, LogFile
  <2> QED
    BY <1>4, <2>2 DEF LogsTyped
<1>8. ASSUME NEW from, from <= l
      PROVE  LogData(from)' = LogData(from) \cup new
  <2>1. {m \in DOMAIN r_logs' : m >= from} = {m \in DOMAIN r_logs : m >= from}
    BY <1>4
  <2>2. l \in {m \in DOMAIN r_logs : m >= from}
    BY <1>8 DEF LogsTyped
  <2>3. \A m \in DOMAIN r_logs : Read(r_logs'[m].recs) = IF m = l THEN Read(r_logs[m].recs) \cup new
                                                        ELSE Read(r_logs[m].recs)
    BY <1>4, <1>5, <1>6
  <2>4. \A y : y \in LogData(from)' <=> \E m \in {m \in DOMAIN r_logs : m >= from} : y \in Read(r_logs'[m].recs)
    BY <2>1 DEF LogData
  <2>5. \A y : y \in LogData(from) <=> \E m \in {m \in DOMAIN r_logs : m >= from} : y \in Read(r_logs[m].recs)
    BY DEF LogData
  <2>6. \A m \in {m \in DOMAIN r_logs : m >= from} : m \in DOMAIN r_logs
    OBVIOUS
  <2>7. PICK S : S = {m \in DOMAIN r_logs : m >= from}
    OBVIOUS
  <2>8. ASSUME NEW y
        PROVE  y \in LogData(from)' <=> y \in LogData(from) \cup new
    <3>1. (\E m \in S : y \in Read(r_logs'[m].recs))
             <=> (\E m \in S : y \in Read(r_logs[m].recs)) \/ y \in new
      BY <2>2, <2>3, <2>6, <2>7
    <3> QED
      BY <2>4, <2>5, <2>7, <3>1
  <2> QED
    BY <2>8
<1>9. Read(Synced(l)) \subseteq Read(Synced(l)') /\ (s # r_logs[l].synced => new \subseteq Read(Synced(l)'))
  <2>1. Synced(l)' = SubSeq(t, 1, s)
    BY <1>5 DEF Synced
  <2>2. CASE s = r_logs[l].synced
    <3>1. s \in 0..Len(t)
      BY <1>1, <1>3, <2>2
    <3>2. \A y : y \in Read(SubSeq(t, 1, s)) <=> \E i \in 1..s : t[i] = y /\ Whole(t, i)
      BY <3>1, ReadFront
    <3>3. \A y : y \in Read(SubSeq(recs, 1, s)) <=> \E i \in 1..s : recs[i] = y /\ Whole(recs, i)
      BY <1>1, <2>2, ReadFront
    <3>4. s \in Nat /\ \A i \in 1..s : t[i] = recs[i]
      BY <1>1, <1>3, <2>2
    <3>5. \A i \in 1..s : Whole(t, i) <=> Whole(recs, i)
      BY <3>4 DEF Whole
    <3>6. Synced(l) = SubSeq(recs, 1, s)
      BY <2>2 DEF Synced
    <3> QED
      BY <2>1, <2>2, <3>2, <3>3, <3>4, <3>5, <3>6
  <2>3. CASE s # r_logs[l].synced
    <3>1. s = Len(t)
      BY <1>3, <2>3
    <3>2. SubSeq(t, 1, s) = t
      BY <3>1, SubSeqFull
    <3>3. Read(Synced(l)) \subseteq Read(recs)
      BY LogTypes
    <3> QED
      BY <1>6, <2>1, <3>2, <3>3
  <2> QED
    BY <2>2, <2>3
<1>10. \A n \in DOMAIN r_logs : n # l => Synced(n)' = Synced(n)
  BY <1>4 DEF Synced
<1>11. \A from : SyncedData(from) \subseteq SyncedData(from)'
  BY <1>4, <1>9, <1>10 DEF SyncedData
<1> QED
  BY <1>3, <1>4, <1>5, <1>6, <1>7, <1>8, <1>11

(* Old logs are deleted.                                                   *)
LEMMA DroppedLogs ==
    ASSUME LogsTyped, NEW f, f \in Nat, r_logs' = R!Only(r_logs, {n \in DOMAIN r_logs : n >= f})
    PROVE  /\ LogsTyped' /\ DOMAIN r_logs' = {n \in DOMAIN r_logs : n >= f}
           /\ \A n \in DOMAIN r_logs' : r_logs'[n] = r_logs[n]
           /\ \A from \in Nat : f <= from =>
                 LogData(from)' = LogData(from) /\ SyncedData(from)' = SyncedData(from)
           /\ UNCHANGED <<r_acked, r_exposed, r_issued>> =>
                 (LogsIssued => LogsIssued') /\ (OwnLog => OwnLog') /\ (LogsClosed => LogsClosed')
<1>1. DOMAIN r_logs' = {n \in DOMAIN r_logs : n >= f}
      /\ \A n \in DOMAIN r_logs' : r_logs'[n] = r_logs[n]
  BY DEF R!Only
<1>2. LogsTyped'
  <2>1. DOMAIN r_logs' \in SUBSET DOMAIN r_logs
    BY <1>1
  <2>2. IsFiniteSet(DOMAIN r_logs')
    <3>1. PICK A : A = DOMAIN r_logs'
      OBVIOUS
    <3>2. PICK D : D = DOMAIN r_logs /\ IsFiniteSet(D)
      BY DEF LogsTyped
    <3>3. IsFiniteSet(A)
      <4>1. A \in SUBSET D
        BY <2>1, <3>1, <3>2
      <4> QED
        BY ONLY <3>2, <4>1, FS_Subset
    <3> QED
      BY <3>1, <3>3
  <2> QED
    BY <1>1, <2>1, <2>2 DEF LogsTyped
<1>3. ASSUME NEW from \in Nat, f <= from
      PROVE  LogData(from)' = LogData(from) /\ SyncedData(from)' = SyncedData(from)
  <2>1. \A m \in DOMAIN r_logs : m \in Nat
    BY DEF LogsTyped
  <2>2. {m \in DOMAIN r_logs' : m >= from} = {m \in DOMAIN r_logs : m >= from}
    BY <1>1, <1>3, <2>1
  <2>3. \A n \in {m \in DOMAIN r_logs : m >= from} : r_logs'[n] = r_logs[n] /\ Synced(n)' = Synced(n)
    BY <1>1, <2>2 DEF Synced
  <2> QED
    BY <2>2, <2>3 DEF LogData, SyncedData
<1>4. UNCHANGED <<r_acked, r_exposed, r_issued>> => (LogsIssued => LogsIssued')
  BY <1>1 DEF LogsIssued
<1>5. UNCHANGED <<r_acked, r_exposed, r_issued>> => (OwnLog => OwnLog')
  BY <1>1 DEF OwnLog
<1>6. ASSUME UNCHANGED <<r_acked, r_exposed, r_issued>>, LogsClosed
      PROVE  LogsClosed'
  <2>1. ASSUME NEW n, n \in DOMAIN r_logs'
        PROVE  LogClosed(r_logs[n].recs)'
    <3>1. r_logs'[n].recs = r_logs[n].recs
      BY <1>1, <2>1
    <3>2. LogClosed(r_logs[n].recs)
      BY <1>1, <1>6, <2>1 DEF LogsClosed
    <3>3. PICK q : q = r_logs[n].recs
      OBVIOUS
    <3>4. LogClosed(q) /\ q = r_logs'[n].recs
      BY <3>1, <3>2, <3>3
    <3>5. r_acked' = r_acked /\ r_exposed' = r_exposed
      BY <1>6
    <3> QED
      BY ONLY <3>4, <3>5 DEF LogClosed, Whole
  <2> QED
    BY <2>1 DEF LogsClosed
<1> QED
  BY <1>1, <1>2, <1>3, <1>4, <1>5, <1>6

(* What a crash leaves of a file is its front, with what was synced.       *)
LEMMA LeftOverFacts ==
    ASSUME NEW old, NEW left, left \in R!LeftOver(old)
    PROVE  /\ DOMAIN left = DOMAIN old
           /\ \A n \in DOMAIN old :
                 \/ ~(old[n].synced < Len(old[n].recs)) /\ left[n] = old[n]
                 \/ old[n].synced < Len(old[n].recs) /\
                    \E k \in old[n].synced..Len(old[n].recs) :
                        left[n] = R!File(SubSeq(old[n].recs, 1, k), k)
<1> DEFINE unsynced == {n \in DOMAIN old : old[n].synced < Len(old[n].recs)}
           range(n) == old[n].synced..Len(old[n].recs)
           lengths == {k \in [unsynced -> UNION {range(n) : n \in unsynced}] :
                          \A n \in unsynced : k[n] \in range(n)}
           cutTo(k) == [n \in DOMAIN old |-> IF n \in unsynced THEN R!File(SubSeq(old[n].recs, 1, k[n]), k[n])
                                             ELSE old[n]]
<1>1. PICK k \in lengths : left = cutTo(k)
  BY DEF R!LeftOver
<1>2. \A n \in unsynced : k[n] \in old[n].synced..Len(old[n].recs)
  BY <1>1
<1>3. DOMAIN left = DOMAIN old
      /\ \A n \in DOMAIN old : left[n] = IF n \in unsynced THEN R!File(SubSeq(old[n].recs, 1, k[n]), k[n])
                                         ELSE old[n]
  BY <1>1
<1>4. \A n \in DOMAIN old : n \in unsynced <=> old[n].synced < Len(old[n].recs)
  OBVIOUS
<1> HIDE DEF unsynced, lengths
<1> QED
  BY <1>2, <1>3, <1>4

(* What a crash leaves of the logs: fronts that have at least what was     *)
(* synced (the files of the environment lose what was not).                *)
LEMMA CutLogs ==
    ASSUME LogsTyped, r_logs' \in R!LeftOver(r_logs)
    PROVE  /\ LogsTyped' /\ DOMAIN r_logs' = DOMAIN r_logs
           /\ \A n \in DOMAIN r_logs : \E k \in r_logs[n].synced..Len(r_logs[n].recs) :
                 /\ Len(r_logs'[n].recs) = k
                 /\ \A i \in 1..k : r_logs'[n].recs[i] = r_logs[n].recs[i]
                 /\ \A x : x \in Read(r_logs'[n].recs) <=>
                              \E i \in 1..k : r_logs[n].recs[i] = x /\ Whole(r_logs[n].recs, i)
           /\ \A from : LogData(from)' \subseteq LogData(from)
           /\ \A from : SyncedData(from) \subseteq SyncedData(from)'
<1>1. DOMAIN r_logs' = DOMAIN r_logs
  BY LeftOverFacts
<1>2. ASSUME NEW n, n \in DOMAIN r_logs
      PROVE  \E k \in r_logs[n].synced..Len(r_logs[n].recs) :
                 /\ r_logs'[n] \in LogFile /\ r_logs'[n].synced <= Len(r_logs'[n].recs)
                 /\ Len(r_logs'[n].recs) = k
                 /\ \A i \in 1..k : r_logs'[n].recs[i] = r_logs[n].recs[i]
                 /\ \A x : x \in Read(r_logs'[n].recs) <=>
                              \E i \in 1..k : r_logs[n].recs[i] = x /\ Whole(r_logs[n].recs, i)
                 /\ Read(Synced(n)) \subseteq Read(Synced(n)')
  <2>1. PICK recs \in Seq(Rec \cup {R!Torn}) : recs = r_logs[n].recs
    BY <1>2, LogTypes
  <2>2. PICK l \in Nat : l = Len(recs)
    BY <2>1, LenProperties
  <2>3. PICK s \in 0..l : s = r_logs[n].synced
    BY <1>2, <2>1, <2>2, LogTypes
  <2>4. r_logs[n] \in LogFile
    BY <1>2 DEF LogsTyped
  <2>5. CASE r_logs'[n] = r_logs[n] /\ ~(s < l)
    <3>1. l \in s..l /\ s = l
      BY <2>5
    <3>2. \A x : x \in Read(recs) <=> \E i \in 1..l : recs[i] = x /\ Whole(recs, i)
      BY <2>2, ReadIs
    <3>3. Synced(n)' = Synced(n)
      BY <2>5 DEF Synced
    <3> QED
      BY <2>1, <2>2, <2>3, <2>4, <2>5, <3>1, <3>2, <3>3
  <2>6. ASSUME NEW k \in s..l, r_logs'[n] = R!File(SubSeq(recs, 1, k), k)
        PROVE  /\ r_logs'[n] \in LogFile /\ r_logs'[n].synced <= Len(r_logs'[n].recs)
               /\ Len(r_logs'[n].recs) = k
               /\ \A i \in 1..k : r_logs'[n].recs[i] = recs[i]
               /\ \A x : x \in Read(r_logs'[n].recs) <=> \E i \in 1..k : recs[i] = x /\ Whole(recs, i)
               /\ Read(Synced(n)) \subseteq Read(Synced(n)')
    <3>1. k \in 0..l
      OBVIOUS
    <3>2. PICK t \in Seq(Rec \cup {R!Torn}) : t = SubSeq(recs, 1, k)
      BY <2>2, <3>1, FrontFacts
    <3>3. Len(t) = k /\ \A i \in 1..k : t[i] = recs[i]
      BY <2>2, <3>1, <3>2, FrontFacts
    <3>4. \A x : x \in Read(t) <=> \E i \in 1..k : recs[i] = x /\ Whole(recs, i)
      BY <2>2, <3>1, <3>2, ReadFront
    <3>5. r_logs'[n].recs = t /\ r_logs'[n].synced = k
      BY <2>6, <3>2 DEF R!File
    <3>6. r_logs'[n] \in LogFile
      BY <2>6, <3>1, <3>2 DEF R!File, LogFile
    <3>7. Synced(n)' = t
      <4>1. SubSeq(t, 1, Len(t)) = t
        BY SubSeqFull
      <4> QED
        BY <3>3, <3>5, <4>1 DEF Synced
    <3>8. \A x : x \in Read(Synced(n)) <=> \E i \in 1..s : recs[i] = x /\ Whole(recs, i)
      <4>1. Synced(n) = SubSeq(recs, 1, s)
        BY <2>1, <2>3 DEF Synced
      <4> QED
        BY <2>2, <4>1, ReadFront
    <3>9. \A i \in 1..s : i \in 1..k
      OBVIOUS
    <3>10. Read(Synced(n)) \subseteq Read(t)
      BY <3>4, <3>8, <3>9
    <3> QED
      BY <3>1, <3>3, <3>4, <3>5, <3>6, <3>7, <3>10
  <2>7. \/ ~(s < l) /\ r_logs'[n] = r_logs[n]
        \/ s < l /\ \E k \in s..l : r_logs'[n] = R!File(SubSeq(recs, 1, k), k)
    BY <1>2, <2>1, <2>2, <2>3, LeftOverFacts
  <2> QED
    BY <2>1, <2>2, <2>3, <2>5, <2>6, <2>7
<1>3. LogsTyped'
  BY <1>1, <1>2 DEF LogsTyped
<1>4. ASSUME NEW n, n \in DOMAIN r_logs
      PROVE  Read(r_logs'[n].recs) \subseteq Read(r_logs[n].recs)
  <2>1. r_logs[n].recs \in Seq(Rec \cup {R!Torn}) /\ Len(r_logs[n].recs) \in Nat
        /\ r_logs[n].synced \in 0..Len(r_logs[n].recs)
    BY <1>4, LogTypes
  <2>2. PICK k \in r_logs[n].synced..Len(r_logs[n].recs) :
            \A x : x \in Read(r_logs'[n].recs) <=>
                     \E i \in 1..k : r_logs[n].recs[i] = x /\ Whole(r_logs[n].recs, i)
    BY <1>2, <1>4
  <2>3. \A x : x \in Read(r_logs[n].recs) <=>
                  \E i \in 1..Len(r_logs[n].recs) : r_logs[n].recs[i] = x /\ Whole(r_logs[n].recs, i)
    BY <2>1, ReadIs
  <2>4. \A i \in 1..k : i \in 1..Len(r_logs[n].recs)
    BY <2>1, <2>2
  <2> QED
    BY <2>2, <2>3, <2>4
<1>5. \A from : LogData(from)' \subseteq LogData(from)
  BY <1>1, <1>4 DEF LogData
<1>6. \A from : SyncedData(from) \subseteq SyncedData(from)'
  BY <1>1, <1>2 DEF SyncedData
<1> QED
  BY <1>1, <1>2, <1>3, <1>5, <1>6

-----------------------------------------------------------------------------
(* What steps do to tables.                                                *)

(* Tables that are left alone are as typed, old and closed as before.      *)
LEMMA SameTables ==
    ASSUME r_tables' = r_tables
    PROVE  /\ \A files : TablesOf(files)' = TablesOf(files)
           /\ TablesTyped => TablesTyped'
           /\ UNCHANGED <<r_acked, r_exposed>> /\ (\A i : i <= r_issued => i <= r_issued') =>
                (TablesIssued => TablesIssued') /\ (TablesClosed => TablesClosed')
<1>1. \A files : TablesOf(files)' = TablesOf(files)
  BY DEF TablesOf
<1>2. TablesTyped => TablesTyped'
  BY DEF TablesTyped
<1>3. ASSUME UNCHANGED <<r_acked, r_exposed>>, \A i : i <= r_issued => i <= r_issued'
      PROVE  (TablesIssued => TablesIssued') /\ (TablesClosed => TablesClosed')
  BY <1>3 DEF TablesIssued, Old, TablesClosed, ClosedSet
<1> QED
  BY <1>1, <1>2, <1>3

(* A new table holds its records, and the others stay.                     *)
LEMMA NewTable ==
    ASSUME NEW X, NEW records, r_tables' = R!With(r_tables, X, records)
    PROVE  /\ DOMAIN r_tables' = DOMAIN r_tables \cup {X}
           /\ \A A : A \subseteq DOMAIN r_tables /\ X \notin A => TablesOf(A)' = TablesOf(A)
           /\ TablesOf({X})' = records
           /\ TablesTyped /\ records \subseteq Rec => TablesTyped'
           /\ UNCHANGED <<r_acked, r_exposed, r_issued>> =>
                /\ TablesIssued /\ Old(records) => TablesIssued'
                /\ TablesClosed /\ ClosedSet(records) => TablesClosed'
<1>1. DOMAIN r_tables' = DOMAIN r_tables \cup {X} /\ r_tables'[X] = records
      /\ \A n \in DOMAIN r_tables : n # X => r_tables'[n] = r_tables[n]
  BY DEF R!With
<1>2. ASSUME NEW A, A \subseteq DOMAIN r_tables, X \notin A
      PROVE  TablesOf(A)' = TablesOf(A)
  <2>1. \A n \in A : r_tables'[n] = r_tables[n]
    BY <1>1, <1>2
  <2> QED
    BY <2>1 DEF TablesOf
<1>3. TablesOf({X})' = records
  BY <1>1 DEF TablesOf
<1>4. TablesTyped /\ records \subseteq Rec => TablesTyped'
  BY <1>1 DEF TablesTyped
<1>5. UNCHANGED <<r_acked, r_exposed, r_issued>> /\ TablesIssued /\ Old(records) => TablesIssued'
  BY <1>1 DEF TablesIssued, Old
<1>6. ASSUME UNCHANGED <<r_acked, r_exposed, r_issued>>, TablesClosed, ClosedSet(records)
      PROVE  TablesClosed'
  <2>1. r_acked' = r_acked /\ r_exposed' = r_exposed
    BY <1>6
  <2>2. ASSUME NEW n, n \in DOMAIN r_tables'
        PROVE  ClosedSet(r_tables[n])'
    <3>1. PICK q : q = r_tables'[n]
      OBVIOUS
    <3>2. ClosedSet(q)
      BY <1>1, <1>6, <2>2, <3>1 DEF TablesClosed
    <3> QED
      BY ONLY <2>1, <3>1, <3>2 DEF ClosedSet
  <2> QED
    BY <2>2 DEF TablesClosed
<1> QED
  BY <1>1, <1>2, <1>3, <1>4, <1>5, <1>6

(* Tables that are dropped take nothing from versions that do not name     *)
(* them.                                                                   *)
LEMMA DroppedTables ==
    ASSUME NEW S, r_tables' = R!Only(r_tables, S), S \subseteq DOMAIN r_tables
    PROVE  /\ DOMAIN r_tables' = S
           /\ \A A : A \subseteq S => TablesOf(A)' = TablesOf(A)
           /\ TablesTyped => TablesTyped'
           /\ UNCHANGED <<r_acked, r_exposed, r_issued>> =>
                (TablesIssued => TablesIssued') /\ (TablesClosed => TablesClosed')
<1>1. DOMAIN r_tables' = S /\ \A n \in S : r_tables'[n] = r_tables[n]
  BY DEF R!Only
<1>2. ASSUME NEW A, A \subseteq S
      PROVE  TablesOf(A)' = TablesOf(A)
  <2>1. \A n \in A : r_tables'[n] = r_tables[n]
    BY <1>1, <1>2
  <2> QED
    BY <2>1 DEF TablesOf
<1>3. TablesTyped => TablesTyped'
  BY <1>1 DEF TablesTyped
<1>4. UNCHANGED <<r_acked, r_exposed, r_issued>> /\ TablesIssued => TablesIssued'
  BY <1>1 DEF TablesIssued, Old
<1>5. ASSUME UNCHANGED <<r_acked, r_exposed, r_issued>>, TablesClosed
      PROVE  TablesClosed'
  <2>1. r_acked' = r_acked /\ r_exposed' = r_exposed
    BY <1>5
  <2>2. ASSUME NEW n, n \in DOMAIN r_tables'
        PROVE  ClosedSet(r_tables[n])'
    <3>1. PICK q : q = r_tables'[n]
      OBVIOUS
    <3>2. ClosedSet(q)
      BY <1>1, <1>5, <2>2, <3>1 DEF TablesClosed
    <3> QED
      BY ONLY <2>1, <3>1, <3>2 DEF ClosedSet
  <2> QED
    BY <2>2 DEF TablesClosed
<1> QED
  BY <1>1, <1>2, <1>3, <1>4, <1>5

-----------------------------------------------------------------------------
(* Versions stay sound.                                                    *)

(* A version whose files and logs read as before.                          *)
LEMMA SoundStays ==
    ASSUME NEW v, Sound(v), UNCHANGED <<r_current, r_acked, r_exposed>>, r_cut \subseteq r_cut',
           v.files \subseteq DOMAIN r_tables', TablesOf(v.files)' = TablesOf(v.files),
           LogData(v.log)' = LogData(v.log), SyncedData(v.log) \subseteq SyncedData(v.log)',
           \A n \in DOMAIN r_logs : n \in DOMAIN r_logs' \/ n < v.log
    PROVE  Sound(v)' /\ Data(v)' = Data(v) /\ Vis(Data(v))' = Vis(Data(v))
<1>1. Data(v)' = Data(v)
  BY DEF Data
<1>2. \A X : Vis(X)' = Vis(X)
  BY DEF Vis
<1>3. Vis(Data(v))' = Vis(Data(v))
  BY <1>1 DEF Vis
<1>4. HasAcked(Data(v))'
  BY <1>1 DEF Sound, HasAcked, HasId
<1>5. HasSynced(TablesOf(v.files) \cup SyncedData(v.log))'
  BY DEF Sound, HasSynced, HasId
<1>6. \A w \in TablesOf(v.files)' : w.seq <= v.seq
  BY DEF Sound
<1>7. \A a \in r_acked' : a.log \in DOMAIN r_logs' \/ a.log < v.log
  BY DEF Sound
<1>8. /\ v.next # 0 => r_current' < v.next /\ v.log < v.next
      /\ v.next = 0 => r_current' = 1
      /\ \A n \in v.files : n < v.next
  BY DEF Sound
<1> QED
  BY <1>1, <1>3, <1>4, <1>5, <1>6, <1>7, <1>8 DEF Sound

(* Logs and tables are as they were.                                       *)
LEMMA SameData ==
    ASSUME UNCHANGED <<r_logs, r_tables, r_acked, r_exposed, r_cut, r_issued>>
    PROVE  /\ \A A : TablesOf(A)' = TablesOf(A)
           /\ \A from : LogData(from)' = LogData(from) /\ SyncedData(from)' = SyncedData(from)
           /\ \A v : Data(v)' = Data(v)
           /\ \A X : Vis(X)' = Vis(X) /\ (HasAcked(X) => HasAcked(X)')
           /\ LogsTyped => LogsTyped'
           /\ TablesTyped => TablesTyped'
           /\ GhostsTyped => GhostsTyped'
           /\ LogsIssued /\ OwnLog /\ LogsClosed => LogsIssued' /\ OwnLog' /\ LogsClosed'
           /\ TablesIssued /\ TablesClosed => TablesIssued' /\ TablesClosed'
<1>1. \A A : TablesOf(A)' = TablesOf(A)
  BY DEF TablesOf
<1>2. \A from : LogData(from)' = LogData(from) /\ SyncedData(from)' = SyncedData(from)
  BY LogsAlike
<1>3. \A v : Data(v)' = Data(v)
  BY <1>1, <1>2 DEF Data
<1>4. \A X : Vis(X)' = Vis(X) /\ (HasAcked(X) => HasAcked(X)')
  BY DEF Vis, HasAcked, HasId
<1>5. LogsTyped => LogsTyped'
  BY DEF LogsTyped
<1>6. TablesTyped => TablesTyped'
  BY DEF TablesTyped
<1>7. GhostsTyped => GhostsTyped'
  BY DEF GhostsTyped
<1>8. \A i : i <= r_issued => i <= r_issued'
  OBVIOUS
<1>9. LogsIssued /\ OwnLog /\ LogsClosed => LogsIssued' /\ OwnLog' /\ LogsClosed'
  BY <1>8, LogsAlike
<1>10. TablesIssued /\ TablesClosed => TablesIssued' /\ TablesClosed'
  BY <1>8, SameTables
<1> QED
  BY <1>1, <1>2, <1>3, <1>4, <1>5, <1>6, <1>7, <1>9, <1>10

(* So are CURRENT and the manifest it names.                               *)
LEMMA VersionsStay ==
    ASSUME VersionsSound, UNCHANGED <<r_logs, r_tables, r_acked, r_exposed, r_cut, r_issued,
                                      r_current>>,
           r_current # 0 => r_manifests'[r_current] = r_manifests[r_current]
    PROVE  VersionsSound' /\ Survivors' = Survivors /\ (r_current # 0 => LastVersion' = LastVersion)
<1>1. Survivors' = Survivors /\ (r_current # 0 => LastVersion' = LastVersion)
  BY SameSurvivors
<1>2. ASSUME NEW v, v \in Survivors
      PROVE  Sound(v)' /\ Agrees(v)'
  <2>1. r_current # 0
    BY <1>2 DEF Survivors
  <2>2. PICK last : last = LastVersion
    OBVIOUS
  <2>3. last = LastVersion'
    BY <1>1, <2>1, <2>2
  <2>4. Sound(v) /\ Agrees(v)
    BY <1>2 DEF VersionsSound
  <2>5. /\ TablesOf(v.files)' = TablesOf(v.files) /\ LogData(v.log)' = LogData(v.log)
        /\ SyncedData(v.log)' = SyncedData(v.log)
    BY SameData
  <2>6. Sound(v)'
    BY <2>4, <2>5, SoundStays DEF Sound
  <2>7. /\ Data(v)' = Data(v) /\ Data(last)' = Data(last)
        /\ Vis(Data(v))' = Vis(Data(v)) /\ Vis(Data(last))' = Vis(Data(last))
    <3>1. \A y : Data(y)' = Data(y)
      BY SameData
    <3> QED
      BY <3>1 DEF Vis
  <2>8. Agrees(v)'
    <3>1. v.next <= last.next /\ Vis(Data(v)) = Vis(Data(last))
      BY <2>2, <2>4 DEF Agrees
    <3>2. Vis(Data(LastVersion))' = Vis(Data(last))'
      BY <2>3 DEF Vis, Data
    <3> QED
      BY <2>3, <2>7, <3>1, <3>2 DEF Agrees
  <2> QED
    BY <2>6, <2>8
<1> QED
  BY <1>1, <1>2 DEF VersionsSound

-----------------------------------------------------------------------------
(* The process.                                                            *)

(* The fields of the process and their types.                              *)
LEMMA DBFields ==
    ASSUME DBTyped
    PROVE  /\ r_db.step \in R!Steps /\ r_db.at \in R!EditSteps
           /\ r_db.mem \subseteq Rec /\ r_db.imm \subseteq Rec /\ r_db.log \in Nat
           /\ r_db.log_number \in Nat /\ r_db.files \subseteq Nat /\ r_db.next_file \in Nat
           /\ r_db.manifest \in Nat /\ r_db.described \in BOOLEAN /\ r_db.last_sequence \in Nat
           /\ r_db.todo \in Seq(Nat) /\ r_db.bg_error \in BOOLEAN
           /\ Editing => /\ r_db.edit \in Pending /\ r_db.edit.add \subseteq Nat
                         /\ r_db.edit.del \subseteq Nat /\ r_db.edit.log \in Nat
  BY DEF DBTyped, DBRec, Pending

(* A process that has read nothing yet needs nothing.                      *)
LEMMA NothingRead ==
    ASSUME NEW s, s \in {"down", "corrupt", "current", "versions"},
           r_db' = [R!Down EXCEPT !.step = s]
    PROVE  /\ DBTyped' /\ MemIssued' /\ MemClosed' /\ r_db'.step = s
           /\ Alive' = (UNION {Data(v) : v \in Survivors})'
           /\ Recovering' /\ Replaying' /\ NothingYet' /\ Replayed' /\ ManifestWritten'
           /\ LogInUse' /\ Describing' /\ Installed' /\ EditPending'
<1>1. PICK q : q = [R!Down EXCEPT !.step = s]
  OBVIOUS
<1>2. q = [step |-> s, edit |-> R!NoEdit, at |-> "none", mem |-> {}, imm |-> {}, log |-> 0,
           log_number |-> 0, files |-> {}, next_file |-> 2, manifest |-> 0, described |-> FALSE,
           last_sequence |-> 0, todo |-> <<>>, bg_error |-> FALSE]
  BY <1>1 DEF R!Down
<1>3. /\ r_db'.step = s /\ r_db'.at = "none" /\ r_db'.mem = {} /\ r_db'.imm = {}
      /\ r_db'.files = {} /\ ~r_db'.described
  BY <1>1, <1>2
<1>4. DBTyped'
  <2>1. <<>> \in Seq(Nat) /\ s \in R!Steps /\ "none" \in R!EditSteps
    BY EmptySeq DEF R!Steps, R!EditSteps
  <2>2. q \in DBRec
    BY <1>2, <2>1 DEF DBRec
  <2>3. ~Editing'
    BY <1>3 DEF Editing
  <2> QED
    BY <1>1, <2>2, <2>3 DEF DBTyped
<1>5. MemIssued' /\ MemClosed'
  BY <1>3 DEF MemIssued, MemClosed, Old, ClosedSet, HasId
<1>6. Alive' = (UNION {Data(v) : v \in Survivors})'
  <2>1. Added' = {}
    BY <1>3 DEF Added, Editing
  <2>2. InMemory' = {}
    BY <1>3 DEF InMemory, TablesOf
  <2>3. TablesOf(Added)' = {}
    BY <2>1 DEF TablesOf
  <2> QED
    BY <2>2, <2>3 DEF Alive
<1>7. Recovering' /\ Replaying' /\ NothingYet' /\ Replayed' /\ ManifestWritten'
  BY <1>3 DEF Recovering, Replaying, NothingYet, Replayed, ManifestWritten
<1>8. LogInUse' /\ Describing' /\ Installed' /\ EditPending'
  BY <1>3 DEF LogInUse, Describing, Installed, EditPending
<1> QED
  BY <1>3, <1>4, <1>5, <1>6, <1>7, <1>8

(* A process that holds nothing has alive what is on the disk.             *)
LEMMA AliveOnDisk == UNION {Data(v) : v \in Survivors} \subseteq Alive
  BY DEF Alive

(* Sequence numbers stay unique when there are fewer writes.               *)
LEMMA FewerAlive == ASSUME Unique, Alive' \subseteq Alive PROVE Unique'
  BY DEF Unique

(* The files, but for manifests not in use, are as they were.              *)
LEMMA NothingReadStays ==
    ASSUME RecInv, NEW s, s \in {"down", "corrupt", "current", "versions"},
           r_db' = [R!Down EXCEPT !.step = s], Phase', ManifestsTyped',
           UNCHANGED <<r_logs, r_tables, r_acked, r_exposed, r_cut, r_issued, r_current>>,
           r_current # 0 => r_manifests'[r_current] = r_manifests[r_current]
    PROVE  RecInv'
<1>1. VersionsSound' /\ Survivors' = Survivors
  BY VersionsStay DEF RecInv
<1>2. RecTyped'
  BY NothingRead, SameData DEF RecInv, RecTyped
<1>3. RecIds'
  BY NothingRead, SameData DEF RecInv, RecIds
<1>4. Unique'
  <2>1. (UNION {Data(v) : v \in Survivors})' = UNION {Data(v) : v \in Survivors}
    <3>1. \A v : Data(v)' = Data(v)
      BY SameData
    <3> QED
      BY <1>1, <3>1
  <2> QED
    BY <2>1, NothingRead, AliveOnDisk, FewerAlive DEF RecInv
<1>5. RecPhase'
  BY NothingRead DEF RecPhase
<1> QED
  BY <1>1, <1>2, <1>3, <1>4, <1>5 DEF RecInv

-----------------------------------------------------------------------------
(* The steps of recovery: a process that is down or has read nothing.      *)

(* The fields of a process that is down.                                   *)
LEMMA DownIs == R!Down = [R!Down EXCEPT !.step = "down"] /\ R!Down.step = "down"
                /\ R!Down.at = "none" /\ ~R!Down.described
<1>1. PICK d : d = R!Down
  OBVIOUS
<1>2. d = [step |-> "down", edit |-> R!NoEdit, at |-> "none", mem |-> {}, imm |-> {}, log |-> 0,
           log_number |-> 0, files |-> {}, next_file |-> 2, manifest |-> 0, described |-> FALSE,
           last_sequence |-> 0, todo |-> <<>>, bg_error |-> FALSE]
  BY <1>1 DEF R!Down
<1>3. d.step = "down" /\ d.at = "none" /\ ~d.described
  BY <1>2
<1>4. PICK q : q = [R!Down EXCEPT !.step = "down"]
  OBVIOUS
<1>5. q = [step |-> "down", edit |-> R!NoEdit, at |-> "none", mem |-> {}, imm |-> {}, log |-> 0,
           log_number |-> 0, files |-> {}, next_file |-> 2, manifest |-> 0, described |-> FALSE,
           last_sequence |-> 0, todo |-> <<>>, bg_error |-> FALSE]
  BY <1>4 DEF R!Down
<1> QED
  BY <1>1, <1>2, <1>3, <1>4, <1>5

(* What the process has to keep when it is down: nothing but the files.    *)
LEMMA DownPhase ==
    ASSUME Phase, r_db' = R!Down, UNCHANGED <<r_current, r_acked>>, DOMAIN r_logs' = DOMAIN r_logs
    PROVE  Phase' /\ r_db' = [R!Down EXCEPT !.step = "down"]
<1>1. r_db' = [R!Down EXCEPT !.step = "down"] /\ r_db'.step = "down"
  BY DownIs
<1>2. r_current' = 0 => DOMAIN r_logs' = {} /\ r_acked' = {}
  BY DEF Phase
<1> QED
  BY <1>1, <1>2 DEF Phase

(* DBImpl::Recover gives up: the process is down and the files are as they *)
(* were.                                                                   *)
LEMMA OpenFailsKeeps == ASSUME RecInv, R!OpenFails PROVE RecInv'
<1>1. /\ r_db' = R!Down
      /\ UNCHANGED <<r_logs, r_manifests, r_tables, r_acked, r_exposed, r_cut, r_issued, r_current>>
  BY DEF R!OpenFails, R!disk, R!ghosts
<1>2. Phase' /\ r_db' = [R!Down EXCEPT !.step = "down"]
  BY <1>1, DownPhase DEF RecInv, RecPhase
<1>3. ManifestsTyped'
  BY <1>1 DEF RecInv, RecTyped, ManifestsTyped
<1> QED
  BY <1>1, <1>2, <1>3, NothingReadStays

(* DBImpl::~DBImpl, which writes nothing.                                  *)
LEMMA CloseKeeps == ASSUME RecInv, R!Close PROVE RecInv'
<1>1. /\ r_db' = R!Down
      /\ UNCHANGED <<r_logs, r_manifests, r_tables, r_acked, r_exposed, r_cut, r_issued, r_current>>
  BY DEF R!Close, R!disk, R!ghosts
<1>2. Phase' /\ r_db' = [R!Down EXCEPT !.step = "down"]
  BY <1>1, DownPhase DEF RecInv, RecPhase
<1>3. ManifestsTyped'
  BY <1>1 DEF RecInv, RecTyped, ManifestsTyped
<1> QED
  BY <1>1, <1>2, <1>3, NothingReadStays

(* DBImpl::Recover finds CURRENT.                                          *)
LEMMA OpenExistingKeeps == ASSUME RecInv, R!OpenExisting PROVE RecInv'
<1>1. /\ r_db.step = "down" /\ r_current # 0 /\ r_db' = [r_db EXCEPT !.step = "versions"]
      /\ UNCHANGED <<r_logs, r_manifests, r_tables, r_acked, r_exposed, r_cut, r_issued, r_current>>
  BY DEF R!OpenExisting, R!disk, R!ghosts
<1>2. r_db' = [R!Down EXCEPT !.step = "versions"]
  <2>1. r_db = R!Down
    BY <1>1, DownIs DEF RecInv, RecPhase, Phase
  <2> QED
    BY <1>1, <2>1
<1>3. Phase'
  <2>1. r_db'.step = "versions"
    BY <1>2 DEF R!Down
  <2> QED
    BY <1>1, <1>2, <2>1 DEF RecInv, RecPhase, Phase
<1>4. ManifestsTyped'
  BY <1>1 DEF RecInv, RecTyped, ManifestsTyped
<1> QED
  BY <1>1, <1>2, <1>3, <1>4, NothingReadStays

(* A manifest that is written or taken away.                               *)
LEMMA NewManifest ==
    ASSUME ManifestsTyped, NEW m, m \in Nat \ {0}, NEW f, f \in Manifest, f.synced <= Len(f.recs),
           UNCHANGED r_current, r_manifests' = R!With(r_manifests, m, f), m # r_current
    PROVE  /\ ManifestsTyped'
           /\ r_current # 0 => r_manifests'[r_current] = r_manifests[r_current]
           /\ m \in DOMAIN r_manifests' /\ r_manifests'[m] = f
<1>1. /\ DOMAIN r_manifests' = DOMAIN r_manifests \cup {m} /\ r_manifests'[m] = f
      /\ \A n \in DOMAIN r_manifests : n # m => r_manifests'[n] = r_manifests[n]
  BY DEF R!With
<1> QED
  BY <1>1 DEF ManifestsTyped

(* The first manifest, which DBImpl::NewDB writes, names nothing but the   *)
(* next number.                                                            *)
LEMMA FirstEdit ==
    LET e == R!Edit({}, {}, 0, 2, 0)
    IN  /\ e \in EditRec /\ R!File(<<e>>, 0) \in Manifest /\ R!File(<<e>>, 0).synced <= Len(R!File(<<e>>, 0).recs)
        /\ R!File(<<e>>, 0).recs = Append(<<>>, e) /\ R!File(<<e>>, 0).synced = 0
        /\ Len(Append(<<>>, e)) = 1
<1> DEFINE e == R!Edit({}, {}, 0, 2, 0)
<1>1. e \in EditRec
  BY DEF R!Edit, EditRec
<1> HIDE DEF e
<1>2. PICK n \in Seq(EditRec) : n = <<>>
  BY EmptySeq
<1>3. Append(n, e) \in Seq(EditRec) /\ Len(Append(n, e)) = 1
  BY <1>1, <1>2, EmptySeq, AppendProperties
<1>4. <<e>> = Append(<<>>, e)
  OBVIOUS
<1>5. /\ R!File(<<e>>, 0).recs = Append(<<>>, e) /\ R!File(<<e>>, 0).synced = 0
      /\ R!File(<<e>>, 0) = [recs |-> Append(<<>>, e), synced |-> 0]
  BY <1>4 DEF R!File
<1>6. R!File(<<e>>, 0) \in Manifest
  <2>1. PICK s \in Seq(EditRec) : s = Append(<<>>, e)
    BY <1>2, <1>3
  <2>2. R!File(<<e>>, 0) = [recs |-> s, synced |-> 0]
    BY <1>5, <2>1
  <2> QED
    BY <2>2 DEF Manifest
<1> QED
  BY <1>1, <1>2, <1>3, <1>5, <1>6 DEF e

(* DBImpl::NewDB writes the first manifest.                                *)
LEMMA NewDBKeeps == ASSUME RecInv, R!NewDB PROVE RecInv'
<1> DEFINE f == R!File(<<R!Edit({}, {}, 0, 2, 0)>>, 0)
<1>1. /\ r_db.step = "down" /\ r_current = 0 /\ r_db' = [r_db EXCEPT !.step = "current"]
      /\ r_manifests' = R!With(r_manifests, 1, f)
      /\ UNCHANGED <<r_logs, r_tables, r_acked, r_exposed, r_cut, r_issued, r_current>>
  BY DEF R!NewDB, R!ghosts
<1>2. r_db' = [R!Down EXCEPT !.step = "current"]
  <2>1. r_db = R!Down
    BY <1>1, DownIs DEF RecInv, RecPhase, Phase
  <2> QED
    BY <1>1, <2>1
<1>3. f \in Manifest /\ f.synced <= Len(f.recs)
  BY FirstEdit
<1> HIDE DEF f
<1>4. ManifestsTyped' /\ 1 \in DOMAIN r_manifests' /\ r_manifests'[1] = f
  BY <1>1, <1>3, NewManifest DEF RecInv, RecTyped
<1>5. Phase'
  <2>1. r_db'.step = "current"
    BY <1>2 DEF R!Down
  <2>2. DOMAIN r_logs' = {} /\ r_acked' = {} /\ r_current' = 0
    BY <1>1 DEF RecInv, RecPhase, Phase
  <2> QED
    BY <1>2, <1>4, <2>1, <2>2 DEF Phase, f
<1> QED
  BY <1>1, <1>2, <1>4, <1>5, NothingReadStays

(* SetCurrentFile makes the first manifest the current one.                *)
LEMMA PointToNewDBKeeps == ASSUME RecInv, R!PointToNewDB PROVE RecInv' /\ Found' = Found
<1> DEFINE e == R!Edit({}, {}, 0, 2, 0)
<1>1. /\ r_db.step = "current" /\ r_current' = 1 /\ r_db' = [r_db EXCEPT !.step = "versions"]
      /\ UNCHANGED <<r_logs, r_manifests, r_tables, r_acked, r_exposed, r_cut, r_issued>>
  BY DEF R!PointToNewDB, R!ghosts
<1>2. /\ r_db = [R!Down EXCEPT !.step = "current"]
      /\ r_current = 0 /\ 1 \in DOMAIN r_manifests /\ r_manifests[1] = R!File(<<e>>, 0)
      /\ DOMAIN r_logs = {} /\ r_acked = {}
  BY <1>1 DEF RecInv, RecPhase, Phase
<1>3. r_db' = [R!Down EXCEPT !.step = "versions"] /\ r_db'.step = "versions"
  BY <1>1, <1>2 DEF R!Down
<1>4. Phase'
  <2>1. r_current' = 1 /\ r_current' # 0
    BY <1>1
  <2>2. PICK s : s = r_db'.step
    OBVIOUS
  <2>3. s = "versions" /\ r_db' = [R!Down EXCEPT !.step = s]
    BY <1>3, <2>2
  <2> QED
    BY <2>1, <2>2, <2>3 DEF Phase
<1>5. ManifestsTyped'
  BY <1>1, <1>2 DEF RecInv, RecTyped, ManifestsTyped
<1>6. RecTyped'
  BY <1>1, <1>3, <1>5, NothingRead, SameData DEF RecInv, RecTyped
<1>7. RecIds'
  BY <1>1, <1>3, NothingRead, SameData DEF RecInv, RecIds
<1>8. Current' = Append(<<>>, e) /\ Len(Append(<<>>, e)) = 1 /\ e \in EditRec
      /\ r_manifests'[r_current'].synced = 0
  BY <1>1, <1>2, FirstEdit DEF Current
<1>9. e.add = {} /\ e.del = {} /\ e.log = 0 /\ e.next = 2 /\ e.seq = 0
  BY DEF R!Edit
<1> HIDE DEF e
<1>10. PICK none \in Seq(EditRec) : none = <<>>
  BY EmptySeq
<1>11. PICK one \in Seq(EditRec) : one = Append(none, e)
  BY <1>8, AppendProperties
<1>12. SubSeq(one, 1, 0) = <<>> /\ SubSeq(one, 1, 1) = one
  <2>1. Len(one) = 1 /\ 0 \in 0..Len(one)
    BY <1>8, <1>10, <1>11
  <2>2. PICK s \in Seq(EditRec) : s = SubSeq(one, 1, 0) /\ Len(s) = 0
    <3>1. PICK z \in 0..Len(one) : z = 0
      BY <2>1
    <3>2. SubSeq(one, 1, z) \in Seq(EditRec) /\ Len(SubSeq(one, 1, z)) = z
      BY FrontFacts
    <3> QED
      BY <3>1, <3>2
  <2>3. s = <<>>
    BY <2>2, EmptySeq
  <2> QED
    BY <2>1, <2>2, <2>3, SubSeqFull
<1>13. /\ R!Apply(none).files = {} /\ R!Apply(none).log = 0
       /\ R!Apply(none).next = 0 /\ R!Apply(none).seq = 0
  BY <1>10, ApplyNothing
<1>14. /\ R!Apply(one).files = {} /\ R!Apply(one).log = 0
       /\ R!Apply(one).next = 2 /\ R!Apply(one).seq = 0
  <2>1. e \in EditRec
    BY <1>8
  <2>2. /\ R!Apply(Append(none, e)).files = (R!Apply(none).files \ e.del) \cup e.add
        /\ e.next # 0 => /\ R!Apply(Append(none, e)).log = e.log
                         /\ R!Apply(Append(none, e)).next = e.next
                         /\ R!Apply(Append(none, e)).seq = e.seq
    BY <2>1, ApplyAppend
  <2>3. (R!Apply(none).files \ e.del) \cup e.add = {}
    BY <1>9, <1>13
  <2> QED
    BY <1>9, <1>11, <2>2, <2>3
<1>15. LastVersion' = R!Apply(one)
  BY <1>8, <1>10, <1>11 DEF LastVersion
<1>16. \A v \in Survivors' : v = R!Apply(none) \/ v = R!Apply(one)
  <2>1. Survivors' = {R!Apply(SubSeq(one, 1, k)) : k \in 0..1}
    BY <1>1, <1>8, <1>10, <1>11 DEF Survivors
  <2>2. \A k \in 0..1 : k = 0 \/ k = 1
    OBVIOUS
  <2> QED
    BY <1>10, <1>12, <2>1, <2>2
<1>17. TablesOf({})' = {} /\ LogData(0)' = {} /\ SyncedData(0)' = {}
  BY <1>1, <1>2 DEF TablesOf, LogData, SyncedData
<1>18. ASSUME NEW v, v \in Survivors'
       PROVE  Sound(v)' /\ Agrees(v)' /\ Data(v)' = {}
  <2>1. v.files = {} /\ v.log = 0 /\ v.next \in {0, 2} /\ v.seq = 0
    BY <1>13, <1>14, <1>16, <1>18
  <2>2. PICK last : last = LastVersion' /\ last.files = {} /\ last.log = 0 /\ last.next = 2
    BY <1>14, <1>15
  <2>3. Data(v)' = {} /\ Data(last)' = {}
    BY <1>17, <2>1, <2>2 DEF Data
  <2>4. Sound(v)'
    BY <1>1, <1>2, <1>17, <2>1 DEF Sound, HasAcked, HasSynced
  <2>5. Agrees(v)'
    <3>1. Data(LastVersion)' = {}
      BY <2>2, <2>3 DEF Data
    <3> QED
      BY <2>1, <2>2, <2>3, <3>1 DEF Agrees
  <2> QED
    BY <2>3, <2>4, <2>5
<1>19. VersionsSound'
  BY <1>18 DEF VersionsSound
<1>20. Unique'
  <2>1. Alive' = {}
    BY <1>3, <1>18, NothingRead
  <2> QED
    BY <2>1 DEF Unique
<1>21. RecPhase'
  BY <1>3, <1>4, NothingRead DEF RecPhase
<1>22. Found' = Found
  <2>1. PICK last : last = LastVersion' /\ last.files = {} /\ last.log = 0
    BY <1>14, <1>15
  <2>2. Data(last)' = {}
    BY <1>17, <2>1 DEF Data
  <2>3. Data(LastVersion)' = {}
    BY <2>1, <2>2
  <2> QED
    BY <1>2, <2>3 DEF Found, Vis
<1> QED
  BY <1>6, <1>7, <1>19, <1>20, <1>21, <1>22 DEF RecInv

(* A crash leaves of the manifest in use a front with all that is synced:  *)
(* one version, which could have been left before.                         *)
LEMMA CutManifests ==
    ASSUME ManifestsTyped, UNCHANGED r_current, r_manifests' \in R!LeftOver(r_manifests)
    PROVE  /\ ManifestsTyped'
           /\ \A v \in Survivors' : v \in Survivors /\ LastVersion' = v
<1>1. DOMAIN r_manifests' = DOMAIN r_manifests
  BY LeftOverFacts
<1>2. ASSUME NEW n, n \in DOMAIN r_manifests
      PROVE  \E k \in r_manifests[n].synced..Len(r_manifests[n].recs) :
                /\ r_manifests'[n] \in Manifest /\ Len(r_manifests'[n].recs) = k
                /\ r_manifests'[n].synced = k /\ k \in Nat
                /\ r_manifests'[n].recs = SubSeq(r_manifests[n].recs, 1, k)
  <2>1. PICK recs \in Seq(EditRec) : recs = r_manifests[n].recs
    BY <1>2 DEF ManifestsTyped, Manifest
  <2>2. PICK l \in Nat : l = Len(recs)
    BY LenProperties
  <2>3. PICK s \in 0..l : s = r_manifests[n].synced
    BY <1>2, <2>1, <2>2 DEF ManifestsTyped, Manifest
  <2>4. r_manifests[n] \in Manifest
    BY <1>2 DEF ManifestsTyped
  <2>5. CASE r_manifests'[n] = r_manifests[n] /\ ~(s < l)
    <3>1. l \in s..l /\ s = l
      BY <2>5
    <3>2. SubSeq(recs, 1, l) = recs
      BY <2>2, SubSeqFull
    <3> QED
      BY <2>1, <2>2, <2>3, <2>4, <2>5, <3>1, <3>2
  <2>6. ASSUME NEW k \in s..l, r_manifests'[n] = R!File(SubSeq(recs, 1, k), k)
        PROVE  /\ r_manifests'[n] \in Manifest /\ Len(r_manifests'[n].recs) = k
               /\ r_manifests'[n].synced = k /\ k \in Nat
               /\ r_manifests'[n].recs = SubSeq(recs, 1, k)
    <3>1. k \in 0..l /\ k \in Nat
      OBVIOUS
    <3>2. PICK t \in Seq(EditRec) : t = SubSeq(recs, 1, k)
      BY <2>2, <3>1, FrontFacts
    <3>3. Len(t) = k
      BY <2>2, <3>1, <3>2, FrontFacts
    <3>4. r_manifests'[n].recs = t /\ r_manifests'[n].synced = k
      BY <2>6, <3>2 DEF R!File
    <3>5. r_manifests'[n] \in Manifest
      BY <2>6, <3>1, <3>2 DEF R!File, Manifest
    <3> QED
      BY <3>1, <3>2, <3>3, <3>4, <3>5
  <2>7. \/ ~(s < l) /\ r_manifests'[n] = r_manifests[n]
        \/ s < l /\ \E k \in s..l : r_manifests'[n] = R!File(SubSeq(recs, 1, k), k)
    BY <1>2, <2>1, <2>2, <2>3, LeftOverFacts
  <2> QED
    BY <2>1, <2>2, <2>3, <2>5, <2>6, <2>7
<1>3. ManifestsTyped'
  <2>1. \A n \in DOMAIN r_manifests' :
           r_manifests'[n] \in Manifest /\ r_manifests'[n].synced <= Len(r_manifests'[n].recs)
    BY <1>1, <1>2
  <2> QED
    BY <1>1, <2>1 DEF ManifestsTyped
<1>4. ASSUME NEW v, v \in Survivors'
      PROVE  v \in Survivors /\ LastVersion' = v
  <2>1. r_current # 0 /\ r_current \in DOMAIN r_manifests
    BY <1>4 DEF Survivors, ManifestsTyped
  <2>2. PICK k \in r_manifests[r_current].synced..Len(Current) :
              /\ Len(Current') = k /\ r_manifests'[r_current].synced = k /\ k \in Nat
              /\ Current' = SubSeq(Current, 1, k) /\ Current' \in Seq(EditRec)
    BY <1>2, <2>1 DEF Current, Manifest
  <2>3. PICK j \in k..k : v = R!Apply(SubSeq(Current', 1, j))
    BY <1>4, <2>2 DEF Survivors
  <2>4. SubSeq(Current', 1, j) = Current'
    <3>1. j = Len(Current')
      BY <2>2, <2>3
    <3> QED
      BY <2>2, <3>1, SubSeqFull
  <2>5. v = R!Apply(Current') /\ v = R!Apply(SubSeq(Current, 1, k))
    BY <2>2, <2>3, <2>4
  <2> QED
    BY <2>1, <2>2, <2>5 DEF Survivors, LastVersion
<1> QED
  BY <1>3, <1>4

(* A crash leaves the manifest in use a version that may survive, and of   *)
(* every log a front.                                                      *)
LEMMA CrashKeeps == ASSUME RecInv, R!Crash PROVE RecInv'
<1>1. /\ r_logs' \in R!LeftOver(r_logs) /\ r_manifests' \in R!LeftOver(r_manifests)
      /\ r_cut' = r_cut \cup UNION {{r.id : r \in R!Range(r_logs[n].recs)}
                                 \ {r.id : r \in R!Range(r_logs'[n].recs)} : n \in DOMAIN r_logs}
      /\ r_db' = R!Down
      /\ UNCHANGED <<r_current, r_tables, r_acked, r_exposed, r_issued>>
  BY DEF R!Crash
<1>2. /\ LogsTyped /\ ManifestsTyped /\ TablesTyped /\ GhostsTyped /\ LogsIssued /\ TablesIssued
      /\ OwnLog /\ LogsClosed /\ TablesClosed /\ VersionsSound /\ Unique /\ Phase
  BY DEF RecInv, RecTyped, RecIds, RecPhase
<1>3. /\ LogsTyped' /\ DOMAIN r_logs' = DOMAIN r_logs
      /\ \A n \in DOMAIN r_logs : \E k \in r_logs[n].synced..Len(r_logs[n].recs) :
            /\ Len(r_logs'[n].recs) = k
            /\ \A i \in 1..k : r_logs'[n].recs[i] = r_logs[n].recs[i]
            /\ \A x : x \in Read(r_logs'[n].recs) <=>
                         \E i \in 1..k : r_logs[n].recs[i] = x /\ Whole(r_logs[n].recs, i)
      /\ \A from : LogData(from)' \subseteq LogData(from)
      /\ \A from : SyncedData(from) \subseteq SyncedData(from)'
  BY <1>1, <1>2, CutLogs
<1>4. ManifestsTyped' /\ \A v \in Survivors' : v \in Survivors /\ LastVersion' = v
  BY <1>1, <1>2, CutManifests
<1>5. /\ Phase' /\ r_db' = [R!Down EXCEPT !.step = "down"]
  BY <1>1, <1>2, <1>3, DownPhase
<1>6. /\ DBTyped' /\ MemIssued' /\ MemClosed' /\ Alive' = (UNION {Data(v) : v \in Survivors})'
      /\ Recovering' /\ Replaying' /\ NothingYet' /\ Replayed' /\ ManifestWritten'
      /\ LogInUse' /\ Describing' /\ Installed' /\ EditPending'
  BY <1>5, NothingRead
<1>7. /\ \A A : TablesOf(A)' = TablesOf(A) /\ TablesTyped' /\ TablesIssued' /\ TablesClosed'
  BY <1>1, <1>2, SameTables
<1>8. \A n \in DOMAIN r_logs : /\ Len(r_logs[n].recs) \in Nat /\ r_logs[n].synced \in 0..Len(r_logs[n].recs)
                               /\ DOMAIN r_logs[n].recs = 1..Len(r_logs[n].recs)
                               /\ r_logs[n].recs \in Seq(Rec \cup {R!Torn})
                               /\ \A i \in 1..Len(r_logs[n].recs) : r_logs[n].recs[i] \in Rec \cup {R!Torn}
  BY <1>2, LogTypes, LenProperties, ElementOfSeq
<1>9. r_cut \subseteq r_cut' /\ r_cut' \subseteq Nat
  <2>1. \A n \in DOMAIN r_logs : \A r \in R!Range(r_logs[n].recs) : r.id \in Nat
    <3>1. \A r \in Rec \cup {R!Torn} : r.id \in Nat
      BY DEF Rec, R!Torn
    <3> QED
      BY <1>8, <3>1 DEF R!Range
  <2>2. r_cut \subseteq Nat
    BY <1>2 DEF GhostsTyped
  <2>3. PICK gone : gone = UNION {{r.id : r \in R!Range(r_logs[n].recs)}
                                 \ {r.id : r \in R!Range(r_logs'[n].recs)} : n \in DOMAIN r_logs}
    OBVIOUS
  <2>4. \A x \in gone : \E n \in DOMAIN r_logs : \E r \in R!Range(r_logs[n].recs) : x = r.id
    BY <2>3
  <2>5. gone \subseteq Nat
    BY <2>1, <2>4
  <2>6. r_cut' = r_cut \cup gone
    BY <1>1, <2>3
  <2> QED
    BY <2>2, <2>5, <2>6
<1>10. ASSUME NEW n \in DOMAIN r_logs, NEW i \in 1..Len(r_logs[n].recs), r_logs[n].recs[i].id \notin r_cut'
       PROVE  \E j \in 1..Len(r_logs'[n].recs) : r_logs'[n].recs[j].id = r_logs[n].recs[i].id
  <2>1. r_logs[n].recs[i] \in R!Range(r_logs[n].recs)
    BY <1>8 DEF R!Range
  <2>2. r_logs[n].recs[i].id \in {r.id : r \in R!Range(r_logs'[n].recs)}
    BY <1>1, <1>10, <2>1
  <2>3. DOMAIN r_logs'[n].recs = 1..Len(r_logs'[n].recs)
    <3>1. r_logs'[n].recs \in Seq(Rec \cup {R!Torn})
      BY <1>3 DEF LogsTyped, LogFile
    <3> QED
      BY <3>1, LenProperties
  <2> QED
    BY <2>2, <2>3 DEF R!Range
<1>11. RecTyped'
  <2>1. GhostsTyped'
    BY <1>1, <1>2, <1>9 DEF GhostsTyped
  <2> QED
    BY <1>3, <1>4, <1>6, <1>7, <2>1 DEF RecTyped
<1>12. ASSUME NEW n \in DOMAIN r_logs, NEW i \in 1..Len(r_logs'[n].recs)
       PROVE  i \in 1..Len(r_logs[n].recs) /\ r_logs'[n].recs[i] = r_logs[n].recs[i]
  <2>1. PICK k \in r_logs[n].synced..Len(r_logs[n].recs) :
            Len(r_logs'[n].recs) = k /\ \A h \in 1..k : r_logs'[n].recs[h] = r_logs[n].recs[h]
    BY <1>3
  <2>2. k <= Len(r_logs[n].recs) /\ Len(r_logs[n].recs) \in Nat /\ k \in Nat
    BY <1>8
  <2> QED
    BY <2>1, <2>2
<1>13. LogsIssued'
  BY <1>1, <1>2, <1>3, <1>12 DEF LogsIssued
<1>14. OwnLog'
  BY <1>1, <1>2, <1>3, <1>12 DEF OwnLog
<1>15. LogsClosed'
  <2>1. ASSUME NEW n, n \in DOMAIN r_logs
        PROVE  LogClosed(r_logs[n].recs)'
    <3>1. PICK p : p = r_logs[n].recs
      OBVIOUS
    <3>2. PICK q : q = r_logs'[n].recs
      OBVIOUS
    <3>3. \A i \in 1..Len(q) : i \in 1..Len(p) /\ q[i] = p[i]
      BY <1>12, <2>1, <3>1, <3>2
    <3>4. Len(p) \in Nat /\ Len(q) \in Nat
      <4>1. q \in Seq(Rec \cup {R!Torn})
        BY <1>3, <2>1, <3>2 DEF LogsTyped, LogFile
      <4> QED
        BY <1>8, <2>1, <3>1, <4>1, LenProperties
    <3>5. \A i \in 1..Len(q) : \A j \in 1..i : j \in 1..Len(q)
      BY <3>4
    <3>6. \A i \in 1..Len(q) : Whole(q, i) <=> Whole(p, i)
      BY <3>3 DEF Whole
    <3>7. LogClosed(p)
      BY <1>2, <2>1, <3>1 DEF LogsClosed
    <3>8. r_acked' = r_acked /\ r_exposed' = r_exposed
      BY <1>1
    <3>9. LogClosed(q)'
      BY ONLY <3>3, <3>5, <3>6, <3>7, <3>8 DEF LogClosed, Whole
    <3> QED
      BY <3>2, <3>9 DEF LogClosed
  <2> QED
    BY <1>3, <2>1 DEF LogsClosed
<1>16. RecIds'
  BY <1>6, <1>7, <1>13, <1>14, <1>15 DEF RecIds
<1>17. ASSUME NEW v, v \in Survivors'
       PROVE  Sound(v)' /\ Agrees(v)' /\ Data(v)' \subseteq Data(v) /\ v \in Survivors
  <2>1. v \in Survivors /\ LastVersion' = v /\ Sound(v)
    BY <1>2, <1>4, <1>17 DEF VersionsSound
  <2>2. TablesOf(v.files)' = TablesOf(v.files) /\ LogData(v.log)' \subseteq LogData(v.log)
        /\ SyncedData(v.log) \subseteq SyncedData(v.log)'
    BY <1>3, <1>7
  <2>3. Data(v)' = TablesOf(v.files) \cup LogData(v.log)'
    BY <2>2 DEF Data
  <2>4. ASSUME NEW a \in r_acked, a.id \notin r_cut' \cup r_exposed
        PROVE  HasId(Data(v)', a.id)
    <3>1. PICK w \in Data(v) : w.id = a.id
      BY <1>9, <2>1, <2>4 DEF Sound, HasAcked, HasId
    <3>2. CASE w \in TablesOf(v.files)
      BY <2>3, <3>1, <3>2 DEF HasId
    <3>3. CASE w \in LogData(v.log)
      <4>1. PICK n \in DOMAIN r_logs : n >= v.log /\ w \in Read(r_logs[n].recs)
        BY <3>3 DEF LogData
      <4>2. PICK i \in 1..Len(r_logs[n].recs) : r_logs[n].recs[i] = w /\ Whole(r_logs[n].recs, i)
        BY <1>8, <4>1, ReadIs
      <4>3. PICK j \in 1..Len(r_logs'[n].recs) : r_logs'[n].recs[j].id = a.id
        BY <1>10, <2>4, <3>1, <4>2
      <4>4. PICK k \in r_logs[n].synced..Len(r_logs[n].recs) :
                 /\ Len(r_logs'[n].recs) = k
                 /\ \A h \in 1..k : r_logs'[n].recs[h] = r_logs[n].recs[h]
                 /\ \A x : x \in Read(r_logs'[n].recs) <=>
                              \E h \in 1..k : r_logs[n].recs[h] = x /\ Whole(r_logs[n].recs, h)
        BY <1>3
      <4>5. k \in Nat /\ j \in 1..k /\ r_logs[n].recs[j].id = a.id /\ i \in Nat
        BY <1>8, <4>3, <4>4
      <4>6. \E x \in Read(r_logs'[n].recs) : x.id = a.id
        <5>1. CASE i <= k
          <6>1. i \in 1..k
            BY <4>5, <5>1
          <6> QED
            BY <3>1, <4>2, <4>4, <6>1
        <5>2. CASE k < i
          <6>1. a.id # R!Torn.id
            BY <1>2 DEF GhostsTyped, AckRec, R!Torn
          <6>2. Whole(r_logs[n].recs, j)
            BY <4>5, <6>1 DEF Whole
          <6> QED
            BY <4>4, <4>5, <6>2
        <5> QED
          BY <4>5, <5>1, <5>2
      <4>7. \A x \in Read(r_logs'[n].recs) : x \in LogData(v.log)'
        BY <1>3, <4>1 DEF LogData
      <4> QED
        BY <2>3, <4>6, <4>7 DEF HasId
    <3> QED
      BY <3>1, <3>2, <3>3 DEF Data
  <2>5. HasAcked(Data(v))'
    BY <1>1, <2>4 DEF HasAcked, HasId
  <2>6. HasSynced(TablesOf(v.files) \cup SyncedData(v.log))'
    BY <1>1, <2>1, <2>2 DEF Sound, HasSynced, HasId
  <2>7. \A w \in TablesOf(v.files)' : w.seq <= v.seq
    BY <2>1, <2>2 DEF Sound
  <2>8. Sound(v)'
    BY <1>1, <1>3, <2>1, <2>5, <2>6, <2>7 DEF Sound
  <2>9. Agrees(v)'
    <3>1. v.next \in Nat
      BY <1>2, <2>1, SurvivorFacts
    <3> QED
      BY <2>1, <3>1 DEF Agrees, Data, Vis
  <2> QED
    BY <2>1, <2>2, <2>3, <2>8, <2>9 DEF Data
<1>18. VersionsSound'
  BY <1>17 DEF VersionsSound
<1>19. Unique'
  <2>1. (UNION {Data(v) : v \in Survivors})' \subseteq UNION {Data(v) : v \in Survivors}
    <3>1. ASSUME NEW x, x \in (UNION {Data(v) : v \in Survivors})'
          PROVE  x \in UNION {Data(v) : v \in Survivors}
      <4>1. PICK v \in Survivors' : x \in Data(v)'
        BY <3>1
      <4> QED
        BY <1>17, <4>1
    <3> QED
      BY <3>1
  <2> QED
    BY <1>2, <1>6, <2>1, AliveOnDisk, FewerAlive
<1>20. RecPhase'
  BY <1>5, <1>6 DEF RecPhase
<1> QED
  BY <1>11, <1>16, <1>18, <1>19, <1>20 DEF RecInv

-----------------------------------------------------------------------------
(* Edits.                                                                  *)

(* Only a process that has read something edits or has a manifest.         *)
LEMMA Edits ==
    ASSUME Phase, DBTyped
    PROVE  /\ r_db.at # "none" => r_db.step \in {"newlog", "open"}
           /\ r_db.described => r_db.step \in {"newlog", "open"}
           /\ r_db.step \in {"logs", "newlog", "open"} => r_current # 0
<1>1. r_db.step \in {"down", "corrupt", "current", "versions", "logs", "newlog", "open"}
  BY DBFields DEF R!Steps
<1>2. ASSUME r_db.step \in {"down", "corrupt", "current", "versions"}
      PROVE  r_db.at = "none" /\ ~r_db.described
  <2>1. PICK s : s = r_db.step
    OBVIOUS
  <2>2. r_db = [R!Down EXCEPT !.step = s]
    BY <1>2, <2>1 DEF Phase
  <2> QED
    BY <2>2 DEF R!Down
<1>3. r_db.step = "logs" => r_db.at = "none" /\ ~r_db.described
  BY DEF Phase
<1>4. r_db.step \in {"logs", "newlog", "open"} => r_current # 0
  BY DEF Phase
<1> QED
  BY <1>1, <1>2, <1>3, <1>4

(* The version that VersionSet::Recover will read can be opened.           *)
LEMMA LastIsSound ==
    ASSUME ManifestsTyped, VersionsSound, r_current # 0
    PROVE  /\ LastVersion \in Survivors /\ Sound(LastVersion)
           /\ LastVersion.files \subseteq Nat /\ LastVersion.log \in Nat
           /\ LastVersion.next \in Nat /\ LastVersion.seq \in Nat
<1>1. LastVersion \in Survivors
  BY SurvivorFacts
<1> QED
  BY <1>1, SurvivorFacts DEF VersionsSound

(* While a version is being recovered.                                     *)
LEMMA WhileRecovering ==
    ASSUME RecInv, r_db.step = "logs" \/ (r_db.step = "newlog" /\ ~r_db.described)
    PROVE  /\ r_current # 0 /\ r_current \in Nat /\ r_current < r_db.manifest /\ r_db.manifest \in Nat
           /\ r_db.files \subseteq DOMAIN r_tables /\ \A n \in r_db.files : n < r_db.manifest
           /\ r_db.files \subseteq Nat
           /\ r_db.log_number < r_db.manifest /\ r_db.log_number \in Nat
           /\ r_db.next_file \in Nat /\ r_db.manifest < r_db.next_file
           /\ \A v \in Survivors : v.files \subseteq DOMAIN r_tables /\ \A n \in v.files : n < r_db.next_file
<1>1. r_current # 0 /\ r_current \in Nat
  BY DEF RecInv, RecPhase, Phase, RecTyped, ManifestsTyped
<1>2. Sound(LastVersion) /\ LastVersion.next \in Nat
  BY <1>1, LastIsSound DEF RecInv, RecTyped
<1>3. /\ LastVersion.next # 0 /\ r_db.files = LastVersion.files /\ r_db.log_number = LastVersion.log
      /\ r_db.manifest = LastVersion.next /\ r_db.manifest < r_db.next_file
  BY DEF RecInv, RecPhase, Recovering
<1>4. r_db.next_file \in Nat /\ r_db.log_number \in Nat /\ r_db.files \subseteq Nat
  BY DBFields DEF RecInv, RecTyped
<1>5. ASSUME NEW v, v \in Survivors
      PROVE  v.files \subseteq DOMAIN r_tables /\ \A n \in v.files : n < r_db.next_file
  <2>1. Sound(v) /\ v.next <= LastVersion.next
    BY <1>5 DEF RecInv, VersionsSound, Agrees
  <2>2. v.files \subseteq Nat /\ v.next \in Nat
    BY <1>5, SurvivorFacts DEF RecInv, RecTyped
  <2>3. v.files \subseteq DOMAIN r_tables /\ \A n \in v.files : n < v.next
    BY <2>1 DEF Sound
  <2> QED
    BY <1>2, <1>3, <1>4, <2>1, <2>2, <2>3
<1> QED
  BY <1>1, <1>2, <1>3, <1>4, <1>5 DEF Sound

(* What stays with the log in use, and with memory and files.              *)
LEMMA LogInUseStays ==
    ASSUME LogInUse, r_db.step \in {"newlog", "open"}, DBTyped,
           UNCHANGED <<r_logs, r_acked, r_exposed>>, r_db'.log = r_db.log, r_db'.mem = r_db.mem,
           r_db'.next_file \in Nat, r_db.next_file <= r_db'.next_file
    PROVE  LogInUse'
<1>1. r_db.log < r_db.next_file /\ r_db.log \in Nat /\ r_db.next_file \in Nat
  BY DBFields DEF LogInUse
<1>2. r_db'.log < r_db'.next_file
  BY <1>1
<1>3. \A X, i : HasId(X, i)' <=> HasId(X, i)
  BY DEF HasId
<1> QED
  BY <1>2, <1>3 DEF LogInUse, HasId

(* What is installed stays as long as memory and the tables in use do.     *)
LEMMA InstalledStays ==
    ASSUME Installed, r_db.step = "open" \/ r_db.at = "collect", DBTyped,
           UNCHANGED <<r_logs, r_acked, r_exposed, r_cut>>,
           r_db'.mem = r_db.mem, r_db'.imm = r_db.imm, r_db'.log = r_db.log,
           r_db'.log_number = r_db.log_number, r_db'.files = r_db.files,
           r_db'.manifest = r_db.manifest, r_db'.last_sequence = r_db.last_sequence,
           r_db'.next_file \in Nat, r_db.next_file <= r_db'.next_file,
           r_db.bg_error => r_db'.bg_error,
           r_db.files \subseteq DOMAIN r_tables', TablesOf(r_db.files)' = TablesOf(r_db.files),
           Alive' \subseteq Alive
    PROVE  Installed'
<1>1. /\ r_db.files \subseteq DOMAIN r_tables
      /\ NumbersApart(r_db.files, r_db.log_number)
      /\ r_db.imm = {} <=> r_db.log_number = r_db.log
      /\ Vis(r_db.mem) \subseteq InUse
      /\ r_db.bg_error \/ Vis(InUse) \subseteq r_db.mem
      /\ Vis(r_db.imm) = Vis(OlderLogs(r_db.log_number))
      /\ \A w \in Alive : w.seq <= r_db.last_sequence
      /\ HasAcked(InMemory)
  BY DEF Installed
<1>2. \A X : Vis(X)' = Vis(X)
  BY DEF Vis
<1>3. InUse' = InUse /\ OlderLogs(r_db.log_number)' = OlderLogs(r_db.log_number)
  BY DEF InUse, OlderLogs
<1>4. NumbersApart(r_db.files, r_db.log_number)'
  <2>1. r_db.next_file \in Nat /\ r_db.files \subseteq Nat
    BY DBFields
  <2> QED
    BY <1>1, <2>1 DEF NumbersApart
<1>5. /\ Vis(r_db.mem)' \subseteq InUse'
      /\ r_db'.bg_error \/ Vis(InUse)' \subseteq r_db'.mem
      /\ Vis(r_db.imm)' = Vis(OlderLogs(r_db.log_number))'
  <2>1. Vis(InUse)' = Vis(InUse)
    BY <1>3 DEF Vis
  <2>2. Vis(OlderLogs(r_db.log_number))' = Vis(OlderLogs(r_db.log_number))
    BY <1>3 DEF Vis
  <2>3. Vis(r_db.mem)' = Vis(r_db.mem) /\ Vis(r_db.imm)' = Vis(r_db.imm)
    BY DEF Vis
  <2> QED
    BY <1>1, <1>3, <2>1, <2>2, <2>3
<1>6. HasAcked(InMemory)'
  <2>1. InMemory' = InMemory
    BY DEF InMemory
  <2> QED
    BY <1>1, <2>1 DEF HasAcked, HasId
<1>7. \A w \in Alive' : w.seq <= r_db'.last_sequence
  BY <1>1
<1> QED
  BY <1>1, <1>4, <1>5, <1>6, <1>7 DEF Installed

(* VersionSet::LogAndApply fails: the edit is dropped, and the open fails  *)
(* or the open database takes no more writes.                              *)
LEMMA LogAndApplyFailsKeeps == ASSUME RecInv, R!LogAndApplyFails PROVE RecInv'
<1>1. /\ r_db.at \in {"log", "sync", "point"}
      /\ UNCHANGED <<r_logs, r_current, r_tables, r_acked, r_exposed, r_cut, r_issued>>
  BY DEF R!LogAndApplyFails, R!ghosts
<1>2. Phase /\ DBTyped /\ ManifestsTyped /\ VersionsSound
  BY DEF RecInv, RecTyped, RecPhase
<1>3. r_db.step \in {"newlog", "open"}
  BY <1>1, <1>2, Edits
<1>4. CASE ~r_db.described
  <2>1. /\ r_db' = R!Down
        /\ r_manifests' = R!Only(r_manifests, DOMAIN r_manifests \ {r_db.manifest})
    BY <1>4 DEF R!LogAndApplyFails
  <2>2. r_db.step = "newlog"
    BY <1>2, <1>3, <1>4 DEF Phase
  <2>3. r_current # 0 /\ r_current # r_db.manifest
    BY <1>4, <2>2, WhileRecovering
  <2>4. /\ DOMAIN r_manifests' = DOMAIN r_manifests \ {r_db.manifest}
        /\ \A n \in DOMAIN r_manifests' : r_manifests'[n] = r_manifests[n]
    BY <2>1 DEF R!Only
  <2>5. ManifestsTyped' /\ r_manifests'[r_current] = r_manifests[r_current]
    BY <1>1, <1>2, <2>3, <2>4 DEF ManifestsTyped
  <2>6. Phase' /\ r_db' = [R!Down EXCEPT !.step = "down"]
    BY <1>1, <1>2, <2>1, DownPhase
  <2> QED
    BY <1>1, <2>5, <2>6, NothingReadStays
<1>5. CASE r_db.described
  <2>1. /\ r_db' = [r_db EXCEPT !.at = "none", !.edit = R!NoEdit, !.bg_error = TRUE]
        /\ UNCHANGED r_manifests
    BY <1>5 DEF R!LogAndApplyFails
  <2>2. r_db.step = "open"
    BY <1>1, <1>2, <1>3, <1>5 DEF Phase
  <2>3. /\ r_db'.step = "open" /\ r_db'.at = "none" /\ r_db'.bg_error /\ r_db'.described
        /\ r_db'.mem = r_db.mem /\ r_db'.imm = r_db.imm /\ r_db'.log = r_db.log
        /\ r_db'.log_number = r_db.log_number /\ r_db'.files = r_db.files
        /\ r_db'.next_file = r_db.next_file /\ r_db'.manifest = r_db.manifest
        /\ r_db'.last_sequence = r_db.last_sequence
    BY <1>2, <1>5, <2>1, <2>2 DEF DBTyped, DBRec
  <2>4. DBTyped'
    <3>1. r_db' \in DBRec
      <4>1. r_db \in DBRec /\ "none" \in R!EditSteps
        BY <1>2 DEF DBTyped, R!EditSteps
      <4> QED
        BY <2>1, <4>1 DEF DBRec
    <3> QED
      BY <2>3, <3>1 DEF DBTyped, Editing
  <2>5. VersionsSound' /\ Survivors' = Survivors /\ LastVersion' = LastVersion
    <3>1. r_current # 0
      BY <1>2, <2>2, Edits
    <3> QED
      BY <1>1, <1>2, <2>1, <3>1, VersionsStay
  <2>6. ManifestsTyped'
    BY <1>1, <1>2, <2>1 DEF ManifestsTyped
  <2>7. RecTyped'
    BY <1>1, <2>4, <2>6, SameData DEF RecInv, RecTyped
  <2>8. RecIds'
    <3>1. MemIssued' /\ MemClosed'
      BY <1>1, <2>3 DEF RecInv, RecIds, MemIssued, MemClosed, Old, ClosedSet, HasId
    <3> QED
      BY <1>1, <3>1, SameData DEF RecInv, RecIds
  <2>9. Alive' \subseteq Alive
    <3>1. Added' = {}
      BY <2>3 DEF Added, Editing
    <3>2. InMemory' = InMemory
      BY <1>1, <2>3 DEF InMemory, TablesOf
    <3>3. TablesOf(Added)' = {}
      BY <3>1 DEF TablesOf
    <3>4. (UNION {Data(v) : v \in Survivors})' = UNION {Data(v) : v \in Survivors}
      <4>1. \A v : Data(v)' = Data(v)
        BY <1>1, SameData
      <4> QED
        BY <2>5, <4>1
    <3> QED
      BY <3>2, <3>3, <3>4 DEF Alive
  <2>10. Unique'
    BY <2>9, FewerAlive DEF RecInv
  <2>11. Phase'
    BY <1>1, <1>2, <2>2, <2>3 DEF Phase
  <2>12. Recovering' /\ Replaying' /\ NothingYet' /\ Replayed' /\ ManifestWritten' /\ EditPending'
    BY <2>3 DEF Recovering, Replaying, NothingYet, Replayed, ManifestWritten, EditPending
  <2>13. r_db'.next_file \in Nat /\ r_db.next_file <= r_db'.next_file
    BY <1>2, <2>3, DBFields
  <2>14. LogInUse'
    BY <1>1, <1>2, <2>2, <2>3, <2>13, LogInUseStays DEF RecInv, RecPhase
  <2>15. Describing'
    BY <1>1, <1>5, <2>3, <2>5 DEF RecInv, RecPhase, Describing
  <2>16. Installed'
    <3>1. Installed /\ r_db.files \subseteq DOMAIN r_tables
      BY <2>2 DEF RecInv, RecPhase, Installed
    <3>2. TablesOf(r_db.files)' = TablesOf(r_db.files)
      BY <1>1, <2>3 DEF TablesOf
    <3> QED
      BY <1>1, <1>2, <2>2, <2>3, <2>9, <2>13, <3>1, <3>2, InstalledStays
  <2> QED
    BY <2>5, <2>7, <2>8, <2>10, <2>11, <2>12, <2>14, <2>15, <2>16 DEF RecInv, RecPhase
<1> QED
  BY <1>4, <1>5

(* The version that is recovered is the last one of the manifest.          *)
LEMMA RecoverVersionsKeeps == ASSUME RecInv, R!RecoverVersions PROVE RecInv'
<1>1. /\ r_db.step = "versions"
      /\ UNCHANGED <<r_logs, r_manifests, r_current, r_tables, r_acked, r_exposed, r_cut, r_issued>>
  BY DEF R!RecoverVersions, R!disk, R!ghosts
<1>2. Phase /\ DBTyped /\ ManifestsTyped /\ VersionsSound /\ LogsTyped
  BY DEF RecInv, RecTyped, RecPhase
<1>3. r_current # 0 /\ r_current \in DOMAIN r_manifests /\ r_db = [R!Down EXCEPT !.step = "versions"]
  BY <1>1, <1>2 DEF Phase, ManifestsTyped
<1>4. ManifestsTyped'
  BY <1>1, <1>2 DEF ManifestsTyped
<1>5. PICK v : v = LastVersion
  OBVIOUS
<1>6. /\ v \in Survivors /\ Sound(v) /\ v.files \subseteq Nat /\ v.log \in Nat
      /\ v.next \in Nat /\ v.seq \in Nat
  BY <1>2, <1>3, <1>5, LastIsSound
<1>7. v = R!Apply(r_manifests[r_current].recs)
  BY <1>5 DEF LastVersion, Current
<1>8. r_db' = IF v.next = 0
                 THEN [R!Down EXCEPT !.step = "corrupt"]
                 ELSE [r_db EXCEPT !.step = "logs", !.files = v.files, !.log_number = v.log,
                                   !.manifest = v.next, !.next_file = R!NextFile(v),
                                   !.last_sequence = v.seq, !.todo = R!LogsFrom(v.log),
                                   !.edit = R!NewEdit({}, {}, 0)]
  <2>1. v.files \subseteq DOMAIN r_tables \cup DOMAIN r_logs \cup DOMAIN r_manifests
    BY <1>6 DEF Sound
  <2> QED
    BY <1>3, <1>7, <2>1 DEF R!RecoverVersions
<1>9. CASE v.next = 0
  <2>1. r_db' = [R!Down EXCEPT !.step = "corrupt"]
    BY <1>8, <1>9
  <2>2. r_db'.step = "corrupt"
    BY <2>1 DEF R!Down
  <2>3. r_current' = 1
    BY <1>1, <1>6, <1>9 DEF Sound
  <2>4. Phase'
    BY <2>1, <2>2, <2>3 DEF Phase
  <2> QED
    BY <1>1, <1>4, <2>1, <2>4, NothingReadStays
<1>10. CASE v.next # 0
  <2>1. PICK todo \in Seq(Nat) : todo = R!LogsFrom(v.log)
                                 /\ R!Range(todo) = {m \in DOMAIN r_logs : m >= v.log}
    BY <1>2, <1>6, LogsFromFacts DEF LogsTyped
  <2>2. r_db' = [step |-> "logs", edit |-> [add |-> {}, del |-> {}, log |-> 0], at |-> "none",
                 mem |-> {}, imm |-> {}, log |-> 0, log_number |-> v.log, files |-> v.files,
                 next_file |-> v.next + 1, manifest |-> v.next, described |-> FALSE,
                 last_sequence |-> v.seq, todo |-> todo, bg_error |-> FALSE]
    BY <1>3, <1>8, <1>10, <2>1 DEF R!Down, R!NextFile, R!NewEdit
  <2>3. /\ r_db'.step = "logs" /\ r_db'.at = "none" /\ ~r_db'.bg_error /\ ~r_db'.described
        /\ r_db'.mem = {} /\ r_db'.imm = {}
        /\ r_db'.log_number = v.log /\ r_db'.files = v.files
        /\ r_db'.next_file = v.next + 1 /\ r_db'.manifest = v.next
        /\ r_db'.last_sequence = v.seq /\ r_db'.todo = todo
        /\ r_db'.edit.add = {} /\ r_db'.edit.del = {} /\ r_db'.edit.log = 0
    BY <2>2
  <2>4. DBTyped'
    <3>1. [add |-> {}, del |-> {}, log |-> 0] \in Pending
      BY DEF Pending
    <3>2. "logs" \in R!Steps /\ "none" \in R!EditSteps
      BY DEF R!Steps, R!EditSteps
    <3>3. r_db' \in DBRec
      BY <1>6, <2>2, <3>1, <3>2 DEF DBRec
    <3>4. r_db'.edit \in Pending
      BY <2>2, <3>1
    <3> QED
      BY <3>3, <3>4 DEF DBTyped
  <2>5. VersionsSound' /\ Survivors' = Survivors /\ LastVersion' = v
    BY <1>1, <1>2, <1>3, <1>5, VersionsStay
  <2>6. RecTyped'
    BY <1>1, <1>4, <2>4, SameData DEF RecInv, RecTyped
  <2>7. RecIds'
    <3>1. MemIssued' /\ MemClosed'
      BY <2>3 DEF MemIssued, MemClosed, Old, ClosedSet, HasId
    <3> QED
      BY <1>1, <3>1, SameData DEF RecInv, RecIds
  <2>8. TablesOf(r_db.files)' = TablesOf(v.files) /\ TablesOf(r_db.edit.add)' = {} /\ TablesOf(Added)' = {}
    BY <1>1, <2>3 DEF TablesOf, Added
  <2>9. Alive' \subseteq Alive
    <3>1. (UNION {Data(x) : x \in Survivors})' = UNION {Data(x) : x \in Survivors}
      <4>1. \A x : Data(x)' = Data(x)
        BY <1>1, SameData
      <4> QED
        BY <2>5, <4>1
    <3>2. TablesOf(v.files) \subseteq UNION {Data(x) : x \in Survivors}
      BY <1>6 DEF Data
    <3>3. Alive' = (UNION {Data(x) : x \in Survivors})' \cup TablesOf(v.files)
      BY <2>3, <2>8 DEF Alive, InMemory
    <3> QED
      BY <3>1, <3>2, <3>3, AliveOnDisk
  <2>10. Unique'
    BY <2>9, FewerAlive DEF RecInv
  <2>11. Phase'
    BY <1>1, <1>3, <2>3 DEF Phase
  <2>12. Recovering'
    BY <1>6, <1>10, <2>3, <2>5, <2>8 DEF Recovering
  <2>13. Replaying'
    <3>1. R!Range(r_db.todo)' = {m \in DOMAIN r_logs' : m >= v.log}
      BY <1>1, <2>1, <2>3
    <3>2. \A n \in DOMAIN r_logs' : n \in R!Range(r_db.todo)' \/ (n < v.next + 1 /\ ~(n >= v.log))
      <4>1. v.log < v.next
        BY <1>6, <1>10 DEF Sound
      <4>2. \A n \in DOMAIN r_logs' : n \in Nat
        BY <1>1, <1>2 DEF LogsTyped
      <4> QED
        BY <1>6, <3>1, <4>1, <4>2
    <3> QED
      BY <2>3, <3>1, <3>2 DEF Replaying
  <2>14. NothingYet'
    <3>1. \A w \in TablesOf(v.files) : w.seq <= v.seq
      BY <1>6 DEF Sound
    <3> QED
      BY <2>3, <2>8, <3>1 DEF NothingYet
  <2>15. Replayed' /\ ManifestWritten' /\ LogInUse' /\ Describing' /\ Installed' /\ EditPending'
    BY <2>3 DEF Replayed, ManifestWritten, LogInUse, Describing, Installed, EditPending
  <2> QED
    BY <2>5, <2>6, <2>7, <2>10, <2>11, <2>12, <2>13, <2>14, <2>15 DEF RecInv, RecPhase
<1> QED
  BY <1>9, <1>10

-----------------------------------------------------------------------------
(* Replaying the logs.                                                     *)

(* A log has a highest sequence number.                                    *)
LEMMA HighestSeq ==
    ASSUME NEW recs \in Seq(Rec \cup {R!Torn}), NEW q \in Nat
    PROVE  LET h == R!Max({r.seq : r \in Read(recs)} \cup {q})
           IN  h \in Nat /\ q <= h /\ \A r \in Read(recs) : r.seq <= h
<1>1. PICK n \in Nat : n = Len(recs)
  BY LenProperties
<1>2. \A x : x \in Read(recs) <=> \E i \in 1..n : recs[i] = x /\ Whole(recs, i)
  BY <1>1, ReadIs
<1>3. \A x \in Read(recs) : x \in Rec /\ x.seq \in Nat
  BY ReadTyped DEF Rec
<1> DEFINE f == [i \in 1..(n + 1) |-> IF i <= n /\ Whole(recs, i) THEN recs[i].seq ELSE q]
           highest(k) == \E j \in 1..k : \A i \in 1..k : f[i] <= f[j]
           bad == {k \in 1..(n + 1) : ~highest(k)}
           S == {r.seq : r \in Read(recs)} \cup {q}
<1>4. \A i \in 1..(n + 1) : f[i] \in S
  <2>1. \A i \in 1..n : Whole(recs, i) => recs[i] \in Read(recs)
    BY <1>2
  <2> QED
    BY <2>1
<1>5. S \subseteq Nat
  BY <1>3
<1>6. \A i \in 1..(n + 1) : f[i] \in Nat
  BY <1>4, <1>5
<1>7. \A s \in S : \E i \in 1..(n + 1) : f[i] = s
  <2>1. f[n + 1] = q /\ n + 1 \in 1..(n + 1)
    OBVIOUS
  <2>2. \A r \in Read(recs) : \E i \in 1..(n + 1) : f[i] = r.seq
    <3>1. TAKE r \in Read(recs)
    <3>2. PICK i \in 1..n : recs[i] = r /\ Whole(recs, i)
      BY <1>2
    <3>3. i \in 1..(n + 1) /\ f[i] = r.seq
      BY <3>2
    <3> QED
      BY <3>3
  <2> HIDE DEF f
  <2> QED
    BY <2>1, <2>2
<1>8. bad = {}
  <2> SUFFICES ASSUME bad # {} PROVE FALSE
    OBVIOUS
  <2>1. PICK k \in bad : \A y \in bad : k <= y
    <3>1. bad \subseteq Nat
      OBVIOUS
    <3> HIDE DEF bad
    <3> QED
      BY <3>1, LeastNatural
  <2> HIDE DEF f
  <2>2. k \in 1..(n + 1) /\ ~highest(k)
    BY <2>1
  <2>3. k # 1
    <3>1. \A i \in 1..1 : i = 1
      OBVIOUS
    <3>2. 1 \in 1..(n + 1)
      OBVIOUS
    <3>3. PICK x \in Nat : x = f[1]
      BY <1>6, <3>2
    <3>4. f[1] <= f[1]
      BY <3>3
    <3> QED
      BY <2>2, <3>1, <3>4
  <2>4. PICK p \in 1..n : k = p + 1
    <3>1. k - 1 \in 1..n /\ k = (k - 1) + 1
      BY <2>2, <2>3
    <3> QED
      BY <3>1
  <2>5. p \notin bad
    <3>1. ~(k <= p)
      BY <2>4
    <3> QED
      BY <2>1, <3>1
  <2>6. highest(p)
    <3>1. p \in 1..(n + 1)
      OBVIOUS
    <3> HIDE DEF highest
    <3> QED
      BY <2>5, <3>1
  <2>7. PICK j \in 1..p : \A i \in 1..p : f[i] <= f[j]
    BY <2>6
  <2>8. \A i \in 1..k : i \in 1..p \/ i = k
    BY <2>4
  <2>9. j \in 1..k /\ k \in 1..k /\ j \in 1..(n + 1) /\ k \in 1..(n + 1)
        /\ \A i \in 1..p : i \in 1..(n + 1)
    BY <2>4
  <2>10. CASE f[k] <= f[j]
    <3>1. \A i \in 1..k : f[i] <= f[j]
      BY <2>7, <2>8, <2>10
    <3> QED
      BY <2>2, <2>9, <3>1
  <2>11. CASE f[j] <= f[k]
    <3>1. \A i \in 1..p : f[i] <= f[k]
      <4>1. TAKE i \in 1..p
      <4>2. f[i] \in Nat /\ f[j] \in Nat /\ f[k] \in Nat /\ f[i] <= f[j]
        BY <1>6, <2>7, <2>9
      <4>3. \A x, y, z \in Nat : x <= y /\ y <= z => x <= z
        OBVIOUS
      <4> QED
        BY <2>11, <4>2, <4>3, Zenon
    <3>2. f[k] <= f[k]
      <4>1. \A x \in Nat : x <= x
        OBVIOUS
      <4> QED
        BY <1>6, <2>9, <4>1, Zenon
    <3>3. \A i \in 1..k : f[i] <= f[k]
      BY <2>8, <3>1, <3>2, Zenon
    <3> QED
      BY <2>2, <2>9, <3>3
  <2>12. \A x, y \in Nat : x <= y \/ y <= x
    OBVIOUS
  <2> QED
    BY <1>6, <2>9, <2>10, <2>11, <2>12, Zenon
<1>9. \E x \in S : \A y \in S : x >= y
  <2>1. highest(n + 1)
    <3>1. n + 1 \in 1..(n + 1)
      OBVIOUS
    <3> HIDE DEF highest
    <3> QED
      BY <1>8, <3>1
  <2>2. PICK j \in 1..(n + 1) : \A i \in 1..(n + 1) : f[i] <= f[j]
    BY <2>1
  <2> HIDE DEF f, S
  <2> QED
    BY <1>4, <1>5, <1>7, <2>2
<1>10. PICK h \in S : h = R!Max(S) /\ \A y \in S : h >= y
  <2> HIDE DEF S
  <2> QED
    BY <1>9 DEF R!Max
<1> QED
  BY <1>5, <1>10

(* A set of two numbers has a greatest.                                    *)
LEMMA LargerOf ==
    ASSUME NEW a \in Nat, NEW b \in Nat
    PROVE  R!Max({a, b}) \in Nat /\ a <= R!Max({a, b}) /\ b <= R!Max({a, b})
<1>1. \E x \in {a, b} : \A y \in {a, b} : x >= y
  OBVIOUS
<1>2. PICK h \in {a, b} : h = R!Max({a, b}) /\ \A y \in {a, b} : h >= y
  BY <1>1 DEF R!Max
<1> QED
  BY <1>2

(* What is read of a log is closed.                                        *)
LEMMA ReadClosed ==
    ASSUME GhostsTyped, NEW recs \in Seq(Rec \cup {R!Torn}), LogClosed(recs)
    PROVE  ClosedSet(Read(recs))
<1> SUFFICES ASSUME NEW a \in r_acked, NEW b \in r_acked, a.log = b.log, a.id < b.id,
                    a.id \notin r_exposed, HasId(Read(recs), b.id)
             PROVE  HasId(Read(recs), a.id)
  BY DEF ClosedSet
<1>1. PICK i \in 1..Len(recs) : recs[i].id = b.id /\ Whole(recs, i)
  BY ReadIs DEF HasId
<1>2. PICK j \in 1..i : recs[j].id = a.id
  BY <1>1 DEF LogClosed
<1>3. Len(recs) \in Nat
  BY LenProperties
<1>4. j \in 1..Len(recs) /\ Whole(recs, j)
  <2>1. a.id # R!Torn.id
    BY DEF R!Torn, AckRec, GhostsTyped
  <2> QED
    BY <1>1, <1>2, <1>3, <2>1 DEF Whole
<1>5. recs[j] \in Read(recs)
  BY <1>4, ReadIs
<1> QED
  BY <1>2, <1>5 DEF HasId

(* A step that leaves the manifest in use alone, and what its versions     *)
(* name.                                                                   *)
LEMMA VersionsKept ==
    ASSUME ManifestsTyped, VersionsSound, UNCHANGED <<r_current, r_acked, r_exposed>>,
           r_cut \subseteq r_cut',
           r_current # 0 => r_manifests'[r_current] = r_manifests[r_current],
           \A v \in Survivors :
              /\ v.files \subseteq DOMAIN r_tables' /\ TablesOf(v.files)' = TablesOf(v.files)
              /\ LogData(v.log)' = LogData(v.log) /\ SyncedData(v.log) \subseteq SyncedData(v.log)'
              /\ \A n \in DOMAIN r_logs : n \in DOMAIN r_logs' \/ n < v.log
    PROVE  /\ VersionsSound' /\ Survivors' = Survivors /\ (r_current # 0 => LastVersion' = LastVersion)
           /\ \A v \in Survivors : Data(v)' = Data(v)
           /\ (UNION {Data(v) : v \in Survivors})' = UNION {Data(v) : v \in Survivors}
           /\ Found' = Found
<1>1. Survivors' = Survivors /\ (r_current # 0 => LastVersion' = LastVersion)
  BY SameSurvivors
<1>2. \A v \in Survivors : Sound(v)' /\ Data(v)' = Data(v) /\ Vis(Data(v))' = Vis(Data(v))
  BY SoundStays DEF VersionsSound
<1>3. (UNION {Data(v) : v \in Survivors})' = UNION {Data(v) : v \in Survivors}
  <2>1. (UNION {Data(v) : v \in Survivors})' = UNION {Data(v)' : v \in Survivors}
    BY <1>1
  <2> QED
    BY <1>2, <2>1
<1>4. ASSUME NEW v \in Survivors
      PROVE  Agrees(v)'
  <2>1. r_current # 0
    BY DEF Survivors
  <2>2. PICK last \in Survivors : last = LastVersion
    BY <2>1, SurvivorFacts
  <2>3. last = LastVersion'
    BY <1>1, <2>1, <2>2
  <2>4. v.next <= last.next /\ Vis(Data(v)) = Vis(Data(last))
    BY <2>2 DEF VersionsSound, Agrees
  <2>5. Vis(Data(LastVersion))' = Vis(Data(last))'
    BY <2>3 DEF Vis, Data
  <2> QED
    BY <1>2, <2>3, <2>4, <2>5 DEF Agrees
<1>5. Found' = Found
  <2>1. CASE r_current = 0
    BY <2>1 DEF Found
  <2>2. CASE r_current # 0
    <3>1. PICK last \in Survivors : last = LastVersion /\ last = LastVersion'
      BY <1>1, <2>2, SurvivorFacts
    <3>2. Vis(Data(LastVersion))' = Vis(Data(last))'
      BY <3>1 DEF Vis, Data
    <3> QED
      BY <1>2, <2>2, <3>1, <3>2 DEF Found
  <2> QED
    BY <2>1, <2>2
<1> QED
  BY <1>1, <1>2, <1>3, <1>4, <1>5 DEF VersionsSound

(* A log that is replayed becomes a table; nothing is found that was not.  *)
LEMMA RecoverLogFileKeeps == ASSUME RecInv, R!RecoverLogFile PROVE RecInv' /\ Found' = Found
<1>1. /\ r_db.step = "logs" /\ r_db.todo # <<>>
      /\ UNCHANGED <<r_logs, r_manifests, r_current, r_acked, r_exposed, r_cut, r_issued>>
  BY DEF R!RecoverLogFile, R!ghosts
<1>2. /\ Phase /\ DBTyped /\ ManifestsTyped /\ VersionsSound /\ LogsTyped /\ TablesTyped
      /\ LogsClosed /\ LogsIssued /\ TablesIssued
      /\ Recovering /\ Replaying /\ NothingYet
  BY DEF RecInv, RecTyped, RecPhase, RecIds
<1>3. PICK todo \in Seq(Nat) : todo = r_db.todo /\ todo # <<>>
  BY <1>1, <1>2, DBFields
<1>4. PICK n \in Nat : n = Head(todo)
  BY <1>3, TailFacts
<1>5. PICK rest \in Seq(Nat) : rest = Tail(todo)
  BY <1>3, TailFacts
<1>6. R!Range(todo) = R!Range(rest) \cup {n}
  <2>1. PICK k \in Nat : k = Len(todo)
    BY LenProperties
  <2>2. /\ k # 0 /\ n = todo[1] /\ Len(rest) = k - 1 /\ \A i \in 1..(k - 1) : rest[i] = todo[i + 1]
    <3>1. Len(todo) # 0
      BY <1>3, EmptySeq
    <3>2. /\ Len(Tail(todo)) = Len(todo) - 1
          /\ \A i \in 1..Len(Tail(todo)) : Tail(todo)[i] = todo[i + 1]
      BY <1>3, HeadTailProperties
    <3> QED
      BY <1>3, <1>4, <1>5, <2>1, <3>1, <3>2
  <2>3. DOMAIN todo = 1..k /\ DOMAIN rest = 1..(k - 1)
    BY <2>1, <2>2, LenProperties
  <2>4. \A x : (\E i \in 1..k : todo[i] = x) <=> x = todo[1] \/ \E i \in 1..(k - 1) : todo[i + 1] = x
    <3>1. TAKE x
    <3>2. ASSUME NEW i \in 1..k, todo[i] = x, x # todo[1]
          PROVE  \E j \in 1..(k - 1) : todo[j + 1] = x
      <4>1. PICK j \in 1..(k - 1) : i = j + 1
        <5>1. i - 1 \in 1..(k - 1) /\ i = (i - 1) + 1
          BY <3>2
        <5> QED
          BY <5>1
      <4> QED
        BY <3>2, <4>1
    <3>3. 1 \in 1..k /\ \A i \in 1..(k - 1) : i + 1 \in 1..k
      BY <2>2
    <3> QED
      BY <3>2, <3>3
  <2>5. \A x : x \in R!Range(todo) <=> \E i \in 1..k : todo[i] = x
    BY <2>3 DEF R!Range
  <2>6. \A x : x \in R!Range(rest) <=> \E i \in 1..(k - 1) : rest[i] = x
    BY <2>3 DEF R!Range
  <2>7. \A x : (\E i \in 1..(k - 1) : rest[i] = x) <=> \E i \in 1..(k - 1) : todo[i + 1] = x
    BY <2>2
  <2>8. \A x : x \in R!Range(todo) <=> x \in R!Range(rest) \/ x = n
    BY <2>2, <2>4, <2>5, <2>6, <2>7
  <2> QED
    BY <2>8
<1>7. n \in DOMAIN r_logs /\ n >= r_db.log_number
  BY <1>1, <1>2, <1>3, <1>6 DEF Replaying
<1> DEFINE records == Read(r_logs[n].recs)
<1>8. r_logs[n].recs \in Seq(Rec \cup {R!Torn}) /\ records \subseteq Rec
  BY <1>2, <1>7, LogTypes
<1>9. /\ r_db.next_file \in Nat /\ r_db.last_sequence \in Nat /\ r_db.edit \in Pending
      /\ r_db.edit.add \subseteq Nat /\ r_db.files \subseteq Nat /\ r_db.manifest \in Nat
  BY <1>1, <1>2, DBFields DEF Editing
<1>10. PICK X \in Nat : X = r_db.next_file
  BY <1>9
<1>11. PICK written \in BOOLEAN : written <=> R!Readable(r_logs[n].recs) # {}
  OBVIOUS
<1>12. ~written => records = {}
  BY <1>11 DEF Read
<1>13. PICK next \in Nat : next = R!Max({IF R!Readable(r_logs[n].recs) = {} THEN r_db.next_file
                                                ELSE r_db.next_file + 1, n + 1})
                           /\ X <= next /\ n < next /\ (written => X < next)
  <2>1. PICK y \in Nat : y = (IF R!Readable(r_logs[n].recs) = {} THEN r_db.next_file
                                                ELSE r_db.next_file + 1)
    <3>1. CASE R!Readable(r_logs[n].recs) = {}
      BY <1>9, <3>1
    <3>2. CASE R!Readable(r_logs[n].recs) # {}
      BY <1>9, <3>2
    <3> QED
      BY <3>1, <3>2
  <2>2. X <= y /\ (written => X < y)
    BY <1>10, <1>11, <2>1
  <2>3. R!Max({y, n + 1}) \in Nat /\ y <= R!Max({y, n + 1}) /\ n + 1 <= R!Max({y, n + 1})
    BY LargerOf
  <2>4. PICK m \in Nat : m = R!Max({y, n + 1})
    BY <2>3
  <2>5. y <= m /\ n + 1 <= m
    BY <2>3, <2>4
  <2>6. X <= m /\ n < m /\ (written => X < m)
    BY <2>2, <2>5
  <2> QED
    BY <2>1, <2>4, <2>6
<1>14. PICK seq \in Nat : /\ seq = R!Max({r.seq : r \in Read(r_logs[n].recs)} \cup {r_db.last_sequence})
                          /\ r_db.last_sequence <= seq /\ \A r \in records : r.seq <= seq
  BY <1>8, <1>9, HighestSeq
<1>15. PICK add \in SUBSET Nat : add = r_db.edit.add \cup (IF written THEN {X} ELSE {})
  BY <1>9, <1>10
<1> HIDE DEF records
<1>16. PICK q : q = r_db'
  OBVIOUS
<1>17. q = [r_db EXCEPT !.todo = rest, !.edit.add = add, !.next_file = next, !.last_sequence = seq]
  <2>1. q = [r_db EXCEPT
               !.todo = Tail(@),
               !.edit.add = IF R!Readable(r_logs[n].recs) = {} THEN @ ELSE @ \cup {r_db.next_file},
               !.next_file = R!Max({IF R!Readable(r_logs[n].recs) = {} THEN @ ELSE @ + 1, n + 1}),
               !.last_sequence = R!Max({r.seq : r \in R!Readable(r_logs[n].recs)} \cup {@})]
    BY <1>3, <1>4, <1>16 DEF R!RecoverLogFile
  <2>2. add = IF R!Readable(r_logs[n].recs) = {} THEN r_db.edit.add ELSE r_db.edit.add \cup {r_db.next_file}
    BY <1>10, <1>11, <1>15
  <2>3. seq = R!Max({r.seq : r \in R!Readable(r_logs[n].recs)} \cup {r_db.last_sequence})
    BY <1>14 DEF Read
  <2> QED
    BY <1>3, <1>5, <1>13, <2>1, <2>2, <2>3
<1>18. r_db.at = "none" /\ ~r_db.described /\ r_db.mem = {} /\ r_db.imm = {} /\ ~r_db.bg_error
  BY <1>1, <1>2 DEF Phase, NothingYet
<1>19. /\ r_db'.step = "logs" /\ r_db'.at = "none" /\ ~r_db'.bg_error /\ ~r_db'.described
       /\ r_db'.mem = {} /\ r_db'.imm = {}
       /\ r_db'.log_number = r_db.log_number /\ r_db'.files = r_db.files
       /\ r_db'.next_file = next /\ r_db'.manifest = r_db.manifest
       /\ r_db'.last_sequence = seq /\ r_db'.todo = rest
       /\ r_db'.edit.add = add /\ r_db'.edit.del = r_db.edit.del
       /\ r_db' \in DBRec /\ r_db'.edit \in Pending
  <2>1. r_db \in DBRec
    BY <1>2 DEF DBTyped
  <2>2. [r_db.edit EXCEPT !.add = add] \in Pending
    BY <1>9 DEF Pending
  <2>3. PICK e \in Pending : e = [r_db.edit EXCEPT !.add = add] /\ e.add = add /\ e.del = r_db.edit.del
    BY <1>9, <2>2 DEF Pending
  <2>4. q = [r_db EXCEPT !.todo = rest, !.edit = e, !.next_file = next, !.last_sequence = seq]
    BY <1>17, <2>1, <2>3
  <2>5. q \in DBRec
    BY <2>1, <2>4 DEF DBRec
  <2>6. /\ q.step = r_db.step /\ q.at = r_db.at /\ q.bg_error = r_db.bg_error /\ q.described = r_db.described
        /\ q.mem = r_db.mem /\ q.imm = r_db.imm
        /\ q.log_number = r_db.log_number /\ q.files = r_db.files
        /\ q.next_file = next /\ q.manifest = r_db.manifest
        /\ q.last_sequence = seq /\ q.todo = rest /\ q.edit = e
    BY <2>1, <2>4 DEF DBRec
  <2> QED
    BY <1>1, <1>16, <1>18, <2>3, <2>5, <2>6
<1>20. DBTyped'
  BY <1>19 DEF DBTyped
<1>21. /\ DOMAIN r_tables \subseteq DOMAIN r_tables' /\ TablesTyped'
       /\ \A A : A \subseteq DOMAIN r_tables /\ X \notin A => TablesOf(A)' = TablesOf(A)
       /\ written => X \in DOMAIN r_tables' /\ TablesOf({X})' = records
       /\ TablesIssued' /\ TablesClosed'
  <2>1. CASE written
    <3>1. r_tables' = R!With(r_tables, X, records)
      BY <1>3, <1>4, <1>10, <1>11, <2>1 DEF R!RecoverLogFile, records, Read
    <3>2. Old(records)
      <4>1. records \subseteq LogData(n)
        BY <1>2, <1>7 DEF LogData, LogsTyped, records
      <4>2. Old(LogData(n))
        <5>1. {} \subseteq DOMAIN r_tables
          OBVIOUS
        <5> QED
          BY <1>2, <5>1, DataIssued
      <4> QED
        BY <4>1, <4>2 DEF Old
    <3>3. ClosedSet(records)
      BY <1>2, <1>7, <1>8, ReadClosed DEF RecInv, RecTyped, RecIds, LogsClosed, records
    <3>4. TablesClosed
      BY DEF RecInv, RecIds
    <3>5. /\ DOMAIN r_tables' = DOMAIN r_tables \cup {X}
          /\ \A A : A \subseteq DOMAIN r_tables /\ X \notin A => TablesOf(A)' = TablesOf(A)
          /\ TablesOf({X})' = records
      BY <3>1, NewTable
    <3>6. TablesTyped'
      BY <1>2, <1>8, <3>1, NewTable
    <3>7. TablesIssued' /\ TablesClosed'
      BY <1>1, <1>2, <3>1, <3>2, <3>3, <3>4, NewTable
    <3> QED
      BY <3>5, <3>6, <3>7
  <2>2. CASE ~written
    <3>1. r_tables' = r_tables
      BY <1>3, <1>4, <1>11, <2>2 DEF R!RecoverLogFile
    <3>2. TablesClosed
      BY DEF RecInv, RecIds
    <3> QED
      BY <1>1, <1>2, <2>2, <3>1, <3>2, SameTables
  <2> QED
    BY <2>1, <2>2
<1>22. /\ r_db.files \subseteq DOMAIN r_tables /\ X \notin r_db.files
       /\ r_db.edit.add \subseteq DOMAIN r_tables /\ X \notin r_db.edit.add
       /\ \A v \in Survivors : v.files \subseteq DOMAIN r_tables /\ X \notin v.files
       /\ r_db.manifest < X /\ r_current # 0
  <2>1. /\ r_db.files \subseteq DOMAIN r_tables /\ \A x \in r_db.files : x < r_db.manifest
        /\ r_db.manifest < X /\ r_current # 0
        /\ \A v \in Survivors : v.files \subseteq DOMAIN r_tables /\ \A x \in v.files : x < X
    BY <1>1, <1>10, WhileRecovering
  <2>2. \A x \in r_db.edit.add : x \in DOMAIN r_tables /\ x < X
    BY <1>1, <1>2, <1>10 DEF Recovering
  <2> QED
    BY <1>9, <2>1, <2>2
<1>23. /\ \A from : LogData(from)' = LogData(from) /\ SyncedData(from)' = SyncedData(from)
       /\ LogsTyped' /\ LogsIssued' /\ OwnLog' /\ LogsClosed'
  <2>1. OwnLog /\ LogsClosed
    BY DEF RecInv, RecIds
  <2> QED
    BY <1>1, <1>2, <2>1, LogsAlike
<1>24. /\ VersionsSound' /\ Found' = Found /\ Survivors' = Survivors /\ LastVersion' = LastVersion
       /\ \A v \in Survivors : Data(v)' = Data(v)
       /\ (UNION {Data(v) : v \in Survivors})' = UNION {Data(v) : v \in Survivors}
  BY <1>1, <1>2, <1>21, <1>22, <1>23, VersionsKept
<1>25. RecTyped'
  BY <1>1, <1>2, <1>20, <1>21, <1>23 DEF RecInv, RecTyped, ManifestsTyped, GhostsTyped
<1>26. RecIds'
  <2>1. MemIssued' /\ MemClosed'
    BY <1>19 DEF MemIssued, MemClosed, Old, ClosedSet, HasId
  <2> QED
    BY <1>21, <1>23, <2>1 DEF RecIds
<1>27. TablesOf(r_db.files)' = TablesOf(r_db.files) /\ TablesOf(add)' = TablesOf(r_db.edit.add) \cup records
  <2>1. PICK A : A = r_db.files
    OBVIOUS
  <2>2. TablesOf(A)' = TablesOf(A) /\ A = r_db'.files
    BY <1>19, <1>21, <1>22, <2>1
  <2>3. PICK D : D = r_db.edit.add
    OBVIOUS
  <2>4. TablesOf(D)' = TablesOf(D)
    BY <1>21, <1>22, <2>3
  <2>5. CASE written
    <3>1. add = D \cup {X}
      BY <1>15, <2>3, <2>5
    <3>2. TablesOf(D \cup {X})' = TablesOf(D)' \cup TablesOf({X})'
      BY DEF TablesOf
    <3> QED
      BY <1>21, <2>1, <2>2, <2>3, <2>4, <2>5, <3>1, <3>2
  <2>6. CASE ~written
    BY <1>12, <1>15, <2>1, <2>2, <2>3, <2>4, <2>6
  <2> QED
    BY <2>5, <2>6
<1>28. records \subseteq LogData(r_db.log_number)
  BY <1>7 DEF LogData, records
<1>29. TablesOf(r_db.edit.add)' = TablesOf(r_db.edit.add) \cup records
  BY <1>19, <1>27
<1>30. Unique'
  <2>1. Alive' \subseteq Alive
    <3>1. InMemory' = TablesOf(r_db.files)
      BY <1>19, <1>27 DEF InMemory
    <3>2. TablesOf(Added)' = TablesOf(r_db.edit.add) \cup records
      <4>1. Added' = add
        BY <1>19 DEF Added, Editing
      <4> QED
        BY <1>27, <4>1
    <3>3. TablesOf(r_db.edit.add) \subseteq Alive
      <4>1. Added = r_db.edit.add
        BY <1>1 DEF Added, Editing
      <4> QED
        BY <4>1 DEF Alive
    <3>4. records \subseteq UNION {Data(v) : v \in Survivors}
      <4>1. LastVersion \in Survivors /\ r_db.log_number = LastVersion.log
        BY <1>1, <1>2, <1>22, LastIsSound DEF Recovering
      <4>2. records \subseteq Data(LastVersion)
        BY <1>28, <4>1 DEF Data
      <4> QED
        BY <4>1, <4>2
    <3>5. TablesOf(r_db.files) \subseteq Alive
      BY DEF Alive, InMemory
    <3> QED
      BY <1>24, <3>1, <3>2, <3>3, <3>4, <3>5, AliveOnDisk DEF Alive
  <2> QED
    BY <2>1, FewerAlive DEF RecInv
<1>31. Phase'
  BY <1>1, <1>2, <1>19, <1>22 DEF Phase
<1>32. Recovering'
  <2>1. /\ LastVersion.next # 0
        /\ r_db.files = LastVersion.files /\ r_db.log_number = LastVersion.log
        /\ r_db.manifest = LastVersion.next
        /\ r_db.edit.del = {}
        /\ \A x \in r_db.edit.add : x \in DOMAIN r_tables /\ r_db.manifest < x /\ x < r_db.next_file
        /\ TablesOf(r_db.edit.add) \subseteq LogData(r_db.log_number)
    BY <1>1, <1>2 DEF Recovering
  <2>2. TablesOf(r_db.edit.add)' \subseteq LogData(r_db.log_number)'
    <3>1. LogData(r_db.log_number)' = LogData(r_db.log_number)
      BY <1>19, <1>23
    <3> QED
      BY <1>28, <1>29, <2>1, <3>1
  <2>3. r_db.manifest < next
    BY <1>9, <1>13, <1>22
  <2>4. \A x \in add : x \in DOMAIN r_tables' /\ r_db.manifest < x /\ x < next
    <3>1. TAKE x \in add
    <3>2. CASE x \in r_db.edit.add
      BY <1>9, <1>10, <1>13, <1>21, <2>1, <3>2
    <3>3. CASE x \notin r_db.edit.add
      <4>1. written /\ x = X
        BY <1>15, <3>1, <3>3
      <4> QED
        BY <1>13, <1>21, <1>22, <4>1
    <3> QED
      BY <3>2, <3>3
  <2> QED
    BY <1>19, <1>24, <2>1, <2>2, <2>3, <2>4 DEF Recovering
<1>33. Replaying'
  <2>1. /\ R!Range(todo) \subseteq {m \in DOMAIN r_logs : m >= r_db.log_number}
        /\ \A m \in DOMAIN r_logs :
              \/ m \in R!Range(todo)
              \/ /\ m < r_db.next_file
                 /\ m >= r_db.log_number => Read(r_logs[m].recs) \subseteq TablesOf(r_db.edit.add)
    BY <1>1, <1>2, <1>3 DEF Replaying
  <2>2. \A m \in DOMAIN r_logs :
              \/ m \in R!Range(rest)
              \/ /\ m < next
                 /\ m >= r_db.log_number => Read(r_logs[m].recs) \subseteq TablesOf(r_db.edit.add)'
    <3>1. TAKE m \in DOMAIN r_logs
    <3>2. CASE m = n
      BY <1>13, <1>29, <3>2 DEF records
    <3>3. CASE m # n /\ m \notin R!Range(rest)
      <4>1. m \notin R!Range(todo)
        BY <1>6, <3>3
      <4>2. m < X /\ m \in Nat
        BY <1>2, <1>10, <2>1, <4>1 DEF LogsTyped
      <4> QED
        BY <1>13, <1>29, <2>1, <4>1, <4>2
    <3> QED
      BY <3>2, <3>3
  <2>3. R!Range(r_db.todo)' = R!Range(rest)
    BY <1>19 DEF R!Range
  <2> QED
    BY <1>1, <1>6, <1>19, <2>1, <2>2, <2>3 DEF Replaying
<1>34. NothingYet'
  <2>1. \A w \in TablesOf(r_db.files) \cup TablesOf(r_db.edit.add) : w.seq <= r_db.last_sequence
    BY <1>1, <1>2 DEF NothingYet
  <2>2. \A w \in TablesOf(r_db.files) \cup TablesOf(r_db.edit.add) : w \in Rec /\ w.seq \in Nat
    <3>1. \A A : A \subseteq DOMAIN r_tables => TablesOf(A) \subseteq Rec
      BY <1>2, TablesOfFacts
    <3> QED
      BY <1>22, <3>1 DEF Rec
  <2>3. \A w \in TablesOf(r_db.files) \cup TablesOf(r_db.edit.add) : w.seq <= seq
    <3>1. TAKE w \in TablesOf(r_db.files) \cup TablesOf(r_db.edit.add)
    <3>2. PICK k \in Nat : k = w.seq
      BY <2>2
    <3>3. k <= r_db.last_sequence
      BY <2>1, <3>2
    <3> QED
      BY <1>9, <1>14, <3>2, <3>3
  <2>4. \A w \in TablesOf(r_db.files)' \cup TablesOf(r_db.edit.add)' : w.seq <= seq
    BY <1>14, <1>27, <1>29, <2>3
  <2> QED
    BY <1>19, <2>4 DEF NothingYet
<1>35. Replayed' /\ ManifestWritten' /\ LogInUse' /\ Describing' /\ Installed' /\ EditPending'
  BY <1>19 DEF Replayed, ManifestWritten, LogInUse, Describing, Installed, EditPending
<1> QED
  BY <1>24, <1>25, <1>26, <1>30, <1>31, <1>32, <1>33, <1>34, <1>35 DEF RecInv, RecPhase

(* The new log comes after all others, and nothing was ever acknowledged   *)
(* out of it.                                                              *)
LEMMA CreateLogKeeps == ASSUME RecInv, R!CreateLog PROVE RecInv' /\ Found' = Found
<1>1. /\ r_db.step = "logs" /\ r_db.todo = <<>>
      /\ UNCHANGED <<r_manifests, r_current, r_tables, r_acked, r_exposed, r_cut, r_issued>>
      /\ r_logs' = R!With(r_logs, r_db.next_file, R!File(<<>>, 0))
  BY DEF R!CreateLog, R!ghosts
<1>2. /\ Phase /\ DBTyped /\ ManifestsTyped /\ VersionsSound /\ LogsTyped /\ TablesTyped
      /\ LogsClosed /\ LogsIssued /\ TablesIssued /\ OwnLog
      /\ Recovering /\ Replaying /\ NothingYet
  BY DEF RecInv, RecTyped, RecPhase, RecIds
<1>3. /\ r_db.next_file \in Nat /\ r_db.last_sequence \in Nat /\ r_db.edit \in Pending
      /\ r_db.edit.add \subseteq Nat /\ r_db.files \subseteq Nat /\ r_db.manifest \in Nat
      /\ r_db.log_number \in Nat
  BY <1>1, <1>2, DBFields DEF Editing
<1>4. PICK X \in Nat : X = r_db.next_file
  BY <1>3
<1>5. \A n \in DOMAIN r_logs :
         /\ n < X /\ n \in Nat
         /\ n >= r_db.log_number => Read(r_logs[n].recs) \subseteq TablesOf(r_db.edit.add)
  <2>1. R!Range(r_db.todo) = {}
    BY <1>1 DEF R!Range
  <2> QED
    BY <1>1, <1>2, <1>4, <2>1 DEF Replaying, LogsTyped
<1>6. X \notin DOMAIN r_logs /\ r_logs' = R!With(r_logs, X, R!File(<<>>, 0))
  BY <1>1, <1>4, <1>5
<1>7. /\ LogsTyped' /\ DOMAIN r_logs' = DOMAIN r_logs \cup {X}
      /\ \A n \in DOMAIN r_logs : r_logs'[n] = r_logs[n]
      /\ r_logs'[X].recs = <<>>
      /\ \A from : LogData(from)' = LogData(from) /\ SyncedData(from)' = SyncedData(from)
      /\ LogsIssued' /\ OwnLog' /\ LogsClosed'
  BY <1>1, <1>2, <1>6, EmptyLog
<1>8. PICK q : q = r_db'
  OBVIOUS
<1>9. q = [r_db EXCEPT !.step = "newlog", !.at = "log", !.log = X, !.next_file = X + 1, !.edit.log = X]
  BY <1>4, <1>8 DEF R!CreateLog
<1>10. r_db.at = "none" /\ ~r_db.described /\ r_db.mem = {} /\ r_db.imm = {} /\ ~r_db.bg_error
  BY <1>1, <1>2 DEF Phase, NothingYet
<1>11. /\ r_db'.step = "newlog" /\ r_db'.at = "log" /\ ~r_db'.bg_error /\ ~r_db'.described
       /\ r_db'.mem = {} /\ r_db'.imm = {} /\ r_db'.log = X
       /\ r_db'.log_number = r_db.log_number /\ r_db'.files = r_db.files
       /\ r_db'.next_file = X + 1 /\ r_db'.manifest = r_db.manifest
       /\ r_db'.last_sequence = r_db.last_sequence
       /\ r_db'.edit.add = r_db.edit.add /\ r_db'.edit.del = r_db.edit.del /\ r_db'.edit.log = X
       /\ r_db' \in DBRec /\ r_db'.edit \in Pending
  <2>1. r_db \in DBRec
    BY <1>2 DEF DBTyped
  <2>2. [r_db.edit EXCEPT !.log = X] \in Pending
    BY <1>3 DEF Pending
  <2>3. PICK e \in Pending : /\ e = [r_db.edit EXCEPT !.log = X]
                             /\ e.add = r_db.edit.add /\ e.del = r_db.edit.del /\ e.log = X
    BY <1>3, <2>2 DEF Pending
  <2>4. q = [r_db EXCEPT !.step = "newlog", !.at = "log", !.log = X, !.next_file = X + 1, !.edit = e]
    BY <1>9, <2>1, <2>3
  <2>5. q \in DBRec
    <3>1. "newlog" \in R!Steps /\ "log" \in R!EditSteps
      BY DEF R!Steps, R!EditSteps
    <3>2. PICK s \in R!Steps, a \in R!EditSteps, y \in Nat : s = "newlog" /\ a = "log" /\ y = X + 1
      BY <3>1
    <3>3. q = [r_db EXCEPT !.step = s, !.at = a, !.log = X, !.next_file = y, !.edit = e]
      BY <2>4, <3>2
    <3>4. e \in {R!NoEdit} \cup Pending
      OBVIOUS
    <3> QED
      BY <2>1, <3>3, <3>4 DEF DBRec
  <2>6. /\ q.step = "newlog" /\ q.at = "log" /\ q.bg_error = r_db.bg_error /\ q.described = r_db.described
        /\ q.mem = r_db.mem /\ q.imm = r_db.imm /\ q.log = X
        /\ q.log_number = r_db.log_number /\ q.files = r_db.files
        /\ q.next_file = X + 1 /\ q.manifest = r_db.manifest
        /\ q.last_sequence = r_db.last_sequence /\ q.edit = e
    BY <2>1, <2>4 DEF DBRec
  <2> QED
    BY <1>8, <1>10, <2>3, <2>5, <2>6
<1>12. DBTyped'
  BY <1>11 DEF DBTyped
<1>13. /\ \A A : TablesOf(A)' = TablesOf(A)
       /\ TablesTyped' /\ TablesIssued' /\ TablesClosed'
  <2>1. TablesClosed
    BY DEF RecInv, RecIds
  <2> QED
    BY <1>1, <1>2, <2>1, SameTables
<1>14. /\ r_db.files \subseteq DOMAIN r_tables /\ \A x \in r_db.files : x < r_db.manifest
       /\ r_db.manifest < X /\ r_current # 0
       /\ \A v \in Survivors : v.files \subseteq DOMAIN r_tables
       /\ r_db.log_number < r_db.manifest
  BY <1>1, <1>4, WhileRecovering
<1>15. /\ VersionsSound' /\ Found' = Found /\ Survivors' = Survivors /\ LastVersion' = LastVersion
       /\ \A v \in Survivors : Data(v)' = Data(v)
       /\ (UNION {Data(v) : v \in Survivors})' = UNION {Data(v) : v \in Survivors}
  BY <1>1, <1>2, <1>7, <1>13, <1>14, VersionsKept
<1>16. RecTyped'
  BY <1>1, <1>2, <1>7, <1>12, <1>13 DEF RecInv, RecTyped, ManifestsTyped, GhostsTyped
<1>17. RecIds'
  <2>1. MemIssued' /\ MemClosed'
    BY <1>11 DEF MemIssued, MemClosed, Old, ClosedSet, HasId
  <2> QED
    BY <1>7, <1>13, <2>1 DEF RecIds
<1>18. TablesOf(r_db.files)' = TablesOf(r_db.files) /\ TablesOf(r_db.edit.add)' = TablesOf(r_db.edit.add)
       /\ LogData(r_db.log_number)' = LogData(r_db.log_number)
  BY <1>7, <1>11, <1>13
<1>19. Unique'
  <2>1. Alive' \subseteq Alive
    <3>1. InMemory' = InMemory
      BY <1>10, <1>11, <1>18 DEF InMemory
    <3>2. TablesOf(Added)' = TablesOf(Added)
      <4>1. Added' = r_db.edit.add /\ Added = r_db.edit.add
        BY <1>1, <1>11 DEF Added, Editing
      <4> QED
        BY <1>13, <4>1
    <3> QED
      BY <1>15, <3>1, <3>2 DEF Alive
  <2> QED
    BY <2>1, FewerAlive DEF RecInv
<1>20. Phase'
  BY <1>1, <1>2, <1>11, <1>14 DEF Phase
<1>21. r_db.manifest < X + 1
  BY <1>3, <1>14
<1>22. /\ r_db.edit.del = {}
       /\ \A x \in r_db.edit.add : x \in DOMAIN r_tables /\ r_db.manifest < x /\ x < X
  BY <1>1, <1>2, <1>4 DEF Recovering
<1>23. Recovering'
  <2>1. /\ LastVersion.next # 0
        /\ r_db.files = LastVersion.files /\ r_db.log_number = LastVersion.log
        /\ r_db.manifest = LastVersion.next
        /\ TablesOf(r_db.edit.add) \subseteq LogData(r_db.log_number)
    BY <1>1, <1>2 DEF Recovering
  <2>2. \A x \in r_db.edit.add : x < X + 1
    BY <1>3, <1>22
  <2> QED
    BY <1>1, <1>11, <1>15, <1>18, <1>21, <1>22, <2>1, <2>2 DEF Recovering
<1>24. NothingYet'
  <2>1. \A w \in TablesOf(r_db.files) \cup TablesOf(r_db.edit.add) : w.seq <= r_db.last_sequence
    BY <1>1, <1>2 DEF NothingYet
  <2> QED
    BY <1>11, <1>18, <2>1 DEF NothingYet
<1>25. Replayed'
  <2>1. LogData(r_db.log_number) \subseteq TablesOf(r_db.edit.add)
    BY <1>5 DEF LogData
  <2>2. \A n \in r_db.files \cup r_db.edit.add : n < X
    BY <1>3, <1>14, <1>22
  <2> QED
    BY <1>7, <1>11, <1>14, <1>18, <1>22, <2>1, <2>2 DEF Replayed
<1>26. LogInUse'
  <2>1. \A a \in r_acked : a.log < X
    <3>1. TAKE a \in r_acked
    <3>2. a.log \in DOMAIN r_logs \/ a.log < r_db.log_number
      <4>1. Sound(LastVersion) /\ r_db.log_number = LastVersion.log
        BY <1>1, <1>2, <1>14, LastIsSound DEF Recovering
      <4> QED
        BY <4>1 DEF Sound
    <3>3. a.log \in Nat
      BY DEF RecInv, RecTyped, GhostsTyped, AckRec
    <3> QED
      BY <1>3, <1>5, <1>14, <3>2, <3>3
  <2>2. \A a \in r_acked : a.log <= X /\ a.log # X
    <3>1. \A a \in r_acked : a.log \in Nat
      BY DEF RecInv, RecTyped, GhostsTyped, AckRec
    <3> QED
      BY <2>1, <3>1
  <2>3. X \in DOMAIN r_logs' /\ X < X + 1 /\ \A n \in DOMAIN r_logs' : n <= X
    BY <1>5, <1>7
  <2> QED
    BY <1>1, <1>11, <2>2, <2>3 DEF LogInUse
<1>27. Replaying' /\ ManifestWritten' /\ Describing' /\ Installed' /\ EditPending'
  BY <1>11 DEF Replaying, ManifestWritten, Describing, Installed, EditPending
<1> QED
  BY <1>15, <1>16, <1>17, <1>19, <1>20, <1>23, <1>24, <1>25, <1>26, <1>27 DEF RecInv, RecPhase

-----------------------------------------------------------------------------
(* The edit that goes to the manifest.                                     *)

(* A step that only moves the edit on.                                     *)
LEMMA OnlyAt ==
    ASSUME DBTyped, NEW a, a \in R!EditSteps, r_db' = [r_db EXCEPT !.at = a]
    PROVE  /\ r_db' \in DBRec /\ r_db'.at = a /\ r_db'.step = r_db.step /\ r_db'.edit = r_db.edit
           /\ r_db'.mem = r_db.mem /\ r_db'.imm = r_db.imm /\ r_db'.log = r_db.log
           /\ r_db'.log_number = r_db.log_number /\ r_db'.files = r_db.files
           /\ r_db'.next_file = r_db.next_file /\ r_db'.manifest = r_db.manifest
           /\ r_db'.last_sequence = r_db.last_sequence /\ r_db'.todo = r_db.todo
           /\ r_db'.bg_error = r_db.bg_error /\ r_db'.described = r_db.described
  BY DEF DBTyped, DBRec

(* An edit at the end of the manifest in use makes one more version that   *)
(* a crash may leave.                                                      *)
LEMMA MoreSurvivors ==
    ASSUME ManifestsTyped, r_current # 0, NEW e, e \in EditRec, UNCHANGED r_current,
           r_manifests' = [r_manifests EXCEPT ![r_current].recs = Append(@, e)]
    PROVE  /\ ManifestsTyped' /\ LastVersion' = R!Apply(Append(Current, e))
           /\ Survivors' = Survivors \cup {LastVersion'} /\ Current \in Seq(EditRec)
<1>1. /\ r_current \in DOMAIN r_manifests /\ r_manifests[r_current] \in Manifest
      /\ r_manifests[r_current].synced <= Len(r_manifests[r_current].recs)
  BY DEF ManifestsTyped
<1>2. PICK recs \in Seq(EditRec) : recs = Current
  BY <1>1 DEF Current, Manifest
<1>3. PICK s \in Nat : s = r_manifests[r_current].synced
  BY <1>1 DEF Manifest
<1>4. PICK n \in Nat : n = Len(recs) /\ s <= n
  BY <1>1, <1>2, <1>3, LenProperties DEF Current
<1>5. PICK more \in Seq(EditRec) : more = Append(recs, e)
  BY <1>2, AppendProperties
<1>6. Len(more) = n + 1 /\ more[n + 1] = e /\ \A i \in 1..n : more[i] = recs[i]
  BY <1>4, <1>5, AppendProperties
<1>7. /\ DOMAIN r_manifests' = DOMAIN r_manifests
      /\ \A m \in DOMAIN r_manifests : m # r_current => r_manifests'[m] = r_manifests[m]
      /\ r_manifests'[r_current] = [r_manifests[r_current] EXCEPT !.recs = more]
  BY <1>1, <1>2, <1>5 DEF Current
<1>8. r_manifests'[r_current] \in Manifest /\ r_manifests'[r_current].recs = more
      /\ r_manifests'[r_current].synced = s
  BY <1>1, <1>3, <1>7 DEF Manifest
<1>9. ManifestsTyped'
  <2>1. s <= n + 1
    BY <1>4
  <2>2. r_manifests'[r_current].synced <= Len(r_manifests'[r_current].recs)
    BY <1>6, <1>8, <2>1
  <2>3. \A m \in DOMAIN r_manifests' :
           r_manifests'[m] \in Manifest /\ r_manifests'[m].synced <= Len(r_manifests'[m].recs)
    BY <1>7, <1>8, <2>2 DEF ManifestsTyped
  <2> QED
    BY <1>7, <2>3 DEF ManifestsTyped
<1>10. Current' = more /\ LastVersion' = R!Apply(more)
  BY <1>8 DEF Current, LastVersion
<1>11. \A k \in s..n : SubSeq(more, 1, k) = SubSeq(recs, 1, k)
  <2>1. TAKE k \in s..n
  <2>2. k \in 0..Len(recs) /\ k \in 0..Len(more)
    BY <1>4, <1>6
  <2>3. PICK x : x = SubSeq(more, 1, k)
    OBVIOUS
  <2>4. PICK y : y = SubSeq(recs, 1, k)
    OBVIOUS
  <2>5. x \in Seq(EditRec) /\ Len(x) = k /\ \A i \in 1..k : x[i] = more[i]
    BY <1>6, <2>2, <2>3, FrontFacts
  <2>6. y \in Seq(EditRec) /\ Len(y) = k /\ \A i \in 1..k : y[i] = recs[i]
    BY <1>4, <2>2, <2>4, FrontFacts
  <2>7. \A i \in 1..Len(x) : x[i] = y[i]
    BY <1>4, <1>6, <2>5, <2>6
  <2>8. x = y
    BY <2>5, <2>6, <2>7, SeqEqual
  <2> QED
    BY <2>3, <2>4, <2>8
<1>12. SubSeq(more, 1, n + 1) = more
  BY <1>6, SubSeqFull
<1>13. Survivors = {R!Apply(SubSeq(recs, 1, k)) : k \in s..n}
  BY <1>2, <1>3, <1>4 DEF Survivors
<1>14. Survivors' = {R!Apply(SubSeq(more, 1, k)) : k \in s..(n + 1)}
  BY <1>6, <1>8, <1>10 DEF Survivors
<1>15. \A k : k \in s..(n + 1) <=> k \in s..n \/ k = n + 1
  BY <1>4
<1>16. \A v : v \in Survivors' <=> v \in Survivors \/ v = R!Apply(more)
  <2>1. \A v : v \in Survivors' <=> \E k \in s..(n + 1) : v = R!Apply(SubSeq(more, 1, k))
    BY <1>14
  <2>2. \A v : v \in Survivors <=> \E k \in s..n : v = R!Apply(SubSeq(recs, 1, k))
    BY <1>13
  <2> QED
    BY <1>11, <1>12, <1>15, <2>1, <2>2
<1> QED
  BY <1>2, <1>5, <1>9, <1>10, <1>16

(* What the next version has is what the base has: the new table is the    *)
(* immutable memtable, which is what the older logs hold, or what other    *)
(* tables hold.                                                            *)
LEMMA TargetHolds ==
    ASSUME LogsTyped, TablesTyped, DBTyped, Phase, LogInUse, Installed, EditPending, Describing,
           r_db.described, r_db.at \in {"log", "sync", "install"}, r_db.step = "open"
    PROVE  LET base == TablesOf(r_db.files) \cup LogData(r_db.log_number)
               target == TablesOf(TargetFiles) \cup LogData(r_db.edit.log)
           IN  /\ Vis(target) = Vis(base) /\ LogData(r_db.edit.log) \subseteq LogData(r_db.log_number)
               /\ TablesOf(TargetFiles) \subseteq TablesOf(r_db.files) \cup TablesOf(r_db.edit.add)
               /\ HasSynced(TablesOf(r_db.files) \cup SyncedData(r_db.log_number)) =>
                    HasSynced(TablesOf(TargetFiles) \cup SyncedData(r_db.edit.log))
               /\ r_db.edit.log \in Nat /\ r_db.log_number <= r_db.edit.log /\ r_db.edit.log <= r_db.log
<1>1. /\ r_db.log \in Nat /\ r_db.log_number \in Nat /\ r_db.log_number <= r_db.log
      /\ r_db.log \in DOMAIN r_logs /\ \A n \in DOMAIN r_logs : n <= r_db.log
  BY DBFields DEF LogInUse, Describing
<1>2. Vis(r_db.imm) = Vis(OlderLogs(r_db.log_number))
  BY DEF Installed
<1>3. LogData(r_db.log_number) = OlderLogs(r_db.log_number) \cup InUse
  BY <1>1, LogDataParts
<1>4. \A A, C : TablesOf(A \cup C) = TablesOf(A) \cup TablesOf(C)
  BY TablesOfFacts
<1>5. /\ r_db.edit.log \in Nat /\ r_db.log_number <= r_db.edit.log /\ r_db.edit.log <= r_db.log
  BY <1>1 DEF EditPending
<1>6. TablesOf(TargetFiles) \subseteq TablesOf(r_db.files) \cup TablesOf(r_db.edit.add)
  BY DEF TargetFiles, TablesOf
<1>7. LogData(r_db.edit.log) \subseteq LogData(r_db.log_number)
  <2>1. \A n \in DOMAIN r_logs : n \in Nat
    BY DEF LogsTyped
  <2> QED
    BY <1>1, <1>5, <2>1 DEF LogData
<1>8. CASE r_db.edit.log = r_db.log /\ r_db.edit.del = {} /\ TablesOf(r_db.edit.add) = r_db.imm
  <2>1. TargetFiles = r_db.files \cup r_db.edit.add
    BY <1>8 DEF TargetFiles
  <2>2. TablesOf(TargetFiles) = TablesOf(r_db.files) \cup r_db.imm
    BY <1>4, <1>8, <2>1
  <2>3. LogData(r_db.edit.log) = InUse
    BY <1>1, <1>8, LogDataLast
  <2>4. PICK T : T = TablesOf(r_db.files)
    OBVIOUS
  <2>5. PICK I : I = r_db.imm
    OBVIOUS
  <2>6. PICK O : O = OlderLogs(r_db.log_number)
    OBVIOUS
  <2>7. \A w : w \in Vis(I) <=> w \in Vis(O)
    BY <1>2, <2>5, <2>6
  <2>8. Vis((T \cup I) \cup InUse) = Vis(T \cup (O \cup InUse))
    BY <2>7 DEF Vis
  <2>9. Vis(TablesOf(TargetFiles) \cup LogData(r_db.edit.log))
           = Vis(TablesOf(r_db.files) \cup LogData(r_db.log_number))
    BY <1>3, <2>2, <2>3, <2>4, <2>5, <2>6, <2>8
  <2>10. ASSUME HasSynced(TablesOf(r_db.files) \cup SyncedData(r_db.log_number))
         PROVE  HasSynced(TablesOf(TargetFiles) \cup SyncedData(r_db.edit.log))
    <3> SUFFICES ASSUME NEW a \in r_acked, a.sync, a.id \notin r_exposed
                 PROVE  HasId(TablesOf(TargetFiles) \cup SyncedData(r_db.edit.log), a.id)
      BY DEF HasSynced
    <3>1. PICK w \in T \cup SyncedData(r_db.log_number) : w.id = a.id
      BY <2>4, <2>10 DEF HasSynced, HasId
    <3>2. CASE w \in T
      BY <2>2, <2>4, <3>1, <3>2 DEF HasId
    <3>3. CASE w \in SyncedData(r_db.log_number)
      <4>1. PICK n \in DOMAIN r_logs : n >= r_db.log_number /\ w \in Read(Synced(n))
        BY <3>3 DEF SyncedData
      <4>2. n \in Nat /\ n <= r_db.log
        BY <1>1 DEF LogsTyped
      <4>3. CASE n = r_db.log
        <5>1. w \in SyncedData(r_db.edit.log)
          BY <1>1, <1>8, <4>1, <4>3 DEF SyncedData
        <5> QED
          BY <3>1, <5>1 DEF HasId
      <4>4. CASE n # r_db.log
        <5>1. n < r_db.log /\ r_db.log_number <= n
          BY <1>1, <4>1, <4>2, <4>4
        <5>2. w \in Read(r_logs[n].recs)
          BY <4>1, LogTypes
        <5>3. w \in O
          BY <2>6, <5>1, <5>2 DEF OlderLogs
        <5>4. w \in Vis(O)
          BY <3>1, <5>3 DEF Vis
        <5>5. w \in I
          BY <1>2, <2>5, <2>6, <5>4 DEF Vis
        <5> QED
          BY <2>2, <2>5, <3>1, <5>5 DEF HasId
      <4> QED
        BY <4>3, <4>4
    <3> QED
      BY <3>1, <3>2, <3>3
  <2> QED
    BY <1>5, <1>6, <1>7, <2>9, <2>10
<1>9. CASE r_db.edit.log = r_db.log_number /\ TablesOf(TargetFiles) = TablesOf(r_db.files)
  BY <1>5, <1>6, <1>7, <1>9
<1> QED
  BY <1>8, <1>9 DEF EditPending

(* What stays when the edit moves on.                                      *)
LEMMA AtMoves ==
    ASSUME RecInv, NEW a, a \in {"log", "sync", "point", "install"}, r_db' = [r_db EXCEPT !.at = a],
           r_db.at \in {"log", "sync", "point", "install"}, ManifestsTyped',
           UNCHANGED <<r_logs, r_tables, r_acked, r_exposed, r_cut, r_issued, r_current>>
    PROVE  /\ RecTyped' /\ RecIds' /\ LogInUse' /\ NothingYet' /\ Replayed' /\ Replaying' /\ EditPending'
           /\ InMemory' = InMemory /\ TablesOf(Added)' = TablesOf(Added) /\ TargetFiles' = TargetFiles
           /\ r_db.step \in {"newlog", "open"}
<1>1. a \in R!EditSteps
  BY DEF R!EditSteps
<1>2. DBTyped /\ Phase /\ LogInUse /\ NothingYet /\ Replayed /\ EditPending
  BY DEF RecInv, RecTyped, RecPhase
<1>3. /\ r_db' \in DBRec /\ r_db'.at = a /\ r_db'.step = r_db.step /\ r_db'.edit = r_db.edit
      /\ r_db'.mem = r_db.mem /\ r_db'.imm = r_db.imm /\ r_db'.log = r_db.log
      /\ r_db'.log_number = r_db.log_number /\ r_db'.files = r_db.files
      /\ r_db'.next_file = r_db.next_file /\ r_db'.manifest = r_db.manifest
      /\ r_db'.last_sequence = r_db.last_sequence /\ r_db'.todo = r_db.todo
      /\ r_db'.bg_error = r_db.bg_error /\ r_db'.described = r_db.described
  BY <1>1, <1>2, OnlyAt
<1>4. r_db.step \in {"newlog", "open"}
  BY <1>2, Edits
<1>5. Editing /\ r_db.edit \in Pending
  BY <1>2 DEF Editing, DBTyped
<1>6. DBTyped'
  BY <1>3, <1>5 DEF DBTyped
<1>7. RecTyped'
  BY <1>6, SameData DEF RecInv, RecTyped
<1>8. RecIds'
  <2>1. MemIssued' /\ MemClosed'
    BY <1>3 DEF RecInv, RecIds, MemIssued, MemClosed, Old, ClosedSet, HasId
  <2> QED
    BY <2>1, SameData DEF RecInv, RecIds
<1>9. LogInUse'
  <2>1. r_db'.next_file \in Nat /\ r_db.next_file <= r_db'.next_file
    BY <1>2, <1>3, DBFields
  <2> QED
    BY <1>2, <1>3, <1>4, <2>1, LogInUseStays
<1>10. \A A : TablesOf(A)' = TablesOf(A)
  BY SameData
<1>11. \A from : LogData(from)' = LogData(from)
  BY SameData
<1>12. TablesOf(r_db.files)' = TablesOf(r_db.files) /\ TablesOf(r_db.edit.add)' = TablesOf(r_db.edit.add)
       /\ LogData(r_db.log_number)' = LogData(r_db.log_number)
  BY <1>3, <1>10, <1>11
<1>13. NothingYet' /\ Replaying'
  BY <1>2, <1>3, <1>4, <1>12 DEF NothingYet, Replaying
<1>14. Replayed'
  BY <1>2, <1>3, <1>12 DEF Replayed
<1>15. TargetFiles' = TargetFiles
  BY <1>3 DEF TargetFiles
<1>16. EditPending'
  <2>1. ASSUME r_db.described, a \in {"sync", "install"}
        PROVE  r_db.at \in {"log", "sync", "install"}
    BY <1>2, <1>4, <2>1 DEF Phase
  <2>2. TablesOf(TargetFiles)' = TablesOf(TargetFiles)
    BY <1>10, <1>15
  <2>3. NumbersApart(TargetFiles, r_db.edit.log) => NumbersApart(TargetFiles, r_db.edit.log)'
    BY <1>3, <1>15 DEF NumbersApart
  <2>4. a = "log" => ~r_db.described \/ r_db.at \in {"log", "sync", "install"}
    BY <1>2, <1>4 DEF Phase
  <2> QED
    BY <1>2, <1>3, <1>12, <2>1, <2>2, <2>3, <2>4 DEF EditPending
<1>17. TablesOf(Added)' = TablesOf(Added)
  <2>1. Added' = r_db.edit.add /\ Added = r_db.edit.add
    BY <1>3, <1>5 DEF Added, Editing
  <2> QED
    BY <1>10, <2>1
<1>18. InMemory' = InMemory
  BY <1>3, <1>12 DEF InMemory
<1> QED
  BY <1>4, <1>7, <1>8, <1>9, <1>13, <1>14, <1>15, <1>16, <1>17, <1>18

(* The first edit of a process goes to a manifest of its own.              *)
LEMMA LogFirstEditKeeps == ASSUME RecInv, R!LogEdit, ~r_db.described PROVE RecInv'
<1>1. /\ r_db.at = "log" /\ r_db' = [r_db EXCEPT !.at = "sync"]
      /\ UNCHANGED <<r_logs, r_tables, r_acked, r_exposed, r_cut, r_issued, r_current>>
      /\ r_manifests' = R!With(r_manifests, r_db.manifest, R!File(<<R!Snapshot, EditOut>>, 0))
  BY DEF R!LogEdit, R!ghosts, EditOut
<1>2. DBTyped /\ Phase /\ LogInUse /\ ManifestsTyped /\ VersionsSound /\ Recovering
  BY DEF RecInv, RecTyped, RecPhase
<1>3. r_db.step = "newlog" /\ r_current # 0
  BY <1>1, <1>2, Edits DEF Phase
<1>4. r_current # 0 /\ r_current < r_db.manifest /\ r_db.manifest \in Nat /\ r_current \in Nat
  BY <1>3, WhileRecovering
<1>5. /\ r_db' \in DBRec /\ r_db'.at = "sync" /\ r_db'.step = r_db.step /\ r_db'.edit = r_db.edit
      /\ r_db'.mem = r_db.mem /\ r_db'.imm = r_db.imm /\ r_db'.log = r_db.log
      /\ r_db'.log_number = r_db.log_number /\ r_db'.files = r_db.files
      /\ r_db'.next_file = r_db.next_file /\ r_db'.manifest = r_db.manifest
      /\ r_db'.last_sequence = r_db.last_sequence /\ r_db'.described = r_db.described
  <2>1. "sync" \in R!EditSteps
    BY DEF R!EditSteps
  <2> QED
    BY <1>1, <1>2, <2>1, OnlyAt
<1>6. R!Snapshot \in EditRec /\ EditOut \in EditRec
  <2>1. Editing
    BY <1>1 DEF Editing
  <2>2. /\ r_db.edit.add \subseteq Nat /\ r_db.edit.del \subseteq Nat /\ r_db.edit.log \in Nat
        /\ r_db.next_file \in Nat /\ r_db.last_sequence \in Nat /\ r_db.files \subseteq Nat
    BY <1>2, <2>1, DBFields
  <2> QED
    BY <2>2 DEF EditRec, EditOut, R!Snapshot, R!Edit
<1>7. PICK recs \in Seq(EditRec) : recs = <<R!Snapshot, EditOut>> /\ Len(recs) = 2
  <2>1. PICK s \in EditRec : s = R!Snapshot
    BY <1>6
  <2>2. PICK e \in EditRec : e = EditOut
    BY <1>6
  <2>3. <<s, e>> \in Seq(EditRec) /\ Len(<<s, e>>) = 2
    OBVIOUS
  <2> QED
    BY <2>1, <2>2, <2>3
<1>8. PICK f \in Manifest : f = R!File(recs, 0) /\ f.recs = recs /\ f.synced = 0 /\ f.synced <= Len(f.recs)
  <2>1. PICK f : f = [recs |-> recs, synced |-> 0]
    OBVIOUS
  <2>2. f \in Manifest /\ f.recs = recs /\ f.synced = 0
    BY <2>1 DEF Manifest
  <2>3. f = R!File(recs, 0)
    BY <2>1 DEF R!File
  <2>4. 0 <= Len(recs)
    BY <1>7
  <2> QED
    BY <2>2, <2>3, <2>4
<1>9. /\ ManifestsTyped' /\ r_manifests'[r_current] = r_manifests[r_current]
      /\ r_db.manifest \in DOMAIN r_manifests' /\ r_manifests'[r_db.manifest] = f
  <2>1. r_db.manifest \in Nat \ {0} /\ r_db.manifest # r_current
    BY <1>4
  <2> QED
    BY <1>1, <1>2, <1>4, <1>7, <1>8, <2>1, NewManifest
<1>10. VersionsSound' /\ Survivors' = Survivors /\ LastVersion' = LastVersion
  BY <1>1, <1>2, <1>4, <1>9, VersionsStay
<1>11. /\ RecTyped' /\ RecIds' /\ LogInUse' /\ NothingYet' /\ Replayed' /\ Replaying' /\ EditPending'
       /\ InMemory' = InMemory /\ TablesOf(Added)' = TablesOf(Added)
  <2>1. PICK a : a = "sync"
    OBVIOUS
  <2>2. a \in {"log", "sync", "point", "install"} /\ r_db' = [r_db EXCEPT !.at = a]
        /\ r_db.at \in {"log", "sync", "point", "install"}
    BY <1>1, <2>1
  <2> QED
    BY <1>1, <1>9, <2>2, AtMoves
<1>12. Unique'
  <2>1. (UNION {Data(x) : x \in Survivors})' = UNION {Data(x) : x \in Survivors}
    <3>1. \A x : Data(x)' = Data(x)
      BY <1>1, SameData
    <3> QED
      BY <1>10, <3>1
  <2>2. Alive' \subseteq Alive
    BY <1>11, <2>1 DEF Alive
  <2> QED
    BY <2>2, FewerAlive DEF RecInv
<1>13. Phase'
  BY <1>1, <1>2, <1>3, <1>5 DEF Phase
<1>14. Recovering'
  <2>1. /\ TablesOf(r_db.edit.add)' = TablesOf(r_db.edit.add)
        /\ LogData(r_db.log_number)' = LogData(r_db.log_number)
    <3>1. \A A : TablesOf(A)' = TablesOf(A)
      BY <1>1, SameData
    <3>2. \A A : LogData(A)' = LogData(A)
      BY <1>1, SameData
    <3> QED
      BY <1>5, <3>1, <3>2
  <2> QED
    BY <1>1, <1>2, <1>3, <1>5, <1>10, <2>1 DEF Recovering
<1>15. ManifestWritten'
  <2>1. R!Snapshot' = R!Snapshot /\ EditOut' = EditOut
    BY <1>5 DEF R!Snapshot, EditOut
  <2> QED
    BY <1>5, <1>7, <1>8, <1>9, <2>1 DEF ManifestWritten
<1>16. Describing' /\ Installed'
  BY <1>3, <1>5 DEF Describing, Installed
<1> QED
  BY <1>10, <1>11, <1>12, <1>13, <1>14, <1>15, <1>16 DEF RecInv, RecPhase

(* A later edit goes behind the others: a crash leaves the version before  *)
(* it or the one after it, and they hold the same.                         *)
LEMMA LogNextEditKeeps == ASSUME RecInv, R!LogEdit, r_db.described PROVE RecInv' /\ Found' = Found
<1>1. /\ r_db.at = "log" /\ r_db' = [r_db EXCEPT !.at = "sync"]
      /\ UNCHANGED <<r_logs, r_tables, r_acked, r_exposed, r_cut, r_issued, r_current>>
      /\ r_manifests' = [r_manifests EXCEPT ![r_db.manifest].recs = Append(@, EditOut)]
  BY DEF R!LogEdit, R!ghosts, EditOut
<1>2. /\ DBTyped /\ Phase /\ LogInUse /\ ManifestsTyped /\ VersionsSound /\ Describing /\ Installed
      /\ LogsTyped /\ TablesTyped /\ EditPending
  BY DEF RecInv, RecTyped, RecPhase
<1>3. r_db.step = "open" /\ r_current # 0 /\ r_db.manifest = r_current
  BY <1>1, <1>2, Edits DEF Phase, Describing
<1>4. /\ r_db' \in DBRec /\ r_db'.at = "sync" /\ r_db'.step = r_db.step /\ r_db'.edit = r_db.edit
      /\ r_db'.mem = r_db.mem /\ r_db'.imm = r_db.imm /\ r_db'.log = r_db.log
      /\ r_db'.log_number = r_db.log_number /\ r_db'.files = r_db.files
      /\ r_db'.next_file = r_db.next_file /\ r_db'.manifest = r_db.manifest
      /\ r_db'.last_sequence = r_db.last_sequence /\ r_db'.described = r_db.described
      /\ r_db'.bg_error = r_db.bg_error
  <2>1. "sync" \in R!EditSteps
    BY DEF R!EditSteps
  <2> QED
    BY <1>1, <1>2, <2>1, OnlyAt
<1>5. /\ r_db.edit.add \subseteq Nat /\ r_db.edit.del \subseteq Nat /\ r_db.edit.log \in Nat
      /\ r_db.next_file \in Nat /\ r_db.last_sequence \in Nat /\ r_db.files \subseteq Nat
      /\ r_db.manifest \in Nat /\ r_db.log_number \in Nat /\ r_db.log \in Nat
  <2>1. Editing
    BY <1>1 DEF Editing
  <2> QED
    BY <1>2, <2>1, DBFields
<1>6. PICK e \in EditRec : e = EditOut
  BY <1>5 DEF EditRec, EditOut, R!Edit
<1>7. /\ e.add = r_db.edit.add /\ e.del = r_db.edit.del /\ e.log = r_db.edit.log
      /\ e.next = r_db.next_file /\ e.seq = r_db.last_sequence
  BY <1>6 DEF EditOut, R!Edit
<1>8. /\ ManifestsTyped' /\ LastVersion' = R!Apply(Append(Current, e))
      /\ Survivors' = Survivors \cup {LastVersion'} /\ Current \in Seq(EditRec)
  BY <1>1, <1>2, <1>3, <1>6, MoreSurvivors
<1>9. PICK last : last = LastVersion /\ last \in Survivors /\ IsBase(last)
  <2>1. LastVersion \in Survivors
    BY <1>2, <1>3, LastIsSound
  <2> QED
    BY <1>1, <1>2, <2>1 DEF Describing
<1>10. last.files = r_db.files /\ last.log = r_db.log_number /\ last.next \in Nat /\ last.seq \in Nat
       /\ last.next <= r_db.next_file /\ Sound(last)
  BY <1>2, <1>9, SurvivorFacts DEF IsBase, Describing, VersionsSound
<1>11. PICK t : t = LastVersion'
  OBVIOUS
<1>12. t.files = TargetFiles /\ t.log = r_db.edit.log /\ t.next = r_db.next_file /\ t.seq = r_db.last_sequence
  <2>1. r_db.next_file # 0
    BY <1>2, <1>5 DEF Describing
  <2>2. /\ R!Apply(Append(Current, e)).files = (R!Apply(Current).files \ e.del) \cup e.add
        /\ e.next # 0 => /\ R!Apply(Append(Current, e)).log = e.log
                         /\ R!Apply(Append(Current, e)).next = e.next
                         /\ R!Apply(Append(Current, e)).seq = e.seq
    BY <1>8, ApplyAppend
  <2>3. R!Apply(Current).files = r_db.files
    BY <1>9, <1>10 DEF LastVersion
  <2> QED
    BY <1>7, <1>8, <1>11, <2>1, <2>2, <2>3 DEF TargetFiles
<1>13. /\ Vis(TablesOf(t.files) \cup LogData(t.log)) = Vis(Data(last))
       /\ LogData(r_db.edit.log) \subseteq LogData(r_db.log_number)
       /\ TablesOf(TargetFiles) \subseteq TablesOf(r_db.files) \cup TablesOf(r_db.edit.add)
       /\ HasSynced(TablesOf(t.files) \cup SyncedData(t.log))
       /\ r_db.log_number <= r_db.edit.log /\ r_db.edit.log <= r_db.log
  <2>1. Vis(TablesOf(TargetFiles) \cup LogData(r_db.edit.log))
           = Vis(TablesOf(r_db.files) \cup LogData(r_db.log_number))
        /\ LogData(r_db.edit.log) \subseteq LogData(r_db.log_number)
        /\ TablesOf(TargetFiles) \subseteq TablesOf(r_db.files) \cup TablesOf(r_db.edit.add)
        /\ (HasSynced(TablesOf(r_db.files) \cup SyncedData(r_db.log_number)) =>
                    HasSynced(TablesOf(TargetFiles) \cup SyncedData(r_db.edit.log)))
        /\ r_db.log_number <= r_db.edit.log /\ r_db.edit.log <= r_db.log
    BY <1>1, <1>2, <1>3, TargetHolds
  <2>2. HasSynced(TablesOf(r_db.files) \cup SyncedData(r_db.log_number))
    BY <1>10 DEF Sound
  <2>3. Data(last) = TablesOf(r_db.files) \cup LogData(r_db.log_number)
    BY <1>10 DEF Data
  <2> QED
    BY <1>12, <2>1, <2>2, <2>3
<1>14. /\ TablesOf(r_db.files) \subseteq Alive /\ TablesOf(r_db.edit.add) \subseteq Alive
       /\ LogData(r_db.log_number) \subseteq Alive
  <2>1. Added = r_db.edit.add
    BY <1>1 DEF Added, Editing
  <2>2. Data(last) \subseteq UNION {Data(v) : v \in Survivors}
    BY <1>9
  <2>3. LogData(r_db.log_number) \subseteq Data(last)
    BY <1>10 DEF Data
  <2> QED
    BY <2>1, <2>2, <2>3 DEF Alive, InMemory
<1>15. Data(t) \subseteq Alive /\ Vis(Data(t)) = Vis(Data(last))
  BY <1>12, <1>13, <1>14 DEF Data
<1>16. /\ \A A : TablesOf(A)' = TablesOf(A)
       /\ \A from : LogData(from)' = LogData(from) /\ SyncedData(from)' = SyncedData(from)
       /\ \A v : Data(v)' = Data(v)
       /\ \A X : Vis(X)' = Vis(X)
  BY <1>1, SameData
<1>17. Sound(t)
  <2>1. t.files \subseteq DOMAIN r_tables
    BY <1>1, <1>2, <1>3, <1>12 DEF EditPending, Installed, TargetFiles
  <2>2. r_current < t.next /\ t.log < t.next /\ t.next # 0
    <3>1. r_db.log < r_db.next_file /\ r_db.manifest < r_db.next_file
      BY <1>2, <1>3 DEF LogInUse, Describing
    <3> QED
      BY <1>3, <1>5, <1>12, <1>13, <3>1
  <2>3. \A n \in t.files : n < t.next
    BY <1>1, <1>2, <1>12 DEF EditPending, NumbersApart
  <2>4. \A w \in TablesOf(t.files) : w.seq <= t.seq
    <3>1. \A w \in Alive : w.seq <= r_db.last_sequence
      BY <1>2, <1>3 DEF Installed
    <3> QED
      BY <1>12, <1>13, <1>14, <3>1
  <2>5. HasAcked(Data(t))
    <3>1. HasAcked(Data(last))
      BY <1>10 DEF Sound
    <3> QED
      BY <1>15, <3>1, VisibleIsFound
  <2>6. \A a \in r_acked : a.log \in DOMAIN r_logs \/ a.log < t.log
    <3>1. \A a \in r_acked : a.log \in Nat
      BY DEF RecInv, RecTyped, GhostsTyped, AckRec
    <3>2. \A a \in r_acked : a.log \in DOMAIN r_logs \/ a.log < r_db.log_number
      BY <1>10 DEF Sound
    <3> QED
      BY <1>5, <1>12, <1>13, <3>1, <3>2
  <2> QED
    BY <1>13, <2>1, <2>2, <2>3, <2>4, <2>5, <2>6 DEF Sound
<1>18. \A v \in Survivors \cup {t} : Sound(v)'
  <2>1. TAKE v \in Survivors \cup {t}
  <2>2. Sound(v)
    BY <1>2, <1>17 DEF VersionsSound
  <2> QED
    BY <1>1, <1>16, <2>2, SoundStays DEF Sound
<1>19. \A v \in Survivors \cup {t} : Agrees(v)'
  <2>1. TAKE v \in Survivors \cup {t}
  <2>2. v.next <= t.next /\ Vis(Data(v)) = Vis(Data(t))
    <3>1. CASE v \in Survivors
      <4>1. v.next <= last.next /\ Vis(Data(v)) = Vis(Data(last)) /\ v.next \in Nat
        BY <1>2, <1>9, <3>1, SurvivorFacts DEF VersionsSound, Agrees
      <4> QED
        BY <1>5, <1>10, <1>12, <1>15, <4>1
    <3>2. CASE v = t
      BY <1>5, <1>12, <3>2
    <3> QED
      BY <3>1, <3>2
  <2>3. Vis(Data(v))' = Vis(Data(v)) /\ Vis(Data(LastVersion))' = Vis(Data(t))
    <3>1. Data(v)' = Data(v) /\ Data(LastVersion)' = Data(t)
      <4>1. Data(t)' = Data(LastVersion)'
        BY <1>11 DEF Data
      <4> QED
        BY <1>16, <4>1
    <3> QED
      BY <1>1, <3>1 DEF Vis
  <2> QED
    BY <1>11, <2>2, <2>3 DEF Agrees
<1>20. VersionsSound' /\ Survivors' = Survivors \cup {t}
  BY <1>8, <1>11, <1>18, <1>19 DEF VersionsSound
<1>21. /\ RecTyped' /\ RecIds' /\ LogInUse' /\ NothingYet' /\ Replayed' /\ Replaying' /\ EditPending'
       /\ InMemory' = InMemory /\ TablesOf(Added)' = TablesOf(Added) /\ TargetFiles' = TargetFiles
  <2>1. PICK a : a = "sync"
    OBVIOUS
  <2>2. a \in {"log", "sync", "point", "install"} /\ r_db' = [r_db EXCEPT !.at = a]
        /\ r_db.at \in {"log", "sync", "point", "install"}
    BY <1>1, <2>1
  <2> QED
    BY <1>1, <1>8, <2>2, AtMoves
<1>22. Alive' \subseteq Alive
  <2>1. (UNION {Data(x) : x \in Survivors})' \subseteq Alive
    <3>1. (UNION {Data(x) : x \in Survivors})' = UNION {Data(x) : x \in Survivors \cup {t}}
      BY <1>16, <1>20
    <3>2. \A x \in Survivors \cup {t} : Data(x) \subseteq Alive
      BY <1>15, AliveOnDisk
    <3> QED
      BY <3>1, <3>2
  <2>2. InMemory \subseteq Alive /\ TablesOf(Added) \subseteq Alive
    BY DEF Alive
  <2> QED
    BY <1>21, <2>1, <2>2 DEF Alive
<1>23. Unique'
  BY <1>22, FewerAlive DEF RecInv
<1>24. Phase'
  BY <1>1, <1>2, <1>3, <1>4 DEF Phase
<1>25. Recovering' /\ ManifestWritten'
  BY <1>3, <1>4 DEF Recovering, ManifestWritten
<1>26. Describing'
  <2>1. /\ r_db.manifest < r_db.next_file /\ r_db.log_number <= r_db.log
        /\ \A v \in Survivors : v.log <= r_db.log
        /\ \A v \in Survivors : IsBase(v)
    BY <1>1, <1>2 DEF Describing
  <2>2. IsTarget(t)'
    BY <1>4, <1>12, <1>21 DEF IsTarget
  <2>3. \A v \in Survivors : IsBase(v)'
    BY <1>4, <2>1 DEF IsBase
  <2>4. IsTarget(LastVersion)'
    BY <1>4, <1>11, <1>12, <1>21 DEF IsTarget
  <2>5. r_db.next_file <= r_db.next_file
    BY <1>5
  <2>6. LastVersion'.next <= r_db'.next_file
    BY <1>4, <1>11, <1>12, <2>5
  <2>7. t.log <= r_db.log
    BY <1>12, <1>13
  <2> QED
    BY <1>1, <1>3, <1>4, <1>20, <2>1, <2>2, <2>3, <2>4, <2>6, <2>7 DEF Describing
<1>27. Installed'
  <2>1. r_db.files \subseteq DOMAIN r_tables' /\ r_db'.next_file \in Nat /\ r_db.next_file <= r_db'.next_file
    BY <1>1, <1>2, <1>3, <1>4, <1>5 DEF Installed
  <2>2. TablesOf(r_db.files)' = TablesOf(r_db.files)
    BY <1>1, <1>4 DEF TablesOf
  <2> QED
    BY <1>1, <1>2, <1>3, <1>4, <1>22, <2>1, <2>2, InstalledStays
<1>28. Found' = Found
  <2>1. PICK u : u = Data(t) /\ u = Data(LastVersion)'
    <3>1. Data(t)' = Data(LastVersion)'
      BY <1>11 DEF Data
    <3> QED
      BY <1>16, <3>1
  <2>2. Vis(Data(LastVersion))' = Vis(Data(last))
    BY <1>1, <1>15, <2>1 DEF Vis
  <2> QED
    BY <1>1, <1>3, <1>9, <2>2 DEF Found
<1> QED
  BY <1>28, <1>20, <1>21, <1>23, <1>24, <1>25, <1>26, <1>27 DEF RecInv, RecPhase

(* A manifest that is synced: a crash leaves one version of it.            *)
LEMMA SyncedManifest ==
    ASSUME ManifestsTyped, NEW m, m \in DOMAIN r_manifests, UNCHANGED r_current,
           r_manifests' = [r_manifests EXCEPT ![m].synced = Len(r_manifests[m].recs)]
    PROVE  /\ ManifestsTyped' /\ DOMAIN r_manifests' = DOMAIN r_manifests
           /\ \A n \in DOMAIN r_manifests : n # m => r_manifests'[n] = r_manifests[n]
           /\ r_manifests'[m].recs = r_manifests[m].recs
           /\ r_manifests'[m].synced = Len(r_manifests[m].recs)
           /\ m = r_current /\ r_current # 0 =>
                LastVersion' = LastVersion /\ \A v \in Survivors' : v = LastVersion
<1>1. r_manifests[m] \in Manifest
  BY DEF ManifestsTyped
<1>2. PICK recs \in Seq(EditRec) : recs = r_manifests[m].recs
  BY <1>1 DEF Manifest
<1>3. PICK n \in Nat : n = Len(recs)
  BY LenProperties
<1>4. /\ DOMAIN r_manifests' = DOMAIN r_manifests
      /\ \A x \in DOMAIN r_manifests : x # m => r_manifests'[x] = r_manifests[x]
      /\ r_manifests'[m] = [r_manifests[m] EXCEPT !.synced = n]
  BY <1>2, <1>3
<1>5. r_manifests'[m] \in Manifest /\ r_manifests'[m].recs = recs /\ r_manifests'[m].synced = n
  BY <1>1, <1>2, <1>3, <1>4 DEF Manifest
<1>6. ManifestsTyped'
  <2>1. n <= Len(recs)
    BY <1>3
  <2>2. \A x \in DOMAIN r_manifests' :
           r_manifests'[x] \in Manifest /\ r_manifests'[x].synced <= Len(r_manifests'[x].recs)
    BY <1>4, <1>5, <2>1 DEF ManifestsTyped
  <2> QED
    BY <1>4, <2>2 DEF ManifestsTyped
<1>7. ASSUME m = r_current, r_current # 0
      PROVE  LastVersion' = LastVersion /\ \A v \in Survivors' : v = LastVersion
  <2>1. Current' = recs /\ Current = recs
    BY <1>2, <1>5, <1>7 DEF Current
  <2>2. Survivors' = {R!Apply(SubSeq(recs, 1, k)) : k \in n..n}
    BY <1>3, <1>5, <1>7, <2>1 DEF Survivors
  <2>3. SubSeq(recs, 1, n) = recs
    BY <1>2, <1>3, SubSeqFull
  <2>4. \A k \in n..n : k = n
    BY <1>3
  <2> QED
    BY <2>1, <2>2, <2>3, <2>4 DEF LastVersion
<1> QED
  BY <1>2, <1>3, <1>4, <1>5, <1>6, <1>7

(* The new manifest is synced before CURRENT names it.                     *)
LEMMA SyncFirstManifestKeeps == ASSUME RecInv, R!SyncManifest, ~r_db.described PROVE RecInv'
<1>1. /\ r_db.at = "sync" /\ r_db' = [r_db EXCEPT !.at = "point"]
      /\ UNCHANGED <<r_logs, r_tables, r_acked, r_exposed, r_cut, r_issued, r_current>>
      /\ r_manifests' = [r_manifests EXCEPT ![r_db.manifest].synced = Len(r_manifests[r_db.manifest].recs)]
  BY DEF R!SyncManifest, R!ghosts
<1>2. DBTyped /\ Phase /\ LogInUse /\ ManifestsTyped /\ VersionsSound /\ Recovering /\ ManifestWritten
  BY DEF RecInv, RecTyped, RecPhase
<1>3. r_db.step = "newlog" /\ r_current # 0
  BY <1>1, <1>2, Edits DEF Phase
<1>4. r_current < r_db.manifest /\ r_db.manifest \in Nat /\ r_current \in Nat
  BY <1>3, WhileRecovering
<1>5. /\ r_db' \in DBRec /\ r_db'.at = "point" /\ r_db'.step = r_db.step /\ r_db'.edit = r_db.edit
      /\ r_db'.mem = r_db.mem /\ r_db'.imm = r_db.imm /\ r_db'.log = r_db.log
      /\ r_db'.log_number = r_db.log_number /\ r_db'.files = r_db.files
      /\ r_db'.next_file = r_db.next_file /\ r_db'.manifest = r_db.manifest
      /\ r_db'.last_sequence = r_db.last_sequence /\ r_db'.described = r_db.described
  <2>1. "point" \in R!EditSteps
    BY DEF R!EditSteps
  <2> QED
    BY <1>1, <1>2, <2>1, OnlyAt
<1>6. r_db.manifest \in DOMAIN r_manifests /\ r_manifests[r_db.manifest].recs = <<R!Snapshot, EditOut>>
  BY <1>1, <1>2, <1>3 DEF ManifestWritten
<1>7. /\ ManifestsTyped' /\ r_manifests'[r_current] = r_manifests[r_current]
      /\ r_db.manifest \in DOMAIN r_manifests'
      /\ r_manifests'[r_db.manifest].recs = <<R!Snapshot, EditOut>>
      /\ r_manifests'[r_db.manifest].synced = 2
  <2>1. r_current \in DOMAIN r_manifests /\ r_current # r_db.manifest
    BY <1>2, <1>3, <1>4 DEF ManifestsTyped
  <2>2. /\ ManifestsTyped' /\ DOMAIN r_manifests' = DOMAIN r_manifests
        /\ \A n \in DOMAIN r_manifests : n # r_db.manifest => r_manifests'[n] = r_manifests[n]
        /\ r_manifests'[r_db.manifest].recs = r_manifests[r_db.manifest].recs
        /\ r_manifests'[r_db.manifest].synced = Len(r_manifests[r_db.manifest].recs)
    BY <1>1, <1>2, <1>6, SyncedManifest
  <2>3. PICK s, e : s = R!Snapshot /\ e = EditOut
    OBVIOUS
  <2>4. Len(<<s, e>>) = 2
    OBVIOUS
  <2> QED
    BY <1>6, <2>1, <2>2, <2>3, <2>4
<1>8. VersionsSound' /\ Survivors' = Survivors /\ LastVersion' = LastVersion
  BY <1>1, <1>2, <1>3, <1>7, VersionsStay
<1>9. /\ RecTyped' /\ RecIds' /\ LogInUse' /\ NothingYet' /\ Replayed' /\ Replaying' /\ EditPending'
      /\ InMemory' = InMemory /\ TablesOf(Added)' = TablesOf(Added)
  <2>1. PICK a : a = "point"
    OBVIOUS
  <2>2. a \in {"log", "sync", "point", "install"} /\ r_db' = [r_db EXCEPT !.at = a]
        /\ r_db.at \in {"log", "sync", "point", "install"}
    BY <1>1, <2>1
  <2> QED
    BY <1>1, <1>7, <2>2, AtMoves
<1>10. Unique'
  <2>1. (UNION {Data(x) : x \in Survivors})' = UNION {Data(x) : x \in Survivors}
    <3>1. \A x : Data(x)' = Data(x)
      BY <1>1, SameData
    <3> QED
      BY <1>8, <3>1
  <2>2. Alive' \subseteq Alive
    BY <1>9, <2>1 DEF Alive
  <2> QED
    BY <2>2, FewerAlive DEF RecInv
<1>11. Phase'
  BY <1>1, <1>2, <1>3, <1>5 DEF Phase
<1>12. Recovering'
  <2>1. /\ TablesOf(r_db.edit.add)' = TablesOf(r_db.edit.add)
        /\ LogData(r_db.log_number)' = LogData(r_db.log_number)
    <3>1. \A A : TablesOf(A)' = TablesOf(A)
      BY <1>1, SameData
    <3>2. \A A : LogData(A)' = LogData(A)
      BY <1>1, SameData
    <3> QED
      BY <1>5, <3>1, <3>2
  <2> QED
    BY <1>1, <1>2, <1>3, <1>5, <1>8, <2>1 DEF Recovering
<1>13. ManifestWritten'
  <2>1. R!Snapshot' = R!Snapshot /\ EditOut' = EditOut
    BY <1>5 DEF R!Snapshot, EditOut
  <2> QED
    BY <1>5, <1>7, <2>1 DEF ManifestWritten
<1>14. Describing' /\ Installed'
  BY <1>3, <1>5 DEF Describing, Installed
<1> QED
  BY <1>8, <1>9, <1>10, <1>11, <1>12, <1>13, <1>14 DEF RecInv, RecPhase

(* The manifest in use is synced: the next version is there for good.      *)
LEMMA SyncNextManifestKeeps == ASSUME RecInv, R!SyncManifest, r_db.described PROVE RecInv'
<1>1. /\ r_db.at = "sync" /\ r_db' = [r_db EXCEPT !.at = "install"]
      /\ UNCHANGED <<r_logs, r_tables, r_acked, r_exposed, r_cut, r_issued, r_current>>
      /\ r_manifests' = [r_manifests EXCEPT ![r_db.manifest].synced = Len(r_manifests[r_db.manifest].recs)]
  BY DEF R!SyncManifest, R!ghosts
<1>2. /\ DBTyped /\ Phase /\ LogInUse /\ ManifestsTyped /\ VersionsSound /\ Describing /\ Installed
      /\ EditPending
  BY DEF RecInv, RecTyped, RecPhase
<1>3. r_db.step = "open" /\ r_current # 0 /\ r_db.manifest = r_current
  BY <1>1, <1>2, Edits DEF Phase, Describing
<1>4. /\ r_db' \in DBRec /\ r_db'.at = "install" /\ r_db'.step = r_db.step /\ r_db'.edit = r_db.edit
      /\ r_db'.mem = r_db.mem /\ r_db'.imm = r_db.imm /\ r_db'.log = r_db.log
      /\ r_db'.log_number = r_db.log_number /\ r_db'.files = r_db.files
      /\ r_db'.next_file = r_db.next_file /\ r_db'.manifest = r_db.manifest
      /\ r_db'.last_sequence = r_db.last_sequence /\ r_db'.described = r_db.described
      /\ r_db'.bg_error = r_db.bg_error
  <2>1. "install" \in R!EditSteps
    BY DEF R!EditSteps
  <2> QED
    BY <1>1, <1>2, <2>1, OnlyAt
<1>5. PICK last : last = LastVersion /\ last \in Survivors /\ Sound(last) /\ IsTarget(last)
                  /\ last.log \in Nat /\ last.next \in Nat
  BY <1>1, <1>2, <1>3, LastIsSound DEF Describing
<1>6. ManifestsTyped' /\ LastVersion' = last /\ \A v \in Survivors' : v = last
  <2>1. r_db.manifest \in DOMAIN r_manifests
    BY <1>2, <1>3 DEF ManifestsTyped
  <2> QED
    BY <1>1, <1>2, <1>3, <1>5, <2>1, SyncedManifest
<1>7. Sound(last)' /\ Data(last)' = Data(last)
  <2>1. /\ \A A : TablesOf(A)' = TablesOf(A)
        /\ \A from : LogData(from)' = LogData(from) /\ SyncedData(from)' = SyncedData(from)
    BY <1>1, SameData
  <2> QED
    BY <1>1, <1>5, <2>1, SoundStays DEF Sound
<1>8. VersionsSound'
  <2>1. last.next <= last.next
    BY <1>5
  <2>2. Agrees(last)'
    <3>1. Vis(Data(LastVersion))' = Vis(Data(last))'
      BY <1>6 DEF Vis, Data
    <3> QED
      BY <1>6, <2>1, <3>1 DEF Agrees
  <2> QED
    BY <1>6, <1>7, <2>2 DEF VersionsSound
<1>9. /\ RecTyped' /\ RecIds' /\ LogInUse' /\ NothingYet' /\ Replayed' /\ Replaying' /\ EditPending'
      /\ InMemory' = InMemory /\ TablesOf(Added)' = TablesOf(Added) /\ TargetFiles' = TargetFiles
  <2>1. PICK a : a = "install"
    OBVIOUS
  <2>2. a \in {"log", "sync", "point", "install"} /\ r_db' = [r_db EXCEPT !.at = a]
        /\ r_db.at \in {"log", "sync", "point", "install"}
    BY <1>1, <2>1
  <2> QED
    BY <1>1, <1>6, <2>2, AtMoves
<1>10. Alive' \subseteq Alive
  <2>1. \A v \in Survivors' : Data(v)' \subseteq UNION {Data(x) : x \in Survivors}
    BY <1>5, <1>6, <1>7
  <2>2. (UNION {Data(x) : x \in Survivors})' \subseteq UNION {Data(x) : x \in Survivors}
    BY <2>1
  <2> QED
    BY <1>9, <2>2 DEF Alive
<1>11. Unique'
  BY <1>10, FewerAlive DEF RecInv
<1>12. Phase'
  BY <1>1, <1>2, <1>3, <1>4 DEF Phase
<1>13. Recovering' /\ ManifestWritten'
  BY <1>3, <1>4 DEF Recovering, ManifestWritten
<1>14. Describing'
  <2>1. /\ r_db.manifest < r_db.next_file /\ r_db.log_number <= r_db.log
        /\ last.log <= r_db.log /\ last.next <= r_db.next_file
    BY <1>1, <1>2, <1>5 DEF Describing
  <2>2. IsTarget(last)'
    BY <1>4, <1>5, <1>9 DEF IsTarget
  <2> QED
    BY <1>1, <1>3, <1>4, <1>6, <2>1, <2>2 DEF Describing
<1>15. Installed'
  <2>1. r_db.files \subseteq DOMAIN r_tables' /\ r_db'.next_file \in Nat /\ r_db.next_file <= r_db'.next_file
    BY <1>1, <1>2, <1>3, <1>4, DBFields DEF Installed
  <2>2. TablesOf(r_db.files)' = TablesOf(r_db.files)
    BY <1>1, <1>4 DEF TablesOf
  <2> QED
    BY <1>1, <1>2, <1>3, <1>4, <1>10, <2>1, <2>2, InstalledStays
<1> QED
  BY <1>8, <1>9, <1>11, <1>12, <1>13, <1>14, <1>15 DEF RecInv, RecPhase

(* CURRENT names the new manifest: it describes the tables that were there *)
(* and those made of the logs, which is all there was.                     *)
LEMMA SetCurrentFileKeeps == ASSUME RecInv, R!SetCurrentFile PROVE RecInv' /\ Found' = Found
<1>1. /\ r_db.at = "point" /\ r_current' = r_db.manifest
      /\ UNCHANGED <<r_logs, r_manifests, r_tables, r_acked, r_exposed, r_cut, r_issued>>
      /\ r_db' = [r_db EXCEPT !.at = "install", !.described = TRUE]
  BY DEF R!SetCurrentFile, R!ghosts
<1>2. /\ DBTyped /\ Phase /\ LogInUse /\ ManifestsTyped /\ VersionsSound /\ LogsTyped
      /\ Recovering /\ NothingYet /\ Replayed /\ ManifestWritten
  BY DEF RecInv, RecTyped, RecPhase
<1>3. r_db.step = "newlog" /\ ~r_db.described
  BY <1>1, <1>2, Edits DEF Phase
<1>4. /\ r_current # 0 /\ r_current \in Nat /\ r_current < r_db.manifest /\ r_db.manifest \in Nat
      /\ r_db.files \subseteq DOMAIN r_tables /\ \A n \in r_db.files : n < r_db.manifest
      /\ r_db.log_number < r_db.manifest /\ r_db.log_number \in Nat
      /\ r_db.next_file \in Nat /\ r_db.manifest < r_db.next_file
  BY <1>3, WhileRecovering
<1>5. /\ r_db'.at = "install" /\ r_db'.described /\ r_db' \in DBRec
      /\ r_db'.step = r_db.step /\ r_db'.edit = r_db.edit
      /\ r_db'.mem = r_db.mem /\ r_db'.imm = r_db.imm /\ r_db'.log = r_db.log
      /\ r_db'.log_number = r_db.log_number /\ r_db'.files = r_db.files
      /\ r_db'.next_file = r_db.next_file /\ r_db'.manifest = r_db.manifest
      /\ r_db'.last_sequence = r_db.last_sequence /\ r_db'.bg_error = r_db.bg_error
  <2>1. r_db \in DBRec /\ "install" \in R!EditSteps
    BY <1>2 DEF DBTyped, R!EditSteps
  <2>2. PICK a \in R!EditSteps : a = "install"
    BY <2>1
  <2>3. r_db' = [r_db EXCEPT !.at = a, !.described = TRUE]
    BY <1>1, <2>2
  <2> QED
    BY <2>1, <2>2, <2>3 DEF DBRec
<1>6. /\ r_db.edit \in Pending
      /\ r_db.edit.add \subseteq Nat /\ r_db.edit.del \subseteq Nat /\ r_db.edit.log \in Nat
      /\ r_db.last_sequence \in Nat /\ r_db.files \subseteq Nat /\ r_db.log \in Nat
  <2>1. Editing
    BY <1>1 DEF Editing
  <2> QED
    BY <1>2, <2>1, DBFields
<1>7. /\ r_db.mem = {} /\ r_db.imm = {} /\ ~r_db.bg_error
      /\ \A w \in TablesOf(r_db.files) \cup TablesOf(r_db.edit.add) : w.seq <= r_db.last_sequence
  BY <1>1, <1>2, <1>3 DEF NothingYet
<1>8. /\ r_db.edit.log = r_db.log /\ r_db.edit.del = {} /\ r_logs[r_db.log].recs = <<>>
      /\ LogData(r_db.log_number) \subseteq TablesOf(r_db.edit.add)
      /\ \A n \in r_db.files \cup r_db.edit.add : n < r_db.log
      /\ r_db.manifest < r_db.log
  BY <1>1, <1>2, <1>3 DEF Replayed
<1>9. /\ r_db.manifest \in DOMAIN r_manifests
      /\ r_manifests[r_db.manifest].recs = <<R!Snapshot, EditOut>>
      /\ r_manifests[r_db.manifest].synced = 2
  BY <1>1, <1>2, <1>3 DEF ManifestWritten
<1>10. /\ r_db.log \in DOMAIN r_logs /\ r_db.log < r_db.next_file /\ \A n \in DOMAIN r_logs : n <= r_db.log
       /\ \A a \in r_acked : a.log <= r_db.log
  BY <1>2, <1>3 DEF LogInUse
<1>11. /\ r_db.files = LastVersion.files /\ r_db.log_number = LastVersion.log
       /\ \A n \in r_db.edit.add : n \in DOMAIN r_tables /\ r_db.manifest < n /\ n < r_db.next_file
  BY <1>2, <1>3 DEF Recovering
<1>12. PICK t : /\ t = LastVersion' /\ Survivors' = {t}
                /\ t.files = r_db.files \cup r_db.edit.add /\ t.log = r_db.log
                /\ t.next = r_db.next_file /\ t.seq = r_db.last_sequence
  <2>1. PICK s \in EditRec : s = R!Snapshot /\ s.add = r_db.files /\ s.del = {}
    <3>1. R!Snapshot \in EditRec
      BY <1>6 DEF EditRec, R!Snapshot, R!Edit
    <3>2. PICK s : s = R!Snapshot
      OBVIOUS
    <3>3. s.add = r_db.files /\ s.del = {}
      BY <3>2 DEF R!Snapshot, R!Edit
    <3> QED
      BY <3>1, <3>2, <3>3
  <2>2. PICK e \in EditRec : /\ e = EditOut /\ e.add = r_db.edit.add /\ e.del = {} /\ e.log = r_db.log
                             /\ e.next = r_db.next_file /\ e.seq = r_db.last_sequence
    <3>1. EditOut \in EditRec
      BY <1>4, <1>6 DEF EditRec, EditOut, R!Edit
    <3>2. PICK e : e = EditOut
      OBVIOUS
    <3>3. /\ e.add = r_db.edit.add /\ e.del = r_db.edit.del /\ e.log = r_db.edit.log
          /\ e.next = r_db.next_file /\ e.seq = r_db.last_sequence
      BY <3>2 DEF EditOut, R!Edit
    <3> QED
      BY <1>8, <3>1, <3>2, <3>3
  <2>3. PICK none \in Seq(EditRec) : none = <<>> /\ R!Apply(none).files = {}
    BY ApplyNothing
  <2>4. PICK one \in Seq(EditRec) : one = Append(none, s) /\ R!Apply(one).files = r_db.files
    <3>1. /\ Append(none, s) \in Seq(EditRec)
          /\ R!Apply(Append(none, s)).files = (R!Apply(none).files \ s.del) \cup s.add
      BY ApplyAppend
    <3> QED
      BY <2>1, <2>3, <3>1
  <2>5. PICK two \in Seq(EditRec) : two = Append(one, e)
    BY AppendProperties
  <2>6. Len(two) = 2
    <3>1. Len(none) = 0 /\ Len(one) = Len(none) + 1 /\ Len(two) = Len(one) + 1
      BY <2>3, <2>4, <2>5, EmptySeq, AppendProperties
    <3> QED
      BY <3>1
  <2>7. /\ R!Apply(two).files = (R!Apply(one).files \ e.del) \cup e.add
        /\ e.next # 0 => /\ R!Apply(two).log = e.log
                         /\ R!Apply(two).next = e.next
                         /\ R!Apply(two).seq = e.seq
    BY <2>5, ApplyAppend
  <2>8. <<s, e>> = two
    BY <2>3, <2>4, <2>5
  <2>9. Current' = two /\ r_manifests'[r_current'].synced = 2
    BY <1>1, <1>9, <2>1, <2>2, <2>8 DEF Current
  <2>10. r_current' # 0
    BY <1>1, <1>4
  <2>11. Survivors' = {R!Apply(SubSeq(two, 1, k)) : k \in 2..2}
    BY <2>6, <2>9, <2>10 DEF Survivors
  <2>12. SubSeq(two, 1, 2) = two /\ \A k \in 2..2 : k = 2
    BY <2>6, SubSeqFull
  <2>13. Survivors' = {R!Apply(two)} /\ LastVersion' = R!Apply(two)
    <3>1. LastVersion' = R!Apply(two)
      BY <2>9 DEF LastVersion
    <3>2. \A v : v \in Survivors' <=> \E k \in 2..2 : v = R!Apply(SubSeq(two, 1, k))
      BY <2>11
    <3>3. 2 \in 2..2
      OBVIOUS
    <3>4. \A v : v \in Survivors' <=> v = R!Apply(two)
      BY <2>12, <3>2, <3>3
    <3> QED
      BY <3>1, <3>4
  <2>14. e.next # 0
    BY <1>4, <2>2
  <2> QED
    BY <2>2, <2>4, <2>7, <2>13, <2>14
<1>13. /\ \A A : TablesOf(A)' = TablesOf(A)
       /\ \A from : LogData(from)' = LogData(from) /\ SyncedData(from)' = SyncedData(from)
       /\ \A v : Data(v)' = Data(v)
  BY <1>1, SameData
<1>14. Sound(LastVersion) /\ LastVersion \in Survivors
  BY <1>2, <1>4, LastIsSound
<1>15. TablesOf(t.files) = TablesOf(r_db.files) \cup TablesOf(r_db.edit.add)
  BY <1>12, TablesOfFacts
<1>16. Sound(t)'
  <2>1. t.files \subseteq DOMAIN r_tables'
    BY <1>1, <1>4, <1>11, <1>12
  <2>2. r_current' < t.next /\ t.log < t.next /\ t.next # 0
    BY <1>1, <1>4, <1>10, <1>12
  <2>3. \A n \in t.files : n < t.next
    BY <1>4, <1>6, <1>11, <1>12
  <2>4. \A w \in TablesOf(t.files) : w.seq <= t.seq
    BY <1>7, <1>12, <1>15
  <2>5. HasAcked(Data(t))
    <3>1. HasAcked(Data(LastVersion))
      BY <1>14 DEF Sound
    <3>2. Data(LastVersion) \subseteq Data(t)
      BY <1>8, <1>11, <1>15 DEF Data
    <3> QED
      BY <3>1, <3>2, MoreHas
  <2>6. HasSynced(TablesOf(t.files) \cup SyncedData(t.log))
    <3>1. HasSynced(TablesOf(r_db.files) \cup SyncedData(r_db.log_number))
      BY <1>11, <1>14 DEF Sound
    <3>2. SyncedData(r_db.log_number) \subseteq LogData(r_db.log_number)
      BY <1>2, LogDataTyped
    <3>3. TablesOf(r_db.files) \cup SyncedData(r_db.log_number) \subseteq TablesOf(t.files) \cup SyncedData(t.log)
      BY <1>8, <1>15, <3>2
    <3> QED
      BY <3>1, <3>3, MoreHas
  <2>7. \A a \in r_acked : a.log \in DOMAIN r_logs \/ a.log < t.log
    <3>1. \A a \in r_acked : a.log \in Nat
      BY DEF RecInv, RecTyped, GhostsTyped, AckRec
    <3> QED
      BY <1>6, <1>10, <1>12, <3>1
  <2>8. HasAcked(Data(t))' /\ HasSynced(TablesOf(t.files) \cup SyncedData(t.log))'
    <3>1. Data(t)' = Data(t) /\ TablesOf(t.files)' = TablesOf(t.files) /\ SyncedData(t.log)' = SyncedData(t.log)
      BY <1>13
    <3> QED
      BY <1>1, <2>5, <2>6, <3>1 DEF HasAcked, HasSynced, HasId
  <2>9. \A w \in TablesOf(t.files)' : w.seq <= t.seq
    BY <1>13, <2>4
  <2> QED
    BY <1>1, <2>1, <2>2, <2>3, <2>7, <2>8, <2>9 DEF Sound
<1>17. VersionsSound'
  <2>1. Agrees(t)'
    <3>1. Vis(Data(LastVersion))' = Vis(Data(t))'
      BY <1>12 DEF Vis, Data
    <3>2. t.next <= t.next
      BY <1>4, <1>12
    <3> QED
      BY <1>12, <3>1, <3>2 DEF Agrees
  <2> QED
    BY <1>12, <1>16, <2>1 DEF VersionsSound
<1>18. ManifestsTyped'
  BY <1>1, <1>2, <1>4, <1>9 DEF ManifestsTyped
<1>19. RecTyped'
  <2>1. DBTyped'
    BY <1>5, <1>6 DEF DBTyped
  <2> QED
    BY <1>1, <1>18, <2>1, SameData DEF RecInv, RecTyped
<1>20. RecIds'
  <2>1. MemIssued' /\ MemClosed'
    BY <1>1, <1>5 DEF RecInv, RecIds, MemIssued, MemClosed, Old, ClosedSet, HasId
  <2> QED
    BY <1>1, <2>1, SameData DEF RecInv, RecIds
<1>21. Unique'
  <2>1. LogData(t.log) = {}
    <3>1. LogData(r_db.log) = InUse
      BY <1>2, <1>10, LogDataLast
    <3>2. InUse = {}
      BY <1>8, ReadNothing DEF InUse
    <3> QED
      BY <1>12, <3>1, <3>2
  <2>2. TablesOf(t.files) \subseteq Alive
    <3>1. Added = r_db.edit.add
      BY <1>1 DEF Added, Editing
    <3> QED
      BY <1>15, <3>1 DEF Alive, InMemory
  <2>3. (UNION {Data(x) : x \in Survivors})' \subseteq Alive
    <3>1. (UNION {Data(x) : x \in Survivors})' = Data(t)'
      BY <1>12
    <3> QED
      BY <1>13, <2>1, <2>2, <3>1 DEF Data
  <2>4. TablesOf(Added)' = TablesOf(Added)
    <3>1. Added' = r_db.edit.add /\ Added = r_db.edit.add
      BY <1>1, <1>5 DEF Added, Editing
    <3> QED
      BY <1>13, <3>1
  <2>5. InMemory' = InMemory
    <3>1. TablesOf(r_db.files)' = TablesOf(r_db.files)
      BY <1>5, <1>13
    <3> QED
      BY <1>5, <3>1 DEF InMemory
  <2>6. Alive' \subseteq Alive
    BY <2>3, <2>4, <2>5 DEF Alive
  <2> QED
    BY <2>6, FewerAlive DEF RecInv
<1>22. Phase'
  BY <1>1, <1>3, <1>4, <1>5 DEF Phase
<1>23. /\ TablesOf(r_db.files)' = TablesOf(r_db.files) /\ TablesOf(r_db.edit.add)' = TablesOf(r_db.edit.add)
       /\ LogData(r_db.log_number)' = LogData(r_db.log_number)
  BY <1>5, <1>13
<1>24. NothingYet' /\ Replayed'
  <2>1. NothingYet'
    BY <1>5, <1>7, <1>23 DEF NothingYet
  <2>2. Replayed'
    BY <1>1, <1>5, <1>8, <1>23 DEF Replayed
  <2> QED
    BY <2>1, <2>2
<1>25. Recovering' /\ Replaying' /\ ManifestWritten' /\ Installed'
  BY <1>3, <1>5 DEF Recovering, Replaying, ManifestWritten, Installed
<1>26. LogInUse'
  <2>1. r_db'.next_file \in Nat /\ r_db.next_file <= r_db'.next_file
    BY <1>4, <1>5
  <2> QED
    BY <1>1, <1>2, <1>3, <1>5, <2>1, LogInUseStays
<1>27. TargetFiles' = t.files
  BY <1>5, <1>8, <1>12 DEF TargetFiles
<1>28. Describing'
  <2>1. IsTarget(t)'
    BY <1>5, <1>8, <1>12, <1>27 DEF IsTarget
  <2>2. r_db.log_number <= r_db.log /\ r_db.log <= r_db.log /\ r_db.next_file <= r_db.next_file
    BY <1>4, <1>6, <1>8
  <2> QED
    BY <1>1, <1>4, <1>5, <1>12, <2>1, <2>2 DEF Describing
<1>29. EditPending'
  <2>1. NumbersApart(TargetFiles, r_db.edit.log)'
    <3>1. \A n \in t.files : n < r_db.next_file /\ n # r_db.manifest /\ ~(n \in DOMAIN r_logs /\ n >= r_db.log)
      <4>1. TAKE n \in t.files
      <4>2. n \in Nat /\ n < r_db.log
        BY <1>6, <1>8, <1>12
      <4>3. n # r_db.manifest
        BY <1>4, <1>6, <1>11, <1>12
      <4> QED
        BY <1>4, <1>6, <1>10, <4>2, <4>3
    <3> QED
      BY <1>1, <1>5, <1>8, <1>27, <3>1 DEF NumbersApart
  <2> QED
    BY <1>1, <1>3, <1>5, <1>11, <2>1 DEF EditPending
<1>30. Found' = Found
  <2>1. Data(t) = Data(LastVersion)
    <3>1. LogData(t.log) = {}
      <4>1. LogData(r_db.log) = InUse
        BY <1>2, <1>10, LogDataLast
      <4>2. InUse = {}
        BY <1>8, ReadNothing DEF InUse
      <4> QED
        BY <1>12, <4>1, <4>2
    <3>2. LogData(r_db.log_number) = TablesOf(r_db.edit.add)
      BY <1>2, <1>3, <1>8 DEF Recovering
    <3>3. Data(t) = TablesOf(r_db.files) \cup TablesOf(r_db.edit.add)
      BY <1>15, <3>1 DEF Data
    <3> QED
      BY <1>11, <3>2, <3>3 DEF Data
  <2>2. PICK d : d = Data(LastVersion) /\ d = Data(t)
    BY <2>1
  <2>3. Data(LastVersion)' = Data(t)'
    BY <1>12 DEF Data
  <2>4. d = Data(LastVersion)'
    BY <1>13, <2>2, <2>3
  <2>5. Vis(Data(LastVersion))' = Vis(d)
    BY <1>1, <2>4 DEF Vis
  <2>6. r_current' # 0
    BY <1>1, <1>4
  <2> QED
    BY <1>4, <2>2, <2>5, <2>6 DEF Found
<1> QED
  BY <1>30, <1>17, <1>19, <1>20, <1>21, <1>22, <1>24, <1>25, <1>26, <1>28, <1>29 DEF RecInv,
     RecPhase

-----------------------------------------------------------------------------
(* The version that is installed, and what it makes obsolete.              *)

(* With the new version in memory nothing is lost, and nothing comes up    *)
(* that was not there.                                                     *)
LEMMA InstallKeeps == ASSUME RecInv, R!Install PROVE RecInv'
<1>1. /\ r_db.at = "install"
      /\ UNCHANGED <<r_logs, r_manifests, r_current, r_tables, r_acked, r_exposed, r_cut, r_issued>>
      /\ r_db' = [r_db EXCEPT !.files = TargetFiles,
                              !.imm = IF r_db.edit.log = r_db.log THEN {} ELSE @,
                              !.log_number = r_db.edit.log, !.edit = R!NoEdit, !.at = "collect"]
  BY DEF R!Install, R!disk, R!ghosts, TargetFiles
<1>2. /\ DBTyped /\ Phase /\ LogInUse /\ ManifestsTyped /\ VersionsSound /\ LogsTyped /\ TablesTyped
      /\ NothingYet /\ Replayed /\ Describing /\ Installed /\ EditPending
  BY DEF RecInv, RecTyped, RecPhase
<1>3. /\ r_db.step \in {"newlog", "open"} /\ r_current # 0 /\ r_db.described
      /\ r_db.described \in BOOLEAN
  BY <1>1, <1>2, Edits, DBFields DEF Phase
<1>4. /\ r_db.edit.add \subseteq Nat /\ r_db.edit.del \subseteq Nat /\ r_db.edit.log \in Nat
      /\ r_db.files \subseteq Nat /\ r_db.log \in Nat /\ r_db.imm \subseteq Rec
      /\ r_db.next_file \in Nat
  <2>1. Editing
    BY <1>1 DEF Editing
  <2> QED
    BY <1>2, <2>1, DBFields
<1>5. PICK imm2 \in SUBSET Rec : imm2 = IF r_db.edit.log = r_db.log THEN {} ELSE r_db.imm
  BY <1>4
<1>6. TargetFiles \subseteq Nat
  BY <1>4 DEF TargetFiles
<1>7. /\ r_db'.at = "collect" /\ r_db'.described /\ r_db' \in DBRec
      /\ r_db'.step = r_db.step
      /\ r_db'.mem = r_db.mem /\ r_db'.imm = imm2 /\ r_db'.log = r_db.log
      /\ r_db'.log_number = r_db.edit.log /\ r_db'.files = TargetFiles
      /\ r_db'.next_file = r_db.next_file /\ r_db'.manifest = r_db.manifest
      /\ r_db'.last_sequence = r_db.last_sequence /\ r_db'.bg_error = r_db.bg_error
  <2>1. r_db \in DBRec /\ "collect" \in R!EditSteps
    BY <1>2 DEF DBTyped, R!EditSteps
  <2>2. PICK a \in R!EditSteps : a = "collect"
    BY <2>1
  <2>3. PICK l \in Nat : l = r_db.edit.log
    BY <1>4
  <2>4. PICK f \in SUBSET Nat : f = TargetFiles
    BY <1>6
  <2>5. PICK e \in {R!NoEdit} \cup Pending : e = R!NoEdit
    OBVIOUS
  <2>6. r_db' = [r_db EXCEPT !.files = f, !.imm = imm2, !.log_number = l, !.edit = e, !.at = a]
    BY <1>1, <1>5, <2>1, <2>2, <2>3, <2>4, <2>5 DEF DBRec
  <2> QED
    BY <1>3, <2>1, <2>2, <2>3, <2>4, <2>6 DEF DBRec
<1>8. /\ VersionsSound' /\ Survivors' = Survivors /\ LastVersion' = LastVersion
  BY <1>1, <1>2, <1>3, VersionsStay
<1>9. /\ \A A : TablesOf(A)' = TablesOf(A)
      /\ \A from : LogData(from)' = LogData(from)
      /\ \A v : Data(v)' = Data(v)
      /\ \A X : Vis(X)' = Vis(X) /\ (HasAcked(X) => HasAcked(X)')
  BY <1>1, SameData
<1>10. PICK last : /\ last = LastVersion /\ last \in Survivors /\ Sound(last)
                   /\ last.files = TargetFiles /\ last.log = r_db.edit.log
  <2>1. LastVersion \in Survivors /\ Sound(LastVersion)
    BY <1>2, <1>3, LastIsSound
  <2> QED
    BY <1>1, <1>2, <1>3, <2>1 DEF Describing, IsTarget
<1>11. /\ r_db.log \in DOMAIN r_logs /\ \A n \in DOMAIN r_logs : n <= r_db.log
       /\ r_db.manifest = r_current /\ r_db.manifest < r_db.next_file
       /\ LastVersion.next <= r_db.next_file /\ r_db.edit.log <= r_db.log
       /\ \A v \in Survivors : v.log <= r_db.log /\ v.files = TargetFiles /\ v.log = r_db.edit.log
  BY <1>1, <1>2, <1>3, <1>10 DEF LogInUse, Describing, IsTarget
<1>12. /\ TablesOf(TargetFiles) \subseteq TablesOf(r_db.files) \cup TablesOf(r_db.edit.add)
       /\ r_db.edit.del = {} => TablesOf(TargetFiles) = TablesOf(r_db.files) \cup TablesOf(r_db.edit.add)
  BY DEF TargetFiles, TablesOf
<1>13. ASSUME r_db.step = "newlog"
       PROVE  /\ r_db.edit.log = r_db.log /\ InUse = {} /\ LogData(r_db.edit.log) = {}
              /\ r_db.mem = {} /\ r_db.imm = {} /\ ~r_db.bg_error
              /\ \A w \in TablesOf(TargetFiles) : w.seq <= r_db.last_sequence
  <2>1. r_db.edit.log = r_db.log /\ r_logs[r_db.log].recs = <<>>
    BY <1>1, <1>2, <1>13 DEF Replayed
  <2>2. InUse = {}
    BY <2>1, ReadNothing DEF InUse
  <2>3. LogData(r_db.log) = InUse
    BY <1>2, <1>11, LogDataLast
  <2> QED
    BY <1>1, <1>2, <1>12, <1>13, <2>1, <2>2, <2>3 DEF NothingYet
<1>14. ASSUME r_db.step = "open"
       PROVE  /\ \/ r_db.edit.log = r_db.log /\ r_db.edit.del = {} /\ TablesOf(r_db.edit.add) = r_db.imm
                 \/ r_db.edit.log = r_db.log_number /\ TablesOf(TargetFiles) = TablesOf(r_db.files)
              /\ r_db.imm = {} <=> r_db.log_number = r_db.log
              /\ Vis(r_db.mem) \subseteq InUse
              /\ r_db.bg_error \/ Vis(InUse) \subseteq r_db.mem
              /\ Vis(r_db.imm) = Vis(OlderLogs(r_db.log_number))
              /\ \A w \in Alive : w.seq <= r_db.last_sequence
              /\ HasAcked(InMemory)
  BY <1>1, <1>2, <1>3, <1>14 DEF EditPending, Installed
<1>15. RecTyped'
  <2>1. DBTyped'
    <3>1. r_db'.step # "logs"
      BY <1>3, <1>7
    <3> QED
      BY <1>7, <3>1 DEF DBTyped, Editing
  <2>2. ManifestsTyped'
    BY <1>1, <1>2 DEF ManifestsTyped
  <2> QED
    BY <1>1, <2>1, <2>2, SameData DEF RecInv, RecTyped
<1>16. RecIds'
  <2>1. Old(imm2) /\ ClosedSet(imm2)
    BY <1>5 DEF RecInv, RecIds, MemIssued, MemClosed, Old, ClosedSet, HasId
  <2>2. MemIssued' /\ MemClosed'
    BY <1>1, <1>7, <2>1 DEF RecInv, RecIds, MemIssued, MemClosed, Old, ClosedSet, HasId
  <2> QED
    BY <1>1, <2>2, SameData DEF RecInv, RecIds
<1>17. InMemory' = (r_db.mem \cup imm2) \cup TablesOf(TargetFiles)
  <2>1. TablesOf(r_db.files)' = TablesOf(TargetFiles)
    BY <1>7, <1>9
  <2> QED
    BY <1>7, <2>1 DEF InMemory
<1>18. (UNION {Data(x) : x \in Survivors})' = UNION {Data(x) : x \in Survivors} /\ TablesOf(Added)' = {}
  <2>1. Added' = {}
    BY <1>3, <1>7 DEF Added, Editing
  <2>2. TablesOf(Added)' = TablesOf({})
    BY <1>9, <2>1
  <2> QED
    BY <1>8, <1>9, <2>2, TablesOfFacts
<1>19. Alive' \subseteq Alive
  <2>1. Added = r_db.edit.add
    BY <1>1 DEF Added, Editing
  <2>2. TablesOf(TargetFiles) \subseteq Alive
    BY <1>12, <2>1 DEF Alive, InMemory
  <2>3. r_db.mem \cup imm2 \subseteq Alive
    BY <1>5 DEF Alive, InMemory
  <2> QED
    BY <1>17, <1>18, <2>2, <2>3, AliveOnDisk DEF Alive
<1>20. Unique'
  BY <1>19, FewerAlive DEF RecInv
<1>21. Phase'
  BY <1>1, <1>2, <1>3, <1>7 DEF Phase
<1>22. Recovering' /\ Replaying' /\ NothingYet' /\ Replayed' /\ ManifestWritten' /\ EditPending'
  BY <1>3, <1>7 DEF Recovering, Replaying, NothingYet, Replayed, ManifestWritten, EditPending
<1>23. LogInUse'
  <2>1. r_db'.next_file \in Nat /\ r_db.next_file <= r_db'.next_file
    BY <1>4, <1>7
  <2> QED
    BY <1>1, <1>2, <1>3, <1>7, <2>1, LogInUseStays
<1>24. Describing'
  <2>1. \A v \in Survivors : IsBase(v)'
    BY <1>7, <1>11 DEF IsBase
  <2> QED
    BY <1>1, <1>7, <1>8, <1>11, <2>1 DEF Describing
<1>25. Installed'
  <2>1. TargetFiles \subseteq DOMAIN r_tables
    BY <1>10 DEF Sound
  <2>2. NumbersApart(r_db.files, r_db.log_number)'
    <3>1. NumbersApart(TargetFiles, r_db.edit.log)
      BY <1>1, <1>2, <1>3 DEF EditPending
    <3> QED
      BY <1>1, <1>7, <3>1 DEF NumbersApart
  <2>3. imm2 = {} <=> r_db.edit.log = r_db.log
    BY <1>3, <1>5, <1>13, <1>14
  <2>4. Vis(r_db.mem) \subseteq InUse /\ (r_db.bg_error \/ Vis(InUse) \subseteq r_db.mem)
    <3>1. CASE r_db.step = "newlog"
      BY <1>13, <3>1 DEF Vis
    <3>2. CASE r_db.step = "open"
      BY <1>14, <3>2
    <3> QED
      BY <1>3, <3>1, <3>2
  <2>5. Vis(imm2) = Vis(OlderLogs(r_db.edit.log))
    <3>1. CASE r_db.edit.log = r_db.log
      <4>1. {m \in DOMAIN r_logs : r_db.log <= m /\ m < r_db.log} = {}
        BY <1>2, <1>4 DEF LogsTyped
      <4>2. OlderLogs(r_db.edit.log) = {}
        BY <3>1, <4>1 DEF OlderLogs
      <4> QED
        BY <1>5, <3>1, <4>2
    <3>2. CASE r_db.edit.log # r_db.log
      <4>1. r_db.step = "open" /\ imm2 = r_db.imm /\ r_db.edit.log = r_db.log_number
        BY <1>3, <1>5, <1>13, <1>14, <3>2
      <4> QED
        BY <1>14, <4>1
    <3> QED
      BY <3>1, <3>2
  <2>6. \A w \in Alive' : w.seq <= r_db.last_sequence
    <3>1. CASE r_db.step = "newlog"
      <4>1. \A v \in Survivors : Data(v) = TablesOf(TargetFiles)
        BY <1>11, <1>13, <3>1 DEF Data
      <4>2. imm2 = {} /\ r_db.mem = {}
        BY <1>5, <1>13, <3>1
      <4>3. Alive' \subseteq TablesOf(TargetFiles)
        BY <1>17, <1>18, <4>1, <4>2 DEF Alive
      <4> QED
        BY <1>13, <3>1, <4>3
    <3>2. CASE r_db.step = "open"
      BY <1>14, <1>19, <3>2
    <3> QED
      BY <1>3, <3>1, <3>2
  <2>7. HasAcked((r_db.mem \cup imm2) \cup TablesOf(TargetFiles))
    <3>1. CASE r_db.step = "newlog"
      <4>1. HasAcked(Data(last)) /\ Data(last) = TablesOf(TargetFiles)
        BY <1>10, <1>13, <3>1 DEF Sound, Data
      <4> QED
        BY <4>1, MoreHas
    <3>2. CASE r_db.step = "open"
      <4>1. InMemory \subseteq (r_db.mem \cup imm2) \cup TablesOf(TargetFiles)
        <5>1. CASE r_db.edit.log = r_db.log /\ r_db.edit.del = {} /\ TablesOf(r_db.edit.add) = r_db.imm
          BY <1>12, <5>1 DEF InMemory
        <5>2. CASE r_db.edit.log = r_db.log_number /\ TablesOf(TargetFiles) = TablesOf(r_db.files)
          <6>1. imm2 = r_db.imm
            BY <1>5, <1>14, <3>2, <5>2
          <6> QED
            BY <5>2, <6>1 DEF InMemory
        <5> QED
          BY <1>14, <3>2, <5>1, <5>2
      <4> QED
        BY <1>14, <3>2, <4>1, MoreHas
    <3> QED
      BY <1>3, <3>1, <3>2
  <2>8. HasAcked(InMemory)'
    BY <1>1, <1>17, <2>7 DEF HasAcked, HasId
  <2>9. /\ InUse' = InUse /\ OlderLogs(r_db.log_number)' = OlderLogs(r_db.edit.log)
    BY <1>1, <1>7 DEF InUse, OlderLogs
  <2>10. /\ Vis(r_db.mem)' = Vis(r_db.mem) /\ Vis(InUse)' = Vis(InUse) /\ Vis(r_db.imm)' = Vis(imm2)
         /\ Vis(OlderLogs(r_db.log_number))' = Vis(OlderLogs(r_db.edit.log))
    BY <1>1, <1>7, <2>9 DEF Vis
  <2>11. r_db'.files \subseteq DOMAIN r_tables'
    BY <1>1, <1>7, <2>1
  <2>12. /\ r_db'.imm = {} <=> r_db'.log_number = r_db'.log
    BY <1>7, <2>3
  <2>13. Vis(r_db.mem)' \subseteq InUse' /\ (r_db'.bg_error \/ Vis(InUse)' \subseteq r_db'.mem)
    BY <1>7, <2>4, <2>9, <2>10
  <2>14. Vis(r_db.imm)' = Vis(OlderLogs(r_db.log_number))'
    BY <2>5, <2>10
  <2>15. \A w \in Alive' : w.seq <= r_db'.last_sequence
    BY <1>7, <2>6
  <2> QED
    BY <2>2, <2>8, <2>11, <2>12, <2>13, <2>14, <2>15 DEF Installed
<1> QED
  BY <1>8, <1>15, <1>16, <1>20, <1>21, <1>22, <1>23, <1>24, <1>25 DEF RecInv, RecPhase

(* What is deleted is needed neither by the process nor by any version a   *)
(* crash may leave.                                                        *)
LEMMA DeleteObsoleteFilesKeeps == ASSUME RecInv, R!DeleteObsoleteFiles PROVE RecInv' /\ Found' = Found
<1>1. /\ r_db.at = "collect" /\ r_db' = [r_db EXCEPT !.at = "none", !.step = "open"]
      /\ UNCHANGED <<r_current, r_acked, r_exposed, r_cut, r_issued>>
  BY DEF R!DeleteObsoleteFiles, R!ghosts
<1>2. /\ DBTyped /\ Phase /\ LogInUse /\ ManifestsTyped /\ VersionsSound /\ LogsTyped /\ TablesTyped
      /\ Describing /\ Installed
      /\ LogsIssued /\ OwnLog /\ LogsClosed /\ TablesIssued /\ TablesClosed /\ MemIssued /\ MemClosed
  BY DEF RecInv, RecTyped, RecIds, RecPhase
<1>3. r_db.step \in {"newlog", "open"} /\ r_current # 0 /\ r_db.described
  BY <1>1, <1>2, Edits DEF Phase
<1>4. /\ r_db.log_number \in Nat /\ r_db.log \in Nat /\ r_db.files \subseteq Nat /\ r_db.next_file \in Nat
      /\ r_db.manifest \in Nat
  BY <1>2, DBFields
<1>5. /\ r_db.manifest = r_current /\ r_db.manifest < r_db.next_file
      /\ LastVersion.next <= r_db.next_file /\ r_db.log_number <= r_db.log
      /\ \A v \in Survivors : v.log <= r_db.log /\ v.files = r_db.files /\ v.log = r_db.log_number
  BY <1>1, <1>2, <1>3 DEF Describing, IsBase
<1>6. /\ r_db.files \subseteq DOMAIN r_tables
      /\ NumbersApart(r_db.files, r_db.log_number)
      /\ r_db.imm = {} <=> r_db.log_number = r_db.log
      /\ Vis(r_db.mem) \subseteq InUse
      /\ r_db.bg_error \/ Vis(InUse) \subseteq r_db.mem
      /\ Vis(r_db.imm) = Vis(OlderLogs(r_db.log_number))
      /\ \A w \in Alive : w.seq <= r_db.last_sequence
      /\ HasAcked(InMemory)
  BY <1>1, <1>2 DEF Installed
<1>7. /\ r_db'.at = "none" /\ r_db'.step = "open" /\ r_db' \in DBRec /\ r_db'.described
      /\ r_db'.mem = r_db.mem /\ r_db'.imm = r_db.imm /\ r_db'.log = r_db.log
      /\ r_db'.log_number = r_db.log_number /\ r_db'.files = r_db.files
      /\ r_db'.next_file = r_db.next_file /\ r_db'.manifest = r_db.manifest
      /\ r_db'.last_sequence = r_db.last_sequence /\ r_db'.bg_error = r_db.bg_error
  <2>1. r_db \in DBRec /\ "none" \in R!EditSteps /\ "open" \in R!Steps
    BY <1>2 DEF DBTyped, R!EditSteps, R!Steps
  <2>2. PICK a \in R!EditSteps, s \in R!Steps : a = "none" /\ s = "open"
    BY <2>1
  <2>3. r_db' = [r_db EXCEPT !.at = a, !.step = s]
    BY <1>1, <2>2
  <2> QED
    BY <1>3, <2>1, <2>2, <2>3 DEF DBRec
<1>8. /\ DOMAIN r_logs' \subseteq DOMAIN r_logs /\ \A n \in DOMAIN r_logs' : r_logs'[n] = r_logs[n]
      /\ \A n \in DOMAIN r_logs : n >= r_db.log_number => n \in DOMAIN r_logs'
      /\ LogsTyped' /\ LogsIssued' /\ OwnLog' /\ LogsClosed'
      /\ LogData(r_db.log_number)' = LogData(r_db.log_number)
      /\ SyncedData(r_db.log_number)' = SyncedData(r_db.log_number)
  <2>1. PICK f \in Nat : f = r_db.log_number /\ f = r_db'.log_number
    BY <1>4, <1>7
  <2>2. CASE r_db.bg_error
    <3>1. r_logs' = r_logs
      BY <2>2 DEF R!DeleteObsoleteFiles
    <3>2. /\ \A from : LogData(from)' = LogData(from) /\ SyncedData(from)' = SyncedData(from)
          /\ LogsTyped' /\ LogsIssued' /\ OwnLog' /\ LogsClosed'
      BY <1>1, <1>2, <3>1, LogsAlike
    <3> QED
      BY <2>1, <3>1, <3>2
  <2>3. CASE ~r_db.bg_error
    <3>1. r_logs' = R!Only(r_logs, {n \in DOMAIN r_logs : n >= f})
      BY <2>1, <2>3 DEF R!DeleteObsoleteFiles, R!KeepsLog
    <3>2. f <= f
      OBVIOUS
    <3> QED
      BY <1>1, <1>2, <2>1, <3>1, <3>2, DroppedLogs
  <2> QED
    BY <2>2, <2>3
<1>9. /\ TablesTyped' /\ TablesIssued' /\ TablesClosed' /\ r_db.files \subseteq DOMAIN r_tables'
      /\ TablesOf(r_db.files)' = TablesOf(r_db.files)
  <2>1. PICK f : f = r_db.files /\ f = r_db'.files
    BY <1>7
  <2>2. CASE r_db.bg_error
    <3>1. r_tables' = r_tables
      BY <2>2 DEF R!DeleteObsoleteFiles
    <3>2. TablesTyped' /\ TablesIssued' /\ TablesClosed' /\ TablesOf(f)' = TablesOf(f)
      BY <1>1, <1>2, <3>1, SameTables
    <3> QED
      BY <1>6, <2>1, <3>1, <3>2
  <2>3. CASE ~r_db.bg_error
    <3>1. r_tables' = R!Only(r_tables, f) /\ f \subseteq DOMAIN r_tables
      BY <1>6, <2>1, <2>3 DEF R!DeleteObsoleteFiles
    <3>2. /\ DOMAIN r_tables' = f /\ TablesOf(f)' = TablesOf(f)
          /\ TablesTyped' /\ TablesIssued' /\ TablesClosed'
      BY <1>1, <1>2, <3>1, DroppedTables
    <3> QED
      BY <2>1, <3>2
  <2> QED
    BY <2>2, <2>3
<1>10. ManifestsTyped' /\ r_manifests'[r_current] = r_manifests[r_current]
  <2>1. CASE r_db.bg_error
    <3>1. r_manifests' = r_manifests
      BY <2>1 DEF R!DeleteObsoleteFiles
    <3> QED
      BY <1>1, <1>2, <3>1 DEF ManifestsTyped
  <2>2. CASE ~r_db.bg_error
    <3>1. r_manifests' = R!Only(r_manifests, {n \in DOMAIN r_manifests : n >= r_db.manifest})
      BY <2>2 DEF R!DeleteObsoleteFiles, R!KeepsManifest
    <3>2. /\ DOMAIN r_manifests' = {n \in DOMAIN r_manifests : n >= r_db.manifest}
          /\ \A n \in DOMAIN r_manifests' : r_manifests'[n] = r_manifests[n]
      BY <3>1 DEF R!Only
    <3>3. r_current \in DOMAIN r_manifests'
      BY <1>2, <1>3, <1>4, <1>5, <3>2 DEF ManifestsTyped
    <3> QED
      BY <1>1, <1>2, <3>2, <3>3 DEF ManifestsTyped
  <2> QED
    BY <2>1, <2>2
<1>11. /\ VersionsSound' /\ Found' = Found /\ Survivors' = Survivors /\ LastVersion' = LastVersion
       /\ (UNION {Data(v) : v \in Survivors})' = UNION {Data(v) : v \in Survivors}
  <2>1. PICK f : f = r_db.files /\ f = r_db'.files
    BY <1>7
  <2>2. PICK l : l = r_db.log_number /\ l = r_db'.log_number
    BY <1>7
  <2>3. \A v \in Survivors :
           /\ v.files \subseteq DOMAIN r_tables' /\ TablesOf(v.files)' = TablesOf(v.files)
           /\ LogData(v.log)' = LogData(v.log) /\ SyncedData(v.log)' = SyncedData(v.log)
           /\ \A n \in DOMAIN r_logs : n \in DOMAIN r_logs' \/ n < v.log
    <3>1. TAKE v \in Survivors
    <3>2. v.files = f /\ v.log = l
      BY <1>5, <2>1, <2>2
    <3>3. TablesOf(f)' = TablesOf(f) /\ LogData(l)' = LogData(l) /\ SyncedData(l)' = SyncedData(l)
      BY <1>8, <1>9, <2>1, <2>2
    <3>4. \A n \in DOMAIN r_logs : n \in DOMAIN r_logs' \/ n < l
      BY <1>2, <1>4, <1>8, <2>2 DEF LogsTyped
    <3> QED
      BY <1>9, <2>1, <3>2, <3>3, <3>4
  <2> QED
    BY <1>1, <1>2, <1>3, <1>10, <2>3, VersionsKept
<1>12. RecTyped'
  <2>1. DBTyped'
    BY <1>7 DEF DBTyped, Editing
  <2> QED
    BY <1>1, <1>8, <1>9, <1>10, <2>1 DEF RecInv, RecTyped, GhostsTyped
<1>13. RecIds'
  <2>1. MemIssued' /\ MemClosed'
    BY <1>1, <1>2, <1>7 DEF MemIssued, MemClosed, Old, ClosedSet, HasId
  <2> QED
    BY <1>8, <1>9, <2>1 DEF RecIds
<1>14. InMemory' = InMemory
  BY <1>7, <1>9 DEF InMemory
<1>15. Alive' \subseteq Alive
  <2>1. Added' = {}
    BY <1>7 DEF Added, Editing
  <2>2. TablesOf(Added)' = {}
    BY <2>1 DEF TablesOf
  <2> QED
    BY <1>11, <1>14, <2>2 DEF Alive
<1>16. Unique'
  BY <1>15, FewerAlive DEF RecInv
<1>17. Phase'
  BY <1>1, <1>3, <1>7 DEF Phase
<1>18. Recovering' /\ Replaying' /\ NothingYet' /\ Replayed' /\ ManifestWritten' /\ EditPending'
  BY <1>7 DEF Recovering, Replaying, NothingYet, Replayed, ManifestWritten, EditPending
<1>19. r_db.log \in DOMAIN r_logs /\ \A n \in DOMAIN r_logs : n <= r_db.log
  BY <1>2, <1>3 DEF LogInUse
<1>20. r_db.log \in DOMAIN r_logs' /\ r_logs'[r_db.log] = r_logs[r_db.log]
  BY <1>4, <1>5, <1>8, <1>19
<1>21. LogInUse'
  <2>1. \A X, i : HasId(X, i)' <=> HasId(X, i)
    BY DEF HasId
  <2> QED
    BY <1>1, <1>2, <1>3, <1>7, <1>8, <1>20, <2>1 DEF LogInUse, HasId
<1>22. Describing'
  <2>1. \A v \in Survivors : IsBase(v)'
    BY <1>5, <1>7 DEF IsBase
  <2> QED
    BY <1>1, <1>5, <1>7, <1>11, <2>1 DEF Describing
<1>23. Installed'
  <2>1. InUse' = InUse
    BY <1>7, <1>20 DEF InUse
  <2>2. OlderLogs(r_db.log_number)' = OlderLogs(r_db.log_number)
    <3>1. PICK S : S = {m \in DOMAIN r_logs : r_db.log_number <= m /\ m < r_db.log}
      OBVIOUS
    <3>2. S = {m \in DOMAIN r_logs' : r_db.log_number <= m /\ m < r_db.log}
      <4>1. \A n \in DOMAIN r_logs : n \in Nat
        BY <1>2 DEF LogsTyped
      <4> QED
        BY <1>4, <1>8, <3>1, <4>1
    <3>3. \A n \in S : r_logs'[n] = r_logs[n]
      BY <1>8, <3>2
    <3> QED
      BY <1>7, <3>1, <3>2, <3>3 DEF OlderLogs
  <2>3. NumbersApart(r_db.files, r_db.log_number)'
    BY <1>6, <1>7, <1>8 DEF NumbersApart
  <2>4. /\ Vis(r_db.mem)' = Vis(r_db.mem) /\ Vis(r_db.imm)' = Vis(r_db.imm)
        /\ Vis(InUse)' = Vis(InUse)
        /\ Vis(OlderLogs(r_db.log_number))' = Vis(OlderLogs(r_db.log_number))
    BY <1>1, <1>7, <2>1, <2>2 DEF Vis
  <2>5. HasAcked(InMemory)'
    BY <1>1, <1>6, <1>14 DEF HasAcked, HasId
  <2>6. \A w \in Alive' : w.seq <= r_db'.last_sequence
    BY <1>6, <1>7, <1>15
  <2>7. r_db'.files \subseteq DOMAIN r_tables' /\ (r_db'.imm = {} <=> r_db'.log_number = r_db'.log)
    BY <1>6, <1>7, <1>9
  <2>8. Vis(r_db.mem)' \subseteq InUse' /\ (r_db'.bg_error \/ Vis(InUse)' \subseteq r_db'.mem)
    BY <1>6, <1>7, <2>1, <2>4
  <2>9. Vis(r_db.imm)' = Vis(OlderLogs(r_db.log_number))'
    BY <1>6, <2>4
  <2> QED
    BY <2>3, <2>5, <2>6, <2>7, <2>8, <2>9 DEF Installed
<1> QED
  BY <1>11, <1>12, <1>13, <1>16, <1>17, <1>18, <1>21, <1>22, <1>23 DEF RecInv, RecPhase

-----------------------------------------------------------------------------
(* The steps of an open database.                                          *)

(* What holds of an open database, in one place.                           *)
LEMMA WhileOpen ==
    ASSUME RecInv, r_db.step = "open"
    PROVE  /\ r_current # 0 /\ r_db.described /\ r_db.manifest = r_current
           /\ r_db.files \subseteq DOMAIN r_tables /\ NumbersApart(r_db.files, r_db.log_number)
           /\ r_db.imm = {} <=> r_db.log_number = r_db.log
           /\ Vis(r_db.mem) \subseteq InUse
           /\ r_db.bg_error \/ Vis(InUse) \subseteq r_db.mem
           /\ Vis(r_db.imm) = Vis(OlderLogs(r_db.log_number))
           /\ \A w \in Alive : w.seq <= r_db.last_sequence
           /\ HasAcked(InMemory)
           /\ r_db.log \in DOMAIN r_logs /\ r_db.log < r_db.next_file
           /\ \A n \in DOMAIN r_logs : n \in Nat /\ n <= r_db.log
           /\ \A a \in r_acked : a.log \in Nat /\ a.log <= r_db.log
           /\ r_db.log_number <= r_db.log
           /\ r_db.log_number \in Nat /\ r_db.log \in Nat /\ r_db.next_file \in Nat
           /\ r_db.manifest \in Nat /\ r_db.last_sequence \in Nat /\ r_db.files \subseteq Nat
           /\ \A v \in Survivors : /\ v.log \in Nat /\ v.log <= r_db.log
                                   /\ v.files \subseteq DOMAIN r_tables
<1>1. /\ DBTyped /\ Phase /\ LogInUse /\ ManifestsTyped /\ VersionsSound /\ LogsTyped
      /\ Describing /\ Installed
  BY DEF RecInv, RecTyped, RecIds, RecPhase
<1>2. r_current # 0 /\ r_db.described
  BY <1>1 DEF Phase
<1>3. r_db.manifest = r_current /\ r_db.log_number <= r_db.log /\ \A v \in Survivors : v.log <= r_db.log
  BY <1>1, <1>2 DEF Describing
<1>4. \A v \in Survivors : v.log \in Nat /\ v.files \subseteq DOMAIN r_tables
  BY <1>1, SurvivorFacts DEF VersionsSound, Sound
<1>5. /\ r_db.log \in DOMAIN r_logs /\ r_db.log < r_db.next_file
      /\ \A n \in DOMAIN r_logs : n \in Nat /\ n <= r_db.log
      /\ \A a \in r_acked : a.log <= r_db.log
  BY <1>1 DEF LogInUse, LogsTyped
<1>6. \A a \in r_acked : a.log \in Nat
  BY DEF RecInv, RecTyped, GhostsTyped, AckRec
<1> QED
  BY <1>1, <1>2, <1>3, <1>4, <1>5, <1>6, DBFields DEF Installed

(* The memtable that is full becomes the immutable one, and what its log   *)
(* holds is now in an older log.                                           *)
LEMMA SwitchMemTableKeeps == ASSUME RecInv, R!SwitchMemTable PROVE RecInv' /\ Found' = Found
<1>1. /\ r_db.step = "open" /\ ~r_db.bg_error /\ r_db.mem # {} /\ r_db.imm = {}
      /\ UNCHANGED <<r_manifests, r_current, r_tables, r_acked, r_exposed, r_cut, r_issued>>
      /\ r_logs' = R!With(r_logs, r_db.next_file, R!File(<<>>, 0))
  BY DEF R!SwitchMemTable, R!ghosts
<1>2. /\ DBTyped /\ Phase /\ LogInUse /\ ManifestsTyped /\ VersionsSound /\ LogsTyped /\ TablesTyped
      /\ LogsClosed /\ LogsIssued /\ TablesIssued /\ TablesClosed /\ OwnLog /\ MemIssued /\ MemClosed
      /\ Describing /\ Installed /\ EditPending
  BY DEF RecInv, RecTyped, RecIds, RecPhase
<1>3. /\ r_current # 0 /\ r_db.described /\ r_db.manifest = r_current
      /\ r_db.files \subseteq DOMAIN r_tables /\ NumbersApart(r_db.files, r_db.log_number)
      /\ r_db.log_number = r_db.log
      /\ Vis(r_db.mem) \subseteq InUse /\ Vis(InUse) \subseteq r_db.mem
      /\ \A w \in Alive : w.seq <= r_db.last_sequence
      /\ HasAcked(InMemory)
      /\ r_db.log \in DOMAIN r_logs /\ r_db.log < r_db.next_file
      /\ \A n \in DOMAIN r_logs : n \in Nat /\ n <= r_db.log
      /\ \A a \in r_acked : a.log \in Nat /\ a.log <= r_db.log
      /\ r_db.log_number \in Nat /\ r_db.log \in Nat /\ r_db.next_file \in Nat
      /\ r_db.manifest \in Nat /\ r_db.files \subseteq Nat
      /\ \A v \in Survivors : v.log \in Nat /\ v.log <= r_db.log /\ v.files \subseteq DOMAIN r_tables
  BY <1>1, WhileOpen
<1>4. PICK X \in Nat : X = r_db.next_file
  BY <1>3
<1>5. X \notin DOMAIN r_logs /\ r_logs' = R!With(r_logs, X, R!File(<<>>, 0)) /\ r_db.log < X
      /\ \A n \in DOMAIN r_logs : n < X
  BY <1>1, <1>3, <1>4
<1>6. /\ LogsTyped' /\ DOMAIN r_logs' = DOMAIN r_logs \cup {X}
      /\ \A n \in DOMAIN r_logs : r_logs'[n] = r_logs[n]
      /\ r_logs'[X].recs = <<>> /\ Read(r_logs'[X].recs) = {}
      /\ \A from : LogData(from)' = LogData(from) /\ SyncedData(from)' = SyncedData(from)
      /\ LogsIssued' /\ OwnLog' /\ LogsClosed'
  BY <1>1, <1>2, <1>5, EmptyLog
<1>7. PICK q : q = r_db'
  OBVIOUS
<1>8. q = [r_db EXCEPT !.imm = r_db.mem, !.mem = {}, !.log = X, !.next_file = X + 1]
  BY <1>4, <1>7 DEF R!SwitchMemTable
<1>9. /\ r_db' \in DBRec /\ r_db'.step = "open" /\ r_db'.at = r_db.at /\ ~r_db'.bg_error
      /\ r_db'.described /\ r_db'.imm = r_db.mem /\ r_db'.mem = {} /\ r_db'.log = X
      /\ r_db'.log_number = r_db.log_number /\ r_db'.files = r_db.files
      /\ r_db'.next_file = X + 1 /\ r_db'.manifest = r_db.manifest
      /\ r_db'.last_sequence = r_db.last_sequence /\ r_db'.edit = r_db.edit
  <2>1. r_db \in DBRec
    BY <1>2 DEF DBTyped
  <2>2. PICK y \in Nat, m \in SUBSET Rec, z \in SUBSET Rec : y = X + 1 /\ m = r_db.mem /\ z = {}
    <3>1. X + 1 \in Nat /\ r_db.mem \in SUBSET Rec /\ {} \in SUBSET Rec
      BY <1>2, DBFields
    <3> QED
      BY <3>1, Zenon
  <2>3. q = [r_db EXCEPT !.imm = m, !.mem = z, !.log = X, !.next_file = y]
    BY <1>8, <2>2
  <2>4. /\ q \in DBRec /\ q.step = r_db.step /\ q.at = r_db.at /\ q.bg_error = r_db.bg_error
        /\ q.described = r_db.described /\ q.imm = m /\ q.mem = z /\ q.log = X
        /\ q.log_number = r_db.log_number /\ q.files = r_db.files
        /\ q.next_file = y /\ q.manifest = r_db.manifest
        /\ q.last_sequence = r_db.last_sequence /\ q.edit = r_db.edit
    BY <2>1, <2>3 DEF DBRec
  <2> QED
    BY <1>1, <1>3, <1>7, <2>2, <2>4
<1>10. /\ \A A : TablesOf(A)' = TablesOf(A)
       /\ TablesTyped' /\ TablesIssued' /\ TablesClosed'
  BY <1>1, <1>2, SameTables
<1>11. /\ VersionsSound' /\ Found' = Found /\ Survivors' = Survivors /\ LastVersion' = LastVersion
       /\ (UNION {Data(v) : v \in Survivors})' = UNION {Data(v) : v \in Survivors}
  BY <1>1, <1>2, <1>3, <1>6, <1>10, VersionsKept
<1>12. RecTyped'
  <2>1. DBTyped'
    BY <1>2, <1>1, <1>9 DEF DBTyped, Editing
  <2> QED
    BY <1>1, <1>2, <1>6, <1>10, <2>1 DEF RecInv, RecTyped, ManifestsTyped, GhostsTyped
<1>13. RecIds'
  <2>1. MemIssued' /\ MemClosed'
    BY <1>1, <1>2, <1>9 DEF MemIssued, MemClosed, Old, ClosedSet, HasId
  <2> QED
    BY <1>6, <1>10, <2>1 DEF RecIds
<1>14. TablesOf(r_db.files)' = TablesOf(r_db.files) /\ InMemory' = InMemory
  <2>1. PICK f : f = r_db.files /\ f = r_db'.files
    BY <1>9
  <2>2. TablesOf(f)' = TablesOf(f)
    BY <1>10
  <2> QED
    BY <1>1, <1>9, <2>1, <2>2 DEF InMemory
<1>15. TargetFiles' = TargetFiles /\ Added' = Added /\ (Editing <=> Editing')
  BY <1>1, <1>9 DEF TargetFiles, Added, Editing
<1>16. Alive' = Alive
  <2>1. PICK f : f = Added /\ f = Added'
    BY <1>15
  <2>2. TablesOf(f)' = TablesOf(f)
    BY <1>10
  <2> QED
    BY <1>11, <1>14, <2>1, <2>2 DEF Alive
<1>17. Phase'
  BY <1>1, <1>2, <1>9 DEF Phase
<1>18. LogInUse'
  <2>1. \A n \in DOMAIN r_logs' : n <= X
    BY <1>3, <1>4, <1>5, <1>6
  <2>2. \A a \in r_acked : a.log <= X /\ a.log # X
    BY <1>3, <1>5
  <2> QED
    BY <1>1, <1>6, <1>9, <2>1, <2>2 DEF LogInUse
<1>19. Describing'
  <2>1. r_db.manifest < r_db.next_file /\ LastVersion.next <= r_db.next_file /\ LastVersion.next \in Nat
    BY <1>2, <1>3, LastIsSound DEF Describing
  <2>2. r_db.manifest < X + 1 /\ LastVersion.next <= X + 1 /\ r_db.log_number <= X
    BY <1>3, <1>4, <2>1
  <2>3. \A v \in Survivors : v.log <= X
    BY <1>3, <1>5
  <2>4. \A v : (IsBase(v) <=> IsBase(v)') /\ (IsTarget(v) <=> IsTarget(v)')
    BY <1>9, <1>15 DEF IsBase, IsTarget
  <2> QED
    BY <1>1, <1>2, <1>3, <1>9, <1>11, <2>2, <2>3, <2>4 DEF Describing
<1>20. ASSUME NEW files, NEW from, NumbersApart(files, from), files \subseteq Nat
       PROVE  /\ \A n \in files : n < X + 1 /\ n # r_db.manifest /\ ~(n \in DOMAIN r_logs' /\ n >= from)
              /\ r_db.manifest < from
  BY <1>4, <1>6, <1>20 DEF NumbersApart
<1>21. NumbersApart(r_db.files, r_db.log_number)'
  BY <1>3, <1>9, <1>20 DEF NumbersApart
<1>22. Installed'
  <2>1. InUse' = {}
    BY <1>6, <1>9 DEF InUse
  <2>2. PICK l \in Nat : l = r_db.log /\ l = r_db'.log_number
    BY <1>3, <1>9
  <2>3. OlderLogs(l)' = InUse
    <3>1. {m \in DOMAIN r_logs' : l <= m /\ m < X} = {l}
      BY <1>3, <1>5, <1>6, <2>2
    <3> QED
      BY <1>3, <1>6, <1>9, <2>2, <3>1 DEF OlderLogs, InUse
  <2>4. PICK i : i = r_db.mem /\ i = r_db'.imm
    BY <1>9
  <2>5. (Vis(r_db.imm) = Vis(OlderLogs(r_db.log_number)))'
    <3>1. Vis(i) = Vis(InUse)
      BY <1>3, <2>4 DEF Vis
    <3>2. PICK d : d = InUse /\ d = OlderLogs(l)'
      BY <2>3
    <3>3. Vis(i)' = Vis(d)'
      BY <1>1, <3>1, <3>2 DEF Vis
    <3> QED
      BY <2>2, <2>4, <3>2, <3>3
  <2>6. (Vis(r_db.mem) \subseteq InUse)' /\ (Vis(InUse) \subseteq r_db.mem)'
    BY <1>9, <2>1 DEF Vis
  <2>7. r_db'.imm # {} /\ r_db'.log_number # r_db'.log
    BY <1>1, <1>3, <1>5, <1>9
  <2>8. HasAcked(InMemory)'
    BY <1>1, <1>3, <1>14 DEF HasAcked
  <2>9. \A w \in Alive' : w.seq <= r_db'.last_sequence
    BY <1>3, <1>9, <1>16
  <2>10. r_db'.files \subseteq DOMAIN r_tables'
    BY <1>1, <1>3, <1>9
  <2> QED
    BY <1>21, <2>1, <2>5, <2>6, <2>7, <2>8, <2>9, <2>10 DEF Installed
<1>23. EditPending'
  <2>1. SUFFICES ASSUME r_db.at \in {"log", "sync", "install"}
                 PROVE  EditPending'
    BY <1>9 DEF EditPending
  <2>2. /\ r_db.edit.add \subseteq DOMAIN r_tables /\ \A n \in r_db.edit.add : n < r_db.next_file
        /\ NumbersApart(TargetFiles, r_db.edit.log)
        /\ r_db.edit.log = r_db.log_number /\ TablesOf(TargetFiles) = TablesOf(r_db.files)
    BY <1>1, <1>2, <1>3, <2>1 DEF EditPending
  <2>3. r_db.edit.add \subseteq Nat /\ TargetFiles \subseteq Nat
    <3>1. Editing
      BY <2>1 DEF Editing
    <3> QED
      BY <1>2, <1>3, <3>1, DBFields DEF TargetFiles
  <2>4. NumbersApart(TargetFiles, r_db.edit.log)'
    BY <1>9, <1>15, <1>20, <2>2, <2>3 DEF NumbersApart
  <2>5. \A n \in r_db.edit.add : n < X + 1
    BY <1>4, <2>2, <2>3
  <2>6. TablesOf(TargetFiles)' = TablesOf(r_db.files)'
    <3>1. PICK f, t : f = r_db.files /\ f = r_db'.files /\ t = TargetFiles /\ t = TargetFiles'
      BY <1>9, <1>15
    <3>2. TablesOf(t)' = TablesOf(t) /\ TablesOf(f)' = TablesOf(f)
      BY <1>10
    <3> QED
      BY <2>2, <3>1, <3>2
  <2> QED
    BY <1>1, <1>9, <2>2, <2>4, <2>5, <2>6 DEF EditPending
<1>24. Recovering' /\ Replaying' /\ NothingYet' /\ Replayed' /\ ManifestWritten'
  BY <1>9 DEF Recovering, Replaying, NothingYet, Replayed, ManifestWritten
<1>25. Unique'
  BY <1>16, FewerAlive DEF RecInv
<1> QED
  BY <1>11, <1>12, <1>13, <1>17, <1>18, <1>19, <1>22, <1>23, <1>24, <1>25 DEF RecInv, RecPhase

(* A new table is written, of the immutable memtable or of all tables, and *)
(* an edit begins that names it.                                           *)
LEMMA BeginEditKeeps ==
    ASSUME RecInv, r_db.step = "open", r_db.at = "none", ~r_db.bg_error,
           UNCHANGED <<r_logs, r_manifests, r_current, r_acked, r_exposed, r_cut, r_issued>>,
           NEW records, NEW del, NEW from,
           \/ records = r_db.imm /\ r_db.imm # {} /\ del = {} /\ from = r_db.log
           \/ records = TablesOf(r_db.files) /\ del = r_db.files /\ from = r_db.log_number,
           r_tables' = R!With(r_tables, r_db.next_file, records),
           r_db' = [r_db EXCEPT !.next_file = @ + 1, !.at = "log",
                                !.edit = R!NewEdit({r_db.next_file}, del, from)]
    PROVE  RecInv' /\ Found' = Found
<1>2. /\ DBTyped /\ Phase /\ LogInUse /\ ManifestsTyped /\ VersionsSound /\ LogsTyped /\ TablesTyped
      /\ LogsClosed /\ LogsIssued /\ TablesIssued /\ TablesClosed /\ OwnLog /\ MemIssued /\ MemClosed
      /\ Describing /\ Installed /\ EditPending
  BY DEF RecInv, RecTyped, RecIds, RecPhase
<1>3. /\ r_current # 0 /\ r_db.described /\ r_db.manifest = r_current
      /\ r_db.files \subseteq DOMAIN r_tables /\ NumbersApart(r_db.files, r_db.log_number)
      /\ \A n \in DOMAIN r_logs : n \in Nat /\ n <= r_db.log
      /\ r_db.log_number <= r_db.log /\ r_db.log < r_db.next_file
      /\ r_db.log_number \in Nat /\ r_db.log \in Nat /\ r_db.next_file \in Nat
      /\ r_db.manifest \in Nat /\ r_db.files \subseteq Nat
  BY WhileOpen
<1>4. PICK X \in Nat : X = r_db.next_file
  BY <1>3
<1>5. /\ X \notin DOMAIN r_logs /\ X \notin r_db.files /\ r_db.log < X
      /\ \A v \in Survivors : v.files = r_db.files /\ v.log = r_db.log_number
      /\ LastVersion.next \in Nat /\ LastVersion.next <= X /\ r_db.manifest < X
  <2>1. \A v \in Survivors : v.files = r_db.files /\ v.log = r_db.log_number
    BY <1>2, <1>3 DEF Describing, IsBase
  <2>2. LastVersion.next \in Nat /\ LastVersion.next <= X /\ r_db.manifest < X
    BY <1>2, <1>3, <1>4, LastIsSound DEF Describing
  <2>3. X \notin r_db.files
    BY <1>3, <1>4 DEF NumbersApart
  <2> QED
    BY <1>3, <1>4, <2>1, <2>2, <2>3
<1>6. r_tables' = R!With(r_tables, X, records)
  BY <1>4
<1>7. /\ from \in Nat /\ del \subseteq Nat /\ del \subseteq r_db.files /\ r_db.log_number <= from
      /\ records \subseteq InMemory /\ records \subseteq Rec /\ Old(records) /\ ClosedSet(records)
  <2>1. CASE records = r_db.imm /\ r_db.imm # {} /\ del = {} /\ from = r_db.log
    <3>1. records \subseteq Rec
      BY <1>2, <2>1, DBFields
    <3> QED
      BY <1>2, <1>3, <2>1, <3>1 DEF InMemory, MemIssued, MemClosed
  <2>2. CASE records = TablesOf(r_db.files) /\ del = r_db.files /\ from = r_db.log_number
    <3>1. records \subseteq Rec
      BY <1>2, <1>3, <2>2, TablesOfFacts
    <3>2. Old(records)
      BY <1>2, <1>3, <2>2, DataIssued
    <3>3. ClosedSet(records)
      <4>1. \A Y \in {r_tables[n] : n \in r_db.files} : ClosedSet(Y)
        BY <1>2, <1>3 DEF TablesClosed
      <4> QED
        BY <2>2, <4>1, ClosedUnion DEF TablesOf
    <3> QED
      BY <1>3, <2>2, <3>1, <3>2, <3>3 DEF InMemory
  <2> QED
    BY <2>1, <2>2
<1>8. /\ r_db' \in DBRec /\ r_db'.step = "open" /\ r_db'.at = "log" /\ ~r_db'.bg_error
      /\ r_db'.described /\ r_db'.imm = r_db.imm /\ r_db'.mem = r_db.mem /\ r_db'.log = r_db.log
      /\ r_db'.log_number = r_db.log_number /\ r_db'.files = r_db.files
      /\ r_db'.next_file = X + 1 /\ r_db'.manifest = r_db.manifest
      /\ r_db'.last_sequence = r_db.last_sequence
      /\ r_db'.edit \in Pending
      /\ r_db'.edit.add = {X} /\ r_db'.edit.del = del /\ r_db'.edit.log = from
  <2>1. r_db \in DBRec
    BY <1>2 DEF DBTyped
  <2>2. PICK e : e = [add |-> {X}, del |-> del, log |-> from]
    OBVIOUS
  <2>3. e \in Pending /\ e.add = {X} /\ e.del = del /\ e.log = from
    BY <1>7, <2>2 DEF Pending
  <2>4. PICK q : q = r_db'
    OBVIOUS
  <2>5. q = [r_db EXCEPT !.next_file = X + 1, !.at = "log", !.edit = e]
    BY <1>4, <2>1, <2>2, <2>4 DEF R!NewEdit
  <2>6. PICK y \in Nat, a \in R!EditSteps : y = X + 1 /\ a = "log"
    BY <1>4 DEF R!EditSteps
  <2>7. q = [r_db EXCEPT !.next_file = y, !.at = a, !.edit = e]
    BY <2>5, <2>6
  <2>8. e \in {R!NoEdit} \cup Pending
    BY <2>3
  <2>9. /\ q \in DBRec /\ q.step = r_db.step /\ q.at = a /\ q.bg_error = r_db.bg_error
        /\ q.described = r_db.described /\ q.imm = r_db.imm /\ q.mem = r_db.mem /\ q.log = r_db.log
        /\ q.log_number = r_db.log_number /\ q.files = r_db.files
        /\ q.next_file = y /\ q.manifest = r_db.manifest
        /\ q.last_sequence = r_db.last_sequence /\ q.edit = e
    BY <2>1, <2>7, <2>8 DEF DBRec
  <2> QED
    BY <1>3, <2>3, <2>4, <2>6, <2>9
<1>9. /\ DOMAIN r_tables' = DOMAIN r_tables \cup {X}
      /\ TablesOf(r_db.files)' = TablesOf(r_db.files)
      /\ TablesOf({X})' = records
      /\ TablesTyped' /\ TablesIssued' /\ TablesClosed'
  <2>1. PICK f : f = r_db.files /\ f = r_db'.files
    BY <1>8
  <2>2. /\ DOMAIN r_tables' = DOMAIN r_tables \cup {X}
        /\ \A A : A \subseteq DOMAIN r_tables /\ X \notin A => TablesOf(A)' = TablesOf(A)
        /\ TablesOf({X})' = records
        /\ TablesTyped' /\ TablesIssued' /\ TablesClosed'
    BY <1>2, <1>6, <1>7, NewTable
  <2> QED
    BY <1>3, <1>5, <2>1, <2>2
<1>10. /\ \A l : LogData(l)' = LogData(l) /\ SyncedData(l)' = SyncedData(l)
       /\ LogsTyped' /\ LogsIssued' /\ OwnLog' /\ LogsClosed'
  BY <1>2, LogsAlike
<1>11. /\ VersionsSound' /\ Found' = Found /\ Survivors' = Survivors /\ LastVersion' = LastVersion
       /\ (UNION {Data(v) : v \in Survivors})' = UNION {Data(v) : v \in Survivors}
  <2>1. \A v \in Survivors :
           /\ v.files \subseteq DOMAIN r_tables' /\ TablesOf(v.files)' = TablesOf(v.files)
           /\ LogData(v.log)' = LogData(v.log) /\ SyncedData(v.log) \subseteq SyncedData(v.log)'
           /\ \A n \in DOMAIN r_logs : n \in DOMAIN r_logs' \/ n < v.log
    <3>1. TAKE v \in Survivors
    <3>2. PICK f : f = r_db.files /\ f = r_db'.files
      BY <1>8
    <3>3. v.files = f /\ TablesOf(f)' = TablesOf(f)
      BY <1>5, <1>9, <3>2
    <3> QED
      BY <1>3, <1>9, <1>10, <3>2, <3>3
  <2> QED
    BY <1>2, <1>3, <2>1, VersionsKept
<1>12. RecTyped'
  <2>1. DBTyped'
    BY <1>8 DEF DBTyped
  <2> QED
    BY <1>2, <1>9, <1>10, <2>1 DEF RecInv, RecTyped, ManifestsTyped, GhostsTyped
<1>13. RecIds'
  <2>1. MemIssued' /\ MemClosed'
    BY <1>2, <1>8 DEF MemIssued, MemClosed, Old, ClosedSet, HasId
  <2> QED
    BY <1>9, <1>10, <2>1 DEF RecIds
<1>14. Alive' \subseteq Alive
  <2>1. InMemory' = InMemory
    BY <1>8, <1>9 DEF InMemory
  <2>2. Added' = {X}
    BY <1>8 DEF Added, Editing
  <2>3. TablesOf(Added)' = records
    <3>1. PICK f : f = {X}
      OBVIOUS
    <3>2. f = Added' /\ TablesOf(f)' = records
      BY <1>9, <2>2, <3>1
    <3> QED
      BY <3>2
  <2> QED
    BY <1>7, <1>11, <2>1, <2>3 DEF Alive
<1>15. Phase'
  BY <1>2, <1>8 DEF Phase
<1>16. X + 1 \in Nat /\ r_db.next_file <= X + 1
  BY <1>4
<1>17. LogInUse'
  BY <1>2, <1>8, <1>16, LogInUseStays
<1>18. Describing'
  <2>1. r_db.manifest < X + 1 /\ LastVersion.next <= X + 1
    BY <1>3, <1>5
  <2>2. \A v \in Survivors : v.log <= r_db.log /\ IsBase(v)'
    BY <1>3, <1>5, <1>8 DEF IsBase
  <2> QED
    BY <1>3, <1>8, <1>11, <2>1, <2>2 DEF Describing
<1>19. Installed'
  <2>1. r_db.files \subseteq DOMAIN r_tables'
    BY <1>3, <1>9
  <2> QED
    BY <1>2, <1>8, <1>9, <1>14, <1>16, <2>1, InstalledStays
<1>20. EditPending'
  <2>1. {X} \subseteq DOMAIN r_tables' /\ \A n \in {X} : n < X + 1
    BY <1>4, <1>9
  <2>2. TargetFiles' = (r_db.files \ del) \cup {X}
    BY <1>8 DEF TargetFiles
  <2>3. \A n \in (r_db.files \ del) \cup {X} :
           n < X + 1 /\ n # r_db.manifest /\ ~(n \in DOMAIN r_logs /\ n >= from)
    BY <1>3, <1>4, <1>5, <1>7 DEF NumbersApart
  <2>4. r_db.manifest < from
    BY <1>3, <1>7 DEF NumbersApart
  <2>5. NumbersApart(TargetFiles, r_db.edit.log)'
    BY <1>8, <2>2, <2>3, <2>4 DEF NumbersApart
  <2>6. \/ from = r_db.log /\ del = {} /\ r_db.imm # {} /\ TablesOf({X})' = r_db.imm
        \/ from = r_db.log_number /\ TablesOf(TargetFiles)' = TablesOf(r_db.files)'
    <3>1. CASE records = r_db.imm /\ r_db.imm # {} /\ del = {} /\ from = r_db.log
      BY <1>9, <3>1
    <3>2. CASE records = TablesOf(r_db.files) /\ del = r_db.files /\ from = r_db.log_number
      <4>1. TargetFiles' = {X}
        BY <2>2, <3>2
      <4>2. PICK t : t = {X}
        OBVIOUS
      <4>3. t = TargetFiles' /\ TablesOf(t)' = records
        BY <1>9, <4>1, <4>2
      <4> QED
        BY <1>9, <3>2, <4>3
    <3> QED
      BY <3>1, <3>2
  <2>7. TablesOf(r_db.edit.add)' = TablesOf({X})'
    <3>1. PICK f : f = {X}
      OBVIOUS
    <3>2. f = r_db'.edit.add
      BY <1>8, <3>1
    <3> QED
      BY <3>1, <3>2
  <2> QED
    BY <1>8, <2>1, <2>5, <2>6, <2>7 DEF EditPending
<1>21. Recovering' /\ Replaying' /\ NothingYet' /\ Replayed' /\ ManifestWritten'
  BY <1>8 DEF Recovering, Replaying, NothingYet, Replayed, ManifestWritten
<1>22. Unique'
  BY <1>14, FewerAlive DEF RecInv
<1> QED
  BY <1>11, <1>12, <1>13, <1>15, <1>17, <1>18, <1>19, <1>20, <1>21, <1>22 DEF RecInv, RecPhase

(* DBImpl::CompactMemTable: the table of the immutable memtable and its    *)
(* edit.                                                                   *)
LEMMA CompactMemTableKeeps == ASSUME RecInv, R!CompactMemTable PROVE RecInv' /\ Found' = Found
<1>1. /\ r_db.step = "open" /\ r_db.at = "none" /\ ~r_db.bg_error /\ r_db.imm # {}
      /\ UNCHANGED <<r_logs, r_manifests, r_current, r_acked, r_exposed, r_cut, r_issued>>
      /\ r_tables' = R!With(r_tables, r_db.next_file, r_db.imm)
      /\ r_db' = [r_db EXCEPT !.next_file = @ + 1, !.at = "log",
                              !.edit = R!NewEdit({r_db.next_file}, {}, r_db.log)]
  BY DEF R!CompactMemTable, R!ghosts
<1> QED
  BY <1>1, BeginEditKeeps

(* DBImpl::DoCompactionWork: one table for all that the version has, and   *)
(* its edit.                                                               *)
LEMMA CompactKeeps == ASSUME RecInv, R!Compact PROVE RecInv' /\ Found' = Found
<1>1. /\ r_db.step = "open" /\ r_db.at = "none" /\ ~r_db.bg_error
      /\ UNCHANGED <<r_logs, r_manifests, r_current, r_acked, r_exposed, r_cut, r_issued>>
      /\ r_tables' = R!With(r_tables, r_db.next_file, TablesOf(r_db.files))
      /\ r_db' = [r_db EXCEPT !.next_file = @ + 1, !.at = "log",
                              !.edit = R!NewEdit({r_db.next_file}, r_db.files, r_db.log_number)]
  BY DEF R!Compact, R!ghosts, TablesOf
<1> QED
  BY <1>1, BeginEditKeeps

-----------------------------------------------------------------------------
(* A write, or an attempt at one: what comes behind the log is a torn      *)
(* record or the write; new of it can be read; puts of it goes to the      *)
(* memtable; acks is the acknowledgement, if there is one; and hid is the  *)
(* id if it stands behind a failed append.                                 *)
HasRecord(recs, w) == \E i \in 1..Len(recs) : recs[i] = w
Grows(recs, more, w) ==
    /\ \A i \in 1..Len(recs) : more[i] = recs[i]
    /\ Len(more) = Len(recs) + 1 /\ more[Len(recs) + 1] \in {w, R!Torn}
Put(w, acks, puts, new, hid) ==
    /\ r_db.step = "open" /\ ~r_db.bg_error
    /\ UNCHANGED <<r_manifests, r_current, r_tables, r_cut>>
    /\ w \in Rec /\ w.id = r_issued + 1 /\ w.seq = r_db.last_sequence + 1
    /\ r_issued' = r_issued + 1
    /\ puts \subseteq {w} /\ new \subseteq {w}
    /\ acks \subseteq AckRec /\ r_acked' = r_acked \cup acks
    /\ \A a \in acks : a.id = w.id /\ a.log = r_db.log /\ puts = {w}
    /\ hid \subseteq {w.id} /\ r_exposed' = r_exposed \cup hid
    /\ hid = {} => puts \subseteq new
    /\ LogsTyped' /\ DOMAIN r_logs' = DOMAIN r_logs
    /\ \A n \in DOMAIN r_logs : n # r_db.log => r_logs'[n] = r_logs[n]
    /\ Grows(r_logs[r_db.log].recs, r_logs'[r_db.log].recs, w)
    /\ puts = {w} /\ hid = {} => HasRecord(r_logs'[r_db.log].recs, w)
    /\ Read(r_logs'[r_db.log].recs) = InUse \cup new
    /\ \A from : from <= r_db.log => LogData(from)' = LogData(from) \cup new
    /\ \A from : SyncedData(from) \subseteq SyncedData(from)'
    /\ \A from : from <= r_db.log =>
          \A a \in acks : a.sync /\ hid = {} => w \in SyncedData(from)'
    /\ r_db' \in DBRec /\ r_db'.step = "open" /\ r_db'.at = r_db.at /\ r_db'.edit = r_db.edit
    /\ r_db'.mem = r_db.mem \cup puts /\ r_db'.imm = r_db.imm /\ r_db'.log = r_db.log
    /\ r_db'.log_number = r_db.log_number /\ r_db'.files = r_db.files
    /\ r_db'.next_file = r_db.next_file /\ r_db'.manifest = r_db.manifest
    /\ r_db'.described = r_db.described /\ r_db'.last_sequence = w.seq
    /\ r_db'.bg_error \/ new \subseteq puts

(* What has only ids that were given out before is found, seen and closed  *)
(* as before.                                                              *)
LEMMA OldStays ==
    ASSUME RecInv, NEW w, NEW acks, NEW puts, NEW new, NEW hid, Put(w, acks, puts, new, hid),
           NEW X, X \subseteq Rec, Old(X)
    PROVE  /\ Old(X)' /\ Vis(X)' = Vis(X) /\ ~HasId(X, w.id)
           /\ ClosedSet(X) => ClosedSet(X)'
<1>1. /\ r_issued \in Nat /\ w.id = r_issued + 1 /\ r_issued' = r_issued + 1
      /\ hid \subseteq {w.id} /\ r_exposed' = r_exposed \cup hid
      /\ r_acked' = r_acked \cup acks /\ \A a \in acks : a.id = w.id
      /\ w \in Rec
  BY DEF RecInv, RecTyped, GhostsTyped, Put
<1>2. PICK k \in Nat : k = r_issued
  BY <1>1
<1>3. w.id = k + 1 /\ r_issued' = k + 1 /\ ~(k + 1 <= k)
  BY <1>1, <1>2
<1>4. \A i : i <= k => i # w.id
  BY <1>3
<1>5. \A b \in r_acked : b.id \in Nat
  BY DEF RecInv, RecTyped, GhostsTyped, AckRec
<1>6. \A b \in r_acked : b.id <= k
  BY <1>2 DEF RecInv, RecIds, LogsIssued
<1>7. \A y \in X : y.id # w.id
  BY <1>2, <1>4 DEF Old
<1>8. ASSUME ClosedSet(X), NEW a \in r_acked', NEW b \in r_acked', a.log = b.log, a.id < b.id,
             a.id \notin r_exposed, HasId(X, b.id)
      PROVE  HasId(X, a.id)
  <2>1. b \in r_acked
    BY <1>1, <1>7, <1>8 DEF HasId
  <2>2. a \in r_acked
    <3>1. b.id <= k /\ b.id \in Nat
      BY <1>5, <1>6, <2>1
    <3>2. a.id # k + 1
      BY <1>2, <1>8, <3>1
    <3> QED
      BY <1>1, <1>3, <3>2
  <2> QED
    BY <1>8, <2>1, <2>2 DEF ClosedSet
<1>9. ClosedSet(X) => ClosedSet(X)'
  BY <1>1, <1>8 DEF ClosedSet, HasId
<1>10. ~HasId(X, w.id)
  BY <1>7 DEF HasId
<1>11. Vis(X)' = Vis(X)
  BY <1>1, <1>7 DEF Vis
<1>12. \A i \in Nat : i <= k => i <= k + 1
  BY <1>2
<1>13. Old(X)'
  BY <1>2, <1>3, <1>12 DEF Old, Rec
<1> QED
  BY <1>9, <1>10, <1>11, <1>13

(* The numbers of a write that is put somewhere.                           *)
LEMMA PutFacts ==
    ASSUME RecInv, NEW w, NEW acks, NEW puts, NEW new, NEW hid, Put(w, acks, puts, new, hid)
    PROVE  /\ r_issued \in Nat /\ w \in Rec /\ w.id = r_issued + 1 /\ r_issued' = r_issued + 1
           /\ w.id \in Nat /\ w.id # 0 /\ R!Torn.id = 0 /\ r_db.last_sequence \in Nat
           /\ \A a \in acks : a.id = w.id /\ a.log = r_db.log /\ a \in AckRec
           /\ \A a \in r_acked : /\ a.id \in Nat \ {0} /\ a.id <= r_issued /\ a.id < w.id
                                 /\ a.log \in Nat
           /\ r_acked' = r_acked \cup acks
           /\ r_db.log \in DOMAIN r_logs /\ r_db.log \in Nat
           /\ \A n \in DOMAIN r_logs :
                /\ r_logs[n].recs \in Seq(Rec \cup {R!Torn}) /\ Len(r_logs[n].recs) \in Nat
                /\ \A i \in 1..Len(r_logs[n].recs) :
                      /\ r_logs[n].recs[i].id \in Nat
                      /\ r_logs[n].recs[i].id <= r_issued /\ r_logs[n].recs[i].id < w.id
<1>1. /\ r_issued \in Nat /\ w \in Rec /\ w.id = r_issued + 1 /\ r_issued' = r_issued + 1
      /\ \A a \in acks : a.id = w.id /\ a.log = r_db.log /\ a \in AckRec
      /\ r_acked' = r_acked \cup acks
  BY DEF RecInv, RecTyped, GhostsTyped, Put
<1>2. w.id \in Nat /\ w.id # 0 /\ R!Torn.id = 0
  BY <1>1 DEF R!Torn
<1>3. \A a \in r_acked : a.id \in Nat \ {0} /\ a.id <= r_issued /\ a.log \in Nat
  BY DEF RecInv, RecTyped, GhostsTyped, AckRec, RecIds, LogsIssued
<1>4. \A i \in Nat : i <= r_issued => i < w.id
  BY <1>1
<1>5. r_db.log \in DOMAIN r_logs /\ r_db.log \in Nat /\ r_db.last_sequence \in Nat
  BY WhileOpen DEF Put
<1>6. \A n \in DOMAIN r_logs :
         /\ r_logs[n].recs \in Seq(Rec \cup {R!Torn}) /\ Len(r_logs[n].recs) \in Nat
         /\ \A i \in 1..Len(r_logs[n].recs) :
               r_logs[n].recs[i].id \in Nat /\ r_logs[n].recs[i].id <= r_issued
  <2>1. TAKE n \in DOMAIN r_logs
  <2>2. r_logs[n].recs \in Seq(Rec \cup {R!Torn}) /\ Len(r_logs[n].recs) \in Nat
    BY LogTypes DEF RecInv, RecTyped
  <2>3. \A i \in 1..Len(r_logs[n].recs) : r_logs[n].recs[i].id <= r_issued
    BY DEF RecInv, RecIds, LogsIssued
  <2>4. \A i \in 1..Len(r_logs[n].recs) : r_logs[n].recs[i] \in Rec \cup {R!Torn}
    BY <2>2, ElementOfSeq
  <2>5. \A y \in Rec \cup {R!Torn} : y.id \in Nat
    BY <1>2 DEF Rec
  <2> QED
    BY <2>2, <2>3, <2>4, <2>5
<1>7. \A a \in r_acked : a.id < w.id
  BY <1>3, <1>4
<1>8. \A n \in DOMAIN r_logs : \A i \in 1..Len(r_logs[n].recs) : r_logs[n].recs[i].id < w.id
  BY <1>4, <1>6
<1> QED
  BY <1>1, <1>2, <1>3, <1>5, <1>6, <1>7, <1>8

(* The records of the logs afterwards: those before, and one that is the   *)
(* write or torn.                                                          *)
LEMMA PutRecords ==
    ASSUME RecInv, NEW w, NEW acks, NEW puts, NEW new, NEW hid, Put(w, acks, puts, new, hid),
           NEW n \in DOMAIN r_logs, NEW i \in 1..Len(r_logs'[n].recs)
    PROVE  \/ i \in 1..Len(r_logs[n].recs) /\ r_logs'[n].recs[i] = r_logs[n].recs[i]
           \/ /\ n = r_db.log /\ i = Len(r_logs[n].recs) + 1
              /\ r_logs'[n].recs[i] \in {w, R!Torn}
<1>1. Len(r_logs[n].recs) \in Nat
  BY PutFacts
<1>2. CASE n # r_db.log
  BY <1>2 DEF Put
<1>3. CASE n = r_db.log
  <2>1. PICK recs, more : recs = r_logs[n].recs /\ more = r_logs'[n].recs
    OBVIOUS
  <2>2. Grows(recs, more, w) /\ Len(recs) \in Nat /\ i \in 1..Len(more)
    BY <1>1, <1>3, <2>1 DEF Put
  <2>3. \/ i \in 1..Len(recs) /\ more[i] = recs[i]
        \/ i = Len(recs) + 1 /\ more[i] \in {w, R!Torn}
    BY <2>2 DEF Grows
  <2> QED
    BY <1>3, <2>1, <2>3
<1> QED
  BY <1>2, <1>3

(* The database with a record put into it is typed.                        *)
LEMMA PutTyped ==
    ASSUME RecInv, NEW w, NEW acks, NEW puts, NEW new, NEW hid, Put(w, acks, puts, new, hid)
    PROVE  RecTyped'
<1>1. /\ ManifestsTyped /\ TablesTyped /\ GhostsTyped /\ DBTyped
      /\ UNCHANGED <<r_manifests, r_current, r_tables, r_cut>> /\ LogsTyped'
  BY DEF RecInv, RecTyped, Put
<1>2. ManifestsTyped' /\ TablesTyped'
  BY <1>1 DEF ManifestsTyped, TablesTyped
<1>3. GhostsTyped'
  <2>1. r_issued' \in Nat
    BY PutFacts
  <2>2. hid \subseteq {w.id} /\ r_exposed' = r_exposed \cup hid
    BY DEF Put
  <2>3. w.id \in Nat /\ acks \subseteq AckRec /\ r_acked' = r_acked \cup acks
    BY PutFacts
  <2> QED
    BY <1>1, <2>1, <2>2, <2>3 DEF GhostsTyped
<1>4. DBTyped'
  BY <1>1 DEF Put, DBTyped, Editing
<1> QED
  BY <1>1, <1>2, <1>3, <1>4 DEF RecTyped

(* The id is new everywhere, and the log is closed with it: the earlier    *)
(* writes of the log stand in front.                                       *)
LEMMA PutIds ==
    ASSUME RecInv, NEW w, NEW acks, NEW puts, NEW new, NEW hid, Put(w, acks, puts, new, hid)
    PROVE  RecIds'
<1>1. /\ LogsIssued /\ TablesIssued /\ MemIssued /\ OwnLog /\ TablesTyped /\ DBTyped
      /\ LogsClosed /\ TablesClosed /\ MemClosed /\ LogInUse
  BY DEF RecInv, RecTyped, RecIds, RecPhase
<1>2. /\ r_db.step = "open" /\ UNCHANGED <<r_manifests, r_current, r_tables, r_cut>>
      /\ puts \subseteq {w} /\ r_db'.mem = r_db.mem \cup puts /\ r_db'.imm = r_db.imm
      /\ DOMAIN r_logs' = DOMAIN r_logs /\ hid \subseteq {w.id} /\ r_exposed' = r_exposed \cup hid
  BY DEF Put
<1>3. /\ r_issued \in Nat /\ w \in Rec /\ w.id = r_issued + 1 /\ r_issued' = r_issued + 1
      /\ w.id \in Nat /\ w.id # 0 /\ R!Torn.id = 0
      /\ \A a \in acks : a.id = w.id /\ a.log = r_db.log /\ a \in AckRec
      /\ \A a \in r_acked : a.id \in Nat \ {0} /\ a.id <= r_issued /\ a.id < w.id /\ a.log \in Nat
      /\ r_acked' = r_acked \cup acks
      /\ r_db.log \in DOMAIN r_logs /\ r_db.log \in Nat
      /\ \A n \in DOMAIN r_logs :
           /\ Len(r_logs[n].recs) \in Nat
           /\ \A i \in 1..Len(r_logs[n].recs) :
                 /\ r_logs[n].recs[i].id \in Nat
                 /\ r_logs[n].recs[i].id <= r_issued /\ r_logs[n].recs[i].id < w.id
  BY PutFacts
<1>4. LogsIssued'
  <2>1. \A n \in DOMAIN r_logs : \A i \in 1..Len(r_logs'[n].recs) : r_logs'[n].recs[i].id <= r_issued + 1
    <3>1. TAKE n \in DOMAIN r_logs
    <3>2. TAKE i \in 1..Len(r_logs'[n].recs)
    <3>3. CASE i \in 1..Len(r_logs[n].recs) /\ r_logs'[n].recs[i] = r_logs[n].recs[i]
      BY <1>3, <3>3
    <3>4. CASE r_logs'[n].recs[i] \in {w, R!Torn}
      BY <1>3, <3>4
    <3> QED
      BY <3>3, <3>4, PutRecords
  <2>2. \A a \in r_acked \cup acks : a.id <= r_issued + 1
    BY <1>3
  <2>3. \A i \in r_exposed \cup hid : i <= r_issued + 1
    BY <1>1, <1>2, <1>3 DEF LogsIssued, RecInv, RecTyped, GhostsTyped
  <2> QED
    BY <1>2, <1>3, <2>1, <2>2, <2>3 DEF LogsIssued
<1>5. OwnLog'
  <2>1. SUFFICES ASSUME NEW a \in r_acked', NEW n \in DOMAIN r_logs, NEW i \in 1..Len(r_logs'[n].recs),
                        r_logs'[n].recs[i].id = a.id
                 PROVE  n = a.log
    BY <1>2 DEF OwnLog
  <2>2. CASE i \in 1..Len(r_logs[n].recs) /\ r_logs'[n].recs[i] = r_logs[n].recs[i]
    <3>1. a \in r_acked
      BY <1>3, <2>1, <2>2
    <3> QED
      BY <1>1, <2>1, <2>2, <3>1 DEF OwnLog
  <2>3. CASE n = r_db.log /\ r_logs'[n].recs[i] \in {w, R!Torn}
    <3>1. a.id # 0
      BY <1>3
    <3>2. a.id = w.id
      BY <1>3, <2>1, <2>3, <3>1
    <3>3. a \in acks
      BY <1>3, <3>2
    <3> QED
      BY <1>3, <2>3, <3>3
  <2> QED
    BY <2>2, <2>3, PutRecords
<1>6. LogsClosed'
  <2>1. SUFFICES ASSUME NEW n \in DOMAIN r_logs, NEW i \in 1..Len(r_logs'[n].recs),
                        NEW a \in r_acked', NEW b \in r_acked', Whole(r_logs'[n].recs, i),
                        r_logs'[n].recs[i].id = b.id, a.log = b.log, a.id < b.id,
                        a.id \notin r_exposed
                 PROVE  \E j \in 1..i : r_logs'[n].recs[j].id = a.id
    BY <1>2 DEF LogsClosed, LogClosed, Whole
  <2>2. a \in r_acked
    <3>1. b.id <= w.id /\ b.id \in Nat
      BY <1>3
    <3>2. a.id # w.id
      BY <1>3, <2>1, <3>1
    <3> QED
      BY <1>3, <3>2
  <2>3. PICK L \in Nat : L = Len(r_logs[n].recs)
    BY <1>3
  <2>4. \A j \in 1..L : r_logs'[n].recs[j] = r_logs[n].recs[j]
    BY <2>3 DEF Put, Grows
  <2>5. CASE i \in 1..Len(r_logs[n].recs) /\ r_logs'[n].recs[i] = r_logs[n].recs[i]
    <3>1. b \in r_acked
      BY <1>3, <2>1, <2>5
    <3>2. \A j \in 1..i : j \in 1..L
      BY <2>3, <2>5
    <3>3. Whole(r_logs[n].recs, i)
      BY <2>1, <2>5 DEF Whole
    <3>4. PICK j \in 1..i : r_logs[n].recs[j].id = a.id
      BY <1>1, <2>1, <2>2, <2>5, <3>1, <3>3 DEF LogsClosed, LogClosed
    <3> QED
      BY <2>4, <3>2, <3>4
  <2>6. CASE n = r_db.log /\ i = Len(r_logs[n].recs) + 1 /\ r_logs'[n].recs[i] \in {w, R!Torn}
    <3>1. b \in acks
      <4>1. r_logs'[n].recs[i] = w
        BY <2>1, <2>6 DEF Whole
      <4>2. b.id = w.id
        BY <2>1, <4>1
      <4> QED
        BY <1>3, <4>2
    <3>2. PICK j \in 1..Len(r_logs[n].recs) : r_logs[n].recs[j].id = a.id
      BY <1>1, <1>2, <1>3, <2>1, <2>2, <2>6, <3>1 DEF LogInUse
    <3>3. j \in 1..L /\ j \in 1..i
      BY <2>3, <2>6, <3>2
    <3> QED
      BY <2>4, <3>2, <3>3
  <2> QED
    BY <2>5, <2>6, PutRecords
<1>7. TablesIssued' /\ TablesClosed'
  <2>1. \A n \in DOMAIN r_tables : r_tables[n] \subseteq Rec /\ Old(r_tables[n]) /\ ClosedSet(r_tables[n])
    BY <1>1 DEF TablesTyped, TablesIssued, TablesClosed
  <2>2. ASSUME NEW n \in DOMAIN r_tables, NEW X, X = r_tables[n]
        PROVE  Old(X)' /\ ClosedSet(X)'
    BY <2>1, <2>2, OldStays
  <2>3. ASSUME NEW n \in DOMAIN r_tables
        PROVE  (Old(r_tables[n]) /\ ClosedSet(r_tables[n]))'
    <3>1. PICK X : X = r_tables[n] /\ X = r_tables'[n]
      BY <1>2
    <3> QED
      BY <2>2, <3>1
  <2> QED
    BY <1>2, <2>3 DEF TablesIssued, TablesClosed
<1>8. MemIssued' /\ MemClosed'
  <2>1. PICK m, i, m2 : m = r_db.mem /\ i = r_db.imm /\ i = r_db'.imm /\ m2 = r_db'.mem /\ m2 = m \cup puts
    BY <1>2
  <2>2. m \subseteq Rec /\ i \subseteq Rec /\ Old(m) /\ Old(i) /\ ClosedSet(m) /\ ClosedSet(i)
    BY <1>1, <2>1, DBFields DEF MemIssued, MemClosed
  <2>3. Old(i)' /\ ClosedSet(i)' /\ Old(m)' /\ ClosedSet(m)'
    BY <2>2, OldStays
  <2>4. Old(m2)'
    BY <1>2, <1>3, <2>1, <2>3 DEF Old
  <2>5. ClosedSet(m2)'
    <3>1. SUFFICES ASSUME NEW a \in r_acked', NEW b \in r_acked', a.log = b.log, a.id < b.id,
                          a.id \notin r_exposed', HasId(m2, b.id)
                   PROVE  HasId(m2, a.id)
      BY DEF ClosedSet, HasId
    <3>2. CASE HasId(m, b.id)
      <4>1. HasId(m, a.id)
        BY <2>3, <3>1, <3>2 DEF ClosedSet, HasId
      <4> QED
        BY <2>1, <4>1 DEF HasId
    <3>3. CASE b.id = w.id
      <4>1. b \in acks /\ a \in r_acked
        BY <1>3, <3>1, <3>3
      <4>2. HasId(m, a.id)
        BY <1>1, <1>2, <1>3, <2>1, <3>1, <4>1 DEF LogInUse
      <4> QED
        BY <2>1, <4>2 DEF HasId
    <3> QED
      BY <1>2, <2>1, <3>1, <3>2, <3>3 DEF HasId
  <2> QED
    BY <2>1, <2>3, <2>4, <2>5 DEF MemIssued, MemClosed
<1> QED
  BY <1>4, <1>5, <1>6, <1>7, <1>8 DEF RecIds

(* Every version a crash may leave has the write, if it can be read.       *)
LEMMA PutVersions ==
    ASSUME RecInv, NEW w, NEW acks, NEW puts, NEW new, NEW hid, Put(w, acks, puts, new, hid)
    PROVE  /\ VersionsSound' /\ Survivors' = Survivors /\ LastVersion' = LastVersion
           /\ \A v \in Survivors : Data(v)' = Data(v) \cup new
<1>1. /\ ManifestsTyped /\ TablesTyped /\ LogsTyped /\ DBTyped /\ VersionsSound
      /\ LogsIssued /\ TablesIssued
  BY DEF RecInv, RecTyped, RecIds, RecPhase
<1>2. /\ r_db.step = "open" /\ UNCHANGED <<r_manifests, r_current, r_tables, r_cut>>
      /\ puts \subseteq {w} /\ new \subseteq {w}
      /\ DOMAIN r_logs' = DOMAIN r_logs /\ hid \subseteq {w.id} /\ r_exposed' = r_exposed \cup hid
      /\ r_acked' = r_acked \cup acks /\ \A a \in acks : a.id = w.id /\ a.log = r_db.log /\ puts = {w}
      /\ hid = {} => puts \subseteq new
      /\ \A from : from <= r_db.log => LogData(from)' = LogData(from) \cup new
      /\ \A from : SyncedData(from) \subseteq SyncedData(from)'
      /\ \A from : from <= r_db.log => \A a \in acks : a.sync /\ hid = {} => w \in SyncedData(from)'
  BY DEF Put
<1>3. /\ r_current # 0 /\ r_db.log \in DOMAIN r_logs
      /\ \A v \in Survivors : /\ v.log \in Nat /\ v.log <= r_db.log
                              /\ v.files \subseteq DOMAIN r_tables
  BY <1>2, WhileOpen
<1>4. Survivors' = Survivors /\ LastVersion' = LastVersion
  BY <1>2, <1>3, SameSurvivors
<1>5. \A A : TablesOf(A)' = TablesOf(A)
  BY <1>2 DEF TablesOf
<1>6. LastVersion \in Survivors
  BY <1>1, <1>3, SurvivorFacts
<1>7. ASSUME NEW v \in Survivors
      PROVE  /\ Data(v)' = Data(v) \cup new
             /\ Vis(Data(v))' = Vis(Data(v)) \cup Vis(new)'
             /\ Sound(v)'
  <2>1. Sound(v)
    BY <1>1 DEF VersionsSound
  <2>2. Data(v)' = Data(v) \cup new
    BY <1>2, <1>3, <1>5 DEF Data
  <2>3. PICK D : D = Data(v)
    OBVIOUS
  <2>4. D \subseteq Rec /\ Old(D)
    <3>1. TablesOf(v.files) \subseteq Rec /\ LogData(v.log) \subseteq Rec
      BY <1>1, <1>3, TablesOfFacts, LogDataTyped
    <3>2. Old(LogData(v.log)) /\ Old(TablesOf(v.files))
      BY <1>1, <1>3, DataIssued
    <3> QED
      BY <2>3, <3>1, <3>2 DEF Data, Old
  <2>5. Vis(D)' = Vis(D)
    BY <2>4, OldStays
  <2>6. PICK E : E = Data(v)' /\ E = D \cup new
    BY <2>2, <2>3
  <2>7. Vis(E)' = Vis(D) \cup Vis(new)'
    BY <2>5, <2>6 DEF Vis
  <2>8. HasAcked(Data(v))'
    <3>1. \A a \in r_acked : a.id \notin r_cut \cup r_exposed => HasId(D, a.id)
      BY <2>1, <2>3 DEF Sound, HasAcked
    <3>2. ASSUME NEW a \in r_acked \cup acks, a.id \notin r_cut \cup (r_exposed \cup hid)
          PROVE  HasId(E, a.id)
      <4>1. CASE a \in r_acked
        BY <2>6, <3>1, <3>2, <4>1 DEF HasId
      <4>2. CASE a \in acks
        <5>1. a.id = w.id /\ puts = {w}
          BY <1>2, <4>2
        <5>2. hid = {}
          BY <1>2, <3>2, <5>1
        <5> QED
          BY <1>2, <2>6, <5>1, <5>2 DEF HasId
      <4> QED
        BY <4>1, <4>2
    <3> QED
      BY <1>2, <2>6, <3>2 DEF HasAcked, HasId
  <2>9. HasSynced(TablesOf(v.files) \cup SyncedData(v.log))'
    <3>1. PICK T, S, F : /\ T = TablesOf(v.files) \cup SyncedData(v.log) /\ S = SyncedData(v.log)'
                         /\ F = (TablesOf(v.files) \cup SyncedData(v.log))'
      OBVIOUS
    <3>2. T \subseteq F /\ S \subseteq F
      BY <1>2, <1>5, <3>1
    <3>3. \A a \in r_acked : a.sync /\ a.id \notin r_exposed => HasId(T, a.id)
      BY <2>1, <3>1 DEF Sound, HasSynced
    <3>4. ASSUME NEW a \in r_acked \cup acks, a.sync /\ a.id \notin r_exposed \cup hid
          PROVE  HasId(F, a.id)
      <4>1. CASE a \in r_acked
        BY <3>2, <3>3, <3>4, <4>1 DEF HasId
      <4>2. CASE a \in acks
        <5>1. a.id = w.id
          BY <1>2, <4>2
        <5>2. hid = {}
          BY <1>2, <3>4, <5>1
        <5>3. w \in S
          BY <1>2, <1>3, <3>1, <3>4, <4>2, <5>2
        <5> QED
          BY <3>2, <5>1, <5>3 DEF HasId
      <4> QED
        BY <4>1, <4>2
    <3> QED
      BY <1>2, <3>1, <3>4 DEF HasSynced, HasId
  <2>10. \A a \in r_acked' : a.log \in DOMAIN r_logs' \/ a.log < v.log
    BY <1>2, <1>3, <2>1 DEF Sound
  <2>11. \A y \in TablesOf(v.files)' : y.seq <= v.seq
    BY <1>5, <2>1 DEF Sound
  <2>12. Sound(v)'
    BY <1>2, <2>1, <2>8, <2>9, <2>10, <2>11 DEF Sound
  <2> QED
    BY <2>2, <2>3, <2>6, <2>7, <2>12
<1>8. ASSUME NEW v \in Survivors
      PROVE  Agrees(v)'
  <2>1. v.next <= LastVersion.next /\ Vis(Data(v)) = Vis(Data(LastVersion))
    BY <1>1 DEF VersionsSound, Agrees
  <2>2. PICK u : u = LastVersion /\ u = LastVersion'
    BY <1>4
  <2>3. Vis(Data(v))' = Vis(Data(u))'
    <3>1. u \in Survivors /\ Vis(Data(v)) = Vis(Data(u))
      BY <1>6, <2>1, <2>2
    <3> QED
      BY <1>7, <3>1
  <2>4. v.next <= u.next
    BY <2>1, <2>2
  <2> QED
    BY <2>2, <2>3, <2>4 DEF Agrees
<1> QED
  BY <1>4, <1>7, <1>8 DEF VersionsSound

(* The sequence number of the write is new; the memtable and the log in    *)
(* use have what the other has.                                            *)
LEMMA PutKeeps ==
    ASSUME RecInv, NEW w, NEW acks, NEW puts, NEW new, NEW hid, Put(w, acks, puts, new, hid)
    PROVE  RecInv'
<1>1. /\ ManifestsTyped /\ TablesTyped /\ LogsTyped /\ DBTyped /\ Phase /\ LogInUse
      /\ LogsIssued /\ TablesIssued /\ MemIssued /\ Describing /\ Installed /\ EditPending /\ Unique
  BY DEF RecInv, RecTyped, RecIds, RecPhase
<1>2. /\ r_db.step = "open" /\ ~r_db.bg_error /\ UNCHANGED <<r_manifests, r_current, r_tables,
                                                             r_cut>>
      /\ puts \subseteq {w} /\ new \subseteq {w} /\ w.seq = r_db.last_sequence + 1
      /\ DOMAIN r_logs' = DOMAIN r_logs /\ hid \subseteq {w.id} /\ r_exposed' = r_exposed \cup hid
      /\ r_acked' = r_acked \cup acks /\ \A a \in acks : a.id = w.id /\ a.log = r_db.log /\ puts = {w}
      /\ hid = {} => puts \subseteq new
      /\ Read(r_logs'[r_db.log].recs) = InUse \cup new
      /\ \A n \in DOMAIN r_logs : n # r_db.log => r_logs'[n] = r_logs[n]
      /\ puts = {w} /\ hid = {} => HasRecord(r_logs'[r_db.log].recs, w)
  BY DEF Put
<1>3. /\ r_db' \in DBRec /\ r_db'.step = "open" /\ r_db'.at = r_db.at /\ r_db'.edit = r_db.edit
      /\ r_db'.mem = r_db.mem \cup puts /\ r_db'.imm = r_db.imm /\ r_db'.log = r_db.log
      /\ r_db'.log_number = r_db.log_number /\ r_db'.files = r_db.files
      /\ r_db'.next_file = r_db.next_file /\ r_db'.manifest = r_db.manifest
      /\ r_db'.described = r_db.described /\ r_db'.last_sequence = w.seq
      /\ r_db'.bg_error \/ new \subseteq puts
  BY DEF Put
<1>4. /\ r_current # 0 /\ r_db.described /\ r_db.manifest = r_current
      /\ r_db.files \subseteq DOMAIN r_tables /\ NumbersApart(r_db.files, r_db.log_number)
      /\ r_db.imm = {} <=> r_db.log_number = r_db.log
      /\ Vis(r_db.mem) \subseteq InUse
      /\ Vis(InUse) \subseteq r_db.mem
      /\ Vis(r_db.imm) = Vis(OlderLogs(r_db.log_number))
      /\ \A y \in Alive : y.seq <= r_db.last_sequence
      /\ HasAcked(InMemory)
      /\ r_db.log \in DOMAIN r_logs
      /\ r_db.log_number \in Nat /\ r_db.log \in Nat /\ r_db.last_sequence \in Nat
      /\ \A v \in Survivors : v.files \subseteq DOMAIN r_tables /\ v.log \in Nat
  BY <1>2, WhileOpen
<1>5. /\ VersionsSound' /\ Survivors' = Survivors /\ LastVersion' = LastVersion
      /\ \A v \in Survivors : Data(v)' = Data(v) \cup new
  BY PutVersions
<1>6. RecTyped' /\ RecIds'
  BY PutTyped, PutIds
<1>7. \A A : TablesOf(A)' = TablesOf(A)
  BY <1>2 DEF TablesOf
<1>8. /\ Added' = Added /\ TargetFiles' = TargetFiles
  BY <1>2, <1>3 DEF Added, Editing, TargetFiles
<1>9. InMemory' = InMemory \cup puts
  <2>1. PICK f : f = r_db.files /\ f = r_db'.files
    BY <1>3
  <2>2. TablesOf(f)' = TablesOf(f)
    BY <1>7
  <2> QED
    BY <1>3, <2>1, <2>2 DEF InMemory
<1>10. Alive' \subseteq Alive \cup {w}
  <2>1. TablesOf(Added)' = TablesOf(Added)
    <3>1. PICK f : f = Added /\ f = Added'
      BY <1>8
    <3>2. TablesOf(f)' = TablesOf(f)
      BY <1>7
    <3> QED
      BY <3>1, <3>2
  <2>2. (UNION {Data(v) : v \in Survivors})' \subseteq (UNION {Data(v) : v \in Survivors}) \cup {w}
    <3>1. (UNION {Data(v) : v \in Survivors})' = UNION {Data(v)' : v \in Survivors}
      BY <1>5
    <3>2. \A v \in Survivors : Data(v)' \subseteq Data(v) \cup {w}
      BY <1>2, <1>5
    <3> QED
      BY <3>1, <3>2
  <2> QED
    BY <1>2, <1>9, <2>1, <2>2 DEF Alive
<1>11. w.seq \in Nat /\ \A y \in Alive : y.seq # w.seq /\ (y.seq \in Nat => y.seq <= w.seq)
  <2>1. PICK q \in Nat : q = r_db.last_sequence
    BY <1>4
  <2>2. w.seq = q + 1 /\ q + 1 \in Nat /\ ~(q + 1 <= q)
    BY <1>2, <2>1
  <2>3. \A s \in Nat : s <= q => s <= q + 1
    OBVIOUS
  <2> QED
    BY <1>4, <2>1, <2>2, <2>3
<1>12. \A y \in Alive : y \in Rec
  <2>1. r_db.mem \subseteq Rec /\ r_db.imm \subseteq Rec /\ TablesOf(r_db.files) \subseteq Rec
    BY <1>1, <1>4, DBFields, TablesOfFacts
  <2>2. TablesOf(Added) \subseteq Rec
    <3>1. Added \subseteq DOMAIN r_tables
      <4>1. CASE ~Editing
        BY <4>1 DEF Added
      <4>2. CASE Editing
        <5>1. r_db.at \in {"log", "sync", "install"}
          BY <1>1, <1>2, <4>2 DEF Phase, Editing
        <5>2. r_db.edit.add \subseteq DOMAIN r_tables
          BY <1>1, <1>4, <5>1 DEF EditPending
        <5> QED
          BY <4>2, <5>2 DEF Added
      <4> QED
        BY <4>1, <4>2
    <3> QED
      BY <1>1, <3>1, TablesOfFacts
  <2>3. \A v \in Survivors : Data(v) \subseteq Rec
    BY <1>1, <1>4, TablesOfFacts, LogDataTyped DEF Data
  <2> QED
    BY <2>1, <2>2, <2>3 DEF Alive, InMemory
<1>13. Unique' /\ \A y \in Alive' : y.seq <= w.seq
  <2>1. \A y \in Alive : y.seq \in Nat
    BY <1>12 DEF Rec
  <2>2. \A y \in Alive' : y.seq <= w.seq
    BY <1>10, <1>11, <2>1
  <2>3. \A x, y \in Alive \cup {w} : x.seq = y.seq => x = y
    BY <1>1, <1>11 DEF Unique
  <2> QED
    BY <1>10, <2>2, <2>3 DEF Unique
<1>14. Phase'
  BY <1>1, <1>2, <1>3, <1>4 DEF Phase
<1>15. LogInUse'
  <2>1. PICK l : l = r_db.log /\ l = r_db'.log
    BY <1>3
  <2>2. PICK m : m = r_db'.mem /\ m = r_db.mem \cup puts
    BY <1>3
  <2>3. /\ l \in Nat /\ l < r_db.next_file /\ \A n \in DOMAIN r_logs : n <= l
        /\ \A a \in r_acked : a.log <= l
    BY <1>1, <1>2, <1>4, <2>1 DEF LogInUse
  <2>4. \A a \in r_acked \cup acks : a.log <= l
    <3>1. l <= l
      BY <2>3
    <3> QED
      BY <1>2, <2>1, <2>3, <3>1
  <2>5. ASSUME NEW a \in r_acked \cup acks, a.log = l
        PROVE  /\ HasId(m, a.id)
               /\ a.id \notin r_exposed' =>
                     \E i \in 1..Len(r_logs'[l].recs) : r_logs'[l].recs[i].id = a.id
    <3>1. CASE a \in r_acked
      <4>1. HasId(m, a.id)
        <5>1. HasId(r_db.mem, a.id)
          BY <1>1, <1>2, <2>1, <2>5, <3>1 DEF LogInUse
        <5> QED
          BY <2>2, <5>1 DEF HasId
      <4>2. ASSUME a.id \notin r_exposed'
            PROVE  \E i \in 1..Len(r_logs'[l].recs) : r_logs'[l].recs[i].id = a.id
        <5>1. PICK i \in 1..Len(r_logs[l].recs) : r_logs[l].recs[i].id = a.id
          <6>1. a.id \notin r_exposed
            BY <1>2, <4>2
          <6> QED
            BY <1>1, <1>2, <2>1, <2>5, <3>1, <6>1 DEF LogInUse
        <5>2. Len(r_logs[l].recs) \in Nat
          BY <1>4, <2>1, PutFacts
        <5>3. Grows(r_logs[l].recs, r_logs'[l].recs, w)
          BY <2>1 DEF Put
        <5>4. Len(r_logs'[l].recs) = Len(r_logs[l].recs) + 1
          BY <5>3 DEF Grows
        <5>5. i \in 1..Len(r_logs'[l].recs)
          BY <5>2, <5>4
        <5>6. r_logs'[l].recs[i] = r_logs[l].recs[i]
          BY <5>3 DEF Grows
        <5> QED
          BY <5>1, <5>5, <5>6
      <4> QED
        BY <4>1, <4>2
    <3>2. CASE a \in acks
      <4>1. HasId(m, a.id)
        BY <1>2, <2>2, <3>2 DEF HasId
      <4>2. hid = {} => HasRecord(r_logs'[l].recs, w)
        BY <1>2, <2>1, <3>2
      <4>3. a.id \notin r_exposed' => hid = {}
        BY <1>2, <3>2
      <4> QED
        BY <1>2, <3>2, <4>1, <4>2, <4>3 DEF HasRecord
    <3> QED
      BY <3>1, <3>2
  <2>6. /\ r_db'.log \in DOMAIN r_logs' /\ r_db'.log < r_db'.next_file
        /\ \A n \in DOMAIN r_logs' : n <= r_db'.log
        /\ \A a \in r_acked' : a.log <= r_db'.log
    BY <1>2, <1>3, <1>4, <2>1, <2>3, <2>4
  <2>7. \A a \in r_acked' : a.log = r_db'.log =>
           /\ \E y \in r_db'.mem : y.id = a.id
           /\ a.id \notin r_exposed' =>
                 \E i \in 1..Len(r_logs'[r_db'.log].recs) : r_logs'[r_db'.log].recs[i].id = a.id
    BY <1>2, <2>1, <2>2, <2>5 DEF HasId
  <2> QED
    BY <2>6, <2>7 DEF LogInUse, HasId
<1>16. Describing'
  <2>1. \A v : (IsBase(v) <=> IsBase(v)') /\ (IsTarget(v) <=> IsTarget(v)')
    BY <1>3, <1>8 DEF IsBase, IsTarget
  <2> QED
    BY <1>1, <1>2, <1>3, <1>5, <2>1 DEF Describing
<1>17. Installed'
  <2>1. NumbersApart(r_db.files, r_db.log_number)'
    BY <1>2, <1>3, <1>4 DEF NumbersApart
  <2>2. InUse' = InUse \cup new
    BY <1>2, <1>3 DEF InUse
  <2>3. InUse \subseteq Rec /\ Old(InUse)
    <3>1. InUse \subseteq Rec /\ InUse \subseteq LogData(0)
      BY <1>1, <1>4, LogTypes DEF InUse, LogData
    <3> QED
      BY <1>1, <3>1, DataIssued DEF Old
  <2>4. OlderLogs(r_db.log_number)' = OlderLogs(r_db.log_number)
    <3>1. PICK l, k : /\ l = r_db.log_number /\ l = r_db'.log_number /\ k = r_db.log /\ k = r_db'.log
      BY <1>3
    <3>2. \A m \in DOMAIN r_logs : m < k => m # k
      BY <1>4, <3>1
    <3> QED
      BY <1>2, <3>1, <3>2 DEF OlderLogs
  <2>5. OlderLogs(r_db.log_number) \subseteq Rec /\ Old(OlderLogs(r_db.log_number))
    <3>1. OlderLogs(r_db.log_number) \subseteq Rec
      BY <1>1, LogTypes DEF OlderLogs
    <3>2. OlderLogs(r_db.log_number) \subseteq LogData(0)
      BY <1>1 DEF OlderLogs, LogData, LogsTyped
    <3> QED
      BY <1>1, <3>1, <3>2, DataIssued DEF Old
  <2>6. r_db.mem \subseteq Rec /\ Old(r_db.mem) /\ r_db.imm \subseteq Rec /\ Old(r_db.imm)
    BY <1>1, DBFields DEF MemIssued
  <2>7. PICK u, u2, m, m2, i, o : /\ u = InUse /\ u2 = InUse' /\ m = r_db.mem /\ m2 = r_db'.mem
                                  /\ i = r_db.imm /\ i = r_db'.imm
                                  /\ o = OlderLogs(r_db.log_number)
                                  /\ o = OlderLogs(r_db.log_number)'
    BY <1>3, <2>4
  <2>8. Vis(u)' = Vis(u) /\ Vis(m)' = Vis(m) /\ Vis(i)' = Vis(i) /\ Vis(o)' = Vis(o)
    BY <2>3, <2>5, <2>6, <2>7, OldStays
  <2>9. u2 = u \cup new /\ m2 = m \cup puts
    BY <1>3, <2>2, <2>7
  <2>10. Vis(m2)' \subseteq u2
    <3>1. \A y \in puts : y.id \notin r_exposed' => y \in new
      BY <1>2, Zenon
    <3> QED
      BY <1>4, <2>7, <2>8, <2>9, <3>1 DEF Vis
  <2>11. r_db'.bg_error \/ Vis(u2)' \subseteq m2
    BY <1>3, <1>4, <2>7, <2>8, <2>9 DEF Vis
  <2>12. Vis(i)' = Vis(o)'
    BY <1>4, <2>7, <2>8
  <2>13. HasAcked(InMemory)'
    <3>1. ASSUME NEW a \in r_acked \cup acks, a.id \notin r_cut \cup (r_exposed \cup hid)
          PROVE  HasId(InMemory \cup puts, a.id)
      BY <1>2, <1>4, <3>1 DEF HasAcked, HasId
    <3> QED
      BY <1>2, <1>9, <3>1 DEF HasAcked, HasId
  <2>14. (Vis(r_db.mem) \subseteq InUse)' /\ (r_db.bg_error \/ Vis(InUse) \subseteq r_db.mem)'
         /\ (Vis(r_db.imm) = Vis(OlderLogs(r_db.log_number)))'
    BY <2>7, <2>10, <2>11, <2>12
  <2> QED
    BY <1>2, <1>3, <1>4, <1>13, <2>1, <2>13, <2>14 DEF Installed
<1>18. EditPending'
  <2>1. SUFFICES ASSUME r_db.at \in {"log", "sync", "install"}
                 PROVE  EditPending'
    BY <1>3 DEF EditPending
  <2>2. /\ r_db.edit.add \subseteq DOMAIN r_tables /\ \A n \in r_db.edit.add : n < r_db.next_file
        /\ NumbersApart(TargetFiles, r_db.edit.log)
        /\ \/ r_db.edit.log = r_db.log /\ r_db.edit.del = {} /\ r_db.imm # {}
              /\ TablesOf(r_db.edit.add) = r_db.imm
           \/ r_db.edit.log = r_db.log_number
              /\ TablesOf(TargetFiles) = TablesOf(r_db.files)
    BY <1>1, <1>2, <1>4, <2>1 DEF EditPending
  <2>3. NumbersApart(TargetFiles, r_db.edit.log)'
    BY <1>2, <1>3, <1>8, <2>2 DEF NumbersApart
  <2>4. PICK f, t, a : /\ f = r_db.files /\ f = r_db'.files /\ t = TargetFiles /\ t = TargetFiles'
                       /\ a = r_db.edit.add /\ a = r_db'.edit.add
    BY <1>3, <1>8
  <2>5. TablesOf(f)' = TablesOf(f) /\ TablesOf(t)' = TablesOf(t) /\ TablesOf(a)' = TablesOf(a)
    BY <1>7
  <2> QED
    BY <1>2, <1>3, <2>2, <2>3, <2>4, <2>5 DEF EditPending
<1>19. Recovering' /\ Replaying' /\ NothingYet' /\ Replayed' /\ ManifestWritten'
  BY <1>3, <1>4 DEF Recovering, Replaying, NothingYet, Replayed, ManifestWritten
<1> QED
  BY <1>5, <1>6, <1>13, <1>14, <1>15, <1>16, <1>17, <1>18, <1>19 DEF RecInv, RecPhase

(* The process after an attempt to write.                                  *)
LEMMA PutMemory ==
    ASSUME RecInv, r_db.step = "open", NEW puts, puts \subseteq Rec, NEW e, e \in BOOLEAN,
           r_db' = [r_db EXCEPT !.mem = r_db.mem \cup puts,
                                !.last_sequence = r_db.last_sequence + 1, !.bg_error = e]
    PROVE  /\ r_db' \in DBRec /\ r_db'.step = "open" /\ r_db'.at = r_db.at /\ r_db'.edit = r_db.edit
           /\ r_db'.mem = r_db.mem \cup puts /\ r_db'.imm = r_db.imm /\ r_db'.log = r_db.log
           /\ r_db'.log_number = r_db.log_number /\ r_db'.files = r_db.files
           /\ r_db'.next_file = r_db.next_file /\ r_db'.manifest = r_db.manifest
           /\ r_db'.described = r_db.described /\ r_db'.last_sequence = r_db.last_sequence + 1
           /\ r_db'.bg_error = e
<1>1. r_db \in DBRec /\ DBTyped
  BY DEF RecInv, RecTyped, DBTyped
<1>2. r_db.mem \cup puts \in SUBSET Rec /\ r_db.last_sequence + 1 \in Nat
  BY <1>1, DBFields
<1>3. PICK m, q, b : m = r_db.mem \cup puts /\ q = r_db.last_sequence + 1 /\ b = e
  OBVIOUS
<1>4. m \in SUBSET Rec /\ q \in Nat /\ b \in BOOLEAN
  BY <1>2, <1>3
<1>5. r_db' = [r_db EXCEPT !.mem = m, !.last_sequence = q, !.bg_error = b]
  BY <1>3, Zenon
<1> HIDE DEF DBTyped
<1>6. /\ r_db' \in DBRec /\ r_db'.step = r_db.step /\ r_db'.at = r_db.at /\ r_db'.edit = r_db.edit
      /\ r_db'.mem = m /\ r_db'.imm = r_db.imm /\ r_db'.log = r_db.log
      /\ r_db'.log_number = r_db.log_number /\ r_db'.files = r_db.files
      /\ r_db'.next_file = r_db.next_file /\ r_db'.manifest = r_db.manifest
      /\ r_db'.described = r_db.described /\ r_db'.last_sequence = q
      /\ r_db'.bg_error = b
  BY ONLY <1>1, <1>4, <1>5 DEF DBRec
<1> QED
  BY <1>3, <1>6

(* What is read of a log that is synced is there for good.                 *)
LEMMA AllSynced ==
    ASSUME LogsTyped', NEW l, l \in DOMAIN r_logs', r_logs'[l].synced = Len(r_logs'[l].recs),
           NEW from, from <= l
    PROVE  Read(r_logs'[l].recs) \subseteq SyncedData(from)'
<1>1. r_logs'[l].recs \in Seq(Rec \cup {R!Torn}) /\ l \in Nat /\ DOMAIN r_logs' \subseteq Nat
  BY DEF LogsTyped, LogFile
<1>2. Synced(l)' = r_logs'[l].recs
  BY <1>1, SubSeqFull DEF Synced
<1>3. l \in {m \in DOMAIN r_logs' : m >= from}
  BY <1>1
<1> QED
  BY <1>2, <1>3 DEF SyncedData

(* A write that succeeds.                                                  *)
LEMMA WritePuts ==
    ASSUME RecInv, NEW sync_ \in BOOLEAN, R!Write(sync_)
    PROVE  \E w_, acks, puts, new_, hid_ : Put(w_, acks, puts, new_, hid_)
<1>1. PICK l : l = r_db.log
  OBVIOUS
<1>2. PICK recs : recs = r_logs[l].recs
  OBVIOUS
<1>3. PICK w : w = [id |-> r_issued + 1, seq |-> r_db.last_sequence + 1]
  OBVIOUS
<1>4. PICK s : s = IF sync_ THEN Len(recs) + 1 ELSE r_logs[l].synced
  OBVIOUS
<1>5. PICK a : a = [id |-> w.id, log |-> l, sync |-> sync_]
  OBVIOUS
<1>6. PICK x :
      /\ x \in IF R!Torn \in R!Range(recs) THEN {w, R!Torn} ELSE {w}
      /\ r_db.step = "open" /\ ~r_db.bg_error
      /\ UNCHANGED <<r_manifests, r_current, r_tables, r_cut>>
      /\ r_issued' = r_issued + 1
      /\ r_logs' = [r_logs EXCEPT ![l] = R!File(Append(recs, x), s)]
      /\ r_acked' = r_acked \cup {a}
      /\ r_exposed' = IF R!Torn \in R!Range(recs) THEN r_exposed \cup {w.id} ELSE r_exposed
      /\ r_db' = [r_db EXCEPT !.mem = @ \cup {w}, !.last_sequence = @ + 1]
  BY <1>1, <1>2, <1>3, <1>4, <1>5 DEF R!Write
<1>7. /\ LogsTyped /\ r_issued \in Nat /\ r_db.last_sequence \in Nat /\ l \in DOMAIN r_logs /\ l \in Nat
      /\ r_db \in DBRec
  BY <1>1, <1>6, WhileOpen DEF RecInv, RecTyped, GhostsTyped, DBTyped
<1>8. /\ w \in Rec /\ w.id = r_issued + 1 /\ w.seq = r_db.last_sequence + 1 /\ w # R!Torn
  <2>1. PICK i \in Nat \ {0}, q \in Nat : i = r_issued + 1 /\ q = r_db.last_sequence + 1
    BY <1>7
  <2>2. w = [id |-> i, seq |-> q]
    BY <1>3, <2>1
  <2> QED
    BY <2>1, <2>2 DEF Rec, R!Torn
<1>9. recs \in Seq(Rec \cup {R!Torn}) /\ Len(recs) \in Nat /\ r_logs[l].synced \in 0..Len(recs)
  BY <1>2, <1>7, LogTypes
<1>10. PICK new : new = IF x = R!Torn THEN {} ELSE {x}
  OBVIOUS
<1>11. PICK hid : hid = IF R!Torn \in R!Range(recs) THEN {w.id} ELSE {}
  OBVIOUS
<1>12. /\ new \subseteq {w} /\ hid \subseteq {w.id} /\ r_exposed' = r_exposed \cup hid
       /\ hid = {} => x = w /\ new = {w}
  BY <1>6, <1>8, <1>10, <1>11
<1>13. s \in Nat /\ (s = r_logs[l].synced \/ s = Len(recs) + 1)
  <2>1. CASE sync_
    BY <1>4, <1>9, <2>1
  <2>2. CASE ~sync_
    BY <1>4, <1>9, <2>2
  <2> QED
    BY <2>1, <2>2
<1>14. /\ LogsTyped' /\ DOMAIN r_logs' = DOMAIN r_logs
       /\ \A n \in DOMAIN r_logs : n # l => r_logs'[n] = r_logs[n]
       /\ Len(r_logs'[l].recs) = Len(recs) + 1
       /\ \A i \in 1..Len(recs) : r_logs'[l].recs[i] = recs[i]
       /\ r_logs'[l].recs[Len(recs) + 1] = x
       /\ Read(r_logs'[l].recs) = Read(recs) \cup new
       /\ \A from : from <= l => LogData(from)' = LogData(from) \cup new
       /\ \A from : SyncedData(from) \subseteq SyncedData(from)'
  <2>1. x \in Rec \cup {R!Torn}
    BY <1>6, <1>8
  <2>2. /\ s \in Nat /\ (s = r_logs[l].synced \/ s = Len(r_logs[l].recs) + 1)
        /\ r_logs' = [r_logs EXCEPT ![l] = R!File(Append(r_logs[l].recs, x), s)]
        /\ new = IF x = R!Torn THEN {} ELSE {x}
    BY <1>2, <1>6, <1>10, <1>13
  <2>3. /\ LogsTyped' /\ DOMAIN r_logs' = DOMAIN r_logs
        /\ \A n \in DOMAIN r_logs : n # l => r_logs'[n] = r_logs[n]
        /\ Len(r_logs'[l].recs) = Len(r_logs[l].recs) + 1
        /\ \A i \in 1..Len(r_logs[l].recs) : r_logs'[l].recs[i] = r_logs[l].recs[i]
        /\ r_logs'[l].recs[Len(r_logs[l].recs) + 1] = x
        /\ Read(r_logs'[l].recs) = Read(r_logs[l].recs) \cup new
        /\ \A from : from <= l => LogData(from)' = LogData(from) \cup new
        /\ \A from : SyncedData(from) \subseteq SyncedData(from)'
    BY <1>7, <2>1, <2>2, AppendedLog
  <2> QED
    BY <1>2, <2>3
<1>15. /\ a \in AckRec /\ a.id = w.id /\ a.log = l /\ a.sync = sync_
  <2>1. w.id \in Nat \ {0}
    BY <1>8 DEF Rec
  <2> QED
    BY <1>5, <1>7, <2>1 DEF AckRec
<1>16. /\ r_db' \in DBRec /\ r_db'.step = "open" /\ r_db'.at = r_db.at /\ r_db'.edit = r_db.edit
       /\ r_db'.mem = r_db.mem \cup {w} /\ r_db'.imm = r_db.imm /\ r_db'.log = r_db.log
       /\ r_db'.log_number = r_db.log_number /\ r_db'.files = r_db.files
       /\ r_db'.next_file = r_db.next_file /\ r_db'.manifest = r_db.manifest
       /\ r_db'.described = r_db.described /\ r_db'.last_sequence = w.seq
  <2>1. PICK b \in BOOLEAN : b = r_db.bg_error
    BY <1>7 DEF DBRec
  <2>2. r_db' = [r_db EXCEPT !.mem = r_db.mem \cup {w}, !.last_sequence = r_db.last_sequence + 1,
                             !.bg_error = b]
    BY <1>6, <1>7, <2>1 DEF DBRec
  <2>3. {w} \subseteq Rec
    BY <1>8
  <2> QED
    BY <1>6, <1>8, <2>2, <2>3, PutMemory
<1>17. Grows(recs, r_logs'[l].recs, w)
  BY <1>6, <1>14 DEF Grows
<1>18. hid = {} => HasRecord(r_logs'[l].recs, w)
  <2>1. Len(recs) + 1 \in 1..Len(r_logs'[l].recs)
    BY <1>9, <1>14
  <2> QED
    BY <1>12, <1>14, <2>1 DEF HasRecord
<1>19. \A from : from <= l => \A b \in {a} : b.sync /\ hid = {} => w \in SyncedData(from)'
  <2>1. SUFFICES ASSUME NEW from, from <= l, sync_, hid = {}
                 PROVE  w \in SyncedData(from)'
    BY <1>15
  <2>2. r_logs'[l].synced = Len(r_logs'[l].recs)
    <3>1. s = Len(recs) + 1
      BY <1>4, <2>1
    <3>2. r_logs'[l].synced = s
      BY <1>6, <1>7 DEF R!File
    <3> QED
      BY <1>14, <3>1, <3>2
  <2>3. w \in Read(r_logs'[l].recs)
    BY <1>12, <1>14, <2>1
  <2> QED
    BY <1>7, <1>14, <2>1, <2>2, <2>3, AllSynced
<1>20. Read(recs) = InUse
  BY <1>1, <1>2 DEF InUse
<1>21. Put(w, {a}, {w}, new, hid)
  BY <1>1, <1>2, <1>6, <1>8, <1>12, <1>14, <1>15, <1>16, <1>17, <1>18, <1>19, <1>20 DEF Put
<1> QED
  BY <1>21

(* A write that fails.                                                     *)
LEMMA WriteFailsPuts ==
    ASSUME RecInv, R!WriteFails
    PROVE  \E w_, acks, puts, new_, hid_ : Put(w_, acks, puts, new_, hid_)
<1>1. PICK l : l = r_db.log
  OBVIOUS
<1>2. PICK recs : recs = r_logs[l].recs
  OBVIOUS
<1>3. PICK w : w = [id |-> r_issued + 1, seq |-> r_db.last_sequence + 1]
  OBVIOUS
<1>4. /\ r_db.step = "open" /\ ~r_db.bg_error
      /\ UNCHANGED <<r_manifests, r_current, r_tables, r_acked, r_exposed, r_cut>>
      /\ r_issued' = r_issued + 1
  BY DEF R!WriteFails
<1>5. PICK x \in {R!Torn, w}, e \in BOOLEAN :
         /\ x = w => e
         /\ r_logs' = [r_logs EXCEPT ![l].recs = Append(@, x)]
         /\ r_db' = [r_db EXCEPT !.last_sequence = @ + 1, !.bg_error = e]
  BY <1>1, <1>3 DEF R!WriteFails
<1>6. /\ LogsTyped /\ r_issued \in Nat /\ r_db.last_sequence \in Nat /\ l \in DOMAIN r_logs /\ l \in Nat
      /\ r_db \in DBRec
  BY <1>1, <1>4, WhileOpen DEF RecInv, RecTyped, GhostsTyped, DBTyped
<1>7. /\ w \in Rec /\ w.id = r_issued + 1 /\ w.seq = r_db.last_sequence + 1 /\ w # R!Torn
  <2>1. PICK i \in Nat \ {0}, q \in Nat : i = r_issued + 1 /\ q = r_db.last_sequence + 1
    BY <1>6
  <2>2. w = [id |-> i, seq |-> q]
    BY <1>3, <2>1
  <2> QED
    BY <2>1, <2>2 DEF Rec, R!Torn
<1>8. /\ recs \in Seq(Rec \cup {R!Torn}) /\ Len(recs) \in Nat /\ r_logs[l].synced \in 0..Len(recs)
      /\ r_logs[l] \in LogFile
  BY <1>2, <1>6, LogTypes DEF LogsTyped
<1>9. /\ r_db' \in DBRec /\ r_db'.step = "open" /\ r_db'.at = r_db.at /\ r_db'.edit = r_db.edit
       /\ r_db'.mem = r_db.mem \cup {} /\ r_db'.imm = r_db.imm /\ r_db'.log = r_db.log
       /\ r_db'.log_number = r_db.log_number /\ r_db'.files = r_db.files
       /\ r_db'.next_file = r_db.next_file /\ r_db'.manifest = r_db.manifest
       /\ r_db'.described = r_db.described /\ r_db'.last_sequence = w.seq
       /\ r_db'.bg_error = e
  <2>1. PICK m : m = r_db.mem \cup {}
    OBVIOUS
  <2>2. m = r_db.mem /\ [r_db EXCEPT !.mem = m] = r_db
    BY <1>6, <2>1 DEF DBRec
  <2>3. r_db' = [r_db EXCEPT !.last_sequence = r_db.last_sequence + 1, !.bg_error = e]
    BY <1>5, Zenon
  <2>4. r_db' = [r_db EXCEPT !.mem = m, !.last_sequence = r_db.last_sequence + 1, !.bg_error = e]
    BY <1>6, <2>2, <2>3 DEF DBRec
  <2> QED
    BY <1>4, <1>7, <2>1, <2>4, PutMemory
<1>10. Read(recs) = InUse
  BY <1>1, <1>2 DEF InUse
<1>11. PICK s : s = r_logs[l].synced
  OBVIOUS
<1>12. r_logs' = [r_logs EXCEPT ![l] = R!File(Append(recs, x), s)]
  <2>1. PICK more : more = Append(recs, x)
    OBVIOUS
  <2>2. [r_logs[l] EXCEPT !.recs = more] = [recs |-> more, synced |-> s]
    BY <1>8, <1>11 DEF LogFile
  <2> QED
    BY <1>2, <1>5, <2>1, <2>2 DEF R!File
<1>13. PICK new : new = IF x = R!Torn THEN {} ELSE {x}
  OBVIOUS
<1>14. s \in Nat /\ x \in Rec \cup {R!Torn}
  BY <1>7, <1>8, <1>11
<1>15. /\ LogsTyped' /\ DOMAIN r_logs' = DOMAIN r_logs
       /\ \A n \in DOMAIN r_logs : n # l => r_logs'[n] = r_logs[n]
       /\ Len(r_logs'[l].recs) = Len(recs) + 1
       /\ \A i \in 1..Len(recs) : r_logs'[l].recs[i] = recs[i]
       /\ r_logs'[l].recs[Len(recs) + 1] = x
       /\ Read(r_logs'[l].recs) = Read(recs) \cup new
       /\ \A from : from <= l => LogData(from)' = LogData(from) \cup new
       /\ \A from : SyncedData(from) \subseteq SyncedData(from)'
  <2>1. /\ s = r_logs[l].synced \/ s = Len(r_logs[l].recs) + 1
        /\ r_logs' = [r_logs EXCEPT ![l] = R!File(Append(r_logs[l].recs, x), s)]
        /\ new = IF x = R!Torn THEN {} ELSE {x}
    BY <1>2, <1>11, <1>12, <1>13
  <2>2. /\ LogsTyped' /\ DOMAIN r_logs' = DOMAIN r_logs
        /\ \A n \in DOMAIN r_logs : n # l => r_logs'[n] = r_logs[n]
        /\ Len(r_logs'[l].recs) = Len(r_logs[l].recs) + 1
        /\ \A i \in 1..Len(r_logs[l].recs) : r_logs'[l].recs[i] = r_logs[l].recs[i]
        /\ r_logs'[l].recs[Len(r_logs[l].recs) + 1] = x
        /\ Read(r_logs'[l].recs) = Read(r_logs[l].recs) \cup new
        /\ \A from : from <= l => LogData(from)' = LogData(from) \cup new
        /\ \A from : SyncedData(from) \subseteq SyncedData(from)'
    BY <1>6, <1>14, <2>1, AppendedLog
  <2> QED
    BY <1>2, <2>2
<1>16. Grows(recs, r_logs'[l].recs, w)
  BY <1>15 DEF Grows
<1>17. new \subseteq {w} /\ (e \/ new \subseteq {})
  BY <1>5, <1>13
<1>18. Put(w, {}, {}, new, {})
  BY <1>1, <1>2, <1>4, <1>7, <1>9, <1>10, <1>15, <1>16, <1>17 DEF Put
<1> QED
  BY <1>18

-----------------------------------------------------------------------------
(* The invariant of recovery.                                              *)

(* There is nothing yet.                                                   *)
LEMMA InitRecovery == R!Init => RecInv
<1> SUFFICES ASSUME R!Init PROVE RecInv
  OBVIOUS
<1>1. /\ DOMAIN r_logs = {} /\ DOMAIN r_manifests = {} /\ DOMAIN r_tables = {} /\ r_current = 0
      /\ r_db = R!Down /\ r_acked = {} /\ r_exposed = {} /\ r_cut = {} /\ r_issued = 0
  BY DEF R!Init
<1>2. /\ r_db.step = "down" /\ r_db.at = "none" /\ r_db.mem = {} /\ r_db.imm = {} /\ ~r_db.described
      /\ r_db.files = {} /\ r_db \in DBRec /\ r_db = [R!Down EXCEPT !.step = r_db.step]
  <2>1. PICK s \in R!Steps, a \in R!EditSteps, q \in Seq(Nat), e \in {R!NoEdit} \cup Pending :
           s = "down" /\ a = "none" /\ q = <<>> /\ e = R!NoEdit
    <3>1. "down" \in R!Steps /\ "none" \in R!EditSteps /\ <<>> \in Seq(Nat)
      BY DEF R!Steps, R!EditSteps
    <3>2. R!NoEdit \in {R!NoEdit} \cup Pending
      OBVIOUS
    <3> QED
      BY <3>1, <3>2, Zenon
  <2>2. R!Down = [step |-> s, edit |-> e, at |-> a, mem |-> {}, imm |-> {}, log |-> 0,
                  log_number |-> 0, files |-> {}, next_file |-> 2, manifest |-> 0,
                  described |-> FALSE, last_sequence |-> 0, todo |-> q, bg_error |-> FALSE]
    BY <2>1 DEF R!Down
  <2>3. R!Down \in DBRec
    BY <2>2 DEF DBRec
  <2>4. R!Down.step = "down" /\ R!Down = [R!Down EXCEPT !.step = "down"]
    BY DownIs
  <2>5. /\ r_db.step = "down" /\ r_db.at = "none" /\ r_db.mem = {} /\ r_db.imm = {} /\ ~r_db.described
        /\ r_db.files = {}
    BY <1>1, <2>1, <2>2
  <2> QED
    BY <1>1, <2>3, <2>4, <2>5
<1>3. RecTyped
  <2>1. IsFiniteSet(DOMAIN r_logs)
    BY <1>1, FS_EmptySet
  <2> QED
    BY <1>1, <1>2, <2>1
       DEF RecTyped, LogsTyped, ManifestsTyped, TablesTyped, GhostsTyped, DBTyped, Editing
<1>4. RecIds
  BY <1>1, <1>2 DEF RecIds, LogsIssued, TablesIssued, MemIssued, Old, OwnLog, LogsClosed,
     TablesClosed,
                    MemClosed, ClosedSet, HasId
<1>5. Survivors = {}
  BY <1>1 DEF Survivors
<1>6. Unique
  <2>1. Alive = {}
    BY <1>2, <1>5 DEF Alive, InMemory, Added, Editing, TablesOf
  <2> QED
    BY <2>1 DEF Unique
<1>7. RecPhase
  BY <1>1, <1>2 DEF RecPhase, Phase, Recovering, Replaying, NothingYet, Replayed, ManifestWritten,
                    LogInUse, Describing, Installed, EditPending
<1> QED
  BY <1>3, <1>4, <1>5, <1>6, <1>7 DEF RecInv, VersionsSound

(* A step of another part.                                                 *)
LEMMA RecoveryStutters == ASSUME RecInv, UNCHANGED R!vars PROVE RecInv'
<1>1. UNCHANGED <<r_logs, r_manifests, r_current, r_tables, r_db, r_acked, r_exposed, r_cut,
                  r_issued>>
  BY DEF R!vars, R!disk, R!ghosts
<1>2. /\ \A A : TablesOf(A)' = TablesOf(A)
      /\ \A f : LogData(f)' = LogData(f) /\ SyncedData(f)' = SyncedData(f)
      /\ \A v : Data(v)' = Data(v)
      /\ \A X : Vis(X)' = Vis(X)
  BY <1>1, SameData
<1>3. RecTyped'
  BY <1>1 DEF RecInv, RecTyped, LogsTyped, ManifestsTyped, TablesTyped, GhostsTyped, DBTyped,
     Editing
<1>4. RecIds'
  BY <1>1 DEF RecInv, RecIds, LogsIssued, TablesIssued, MemIssued, Old, OwnLog, LogsClosed,
     LogClosed,
              Whole, TablesClosed, MemClosed, ClosedSet, HasId
<1>5. VersionsSound' /\ Survivors' = Survivors /\ (r_current # 0 => LastVersion' = LastVersion)
  BY <1>1, VersionsStay DEF RecInv
<1>6. LastVersion' = LastVersion
  BY <1>1 DEF LastVersion, Current
<1>7. PICK f, g, l, h : /\ f = r_db.files /\ f = r_db'.files /\ g = r_db.edit.add /\ g = r_db'.edit.add
                        /\ l = r_db.log_number /\ l = r_db'.log_number
                        /\ h = TargetFiles /\ h = TargetFiles'
  BY <1>1 DEF TargetFiles
<1>8. /\ TablesOf(r_db.files)' = TablesOf(r_db.files) /\ TablesOf(r_db.edit.add)' = TablesOf(r_db.edit.add)
      /\ LogData(r_db.log_number)' = LogData(r_db.log_number)
      /\ TablesOf(TargetFiles)' = TablesOf(TargetFiles) /\ TargetFiles' = TargetFiles
      /\ InMemory' = InMemory
  <2>1. TablesOf(f)' = TablesOf(f) /\ TablesOf(g)' = TablesOf(g) /\ LogData(l)' = LogData(l)
        /\ TablesOf(h)' = TablesOf(h)
    BY <1>2
  <2> QED
    BY <1>1, <1>7, <2>1 DEF InMemory
<1>9. Alive' = Alive
  <2>1. PICK a : a = Added /\ a = Added'
    BY <1>1 DEF Added, Editing
  <2>2. TablesOf(a)' = TablesOf(a)
    BY <1>2
  <2>3. (UNION {Data(v) : v \in Survivors})' = UNION {Data(v) : v \in Survivors}
    BY <1>2, <1>5
  <2> QED
    BY <1>8, <2>1, <2>2, <2>3 DEF Alive
<1>10. Phase' /\ Replayed' /\ ManifestWritten' /\ LogInUse' /\ Replaying'
  BY <1>1, <1>8 DEF RecInv, RecPhase, Phase, Replayed, ManifestWritten, LogInUse, HasId, EditOut,
                    R!Snapshot, Replaying
<1>11. Recovering' /\ NothingYet'
  BY <1>1, <1>6, <1>8 DEF RecInv, RecPhase, Recovering, NothingYet
<1>12. Describing'
  BY <1>1, <1>5, <1>6 DEF RecInv, RecPhase, Describing, IsBase, IsTarget, TargetFiles
<1>13. EditPending'
  BY <1>1, <1>8 DEF RecInv, RecPhase, EditPending, NumbersApart
<1>14. Installed'
  <2>1. SUFFICES ASSUME r_db.step = "open" \/ r_db.at = "collect"
                 PROVE  Installed'
    BY <1>1 DEF Installed
  <2>2. r_db.files \subseteq DOMAIN r_tables' /\ r_db.next_file \in Nat /\ Installed /\ DBTyped
    BY <1>1, <2>1, DBFields DEF RecInv, RecTyped, RecPhase, Installed
  <2> QED
    BY <1>1, <1>8, <1>9, <2>1, <2>2, InstalledStays
<1>15. Unique'
  BY <1>9, FewerAlive DEF RecInv
<1> QED
  BY <1>3, <1>4, <1>5, <1>10, <1>11, <1>12, <1>13, <1>14, <1>15 DEF RecInv, RecPhase

(* Every step keeps it.                                                    *)
LEMMA StepKeepsRecovery == RecInv /\ [R!Next]_R!vars => RecInv'
<1> SUFFICES ASSUME RecInv, [R!Next]_R!vars PROVE RecInv'
  OBVIOUS
<1>1. CASE UNCHANGED R!vars
  BY <1>1, RecoveryStutters
<1>2. CASE R!Opening
  <2>1. CASE R!LogEdit
    BY <2>1, LogFirstEditKeeps, LogNextEditKeeps
  <2>2. CASE R!SyncManifest
    BY <2>2, SyncFirstManifestKeeps, SyncNextManifestKeeps
  <2>3. CASE \/ R!NewDB \/ R!PointToNewDB \/ R!OpenExisting
    BY <2>3, NewDBKeeps, PointToNewDBKeeps, OpenExistingKeeps
  <2>4. CASE \/ R!RecoverVersions \/ R!RecoverLogFile \/ R!CreateLog
    BY <2>4, RecoverVersionsKeeps, RecoverLogFileKeeps, CreateLogKeeps
  <2>5. CASE \/ R!SetCurrentFile \/ R!Install \/ R!DeleteObsoleteFiles
    BY <2>5, SetCurrentFileKeeps, InstallKeeps, DeleteObsoleteFilesKeeps
  <2> QED
    BY <1>2, <2>1, <2>2, <2>3, <2>4, <2>5 DEF R!Opening
<1>3. CASE \E s \in BOOLEAN : R!Write(s)
  BY <1>3, WritePuts, PutKeeps
<1>4. CASE R!WriteFails
  BY <1>4, WriteFailsPuts, PutKeeps
<1>5. CASE R!SwitchMemTable \/ R!CompactMemTable \/ R!Compact
  BY <1>5, SwitchMemTableKeeps, CompactMemTableKeeps, CompactKeeps
<1>6. CASE R!LogAndApplyFails \/ R!OpenFails \/ R!Crash \/ R!Close
  BY <1>6, LogAndApplyFailsKeeps, OpenFailsKeeps, CrashKeeps, CloseKeeps
<1> QED
  BY <1>1, <1>2, <1>3, <1>4, <1>5, <1>6 DEF R!Next

(* What the invariant is for.                                              *)
LEMMA RecoveryKept ==
    RecInv => /\ R!AcknowledgedSurvive /\ R!NoHoleWithinLog /\ R!CorruptNeedsFirstOpen
              /\ R!SequencesFresh /\ R!NumbersFresh
<1> SUFFICES ASSUME RecInv
             PROVE  /\ R!AcknowledgedSurvive /\ R!NoHoleWithinLog /\ R!CorruptNeedsFirstOpen
                    /\ R!SequencesFresh /\ R!NumbersFresh
  OBVIOUS
<1>1. R!CorruptNeedsFirstOpen
  BY DEF RecInv, RecPhase, Phase, R!CorruptNeedsFirstOpen
<1>2. SUFFICES ASSUME r_db.step = "open"
               PROVE  R!AcknowledgedSurvive /\ R!NoHoleWithinLog /\ R!SequencesFresh /\ R!NumbersFresh
  BY <1>1 DEF R!AcknowledgedSurvive, R!NoHoleWithinLog, R!SequencesFresh, R!NumbersFresh
<1>3. /\ r_db.files \subseteq DOMAIN r_tables /\ NumbersApart(r_db.files, r_db.log_number)
      /\ \A w \in Alive : w.seq <= r_db.last_sequence
      /\ HasAcked(InMemory)
      /\ r_db.log < r_db.next_file
      /\ \A n \in DOMAIN r_logs : n \in Nat /\ n <= r_db.log
      /\ r_db.log_number <= r_db.log
      /\ r_db.log_number \in Nat /\ r_db.log \in Nat /\ r_db.next_file \in Nat
      /\ r_db.manifest \in Nat /\ r_db.files \subseteq Nat
  BY <1>2, WhileOpen
<1>4. R!Contents = InMemory
  BY DEF R!Contents, InMemory, TablesOf
<1>5. \A a \in r_acked : a.id # 0
  BY DEF RecInv, RecTyped, GhostsTyped, AckRec
<1>6. \A a \in r_acked : a.id \in R!Ids(R!Contents) <=> HasId(InMemory, a.id)
  BY <1>4, <1>5 DEF R!Ids, HasId
<1>7. R!AcknowledgedSurvive
  BY <1>3, <1>6 DEF R!AcknowledgedSurvive, HasAcked
<1>8. R!NoHoleWithinLog
  <2>1. ClosedSet(InMemory)
    <3>1. ClosedSet(r_db.mem) /\ ClosedSet(r_db.imm) /\ TablesClosed
      BY DEF RecInv, RecIds, MemClosed
    <3>2. \A Y \in {r_tables[n] : n \in r_db.files} : ClosedSet(Y)
      BY <1>3, <3>1 DEF TablesClosed
    <3>3. ClosedSet(TablesOf(r_db.files))
      BY <3>2, ClosedUnion DEF TablesOf
    <3> QED
      BY <3>1, <3>3, ClosedPair DEF InMemory
  <2> QED
    BY <1>6, <2>1 DEF R!NoHoleWithinLog, ClosedSet
<1>9. R!SequencesFresh
  BY <1>3, <1>4 DEF R!SequencesFresh, RecInv, Unique, Alive
<1>10. R!NumbersFresh
  <2>1. PICK X, Y, Z : /\ X = r_db.files /\ Y = {n \in DOMAIN r_logs : n >= r_db.log_number}
                       /\ Z = {r_db.manifest}
    OBVIOUS
  <2>2. X \cap Y = {} /\ X \cap Z = {} /\ Y \cap Z = {}
    BY <1>3, <2>1 DEF NumbersApart
  <2>3. \A n \in X \cup Y \cup Z : n < r_db.next_file
    BY <1>3, <2>1 DEF NumbersApart
  <2>4. \A i, j \in 1..3 : i # j => <<X, Y, Z>>[i] \cap <<X, Y, Z>>[j] = {}
    <3>1. TAKE i, j \in 1..3
    <3>2. <<X, Y, Z>>[1] = X /\ <<X, Y, Z>>[2] = Y /\ <<X, Y, Z>>[3] = Z
      OBVIOUS
    <3>3. (i = 1 \/ i = 2 \/ i = 3) /\ (j = 1 \/ j = 2 \/ j = 3)
      OBVIOUS
    <3> QED
      BY <2>2, <3>2, <3>3
  <2>5. \A i \in 1..3 : \A n \in <<X, Y, Z>>[i] : n < r_db.next_file
    <3>1. TAKE i \in 1..3
    <3>2. <<X, Y, Z>>[i] \subseteq X \cup Y \cup Z
      OBVIOUS
    <3> QED
      BY <2>3, <3>2
  <2> QED
    BY <2>1, <2>4, <2>5 DEF R!NumbersFresh
<1> QED
  BY <1>7, <1>8, <1>9, <1>10

(* The invariant of recovery holds at all times.                           *)
LEMMA RecoveryInductive == PartsSpec => []RecInv
<1>1. PartsInit => RecInv
  BY InitRecovery DEF PartsInit
<1>2. RecInv /\ [PartsNext]_all => RecInv'
  <2> SUFFICES ASSUME RecInv, [PartsNext]_all PROVE RecInv'
    OBVIOUS
  <2>1. [R!Next]_R!vars
    BY DEF PartsNext, RecoveryStep, WriteQueueStep, PosixFileStep, BackgroundQueueStep, all,
           RecoveryVars, R!vars, R!disk, R!ghosts
  <2> QED
    BY <2>1, StepKeepsRecovery
<1> QED
  BY <1>1, <1>2, PTL DEF PartsSpec

(* DBImpl::Recover, VersionSet::Recover and log::Reader, whatever the      *)
(* number of writes, crashes, failures and files: what was acknowledged is *)
(* found again unless a crash took it and it was not synced, or it was put *)
(* into a log behind a failed append, which log::Reader may drop; those    *)
(* writes aside, a crash takes the end of a log and nothing from its       *)
(* middle; a database that was opened once is never refused; and no number *)
(* of a write or of a file is given out twice.                             *)
THEOREM RecoveryIsSoundHolds == PartsSpec => []RecoveryIsSound
<1>1. RecInv => RecoveryIsSound
  BY RecoveryKept DEF RecoveryIsSound
<1> QED
  BY <1>1, RecoveryInductive, PTL

-----------------------------------------------------------------------------
(* The contract of the store (StoreContract).  A version that is found is  *)
(* the last one, whatever a crash leaves of the manifest; so the contents  *)
(* change with a write or an end, and with nothing else.                   *)
FoundIsWhole ==
    /\ R!Ids(R!Recoverable) \ r_exposed = Found
    /\ R!Promised \subseteq Found

(* The last version has all its tables, and every promised write.          *)
LEMMA FoundWhole == RecInv => FoundIsWhole
<1> SUFFICES ASSUME RecInv PROVE FoundIsWhole
  OBVIOUS
<1>1. ManifestsTyped /\ LogsTyped /\ TablesTyped /\ GhostsTyped /\ VersionsSound /\ Phase
  BY DEF RecInv, RecTyped, RecPhase
<1>2. CASE r_current = 0
  <2>1. r_current \notin DOMAIN r_manifests /\ r_acked = {}
    BY <1>1, <1>2 DEF ManifestsTyped, Phase
  <2>2. R!Ids(R!Recoverable) = {}
    BY <2>1 DEF R!Recoverable, R!Ids
  <2>3. R!Promised = {} /\ Found = {}
    BY <1>2, <2>1 DEF R!Promised, Found
  <2> QED
    BY <2>2, <2>3 DEF FoundIsWhole
<1>3. CASE r_current # 0
  <2>1. r_current \in DOMAIN r_manifests
    BY <1>1, <1>3 DEF ManifestsTyped
  <2>2. PICK v : v = LastVersion
    OBVIOUS
  <2>3. Sound(v) /\ v.files \subseteq Nat
    BY <1>1, <1>3, <2>2, LastIsSound
  <2>4. v.files \cap DOMAIN r_tables = v.files
    BY <2>3 DEF Sound
  <2>5. R!Recoverable = Data(v)
    <3>1. v = R!Apply(r_manifests[r_current].recs)
      BY <2>2 DEF LastVersion, Current
    <3>2. \A y : y \in R!Recoverable <=>
                   \/ \E n \in v.files \cap DOMAIN r_tables : y \in r_tables[n]
                   \/ \E n \in {m \in DOMAIN r_logs : m >= v.log} : y \in R!Readable(r_logs[n].recs)
      BY <2>1, <3>1 DEF R!Recoverable
    <3>3. \A y : y \in TablesOf(v.files) <=> \E n \in v.files \cap DOMAIN r_tables : y \in r_tables[n]
      BY <2>4 DEF TablesOf
    <3>4. \A y : y \in LogData(v.log) <=>
                   \E n \in {m \in DOMAIN r_logs : m >= v.log} : y \in R!Readable(r_logs[n].recs)
      BY DEF LogData, Read
    <3>5. \A y : y \in R!Recoverable <=> y \in TablesOf(v.files) \cup LogData(v.log)
      BY <3>2, <3>3, <3>4
    <3> QED
      BY <3>5 DEF Data
  <2>6. Data(v) \subseteq Rec
    <3>1. TablesOf(v.files) \subseteq Rec
      BY <1>1, <2>3, TablesOfFacts DEF Sound
    <3>2. LogData(v.log) \subseteq Rec
      BY <1>1, LogDataTyped
    <3> QED
      BY <3>1, <3>2 DEF Data
  <2>7. Found = {w.id : w \in Vis(Data(v))}
    BY <1>3, <2>2 DEF Found
  <2>8. \A w \in Data(v) : w.id # 0
    BY <2>6 DEF Rec
  <2>9. PICK X : X = Data(v)
    OBVIOUS
  <2>10. \A i : i \in R!Ids(R!Recoverable) \ r_exposed <=> i \in Found
    <3>1. \A i : i \in Found <=> \E w \in X : w.id = i /\ w.id \notin r_exposed
      BY <2>7, <2>9 DEF Vis
    <3>2. \A i : i \in R!Ids(R!Recoverable) <=> i # 0 /\ \E w \in X : w.id = i
      BY <2>5, <2>9 DEF R!Ids
    <3> QED
      BY <2>8, <2>9, <3>1, <3>2
  <2>11. R!Promised \subseteq Found
    <3>1. SUFFICES ASSUME NEW a \in r_acked, a.sync, a.id \notin r_exposed
                   PROVE  a.id \in Found
      BY DEF R!Promised
    <3>2. PICK w \in TablesOf(v.files) \cup SyncedData(v.log) : w.id = a.id
      BY <2>3, <3>1 DEF Sound, HasSynced, HasId
    <3>3. SyncedData(v.log) \subseteq LogData(v.log)
      BY <1>1, LogTypes DEF SyncedData, LogData
    <3>4. w \in Data(v)
      BY <3>2, <3>3 DEF Data
    <3> QED
      BY <2>7, <3>1, <3>2, <3>4 DEF Vis
  <2> QED
    BY <2>10, <2>11 DEF FoundIsWhole
<1> QED
  BY <1>2, <1>3

(* Where the files that are read stay, so does what is found.              *)
LEMMA SameFound ==
    ASSUME UNCHANGED <<r_logs, r_tables, r_exposed, r_current>>,
           r_current # 0 => r_manifests'[r_current].recs = r_manifests[r_current].recs
    PROVE  Found' = Found
<1>1. CASE r_current = 0
  BY <1>1 DEF Found
<1>2. CASE r_current # 0
  <2>1. PICK v : v = LastVersion
    OBVIOUS
  <2>2. v = LastVersion'
    BY <1>2, <2>1 DEF LastVersion, Current
  <2>3. Data(v)' = Data(v)
    BY DEF Data, TablesOf, LogData
  <2>4. Data(LastVersion)' = Data(LastVersion)
    BY <2>1, <2>2, <2>3
  <2> QED
    BY <1>2, <2>4 DEF Found, Vis
<1> QED
  BY <1>1, <1>2

(* A step that finds the same.                                             *)
LEMMA SameContract ==
    ASSUME FoundIsWhole, FoundIsWhole', Found' = Found, UNCHANGED <<r_acked, r_exposed>>
    PROVE  /\ (R!Ids(R!Recoverable) \ r_exposed)' = R!Ids(R!Recoverable) \ r_exposed
           /\ R!Promised' = R!Promised
  BY DEF FoundIsWhole, R!Promised

(* A step that finds the same, and neither begins nor ends a process, is   *)
(* none of the contract.                                                   *)
LEMMA ContractStutters ==
    ASSUME FoundIsWhole, FoundIsWhole', Found' = Found, UNCHANGED <<r_acked, r_exposed>>,
           r_db.step = "down" <=> r_db'.step = "down"
    PROVE  UNCHANGED R!Contract!vars
<1>1. (r_db.step # "down")' = (r_db.step # "down")
  OBVIOUS
<1> QED
  BY <1>1, SameContract DEF R!Contract!vars

(* A step that begins a process is one of the contract.                    *)
LEMMA ContractStarts ==
    ASSUME FoundIsWhole, FoundIsWhole', Found' = Found, UNCHANGED <<r_acked, r_exposed>>,
           r_db.step = "down", r_db'.step # "down"
    PROVE  R!Contract!Next
<1>1. R!Contract!Start
  BY SameContract DEF R!Contract!Start
<1> QED
  BY <1>1 DEF R!Contract!Next

(* A step that ends a process is one of the contract, if nothing is found  *)
(* that was not there.                                                     *)
LEMMA ContractEnds ==
    ASSUME FoundIsWhole, FoundIsWhole', Found' \subseteq Found, UNCHANGED <<r_acked, r_exposed>>,
           r_db.step # "down", r_db'.step = "down"
    PROVE  R!Contract!Next
<1>1. R!Promised' = R!Promised
  BY DEF R!Promised
<1>2. R!Contract!End
  BY <1>1 DEF R!Contract!End, FoundIsWhole
<1> QED
  BY <1>2 DEF R!Contract!Next

(* A write is found from now on, if it can be read; nothing else changes.  *)
LEMMA PutFound ==
    ASSUME RecInv, NEW w, NEW acks, NEW puts, NEW new, NEW hid, Put(w, acks, puts, new, hid)
    PROVE  w.id \notin Found /\ Found' \in {Found, Found \cup {w.id}}
<1>1. /\ ManifestsTyped /\ TablesTyped /\ LogsTyped /\ VersionsSound /\ LogsIssued /\ TablesIssued
  BY DEF RecInv, RecTyped, RecIds
<1>2. r_db.step = "open" /\ new \subseteq {w} /\ UNCHANGED r_current
  BY DEF Put
<1>3. r_current # 0 /\ \A v \in Survivors : v.files \subseteq DOMAIN r_tables
  BY <1>2, WhileOpen
<1>4. PICK v : v = LastVersion /\ v = LastVersion' /\ v \in Survivors
  BY <1>1, <1>3, SurvivorFacts, PutVersions
<1>5. PICK D : D = Data(v)
  OBVIOUS
<1>6. D \subseteq Rec /\ Old(D)
  <2>1. TablesOf(v.files) \subseteq Rec /\ LogData(v.log) \subseteq Rec
    BY <1>1, <1>3, <1>4, TablesOfFacts, LogDataTyped
  <2>2. Old(LogData(v.log)) /\ Old(TablesOf(v.files))
    BY <1>1, <1>3, <1>4, DataIssued
  <2> QED
    BY <1>5, <2>1, <2>2 DEF Data, Old
<1>7. Vis(D)' = Vis(D) /\ ~HasId(D, w.id)
  BY <1>6, OldStays
<1>8. PICK E : E = Data(v)' /\ E = D \cup new
  BY <1>4, <1>5, PutVersions
<1>9. E = Data(LastVersion)'
  BY <1>4, <1>8
<1>10. Found = {x.id : x \in Vis(D)} /\ Found' = {x.id : x \in Vis(E)'}
  BY <1>2, <1>3, <1>4, <1>5, <1>9 DEF Found
<1>11. Vis(E)' = Vis(D) \cup Vis(new)'
  BY <1>7, <1>8 DEF Vis
<1>12. Vis(new)' \subseteq {w}
  BY <1>2 DEF Vis
<1>13. w.id \notin Found
  BY <1>7, <1>10 DEF Vis, HasId
<1>14. PICK V, N : V = Vis(D) /\ N = Vis(new)' /\ N \subseteq {w}
  BY <1>12
<1>15. Found' = Found \/ Found' = Found \cup {w.id}
  <2>1. Found = {x.id : x \in V} /\ Found' = {x.id : x \in V \cup N}
    BY <1>10, <1>11, <1>14
  <2>2. CASE N = {}
    BY <2>1, <2>2
  <2>3. CASE N = {w}
    BY <2>1, <2>3
  <2> QED
    BY <1>14, <2>2, <2>3
<1> QED
  BY <1>13, <1>15

(* What is promised of it can be found.                                    *)
LEMMA PutPromised ==
    ASSUME RecInv, NEW w, NEW acks, NEW puts, NEW new, NEW hid, Put(w, acks, puts, new, hid)
    PROVE  R!Promised' \in {R!Promised, R!Promised \cup {w.id}}
<1>1. /\ r_acked' = r_acked \cup acks /\ \A a \in acks : a.id = w.id
      /\ hid \subseteq {w.id} /\ r_exposed' = r_exposed \cup hid
      /\ \A a \in r_acked : a.id # w.id
  <2>1. \A a \in r_acked : a.id \in Nat /\ a.id < w.id
    BY PutFacts
  <2>2. w.id \in Nat
    BY PutFacts
  <2>3. \A a \in r_acked : a.id # w.id
    BY <2>1, <2>2
  <2> QED
    BY <2>3 DEF Put
<1>2. \A i : i \in R!Promised <=> (\E a \in r_acked : a.sync /\ a.id = i) /\ i \notin r_exposed
  BY DEF R!Promised
<1>3. \A i : i \in R!Promised' <=> (\E a \in r_acked' : a.sync /\ a.id = i) /\ i \notin r_exposed'
  BY DEF R!Promised
<1>4. \A i : i # w.id => (i \in R!Promised' <=> i \in R!Promised)
  BY <1>1, <1>2, <1>3
<1>5. w.id \notin R!Promised
  BY <1>1, <1>2
<1>6. CASE w.id \in R!Promised'
  <2>1. \A i : i \in R!Promised' <=> i \in R!Promised \cup {w.id}
    BY <1>4, <1>6
  <2> QED
    BY <2>1
<1>7. CASE w.id \notin R!Promised'
  <2>1. \A i : i \in R!Promised' <=> i \in R!Promised
    BY <1>4, <1>5, <1>7
  <2> QED
    BY <2>1
<1> QED
  BY <1>6, <1>7

(* A write of the contract.                                                *)
LEMMA ContractWrites ==
    ASSUME RecInv, FoundIsWhole, FoundIsWhole', r_issued < MaxWrites, MaxWrites \in Nat,
           NEW w, NEW acks, NEW puts, NEW new, NEW hid, Put(w, acks, puts, new, hid)
    PROVE  R!Contract!Next
<1>1. w.id \in 1..MaxWrites
  BY PutFacts
<1>2. PICK i \in 1..MaxWrites : i = w.id
  BY <1>1
<1>3. PICK c, d, p, q : /\ c = R!Ids(R!Recoverable) \ r_exposed
                        /\ d = (R!Ids(R!Recoverable) \ r_exposed)'
                        /\ p = R!Promised /\ q = R!Promised'
  OBVIOUS
<1>4. c = Found /\ d = Found' /\ q \subseteq d
  BY <1>3 DEF FoundIsWhole
<1>5. i \notin c /\ d \in {c, c \cup {i}}
  BY <1>2, <1>4, PutFound
<1>6. q \in {p, p \cup ({i} \cap d)}
  <2>1. q = p \/ q = p \cup {i}
    BY <1>2, <1>3, PutPromised
  <2>2. ASSUME q = p \cup {i} PROVE {i} \cap d = {i}
    BY <1>4, <2>2
  <2> QED
    BY <2>1, <2>2
<1>7. r_db.step # "down" /\ r_db'.step # "down"
  BY DEF Put
<1>8. R!Contract!Write(i)
  BY <1>3, <1>5, <1>6, <1>7 DEF R!Contract!Write
<1> QED
  BY <1>8 DEF R!Contract!Next

(* What an edit does to the manifest is not found before CURRENT names it, *)
(* and makes no difference afterwards.                                     *)
LEMMA EditFindsSame ==
    ASSUME RecInv, R!LogEdit \/ R!SyncManifest \/ R!SetCurrentFile \/ R!Install \/ R!DeleteObsoleteFiles
    PROVE  Found' = Found /\ UNCHANGED <<r_acked,
                                         r_exposed>> /\ r_db.step # "down" /\ r_db'.step # "down"
<1>1. DBTyped /\ Phase /\ ManifestsTyped /\ r_db \in DBRec
  BY DEF RecInv, RecTyped, RecPhase, DBTyped
<1>2. r_db.at # "none" /\ r_db.step \in {"newlog", "open"} /\ r_current # 0
  <2>1. r_db.at # "none"
    BY DEF R!LogEdit, R!SyncManifest, R!SetCurrentFile, R!Install, R!DeleteObsoleteFiles
  <2> QED
    BY <1>1, <2>1, Edits
<1>3. r_current \in DOMAIN r_manifests
  BY <1>1, <1>2 DEF ManifestsTyped
<1>4. UNCHANGED <<r_acked, r_exposed>>
  BY DEF R!LogEdit, R!SyncManifest, R!SetCurrentFile, R!Install, R!DeleteObsoleteFiles, R!ghosts
<1>5. r_db'.step \in {r_db.step, "open"}
  BY <1>1 DEF DBRec, R!LogEdit, R!SyncManifest, R!SetCurrentFile, R!Install, R!DeleteObsoleteFiles
<1>6. CASE R!LogEdit /\ ~r_db.described
  <2>1. r_db.step = "newlog"
    BY <1>1, <1>2, <1>6 DEF Phase
  <2>2. r_current < r_db.manifest /\ r_current \in Nat /\ r_db.manifest \in Nat
    BY <1>6, <2>1, WhileRecovering
  <2>3. r_current # r_db.manifest
    BY <2>2
  <2>4. r_manifests' = R!With(r_manifests, r_db.manifest, R!File(<<R!Snapshot, EditOut>>, 0))
        /\ UNCHANGED <<r_logs, r_tables, r_exposed, r_current>>
    BY <1>6 DEF R!LogEdit, R!ghosts, EditOut
  <2>5. r_manifests'[r_current] = r_manifests[r_current]
    BY <1>3, <2>3, <2>4 DEF R!With
  <2> QED
    BY <1>2, <1>4, <1>5, <2>4, <2>5, SameFound
<1>7. CASE R!LogEdit /\ r_db.described
  BY <1>2, <1>4, <1>5, <1>7, LogNextEditKeeps
<1>8. CASE R!SyncManifest
  <2>1. UNCHANGED <<r_logs, r_tables, r_exposed, r_current>>
        /\ r_manifests' = [r_manifests EXCEPT ![r_db.manifest].synced = Len(r_manifests[r_db.manifest].recs)]
    BY <1>8 DEF R!SyncManifest, R!ghosts
  <2>2. r_manifests[r_current] \in Manifest
    BY <1>1, <1>3 DEF ManifestsTyped
  <2>3. r_manifests'[r_current].recs = r_manifests[r_current].recs
    BY <1>3, <2>1, <2>2 DEF Manifest
  <2> QED
    BY <1>2, <1>4, <1>5, <2>1, <2>3, SameFound
<1>9. CASE R!SetCurrentFile \/ R!DeleteObsoleteFiles
  BY <1>2, <1>4, <1>5, <1>9, SetCurrentFileKeeps, DeleteObsoleteFilesKeeps
<1>10. CASE R!Install
  <2>1. UNCHANGED <<r_logs, r_tables, r_exposed, r_current, r_manifests>>
    BY <1>10 DEF R!Install, R!disk, R!ghosts
  <2> QED
    BY <1>2, <1>4, <1>5, <2>1, SameFound
<1> QED
  BY <1>6, <1>7, <1>8, <1>9, <1>10

(* Nor does it matter how far a process has come with opening, what it     *)
(* replays, or what it moves from the memtables to tables.                 *)
LEMMA WorkFindsSame ==
    ASSUME RecInv,
           \/ R!PointToNewDB \/ R!RecoverVersions \/ R!RecoverLogFile \/ R!CreateLog
           \/ R!SwitchMemTable \/ R!CompactMemTable \/ R!Compact
    PROVE  Found' = Found /\ UNCHANGED <<r_acked,
                                         r_exposed>> /\ r_db.step # "down" /\ r_db'.step # "down"
<1>1. r_db \in DBRec
  BY DEF RecInv, RecTyped, DBTyped
<1>2. UNCHANGED <<r_acked, r_exposed>>
  BY DEF R!PointToNewDB, R!RecoverVersions, R!RecoverLogFile, R!CreateLog, R!SwitchMemTable,
         R!CompactMemTable, R!Compact, R!ghosts
<1>3. r_db.step # "down"
  BY DEF R!PointToNewDB, R!RecoverVersions, R!RecoverLogFile, R!CreateLog, R!SwitchMemTable,
         R!CompactMemTable, R!Compact
<1>4. CASE R!RecoverVersions
  <2>1. UNCHANGED <<r_logs, r_tables, r_exposed, r_current, r_manifests>>
    BY <1>4 DEF R!RecoverVersions, R!disk, R!ghosts
  <2>2. r_db'.step = "corrupt" \/ r_db'.step = "logs"
    BY <1>1, <1>4 DEF DBRec, R!RecoverVersions, R!Down
  <2> QED
    BY <1>2, <1>3, <2>1, <2>2, SameFound
<1>5. CASE R!PointToNewDB \/ R!RecoverLogFile \/ R!CreateLog
  <2>1. r_db'.step \in {"versions", "logs", "newlog"}
    BY <1>1, <1>5 DEF DBRec, R!PointToNewDB, R!RecoverLogFile, R!CreateLog
  <2> QED
    BY <1>2, <1>3, <1>5, <2>1, PointToNewDBKeeps, RecoverLogFileKeeps, CreateLogKeeps
<1>6. CASE R!SwitchMemTable \/ R!CompactMemTable \/ R!Compact
  <2>1. r_db'.step = "open"
    BY <1>1, <1>6 DEF DBRec, R!SwitchMemTable, R!CompactMemTable, R!Compact
  <2> QED
    BY <1>2, <1>3, <1>6, <2>1, SwitchMemTableKeeps, CompactMemTableKeeps, CompactKeeps
<1> QED
  BY <1>4, <1>5, <1>6

(* DBImpl::Recover begins.                                                 *)
LEMMA BeginsContract ==
    ASSUME RecInv, FoundIsWhole, FoundIsWhole', R!NewDB \/ R!OpenExisting
    PROVE  R!Contract!Next
<1>1. r_db \in DBRec
  BY DEF RecInv, RecTyped, DBTyped
<1>2. UNCHANGED <<r_logs, r_tables, r_acked, r_exposed, r_current>> /\ r_db.step = "down"
  BY DEF R!NewDB, R!OpenExisting, R!disk, R!ghosts
<1>3. r_current # 0 => r_manifests' = r_manifests
  BY DEF R!NewDB, R!OpenExisting, R!disk
<1>4. Found' = Found
  BY <1>2, <1>3, SameFound
<1>5. r_db'.step # "down"
  BY <1>1 DEF DBRec, R!NewDB, R!OpenExisting
<1> QED
  BY <1>2, <1>4, <1>5, ContractStarts

(* A crash may leave an earlier version of the manifest; it shows the same *)
(* data as the last one, of which the ends of logs may be missing.         *)
LEMMA CrashFindsLess == ASSUME RecInv, R!Crash PROVE Found' \subseteq Found
<1>1. /\ r_logs' \in R!LeftOver(r_logs) /\ r_manifests' \in R!LeftOver(r_manifests)
      /\ UNCHANGED <<r_current, r_tables, r_exposed>>
  BY DEF R!Crash
<1>2. LogsTyped /\ ManifestsTyped /\ VersionsSound
  BY DEF RecInv, RecTyped
<1>3. CASE r_current = 0
  BY <1>1, <1>3 DEF Found
<1>4. CASE r_current # 0
  <2>1. ManifestsTyped' /\ \A v \in Survivors' : v \in Survivors /\ LastVersion' = v
    BY <1>1, <1>2, CutManifests
  <2>2. LastVersion' \in Survivors'
    <3>1. PICK recs, c, s : recs = Current' /\ c = r_current' /\ s = r_manifests'[c].synced
      OBVIOUS
    <3>2. recs \in Seq(EditRec) /\ s \in Nat /\ s <= Len(recs) /\ c # 0
      BY <1>1, <1>4, <2>1, <3>1 DEF ManifestsTyped, Manifest, Current
    <3>3. PICK n \in Nat : n = Len(recs)
      BY <3>2, LenProperties
    <3>4. SubSeq(recs, 1, n) = recs /\ n \in s..Len(recs)
      BY <3>2, <3>3, SubSeqFull
    <3>5. /\ Survivors' = {R!Apply(SubSeq(recs, 1, k)) : k \in s..Len(recs)}
          /\ LastVersion' = R!Apply(recs)
      BY <3>1, <3>2 DEF Survivors, LastVersion
    <3> QED
      BY <3>4, <3>5
  <2>3. PICK u : u = LastVersion' /\ u \in Survivors
    BY <1>1, <1>4, <2>1, <2>2
  <2>4. Vis(Data(u)) = Vis(Data(LastVersion))
    BY <1>2, <2>3 DEF VersionsSound, Agrees
  <2>5. Data(u)' \subseteq Data(u)
    <3>1. TablesOf(u.files)' = TablesOf(u.files)
      BY <1>1 DEF TablesOf
    <3>2. LogData(u.log)' \subseteq LogData(u.log)
      BY <1>1, <1>2, CutLogs
    <3> QED
      BY <3>1, <3>2 DEF Data
  <2>6. PICK D, E : D = Data(u) /\ E = Data(u)' /\ E = Data(LastVersion)' /\ E \subseteq D
    BY <2>3, <2>5
  <2>7. Found' = {w.id : w \in {x \in E : x.id \notin r_exposed}}
    BY <1>1, <1>4, <2>6 DEF Found, Vis
  <2>8. Found = {w.id : w \in {x \in D : x.id \notin r_exposed}}
    BY <1>4, <2>4, <2>6 DEF Found, Vis
  <2> QED
    BY <2>6, <2>7, <2>8
<1> QED
  BY <1>3, <1>4

(* A process ends: by a crash, at the end of DB's life, or because opening *)
(* the database fails.                                                     *)
LEMMA EndsContract ==
    ASSUME RecInv, FoundIsWhole, FoundIsWhole',
           \/ R!Crash \/ R!Close \/ R!OpenFails
           \/ R!LogAndApplyFails /\ ~r_db.described
    PROVE  R!Contract!Next
<1>1. r_db' = R!Down /\ r_db'.step = "down"
  BY DownIs DEF R!Crash, R!Close, R!OpenFails, R!LogAndApplyFails
<1>2. UNCHANGED <<r_acked, r_exposed>>
  BY DEF R!Crash, R!Close, R!OpenFails, R!LogAndApplyFails, R!ghosts
<1>3. CASE R!Crash
  <2>1. r_db.step # "down"
    BY <1>3 DEF R!Crash
  <2> QED
    BY <1>1, <1>2, <1>3, <2>1, CrashFindsLess, ContractEnds
<1>4. CASE R!Close \/ R!OpenFails
  <2>1. r_db.step # "down" /\ UNCHANGED <<r_logs, r_tables, r_exposed, r_current, r_manifests>>
    BY <1>4 DEF R!Close, R!OpenFails, R!disk, R!ghosts
  <2>2. Found' = Found
    BY <2>1, SameFound
  <2> QED
    BY <1>1, <1>2, <2>1, <2>2, ContractEnds
<1>5. CASE R!LogAndApplyFails /\ ~r_db.described
  <2>1. /\ r_db.at \in {"log", "sync", "point"}
        /\ UNCHANGED <<r_logs, r_tables, r_exposed, r_current>>
        /\ r_manifests' = R!Only(r_manifests, DOMAIN r_manifests \ {r_db.manifest})
    BY <1>5 DEF R!LogAndApplyFails, R!ghosts
  <2>2. Phase /\ DBTyped /\ ManifestsTyped
    BY DEF RecInv, RecTyped, RecPhase
  <2>3. r_db.step = "newlog"
    BY <1>5, <2>1, <2>2, Edits DEF Phase
  <2>4. r_current # 0 /\ r_current < r_db.manifest /\ r_current \in Nat /\ r_db.manifest \in Nat
    BY <1>5, <2>3, WhileRecovering
  <2>5. r_current \in DOMAIN r_manifests \ {r_db.manifest}
    BY <2>2, <2>4 DEF ManifestsTyped
  <2>6. r_manifests'[r_current] = r_manifests[r_current]
    BY <2>1, <2>5 DEF R!Only
  <2>7. Found' = Found
    BY <2>1, <2>6, SameFound
  <2> QED
    BY <1>1, <1>2, <2>3, <2>7, ContractEnds
<1> QED
  BY <1>3, <1>4, <1>5

(* A background edit that fails stops writes, and is not found.            *)
LEMMA FailedEditFindsSame ==
    ASSUME RecInv, R!LogAndApplyFails, r_db.described
    PROVE  Found' = Found /\ UNCHANGED <<r_acked, r_exposed>> /\ r_db'.step = r_db.step
<1>1. UNCHANGED <<r_logs, r_tables, r_exposed, r_current, r_manifests, r_acked>>
  BY DEF R!LogAndApplyFails, R!ghosts
<1>2. r_db' = [r_db EXCEPT !.at = "none", !.edit = R!NoEdit, !.bg_error = TRUE] /\ r_db \in DBRec
  BY DEF R!LogAndApplyFails, RecInv, RecTyped, DBTyped
<1>3. r_db'.step = r_db.step
  BY <1>2 DEF DBRec
<1> QED
  BY <1>1, <1>3, SameFound

(* Every step of the files is a step of the contract, or none.             *)
LEMMA StepKeepsContract ==
    ASSUME RecInv, FoundIsWhole, FoundIsWhole', [R!Next]_R!vars
    PROVE  [R!Contract!Next]_R!Contract!vars
<1>1. CASE UNCHANGED R!vars
  <2>1. UNCHANGED <<r_logs, r_tables, r_exposed, r_current, r_manifests, r_acked, r_db>>
    BY <1>1 DEF R!vars, R!disk, R!ghosts
  <2> QED
    BY <2>1, SameFound, ContractStutters
<1>2. CASE R!Opening
  <2>1. CASE R!NewDB \/ R!OpenExisting
    BY <2>1, BeginsContract
  <2>2. CASE R!LogEdit \/ R!SyncManifest \/ R!SetCurrentFile \/ R!Install \/ R!DeleteObsoleteFiles
    BY <2>2, EditFindsSame, ContractStutters
  <2>3. CASE R!PointToNewDB \/ R!RecoverVersions \/ R!RecoverLogFile \/ R!CreateLog
    BY <2>3, WorkFindsSame, ContractStutters
  <2> QED
    BY <1>2, <2>1, <2>2, <2>3 DEF R!Opening
<1>3. MaxWrites \in Nat
  BY RecoveryParameters DEF R!RecoveryAssumption
<1>4. CASE \E s \in BOOLEAN : R!Write(s)
  <2>1. r_issued < MaxWrites
    BY <1>4 DEF R!Write
  <2>2. \E w_, acks, puts, new_, hid_ : Put(w_, acks, puts, new_, hid_)
    BY <1>4, WritePuts
  <2> QED
    BY <1>3, <2>1, <2>2, ContractWrites
<1>5. CASE R!WriteFails
  <2>1. r_issued < MaxWrites
    BY <1>5 DEF R!WriteFails
  <2>2. \E w_, acks, puts, new_, hid_ : Put(w_, acks, puts, new_, hid_)
    BY <1>5, WriteFailsPuts
  <2> QED
    BY <1>3, <2>1, <2>2, ContractWrites
<1>6. CASE R!SwitchMemTable \/ R!CompactMemTable \/ R!Compact
  BY <1>6, WorkFindsSame, ContractStutters
<1>7. CASE R!LogAndApplyFails
  <2>1. CASE r_db.described
    BY <1>7, <2>1, FailedEditFindsSame, ContractStutters
  <2>2. CASE ~r_db.described
    BY <1>7, <2>2, EndsContract
  <2> QED
    BY <2>1, <2>2
<1>8. CASE R!OpenFails \/ R!Crash \/ R!Close
  BY <1>8, EndsContract
<1> QED
  BY <1>1, <1>2, <1>4, <1>5, <1>6, <1>7, <1>8 DEF R!Next

(* Before the first process the store is empty, and nothing is promised.   *)
LEMMA InitContract == PartsInit => R!Contract!Init
<1> SUFFICES ASSUME PartsInit PROVE R!Contract!Init
  OBVIOUS
<1>1. r_acked = {} /\ DOMAIN r_manifests = {} /\ r_current = 0 /\ r_db = R!Down
  BY DEF PartsInit, R!Init
<1>2. R!Ids(R!Recoverable) = {} /\ R!Promised = {}
  BY <1>1 DEF R!Recoverable, R!Ids, R!Promised
<1>3. r_db.step = "down"
  BY <1>1, DownIs
<1> QED
  BY <1>2, <1>3 DEF R!Contract!Init

(* Every step of the files of leveldb (DBImpl::Recover, DBImpl::Write,     *)
(* LogAndApply, the compactions, a failure of any of them, a crash) is a   *)
(* step of the store that StoreContract describes, or changes nothing that *)
(* can be read: whatever the number of writes, crashes, failures and       *)
(* files.  The writes put into a log behind a failed append are neither    *)
(* among the contents nor promised: the code does not keep the contract    *)
(* for them.                                                               *)
THEOREM ContractKept == PartsSpec => ImplementsContract
<1>1. RecInv /\ FoundIsWhole /\ FoundIsWhole' /\ [PartsNext]_all => [R!Contract!Next]_R!Contract!vars
  <2> SUFFICES ASSUME RecInv, FoundIsWhole, FoundIsWhole', [PartsNext]_all
               PROVE  [R!Contract!Next]_R!Contract!vars
    OBVIOUS
  <2>1. [R!Next]_R!vars
    BY DEF PartsNext, RecoveryStep, WriteQueueStep, PosixFileStep, BackgroundQueueStep, all,
           RecoveryVars, R!vars, R!disk, R!ghosts
  <2> QED
    BY <2>1, StepKeepsContract
<1>2. PartsSpec => [][PartsNext]_all /\ PartsInit
  BY PTL DEF PartsSpec
<1>3. PartsSpec => [][R!Contract!Next]_R!Contract!vars
  BY <1>1, <1>2, RecoveryInductive, FoundWhole, PTL
<1>4. PartsSpec => R!Contract!Spec
  BY <1>2, <1>3, InitContract, PTL DEF R!Contract!Spec
<1> QED
  BY <1>4 DEF ImplementsContract, R!ImplementsContract
=============================================================================
