-------------------------- MODULE AssignmentLemmas --------------------------
(***************************************************************************)
(* Facts about the operators of Assignment, for any judges, teams, groups, *)
(* quota and key order: what the loops of processAssignedQueue pick, what  *)
(* the list is after them, and what filterAssignedQueue takes off it.      *)
(***************************************************************************)
EXTENDS Assignment, SequenceTheorems, TLAPS

(* A prefix is a sequence of elements of the whole, no longer than asked,  *)
(* and repeats nothing that the whole does not repeat.                     *)
LEMMA UptoFacts ==
    ASSUME NEW S, NEW s \in Seq(S), NEW n \in Nat
    PROVE  /\ Upto(s, n) \in Seq(S)
           /\ Len(Upto(s, n)) <= n
           /\ Len(Upto(s, n)) \in Nat
           /\ Range(Upto(s, n)) \subseteq Range(s)
           /\ IsInjective(s) => IsInjective(Upto(s, n))
<1> DEFINE m == IF n < Len(s) THEN n ELSE Len(s)
<1>1. m \in Nat /\ m <= Len(s) /\ m <= n
  BY LenProperties
<1>2. /\ Upto(s, n) = SubSeq(s, 1, m)
      /\ Len(SubSeq(s, 1, m)) = m
      /\ SubSeq(s, 1, m) \in Seq(S)
      /\ \A i \in 1..m : SubSeq(s, 1, m)[i] = s[i]
  BY <1>1, SubSeqProperties DEF Upto
<1>3. DOMAIN Upto(s, n) = 1..m /\ DOMAIN s = 1..Len(s)
  BY <1>2, LenProperties
<1> HIDE DEF m
<1>4. Range(Upto(s, n)) \subseteq Range(s)
  BY <1>1, <1>2, <1>3 DEF Range
<1>5. ASSUME IsInjective(s) PROVE IsInjective(Upto(s, n))
  BY <1>1, <1>2, <1>3, <1>5 DEF IsInjective
<1> QED
  BY <1>1, <1>2, <1>4, <1>5

(* Two repetition-free lists with nothing in common join to one.           *)
LEMMA JoinInjective ==
    ASSUME NEW S, NEW s \in Seq(S), NEW u \in Seq(S),
           IsInjective(s), IsInjective(u), Range(s) \cap Range(u) = {}
    PROVE  IsInjective(s \o u)
<1>1. /\ Len(s) \in Nat /\ Len(u) \in Nat
      /\ DOMAIN s = 1..Len(s) /\ DOMAIN u = 1..Len(u)
  BY LenProperties
<1>2. /\ s \o u \in Seq(S)
      /\ Len(s \o u) = Len(s) + Len(u)
      /\ \A i \in 1..(Len(s) + Len(u)) :
            (s \o u)[i] = IF i <= Len(s) THEN s[i] ELSE u[i - Len(s)]
  BY ConcatProperties
<1>3. DOMAIN (s \o u) = 1..(Len(s) + Len(u))
  BY <1>2, LenProperties
<1>4. \A a \in 1..Len(s), b \in 1..Len(u) : s[a] # u[b]
  BY <1>1 DEF Range
<1>5. ASSUME NEW a \in 1..(Len(s) + Len(u)), NEW b \in 1..(Len(s) + Len(u)),
             (s \o u)[a] = (s \o u)[b]
      PROVE  a = b
  <2>1. CASE a <= Len(s) /\ b <= Len(s)
    BY <1>1, <1>2, <1>5, <2>1 DEF IsInjective
  <2>2. CASE a > Len(s) /\ b > Len(s)
    <3>1. a - Len(s) \in DOMAIN u /\ b - Len(s) \in DOMAIN u
      BY <1>1, <2>2
    <3>2. u[a - Len(s)] = u[b - Len(s)]
      BY <1>1, <1>2, <1>5, <2>2
    <3> QED
      BY <1>1, <3>1, <3>2 DEF IsInjective
  <2>3. CASE a <= Len(s) /\ b > Len(s)
    <3>1. a \in 1..Len(s) /\ b - Len(s) \in 1..Len(u)
      BY <1>1, <2>3
    <3> QED
      BY <1>1, <1>2, <1>4, <1>5, <2>3, <3>1
  <2>4. CASE a > Len(s) /\ b <= Len(s)
    <3>1. b \in 1..Len(s) /\ a - Len(s) \in 1..Len(u)
      BY <1>1, <2>4
    <3> QED
      BY <1>1, <1>2, <1>4, <1>5, <2>4, <3>1
  <2> QED
    BY <1>1, <2>1, <2>2, <2>3, <2>4
<1> QED
  BY <1>3, <1>5 DEF IsInjective

(* What the two loops pick: teams the judge has left to score, within the  *)
(* room there is; and, when they do not spin, new to the list, each once.  *)
LEMMA PicksFacts ==
    ASSUME NEW tree \in Tree, NEW sheets \in [Teams -> SUBSET Judges], NEW j \in Judges
    PROVE  /\ Picks(tree, sheets, j) \in Seq(Teams)
           /\ Range(Picks(tree, sheets, j)) \subseteq Remaining(sheets, j)
           /\ Len(Picks(tree, sheets, j)) <= teamsToAdd(tree, j)
           /\ ~Spins(tree, sheets, j) =>
                 /\ IsInjective(Picks(tree, sheets, j))
                 /\ Range(tree.queue[j]) \cap Range(Picks(tree, sheets, j)) = {}
<1> DEFINE left == Remaining(sheets, j)
           free == {t \in left : tree.judgeAssigned[t] = Nobody}
           first == FirstPicks(tree, sheets, j)
           second == SecondPicks(tree, sheets, j)
           room == teamsToAdd(tree, j)
<1>1. left \in SUBSET Teams /\ free \in SUBSET Teams /\ free \subseteq left
  BY DEF Remaining
<1>2. /\ KeyOrder[left] \in Seq(left) /\ IsInjective(KeyOrder[left])
      /\ KeyOrder[free] \in Seq(free) /\ IsInjective(KeyOrder[free])
  BY <1>1, KeyOrderAssumption DEF ListsOnce
<1>3. room \in Nat
  <2>1. tree.queue[j] \in Seq(Teams)
    BY DEF Tree
  <2> QED
    BY <2>1, LenProperties, QuotaAssumption DEF teamsToAdd
<1>4. /\ first \in Seq(free) /\ Len(first) <= room /\ Len(first) \in Nat
      /\ IsInjective(first)
  <2>1. first = Upto(KeyOrder[free], room)
    BY DEF FirstPicks, filteredTeams
  <2> HIDE DEF first, room, left, free
  <2> QED
    BY <1>2, <1>3, <2>1, UptoFacts
<1>5. /\ second \in Seq(left) /\ Len(second) <= room - Len(first)
      /\ Len(second) \in Nat /\ IsInjective(second)
  <2>1. second = Upto(KeyOrder[left], room - Len(first))
    BY DEF SecondPicks, preferredTeams
  <2>2. room - Len(first) \in Nat
    BY <1>3, <1>4
  <2> HIDE DEF first, second, room, left, free
  <2> QED
    BY <1>2, <2>1, <2>2, UptoFacts
<1>6. Picks(tree, sheets, j) = first \o second
  BY DEF Picks
<1>7. Spins(tree, sheets, j) <=>
         \/ Range(first) \cap Range(tree.queue[j]) # {}
         \/ Range(second) \cap (Range(tree.queue[j]) \cup Range(first)) # {}
  BY DEF Spins
<1> HIDE DEF first, second, room, left, free
<1>8. first \in Seq(left)
  BY <1>1, <1>4, SeqMonotonic
<1>9. /\ first \o second \in Seq(left)
      /\ Len(first \o second) = Len(first) + Len(second)
  BY <1>5, <1>8, ConcatProperties
<1>10. Range(first \o second) = Range(first) \cup Range(second)
  BY <1>5, <1>8, RangeConcatenation
<1>11. Range(first \o second) \subseteq left
  BY <1>9, RangeOfSeq
<1>12. first \o second \in Seq(Teams)
  BY <1>1, <1>9, SeqMonotonic
<1>13. ASSUME ~Spins(tree, sheets, j)
       PROVE  /\ IsInjective(first \o second)
              /\ Range(tree.queue[j]) \cap Range(first \o second) = {}
  <2>1. /\ Range(first) \cap Range(second) = {}
        /\ Range(tree.queue[j]) \cap Range(first) = {}
        /\ Range(tree.queue[j]) \cap Range(second) = {}
    BY <1>7, <1>13
  <2>2. IsInjective(first \o second)
    BY <1>4, <1>5, <1>8, <2>1, JoinInjective
  <2> QED
    BY <1>10, <2>1, <2>2
<1>14. Len(first \o second) <= room
  BY <1>3, <1>4, <1>5, <1>9
<1> QED
  BY <1>6, <1>11, <1>12, <1>13, <1>14 DEF left, room

(* Filtering a team out of a repetition-free list removes that team, and   *)
(* nothing else, and adds nothing.                                         *)
LEMMA WithoutFacts ==
    ASSUME NEW S, NEW s \in Seq(S), NEW t, IsInjective(s)
    PROVE  /\ Without(s, t) \in Seq(S)
           /\ Len(Without(s, t)) <= Len(s)
           /\ IsInjective(Without(s, t))
           /\ Range(Without(s, t)) = Range(s) \ {t}
<1>1. Len(s) \in Nat /\ DOMAIN s = 1..Len(s) /\ s \in [1..Len(s) -> S]
  BY LenProperties
<1>2. CASE t \notin Range(s)
  BY <1>1, <1>2 DEF Without
<1>3. CASE t \in Range(s)
  <2> DEFINE at == CHOOSE i \in 1..Len(s) : s[i] = t
             w == [k \in 1..(Len(s) - 1) |-> IF k < at THEN s[k] ELSE s[k + 1]]
  <2>1. \E i \in 1..Len(s) : s[i] = t
    BY <1>1, <1>3 DEF Range
  <2>2. at \in 1..Len(s) /\ s[at] = t
    BY <2>1
  <2>3. Without(s, t) = w
    BY <1>3 DEF Without
  <2> HIDE DEF at
  <2>4. Len(s) - 1 \in Nat
    BY <1>1, <2>2
  <2>5. \A k \in 1..(Len(s) - 1) : w[k] = IF k < at THEN s[k] ELSE s[k + 1]
    OBVIOUS
  <2>6. \A k \in 1..(Len(s) - 1) : w[k] \in S
    BY <1>1, <2>2, <2>5
  <2>7. w \in [1..(Len(s) - 1) -> S]
    BY <2>6
  <2>8. w \in Seq(S) /\ Len(w) = Len(s) - 1 /\ DOMAIN w = 1..(Len(s) - 1)
    BY <2>4, <2>7, SeqDef, LenProperties
  <2> HIDE DEF w
  <2>9. IsInjective(w)
    <3>1. SUFFICES ASSUME NEW a \in 1..(Len(s) - 1), NEW b \in 1..(Len(s) - 1),
                          w[a] = w[b]
                   PROVE  a = b
      BY <2>8 DEF IsInjective
    <3>2. \A x, y \in 1..Len(s) : s[x] = s[y] => x = y
      BY <1>1 DEF IsInjective
    <3>3. a \in 1..Len(s) /\ a + 1 \in 1..Len(s) /\ b \in 1..Len(s) /\ b + 1 \in 1..Len(s)
      BY <1>1
    <3> QED
      BY <2>2, <2>5, <3>1, <3>2, <3>3
  <2>10. ASSUME NEW i \in 1..Len(s), s[i] # t
         PROVE  s[i] \in Range(w)
    <3>1. CASE i < at
      <4>1. i \in 1..(Len(s) - 1) /\ w[i] = s[i]
        BY <1>1, <2>2, <2>5, <3>1
      <4> QED
        BY <2>8, <4>1 DEF Range
    <3>2. CASE i > at
      <4>1. i - 1 \in 1..(Len(s) - 1) /\ w[i - 1] = s[i]
        BY <1>1, <2>2, <2>5, <3>2
      <4> QED
        BY <2>8, <4>1 DEF Range
    <3> QED
      BY <1>1, <2>2, <2>10, <3>1, <3>2
  <2>11. ASSUME NEW k \in 1..(Len(s) - 1)
         PROVE  w[k] \in Range(s) \ {t}
    <3>1. PICK i \in 1..Len(s) : w[k] = s[i] /\ i # at
      BY <1>1, <2>2, <2>5
    <3> QED
      BY <1>1, <2>2, <3>1 DEF Range, IsInjective
  <2>12. Range(w) = Range(s) \ {t}
    BY <1>1, <2>8, <2>10, <2>11 DEF Range
  <2> QED
    BY <1>1, <2>3, <2>8, <2>9, <2>12
<1> QED
  BY <1>2, <1>3


-----------------------------------------------------------------------------
(* A prefix is as long as was asked for, or it is everything there is.     *)
LEMMA UptoIsFullOrAll ==
    ASSUME NEW S, NEW s \in Seq(S), NEW n \in Nat
    PROVE  Len(Upto(s, n)) = n \/ Upto(s, n) = s
<1>1. Len(s) \in Nat /\ DOMAIN s = 1..Len(s) /\ s \in [1..Len(s) -> S]
  BY LenProperties
<1>2. CASE n < Len(s)
  <2>1. Upto(s, n) = SubSeq(s, 1, n)
    BY <1>2 DEF Upto
  <2>2. Len(SubSeq(s, 1, n)) = n
    BY <1>1, <1>2, SubSeqProperties
  <2> QED
    BY <2>1, <2>2
<1>3. CASE ~(n < Len(s))
  <2>1. Upto(s, n) = SubSeq(s, 1, Len(s))
    BY <1>3 DEF Upto
  <2>2. /\ SubSeq(s, 1, Len(s)) \in Seq(S)
        /\ Len(SubSeq(s, 1, Len(s))) = Len(s)
        /\ \A i \in 1..Len(s) : SubSeq(s, 1, Len(s))[i] = s[i]
    BY <1>1, SubSeqProperties
  <2>3. SubSeq(s, 1, Len(s)) = s
    BY <2>2, SeqEqual
  <2> QED
    BY <2>1, <2>3
<1> QED
  BY <1>2, <1>3

(* The two loops go on until the list is full or has all that is left.     *)
LEMMA AssignFills ==
    ASSUME NEW tree \in Tree, NEW sheets \in [Teams -> SUBSET Judges], NEW j \in Judges,
           Len(tree.queue[j]) <= Quota
    PROVE  LET list == processAssignedQueue(tree, sheets, j).queue[j]
           IN  \/ Len(list) = Quota
               \/ Remaining(sheets, j) \subseteq Range(list)
<1> DEFINE left == Remaining(sheets, j)
           first == FirstPicks(tree, sheets, j)
           second == SecondPicks(tree, sheets, j)
           room == teamsToAdd(tree, j)
           held == tree.queue[j]
           free == {t \in left : tree.judgeAssigned[t] = Nobody}
<1>1. left \in SUBSET Teams /\ free \in SUBSET Teams
  BY DEF Remaining
<1>2. held \in Seq(Teams) /\ Len(held) \in Nat /\ Len(held) <= Quota
  BY LenProperties DEF Tree
<1>3. room \in Nat /\ Len(held) + room = Quota
  <2>1. room = IF Len(held) < Quota THEN Quota - Len(held) ELSE 0
    BY DEF teamsToAdd
  <2> HIDE DEF room, held
  <2> QED
    BY <1>2, <2>1, QuotaAssumption
<1>4. /\ KeyOrder[left] \in Seq(left) /\ KeyOrder[free] \in Seq(free)
      /\ \A t \in left : \E i \in 1..Len(KeyOrder[left]) : KeyOrder[left][i] = t
  BY <1>1, KeyOrderAssumption DEF ListsOnce
<1>5. /\ first = Upto(KeyOrder[free], room)
      /\ second = Upto(KeyOrder[left], room - Len(first))
      /\ Picks(tree, sheets, j) = first \o second
      /\ processAssignedQueue(tree, sheets, j).queue[j] = held \o (first \o second)
  <2>1. tree.queue \in [Judges -> Seq(Teams)]
    BY DEF Tree
  <2> QED
    BY <2>1 DEF FirstPicks, filteredTeams, SecondPicks, preferredTeams, Picks,
                processAssignedQueue
<1> HIDE DEF left, first, second, room, held, free
<1>6. first \in Seq(free) /\ Len(first) \in Nat /\ Len(first) <= room
  BY <1>3, <1>4, <1>5, UptoFacts
<1>7. first \in Seq(Teams)
  BY <1>1, <1>6, SeqMonotonic
<1>8. room - Len(first) \in Nat
  BY <1>3, <1>6
<1>9. second \in Seq(left) /\ Len(second) \in Nat
  BY <1>4, <1>5, <1>8, UptoFacts
<1>10. second \in Seq(Teams)
  BY <1>1, <1>9, SeqMonotonic
<1>11. first \o second \in Seq(Teams) /\ Len(first \o second) = Len(first) + Len(second)
  BY <1>7, <1>10, ConcatProperties
<1>12. CASE Len(second) = room - Len(first)
  <2>1. Len(held \o (first \o second)) = Len(held) + (Len(first) + Len(second))
    BY <1>2, <1>11, ConcatProperties
  <2>2. Len(held) + (Len(first) + Len(second)) = Quota
    BY <1>2, <1>3, <1>6, <1>9, <1>12, QuotaAssumption
  <2> QED
    BY <1>5, <2>1, <2>2
<1>13. CASE second = KeyOrder[left]
  <2>1. DOMAIN second = 1..Len(second)
    BY <1>9, LenProperties
  <2>2. left \subseteq Range(second)
    BY <1>4, <1>13, <2>1 DEF Range
  <2>3. Range(held \o (first \o second)) = Range(held) \cup (Range(first) \cup Range(second))
    <3>1. Range(first \o second) = Range(first) \cup Range(second)
      BY <1>7, <1>10, RangeConcatenation
    <3>2. Range(held \o (first \o second)) = Range(held) \cup Range(first \o second)
      <4> DEFINE both == first \o second
      <4>1. both \in Seq(Teams)
        BY <1>11
      <4> HIDE DEF both
      <4>2. Range(held \o both) = Range(held) \cup Range(both)
        BY <1>2, <4>1, RangeConcatenation
      <4> QED
        BY <4>2 DEF both
    <3> QED
      BY <3>1, <3>2
  <2> QED
    BY <1>5, <2>2, <2>3 DEF left
<1> QED
  BY <1>4, <1>5, <1>8, <1>12, <1>13, UptoIsFullOrAll

(* While a team that nobody has is left out, no team that somebody has is  *)
(* picked: the second loop starts where the first has run out of teams.    *)
LEMMA FreeTeamsFirst ==
    ASSUME NEW tree \in Tree, NEW sheets \in [Teams -> SUBSET Judges], NEW j \in Judges,
           NEW t \in Range(Picks(tree, sheets, j)), tree.judgeAssigned[t] # Nobody,
           NEW u \in Remaining(sheets, j), tree.judgeAssigned[u] = Nobody
    PROVE  u \in Range(Picks(tree, sheets, j))
<1> DEFINE left == Remaining(sheets, j)
           free == {x \in left : tree.judgeAssigned[x] = Nobody}
           first == FirstPicks(tree, sheets, j)
           second == SecondPicks(tree, sheets, j)
           room == teamsToAdd(tree, j)
<1>1. /\ left \in SUBSET Teams /\ free \in SUBSET Teams /\ free \subseteq left
      /\ t \notin free /\ u \in free
  BY DEF Remaining
<1>2. /\ KeyOrder[left] \in Seq(left) /\ KeyOrder[free] \in Seq(free)
      /\ \A x \in free : \E i \in 1..Len(KeyOrder[free]) : KeyOrder[free][i] = x
  BY <1>1, KeyOrderAssumption DEF ListsOnce
<1>3. room \in Nat
  <2>1. tree.queue[j] \in Seq(Teams)
    BY DEF Tree
  <2> QED
    BY <2>1, LenProperties, QuotaAssumption DEF teamsToAdd
<1>4. /\ first = Upto(KeyOrder[free], room)
      /\ second = Upto(KeyOrder[left], room - Len(first))
      /\ Picks(tree, sheets, j) = first \o second
  BY DEF FirstPicks, filteredTeams, SecondPicks, preferredTeams, Picks
<1> HIDE DEF left, free, first, second, room
<1>5. first \in Seq(free) /\ Len(first) \in Nat /\ Len(first) <= room
  BY <1>2, <1>3, <1>4, UptoFacts
<1>6. room - Len(first) \in Nat
  BY <1>3, <1>5
<1>7. second \in Seq(left) /\ Len(second) <= room - Len(first) /\ Len(second) \in Nat
  BY <1>2, <1>4, <1>6, UptoFacts
<1>8. first \in Seq(left)
  BY <1>1, <1>5, SeqMonotonic
<1>9. Range(Picks(tree, sheets, j)) = Range(first) \cup Range(second)
  BY <1>4, <1>7, <1>8, RangeConcatenation
<1>10. t \in Range(second)
  <2>1. Range(first) \subseteq free
    BY <1>5, RangeOfSeq
  <2> QED
    BY <1>1, <1>9, <2>1
<1>11. Len(second) # 0
  BY <1>7, <1>10, LenProperties DEF Range
<1>12. first = KeyOrder[free]
  BY <1>2, <1>3, <1>4, <1>5, <1>7, <1>11, UptoIsFullOrAll
<1>13. u \in Range(first)
  BY <1>1, <1>2, <1>5, <1>12, LenProperties DEF Range
<1> QED
  BY <1>9, <1>13

(* What a top-up does to the subtree: it extends the judge's list by the   *)
(* picks, in the judge's name, and leaves the rest as it was.              *)
LEMMA AssignExtends ==
    ASSUME NEW tree \in Tree, NEW sheets \in [Teams -> SUBSET Judges], NEW j \in Judges
    PROVE  LET new == processAssignedQueue(tree, sheets, j)
               n == Len(tree.queue[j])
           IN  /\ n \in Nat /\ Len(new.queue[j]) \in Nat
               /\ new.queue[j] = tree.queue[j] \o Picks(tree, sheets, j)
               /\ n <= Len(new.queue[j])
               /\ \A i \in 1..n : new.queue[j][i] = tree.queue[j][i]
               /\ {new.queue[j][i] : i \in (n + 1)..Len(new.queue[j])}
                      = Range(Picks(tree, sheets, j))
               /\ \A k \in Judges \ {j} : new.queue[k] = tree.queue[k]
               /\ \A t \in Teams : new.judgeAssigned[t] =
                      IF t \in Range(Picks(tree, sheets, j)) THEN j ELSE tree.judgeAssigned[t]
<1> DEFINE picks == Picks(tree, sheets, j)
           held == tree.queue[j]
           new == processAssignedQueue(tree, sheets, j)
<1>1. picks \in Seq(Teams)
  BY PicksFacts
<1>2. tree.queue \in [Judges -> Seq(Teams)] /\ held \in Seq(Teams)
  BY DEF Tree
<1>3. /\ new.queue = [tree.queue EXCEPT ![j] = @ \o picks]
      /\ new.judgeAssigned =
            [t \in Teams |-> IF t \in Range(picks) THEN j ELSE tree.judgeAssigned[t]]
  BY DEF processAssignedQueue
<1> HIDE DEF picks, new
<1>4. new.queue[j] = held \o picks /\ \A k \in Judges \ {j} : new.queue[k] = tree.queue[k]
  BY <1>2, <1>3
<1> HIDE DEF held
<1>5. /\ Len(held) \in Nat /\ Len(picks) \in Nat
      /\ DOMAIN picks = 1..Len(picks)
      /\ Len(held \o picks) = Len(held) + Len(picks)
      /\ \A i \in 1..(Len(held) + Len(picks)) :
            (held \o picks)[i] = IF i <= Len(held) THEN held[i] ELSE picks[i - Len(held)]
  BY <1>1, <1>2, LenProperties, ConcatProperties
<1>6. {(held \o picks)[i] : i \in (Len(held) + 1)..(Len(held) + Len(picks))} = Range(picks)
  <2>1. ASSUME NEW i \in (Len(held) + 1)..(Len(held) + Len(picks))
        PROVE  (held \o picks)[i] \in Range(picks)
    <3>1. i - Len(held) \in 1..Len(picks) /\ (held \o picks)[i] = picks[i - Len(held)]
      BY <1>5
    <3> QED
      BY <1>5, <3>1 DEF Range
  <2>2. ASSUME NEW k \in 1..Len(picks)
        PROVE  \E i \in (Len(held) + 1)..(Len(held) + Len(picks)) : (held \o picks)[i] = picks[k]
    <3>1. /\ k + Len(held) \in (Len(held) + 1)..(Len(held) + Len(picks))
          /\ (held \o picks)[k + Len(held)] = picks[k]
      BY <1>5
    <3> QED
      BY <3>1
  <2>3. Range(picks) \subseteq
            {(held \o picks)[i] : i \in (Len(held) + 1)..(Len(held) + Len(picks))}
    BY <1>5, <2>2 DEF Range
  <2> QED
    BY <2>1, <2>3
<1>7. Len(held) <= Len(held) + Len(picks) /\ Len(held) + Len(picks) \in Nat
  BY <1>5
<1>8. \A i \in 1..Len(held) : (held \o picks)[i] = held[i]
  BY <1>5
<1> QED
  BY <1>3, <1>4, <1>5, <1>6, <1>7, <1>8 DEF held, picks, new

(* What a call sets when it does not spin tops up the judge's list as the  *)
(* contract says.                                                          *)
LEMMA AssignTopsUp ==
    ASSUME NEW tree \in Tree, NEW sheets \in [Teams -> SUBSET Judges], NEW j \in Judges,
           IsInjective(tree.queue[j]), Len(tree.queue[j]) <= Quota, ~Spins(tree, sheets, j)
    PROVE  TopUpOf(processAssignedQueue(tree, sheets, j), tree, sheets, j)
<1> DEFINE new == processAssignedQueue(tree, sheets, j)
           picks == Picks(tree, sheets, j)
           old == tree.queue[j]
<1>1. /\ picks \in Seq(Teams) /\ Range(picks) \subseteq Remaining(sheets, j)
      /\ Len(picks) <= teamsToAdd(tree, j)
      /\ IsInjective(picks) /\ Range(old) \cap Range(picks) = {}
  BY PicksFacts
<1>2. /\ Len(old) \in Nat /\ Len(new.queue[j]) \in Nat
      /\ new.queue[j] = old \o picks
      /\ Len(old) <= Len(new.queue[j])
      /\ \A i \in 1..Len(old) : new.queue[j][i] = old[i]
      /\ {new.queue[j][i] : i \in (Len(old) + 1)..Len(new.queue[j])} = Range(picks)
      /\ \A k \in Judges \ {j} : new.queue[k] = tree.queue[k]
      /\ \A t \in Teams : new.judgeAssigned[t] =
             IF t \in Range(picks) THEN j ELSE tree.judgeAssigned[t]
  BY AssignExtends
<1>3. Len(new.queue[j]) = Quota \/ Remaining(sheets, j) \subseteq Range(new.queue[j])
  BY AssignFills
<1>4. ASSUME NEW t \in Range(picks), tree.judgeAssigned[t] # Nobody,
             NEW u \in Remaining(sheets, j), tree.judgeAssigned[u] = Nobody
      PROVE  u \in Range(picks)
  BY <1>4, FreeTeamsFirst
<1>5. old \in Seq(Teams) /\ Len(picks) \in Nat
  BY <1>1, LenProperties DEF Tree
<1>6. /\ teamsToAdd(tree, j) = IF Len(old) < Quota THEN Quota - Len(old) ELSE 0
      /\ Len(old) <= Quota
  BY DEF teamsToAdd
<1> HIDE DEF new, picks, old
<1>7. /\ IsInjective(new.queue[j])
      /\ Range(new.queue[j]) = Range(old) \cup Range(picks)
      /\ Len(new.queue[j]) = Len(old) + Len(picks)
  BY <1>1, <1>2, <1>5, JoinInjective, RangeConcatenation, ConcatProperties DEF old
<1>8. Len(new.queue[j]) <= Quota
  BY <1>1, <1>2, <1>5, <1>6, <1>7, QuotaAssumption
<1>9. /\ Extends(new.queue[j], old)
      /\ Added(new.queue[j], old) = Range(picks)
  BY <1>2 DEF Extends, Added
<1>10. \A t \in Range(picks) : isPreferredTeam(j, t)
  BY <1>1 DEF Remaining
<1>11. (\E t \in Range(picks) : tree.judgeAssigned[t] # Nobody) =>
           \A u \in Remaining(sheets, j) :
               tree.judgeAssigned[u] = Nobody => u \in Range(new.queue[j])
  BY <1>4, <1>7
<1> QED
  BY <1>2, <1>3, <1>7, <1>8, <1>9, <1>10, <1>11 DEF TopUpOf, new, old

(* What a removal sets takes the team off the judge's list.                *)
LEMMA RemoveTakesOff ==
    ASSUME NEW tree \in Tree, NEW j \in Judges, NEW t \in Teams, IsInjective(tree.queue[j])
    PROVE  TakeOffOf(filterAssignedQueue(tree, j, t), tree, j, t)
<1> DEFINE new == filterAssignedQueue(tree, j, t)
<1>1. /\ tree.queue \in [Judges -> Seq(Teams)]
      /\ tree.judgeAssigned \in [Teams -> Judges \cup {Nobody}]
  BY DEF Tree
<1>2. Range(Without(tree.queue[j], t)) = Range(tree.queue[j]) \ {t}
  BY <1>1, WithoutFacts
<1>3. /\ new.queue = [tree.queue EXCEPT ![j] = Without(@, t)]
      /\ new.judgeAssigned = [tree.judgeAssigned EXCEPT ![t] = Nobody]
  BY DEF filterAssignedQueue
<1> HIDE DEF new
<1>4. /\ new.queue[j] = Without(tree.queue[j], t)
      /\ \A k \in Judges \ {j} : new.queue[k] = tree.queue[k]
  BY <1>1, <1>3
<1>5. /\ new.judgeAssigned[t] = Nobody
      /\ \A u \in Teams \ {t} : new.judgeAssigned[u] = tree.judgeAssigned[u]
  BY <1>1, <1>3
<1> QED
  BY <1>2, <1>4, <1>5 DEF TakeOffOf, new

(* What a top-up leaves to do can only shrink: it is still a top-up when   *)
(* more sheets are stored.                                                 *)
LEMMA TopUpStays ==
    ASSUME NEW new, NEW old, NEW sheets, NEW later, NEW j, TopUpOf(new, old, sheets, j),
           Remaining(later, j) \subseteq Remaining(sheets, j)
    PROVE  TopUpOf(new, old, later, j)
  BY DEF TopUpOf
=============================================================================
