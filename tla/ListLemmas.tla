----------------------------- MODULE ListLemmas -----------------------------
(***************************************************************************)
(* Numbers and lists, for the proofs about queues.  The least and the      *)
(* greatest element of a set of numbers come from the well-foundedness of  *)
(* < on the naturals.  They stand in for an induction: "the last call of   *)
(* the group", "the latest write of the outbox", "the first place where    *)
(* the recursive function goes wrong".                                     *)
(***************************************************************************)
EXTENDS Sift, Functions, SequenceTheorems, FiniteSetTheorems, WellFoundedInduction, TLAPS

(* A nonempty set of naturals has a least element.                        *)
LEMMA LeastNatural ==
    ASSUME NEW T, T \subseteq Nat, T # {}
    PROVE  \E x \in T : \A y \in T : x <= y
<1>1. IsWellFoundedOn(OpToRel(<, Nat), Nat)
  BY NatLessThanWellFounded
<1>2. PICK x \in T : \A y \in T : ~(<<y, x>> \in OpToRel(<, Nat))
  BY <1>1, WFMin
<1>3. ASSUME NEW y \in T PROVE ~(y < x)
  BY <1>2 DEF OpToRel
<1> QED
  BY <1>3

(* A nonempty set of numbers up to m has a greatest one: its distances to  *)
(* m have a least one.                                                     *)
LEMMA GreatestNatural ==
    ASSUME NEW m \in Nat, NEW T, T \subseteq 1..m, T # {}
    PROVE  \E x \in T : \A y \in T : y <= x
<1> DEFINE U == {m - y : y \in T}
<1>1. U \subseteq Nat /\ U # {}
  OBVIOUS
<1>2. PICK u \in U : \A y \in U : u <= y
  <2> HIDE DEF U
  <2> QED
    BY <1>1, LeastNatural
<1>3. PICK x \in T : u = m - x
  OBVIOUS
<1>4. ASSUME NEW y \in T PROVE y <= x
  <2>1. m - y \in U
    OBVIOUS
  <2>2. m - x <= m - y
    BY <1>2, <1>3, <2>1
  <2>3. x \in Nat /\ y \in Nat
    OBVIOUS
  <2> QED
    BY <2>2, <2>3
<1> QED
  BY <1>4

-----------------------------------------------------------------------------
(* Sifting.  A recursive function is what its equation says once there is  *)
(* a function that satisfies it: at the first length without one, the one  *)
(* for the length before can be extended.                                  *)
LEMMA SiftedEquation ==
    ASSUME NEW S, NEW s \in Seq(S), NEW P
    PROVE  \E upto : /\ Sifted(s, P) = upto[Len(s)]
                     /\ upto[0] = <<>>
                     /\ \A n \in 1..Len(s) :
                           upto[n] = IF s[n] \in P THEN Append(upto[n - 1], s[n])
                                     ELSE upto[n - 1]
<1> DEFINE Step(n, x) == IF s[n] \in P THEN Append(x, s[n]) ELSE x
           Is(f, m) == f = [n \in 0..m |-> IF n = 0 THEN <<>> ELSE Step(n, f[n - 1])]
           Bad == {m \in Nat : ~ \E f : Is(f, m)}
           upto == CHOOSE f : Is(f, Len(s))
<1>1. Len(s) \in Nat
  BY LenProperties
<1>2. Sifted(s, P) = upto[Len(s)]
  BY DEF Sifted
<1> HIDE DEF Step
<1>3. Bad = {}
  <2> SUFFICES ASSUME Bad # {} PROVE FALSE
    OBVIOUS
  <2>1. PICK m \in Bad : \A k \in Bad : m <= k
    <3>1. Bad \subseteq Nat
      OBVIOUS
    <3> HIDE DEF Bad
    <3> QED
      BY <3>1, LeastNatural
  <2>2. m \in Nat /\ ~ \E f : Is(f, m)
    OBVIOUS
  <2>3. m # 0
    <3> DEFINE f == [n \in 0..0 |-> <<>>]
    <3>1. Is(f, 0)
      OBVIOUS
    <3> HIDE DEF Is, f
    <3> QED
      BY <2>2, <3>1
  <2>4. m - 1 \in Nat /\ m - 1 \notin Bad
    <3> HIDE DEF Is
    <3> QED
      BY <2>1, <2>2, <2>3
  <2>5. PICK f : Is(f, m - 1)
    <3> HIDE DEF Is
    <3> QED
      BY <2>4
  <2> DEFINE g == [n \in 0..m |-> IF n = 0 THEN <<>> ELSE Step(n, f[n - 1])]
  <2>6. \A n \in 0..(m - 1) : f[n] = IF n = 0 THEN <<>> ELSE Step(n, f[n - 1])
    BY <2>5
  <2>7. \A n \in 0..m : g[n] = IF n = 0 THEN <<>> ELSE Step(n, f[n - 1])
    OBVIOUS
  <2>8. g = [n \in 0..m |-> g[n]]
    OBVIOUS
  <2> HIDE DEF g
  <2>9. \A n \in 0..m : n # 0 => g[n - 1] = f[n - 1]
    BY <2>4, <2>6, <2>7
  <2>10. \A n \in 0..m : g[n] = IF n = 0 THEN <<>> ELSE Step(n, g[n - 1])
    BY <2>7, <2>9
  <2>11. Is(g, m)
    BY <2>8, <2>10
  <2> HIDE DEF Is
  <2> QED
    BY <2>2, <2>11
<1>4. Is(upto, Len(s))
  <2>1. \E f : Is(f, Len(s))
    <3> HIDE DEF Is
    <3> QED
      BY <1>1, <1>3
  <2> HIDE DEF Is
  <2> QED
    BY <2>1
<1> HIDE DEF upto
<1>5. \A n \in 0..Len(s) : upto[n] = IF n = 0 THEN <<>> ELSE Step(n, upto[n - 1])
  BY <1>4
<1>6. upto[0] = <<>> /\ \A n \in 1..Len(s) : upto[n] = Step(n, upto[n - 1])
  BY <1>1, <1>5
<1> QED
  BY <1>2, <1>6 DEF Step

(* u has the elements of s that are in P, each as often and in the same    *)
(* order: they are found at places of s one after the other.               *)
TakenAt(s, P, u, at) ==
    /\ at \in [1..Len(u) -> 1..Len(s)]
    /\ \A k \in 1..Len(u) : u[k] = s[at[k]] /\ s[at[k]] \in P
    /\ \A k, l \in 1..Len(u) : k < l => at[k] < at[l]
    /\ \A i \in 1..Len(s) : s[i] \in P => \E k \in 1..Len(u) : at[k] = i

(* That is what sifting a list takes out of it.                            *)
LEMMA SiftedPlaces ==
    ASSUME NEW S, NEW s \in Seq(S), NEW P
    PROVE  Sifted(s, P) \in Seq(S) /\ \E at : TakenAt(s, P, Sifted(s, P), at)
<1>1. Len(s) \in Nat /\ \A i \in 1..Len(s) : s[i] \in S
  BY LenProperties, ElementOfSeq
<1>2. PICK upto :
         /\ Sifted(s, P) = upto[Len(s)]
         /\ upto[0] = <<>>
         /\ \A n \in 1..Len(s) :
               upto[n] = IF s[n] \in P THEN Append(upto[n - 1], s[n]) ELSE upto[n - 1]
  BY SiftedEquation
<1> DEFINE Places(at, n) ==
              /\ at \in [1..Len(upto[n]) -> 1..n]
              /\ \A k \in 1..Len(upto[n]) : upto[n][k] = s[at[k]] /\ s[at[k]] \in P
              /\ \A k, l \in 1..Len(upto[n]) : k < l => at[k] < at[l]
              /\ \A i \in 1..n : s[i] \in P => \E k \in 1..Len(upto[n]) : at[k] = i
           Good(n) == upto[n] \in Seq(S) /\ \E at : Places(at, n)
           Bad == {n \in 0..Len(s) : ~Good(n)}
<1>3. Bad = {}
  <2> SUFFICES ASSUME Bad # {} PROVE FALSE
    OBVIOUS
  <2>1. PICK n \in Bad : \A k \in Bad : n <= k
    <3>1. Bad \subseteq Nat
      BY <1>1
    <3> HIDE DEF Bad
    <3> QED
      BY <3>1, LeastNatural
  <2>2. n # 0
    <3>1. upto[0] \in Seq(S) /\ Len(upto[0]) = 0
      BY <1>2
    <3> DEFINE none == [k \in 1..0 |-> 0]
    <3>2. Places(none, 0)
      BY <3>1
    <3> HIDE DEF Places
    <3> QED
      BY <3>1, <3>2
  <2>3. n \in 1..Len(s) /\ n - 1 \in 0..Len(s) /\ n - 1 \notin Bad
    <3> HIDE DEF Good
    <3> QED
      BY <1>1, <2>1, <2>2
  <2>4. upto[n - 1] \in Seq(S) /\ Len(upto[n - 1]) \in Nat
    BY <2>3, LenProperties
  <2>5. PICK at : Places(at, n - 1)
    <3> HIDE DEF Places
    <3> QED
      BY <2>3
  <2>6. CASE s[n] \notin P
    <3>1. upto[n] = upto[n - 1]
      BY <1>2, <2>3, <2>6
    <3>2. at \in [1..Len(upto[n]) -> 1..n]
      BY <2>3, <2>5, <3>1
    <3>3. \A i \in 1..n : s[i] \in P => i \in 1..(n - 1)
      BY <2>3, <2>6
    <3>4. Places(at, n)
      BY <2>5, <3>1, <3>2, <3>3
    <3> HIDE DEF Places
    <3> QED
      BY <2>1, <2>4, <3>1, <3>4
  <2>7. CASE s[n] \in P
    <3> DEFINE len == Len(upto[n - 1])
               more == [k \in 1..(len + 1) |-> IF k = len + 1 THEN n ELSE at[k]]
    <3>1. upto[n] = Append(upto[n - 1], s[n]) /\ s[n] \in S
      BY <1>1, <1>2, <2>3, <2>7
    <3>2. /\ upto[n] \in Seq(S) /\ Len(upto[n]) = len + 1 /\ upto[n][len + 1] = s[n]
          /\ \A k \in 1..len : upto[n][k] = upto[n - 1][k]
      BY <2>4, <3>1, AppendProperties
    <3>3. /\ at \in [1..len -> 1..(n - 1)]
          /\ \A k \in 1..len : upto[n - 1][k] = s[at[k]] /\ s[at[k]] \in P
          /\ \A k, l \in 1..len : k < l => at[k] < at[l]
          /\ \A i \in 1..(n - 1) : s[i] \in P => \E k \in 1..len : at[k] = i
      BY <2>5
    <3> HIDE DEF len, Places
    <3>4. len \in Nat /\ \A k \in 1..(len + 1) : k = len + 1 \/ k \in 1..len
      BY <2>4 DEF len
    <3>5. /\ \A k \in 1..len : more[k] = at[k] /\ at[k] \in 1..(n - 1)
          /\ more[len + 1] = n /\ more \in [1..(len + 1) -> 1..n]
      BY <2>3, <3>3, <3>4
    <3> HIDE DEF more
    <3>6. \A k \in 1..(len + 1) : upto[n][k] = s[more[k]] /\ s[more[k]] \in P
      BY <2>7, <3>2, <3>3, <3>4, <3>5
    <3>7. \A k, l \in 1..(len + 1) : k < l => more[k] < more[l]
      <4> SUFFICES ASSUME NEW k \in 1..(len + 1), NEW l \in 1..(len + 1), k < l
                   PROVE  more[k] < more[l]
        OBVIOUS
      <4>1. k \in 1..len
        BY <3>4
      <4>2. CASE l = len + 1
        BY <2>3, <3>5, <4>1, <4>2
      <4>3. CASE l \in 1..len
        BY <3>3, <3>5, <4>1, <4>3
      <4> QED
        BY <3>4, <4>2, <4>3
    <3>8. \A i \in 1..n : s[i] \in P => \E k \in 1..(len + 1) : more[k] = i
      <4> SUFFICES ASSUME NEW i \in 1..n, s[i] \in P
                   PROVE  \E k \in 1..(len + 1) : more[k] = i
        OBVIOUS
      <4>1. CASE i = n
        BY <3>4, <3>5, <4>1
      <4>2. CASE i \in 1..(n - 1)
        <5>1. PICK k \in 1..len : at[k] = i
          BY <3>3, <4>2
        <5> QED
          BY <3>4, <3>5, <5>1
      <4> QED
        BY <2>3, <4>1, <4>2
    <3>9. Places(more, n)
      BY <3>2, <3>5, <3>6, <3>7, <3>8 DEF Places
    <3> QED
      BY <2>1, <3>2, <3>9
  <2> QED
    BY <2>6, <2>7
<1>4. Good(Len(s))
  <2> HIDE DEF Good
  <2> QED
    BY <1>1, <1>3
<1>5. PICK places : Places(places, Len(s))
  <2> HIDE DEF Places
  <2> QED
    BY <1>4
<1> DEFINE u == upto[Len(s)]
<1>6. /\ u \in Seq(S)
      /\ places \in [1..Len(u) -> 1..Len(s)]
      /\ \A k \in 1..Len(u) : u[k] = s[places[k]] /\ s[places[k]] \in P
      /\ \A k, l \in 1..Len(u) : k < l => places[k] < places[l]
      /\ \A i \in 1..Len(s) : s[i] \in P => \E k \in 1..Len(u) : places[k] = i
  BY <1>4, <1>5
<1>7. Sifted(s, P) = u
  BY <1>2
<1> HIDE DEF u
<1>8. TakenAt(s, P, u, places)
  BY <1>6 DEF TakenAt
<1> QED
  BY <1>6, <1>7, <1>8

(* ... so it has the elements of the list that are in the set, and repeats *)
(* nothing that the list does not.                                         *)
LEMMA SiftedFacts ==
    ASSUME NEW S, NEW s \in Seq(S), NEW P
    PROVE  /\ Sifted(s, P) \in Seq(S)
           /\ Range(Sifted(s, P)) = Range(s) \cap P
           /\ IsInjective(s) => IsInjective(Sifted(s, P))
<1> DEFINE u == Sifted(s, P)
<1>1. u \in Seq(S)
  BY SiftedPlaces
<1>2. PICK at : TakenAt(s, P, u, at)
  BY SiftedPlaces
<1> USE <1>2 DEF TakenAt
<1> HIDE DEF u
<1>3. /\ Len(s) \in Nat /\ Len(u) \in Nat
      /\ DOMAIN s = 1..Len(s) /\ DOMAIN u = 1..Len(u)
  BY <1>1, LenProperties
<1>4. Range(u) = Range(s) \cap P
  <2>1. \A x \in Range(u) : x \in Range(s) /\ x \in P
    BY <1>2, <1>3 DEF Range
  <2>2. ASSUME NEW x \in Range(s), x \in P PROVE x \in Range(u)
    <3>1. PICK i \in 1..Len(s) : x = s[i]
      BY <1>3 DEF Range
    <3>2. PICK k \in 1..Len(u) : at[k] = i
      BY <1>2, <2>2, <3>1
    <3>3. x = u[k]
      BY <1>2, <3>1, <3>2
    <3> QED
      BY <1>3, <3>3 DEF Range
  <2> QED
    BY <2>1, <2>2
<1>5. ASSUME IsInjective(s), NEW k \in DOMAIN u, NEW l \in DOMAIN u, u[k] = u[l]
      PROVE  k = l
  <2>1. at[k] = at[l]
    BY <1>2, <1>3, <1>5 DEF IsInjective
  <2>2. k \in Nat /\ l \in Nat /\ at[k] \in Nat
    BY <1>2, <1>3
  <2> QED
    BY <1>2, <1>3, <2>1, <2>2
<1> QED
  BY <1>1, <1>4, <1>5 DEF u, IsInjective

(* Taking the first element leaves the last one where it is.              *)
LEMMA TailFacts ==
    ASSUME NEW S, NEW s \in Seq(S), s # <<>>
    PROVE  /\ Head(s) \in S /\ Tail(s) \in Seq(S)
           /\ Tail(s) = <<>> => Head(s) = s[Len(s)]
           /\ Tail(s) # <<>> => Tail(s)[Len(Tail(s))] = s[Len(s)]
<1>1. PICK n \in Nat : n = Len(s)
  BY LenProperties
<1>2. n # 0
  BY <1>1, EmptySeq
<1>3. PICK t \in Seq(S) : t = Tail(s)
  BY HeadTailProperties
<1>4. /\ Len(t) = n - 1 /\ Head(s) = s[1] /\ Head(s) \in S
      /\ \A i \in 1..Len(t) : t[i] = s[i + 1]
  BY <1>1, <1>2, <1>3, HeadTailProperties, ElementOfSeq
<1>5. t = <<>> <=> n = 1
  BY <1>2, <1>4, EmptySeq
<1>6. t # <<>> => t[Len(t)] = s[n]
  BY <1>2, <1>4, <1>5
<1> QED
  BY <1>1, <1>3, <1>4, <1>5, <1>6

-----------------------------------------------------------------------------
(* What is on a list, how often and in which order.                        *)
Has(s, x) == \E i \in 1..Len(s) : s[i] = x
Precedes(s, x, y) == \E i, j \in 1..Len(s) : i < j /\ s[i] = x /\ s[j] = y
(* There is an x behind the last y.                                        *)
Outlasts(s, x, y) == \E i \in 1..Len(s) : s[i] = x /\ \A j \in 1..Len(s) : i < j => s[j] # y
PlacesOf(s, x) == {i \in 1..Len(s) : s[i] = x}
Times(s, x) == Cardinality(PlacesOf(s, x))

(* The elements of two lists one behind the other.                         *)
LEMMA JoinedElements ==
    ASSUME NEW S, NEW s \in Seq(S), NEW t \in Seq(S)
    PROVE  /\ s \o t \in Seq(S) /\ Len(s \o t) = Len(s) + Len(t)
           /\ Len(s) \in Nat /\ Len(t) \in Nat
           /\ \A i \in 1..Len(s) : (s \o t)[i] = s[i]
           /\ \A i \in 1..Len(t) : (s \o t)[Len(s) + i] = t[i]
           /\ \A i \in 1..Len(s \o t) : i \in 1..Len(s) \/ i - Len(s) \in 1..Len(t)
  BY ConcatProperties, LenProperties

(* What is on one of two lists is on both together.                        *)
LEMMA JoinedHas ==
    ASSUME NEW S, NEW s \in Seq(S), NEW t \in Seq(S), NEW x
    PROVE  Has(s \o t, x) <=> Has(s, x) \/ Has(t, x)
<1> DEFINE u == s \o t
<1> HIDE DEF u
<1>1. PICK m \in Nat, n \in Nat : m = Len(s) /\ n = Len(t)
  BY LenProperties
<1>2. /\ Len(u) = m + n
      /\ \A i \in 1..m : i \in 1..(m + n) /\ u[i] = s[i]
      /\ \A i \in 1..n : m + i \in 1..(m + n) /\ u[m + i] = t[i]
      /\ \A i \in 1..(m + n) : i \in 1..m \/ (i - m \in 1..n /\ i = m + (i - m))
  BY <1>1, JoinedElements DEF u
<1>3. ASSUME Has(u, x) PROVE Has(s, x) \/ Has(t, x)
  BY <1>1, <1>2, <1>3 DEF Has
<1>4. ASSUME Has(s, x) \/ Has(t, x) PROVE Has(u, x)
  BY <1>1, <1>2, <1>4 DEF Has
<1> QED
  BY <1>3, <1>4 DEF u

(* The order on each list stays, and the first list comes first.           *)
LEMMA JoinedPrecedes ==
    ASSUME NEW S, NEW s \in Seq(S), NEW t \in Seq(S), NEW x, NEW y
    PROVE  Precedes(s \o t, x, y) <=>
              Precedes(s, x, y) \/ Precedes(t, x, y) \/ (Has(s, x) /\ Has(t, y))
<1> DEFINE u == s \o t
<1> HIDE DEF u
<1>1. PICK m \in Nat, n \in Nat : m = Len(s) /\ n = Len(t)
  BY LenProperties
<1>2. /\ Len(u) = m + n
      /\ \A i \in 1..m : i \in 1..(m + n) /\ u[i] = s[i]
      /\ \A i \in 1..n : m + i \in 1..(m + n) /\ u[m + i] = t[i]
      /\ \A i \in 1..(m + n) : i \in 1..m \/ (i - m \in 1..n /\ i = m + (i - m))
  BY <1>1, JoinedElements DEF u
<1>3. ASSUME Precedes(u, x, y)
      PROVE  Precedes(s, x, y) \/ Precedes(t, x, y) \/ (Has(s, x) /\ Has(t, y))
  <2>1. PICK i, j \in 1..(m + n) : i < j /\ u[i] = x /\ u[j] = y
    BY <1>2, <1>3 DEF Precedes
  <2>2. CASE i \in 1..m /\ j \in 1..m
    <3>1. s[i] = x /\ s[j] = y
      BY <1>2, <2>1, <2>2
    <3> QED
      BY <1>1, <2>1, <2>2, <3>1 DEF Precedes
  <2>3. CASE i \in 1..m /\ j - m \in 1..n
    <3>1. s[i] = x /\ t[j - m] = y
      BY <1>2, <2>1, <2>3
    <3> QED
      BY <1>1, <2>3, <3>1 DEF Has
  <2>4. CASE i - m \in 1..n /\ j - m \in 1..n
    <3>1. t[i - m] = x /\ t[j - m] = y /\ i - m < j - m
      BY <1>2, <2>1, <2>4
    <3> QED
      BY <1>1, <2>4, <3>1 DEF Precedes
  <2>5. CASE i - m \in 1..n /\ j \in 1..m
    BY <2>1, <2>5
  <2> QED
    BY <1>2, <2>1, <2>2, <2>3, <2>4, <2>5
<1>4. ASSUME Precedes(s, x, y) PROVE Precedes(u, x, y)
  BY <1>1, <1>2, <1>4 DEF Precedes
<1>5. ASSUME Precedes(t, x, y) PROVE Precedes(u, x, y)
  <2>1. PICK i, j \in 1..n : i < j /\ t[i] = x /\ t[j] = y
    BY <1>1, <1>5 DEF Precedes
  <2>2. m + i < m + j /\ u[m + i] = x /\ u[m + j] = y
    BY <1>2, <2>1
  <2> QED
    BY <1>2, <2>1, <2>2 DEF Precedes
<1>6. ASSUME Has(s, x), Has(t, y) PROVE Precedes(u, x, y)
  <2>1. PICK i \in 1..m : s[i] = x
    BY <1>1, <1>6 DEF Has
  <2>2. PICK j \in 1..n : t[j] = y
    BY <1>1, <1>6 DEF Has
  <2>3. i < m + j /\ u[i] = x /\ u[m + j] = y
    BY <1>2, <2>1, <2>2
  <2> QED
    BY <1>2, <2>1, <2>2, <2>3 DEF Precedes
<1> QED
  BY <1>3, <1>4, <1>5, <1>6 DEF u

(* The last word is that of the second list, if it has one.                *)
LEMMA JoinedOutlasts ==
    ASSUME NEW S, NEW s \in Seq(S), NEW t \in Seq(S), NEW x, NEW y
    PROVE  Outlasts(s \o t, x, y) <=> Outlasts(t, x, y) \/ (Outlasts(s, x, y) /\ ~Has(t, y))
<1> DEFINE u == s \o t
<1> HIDE DEF u
<1>1. PICK m \in Nat, n \in Nat : m = Len(s) /\ n = Len(t)
  BY LenProperties
<1>2. /\ Len(u) = m + n
      /\ \A i \in 1..m : i \in 1..(m + n) /\ u[i] = s[i]
      /\ \A i \in 1..n : m + i \in 1..(m + n) /\ u[m + i] = t[i]
      /\ \A i \in 1..(m + n) : i \in 1..m \/ (i - m \in 1..n /\ i = m + (i - m))
  BY <1>1, JoinedElements DEF u
<1>3. ASSUME Outlasts(u, x, y) PROVE Outlasts(t, x, y) \/ (Outlasts(s, x, y) /\ ~Has(t, y))
  <2>1. PICK i \in 1..(m + n) : u[i] = x /\ \A j \in 1..(m + n) : i < j => u[j] # y
    BY <1>2, <1>3 DEF Outlasts
  <2>2. CASE i \in 1..m
    <3>1. \A j \in 1..m : i < j => s[j] # y
      BY <1>2, <2>1
    <3>2. \A j \in 1..n : i < m + j /\ t[j] # y
      BY <1>2, <2>1, <2>2
    <3> QED
      BY <1>1, <1>2, <2>1, <2>2, <3>1, <3>2 DEF Outlasts, Has
  <2>3. CASE i - m \in 1..n
    <3>1. t[i - m] = x /\ \A j \in 1..n : i - m < j => i < m + j /\ t[j] # y
      BY <1>2, <2>1, <2>3
    <3> QED
      BY <1>1, <2>3, <3>1 DEF Outlasts
  <2> QED
    BY <1>2, <2>1, <2>2, <2>3
<1>4. ASSUME Outlasts(t, x, y) PROVE Outlasts(u, x, y)
  <2>1. PICK i \in 1..n : t[i] = x /\ \A j \in 1..n : i < j => t[j] # y
    BY <1>1, <1>4 DEF Outlasts
  <2>2. ASSUME NEW j \in 1..(m + n), m + i < j PROVE u[j] # y
    <3>1. j - m \in 1..n /\ j = m + (j - m) /\ i < j - m
      BY <1>2, <2>1, <2>2
    <3>2. u[j] = t[j - m]
      BY <1>2, <3>1
    <3> QED
      BY <2>1, <3>1, <3>2
  <2>3. m + i \in 1..(m + n) /\ u[m + i] = x
    BY <1>2, <2>1
  <2> QED
    BY <1>2, <2>2, <2>3 DEF Outlasts
<1>5. ASSUME Outlasts(s, x, y), ~Has(t, y) PROVE Outlasts(u, x, y)
  <2>1. PICK i \in 1..m : s[i] = x /\ \A j \in 1..m : i < j => s[j] # y
    BY <1>1, <1>5 DEF Outlasts
  <2>2. ASSUME NEW j \in 1..(m + n), i < j PROVE u[j] # y
    <3>1. CASE j \in 1..m
      BY <1>2, <2>1, <2>2, <3>1
    <3>2. CASE j - m \in 1..n /\ j = m + (j - m)
      <4>1. u[j] = t[j - m]
        BY <1>2, <3>2
      <4> QED
        BY <1>1, <1>5, <3>2, <4>1 DEF Has
    <3> QED
      BY <1>2, <3>1, <3>2
  <2>3. i \in 1..(m + n) /\ u[i] = x
    BY <1>2, <2>1
  <2> QED
    BY <1>2, <2>2, <2>3 DEF Outlasts
<1> QED
  BY <1>3, <1>4, <1>5 DEF u

(* How often something is on a list is a number, 0 if it is not.           *)
LEMMA TimesType ==
    ASSUME NEW S, NEW s \in Seq(S), NEW x
    PROVE  IsFiniteSet(PlacesOf(s, x)) /\ Times(s, x) \in Nat /\ (Times(s, x) = 0 <=> ~Has(s, x))
<1>1. Len(s) \in Nat
  BY LenProperties
<1>2. IsFiniteSet(1..Len(s)) /\ PlacesOf(s, x) \subseteq 1..Len(s)
  BY <1>1, FS_Interval DEF PlacesOf
<1>3. IsFiniteSet(PlacesOf(s, x))
  BY <1>2, FS_Subset
<1>4. Times(s, x) \in Nat /\ (Times(s, x) = 0 <=> PlacesOf(s, x) = {})
  BY <1>3, FS_CardinalityType, FS_EmptySet DEF Times
<1>5. PlacesOf(s, x) = {} <=> ~Has(s, x)
  BY DEF PlacesOf, Has
<1> QED
  BY <1>3, <1>4, <1>5

(* How often something is on two lists is the sum: the places on the       *)
(* second list move, by a bijection.                                       *)
LEMMA JoinedTimes ==
    ASSUME NEW S, NEW s \in Seq(S), NEW t \in Seq(S), NEW x
    PROVE  Times(s \o t, x) = Times(s, x) + Times(t, x)
<1> DEFINE u == s \o t
           moved == {Len(s) + i : i \in PlacesOf(t, x)}
<1>1. PICK m \in Nat, n \in Nat : m = Len(s) /\ n = Len(t)
  BY LenProperties
<1> HIDE DEF u
<1>2. /\ Len(u) = m + n
      /\ \A i \in 1..m : i \in 1..(m + n) /\ u[i] = s[i]
      /\ \A i \in 1..n : m + i \in 1..(m + n) /\ u[m + i] = t[i]
      /\ \A i \in 1..(m + n) : i \in 1..m \/ (i - m \in 1..n /\ i = m + (i - m))
  BY <1>1, JoinedElements DEF u
<1>3. PlacesOf(u, x) = PlacesOf(s, x) \cup moved
  <2>1. ASSUME NEW i \in PlacesOf(u, x) PROVE i \in PlacesOf(s, x) \/ i \in moved
    <3>1. i \in 1..(m + n) /\ u[i] = x
      BY <1>2 DEF PlacesOf
    <3>2. CASE i \in 1..m
      BY <1>1, <1>2, <3>1, <3>2 DEF PlacesOf
    <3>3. CASE i - m \in 1..n /\ i = m + (i - m)
      <4>1. t[i - m] = x
        BY <1>2, <3>1, <3>3
      <4>2. i - m \in PlacesOf(t, x)
        BY <1>1, <3>3, <4>1 DEF PlacesOf
      <4> QED
        BY <1>1, <3>3, <4>2
    <3> QED
      BY <1>2, <3>1, <3>2, <3>3
  <2>2. ASSUME NEW i \in PlacesOf(s, x) PROVE i \in PlacesOf(u, x)
    BY <1>1, <1>2 DEF PlacesOf
  <2>3. ASSUME NEW i \in moved PROVE i \in PlacesOf(u, x)
    BY <1>1, <1>2 DEF PlacesOf
  <2> QED
    BY <2>1, <2>2, <2>3
<1>4. PlacesOf(s, x) \cap moved = {}
  BY <1>1 DEF PlacesOf
<1>5. IsFiniteSet(PlacesOf(s, x)) /\ IsFiniteSet(PlacesOf(t, x))
  BY TimesType
<1>6. IsFiniteSet(moved) /\ Cardinality(moved) = Cardinality(PlacesOf(t, x))
  <2> DEFINE f == [i \in PlacesOf(t, x) |-> m + i]
  <2>1. PlacesOf(t, x) \subseteq Nat
    BY <1>1 DEF PlacesOf
  <2>2. f \in Injection(PlacesOf(t, x), moved)
    <3>1. \A i, j \in PlacesOf(t, x) : m + i = m + j => i = j
      BY <2>1
    <3> QED
      BY <1>1, <3>1 DEF Injection, IsInjective
  <2>3. f \in Surjection(PlacesOf(t, x), moved)
    <3>1. f \in [PlacesOf(t, x) -> moved] /\ \A y \in moved : \E i \in PlacesOf(t, x) : f[i] = y
      BY <1>1
    <3> QED
      BY <3>1 DEF Surjection
  <2>4. f \in Bijection(PlacesOf(t, x), moved)
    BY <2>2, <2>3 DEF Bijection
  <2> HIDE DEF f, moved
  <2>5. ExistsBijection(PlacesOf(t, x), moved)
    BY <2>4 DEF ExistsBijection
  <2> QED
    BY <1>5, <2>5, FS_Bijection
<1> HIDE DEF moved
<1>7. Cardinality(PlacesOf(s, x) \cap moved) = 0
  BY <1>4, FS_EmptySet
<1>8. Cardinality(PlacesOf(s, x) \cup moved)
         = Cardinality(PlacesOf(s, x)) + Cardinality(moved) - Cardinality(PlacesOf(s, x) \cap moved)
  BY <1>5, <1>6, FS_Union
<1>9. Cardinality(PlacesOf(s, x)) \in Nat /\ Cardinality(moved) \in Nat
  BY <1>5, <1>6, FS_CardinalityType
<1> QED
  BY <1>3, <1>6, <1>7, <1>8, <1>9 DEF Times, u

(* How two lists behind each other are ordered.                            *)
LEMMA Joined ==
    ASSUME NEW S, NEW s \in Seq(S), NEW t \in Seq(S)
    PROVE  /\ s \o t \in Seq(S)
           /\ \A x : Has(s \o t, x) <=> Has(s, x) \/ Has(t, x)
           /\ \A x, y : Precedes(s \o t, x, y) <=>
                           Precedes(s, x, y) \/ Precedes(t, x, y) \/ (Has(s, x) /\ Has(t, y))
           /\ \A x, y : Outlasts(s \o t, x, y) <=>
                           Outlasts(t, x, y) \/ (Outlasts(s, x, y) /\ ~Has(t, y))
           /\ \A x : Times(s \o t, x) = Times(s, x) + Times(t, x)
  BY JoinedElements, JoinedHas, JoinedPrecedes, JoinedOutlasts, JoinedTimes

(* Nothing is on the empty list.                                           *)
LEMMA Empty ==
    \A x, y : ~Has(<<>>, x) /\ ~Precedes(<<>>, x, y) /\ ~Outlasts(<<>>, x, y) /\ Times(<<>>, x) = 0
<1>1. \A x : PlacesOf(<<>>, x) = {}
  BY DEF PlacesOf
<1> QED
  BY <1>1, FS_EmptySet DEF Has, Precedes, Outlasts, Times

(* A list of one element.                                                  *)
LEMMA Single ==
    ASSUME NEW S, NEW a \in S
    PROVE  /\ <<a>> \in Seq(S)
           /\ \A x : Has(<<a>>, x) <=> x = a
           /\ \A x, y : ~Precedes(<<a>>, x, y)
           /\ \A x, y : Outlasts(<<a>>, x, y) <=> x = a
           /\ \A x : Times(<<a>>, x) = IF x = a THEN 1 ELSE 0
<1>1. <<a>> \in Seq(S) /\ Len(<<a>>) = 1 /\ <<a>>[1] = a
  OBVIOUS
<1>2. \A x : PlacesOf(<<a>>, x) = IF x = a THEN {1} ELSE {}
  BY <1>1 DEF PlacesOf
<1>3. Cardinality({1}) = 1 /\ Cardinality({}) = 0
  BY FS_Singleton, FS_EmptySet
<1>4. \A x : Times(<<a>>, x) = IF x = a THEN 1 ELSE 0
  BY <1>2, <1>3 DEF Times
<1> QED
  BY <1>1, <1>4 DEF Has, Precedes, Outlasts

(* The first element goes.                                                 *)
LEMMA Parted ==
    ASSUME NEW S, NEW s \in Seq(S), s # <<>>
    PROVE  /\ Head(s) \in S /\ Tail(s) \in Seq(S) /\ Has(s, Head(s))
           /\ \A x : Has(s, x) <=> x = Head(s) \/ Has(Tail(s), x)
           /\ \A x, y : Precedes(s, x, y) <=>
                           Precedes(Tail(s), x, y) \/ (x = Head(s) /\ Has(Tail(s), y))
           /\ \A x, y : Outlasts(s, x, y) <=>
                           Outlasts(Tail(s), x, y) \/ (x = Head(s) /\ ~Has(Tail(s), y))
           /\ \A x : Times(s, x) = Times(Tail(s), x) + (IF x = Head(s) THEN 1 ELSE 0)
<1>1. PICK h \in S, t \in Seq(S) : h = Head(s) /\ t = Tail(s)
  BY HeadTailProperties
<1>2. s = <<h>> \o t
  BY <1>1, HeadTailProperties, ConcatProperties
<1>3. PICK one \in Seq(S) : one = <<h>>
  <2>1. <<h>> \in Seq(S)
    OBVIOUS
  <2> QED
    BY <2>1
<1>4. \A x : Times(t, x) \in Nat
  BY TimesType
<1>5. /\ \A x : Has(s, x) <=> Has(one, x) \/ Has(t, x)
      /\ \A x, y : Precedes(s, x, y) <=> Precedes(one, x, y) \/ Precedes(t, x, y)
                                         \/ (Has(one, x) /\ Has(t, y))
      /\ \A x, y : Outlasts(s, x, y) <=> Outlasts(t, x, y)
                                         \/ (Outlasts(one, x, y) /\ ~Has(t, y))
      /\ \A x : Times(s, x) = Times(one, x) + Times(t, x)
  <2>1. s = one \o t
    BY <1>2, <1>3
  <2> QED
    BY ONLY t \in Seq(S), one \in Seq(S), <2>1, Joined
<1>6. /\ \A x : Has(one, x) <=> x = h
      /\ \A x, y : ~Precedes(one, x, y)
      /\ \A x, y : Outlasts(one, x, y) <=> x = h
      /\ \A x : Times(one, x) = IF x = h THEN 1 ELSE 0
  BY <1>3, Single
<1>7. /\ \A x : Has(s, x) <=> x = h \/ Has(t, x)
      /\ \A x, y : Precedes(s, x, y) <=> Precedes(t, x, y) \/ (x = h /\ Has(t, y))
      /\ \A x, y : Outlasts(s, x, y) <=> Outlasts(t, x, y) \/ (x = h /\ ~Has(t, y))
  BY <1>5, <1>6
<1>8. \A x : Times(s, x) = Times(t, x) + (IF x = h THEN 1 ELSE 0)
  BY <1>4, <1>5, <1>6
<1> QED
  BY <1>1, <1>7, <1>8

(* One more element comes behind all others.                               *)
LEMMA Appended ==
    ASSUME NEW S, NEW s \in Seq(S), NEW a \in S
    PROVE  /\ Append(s, a) \in Seq(S)
           /\ \A x : Has(Append(s, a), x) <=> x = a \/ Has(s, x)
           /\ \A x, y : Precedes(Append(s, a), x, y) <=> Precedes(s, x, y) \/ (Has(s, x) /\ y = a)
           /\ \A x, y : Outlasts(Append(s, a), x, y) <=> x = a \/ (Outlasts(s, x, y) /\ y # a)
           /\ \A x : Times(Append(s, a), x) = Times(s, x) + (IF x = a THEN 1 ELSE 0)
<1>1. Append(s, a) = s \o <<a>>
  BY AppendIsConcat
<1>2. PICK one \in Seq(S) : one = <<a>>
  <2>1. <<a>> \in Seq(S)
    OBVIOUS
  <2> QED
    BY <2>1
<1>3. /\ Append(s, a) \in Seq(S)
      /\ \A x : Has(Append(s, a), x) <=> Has(s, x) \/ Has(one, x)
      /\ \A x, y : Precedes(Append(s, a), x, y) <=> Precedes(s, x, y) \/ Precedes(one, x, y)
                                         \/ (Has(s, x) /\ Has(one, y))
      /\ \A x, y : Outlasts(Append(s, a), x, y) <=> Outlasts(one, x, y)
                                         \/ (Outlasts(s, x, y) /\ ~Has(one, y))
      /\ \A x : Times(Append(s, a), x) = Times(s, x) + Times(one, x)
  <2>1. Append(s, a) = s \o one
    BY <1>1, <1>2
  <2> QED
    BY ONLY s \in Seq(S), one \in Seq(S), <2>1, Joined
<1>4. /\ \A x : Has(one, x) <=> x = a
      /\ \A x, y : ~Precedes(one, x, y)
      /\ \A x, y : Outlasts(one, x, y) <=> x = a
      /\ \A x : Times(one, x) = IF x = a THEN 1 ELSE 0
  BY <1>2, Single
<1>5. \A x : Times(s, x) \in Nat
  BY TimesType
<1>6. \A x : Times(Append(s, a), x) = Times(s, x) + (IF x = a THEN 1 ELSE 0)
  BY <1>3, <1>4, <1>5
<1> QED
  BY <1>3, <1>4, <1>6

(* What has a place in an order is on the list.                            *)
LEMMA OrderedHas ==
    \A s, x, y : /\ Precedes(s, x, y) => Has(s, x) /\ Has(s, y)
                 /\ Outlasts(s, x, y) => Has(s, x)
  BY DEF Precedes, Outlasts, Has

(* Sifting for one element counts it.                                      *)
LEMMA SiftedTimes ==
    ASSUME NEW S, NEW s \in Seq(S), NEW x
    PROVE  Len(Sifted(s, {x})) = Times(s, x)
<1> DEFINE u == Sifted(s, {x})
<1>1. PICK at : TakenAt(s, {x}, u, at)
  BY SiftedPlaces
<1>2. PICK n \in Nat : n = Len(u)
  BY SiftedPlaces, LenProperties
<1>3. PICK m \in Nat : m = Len(s)
  BY LenProperties
<1> HIDE DEF u
<1>4. at \in [1..n -> PlacesOf(s, x)] /\ \A i \in PlacesOf(s, x) : \E k \in 1..n : at[k] = i
  BY <1>1, <1>2, <1>3 DEF TakenAt, PlacesOf
<1>5. \A k, l \in 1..n : at[k] = at[l] => k = l
  <2> SUFFICES ASSUME NEW k \in 1..n, NEW l \in 1..n, at[k] = at[l], k # l PROVE FALSE
    OBVIOUS
  <2>1. at[k] \in Nat /\ at[l] \in Nat
    BY <1>3, <1>4 DEF PlacesOf
  <2>2. k < l => at[k] < at[l]
    BY <1>1, <1>2 DEF TakenAt
  <2>3. l < k => at[l] < at[k]
    BY <1>1, <1>2 DEF TakenAt
  <2> QED
    BY <2>1, <2>2, <2>3
<1>6. at \in Bijection(1..n, PlacesOf(s, x))
  BY <1>4, <1>5 DEF Bijection, Injection, Surjection, IsInjective
<1>7. ExistsBijection(1..n, PlacesOf(s, x))
  BY <1>6 DEF ExistsBijection
<1> QED
  BY <1>2, <1>7, FS_CountingElements DEF Times, u
=============================================================================
