-------------------------- MODULE DurabilityProofs --------------------------
(***************************************************************************)
(* The queue of writers, the file being written and the background queue,  *)
(* for any number of writers, bytes and work items.                        *)
(*                                                                         *)
(* WriteQueue first.  That the leader is in front of the queue is not      *)
(* inductive: a writer that wakes asks for the front of a queue, which     *)
(* must have one.  What has to be carried along (IInv) is that a writer    *)
(* who waits and was not told a result is in the queue, and that the       *)
(* leader's group is its front part, so that those who are taken off it    *)
(* are those who are told.  The order of the log and the results need      *)
(* more (SInv): the queue is what came last, and nobody in it was told.    *)
(***************************************************************************)
EXTENDS MCDurability, ListLemmas, FiniteSetTheorems, SequenceTheorems, TLAPS

Leading == {"room", "asleep", "stalled", "logging"}

Types ==
    /\ kind \in [Writers -> Kinds]
    /\ pc \in [Writers -> Places]
    /\ queue \in Seq(Writers)
    /\ result \in [Writers -> [done : BOOLEAN, ok : BOOLEAN]]

LeaderInFront == \A w \in Writers : pc[w] \in Leading => queue # <<>> /\ Head(queue) = w

WaitersQueued ==
    \A w \in Writers : pc[w] = "waiting" /\ ~result[w].done =>
        \E i \in 1..Len(queue) : queue[i] = w

GroupIsFront ==
    \A w \in Writers : pc[w] = "logging" =>
        \E n \in 1..Len(queue) : group = SubSeq(queue, 1, n)

SyncErrorStops == sync_error => bg_error /\ \A w \in Writers : pc[w] # "logging"

IInv == Types /\ LeaderInFront /\ WaitersQueued /\ GroupIsFront /\ SyncErrorStops

(* A call comes once; the queue is what came last, and nobody in it has    *)
(* been told a result.                                                     *)
Arrived ==
    /\ arrival \in Seq(Writers)
    /\ \A i, j \in 1..Len(arrival) : arrival[i] = arrival[j] => i = j
    /\ \A i \in 1..Len(arrival) : pc[arrival[i]] # "idle"
    /\ \A w \in Writers : pc[w] = "idle" => ~result[w].done

(* The number of calls that have left the queue.                           *)
Served == Len(arrival) - Len(queue)

QueueIsTail ==
    /\ Served \in Nat
    /\ \A i \in 1..Len(queue) : queue[i] = arrival[Served + i] /\ ~result[queue[i]].done

(* The log has writers that have left the queue, in their order.           *)
LogFollowsCalls ==
    /\ log \in Seq(Writers)
    /\ synced \in 0..Len(log)
    /\ \A i \in 1..Len(log) : \E k \in 1..Served : arrival[k] = log[i]
    /\ \A i, j \in 1..Len(log) : i < j =>
          \E k, l \in 1..Served : k < l /\ arrival[k] = log[i] /\ arrival[l] = log[j]

(* The memtable has only what succeeded; what succeeded is logged.         *)
ResultsTrue ==
    /\ \A w \in mem : w \in Acknowledged
    /\ \A w \in Acknowledged : \E i \in 1..Len(log) : log[i] = w
    /\ \A w \in Acknowledged : kind[w] = "sync" => \E i \in 1..synced : log[i] = w
    /\ \A w \in Writers : pc[w] = "drain" => kind[w] = "null"

(* Nobody who wants a sync is in the group of a leader that does not.      *)
GroupSyncs ==
    \A w \in Writers : pc[w] = "logging" /\ kind[w] # "sync" =>
        \A i \in 1..Len(group) : kind[group[i]] # "sync"

SInv == IInv /\ Arrived /\ QueueIsTail /\ LogFollowsCalls /\ ResultsTrue /\ GroupSyncs

-----------------------------------------------------------------------------
(* Sequences.                                                              *)

(* The front of a queue stays when a call is queued behind it.             *)
LEMMA AppendFacts ==
    ASSUME NEW S, NEW q \in Seq(S), NEW w \in S
    PROVE  /\ Append(q, w) \in Seq(S)
           /\ Append(q, w) # <<>>
           /\ Len(Append(q, w)) = Len(q) + 1
           /\ Append(q, w)[Len(q) + 1] = w
           /\ \A i \in 1..Len(q) : Append(q, w)[i] = q[i]
           /\ q = <<>> => Head(Append(q, w)) = w
           /\ q # <<>> => Head(Append(q, w)) = Head(q)
           /\ \A n \in 1..Len(q) : SubSeq(Append(q, w), 1, n) = SubSeq(q, 1, n)
<1>1. /\ Append(q, w) \in Seq(S)
      /\ Append(q, w) # <<>>
      /\ Len(Append(q, w)) = Len(q) + 1
      /\ Append(q, w)[Len(q) + 1] = w
      /\ \A i \in 1..Len(q) : Append(q, w)[i] = q[i]
      /\ Len(q) \in Nat
  BY AppendProperties, LenProperties
<1>2. Head(Append(q, w)) = Append(q, w)[1]
  BY <1>1
<1>3. q = <<>> => Head(Append(q, w)) = w
  BY <1>1, <1>2
<1>4. q # <<>> => Head(Append(q, w)) = Head(q)
  BY <1>1, <1>2
<1>5. ASSUME NEW n \in 1..Len(q)
      PROVE  SubSeq(Append(q, w), 1, n) = SubSeq(q, 1, n)
  <2>1. /\ SubSeq(q, 1, n) \in Seq(S) /\ Len(SubSeq(q, 1, n)) = n
        /\ \A i \in 1..n : SubSeq(q, 1, n)[i] = q[i]
    BY <1>1, SubSeqProperties
  <2>2. /\ SubSeq(Append(q, w), 1, n) \in Seq(S) /\ Len(SubSeq(Append(q, w), 1, n)) = n
        /\ \A i \in 1..n : SubSeq(Append(q, w), 1, n)[i] = Append(q, w)[i]
    BY <1>1, SubSeqProperties
  <2>3. \A i \in 1..n : SubSeq(Append(q, w), 1, n)[i] = SubSeq(q, 1, n)[i]
    BY <1>1, <2>1, <2>2
  <2> QED
    BY <2>1, <2>2, <2>3, SeqEqual
<1> QED
  BY <1>1, <1>3, <1>4, <1>5

-----------------------------------------------------------------------------
(* There is at most one leader.                                            *)
LEMMA OneAtATime ==
    ASSUME IInv, NEW w \in Writers, pc[w] \in Leading, NEW v \in Writers, v # w
    PROVE  pc[v] \notin Leading
BY DEF IInv, LeaderInFront

(* BuildBatchGroup takes a front part of the queue.                        *)
LEMMA GroupFacts ==
    ASSUME queue \in Seq(Writers), queue # <<>>
    PROVE  \E n \in 1..Len(queue) :
               /\ BuildBatchGroup = SubSeq(queue, 1, n)
               /\ \A i \in 2..n : MayJoin(Head(queue), queue[i])
<1> DEFINE first == Head(queue)
           batches(n) == Cardinality({i \in 1..n : kind[queue[i]] # "null"})
           fits(n) == \A i \in 2..n : MayJoin(first, queue[i]) /\ batches(i) <= MaxGroup
           longest(n) == fits(n) /\ \A m \in (n + 1)..Len(queue) : ~fits(m)
           T == {n \in 1..Len(queue) : fits(n)}
<1>1. Len(queue) \in Nat /\ 1 \in 1..Len(queue)
  BY EmptySeq, LenProperties
<1>2. fits(1)
  OBVIOUS
<1>3. BuildBatchGroup = SubSeq(queue, 1, CHOOSE n \in 1..Len(queue) : longest(n))
  BY DEF BuildBatchGroup
<1> HIDE DEF fits
<1>4. T \subseteq 1..Len(queue) /\ T # {}
  BY <1>1, <1>2
<1>5. PICK x \in T : \A y \in T : y <= x
  <2> HIDE DEF T
  <2> QED
    BY <1>1, <1>4, GreatestNatural
<1>6. x \in 1..Len(queue) /\ fits(x)
  BY <1>5
<1>7. ASSUME NEW m \in (x + 1)..Len(queue) PROVE ~fits(m)
  <2>1. m \in 1..Len(queue) /\ ~(m <= x)
    BY <1>1, <1>6
  <2> QED
    BY <1>5, <2>1
<1>8. \E n \in 1..Len(queue) : longest(n)
  BY <1>6, <1>7
<1> DEFINE n == CHOOSE n \in 1..Len(queue) : longest(n)
<1>9. n \in 1..Len(queue) /\ longest(n)
  <2> HIDE DEF longest
  <2> QED
    BY <1>8
<1>10. fits(n) => \A i \in 2..n : MayJoin(Head(queue), queue[i])
  BY DEF fits
<1> HIDE DEF n
<1> QED
  BY <1>3, <1>9, <1>10 DEF n

(* A thread goes on to another place without getting to the front, logging *)
(* or queueing up.                                                         *)
LEMMA PlaceChanges ==
    ASSUME IInv, NEW w \in Writers, NEW p \in Places \ {"logging", "waiting"},
           pc' = [pc EXCEPT ![w] = p], p \in Leading => pc[w] \in Leading,
           UNCHANGED <<kind, queue, group, sync_error>>, bg_error => bg_error',
           result' \in [Writers -> [done : BOOLEAN, ok : BOOLEAN]],
           \A v \in Writers : v # w => result'[v] = result[v]
    PROVE  IInv'
<1>1. \A v \in Writers : pc'[v] = IF v = w THEN p ELSE pc[v]
  BY DEF IInv, Types
<1>2. Types'
  BY DEF IInv, Types
<1>3. LeaderInFront'
  BY <1>1 DEF IInv, LeaderInFront
<1>4. WaitersQueued'
  BY <1>1 DEF IInv, WaitersQueued
<1>5. GroupIsFront'
  BY <1>1 DEF IInv, GroupIsFront
<1>6. SyncErrorStops'
  BY <1>1 DEF IInv, SyncErrorStops
<1> QED
  BY <1>2, <1>3, <1>4, <1>5, <1>6 DEF IInv

(* A writer that is in front of the queue begins to lead it.               *)
LEMMA LeadKeeps ==
    ASSUME IInv, NEW w \in Writers, pc[w] = "waiting", ~result[w].done, Head(queue) = w,
           Lead(w), UNCHANGED <<kind, queue, result, bg_error, sync_error>>
    PROVE  IInv'
<1>1. \A v \in Writers : pc'[v] = IF v = w THEN "room" ELSE pc[v]
  BY DEF IInv, Types, Lead
<1>2. queue # <<>>
  BY EmptySeq DEF IInv, WaitersQueued
<1>3. Types'
  BY DEF IInv, Types, Lead, Places
<1>4. LeaderInFront'
  BY <1>1, <1>2 DEF IInv, LeaderInFront
<1>5. WaitersQueued'
  BY <1>1 DEF IInv, WaitersQueued
<1>6. GroupIsFront'
  BY <1>1 DEF IInv, GroupIsFront, Lead
<1>7. SyncErrorStops'
  BY <1>1 DEF IInv, SyncErrorStops
<1> QED
  BY <1>3, <1>4, <1>5, <1>6, <1>7 DEF IInv

(* The leader ends: nobody leads, and who was not told stays queued.       *)
LEMMA FinishKeeps ==
    ASSUME IInv, NEW w \in Writers, pc[w] \in Leading, NEW last, NEW ok \in BOOLEAN,
           \E i \in 1..Len(queue) : queue[i] = last,
           Finish(w, last, ok), kind' = kind, sync_error' => bg_error'
    PROVE  IInv'
<1> DEFINE n == Position(last)
<1>1. queue \in Seq(Writers) /\ Len(queue) \in Nat
      /\ \A i \in 1..Len(queue) : queue[i] \in Writers
  BY LenProperties, ElementOfSeq DEF IInv, Types
<1>2. n \in 1..Len(queue)
  BY DEF Position
<1>3. /\ queue' = SubSeq(queue, n + 1, Len(queue))
      /\ result' = [v \in Writers |-> IF v \in {queue[i] : i \in 1..n}
                                      THEN [done |-> TRUE, ok |-> ok] ELSE result[v]]
      /\ pc' = [pc EXCEPT ![w] = After(w, ok)]
  BY DEF Finish
<1> HIDE DEF n
<1>4. /\ queue' \in Seq(Writers)
      /\ Len(queue') = Len(queue) - n
      /\ \A i \in 1..(Len(queue) - n) : queue'[i] = queue[n + i]
  <2>1. \A i \in (n + 1)..Len(queue) : queue[i] \in Writers
    BY <1>1, <1>2
  <2>2. /\ SubSeq(queue, n + 1, Len(queue)) \in Seq(Writers)
        /\ Len(SubSeq(queue, n + 1, Len(queue))) =
              IF n + 1 <= Len(queue) THEN Len(queue) - (n + 1) + 1 ELSE 0
        /\ \A i \in 1..(Len(queue) - (n + 1) + 1) :
              SubSeq(queue, n + 1, Len(queue))[i] = queue[(n + 1) + i - 1]
    BY <1>1, <1>2, <2>1, SubSeqProperties
  <2>3. Len(SubSeq(queue, n + 1, Len(queue))) = Len(queue) - n
    BY <1>1, <1>2, <2>2
  <2>4. ASSUME NEW i \in 1..(Len(queue) - n)
        PROVE  SubSeq(queue, n + 1, Len(queue))[i] = queue[n + i]
    <3>1. i \in 1..(Len(queue) - (n + 1) + 1) /\ (n + 1) + i - 1 = n + i
      BY <1>1, <1>2
    <3> QED
      BY <2>2, <3>1
  <2> QED
    BY <1>3, <2>2, <2>3, <2>4
<1>5. After(w, ok) \in {"drain", "returned"}
  BY DEF After
<1>6. \A v \in Writers : pc'[v] = IF v = w THEN After(w, ok) ELSE pc[v]
  BY <1>3 DEF IInv, Types
<1>7. \A v \in Writers : pc'[v] \notin Leading
  BY <1>5, <1>6, OneAtATime DEF Leading
<1>8. Types'
  BY <1>3, <1>4, <1>5 DEF IInv, Types, Places
<1>9. WaitersQueued'
  <2> SUFFICES ASSUME NEW v \in Writers, pc'[v] = "waiting", ~result'[v].done
               PROVE  \E i \in 1..Len(queue') : queue'[i] = v
    BY DEF WaitersQueued
  <2>1. pc[v] = "waiting"
    BY <1>5, <1>6
  <2>2. v \notin {queue[i] : i \in 1..n} /\ ~result[v].done
    BY <1>3
  <2>3. PICK i \in 1..Len(queue) : queue[i] = v
    BY <2>1, <2>2 DEF IInv, WaitersQueued
  <2>4. i > n
    BY <1>1, <1>2, <2>2, <2>3
  <2>5. i - n \in 1..(Len(queue) - n) /\ n + (i - n) = i
    BY <1>1, <1>2, <2>4
  <2> QED
    BY <1>4, <2>3, <2>5
<1> QED
  BY <1>7, <1>8, <1>9 DEF IInv, LeaderInFront, GroupIsFront, SyncErrorStops, Leading

(* The last of the group is in the queue.                                  *)
LEMMA LastIsQueued ==
    ASSUME IInv, NEW w \in Writers, pc[w] = "logging"
    PROVE  \E i \in 1..Len(queue) : queue[i] = Last(group)
<1>1. queue \in Seq(Writers) /\ Len(queue) \in Nat
      /\ \A i \in 1..Len(queue) : queue[i] \in Writers
  BY LenProperties, ElementOfSeq DEF IInv, Types
<1>2. PICK n \in 1..Len(queue) : group = SubSeq(queue, 1, n)
  BY DEF IInv, GroupIsFront
<1>3. Len(group) = n /\ group[n] = queue[n]
  <2>1. \A i \in 1..n : queue[i] \in Writers
    BY <1>1
  <2>2. /\ Len(SubSeq(queue, 1, n)) = IF 1 <= n THEN n - 1 + 1 ELSE 0
        /\ \A i \in 1..(n - 1 + 1) : SubSeq(queue, 1, n)[i] = queue[1 + i - 1]
    BY <2>1, SubSeqProperties
  <2> QED
    BY <1>2, <2>2
<1> QED
  BY <1>3 DEF Last

LEMMA FrontIsQueued ==
    ASSUME IInv, NEW w \in Writers, pc[w] \in Leading
    PROVE  queue # <<>> /\ \E i \in 1..Len(queue) : queue[i] = w
<1>1. queue \in Seq(Writers) /\ queue # <<>> /\ Head(queue) = w
  BY DEF IInv, Types, LeaderInFront
<1>2. Len(queue) \in Nat /\ 1 \in 1..Len(queue)
  BY <1>1, EmptySeq, LenProperties
<1> QED
  BY <1>1, <1>2

-----------------------------------------------------------------------------
LEMMA InitEstablishes == Init => IInv
<1> SUFFICES ASSUME Init PROVE IInv
  OBVIOUS
<1>1. Types
  <2>1. queue \in Seq(Writers)
    BY EmptySeq DEF Init
  <2> QED
    BY <2>1 DEF Init, Types, Places
<1> QED
  BY <1>1 DEF Init, IInv, LeaderInFront, WaitersQueued, GroupIsFront, SyncErrorStops, Leading

(* A call comes: it leads an empty queue, and waits in any other.          *)
LEMMA EnqueueKeeps ==
    ASSUME IInv, NEW w \in Writers, Enqueue(w)
    PROVE  IInv'
<1>1. queue \in Seq(Writers) /\ pc \in [Writers -> Places] /\ pc[w] = "idle"
  BY DEF IInv, Types, Enqueue
<1>2. /\ queue' \in Seq(Writers) /\ queue' # <<>>
      /\ Len(queue') = Len(queue) + 1 /\ queue'[Len(queue) + 1] = w
      /\ \A i \in 1..Len(queue) : queue'[i] = queue[i]
      /\ queue = <<>> => Head(queue') = w
      /\ queue # <<>> => Head(queue') = Head(queue)
      /\ \A n \in 1..Len(queue) : SubSeq(queue', 1, n) = SubSeq(queue, 1, n)
  BY <1>1, AppendFacts DEF Enqueue
<1>3. Len(queue) \in Nat
  BY <1>1, LenProperties
<1>4. \A v \in Writers : pc'[v] = IF v # w THEN pc[v]
                                   ELSE IF queue = <<>> THEN "room" ELSE "waiting"
  BY <1>1 DEF Enqueue, Lead
<1>5. Types'
  BY <1>2 DEF IInv, Types, Enqueue, Lead, Places
<1>6. LeaderInFront'
  BY <1>2, <1>4 DEF IInv, LeaderInFront, Leading
<1>7. WaitersQueued'
  <2> SUFFICES ASSUME NEW v \in Writers, pc'[v] = "waiting", ~result'[v].done
               PROVE  \E i \in 1..Len(queue') : queue'[i] = v
    BY DEF WaitersQueued
  <2>1. CASE v = w
    BY <1>2, <1>3, <2>1
  <2>2. CASE v # w
    <3>1. pc[v] = "waiting" /\ ~result[v].done
      BY <1>4, <2>2 DEF Enqueue
    <3>2. PICK i \in 1..Len(queue) : queue[i] = v
      BY <3>1 DEF IInv, WaitersQueued
    <3> QED
      BY <1>2, <1>3, <3>2
  <2> QED
    BY <2>1, <2>2
<1>8. GroupIsFront'
  <2> SUFFICES ASSUME NEW v \in Writers, pc'[v] = "logging"
               PROVE  \E n \in 1..Len(queue') : group' = SubSeq(queue', 1, n)
    BY DEF GroupIsFront
  <2>1. pc[v] = "logging"
    BY <1>4
  <2>2. PICK n \in 1..Len(queue) : group = SubSeq(queue, 1, n)
    BY <2>1 DEF IInv, GroupIsFront
  <2>3. group' = group
    BY DEF Enqueue, Lead, leader
  <2>4. n \in 1..Len(queue')
    BY <1>2, <1>3
  <2> QED
    BY <1>2, <2>2, <2>3, <2>4
<1>9. SyncErrorStops'
  BY <1>4 DEF IInv, SyncErrorStops, Enqueue, errors
<1> QED
  BY <1>5, <1>6, <1>7, <1>8, <1>9 DEF IInv

LEMMA WriterStepKeeps ==
    ASSUME IInv, NEW w \in Writers, WriterStep(w)
    PROVE  IInv'
<1> USE DEF errors, leader, Leading
<1>1. CASE Wake(w)
  <2>1. CASE result[w].done
    <3>1. pc' = [pc EXCEPT ![w] = After(w, result[w].ok)]
      BY <1>1, <2>1 DEF Wake
    <3>2. After(w, result[w].ok) \in Places \ ({"logging", "waiting"} \cup Leading)
      BY DEF After, Places
    <3> QED
      BY <1>1, <2>1, <3>1, <3>2, PlaceChanges DEF Wake, IInv, Types
  <2>2. CASE ~result[w].done /\ Head(queue) = w
    BY <1>1, <2>2, LeadKeeps DEF Wake
  <2>3. CASE ~result[w].done /\ Head(queue) # w
    BY <1>1, <2>3 DEF Wake, IInv, Types, LeaderInFront, WaitersQueued, GroupIsFront,
                      SyncErrorStops
  <2> QED
    BY <2>1, <2>2, <2>3
<1>2. CASE NoRoom(w)
  <2>1. pc[w] = "room" /\ Finish(w, w, FALSE) /\ UNCHANGED <<kind, bg_error, sync_error>>
    BY <1>2 DEF NoRoom, AtRoom
  <2>2. sync_error' => bg_error'
    BY <2>1 DEF IInv, SyncErrorStops
  <2> QED
    BY <2>1, <2>2, FrontIsQueued, FinishKeeps
<1>3. CASE Sleep(w)
  BY <1>3, PlaceChanges DEF Sleep, AtRoom, Places, IInv, Types
<1>4. CASE EndSleep(w)
  BY <1>4, PlaceChanges DEF EndSleep, Places, IInv, Types
<1>5. CASE Stall(w)
  BY <1>5, PlaceChanges DEF Stall, AtRoom, Places, IInv, Types
<1>6. CASE EndStall(w)
  BY <1>6, PlaceChanges DEF EndStall, Places, IInv, Types
<1>7. CASE Go(w)
  <2>1. pc[w] = "room" /\ ~bg_error /\ UNCHANGED <<kind, bg_error, sync_error>>
    BY <1>7 DEF Go, AtRoom
  <2>2. CASE kind[w] = "null"
    <3>1. Finish(w, w, TRUE)
      BY <1>7, <2>2 DEF Go
    <3>2. sync_error' => bg_error'
      BY <2>1 DEF IInv, SyncErrorStops
    <3> QED
      BY <2>1, <3>1, <3>2, FrontIsQueued, FinishKeeps
  <2>3. CASE kind[w] # "null"
    <3>1. /\ group' = BuildBatchGroup /\ pc' = [pc EXCEPT ![w] = "logging"]
          /\ UNCHANGED <<queue, result>>
      BY <1>7, <2>3 DEF Go
    <3>2. queue # <<>>
      BY <2>1, FrontIsQueued
    <3>3. PICK n \in 1..Len(queue) : group' = SubSeq(queue, 1, n)
      BY <3>1, <3>2, GroupFacts DEF IInv, Types
    <3>4. \A v \in Writers : pc'[v] = IF v = w THEN "logging" ELSE pc[v]
      BY <3>1 DEF IInv, Types
    <3>5. Types'
      BY <2>1, <3>1 DEF IInv, Types, Places
    <3>6. LeaderInFront'
      BY <2>1, <3>1, <3>4 DEF IInv, LeaderInFront
    <3>7. WaitersQueued'
      BY <3>1, <3>4 DEF IInv, WaitersQueued
    <3>8. GroupIsFront'
      BY <3>1, <3>3 DEF GroupIsFront
    <3>9. SyncErrorStops'
      BY <2>1 DEF IInv, SyncErrorStops
    <3> QED
      BY <3>5, <3>6, <3>7, <3>8, <3>9 DEF IInv
  <2> QED
    BY <2>2, <2>3
<1>8. CASE SwitchMemTable(w)
  BY <1>8 DEF SwitchMemTable, IInv, Types, LeaderInFront, WaitersQueued, GroupIsFront,
              SyncErrorStops
<1>9. CASE LogGroup(w)
  <2>1. /\ pc[w] = "logging" /\ Finish(w, Last(group), TRUE)
        /\ UNCHANGED <<kind, bg_error, sync_error>>
    BY <1>9 DEF LogGroup
  <2>2. sync_error' => bg_error'
    BY <2>1 DEF IInv, SyncErrorStops
  <2> QED
    BY <2>1, <2>2, LastIsQueued, FinishKeeps
<1>10. CASE LogGroupFails(w)
  <2>1. /\ pc[w] = "logging" /\ Finish(w, Last(group), FALSE) /\ kind' = kind
        /\ UNCHANGED <<bg_error, sync_error>> \/ bg_error'
    BY <1>10 DEF LogGroupFails
  <2>2. sync_error' => bg_error'
    BY <2>1 DEF IInv, SyncErrorStops
  <2> QED
    BY <2>1, <2>2, LastIsQueued, FinishKeeps
<1>11. CASE Drain(w)
  <2>1. /\ result' \in [Writers -> [done : BOOLEAN, ok : BOOLEAN]]
        /\ \A v \in Writers : v # w => result'[v] = result[v]
    <3>1. result' = [result EXCEPT ![w].ok = ~imm] /\ (~imm) \in BOOLEAN
      BY <1>11 DEF Drain
    <3>2. result \in [Writers -> [done : BOOLEAN, ok : BOOLEAN]]
      BY DEF IInv, Types
    <3> QED
      BY <3>1, <3>2
  <2> QED
    BY <1>11, <2>1, PlaceChanges DEF Drain, Places
<1> QED
  BY <1>1, <1>2, <1>3, <1>4, <1>5, <1>6, <1>7, <1>8, <1>9, <1>10, <1>11 DEF WriterStep

(* Background work touches no writer, and only ever sets the error.        *)
LEMMA BackgroundKeeps ==
    ASSUME IInv, Background
    PROVE  IInv'
<1>1. /\ UNCHANGED <<kind, pc, queue, result, group, sync_error>>
      /\ bg_error => bg_error'
  <2>1. CASE BackgroundStart
    BY <2>1 DEF BackgroundStart, leader, errors
  <2>2. CASE Flush
    BY <2>2 DEF Flush, leader, errors
  <2>3. CASE FlushFails
    BY <2>3 DEF FlushFails, RecordBackgroundError, leader, errors
  <2>4. CASE Compact
    BY <2>4 DEF Compact, leader, errors
  <2>5. CASE CompactFails
    BY <2>5 DEF CompactFails, RecordBackgroundError, leader, errors
  <2> QED
    BY <2>1, <2>2, <2>3, <2>4, <2>5 DEF Background
<1> QED
  BY <1>1 DEF IInv, Types, LeaderInFront, WaitersQueued, GroupIsFront, SyncErrorStops

LEMMA Inductive == Spec => []IInv
<1>1. IInv /\ [Next]_vars => IInv'
  <2> SUFFICES ASSUME IInv, [Next]_vars PROVE IInv'
    OBVIOUS
  <2>1. ASSUME UNCHANGED vars PROVE IInv'
    BY <2>1 DEF vars, leader, errors, IInv, Types, LeaderInFront, WaitersQueued, GroupIsFront,
                SyncErrorStops
  <2> QED
    BY <2>1, EnqueueKeeps, WriterStepKeeps, BackgroundKeeps DEF Next, AllReturned
<1> QED
  BY <1>1, InitEstablishes, PTL DEF Spec

(* In a state of IInv, nothing is appended once a sync has failed: nobody  *)
(* is logging.                                                             *)
LEMMA SyncErrorStep == IInv /\ [Next]_vars => (sync_error => log' = log)
<1> SUFFICES ASSUME IInv, [Next]_vars, sync_error PROVE log' = log
  OBVIOUS
<1>1. \A w \in Writers : ~LogGroup(w) /\ ~LogGroupFails(w)
  BY DEF IInv, SyncErrorStops, LogGroup, LogGroupFails
<1> QED
  BY <1>1 DEF Next, Background, BackgroundStart, Flush, FlushFails, Compact, CompactFails,
              AllReturned, Enqueue, WriterStep, Wake, NoRoom, Sleep, EndSleep, Go, Stall,
              EndStall, SwitchMemTable, Drain, vars, data

-----------------------------------------------------------------------------
(* What is logged, and who is told.                                        *)

LEMMA QueueFacts ==
    ASSUME SInv
    PROVE  /\ queue \in Seq(Writers) /\ arrival \in Seq(Writers) /\ log \in Seq(Writers)
           /\ Len(queue) \in Nat /\ Len(arrival) \in Nat /\ Len(log) \in Nat
           /\ Served \in Nat /\ Len(arrival) = Served + Len(queue)
           /\ \A i \in 1..Len(queue) : queue[i] \in Writers /\ Served + i \in 1..Len(arrival)
           /\ \A i, j \in 1..Len(queue) : queue[i] = queue[j] => i = j
<1>1. queue \in Seq(Writers) /\ arrival \in Seq(Writers) /\ log \in Seq(Writers)
  BY DEF SInv, IInv, Types, Arrived, LogFollowsCalls
<1>2. Len(queue) \in Nat /\ Len(arrival) \in Nat /\ Len(log) \in Nat
  BY <1>1, LenProperties
<1>3. Served \in Nat /\ Len(arrival) = Served + Len(queue)
  BY <1>2 DEF SInv, QueueIsTail, Served
<1>4. \A i \in 1..Len(queue) : queue[i] \in Writers /\ Served + i \in 1..Len(arrival)
  BY <1>1, <1>2, <1>3, ElementOfSeq
<1>5. ASSUME NEW i \in 1..Len(queue), NEW j \in 1..Len(queue), queue[i] = queue[j]
      PROVE  i = j
  <2>1. arrival[Served + i] = arrival[Served + j]
    BY <1>5 DEF SInv, QueueIsTail
  <2>2. Served + i = Served + j
    BY <1>4, <2>1 DEF SInv, Arrived
  <2> QED
    BY <1>3, <2>2
<1> QED
  BY <1>1, <1>2, <1>3, <1>4, <1>5

LEMMA FinishFacts ==
    ASSUME SInv, NEW w \in Writers, NEW n \in 1..Len(queue), NEW ok,
           Finish(w, queue[n], ok)
    PROVE  /\ Len(queue') = Len(queue) - n
           /\ \A i \in 1..(Len(queue) - n) : queue'[i] = queue[n + i]
           /\ \A v \in Writers : result'[v] = IF \E i \in 1..n : queue[i] = v
                                              THEN [done |-> TRUE, ok |-> ok] ELSE result[v]
           /\ \A v \in Writers : pc'[v] = IF v = w THEN After(w, ok) ELSE pc[v]
<1>1. Position(queue[n]) = n
  BY QueueFacts DEF Position
<1>2. /\ queue' = SubSeq(queue, n + 1, Len(queue))
      /\ result' = [v \in Writers |-> IF v \in {queue[i] : i \in 1..n}
                                      THEN [done |-> TRUE, ok |-> ok] ELSE result[v]]
      /\ pc' = [pc EXCEPT ![w] = After(w, ok)]
  BY <1>1 DEF Finish
<1>3. \A i \in (n + 1)..Len(queue) : queue[i] \in Writers
  BY QueueFacts
<1>4. /\ Len(SubSeq(queue, n + 1, Len(queue))) =
            IF n + 1 <= Len(queue) THEN Len(queue) - (n + 1) + 1 ELSE 0
      /\ \A i \in 1..(Len(queue) - (n + 1) + 1) :
            SubSeq(queue, n + 1, Len(queue))[i] = queue[(n + 1) + i - 1]
  BY <1>3, QueueFacts, SubSeqProperties
<1>5. Len(queue') = Len(queue) - n
  BY <1>2, <1>4, QueueFacts
<1>6. ASSUME NEW i \in 1..(Len(queue) - n) PROVE queue'[i] = queue[n + i]
  <2>1. i \in 1..(Len(queue) - (n + 1) + 1) /\ (n + 1) + i - 1 = n + i
    BY QueueFacts
  <2> QED
    BY <1>2, <1>4, <2>1
<1>7. \A v \in Writers : pc'[v] = IF v = w THEN After(w, ok) ELSE pc[v]
  BY <1>2 DEF SInv, IInv, Types
<1>8. \A v \in Writers : result'[v] = IF \E i \in 1..n : queue[i] = v
                                      THEN [done |-> TRUE, ok |-> ok] ELSE result[v]
  BY <1>2
<1> QED
  BY <1>5, <1>6, <1>7, <1>8

(* A leader ends: the first n of the queue are told, those of them that    *)
(* have a batch may have been logged.                                      *)
Ends(w, n, ok, more, at) ==
    /\ w \in Writers /\ pc[w] \in Leading
    /\ n \in 1..Len(queue) /\ ok \in BOOLEAN /\ Finish(w, queue[n], ok)
    /\ UNCHANGED <<kind, arrival>>
    /\ more \in Seq(Writers) /\ log' = log \o more
    /\ at \in [1..Len(more) -> 1..n]
    /\ \A k \in 1..Len(more) : more[k] = queue[at[k]]
    /\ \A k, l \in 1..Len(more) : k < l => at[k] < at[l]
    /\ ok => \A i \in 1..n : queue[i] \in NotNull => \E k \in 1..Len(more) : at[k] = i
    /\ synced' = synced \/ synced' = Len(log')
    /\ ok /\ synced' # Len(log') => \A i \in 1..n : kind[queue[i]] # "sync"
    /\ \A v \in mem' : v \in mem \/ (ok /\ v \in NotNull /\ \E i \in 1..n : queue[i] = v)

LEMMA EndKeeps ==
    ASSUME SInv, IInv', NEW w, NEW n, NEW ok, NEW more, NEW at, Ends(w, n, ok, more, at)
    PROVE  SInv'
<1> USE DEF Ends
<1> DEFINE told(v) == \E i \in 1..n : queue[i] = v
<1>q. /\ Len(queue) \in Nat /\ Len(arrival) \in Nat /\ Len(log) \in Nat
      /\ Served \in Nat /\ Len(arrival) = Served + Len(queue)
      /\ \A i \in 1..Len(queue) : queue[i] \in Writers /\ Served + i \in 1..Len(arrival)
      /\ \A i, j \in 1..Len(queue) : queue[i] = queue[j] => i = j
      /\ \A i \in 1..Len(queue) : queue[i] = arrival[Served + i] /\ ~result[queue[i]].done
      /\ \A i \in 1..n : i \in 1..Len(queue)
      /\ n \in Nat /\ n <= Len(queue)
  <2>1. Len(queue) \in Nat
    BY QueueFacts
  <2>2. n \in Nat /\ n <= Len(queue) /\ \A i \in 1..n : i \in 1..Len(queue)
    BY <2>1
  <2> QED
    BY <2>2, QueueFacts DEF SInv, QueueIsTail
<1>1. /\ Len(queue') = Len(queue) - n
      /\ \A i \in 1..(Len(queue) - n) : queue'[i] = queue[n + i]
      /\ \A v \in Writers : result'[v] = IF told(v)
                                         THEN [done |-> TRUE, ok |-> ok] ELSE result[v]
      /\ \A v \in Writers : pc'[v] = IF v = w THEN After(w, ok) ELSE pc[v]
  BY FinishFacts
<1>2. After(w, ok) \in {"drain", "returned"} /\ (After(w, ok) = "drain" => kind[w] = "null")
  BY DEF After
<1>3. \A v \in Writers : pc'[v] \notin Leading
  BY <1>1, <1>2, OneAtATime DEF SInv, Leading
<1>4. Served' = Served + n /\ Served' \in Nat
  BY <1>1, QueueFacts DEF Served
<1>5. \A v \in Writers : told(v) => ~result[v].done /\ pc[v] # "idle"
  BY <1>q DEF SInv, Arrived
<1> HIDE DEF told
<1>6. Arrived'
  <2>1. \A i \in 1..Len(arrival) : arrival[i] \in Writers
    BY <1>q, ElementOfSeq DEF SInv, Arrived
  <2>2. \A i \in 1..Len(arrival) : pc'[arrival[i]] # "idle"
    BY <1>1, <1>2, <2>1 DEF SInv, Arrived
  <2>3. \A v \in Writers : pc'[v] = "idle" => ~result'[v].done
    BY <1>1, <1>2, <1>5 DEF SInv, Arrived
  <2> QED
    BY <2>2, <2>3 DEF SInv, Arrived
<1>7. QueueIsTail'
  <2> SUFFICES ASSUME NEW i \in 1..Len(queue')
               PROVE  queue'[i] = arrival[Served' + i] /\ ~result'[queue'[i]].done
    BY <1>4 DEF QueueIsTail
  <2>1. n + i \in 1..Len(queue) /\ queue'[i] = queue[n + i]
    <3>1. i \in 1..(Len(queue) - n)
      BY <1>1
    <3>2. queue'[i] = queue[n + i]
      BY <1>1, <3>1
    <3>3. Len(queue) \in Nat /\ n \in Nat
      BY <1>q
    <3>4. n + i \in 1..Len(queue)
      BY ONLY <3>1, <3>3
    <3> QED
      BY ONLY <3>2, <3>4
  <2>2. queue[n + i] = arrival[Served + (n + i)] /\ ~result[queue[n + i]].done
    BY <1>q, <2>1
  <2>3. ~told(queue[n + i])
    <3> SUFFICES ASSUME NEW j \in 1..n, queue[j] = queue[n + i] PROVE FALSE
      BY DEF told
    <3>1. j = n + i
      BY <1>q, <2>1
    <3>2. i \in Nat /\ i >= 1
      BY <1>1, <1>q
    <3> QED
      BY <1>q, <3>1, <3>2
  <2>4. Served + (n + i) = Served' + i
    BY <1>1, <1>4, <1>q
  <2>5. queue[n + i] \in Writers
    BY <1>q, <2>1
  <2> QED
    BY <1>1, <2>1, <2>2, <2>3, <2>4, <2>5
<1>8. /\ log' \in Seq(Writers) /\ Len(more) \in Nat /\ Len(log') = Len(log) + Len(more)
      /\ \A i \in 1..Len(log) : log'[i] = log[i]
      /\ \A k \in 1..Len(more) : log'[Len(log) + k] = more[k]
      /\ \A i \in 1..Len(log') : i \in 1..Len(log) \/ i - Len(log) \in 1..Len(more)
  <2>1. /\ log \o more \in Seq(Writers) /\ Len(log \o more) = Len(log) + Len(more)
        /\ \A i \in 1..(Len(log) + Len(more)) :
              (log \o more)[i] = IF i <= Len(log) THEN log[i] ELSE more[i - Len(log)]
        /\ Len(more) \in Nat
    BY QueueFacts, ConcatProperties, LenProperties
  <2> QED
    BY <2>1, <1>q
<1>9. \A k \in 1..Len(more) : /\ Served + at[k] \in 1..Served'
                              /\ arrival[Served + at[k]] = log'[Len(log) + k]
  <2> SUFFICES ASSUME NEW k \in 1..Len(more)
               PROVE  /\ Served + at[k] \in 1..Served'
                      /\ arrival[Served + at[k]] = log'[Len(log) + k]
    OBVIOUS
  <2>1. at[k] \in 1..n
    OBVIOUS
  <2>2. log'[Len(log) + k] = queue[at[k]]
    BY <1>8
  <2> QED
    <3>1. at[k] \in 1..Len(queue) /\ at[k] \in Nat /\ at[k] <= n /\ at[k] >= 1
      BY <1>q, <2>1
    <3>2. Served + at[k] \in 1..(Served + n)
      <4>1. Served \in Nat /\ n \in Nat
        BY <1>q
      <4> QED
        BY ONLY <3>1, <4>1
    <3> QED
      BY <1>4, <1>q, <2>2, <3>1, <3>2
<1>10. LogFollowsCalls'
  <2>1. synced' \in 0..Len(log')
    BY <1>8, QueueFacts DEF SInv, LogFollowsCalls
  <2>2. ASSUME NEW i \in 1..Len(log') PROVE \E k \in 1..Served' : arrival[k] = log'[i]
    <3>1. CASE i \in 1..Len(log)
      <4>1. log'[i] = log[i]
        BY <1>8, <3>1
      <4>2. PICK k \in 1..Served : arrival[k] = log[i]
        BY <3>1 DEF SInv, LogFollowsCalls
      <4>3. k \in 1..Served'
        BY <1>4, <1>q, <4>2
      <4> QED
        BY <4>1, <4>2, <4>3
    <3>2. CASE i - Len(log) \in 1..Len(more)
      <4>1. Len(log) + (i - Len(log)) = i
        BY <1>q
      <4> QED
        BY <1>9, <3>2, <4>1
    <3> QED
      BY <1>8, <3>1, <3>2
  <2>3. ASSUME NEW i \in 1..Len(log'), NEW j \in 1..Len(log'), i < j
        PROVE  \E k, l \in 1..Served' : k < l /\ arrival[k] = log'[i] /\ arrival[l] = log'[j]
    <3>1. CASE j \in 1..Len(log)
      <4>1. i \in 1..Len(log)
        BY <1>8, <2>3, <3>1, <1>q
      <4> QED
        <5>1. PICK k, l \in 1..Served : k < l /\ arrival[k] = log[i] /\ arrival[l] = log[j]
          BY <2>3, <3>1, <4>1 DEF SInv, LogFollowsCalls
        <5>2. k \in 1..Served' /\ l \in 1..Served'
          BY <1>4, <1>q
        <5> QED
          BY <1>8, <3>1, <4>1, <5>1, <5>2
    <3>2. CASE j - Len(log) \in 1..Len(more) /\ i \in 1..Len(log)
      <4>1. PICK k \in 1..Served : arrival[k] = log[i]
        BY <3>2 DEF SInv, LogFollowsCalls
      <4>2. /\ Served + at[j - Len(log)] \in 1..Served' /\ k \in 1..Served'
            /\ k < Served + at[j - Len(log)]
        <5>1. at[j - Len(log)] \in 1..n /\ Served + at[j - Len(log)] \in 1..Served'
          BY <1>9, <3>2
        <5>2. n \in Nat /\ Served \in Nat /\ Served' = Served + n
          BY <1>4, <1>q
        <5>3. k \in 1..Served
          OBVIOUS
        <5> QED
          BY ONLY <5>1, <5>2, <5>3
      <4>3. Len(log) + (j - Len(log)) = j
        BY <1>q
      <4>4. arrival[Served + at[j - Len(log)]] = log'[j] /\ log'[i] = log[i]
        BY <1>8, <1>9, <3>2, <4>3
      <4> QED
        BY <4>1, <4>2, <4>4
    <3>3. CASE j - Len(log) \in 1..Len(more) /\ i - Len(log) \in 1..Len(more)
      <4> DEFINE k == i - Len(log)
                 l == j - Len(log)
      <4>1. /\ k < l /\ Len(log) + k = i /\ Len(log) + l = j
            /\ k \in 1..Len(more) /\ l \in 1..Len(more)
        BY <1>8, <1>q, <2>3, <3>3
      <4> HIDE DEF k, l
      <4>2. at[k] < at[l] /\ at[k] \in 1..n /\ at[l] \in 1..n
        BY <4>1
      <4>3. Served + at[k] < Served + at[l]
        <5>1. n \in Nat /\ Served \in Nat
          BY <1>q
        <5> QED
          BY ONLY <4>2, <5>1
      <4>4. /\ Served + at[k] \in 1..Served' /\ Served + at[l] \in 1..Served'
            /\ arrival[Served + at[k]] = log'[i] /\ arrival[Served + at[l]] = log'[j]
        BY <1>9, <4>1
      <4> QED
        BY <4>3, <4>4
    <3> QED
      BY <1>8, <3>1, <3>2, <3>3
  <2> QED
    <3>1. arrival' = arrival /\ log' \in Seq(Writers)
      BY <1>8
    <3>2. \A i \in 1..Len(log') : \E k \in 1..Served' : arrival'[k] = log'[i]
      BY <2>2, <3>1
    <3>3. \A i, j \in 1..Len(log') : i < j =>
            \E k, l \in 1..Served' : k < l /\ arrival'[k] = log'[i] /\ arrival'[l] = log'[j]
      BY ONLY <2>3, <3>1
    <3> QED
      BY <2>1, <3>1, <3>2, <3>3, Zenon DEF LogFollowsCalls
<1>11. ResultsTrue'
  <2> DEFINE acked(v) == v \in NotNull /\ result[v].done /\ result[v].ok
  <2>1. NotNull' = NotNull /\ NotNull \subseteq Writers
    BY DEF NotNull
  <2>2. \A v \in Acknowledged : v \in Writers /\ ~told(v) /\ result'[v] = result[v]
    BY <1>1, <1>5, <2>1 DEF Acknowledged
  <2>3. Acknowledged \subseteq Acknowledged'
    BY <2>1, <2>2 DEF Acknowledged
  <2>4. \A v \in mem' : v \in Acknowledged'
    <3> SUFFICES ASSUME NEW v \in mem' PROVE v \in Acknowledged'
      OBVIOUS
    <3>1. CASE v \in mem
      BY <2>3, <3>1 DEF SInv, ResultsTrue
    <3>2. CASE ok /\ v \in NotNull /\ told(v)
      BY <1>1, <2>1, <3>2 DEF Acknowledged
    <3> QED
      BY <3>1, <3>2 DEF told
  <2>5. ASSUME NEW v \in Acknowledged', told(v)
        PROVE  /\ ok /\ \E i \in 1..Len(log') : log'[i] = v
               /\ kind[v] = "sync" => synced' = Len(log')
    <3>1. v \in NotNull /\ v \in Writers /\ ok
      <4>1. v \in NotNull' /\ result'[v].ok
        BY DEF Acknowledged
      <4>2. v \in Writers /\ result'[v] = [done |-> TRUE, ok |-> ok]
        BY <1>1, <2>1, <2>5, <4>1
      <4> QED
        BY <2>1, <4>1, <4>2
    <3>2. PICK i \in 1..n : queue[i] = v
      BY <2>5 DEF told
    <3>3. PICK k \in 1..Len(more) : at[k] = i
      BY <3>1, <3>2
    <3>4. more[k] = v /\ log'[Len(log) + k] = v /\ Len(log) + k \in 1..Len(log')
      <4>1. more[k] = v /\ log'[Len(log) + k] = more[k]
        BY <1>8, <3>2, <3>3
      <4>2. /\ Len(log) \in Nat /\ Len(more) \in Nat /\ Len(log') = Len(log) + Len(more)
            /\ k \in 1..Len(more)
        BY <1>8, <1>q
      <4>3. Len(log) + k \in 1..Len(log')
        BY ONLY <4>2
      <4> QED
        BY <4>1, <4>3
    <3> QED
      BY <3>1, <3>2, <3>4
  <2>6. ASSUME NEW v \in Acknowledged', ~told(v) PROVE v \in Acknowledged
    BY <1>1, <2>1, <2>6 DEF Acknowledged
  <2>7. \A v \in Acknowledged' : \E i \in 1..Len(log') : log'[i] = v
    <3> SUFFICES ASSUME NEW v \in Acknowledged', ~told(v)
                 PROVE  \E i \in 1..Len(log') : log'[i] = v
      BY <2>5
    <3>1. PICK i \in 1..Len(log) : log[i] = v
      BY <2>6 DEF SInv, ResultsTrue
    <3> QED
      BY <1>8, <3>1, <1>q
  <2>8. ASSUME NEW v \in Acknowledged', kind'[v] = "sync"
        PROVE  \E i \in 1..synced' : log'[i] = v
    <3>1. CASE told(v)
      BY <2>5, <2>8, <3>1
    <3>2. CASE ~told(v)
      <4>1. PICK i \in 1..synced : log[i] = v
        BY <2>6, <2>8, <3>2 DEF SInv, ResultsTrue
      <4>2. i \in 1..Len(log) /\ i \in 1..synced'
        BY <1>8, QueueFacts DEF SInv, LogFollowsCalls
      <4> QED
        BY <1>8, <4>1, <4>2
    <3> QED
      BY <3>1, <3>2
  <2>9. \A v \in Writers : pc'[v] = "drain" => kind'[v] = "null"
    BY <1>1, <1>2 DEF SInv, ResultsTrue
  <2> QED
    BY <2>4, <2>7, <2>8, <2>9 DEF ResultsTrue
<1>12. GroupSyncs'
  BY <1>3 DEF GroupSyncs, Leading
<1> QED
  BY <1>6, <1>7, <1>10, <1>11, <1>12 DEF SInv

(* Nobody leaves the queue, and no call with a batch is told anything.     *)
LEMMA OthersKeep ==
    ASSUME SInv, IInv', UNCHANGED <<kind, queue, arrival, log, synced>>, mem' \subseteq mem,
           \A v \in Writers :
               /\ result'[v].done = result[v].done
               /\ result'[v].ok # result[v].ok => kind[v] = "null"
               /\ pc'[v] = "idle" <=> pc[v] = "idle"
               /\ pc'[v] = "drain" => kind[v] = "null"
               /\ pc'[v] = "logging" => pc[v] = "logging" /\ group' = group
    PROVE  SInv'
<1>1. Served' = Served
  BY DEF Served
<1>2. Acknowledged' = Acknowledged
  BY DEF Acknowledged, NotNull, SInv, IInv, Types
<1>3. Arrived'
  BY QueueFacts, ElementOfSeq DEF SInv, Arrived
<1>4. QueueIsTail'
  BY <1>1, QueueFacts DEF SInv, QueueIsTail
<1>5. LogFollowsCalls'
  <2>1. LogFollowsCalls
    BY DEF SInv
  <2>2. log' \in Seq(Writers) /\ synced' \in 0..Len(log')
    BY <2>1 DEF LogFollowsCalls
  <2>3. \A i \in 1..Len(log') : \E k \in 1..Served' : arrival'[k] = log'[i]
    BY <1>1, <2>1 DEF LogFollowsCalls
  <2>4. \A i, j \in 1..Len(log') : i < j =>
            \E k, l \in 1..Served' : k < l /\ arrival'[k] = log'[i] /\ arrival'[l] = log'[j]
    BY <1>1, <2>1 DEF LogFollowsCalls
  <2> QED
    BY <2>2, <2>3, <2>4 DEF LogFollowsCalls
<1>6. ResultsTrue'
  BY <1>2 DEF SInv, ResultsTrue
<1>7. GroupSyncs'
  BY DEF SInv, GroupSyncs
<1> QED
  BY <1>3, <1>4, <1>5, <1>6, <1>7 DEF SInv

(* A leader that ends without having logged anything.                      *)
LEMMA EndWithoutLog ==
    ASSUME SInv, IInv', NEW w \in Writers, pc[w] \in Leading,
           NEW n \in 1..Len(queue), NEW ok \in BOOLEAN, Finish(w, queue[n], ok),
           UNCHANGED <<kind, arrival, log, synced, mem>>,
           ok => \A i \in 1..n : kind[queue[i]] = "null"
    PROVE  SInv'
<1> DEFINE none == [k \in 1..0 |-> 1]
<1>1. <<>> \in Seq(Writers) /\ Len(<<>>) = 0
  BY EmptySeq
<1>2. log' = log \o <<>>
  <2>1. log \in Seq(Writers)
    BY QueueFacts
  <2> QED
    BY <2>1
<1>3. n \in Nat /\ 1 \in 1..n
  BY QueueFacts
<1>4. none \in [1..Len(<<>>) -> 1..n] /\ \A k \in 1..Len(<<>>) : FALSE
  BY <1>1, <1>3
<1>5. ok => \A i \in 1..n : queue[i] \notin NotNull /\ kind[queue[i]] # "sync"
  BY DEF NotNull
<1> HIDE DEF none
<1> QED
  <2>1. Ends(w, n, ok, <<>>, none)
    BY <1>1, <1>2, <1>4, <1>5 DEF Ends
  <2> QED
    BY <2>1, EndKeeps

(* The group, and what is logged of it.                                    *)
LEMMA LoggedFacts ==
    ASSUME SInv, NEW w \in Writers, pc[w] = "logging"
    PROVE  \E n \in 1..Len(queue), at \in [1..Len(Batches(group)) -> 1..Len(group)] :
               /\ Len(group) = n /\ Last(group) = queue[n]
               /\ \A i \in 1..n : group[i] = queue[i]
               /\ Batches(group) \in Seq(Writers)
               /\ \A k \in 1..Len(Batches(group)) :
                     Batches(group)[k] = queue[at[k]] /\ Batches(group)[k] \in NotNull
               /\ \A k, l \in 1..Len(Batches(group)) : k < l => at[k] < at[l]
               /\ \A i \in 1..n : queue[i] \in NotNull =>
                     \E k \in 1..Len(Batches(group)) : at[k] = i
<1>1. PICK n \in 1..Len(queue) : group = SubSeq(queue, 1, n)
  BY DEF SInv, IInv, GroupIsFront
<1>2. \A i \in 1..n : queue[i] \in Writers
  BY QueueFacts
<1>3. group \in Seq(Writers) /\ Len(group) = n /\ \A i \in 1..n : group[i] = queue[i]
  <2>1. /\ SubSeq(queue, 1, n) \in Seq(Writers)
        /\ Len(SubSeq(queue, 1, n)) = IF 1 <= n THEN n - 1 + 1 ELSE 0
        /\ \A i \in 1..(n - 1 + 1) : SubSeq(queue, 1, n)[i] = queue[1 + i - 1]
    BY <1>2, SubSeqProperties
  <2> QED
    BY <1>1, <2>1, QueueFacts
<1>4. Last(group) = queue[n]
  BY <1>3, QueueFacts DEF Last
<1> DEFINE more == Batches(group)
<1>5. more = Sifted(group, NotNull)
  BY DEF Batches
<1> HIDE DEF more
<1>6. more \in Seq(Writers) /\ \E at : TakenAt(group, NotNull, more, at)
  BY <1>3, <1>5, SiftedPlaces
<1>7. PICK at : TakenAt(group, NotNull, more, at)
  BY <1>6
<1> USE <1>7 DEF TakenAt
<1>8. \A k \in 1..Len(more) : more[k] = queue[at[k]] /\ more[k] \in NotNull
  BY <1>3
<1>9. \A i \in 1..n : queue[i] \in NotNull => \E k \in 1..Len(more) : at[k] = i
  BY <1>3
<1> QED
  BY <1>3, <1>4, <1>6, <1>8, <1>9 DEF more

LEMMA LogGroupServes ==
    ASSUME SInv, IInv', NEW w \in Writers, LogGroup(w)
    PROVE  SInv'
<1> DEFINE more == Batches(group)
<1>1. pc[w] = "logging" /\ pc[w] \in Leading
  BY DEF LogGroup, Leading
<1>2. PICK n \in 1..Len(queue), at \in [1..Len(more) -> 1..Len(group)] :
        /\ Len(group) = n /\ Last(group) = queue[n]
        /\ \A i \in 1..n : group[i] = queue[i]
        /\ more \in Seq(Writers)
        /\ \A k \in 1..Len(more) : more[k] = queue[at[k]] /\ more[k] \in NotNull
        /\ \A k, l \in 1..Len(more) : k < l => at[k] < at[l]
        /\ \A i \in 1..n : queue[i] \in NotNull => \E k \in 1..Len(more) : at[k] = i
  BY <1>1, LoggedFacts
<1>3. /\ log' = log \o more /\ mem' = mem \cup Range(more)
      /\ synced' = IF kind[w] = "sync" THEN Len(log') ELSE synced
      /\ Finish(w, queue[n], TRUE) /\ UNCHANGED <<kind, arrival>>
  BY <1>2 DEF LogGroup
<1> HIDE DEF more
<1>4. at \in [1..Len(more) -> 1..n]
  BY <1>2
<1>5. synced' # Len(log') => \A i \in 1..n : kind[queue[i]] # "sync"
  BY <1>1, <1>2, <1>3 DEF SInv, GroupSyncs
<1>6. ASSUME NEW v \in Range(more) PROVE v \in NotNull /\ \E i \in 1..n : queue[i] = v
  <2>1. PICK k \in 1..Len(more) : v = more[k]
    BY <1>2, LenProperties DEF Range
  <2>2. at[k] \in 1..n
    BY <1>4
  <2> QED
    BY <1>2, <2>1, <2>2
<1>7. \A v \in mem' : v \in mem \/ (v \in NotNull /\ \E i \in 1..n : queue[i] = v)
  BY <1>3, <1>6
<1> QED
  <2>1. /\ \A k \in 1..Len(more) : more[k] = queue[at[k]]
        /\ TRUE => \A i \in 1..n : queue[i] \in NotNull => \E k \in 1..Len(more) : at[k] = i
        /\ synced' = synced \/ synced' = Len(log')
        /\ TRUE /\ synced' # Len(log') => \A i \in 1..n : kind[queue[i]] # "sync"
        /\ \A v \in mem' : v \in mem \/ (TRUE /\ v \in NotNull /\ \E i \in 1..n : queue[i] = v)
    BY <1>2, <1>3, <1>5, <1>7
  <2>2. TRUE \in BOOLEAN /\ n \in 1..Len(queue) /\ more \in Seq(Writers)
        /\ \A k, l \in 1..Len(more) : k < l => at[k] < at[l]
    BY <1>2
  <2> QED
    <3>1. Ends(w, n, TRUE, more, at)
      BY <1>1, <1>3, <1>4, <2>1, <2>2 DEF Ends
    <3> QED
      BY <3>1, EndKeeps

LEMMA LogGroupFailsServes ==
    ASSUME SInv, IInv', NEW w \in Writers, LogGroupFails(w)
    PROVE  SInv'
<1> DEFINE more == Batches(group)
<1>1. pc[w] = "logging" /\ pc[w] \in Leading
  BY DEF LogGroupFails, Leading
<1>2. PICK n \in 1..Len(queue), at \in [1..Len(more) -> 1..Len(group)] :
        /\ Len(group) = n /\ Last(group) = queue[n]
        /\ more \in Seq(Writers)
        /\ \A k \in 1..Len(more) : more[k] = queue[at[k]] /\ more[k] \in NotNull
        /\ \A k, l \in 1..Len(more) : k < l => at[k] < at[l]
  BY <1>1, LoggedFacts
<1>3. /\ Finish(w, queue[n], FALSE)
      /\ UNCHANGED <<kind, arrival, synced, mem>>
      /\ log' = log \/ log' = log \o more
  BY <1>2 DEF LogGroupFails
<1> HIDE DEF more
<1>4. at \in [1..Len(more) -> 1..n]
  BY <1>2
<1>5. CASE log' = log
  BY <1>1, <1>3, <1>5, EndWithoutLog
<1>6. CASE log' = log \o more
  <2>1. Ends(w, n, FALSE, more, at)
    BY <1>1, <1>2, <1>3, <1>4, <1>6 DEF Ends
  <2> QED
    BY <2>1, EndKeeps
<1> QED
  BY <1>3, <1>5, <1>6

LEMMA EnqueueServes ==
    ASSUME SInv, IInv', NEW w \in Writers, Enqueue(w)
    PROVE  SInv'
<1>1. /\ pc[w] = "idle" /\ queue' = Append(queue, w) /\ arrival' = Append(arrival, w)
      /\ UNCHANGED <<kind, group, log, synced, mem, result>>
  BY DEF Enqueue, Lead, leader, data
<1>2. \A v \in Writers : /\ v # w => pc'[v] = pc[v]
                         /\ pc'[w] \in {"room", "waiting"}
  BY <1>1 DEF Enqueue, Lead, SInv, IInv, Types
<1>q. /\ Len(queue) \in Nat /\ Len(arrival) \in Nat /\ Len(log) \in Nat
      /\ Served \in Nat /\ Len(arrival) = Served + Len(queue)
      /\ \A i \in 1..Len(queue) : queue[i] \in Writers /\ Served + i \in 1..Len(arrival)
      /\ \A i \in 1..Len(arrival) : arrival[i] \in Writers
  BY QueueFacts, ElementOfSeq
<1>3. /\ arrival' \in Seq(Writers) /\ Len(arrival') = Len(arrival) + 1
      /\ arrival'[Len(arrival) + 1] = w
      /\ \A i \in 1..Len(arrival) : arrival'[i] = arrival[i]
      /\ Len(queue') = Len(queue) + 1
      /\ queue'[Len(queue) + 1] = w
      /\ \A i \in 1..Len(queue) : queue'[i] = queue[i]
  BY <1>1, QueueFacts, AppendFacts
<1>4. Served' = Served
  BY <1>3, <1>q DEF Served
<1>5. \A i \in 1..Len(arrival) : arrival[i] # w
  BY <1>1 DEF SInv, Arrived
<1>6. \A i \in 1..Len(arrival') : i \in 1..Len(arrival) \/ i = Len(arrival) + 1
  BY <1>3, <1>q
<1>7. Arrived'
  <2>1. \A i, j \in 1..Len(arrival') : arrival'[i] = arrival'[j] => i = j
    BY <1>3, <1>5, <1>6 DEF SInv, Arrived
  <2>2. \A i \in 1..Len(arrival') : pc'[arrival'[i]] # "idle"
    BY <1>2, <1>3, <1>5, <1>6, <1>q DEF SInv, Arrived
  <2>3. \A v \in Writers : pc'[v] = "idle" => ~result'[v].done
    BY <1>1, <1>2 DEF SInv, Arrived
  <2> QED
    BY <1>3, <2>1, <2>2, <2>3 DEF Arrived
<1>8. QueueIsTail'
  <2> SUFFICES ASSUME NEW i \in 1..Len(queue')
               PROVE  queue'[i] = arrival'[Served' + i] /\ ~result'[queue'[i]].done
    BY <1>4, <1>q DEF QueueIsTail
  <2>1. CASE i \in 1..Len(queue)
    BY <1>1, <1>3, <1>4, <1>q, <2>1 DEF SInv, QueueIsTail
  <2>2. CASE i = Len(queue) + 1
    BY <1>1, <1>3, <1>4, <1>q, <2>2 DEF SInv, Arrived
  <2> QED
    BY <1>3, <1>q, <2>1, <2>2
<1>9. \A k \in 1..Served : arrival'[k] = arrival[k]
  BY <1>3, <1>q
<1>10. LogFollowsCalls'
  <2>1. \A i \in 1..Len(log) : \E k \in 1..Served : arrival'[k] = log[i]
    <3> SUFFICES ASSUME NEW i \in 1..Len(log) PROVE \E k \in 1..Served : arrival'[k] = log[i]
      OBVIOUS
    <3>1. PICK k \in 1..Served : arrival[k] = log[i]
      BY DEF SInv, LogFollowsCalls
    <3> QED
      BY <1>9, <3>1
  <2>2. \A i, j \in 1..Len(log) : i < j =>
          \E k, l \in 1..Served : k < l /\ arrival'[k] = log[i] /\ arrival'[l] = log[j]
    <3> SUFFICES ASSUME NEW i \in 1..Len(log), NEW j \in 1..Len(log), i < j
                 PROVE  \E k, l \in 1..Served :
                            k < l /\ arrival'[k] = log[i] /\ arrival'[l] = log[j]
      OBVIOUS
    <3>1. PICK k, l \in 1..Served : k < l /\ arrival[k] = log[i] /\ arrival[l] = log[j]
      BY DEF SInv, LogFollowsCalls
    <3> QED
      BY <1>9, <3>1
  <2>3. log \in Seq(Writers) /\ synced \in 0..Len(log)
    BY DEF SInv, LogFollowsCalls
  <2>4. \A i \in 1..Len(log') : \E k \in 1..Served' : arrival'[k] = log'[i]
    BY <1>1, <1>4, <2>1
  <2>5. \A i, j \in 1..Len(log') : i < j =>
          \E k, l \in 1..Served' : k < l /\ arrival'[k] = log'[i] /\ arrival'[l] = log'[j]
    <3> SUFFICES ASSUME NEW i \in 1..Len(log'), NEW j \in 1..Len(log'), i < j
                 PROVE  \E k, l \in 1..Served' :
                            k < l /\ arrival'[k] = log'[i] /\ arrival'[l] = log'[j]
      OBVIOUS
    <3>1. log' = log /\ i \in 1..Len(log) /\ j \in 1..Len(log)
      BY <1>1
    <3>2. PICK k, l \in 1..Served : k < l /\ arrival'[k] = log[i] /\ arrival'[l] = log[j]
      BY <2>2, <3>1
    <3> QED
      BY <1>4, <3>1, <3>2
  <2>6. log' \in Seq(Writers) /\ synced' \in 0..Len(log')
    BY <1>1, <2>3
  <2> QED
    BY <2>4, <2>5, <2>6, Zenon DEF LogFollowsCalls
<1>11. ResultsTrue'
  BY <1>1, <1>2 DEF SInv, ResultsTrue, Acknowledged, NotNull
<1>12. GroupSyncs'
  BY <1>1, <1>2 DEF SInv, GroupSyncs
<1> QED
  BY <1>7, <1>8, <1>10, <1>11, <1>12 DEF SInv

LEMMA GoServes ==
    ASSUME SInv, IInv', NEW w \in Writers, Go(w)
    PROVE  SInv'
<1>1. /\ pc[w] = "room" /\ pc[w] \in Leading /\ Head(queue) = w
      /\ UNCHANGED <<kind, arrival, log, synced, mem>>
  BY DEF Go, AtRoom, data, Leading
<1>2. queue # <<>> /\ queue \in Seq(Writers)
  BY <1>1, QueueFacts DEF SInv, IInv, LeaderInFront
<1>3. Len(queue) \in Nat /\ 1 \in 1..Len(queue) /\ queue[1] = w
  BY <1>1, <1>2, EmptySeq, LenProperties
<1>4. CASE kind[w] = "null"
  <2>1. Finish(w, queue[1], TRUE)
    BY <1>3, <1>4 DEF Go
  <2>2. \A i \in 1..1 : kind[queue[i]] = "null"
    BY <1>3, <1>4
  <2> QED
    BY <1>1, <1>3, <2>1, <2>2, EndWithoutLog
<1>5. CASE kind[w] # "null"
  <2>1. /\ group' = BuildBatchGroup /\ pc' = [pc EXCEPT ![w] = "logging"]
        /\ UNCHANGED <<queue, result>>
    BY <1>5 DEF Go
  <2>2. \A v \in Writers : pc'[v] = IF v = w THEN "logging" ELSE pc[v]
    BY <2>1 DEF SInv, IInv, Types
  <2>3. PICK n \in 1..Len(queue) :
          /\ group' = SubSeq(queue, 1, n)
          /\ \A i \in 2..n : MayJoin(Head(queue), queue[i])
    BY <1>2, <2>1, GroupFacts
  <2>4. Len(group') = n /\ \A i \in 1..n : group'[i] = queue[i]
    <3>1. \A i \in 1..n : queue[i] \in Writers
      BY QueueFacts
    <3>2. /\ Len(SubSeq(queue, 1, n)) = IF 1 <= n THEN n - 1 + 1 ELSE 0
          /\ \A i \in 1..(n - 1 + 1) : SubSeq(queue, 1, n)[i] = queue[1 + i - 1]
      BY <3>1, SubSeqProperties
    <3> QED
      BY <1>3, <2>3, <3>2
  <2>5. kind[w] # "sync" => \A i \in 1..n : kind[queue[i]] # "sync"
    <3> SUFFICES ASSUME kind[w] # "sync", NEW i \in 1..n PROVE kind[queue[i]] # "sync"
      OBVIOUS
    <3>1. i = 1 \/ i \in 2..n
      BY <1>3
    <3> QED
      BY <1>1, <1>3, <2>3, <3>1 DEF MayJoin
  <2>6. GroupSyncs'
    <3> SUFFICES ASSUME NEW v \in Writers, pc'[v] = "logging", kind'[v] # "sync"
                 PROVE  \A i \in 1..Len(group') : kind'[group'[i]] # "sync"
      BY DEF GroupSyncs
    <3>1. v = w
      BY <1>1, <2>2, OneAtATime DEF SInv, Leading
    <3> QED
      BY <1>1, <2>4, <2>5, <3>1
  <2>7. Served' = Served
    BY <1>1, <2>1 DEF Served
  <2>8. Arrived'
    <3>1. \A i \in 1..Len(arrival) : arrival[i] \in Writers
      BY QueueFacts, ElementOfSeq
    <3> QED
      BY <1>1, <2>1, <2>2, <3>1 DEF SInv, Arrived
  <2>9. QueueIsTail' /\ LogFollowsCalls'
    BY <1>1, <2>1, <2>7 DEF SInv, QueueIsTail, LogFollowsCalls
  <2>10. ResultsTrue'
    BY <1>1, <2>1, <2>2 DEF SInv, ResultsTrue, Acknowledged, NotNull
  <2> QED
    BY <2>6, <2>8, <2>9, <2>10 DEF SInv
<1> QED
  BY <1>4, <1>5

LEMMA WriterStepServes ==
    ASSUME SInv, IInv', NEW w \in Writers, WriterStep(w)
    PROVE  SInv'
<1>t. pc \in [Writers -> Places] /\ result \in [Writers -> [done : BOOLEAN, ok : BOOLEAN]]
  BY DEF SInv, IInv, Types
<1> USE <1>t
<1>1. CASE Wake(w)
  <2>1. result[w].done => After(w, result[w].ok) \in {"drain", "returned"}
                          /\ (After(w, result[w].ok) = "drain" => kind[w] = "null")
    BY DEF After
  <2>2. \A v \in Writers :
          /\ pc'[v] = "idle" <=> pc[v] = "idle"
          /\ pc'[v] = "drain" => kind[v] = "null"
          /\ pc'[v] = "logging" => pc[v] = "logging" /\ group' = group
    BY <1>1, <2>1 DEF Wake, Lead, leader, SInv, ResultsTrue
  <2> QED
    BY <1>1, <2>2, OthersKeep DEF Wake, data
<1>2. CASE NoRoom(w)
  <2>1. /\ pc[w] \in Leading /\ Head(queue) = w /\ Finish(w, w, FALSE)
        /\ UNCHANGED <<kind, arrival, log, synced, mem>>
    BY <1>2 DEF NoRoom, AtRoom, data, Leading
  <2>2. queue # <<>> /\ queue \in Seq(Writers)
    BY <2>1, QueueFacts DEF SInv, IInv, LeaderInFront
  <2>3. 1 \in 1..Len(queue) /\ queue[1] = w
    BY <2>1, <2>2, EmptySeq, LenProperties
  <2> QED
    BY <2>1, <2>3, EndWithoutLog
<1>3. CASE Sleep(w) \/ Stall(w)
  <2>1. /\ UNCHANGED <<kind, queue, arrival, log, synced, mem, result, group>>
        /\ \A v \in Writers : IF v = w THEN pc[v] = "room" /\ pc'[v] \in {"asleep", "stalled"}
                                ELSE pc'[v] = pc[v]
    BY <1>3 DEF Sleep, Stall, AtRoom, data, leader
  <2> QED
    BY <2>1, OthersKeep DEF SInv, ResultsTrue
<1>4. CASE EndSleep(w) \/ EndStall(w)
  <2>1. /\ UNCHANGED <<kind, queue, arrival, log, synced, mem, result, group>>
        /\ \A v \in Writers : IF v = w THEN pc[v] # "idle" /\ pc'[v] = "room"
                                ELSE pc'[v] = pc[v]
    BY <1>4 DEF EndSleep, EndStall, data, leader
  <2> QED
    BY <2>1, OthersKeep DEF SInv, ResultsTrue
<1>5. CASE Go(w)
  BY <1>5, GoServes
<1>6. CASE SwitchMemTable(w)
  BY <1>6, OthersKeep DEF SwitchMemTable, SInv, ResultsTrue
<1>7. CASE LogGroup(w)
  BY <1>7, LogGroupServes
<1>8. CASE LogGroupFails(w)
  BY <1>8, LogGroupFailsServes
<1>9. CASE Drain(w)
  <2>1. kind[w] = "null"
    BY <1>9 DEF Drain, SInv, ResultsTrue
  <2>2. \A v \in Writers :
          /\ result'[v].done = result[v].done
          /\ result'[v].ok # result[v].ok => kind[v] = "null"
    BY <1>9, <2>1 DEF Drain
  <2>3. \A v \in Writers :
          /\ pc'[v] = "idle" <=> pc[v] = "idle"
          /\ pc'[v] = "drain" => kind[v] = "null"
          /\ pc'[v] = "logging" => pc[v] = "logging"
    BY <1>9, <2>1 DEF Drain, SInv, ResultsTrue
  <2> QED
    BY <1>9, <2>2, <2>3, OthersKeep DEF Drain, data, leader
<1> QED
  BY <1>1, <1>2, <1>3, <1>4, <1>5, <1>6, <1>7, <1>8, <1>9 DEF WriterStep

LEMMA ServedInductive == Spec => []SInv
<1>1. Init => SInv
  <2> SUFFICES ASSUME Init PROVE SInv
    OBVIOUS
  <2>1. /\ arrival = <<>> /\ queue = <<>> /\ log = <<>> /\ <<>> \in Seq(Writers)
        /\ Len(<<>>) = 0 /\ synced = 0 /\ mem = {}
    BY EmptySeq DEF Init
  <2>2. Arrived /\ LogFollowsCalls
    BY <2>1 DEF Init, Arrived, LogFollowsCalls
  <2>3. QueueIsTail
    BY <2>1 DEF QueueIsTail, Served
  <2>4. ResultsTrue /\ GroupSyncs
    BY <2>1 DEF Init, ResultsTrue, GroupSyncs, Acknowledged, NotNull
  <2> QED
    BY <2>2, <2>3, <2>4, InitEstablishes DEF SInv
<1>2. SInv /\ IInv' /\ [Next]_vars => SInv'
  <2> SUFFICES ASSUME SInv, IInv', [Next]_vars PROVE SInv'
    OBVIOUS
  <2>1. CASE Background
    <3>1. UNCHANGED <<kind, pc, queue, result, group, log, synced, mem, arrival>>
      BY <2>1 DEF Background, BackgroundStart, Flush, FlushFails, Compact, CompactFails,
                  leader, data, errors
    <3> QED
      BY <3>1, OthersKeep DEF SInv, ResultsTrue
  <2>2. CASE UNCHANGED vars
    BY <2>2, OthersKeep DEF vars, leader, data, SInv, ResultsTrue
  <2> QED
    BY <2>1, <2>2, EnqueueServes, WriterStepServes DEF Next, AllReturned
<1> QED
  BY <1>1, <1>2, Inductive, PTL DEF Spec

(* What is in the log is there once: its writers are different calls.      *)
LEMMA AcknowledgedOnce == SInv => LoggedInOrder /\ AckMeansLogged
<1> SUFFICES ASSUME SInv PROVE LoggedInOrder /\ AckMeansLogged
  OBVIOUS
<1>1. Served \in Nat /\ Len(arrival) \in Nat /\ Len(log) \in Nat
      /\ \A k \in 1..Served : k \in 1..Len(arrival)
  BY QueueFacts
<1>2. LoggedInOrder
  <2> SUFFICES ASSUME NEW i \in 1..Len(log), NEW j \in 1..Len(log), i < j
               PROVE  \E k, l \in 1..Len(arrival) :
                          k < l /\ arrival[k] = log[i] /\ arrival[l] = log[j]
    BY DEF LoggedInOrder
  <2>1. PICK k, l \in 1..Served : k < l /\ arrival[k] = log[i] /\ arrival[l] = log[j]
    BY DEF SInv, LogFollowsCalls
  <2> QED
    BY <1>1, <2>1
<1>3. \A i, j \in 1..Len(log) : i < j => log[i] # log[j]
  <2> SUFFICES ASSUME NEW i \in 1..Len(log), NEW j \in 1..Len(log), i < j, log[i] = log[j]
               PROVE  FALSE
    OBVIOUS
  <2>1. PICK k, l \in 1..Served : k < l /\ arrival[k] = log[i] /\ arrival[l] = log[j]
    BY DEF SInv, LogFollowsCalls
  <2>2. k = l
    BY <1>1, <2>1 DEF SInv, Arrived
  <2> QED
    BY <1>1, <2>1, <2>2
<1>4. ASSUME NEW w \in Acknowledged
      PROVE  Cardinality({i \in 1..Len(log) : log[i] = w}) = 1
  <2>1. PICK i \in 1..Len(log) : log[i] = w
    BY DEF SInv, ResultsTrue
  <2>2. {j \in 1..Len(log) : log[j] = w} = {i}
    BY <1>1, <1>3, <2>1
  <2> QED
    BY <2>2, FS_Singleton
<1>5. \A w \in Writers : result[w].done /\ ~result[w].ok => w \notin mem
  BY DEF SInv, ResultsTrue, Acknowledged
<1> QED
  BY <1>2, <1>4, <1>5 DEF AckMeansLogged, SInv, ResultsTrue

-----------------------------------------------------------------------------
(* Whoever makes room, sleeps, stalls or logs is in front of the queue: of *)
(* any number of writers at most one does, although the mutex is let go.   *)
THEOREM OneLeaderHolds == Spec => []OneLeader
<1>1. IInv => OneLeader
  BY DEF IInv, LeaderInFront, OneLeader, Leading
<1> QED
  BY <1>1, Inductive, PTL

(* The calls are served as if they came one after the other: records are   *)
(* logged in the order in which the calls came, a write is acknowledged    *)
(* when it is logged, once, and on the disk if that was asked for, and one *)
(* that was refused is in no memtable, however the writes are grouped and  *)
(* whatever fails.                                                         *)
THEOREM ServedInOrderHolds == Spec => []ServedInOrder
<1>1. SInv => ServedInOrder
  BY AcknowledgedOnce DEF SInv, IInv, LeaderInFront, ServedInOrder, OneLeader, Leading
<1> QED
  BY <1>1, ServedInductive, PTL

(* After a sync that failed no record is logged, so that none can come     *)
(* after one whose fate is unknown.                                        *)
THEOREM NothingAfterSyncErrorHolds == Spec => NothingAfterSyncError
<1>1. Spec => [][sync_error => log' = log]_vars
  BY Inductive, SyncErrorStep, PTL DEF Spec
<1> QED
  BY <1>1 DEF NothingAfterSyncError

-----------------------------------------------------------------------------
(* PosixFile.  What a call under way has still to write, d from the buffer *)
(* and r behind it, is what is missing in the file.                        *)

(* Nothing comes twice or too early, and nothing after n.                  *)
Ascending(s, n) ==
    /\ \A i, j \in 1..Len(s) : i < j => s[i] < s[j]
    /\ \A i \in 1..Len(s) : s[i] <= n

Numbered(s, n) == Len(s) = n /\ \A i \in 1..n : s[i] = i

Operation(o, d) == [op |-> o, data |-> d]
WriteOf(d) == Operation("write", d)
DirectOf(d) == Operation("direct", d)
CopyOf(d) == Operation("copy", d)
SyncOf == Operation("sync", <<>>)

Underway(d, r) ==
    \/ p_todo = <<>> /\ d = p_buf /\ r = <<>>
    \/ p_todo = <<WriteOf(d)>> /\ r = <<>>
    \/ p_todo = <<WriteOf(d), DirectOf(r)>>
    \/ p_todo = <<WriteOf(d), CopyOf(r)>> /\ Len(r) <= BufferSize
    \/ p_todo = <<WriteOf(d), SyncOf>> /\ r = <<>>
    \/ p_todo = <<DirectOf(r)>> /\ d = <<>> /\ p_buf = <<>>
    \/ p_todo = <<CopyOf(r)>> /\ d = <<>> /\ p_buf = <<>> /\ Len(r) <= BufferSize
    \/ p_todo = <<SyncOf>> /\ d = <<>> /\ r = <<>> /\ p_buf = <<>>

Coming(d, r) ==
    /\ d \in Seq(Nat) /\ r \in Seq(Nat) /\ Underway(d, r)
    /\ Ascending(p_file \o (d \o r), p_appended)
    /\ p_failed = 0 => Numbered(p_file \o (d \o r), p_appended)

FileInv ==
    /\ P!TypeOK /\ p_promised \in Nat
    /\ p_buf \in Seq(Nat) /\ p_file \in Seq(Nat)
    /\ p_failed = 0 => p_promised <= p_synced
    /\ \E d, r : Coming(d, r)

-----------------------------------------------------------------------------
LEMMA BytesFacts ==
    ASSUME NEW m \in Nat, NEW n \in Nat
    PROVE  /\ P!Bytes(m, n) \in Seq(Nat) /\ Len(P!Bytes(m, n)) = n
           /\ \A i \in 1..n : P!Bytes(m, n)[i] = m + i
  BY DEF P!Bytes

Byte == Nat

LEMMA Regroup ==
    ASSUME NEW s \in Seq(Byte), NEW t \in Seq(Byte), NEW u \in Seq(Byte)
    PROVE  (s \o t) \o u = s \o (t \o u)
  BY ConcatAssociative

LEMMA Split ==
    ASSUME NEW S, NEW s \in Seq(S), NEW n, n = Len(s), NEW k \in 0..n
    PROVE  /\ SubSeq(s, 1, k) \in Seq(S) /\ SubSeq(s, k + 1, n) \in Seq(S)
           /\ Len(SubSeq(s, 1, k)) = k
           /\ SubSeq(s, 1, k) \o SubSeq(s, k + 1, n) = s
  <1>1. n \in Nat /\ k \in Nat /\ \A i \in 1..n : s[i] \in S
    BY LenProperties, ElementOfSeq
  <1>2. SubSeq(s, 1, k) \in Seq(S) /\ Len(SubSeq(s, 1, k)) = k
    BY <1>1, SubSeqProperties
  <1>3. SubSeq(s, k + 1, n) \in Seq(S)
    BY <1>1, SubSeqProperties
  <1>4. 1 \in 1..Len(s) + 1 /\ k \in 1 - 1..Len(s) /\ n \in k..Len(s)
    BY <1>1
  <1>5. SubSeq(s, 1, k) \o SubSeq(s, k + 1, n) = SubSeq(s, 1, n)
    BY <1>4, ConcatAdjacentSubSeq, Zenon
  <1>6. SubSeq(s, 1, n) = s
    BY SubSeqFull
  <1> QED
    BY <1>2, <1>3, <1>5, <1>6

LEMMA AscendingPrefix ==
    ASSUME NEW s \in Seq(Nat), NEW t \in Seq(Nat), NEW n, Ascending(s \o t, n)
    PROVE  Ascending(s, n)
  <1>1. /\ Len(s) \in Nat /\ Len(t) \in Nat /\ Len(s \o t) = Len(s) + Len(t)
        /\ \A i \in 1..Len(s) : (s \o t)[i] = s[i] /\ i \in 1..Len(s \o t)
    BY ConcatProperties, LenProperties
  <1> QED
    BY <1>1 DEF Ascending

LEMMA NumberedPrefix ==
    ASSUME NEW s \in Seq(Nat), NEW t \in Seq(Nat), NEW n, Numbered(s \o t, n)
    PROVE  /\ s = P!Bytes(0, Len(s))
           /\ t = <<>> => Len(s) = n
  <1>1. /\ Len(s) \in Nat /\ Len(t) \in Nat /\ Len(s \o t) = Len(s) + Len(t)
        /\ \A i \in 1..Len(s) : (s \o t)[i] = s[i] /\ i \in 1..Len(s \o t)
    BY ConcatProperties, LenProperties
  <1>2. /\ P!Bytes(0, Len(s)) \in Seq(Nat) /\ Len(P!Bytes(0, Len(s))) = Len(s)
        /\ \A i \in 1..Len(s) : P!Bytes(0, Len(s))[i] = 0 + i
    BY <1>1, BytesFacts
  <1>3. \A i \in 1..Len(s) : s[i] = i
    BY <1>1 DEF Numbered
  <1>4. s = P!Bytes(0, Len(s))
    <2> DEFINE b == P!Bytes(0, Len(s))
    <2>1. b \in Seq(Nat) /\ Len(s) = Len(b) /\ \A i \in 1..Len(s) : s[i] = b[i]
      BY <1>1, <1>2, <1>3
    <2> HIDE DEF b
    <2>2. s = b
      BY <2>1, SeqEqual
    <2> QED
      BY <2>2 DEF b
  <1> QED
    BY <1>1, <1>4 DEF Numbered

LEMMA BytesFollow ==
    ASSUME NEW s \in Seq(Nat), NEW m \in Nat, NEW n \in Nat, Ascending(s, m)
    PROVE  /\ Ascending(s \o P!Bytes(m, n), m + n)
           /\ Numbered(s, m) => Numbered(s \o P!Bytes(m, n), m + n)
  <1> DEFINE u == s \o P!Bytes(m, n)
  <1>1. /\ Len(s) \in Nat /\ Len(u) = Len(s) + n
        /\ \A i \in 1..Len(s) : u[i] = s[i] /\ s[i] \in Nat
        /\ \A i \in 1..Len(u) : i \notin 1..Len(s) => u[i] = m + (i - Len(s))
    <2>1. P!Bytes(m, n) \in Seq(Nat) /\ Len(P!Bytes(m, n)) = n
          /\ \A i \in 1..n : P!Bytes(m, n)[i] = m + i
      BY BytesFacts
    <2>2. Len(s) \in Nat /\ \A i \in 1..Len(s) : s[i] \in Nat
      BY LenProperties, ElementOfSeq
    <2>3. /\ Len(u) = Len(s) + n
          /\ \A i \in 1..Len(s) + n : u[i] = IF i <= Len(s) THEN s[i] ELSE P!Bytes(m, n)[i - Len(s)]
      <3> DEFINE b == P!Bytes(m, n)
      <3>1. b \in Seq(Nat) /\ Len(b) = n
        BY <2>1
      <3> HIDE DEF b
      <3>2. /\ Len(s \o b) = Len(s) + n
            /\ \A i \in 1..Len(s) + n : (s \o b)[i] = IF i <= Len(s) THEN s[i] ELSE b[i - Len(s)]
        BY <3>1, ConcatProperties
      <3> QED
        BY <3>2 DEF b
    <2> HIDE DEF u
    <2>4. \A i \in 1..Len(s) : u[i] = s[i]
      BY <2>2, <2>3
    <2>5. ASSUME NEW i \in 1..Len(u), i \notin 1..Len(s) PROVE u[i] = m + (i - Len(s))
      <3>1. i - Len(s) \in 1..n /\ ~(i <= Len(s))
        BY <2>2, <2>3, <2>5
      <3> QED
        BY <2>1, <2>3, <3>1
    <2> QED
      BY <2>2, <2>3, <2>4, <2>5
  <1> HIDE DEF u
  <1>2. Ascending(u, m + n)
    <2>1. \A i \in 1..Len(u) : u[i] <= m + n
      BY <1>1 DEF Ascending
    <2>2. ASSUME NEW i \in 1..Len(u), NEW j \in 1..Len(u), i < j PROVE u[i] < u[j]
      <3>1. CASE j \in 1..Len(s)
        BY <1>1, <2>2, <3>1 DEF Ascending
      <3>2. CASE j \notin 1..Len(s) /\ i \in 1..Len(s)
        BY <1>1, <2>2, <3>2 DEF Ascending
      <3>3. CASE j \notin 1..Len(s) /\ i \notin 1..Len(s)
        BY <1>1, <2>2, <3>3
      <3> QED
        BY <3>1, <3>2, <3>3
    <2> QED
      BY <2>1, <2>2 DEF Ascending
  <1>3. Numbered(s, m) => Numbered(u, m + n)
    BY <1>1 DEF Numbered
  <1> QED
    BY <1>2, <1>3 DEF u

(* What is under way is what was, from another place on.                   *)
LEMMA SameBytes ==
    ASSUME NEW d, NEW r, Coming(d, r),
           NEW d2 \in Seq(Nat), NEW r2 \in Seq(Nat), Underway(d2, r2)',
           p_file' \o (d2 \o r2) = p_file \o (d \o r),
           p_appended' = p_appended, p_failed' = p_failed
    PROVE  Coming(d2, r2)'
  BY DEF Coming

LEMMA InitFile == P!PosixFileAssumption /\ P!Init => FileInv
  <1> SUFFICES ASSUME P!PosixFileAssumption, P!Init PROVE FileInv
    OBVIOUS
  <1>1. <<>> \in Seq(Nat) /\ Len(<<>>) = 0
    BY EmptySeq
  <1>2. <<>> \o (<<>> \o <<>>) = <<>>
    BY <1>1, ConcatEmptySeq
  <1>3. Coming(<<>>, <<>>)
    BY <1>1, <1>2 DEF P!Init, Coming, Underway, Ascending, Numbered
  <1>4. P!TypeOK
    BY <1>1 DEF P!Init, P!TypeOK, P!PosixFileAssumption
  <1> QED
    BY <1>1, <1>3, <1>4 DEF FileInv, P!Init

(* Between two calls the buffer is what is to come.                        *)
LEMMA Resting ==
    ASSUME NEW d, NEW r, Underway(d, r), p_todo = <<>>
    PROVE  d = p_buf /\ r = <<>>
  BY DEF Underway

LEMMA AppendDataKeeps ==
    ASSUME P!PosixFileAssumption, FileInv, NEW n \in Sizes, P!AppendData(n)
    PROVE  FileInv'
  <1> DEFINE bytes == P!Bytes(p_appended, n)
             copy == IF n < BufferSize - Len(p_buf) THEN n ELSE BufferSize - Len(p_buf)
             front == SubSeq(bytes, 1, copy)
             rest == SubSeq(bytes, copy + 1, n)
  <1>1. /\ n \in Nat /\ p_appended \in Nat /\ Len(p_buf) \in Nat /\ BufferSize \in Nat
        /\ Len(p_buf) <= BufferSize /\ p_buf \in Seq(Nat) /\ p_file \in Seq(Nat)
    BY LenProperties DEF P!PosixFileAssumption, FileInv, P!TypeOK
  <1>2. copy \in 0..n /\ Len(p_buf) + copy <= BufferSize
    BY <1>1
  <1>3. bytes \in Seq(Nat) /\ Len(bytes) = n
    BY <1>1, BytesFacts
  <1>4. /\ p_todo = <<>> /\ p_appended + n <= MaxBytes /\ p_appended' = p_appended + n
        /\ p_buf' = p_buf \o front
        /\ UNCHANGED <<p_file, p_synced, p_failed, p_promised>>
        /\ p_todo' = IF rest = <<>> THEN <<>>
                   ELSE <<WriteOf(p_buf'), IF Len(rest) >= BufferSize THEN DirectOf(rest)
                                         ELSE CopyOf(rest)>>
    BY DEF P!AppendData, WriteOf, DirectOf, CopyOf, Operation
  <1> HIDE DEF copy
  <1>5. /\ front \in Seq(Nat) /\ Len(front) = copy
        /\ rest \in Seq(Nat) /\ Len(rest) \in Nat
        /\ front \o rest = bytes
    <2> HIDE DEF bytes
    <2> QED
      BY <1>1, <1>2, <1>3, Split, LenProperties
  <1> HIDE DEF front, rest, bytes
  <1>6. p_buf' \in Seq(Nat) /\ Len(p_buf') <= BufferSize
    BY <1>1, <1>2, <1>4, <1>5, ConcatProperties
  <1>7. PICK d, r : Coming(d, r)
    BY DEF FileInv
  <1>8. d = p_buf /\ r = <<>>
    BY <1>4, <1>7, Resting DEF Coming
  <1>9. p_file' \o (p_buf' \o rest) = (p_file \o (d \o r)) \o bytes
    <2>0. /\ p_file \in Seq(Nat) /\ p_buf \in Seq(Nat) /\ front \in Seq(Nat)
          /\ rest \in Seq(Nat) /\ bytes \in Seq(Nat)
      BY <1>1, <1>3, <1>5
    <2>1. d \o r = p_buf
      BY <1>1, <1>8, ConcatEmptySeq
    <2>2. (p_buf \o front) \o rest = p_buf \o (front \o rest)
      <3>1. p_buf \in Seq(Byte) /\ front \in Seq(Byte) /\ rest \in Seq(Byte)
        BY <2>0 DEF Byte
      <3> QED
        BY ONLY <3>1, Regroup
    <2>3. (p_file \o p_buf) \o bytes = p_file \o (p_buf \o bytes)
      <3>1. p_file \in Seq(Byte) /\ p_buf \in Seq(Byte) /\ bytes \in Seq(Byte)
        BY <2>0 DEF Byte
      <3> QED
        BY ONLY <3>1, Regroup
    <2> QED
      BY <1>4, <1>5, <2>1, <2>2, <2>3
  <1>10. PICK d2, r2 : d2 = p_buf' /\ r2 = rest
    OBVIOUS
  <1>11. Underway(d2, r2)'
    <2>1. CASE rest = <<>>
      BY <1>4, <1>10, <2>1 DEF Underway
    <2>2. CASE rest # <<>> /\ Len(rest) >= BufferSize
      BY <1>4, <1>10, <2>2 DEF Underway
    <2>3. CASE rest # <<>> /\ ~(Len(rest) >= BufferSize)
      <3>1. p_todo' = <<WriteOf(d2), CopyOf(r2)>> /\ Len(r2) <= BufferSize
        BY <1>1, <1>4, <1>5, <1>10, <2>3
      <3> QED
        BY <3>1 DEF Underway
    <2> QED
      BY <2>1, <2>2, <2>3
  <1>12. Coming(d2, r2)'
    <2> DEFINE s == p_file \o (d \o r)
    <2>1. /\ s \in Seq(Nat) /\ Ascending(s, p_appended)
          /\ p_failed = 0 => Numbered(s, p_appended)
      BY <1>1, <1>7, ConcatProperties DEF Coming
    <2> HIDE DEF s
    <2>2. /\ Ascending(s \o bytes, p_appended + n)
          /\ p_failed = 0 => Numbered(s \o bytes, p_appended + n)
      BY <1>1, <2>1, BytesFollow DEF bytes
    <2>3. /\ Ascending(p_file' \o (d2 \o r2), p_appended')
          /\ p_failed' = 0 => Numbered(p_file' \o (d2 \o r2), p_appended')
      BY <1>4, <1>9, <1>10, <2>2 DEF s
    <2> QED
      BY <1>5, <1>6, <1>10, <1>11, <2>3 DEF Coming
  <1>13. P!TypeOK'
    BY <1>1, <1>4, <1>6 DEF FileInv, P!TypeOK
  <1> QED
    BY <1>1, <1>4, <1>6, <1>12, <1>13 DEF FileInv

LEMMA BeginKeeps ==
    ASSUME P!PosixFileAssumption, FileInv, P!Flush \/ P!Sync
    PROVE  FileInv'
  <1>1. PICK d, r : Coming(d, r)
    BY DEF FileInv
  <1>2. /\ p_todo = <<>> /\ UNCHANGED <<p_appended, p_buf, p_file, p_synced, p_failed, p_promised>>
        /\ p_todo' = <<WriteOf(p_buf)>> \/ p_todo' = <<WriteOf(p_buf), SyncOf>>
    BY DEF P!Flush, P!Sync, WriteOf, SyncOf, Operation
  <1>3. d = p_buf /\ r = <<>>
    BY <1>1, <1>2, Resting DEF Coming
  <1>4. Underway(d, r)'
    BY <1>2, <1>3 DEF Underway
  <1>5. Coming(d, r)'
    BY <1>1, <1>2, <1>4 DEF Coming
  <1> QED
    BY <1>2, <1>5 DEF FileInv, P!TypeOK

(* The operation at the head of the list, and what is behind it.           *)
LEMMA TupleFacts ==
    ASSUME NEW x, NEW y
    PROVE  /\ Head(<<x>>) = x /\ Tail(<<x>>) = <<>> /\ <<x>> # <<>>
           /\ Head(<<x, y>>) = x /\ Tail(<<x, y>>) = <<y>> /\ <<x, y>> # <<>>
  OBVIOUS

LEMMA HeadFacts ==
    ASSUME NEW d, NEW r, Underway(d, r), p_todo # <<>>
    PROVE  /\ Head(p_todo).op = "write" =>
                  /\ Head(p_todo) = WriteOf(d)
                  /\ \/ p_todo = <<WriteOf(d)>> /\ Tail(p_todo) = <<>> /\ r = <<>>
                     \/ p_todo = <<WriteOf(d), DirectOf(r)>> /\ Tail(p_todo) = <<DirectOf(r)>>
                     \/ /\ p_todo = <<WriteOf(d), CopyOf(r)>> /\ Tail(p_todo) = <<CopyOf(r)>>
                        /\ Len(r) <= BufferSize
                     \/ p_todo = <<WriteOf(d), SyncOf>> /\ Tail(p_todo) = <<SyncOf>> /\ r = <<>>
           /\ Head(p_todo).op = "direct" =>
                  /\ p_todo = <<DirectOf(r)>> /\ Head(p_todo) = DirectOf(r) /\ Tail(p_todo) = <<>>
                  /\ d = <<>> /\ p_buf = <<>>
           /\ Head(p_todo).op = "copy" =>
                  /\ Head(p_todo) = CopyOf(r) /\ Tail(p_todo) = <<>> /\ d = <<>> /\ p_buf = <<>>
                  /\ Len(r) <= BufferSize
           /\ Head(p_todo).op = "sync" => Tail(p_todo) = <<>> /\ d = <<>> /\ r = <<>> /\ p_buf = <<>>
  <1> USE TupleFacts DEF WriteOf, DirectOf, CopyOf, SyncOf, Operation
  <1>1. CASE p_todo = <<WriteOf(d)>> /\ r = <<>>
    BY <1>1
  <1>2. CASE p_todo = <<WriteOf(d), DirectOf(r)>>
    BY <1>2
  <1>3. CASE p_todo = <<WriteOf(d), CopyOf(r)>> /\ Len(r) <= BufferSize
    BY <1>3
  <1>4. CASE p_todo = <<WriteOf(d), SyncOf>> /\ r = <<>>
    BY <1>4
  <1>5. CASE p_todo = <<DirectOf(r)>> /\ d = <<>> /\ p_buf = <<>>
    BY <1>5
  <1>6. CASE p_todo = <<CopyOf(r)>> /\ d = <<>> /\ p_buf = <<>> /\ Len(r) <= BufferSize
    BY <1>6
  <1>7. CASE p_todo = <<SyncOf>> /\ d = <<>> /\ r = <<>> /\ p_buf = <<>>
    BY <1>7
  <1> QED
    BY <1>1, <1>2, <1>3, <1>4, <1>5, <1>6, <1>7, Zenon DEF Underway
LEMMA HeadReplaced ==
    ASSUME NEW a, NEW x
    PROVE  /\ [<<a>> EXCEPT ![1] = x] = <<x>>
           /\ \A y : [<<a, y>> EXCEPT ![1] = x] = <<x, y>>
  <1>1. [<<a>> EXCEPT ![1] = x] = <<x>>
    OBVIOUS
  <1>2. ASSUME NEW y PROVE [<<a, y>> EXCEPT ![1] = x] = <<x, y>>
    OBVIOUS
  <1> QED
    BY <1>1, <1>2

LEMMA DataReplaced ==
    ASSUME NEW o, NEW d, NEW x
    PROVE  /\ Operation(o, d).data = d
           /\ [Operation(o, d) EXCEPT !.data = x] = Operation(o, x)
  <1>1. [[op |-> o, data |-> d] EXCEPT !.data = x] = [op |-> o, data |-> x]
    OBVIOUS
  <1>2. [op |-> o, data |-> d].data = d
    OBVIOUS
  <1> QED
    BY <1>1, <1>2 DEF Operation

(* Data taken off the front of the first operation.                        *)
Behind(d, n) == SubSeq(d, n + 1, Len(d))
Cut(t, n) == [t EXCEPT ![1].data = Behind(@, n)]

LEMMA CutHead ==
    ASSUME NEW t, NEW o, NEW d, NEW n
    PROVE  /\ t = <<Operation(o, d)>> => Cut(t, n) = <<Operation(o, Behind(d, n))>>
           /\ \A y : t = <<Operation(o, d), y>> =>
                 Cut(t, n) = <<Operation(o, Behind(d, n)), y>>
  <1>1. ASSUME t[1] = Operation(o, d)
        PROVE  Cut(t, n) = [t EXCEPT ![1] = Operation(o, Behind(d, n))]
    <2> DEFINE r == t[1]
               y == Behind(r.data, n)
    <2>1. Cut(t, n) = [t EXCEPT ![1] = [r EXCEPT !.data = y]]
      BY DEF Cut
    <2> HIDE DEF r
    <2>2. r = Operation(o, d)
      BY <1>1 DEF r
    <2>3. r.data = d /\ [r EXCEPT !.data = Behind(d, n)] = Operation(o, Behind(d, n))
      BY <2>2, DataReplaced
    <2>4. y = Behind(d, n)
      BY <2>3
    <2> HIDE DEF y
    <2> QED
      BY ONLY <2>1, <2>3, <2>4
  <1>2. CASE t = <<Operation(o, d)>>
    BY <1>1, <1>2, HeadReplaced
  <1>3. ASSUME NEW y, t = <<Operation(o, d), y>>
        PROVE  Cut(t, n) = <<Operation(o, Behind(d, n)), y>>
    BY <1>1, <1>3, HeadReplaced
  <1> QED
    BY <1>2, <1>3

(* write() takes part of the bytes: they are in the file, not to come.     *)
LEMMA WriteSomeKeeps ==
    ASSUME FileInv, NEW n, P!WriteSome(n)
    PROVE  FileInv'
  <1>1. PICK d, r : Coming(d, r)
    BY DEF FileInv
  <1>2. /\ d \in Seq(Nat) /\ r \in Seq(Nat) /\ p_file \in Seq(Nat) /\ Underway(d, r)
        /\ p_todo # <<>> /\ Head(p_todo).op \in {"write", "direct"}
        /\ n \in 1..Len(Head(p_todo).data)
        /\ p_file' = p_file \o SubSeq(Head(p_todo).data, 1, n)
        /\ p_todo' = [p_todo EXCEPT ![1].data = SubSeq(@, n + 1, Len(@))]
        /\ UNCHANGED <<p_appended, p_buf, p_synced, p_failed, p_promised>>
    BY <1>1 DEF Coming, FileInv, P!WriteSome
  <1>3. ASSUME NEW d2 \in Seq(Nat), NEW r2 \in Seq(Nat), Underway(d2, r2)',
               p_file' \o (d2 \o r2) = p_file \o (d \o r), p_file' \in Seq(Nat),
               Len(p_file) <= Len(p_file')
        PROVE  FileInv'
    <2>1. Coming(d2, r2)'
      BY <1>1, <1>2, <1>3, SameBytes
    <2>2. P!TypeOK'
      BY <1>2, <1>3, LenProperties DEF FileInv, P!TypeOK
    <2> QED
      BY <1>2, <1>3, <2>1, <2>2 DEF FileInv
  <1>4. CASE Head(p_todo).op = "write"
    <2> DEFINE t == SubSeq(d, 1, n)
               d2 == SubSeq(d, n + 1, Len(d))
    <2>1. Head(p_todo).data = d
      BY <1>2, <1>4, HeadFacts DEF WriteOf, Operation
    <2>2. n \in 0..Len(d)
      BY <1>2, <2>1, LenProperties
    <2>3. t \in Seq(Nat) /\ d2 \in Seq(Nat) /\ t \o d2 = d /\ p_file' = p_file \o t
      BY <1>2, <2>1, <2>2, Split
    <2>4. PICK x : x = d2
      OBVIOUS
    <2>5. Underway(x, r)'
      <3>0. /\ p_todo = <<WriteOf(d)>> => p_todo' = <<WriteOf(x)>>
            /\ \A y : p_todo = <<WriteOf(d), y>> => p_todo' = <<WriteOf(x), y>>
        <4>1. PICK t0, cut : t0 = p_todo /\ cut = p_todo'
          OBVIOUS
        <4>2. /\ cut = Cut(t0, n)
              /\ x = Behind(d, n)
          BY <1>2, <2>4, <4>1 DEF Cut, Behind
        <4>3. /\ t0 = <<WriteOf(d)>> => cut = <<WriteOf(x)>>
              /\ \A y : t0 = <<WriteOf(d), y>> => cut = <<WriteOf(x), y>>
          BY ONLY <4>2, CutHead DEF WriteOf
        <4> QED
          BY <4>1, <4>3
      <3>1. CASE p_todo = <<WriteOf(d)>> /\ r = <<>>
        <4>1. p_todo' = <<WriteOf(x)>>
          BY <3>0, <3>1
        <4> QED
          BY <3>1, <4>1 DEF Underway
      <3>2. CASE p_todo = <<WriteOf(d), DirectOf(r)>>
        <4>1. p_todo' = <<WriteOf(x), DirectOf(r)>>
          BY <3>0, <3>2
        <4> QED
          BY <4>1 DEF Underway
      <3>3. CASE p_todo = <<WriteOf(d), CopyOf(r)>> /\ Len(r) <= BufferSize
        <4>1. p_todo' = <<WriteOf(x), CopyOf(r)>>
          BY <3>0, <3>3
        <4> QED
          BY <3>3, <4>1 DEF Underway
      <3>4. CASE p_todo = <<WriteOf(d), SyncOf>> /\ r = <<>>
        <4>1. p_todo' = <<WriteOf(x), SyncOf>>
          BY <3>0, <3>4
        <4> QED
          BY <3>4, <4>1 DEF Underway
      <3> QED
        BY <1>2, <1>4, <3>1, <3>2, <3>3, <3>4, HeadFacts
    <2> HIDE DEF t, d2
    <2>6. /\ (p_file \o t) \o (d2 \o r) = p_file \o (t \o (d2 \o r))
          /\ (t \o d2) \o r = t \o (d2 \o r)
      <3>1. d2 \o r \in Seq(Nat)
        BY <1>2, <2>3, ConcatProperties
      <3>2. (p_file \o t) \o (d2 \o r) = p_file \o (t \o (d2 \o r))
        <4>1. p_file \in Seq(Byte) /\ t \in Seq(Byte) /\ d2 \o r \in Seq(Byte)
          BY <1>2, <2>3, <3>1 DEF Byte
        <4> QED
          BY ONLY <4>1, Regroup
      <3>3. (t \o d2) \o r = t \o (d2 \o r)
        <4>1. t \in Seq(Byte) /\ d2 \in Seq(Byte) /\ r \in Seq(Byte)
          BY <1>2, <2>3 DEF Byte
        <4> QED
          BY ONLY <4>1, Regroup
      <3> QED
        BY <3>2, <3>3
    <2>7. p_file' \o (x \o r) = p_file \o (d \o r)
      BY <2>3, <2>4, <2>6
    <2>8. p_file' \in Seq(Nat) /\ Len(p_file) <= Len(p_file')
      <3>1. Len(t) \in Nat /\ Len(p_file) \in Nat
        BY <1>2, <2>3, LenProperties
      <3>2. p_file \o t \in Seq(Nat) /\ Len(p_file \o t) = Len(p_file) + Len(t)
        BY <1>2, <2>3, ConcatProperties
      <3> QED
        BY <2>3, <3>1, <3>2
    <2> QED
      BY <1>2, <1>3, <2>3, <2>4, <2>5, <2>7, <2>8
  <1>5. CASE Head(p_todo).op = "direct"
    <2> DEFINE t == SubSeq(r, 1, n)
               r2 == SubSeq(r, n + 1, Len(r))
    <2>1. Head(p_todo).data = r /\ p_todo = <<DirectOf(r)>> /\ d = <<>> /\ p_buf = <<>>
      BY <1>2, <1>5, HeadFacts DEF DirectOf, Operation
    <2>2. n \in 0..Len(r)
      BY <1>2, <2>1, LenProperties
    <2>3. t \in Seq(Nat) /\ r2 \in Seq(Nat) /\ t \o r2 = r /\ p_file' = p_file \o t
      BY <1>2, <2>1, <2>2, Split
    <2>4. PICK x : x = r2
      OBVIOUS
    <2>5. Underway(d, x)'
      <3>1. p_todo' = <<DirectOf(x)>>
        <4>1. PICK t0, cut : t0 = p_todo /\ cut = p_todo'
          OBVIOUS
        <4>2. /\ cut = Cut(t0, n)
              /\ x = Behind(r, n) /\ t0 = <<DirectOf(r)>>
          BY <1>2, <2>1, <2>4, <4>1 DEF Cut, Behind
        <4>3. cut = <<DirectOf(x)>>
          BY ONLY <4>2, CutHead DEF DirectOf
        <4> QED
          BY <4>1, <4>3
      <3> QED
        BY <1>2, <2>1, <3>1 DEF Underway
    <2> HIDE DEF t, r2
    <2>6. (p_file \o t) \o r2 = p_file \o (t \o r2)
      <3>1. p_file \in Seq(Byte) /\ t \in Seq(Byte) /\ r2 \in Seq(Byte)
        BY <1>2, <2>3 DEF Byte
      <3> QED
        BY ONLY <3>1, Regroup
    <2>7. d \o r2 = r2 /\ d \o r = r
      BY <1>2, <2>1, <2>3, ConcatEmptySeq
    <2>8. p_file' \o (d \o x) = p_file \o (d \o r)
      BY <2>3, <2>4, <2>6, <2>7
    <2>9. p_file' \in Seq(Nat) /\ Len(p_file) <= Len(p_file')
      <3>1. Len(t) \in Nat /\ Len(p_file) \in Nat
        BY <1>2, <2>3, LenProperties
      <3>2. p_file \o t \in Seq(Nat) /\ Len(p_file \o t) = Len(p_file) + Len(t)
        BY <1>2, <2>3, ConcatProperties
      <3> QED
        BY <2>3, <3>1, <3>2
    <2> QED
      BY <1>2, <1>3, <2>3, <2>4, <2>5, <2>8, <2>9
  <1> QED
    BY <1>2, <1>4, <1>5

LEMMA WriteDoneKeeps == ASSUME P!PosixFileAssumption, FileInv, P!WriteDone PROVE FileInv'
  <1>1. PICK d, r : Coming(d, r)
    BY DEF FileInv
  <1>2. /\ Underway(d, r) /\ p_todo # <<>>
        /\ Head(p_todo).op \in {"write", "direct"} /\ Head(p_todo).data = <<>>
        /\ p_buf' = IF Head(p_todo).op = "write" THEN <<>> ELSE p_buf
        /\ p_todo' = Tail(p_todo)
        /\ UNCHANGED <<p_appended, p_file, p_synced, p_failed, p_promised>>
    BY <1>1 DEF Coming, P!WriteDone
  <1>3. Underway(d, r)'
    <2>1. CASE Head(p_todo).op = "write"
      <3>1. d = <<>> /\ p_buf' = <<>>
        BY <1>2, <2>1, HeadFacts DEF WriteOf, Operation
      <3> QED
        BY <1>2, <2>1, <3>1, HeadFacts DEF Underway
    <2>2. CASE Head(p_todo).op = "direct"
      BY <1>2, <2>2, HeadFacts DEF Underway, DirectOf, Operation
    <2> QED
      BY <1>2, <2>1, <2>2
  <1>4. Coming(d, r)'
    BY <1>1, <1>2, <1>3 DEF Coming
  <1>5. p_buf' \in Seq(Nat) /\ P!TypeOK'
    BY <1>2, EmptySeq DEF FileInv, P!TypeOK, P!PosixFileAssumption
  <1> QED
    BY <1>2, <1>4, <1>5 DEF FileInv

(* A call that fails leaves a file that is still in order.                 *)
LEMMA FailsKeep ==
    ASSUME P!PosixFileAssumption, FileInv, P!WriteFails \/ P!SyncFails
    PROVE  FileInv'
  <1>1. PICK d, r : Coming(d, r)
    BY DEF FileInv
  <1>2. /\ Underway(d, r) /\ p_todo # <<>> /\ p_todo' = <<>> /\ p_failed' = p_failed + 1
        /\ p_failed < MaxFailures /\ p_failed \in Nat /\ MaxFailures \in Nat
        /\ UNCHANGED <<p_appended, p_file, p_synced, p_promised>>
    BY <1>1 DEF Coming, P!WriteFails, P!SyncFails, FileInv, P!TypeOK, P!PosixFileAssumption
  <1>3. p_buf' = <<>>
    BY <1>2, HeadFacts DEF P!WriteFails, P!SyncFails
  <1>4. Underway(<<>>, <<>>)'
    BY <1>2, <1>3 DEF Underway
  <1>5. p_file \o (<<>> \o <<>>) = p_file /\ <<>> \in Seq(Nat)
    BY EmptySeq, ConcatEmptySeq DEF FileInv
  <1>6. Ascending(p_file, p_appended)
    <2>1. d \o r \in Seq(Nat)
      BY <1>1, ConcatProperties DEF Coming
    <2> QED
      BY <1>1, <2>1, AscendingPrefix DEF Coming, FileInv
  <1>7. Coming(<<>>, <<>>)'
    BY <1>2, <1>4, <1>5, <1>6 DEF Coming, Ascending
  <1>8. P!TypeOK'
    BY <1>2, <1>3, EmptySeq DEF FileInv, P!TypeOK, P!PosixFileAssumption
  <1> QED
    BY <1>2, <1>3, <1>5, <1>7, <1>8 DEF FileInv

LEMMA CopyKeeps == ASSUME FileInv, P!Copy PROVE FileInv'
  <1>1. PICK d, r : Coming(d, r)
    BY DEF FileInv
  <1>2. /\ d \in Seq(Nat) /\ r \in Seq(Nat) /\ Underway(d, r)
        /\ p_todo # <<>> /\ Head(p_todo).op = "copy"
        /\ p_buf' = Head(p_todo).data /\ p_todo' = Tail(p_todo)
        /\ UNCHANGED <<p_appended, p_file, p_synced, p_failed, p_promised>>
    BY <1>1 DEF Coming, P!Copy
  <1>3. p_buf' = r /\ p_todo' = <<>> /\ d = <<>> /\ Len(r) <= BufferSize
    BY <1>2, HeadFacts DEF CopyOf, Operation
  <1>4. Underway(r, d)'
    BY <1>3 DEF Underway
  <1>5. r \o d = r /\ d \o r = r
    BY <1>2, <1>3, ConcatEmptySeq
  <1>6. Coming(r, d)'
    BY <1>1, <1>2, <1>4, <1>5 DEF Coming
  <1>7. P!TypeOK'
    BY <1>2, <1>3 DEF FileInv, P!TypeOK
  <1> QED
    BY <1>2, <1>3, <1>6, <1>7 DEF FileInv

LEMMA SyncFdKeeps == ASSUME FileInv, P!SyncFd PROVE FileInv'
  <1>1. PICK d, r : Coming(d, r)
    BY DEF FileInv
  <1>2. /\ Underway(d, r) /\ p_todo # <<>> /\ Head(p_todo).op = "sync"
        /\ p_synced' = Len(p_file) /\ p_promised' = p_appended /\ p_todo' = Tail(p_todo)
        /\ UNCHANGED <<p_appended, p_buf, p_file, p_failed>>
    BY <1>1 DEF Coming, P!SyncFd
  <1>3. p_todo' = <<>> /\ d = <<>> /\ r = <<>> /\ p_buf = <<>>
    BY <1>2, HeadFacts
  <1>4. Underway(d, r)'
    BY <1>2, <1>3 DEF Underway
  <1>5. Coming(d, r)'
    BY <1>1, <1>2, <1>4 DEF Coming
  <1>6. p_failed = 0 => Len(p_file) = p_appended
    <2>1. d \o r = <<>> /\ d \o r \in Seq(Nat)
      BY <1>3, EmptySeq, ConcatEmptySeq
    <2> QED
      BY <1>1, <2>1, NumberedPrefix DEF Coming, FileInv
  <1>7. Len(p_file) \in Nat /\ p_appended \in Nat
    BY LenProperties DEF FileInv, P!TypeOK
  <1>8. P!TypeOK'
    BY <1>2, <1>7 DEF FileInv, P!TypeOK
  <1> QED
    BY <1>2, <1>5, <1>6, <1>7, <1>8 DEF FileInv

LEMMA WriteBackKeeps == ASSUME FileInv, P!WriteBack PROVE FileInv'
  <1>1. PICK d, r : Coming(d, r)
    BY DEF FileInv
  <1>2. /\ p_synced \in Nat /\ Len(p_file) \in Nat /\ p_synced < Len(p_file) /\ p_synced' = p_synced + 1
        /\ UNCHANGED <<p_appended, p_buf, p_file, p_todo, p_failed, p_promised>>
    BY LenProperties DEF FileInv, P!TypeOK, P!WriteBack
  <1>3. Coming(d, r)'
    BY <1>1, <1>2 DEF Coming, Underway
  <1>4. P!TypeOK'
    BY <1>2 DEF FileInv, P!TypeOK
  <1> QED
    BY <1>2, <1>3, <1>4 DEF FileInv

LEMMA FileStutters == ASSUME FileInv, UNCHANGED P!vars PROVE FileInv'
  <1>1. PICK d, r : Coming(d, r)
    BY DEF FileInv
  <1>2. Coming(d, r)'
    BY <1>1 DEF Coming, Underway, P!vars
  <1> QED
    BY <1>2 DEF FileInv, P!TypeOK, P!vars

LEMMA StepKeepsFile == P!PosixFileAssumption /\ FileInv /\ [P!Next]_P!vars => FileInv'
  <1> SUFFICES ASSUME P!PosixFileAssumption, FileInv, [P!Next]_P!vars
               PROVE  FileInv'
    OBVIOUS
  <1>1. CASE \E n \in Sizes : P!AppendData(n)
    BY <1>1, AppendDataKeeps
  <1>2. CASE \E n \in 1..MaxBytes : P!WriteSome(n)
    BY <1>2, WriteSomeKeeps
  <1> QED
    BY <1>1, <1>2, BeginKeeps, WriteDoneKeeps, FailsKeep, CopyKeeps, SyncFdKeeps,
       WriteBackKeeps, FileStutters DEF P!Next

LEMMA FileKept == FileInv => P!FileInOrder /\ P!SyncedSurvives
  <1> SUFFICES ASSUME FileInv PROVE P!FileInOrder /\ P!SyncedSurvives
    OBVIOUS
  <1>1. PICK d, r : Coming(d, r)
    BY DEF FileInv
  <1>2. p_file \in Seq(Nat) /\ d \o r \in Seq(Nat)
    BY <1>1, ConcatProperties DEF Coming, FileInv
  <1>3. Ascending(p_file, p_appended)
    BY <1>1, <1>2, AscendingPrefix DEF Coming
  <1>4. p_failed = 0 => p_file = P!Bytes(0, Len(p_file))
    BY <1>1, <1>2, NumberedPrefix DEF Coming
  <1> QED
    BY <1>3, <1>4 DEF FileInv, P!FileInOrder, P!SyncedSurvives, Ascending

-----------------------------------------------------------------------------
(* BackgroundQueue.  The invariant says which items have left the queue,   *)
(* and that nobody sleeps while it holds one.                              *)

(* What has left the queue: the items run, and the one that is running.      *)
Gone == IF b_thread = "running" THEN b_done + 1 ELSE b_done

Typed ==
    /\ b_thread \in {"none", "ready", "waiting", "woken", "running"}
    /\ b_scheduled \in Nat
    /\ b_done \in Nat /\ b_running \in Nat
    /\ b_work_queue \in Seq(Nat)

(* The queue holds what was scheduled and has not left it, in order.       *)
QueueInOrder ==
    /\ Len(b_work_queue) = b_scheduled - Gone
    /\ \A i \in 1..Len(b_work_queue) : b_work_queue[i] = Gone + i

(* Nobody sleeps while there is work: no signal has been missed.           *)
AwakeForWork == b_thread \in {"none", "waiting"} => b_work_queue = <<>>

QueueInv ==
    Typed /\ QueueInOrder /\ AwakeForWork /\ B!RunsInOrder

LEMMA InitQueue == B!Init => QueueInv
  BY DEF B!Init, QueueInv, Typed, QueueInOrder, AwakeForWork, B!RunsInOrder, Gone

LEMMA ScheduleKeeps == ASSUME QueueInv, B!Schedule PROVE QueueInv'
  <1> DEFINE n == b_scheduled + 1
  <1>1. /\ b_work_queue \in Seq(Nat) /\ n \in Nat
        /\ b_work_queue' = Append(b_work_queue, n) /\ b_scheduled' = n
        /\ UNCHANGED <<b_running, b_done>>
    BY DEF B!Schedule, QueueInv, Typed
  <1>2. /\ Len(b_work_queue') = Len(b_work_queue) + 1
        /\ \A i \in 1..Len(b_work_queue) : b_work_queue'[i] = b_work_queue[i]
        /\ b_work_queue'[Len(b_work_queue) + 1] = n
        /\ b_work_queue' \in Seq(Nat)
        /\ Len(b_work_queue) \in Nat
    BY <1>1, AppendProperties, LenProperties
  <1>3. b_thread' \in {"ready", "waiting", "woken", "running"}
        /\ (b_thread' = "waiting" => FALSE)
    BY DEF B!Schedule, QueueInv, Typed, AwakeForWork
  <1>4. (b_thread' = "running") = (b_thread = "running")
    BY DEF B!Schedule, QueueInv, Typed
  <1>5. Gone' = Gone /\ Gone \in Nat
    BY <1>1, <1>4 DEF Gone, QueueInv, Typed
  <1>6. Typed'
    BY <1>1, <1>2, <1>3 DEF Typed, QueueInv, B!Schedule
  <1>7. QueueInOrder'
    <2>1. Len(b_work_queue) = b_scheduled - Gone
          /\ \A i \in 1..Len(b_work_queue) : b_work_queue[i] = Gone + i
      BY DEF QueueInv, QueueInOrder
    <2>2. Len(b_work_queue') = b_scheduled' - Gone'
      BY <1>1, <1>2, <1>5, <2>1 DEF QueueInv, Typed
    <2>3. ASSUME NEW i \in 1..Len(b_work_queue')
          PROVE  b_work_queue'[i] = Gone' + i
      <3>1. CASE i \in 1..Len(b_work_queue)
        BY <3>1, <1>2, <1>5, <2>1
      <3>2. CASE i = Len(b_work_queue) + 1
        BY <3>2, <1>2, <1>5, <2>1 DEF QueueInv, Typed
      <3> QED
        BY <3>1, <3>2, <1>2
    <2> QED
      BY <2>2, <2>3 DEF QueueInOrder
  <1>8. AwakeForWork'
    BY <1>3 DEF AwakeForWork
  <1>9. B!RunsInOrder'
    BY <1>1, <1>4 DEF B!RunsInOrder, QueueInv
  <1> QED
    BY <1>6, <1>7, <1>8, <1>9 DEF QueueInv

LEMMA TakeKeeps == ASSUME QueueInv, B!Take PROVE QueueInv'
  <1>1. CASE b_work_queue = <<>>
    BY <1>1 DEF B!Take, QueueInv, Typed, QueueInOrder, AwakeForWork, B!RunsInOrder, Gone
  <1>2. CASE b_work_queue # <<>>
    <2>1. /\ b_work_queue \in Seq(Nat) /\ b_thread # "running"
          /\ b_thread' = "running" /\ b_running' = b_work_queue[1]
          /\ b_work_queue' = Tail(b_work_queue)
          /\ UNCHANGED <<b_scheduled, b_done>>
      BY <1>2 DEF B!Take, QueueInv, Typed
    <2>2. /\ Len(b_work_queue) \in Nat /\ Len(b_work_queue) > 0
          /\ Len(b_work_queue') = Len(b_work_queue) - 1
          /\ b_work_queue' \in Seq(Nat)
          /\ \A i \in 1..Len(b_work_queue') : b_work_queue'[i] = b_work_queue[i + 1]
      BY <1>2, <2>1, HeadTailProperties, LenProperties, EmptySeq
    <2>3. Gone = b_done /\ Gone' = b_done + 1
      BY <2>1 DEF Gone
    <2>4. Len(b_work_queue) = b_scheduled - Gone
          /\ \A i \in 1..Len(b_work_queue) : b_work_queue[i] = Gone + i
      BY DEF QueueInv, QueueInOrder
    <2>5. b_running' = b_done + 1
      BY <2>1, <2>2, <2>3, <2>4
    <2>6. Typed'
      BY <2>1, <2>2, <2>5 DEF Typed, QueueInv
    <2>7. QueueInOrder'
      BY <2>1, <2>2, <2>3, <2>4 DEF QueueInOrder, QueueInv, Typed
    <2> QED
      BY <2>1, <2>5, <2>6, <2>7 DEF QueueInv, AwakeForWork, B!RunsInOrder
  <1> QED
    BY <1>1, <1>2

LEMMA SpuriousKeeps == ASSUME QueueInv, B!Spurious PROVE QueueInv'
  BY DEF B!Spurious, QueueInv, Typed, QueueInOrder, AwakeForWork, B!RunsInOrder, Gone

LEMMA RunKeeps == ASSUME QueueInv, B!Run PROVE QueueInv'
  BY DEF B!Run, QueueInv, Typed, QueueInOrder, AwakeForWork, B!RunsInOrder, Gone

LEMMA StepKeepsQueue == QueueInv /\ [B!Next]_B!vars => QueueInv'
  <1> SUFFICES ASSUME QueueInv, [B!Next]_B!vars
               PROVE  QueueInv'
    OBVIOUS
  <1>1. CASE UNCHANGED B!vars
    BY <1>1 DEF B!vars, QueueInv, Typed, QueueInOrder, AwakeForWork, B!RunsInOrder, Gone
  <1> QED
    BY <1>1, ScheduleKeeps, TakeKeeps, SpuriousKeeps, RunKeeps DEF B!Next

-----------------------------------------------------------------------------
(* Whatever part runs, the file and the queue of background work take      *)
(* steps of their own or stay as they are.                                 *)
EnvInv == FileInv /\ QueueInv

LEMMA StepKeepsEnv == EnvInv /\ [PartsNext]_all => EnvInv'
  <1> SUFFICES ASSUME EnvInv, [PartsNext]_all
               PROVE  EnvInv'
    OBVIOUS
  <1>1. [P!Next]_P!vars /\ [B!Next]_B!vars
    BY DEF PartsNext, RecoveryStep, WriteQueueStep, PosixFileStep, BackgroundQueueStep, all,
           PosixFileVars, BackgroundQueueVars, P!vars, B!vars
  <1> QED
    BY <1>1, StepKeepsFile, StepKeepsQueue, PosixFileParameters DEF EnvInv

(* Whatever write() and fsync() come to, a file has the appended bytes in  *)
(* order, none missing unless a call has failed, and after a successful    *)
(* Sync all of them are on the disk; work items run in the order of        *)
(* Schedule, none twice (PosixWritableFile, BackgroundThreadMain).         *)
THEOREM EnvironmentKeepsOrderHolds == PartsSpec => []EnvironmentKeepsOrder
  <1>1. PartsInit => EnvInv
    BY InitFile, InitQueue, PosixFileParameters DEF PartsInit, EnvInv
  <1>2. EnvInv => EnvironmentKeepsOrder
    BY FileKept DEF EnvInv, QueueInv, EnvironmentKeepsOrder
  <1> QED
    BY <1>1, <1>2, StepKeepsEnv, PTL DEF PartsSpec

(* The background thread waits, or has not been started, only while the    *)
(* queue is empty: signalling an empty queue alone loses no item           *)
(* (PosixEnv::Schedule).                                                   *)
THEOREM NeverSleepsOnWork == PartsSpec => []AwakeForWork
  <1>1. PartsInit => EnvInv
    BY InitFile, InitQueue, PosixFileParameters DEF PartsInit, EnvInv
  <1>2. EnvInv => AwakeForWork
    BY DEF EnvInv, QueueInv
  <1> QED
    BY <1>1, <1>2, StepKeepsEnv, PTL DEF PartsSpec
=============================================================================
