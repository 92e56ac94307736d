--------------------------- MODULE QueueContract ----------------------------
(***************************************************************************)
(* What the assignment functions promise, apart from how they keep it:     *)
(* each change of the judgingQueue subtree concerns one judge.  A top-up   *)
(* extends the judge's list at its end with teams the judge may be given,  *)
(* until it is full or nothing is left, and turns to teams that somebody   *)
(* has only when every free team is on the list.  A take-off removes one   *)
(* team from one list.                                                     *)
(***************************************************************************)
EXTENDS Assignment

VARIABLES judgingQueue, scores

Init ==
    /\ judgingQueue = EmptyTree
    /\ scores = [t \in Teams |-> {}]

TopUp(j) ==
    /\ judgingQueue' # judgingQueue
    /\ TopUpOf(judgingQueue', judgingQueue, scores, j)
    /\ UNCHANGED scores

TakeOff(j, t) ==
    /\ judgingQueue' # judgingQueue
    /\ TakeOffOf(judgingQueue', judgingQueue, j, t)
    /\ UNCHANGED scores

StoreSheet(t, j) ==
    /\ scores' = [scores EXCEPT ![t] = @ \cup {j}]
    /\ UNCHANGED judgingQueue

Next ==
    \/ \E j \in Judges : TopUp(j)
    \/ \E j \in Judges, t \in Teams : TakeOff(j, t) \/ StoreSheet(t, j)

Spec == Init /\ [][Next]_<<judgingQueue, scores>>
=============================================================================
