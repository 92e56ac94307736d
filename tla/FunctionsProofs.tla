-------------------------- MODULE FunctionsProofs --------------------------
(***************************************************************************)
(* The cloud functions: the safety invariants of JudgingQueue, for any     *)
(* judges, teams, groups, quota, key order and number of concurrent calls; *)
(* the contract that calls keep when they do not overlap; and the loops of *)
(* processAssignedQueue (AssignLoop).                                      *)
(*                                                                         *)
(* None of the invariants is inductive: a call sets a subtree that it      *)
(* computed from an older one.  The induction works because a subtree is   *)
(* replaced as a whole: every subtree a call is about to set is as legal   *)
(* as the one in the database.                                             *)
(***************************************************************************)
EXTENDS JudgingQueue, AssignLoop, AssignmentLemmas, FiniteSetTheorems

LegalTree(tree, cs) ==
    /\ QuotaIn(tree)
    /\ NoRepeatsIn(tree)
    /\ AffinityIn(tree)
    /\ OwnerHoldsIn(tree)
    /\ OrphansIn(tree, cs)

(* What a call's record holds at each stage.                               *)
CallsWellFormed ==
    \A c \in Calls :
        /\ calls[c].pc = "idle" => calls[c].team = NoTeam
        /\ calls[c].pc \in InFlight => calls[c].judge \in Judges
        /\ calls[c].pc \in {"readRemove", "writeRemove"} => calls[c].team \in Teams

IInv ==
    /\ TypeOK
    /\ CallsWellFormed
    /\ LegalTree(judgingQueue, calls)
    /\ \A c \in Calls : LegalTree(calls[c].out, calls)

-----------------------------------------------------------------------------
(* A call that tops up a legal subtree computes a legal subtree.           *)
LEMMA AssignKeepsLegal ==
    ASSUME NEW tree \in Tree, NEW sheets \in [Teams -> SUBSET Judges], NEW j \in Judges,
           LegalTree(tree, calls), ~Spins(tree, sheets, j)
    PROVE  /\ processAssignedQueue(tree, sheets, j) \in Tree
           /\ LegalTree(processAssignedQueue(tree, sheets, j), calls)
<1> DEFINE picks == Picks(tree, sheets, j)
           new == processAssignedQueue(tree, sheets, j)
<1>1. /\ picks \in Seq(Teams)
      /\ Range(picks) \subseteq Remaining(sheets, j)
      /\ Len(picks) <= teamsToAdd(tree, j)
      /\ IsInjective(picks)
      /\ Range(tree.queue[j]) \cap Range(picks) = {}
  BY PicksFacts
<1>2. /\ tree.queue \in [Judges -> Seq(Teams)]
      /\ tree.judgeAssigned \in [Teams -> Judges \cup {Nobody}]
  BY DEF Tree
<1>3. /\ new.queue = [tree.queue EXCEPT ![j] = @ \o picks]
      /\ new.judgeAssigned =
            [t \in Teams |-> IF t \in Range(picks) THEN j ELSE tree.judgeAssigned[t]]
      /\ new = [queue |-> new.queue, judgeAssigned |-> new.judgeAssigned]
  BY DEF processAssignedQueue
<1> HIDE DEF picks, new
<1>4. /\ tree.queue[j] \o picks \in Seq(Teams)
      /\ Len(tree.queue[j] \o picks) = Len(tree.queue[j]) + Len(picks)
      /\ Range(tree.queue[j] \o picks) = Range(tree.queue[j]) \cup Range(picks)
  BY <1>1, <1>2, ConcatProperties, RangeConcatenation
<1>5. /\ new.queue \in [Judges -> Seq(Teams)]
      /\ new.queue[j] = tree.queue[j] \o picks
      /\ \A k \in Judges : k # j => new.queue[k] = tree.queue[k]
  BY <1>2, <1>3, <1>4
<1>6. new.judgeAssigned \in [Teams -> Judges \cup {Nobody}]
  BY <1>2, <1>3
<1>7. new \in Tree
  BY <1>3, <1>5, <1>6 DEF Tree
<1>8. QuotaIn(new)
  <2>1. Len(picks) \in Nat /\ Len(tree.queue[j]) \in Nat
    BY <1>1, <1>2, LenProperties
  <2>2. Len(tree.queue[j]) <= Quota
    BY DEF LegalTree, QuotaIn
  <2>3. Len(tree.queue[j]) + Len(picks) <= Quota
    BY <1>1, <2>1, <2>2, QuotaAssumption DEF teamsToAdd
  <2> QED
    BY <1>4, <1>5, <2>3 DEF LegalTree, QuotaIn
<1>9. NoRepeatsIn(new)
  <2>1. IsInjective(tree.queue[j] \o picks)
    BY <1>1, <1>2, JoinInjective DEF LegalTree, NoRepeatsIn
  <2> QED
    BY <1>5, <2>1 DEF LegalTree, NoRepeatsIn
<1>10. AffinityIn(new)
  <2>1. \A t \in Range(picks) : isPreferredTeam(j, t)
    BY <1>1 DEF Remaining
  <2> QED
    BY <1>4, <1>5, <2>1 DEF LegalTree, AffinityIn
<1>11. OwnerHoldsIn(new)
  <2> SUFFICES ASSUME NEW t \in Teams, new.judgeAssigned[t] # Nobody
               PROVE  t \in Range(new.queue[new.judgeAssigned[t]])
    BY DEF OwnerHoldsIn
  <2>1. CASE t \in Range(picks)
    BY <1>3, <1>4, <1>5, <2>1
  <2>2. CASE t \notin Range(picks)
    <3>1. new.judgeAssigned[t] = tree.judgeAssigned[t] /\ tree.judgeAssigned[t] \in Judges
      BY <1>2, <1>3, <2>2
    <3>2. t \in Range(tree.queue[tree.judgeAssigned[t]])
      BY <3>1 DEF LegalTree, OwnerHoldsIn
    <3> QED
      BY <1>4, <1>5, <3>1, <3>2
  <2> QED
    BY <2>1, <2>2
<1>12. OrphansIn(new, calls)
  <2> SUFFICES ASSUME NEW k \in Judges, NEW t \in Range(new.queue[k]),
                      new.judgeAssigned[t] = Nobody
               PROVE  ForeignRemoval(calls, k, t)
    BY DEF OrphansIn
  <2>1. t \in Teams
    BY <1>5, RangeOfSeq
  <2>2. t \notin Range(picks) /\ tree.judgeAssigned[t] = Nobody
    BY <1>3, <2>1, NobodyAssumption
  <2>3. t \in Range(tree.queue[k])
    BY <1>4, <1>5, <2>2
  <2> QED
    BY <2>2, <2>3 DEF LegalTree, OrphansIn
<1> QED
  BY <1>7, <1>8, <1>9, <1>10, <1>11, <1>12 DEF LegalTree, new

(* A call c that takes a team off a legal subtree computes a legal         *)
(* subtree: the teams it orphans on other lists are orphans by its doing.  *)
LEMMA RemoveKeepsLegal ==
    ASSUME NEW tree \in Tree, NEW c \in Calls, LegalTree(tree, calls),
           calls[c].judge \in Judges, calls[c].team \in Teams
    PROVE  /\ filterAssignedQueue(tree, calls[c].judge, calls[c].team) \in Tree
           /\ LegalTree(filterAssignedQueue(tree, calls[c].judge, calls[c].team), calls)
<1> DEFINE j == calls[c].judge
           t == calls[c].team
           new == filterAssignedQueue(tree, j, t)
<1>1. /\ tree.queue \in [Judges -> Seq(Teams)]
      /\ tree.judgeAssigned \in [Teams -> Judges \cup {Nobody}]
  BY DEF Tree
<1>2. /\ new.queue = [tree.queue EXCEPT ![j] = Without(@, t)]
      /\ new.judgeAssigned = [tree.judgeAssigned EXCEPT ![t] = Nobody]
      /\ new = [queue |-> new.queue, judgeAssigned |-> new.judgeAssigned]
  BY DEF filterAssignedQueue
<1> HIDE DEF new
<1>3. IsInjective(tree.queue[j])
  BY DEF LegalTree, NoRepeatsIn
<1>4. /\ Without(tree.queue[j], t) \in Seq(Teams)
      /\ Len(Without(tree.queue[j], t)) <= Len(tree.queue[j])
      /\ IsInjective(Without(tree.queue[j], t))
      /\ Range(Without(tree.queue[j], t)) = Range(tree.queue[j]) \ {t}
  BY <1>1, <1>3, WithoutFacts
<1>5. /\ new.queue \in [Judges -> Seq(Teams)]
      /\ new.queue[j] = Without(tree.queue[j], t)
      /\ \A k \in Judges : k # j => new.queue[k] = tree.queue[k]
  BY <1>1, <1>2, <1>4
<1>6. /\ new.judgeAssigned \in [Teams -> Judges \cup {Nobody}]
      /\ new.judgeAssigned[t] = Nobody
      /\ \A u \in Teams : u # t => new.judgeAssigned[u] = tree.judgeAssigned[u]
  BY <1>1, <1>2
<1>7. new \in Tree
  BY <1>2, <1>5, <1>6 DEF Tree
<1>8. QuotaIn(new)
  <2>1. Len(new.queue[j]) \in Nat /\ Len(tree.queue[j]) \in Nat
    BY <1>1, <1>5, LenProperties
  <2> QED
    BY <1>4, <1>5, <2>1, QuotaAssumption DEF LegalTree, QuotaIn
<1>9. NoRepeatsIn(new)
  BY <1>4, <1>5 DEF LegalTree, NoRepeatsIn
<1>10. AffinityIn(new)
  BY <1>4, <1>5 DEF LegalTree, AffinityIn
<1>11. OwnerHoldsIn(new)
  <2> SUFFICES ASSUME NEW u \in Teams, new.judgeAssigned[u] # Nobody
               PROVE  u \in Range(new.queue[new.judgeAssigned[u]])
    BY DEF OwnerHoldsIn
  <2>1. u # t /\ new.judgeAssigned[u] = tree.judgeAssigned[u]
    BY <1>6
  <2>2. PICK k : k = tree.judgeAssigned[u]
    OBVIOUS
  <2>3. k \in Judges /\ u \in Range(tree.queue[k])
    BY <1>1, <2>1, <2>2 DEF LegalTree, OwnerHoldsIn
  <2>4. CASE k = j
    BY <1>4, <1>5, <2>1, <2>2, <2>3, <2>4
  <2>5. CASE k # j
    BY <1>5, <2>1, <2>2, <2>3, <2>5
  <2> QED
    BY <2>4, <2>5
<1>12. OrphansIn(new, calls)
  <2> SUFFICES ASSUME NEW k \in Judges, NEW u \in Range(new.queue[k]),
                      new.judgeAssigned[u] = Nobody
               PROVE  ForeignRemoval(calls, k, u)
    BY DEF OrphansIn
  <2>1. u \in Teams
    BY <1>5, RangeOfSeq
  <2>2. CASE u = t
    <3>1. k # j
      BY <1>4, <1>5, <2>2
    <3> QED
      BY <2>2, <3>1 DEF ForeignRemoval
  <2>3. CASE u # t
    <3>1. u \in Range(tree.queue[k]) /\ tree.judgeAssigned[u] = Nobody
      BY <1>4, <1>5, <1>6, <2>1, <2>3
    <3> QED
      BY <3>1 DEF LegalTree, OrphansIn
  <2> QED
    BY <2>2, <2>3
<1> QED
  BY <1>7, <1>8, <1>9, <1>10, <1>11, <1>12 DEF LegalTree, new

-----------------------------------------------------------------------------
KeepsRemovals(cs, ds) ==
    \A c \in Calls : cs[c].team \in Teams =>
        ds[c].team = cs[c].team /\ ds[c].judge = cs[c].judge

(* A call's judge and team are set once, so whoever is to blame for an     *)
(* orphan stays to blame.                                                  *)
LEMMA LegalStays ==
    ASSUME NEW tree \in Tree, NEW cs, NEW ds, LegalTree(tree, cs), KeepsRemovals(cs, ds)
    PROVE  LegalTree(tree, ds)
<1>1. ASSUME NEW j \in Judges, NEW t \in Range(tree.queue[j]),
             tree.judgeAssigned[t] = Nobody
      PROVE  ForeignRemoval(ds, j, t)
  <2>1. t \in Teams
    BY RangeOfSeq DEF Tree
  <2>2. PICK c \in Calls : cs[c].team = t /\ cs[c].judge # j
    BY <1>1 DEF LegalTree, OrphansIn, ForeignRemoval
  <2> QED
    BY <2>1, <2>2 DEF ForeignRemoval, KeepsRemovals
<1> QED
  BY <1>1 DEF LegalTree, OrphansIn

LEMMA EmptyLegal == EmptyTree \in Tree /\ \A cs : LegalTree(EmptyTree, cs)
<1>1. EmptyTree \in Tree
  <2>1. <<>> \in Seq(Teams)
    OBVIOUS
  <2> QED
    BY <2>1 DEF EmptyTree, Tree
<1>2. /\ \A j \in Judges : EmptyTree.queue[j] = <<>>
      /\ \A t \in Teams : EmptyTree.judgeAssigned[t] = Nobody
  BY DEF EmptyTree
<1>3. Range(<<>>) = {} /\ IsInjective(<<>>) /\ Len(<<>>) = 0
  BY DEF Range, IsInjective
<1> QED
  BY <1>1, <1>2, <1>3, QuotaAssumption
  DEF LegalTree, QuotaIn, NoRepeatsIn, AffinityIn, OwnerHoldsIn, OrphansIn

LEMMA InitEstablishes == Init => IInv
<1> SUFFICES ASSUME Init PROVE IInv
  OBVIOUS
<1> USE DEF Init
<1>1. TypeOK
  BY EmptyLegal DEF TypeOK, IdleCall, Call
<1>2. CallsWellFormed
  BY DEF CallsWellFormed, IdleCall, InFlight, Reading, Writing
<1>3. \A c \in Calls : calls[c].out = EmptyTree
  BY DEF IdleCall
<1> QED
  BY <1>1, <1>2, <1>3, EmptyLegal DEF IInv

(* A step that changes one call c, and perhaps sets the subtree: what is   *)
(* left to check is that what c now holds, and what is set, is legal.      *)
LEMMA OneCallChanges ==
    ASSUME IInv, NEW c \in Calls, NEW r \in Call,
           calls' = [calls EXCEPT ![c] = r],
           scores' \in [Teams -> SUBSET Judges],
           submitted' \in SUBSET (Teams \X Judges),
           judgingQueue' \in Tree, LegalTree(judgingQueue', calls),
           LegalTree(r.out, calls),
           calls[c].team \in Teams => r.team = calls[c].team /\ r.judge = calls[c].judge,
           r.pc # "idle",
           r.pc \in InFlight => r.judge \in Judges,
           r.pc \in {"readRemove", "writeRemove"} => r.team \in Teams
    PROVE  IInv'
<1>1. /\ calls \in [Calls -> Call]
      /\ \A d \in Calls : calls'[d] = IF d = c THEN r ELSE calls[d]
  BY DEF IInv, TypeOK
<1>2. TypeOK'
  BY <1>1 DEF IInv, TypeOK
<1>3. CallsWellFormed'
  BY <1>1 DEF IInv, CallsWellFormed
<1>4. KeepsRemovals(calls, calls')
  BY <1>1 DEF KeepsRemovals
<1>5. \A tree \in Tree : LegalTree(tree, calls) => LegalTree(tree, calls')
  BY <1>4, LegalStays
<1>6. LegalTree(judgingQueue', calls')
  BY <1>5
<1>7. ASSUME NEW d \in Calls PROVE LegalTree(calls'[d].out, calls')
  <2>1. calls'[d].out \in Tree /\ LegalTree(calls'[d].out, calls)
    BY <1>1 DEF IInv, Call
  <2> QED
    BY <1>5, <2>1
<1> QED
  BY <1>2, <1>3, <1>6, <1>7 DEF IInv

LEMMA StepPreserves == IInv /\ [Next]_vars => IInv'
<1> SUFFICES ASSUME IInv, [Next]_vars PROVE IInv'
  OBVIOUS
<1> USE DEF InFlight, Reading, Writing
<1>0. /\ judgingQueue \in Tree /\ LegalTree(judgingQueue, calls)
      /\ scores \in [Teams -> SUBSET Judges]
      /\ submitted \in SUBSET (Teams \X Judges)
      /\ calls \in [Calls -> Call]
      /\ \A c \in Calls : calls[c] \in Call /\ LegalTree(calls[c].out, calls)
  BY DEF IInv, TypeOK
<1>1. ASSUME NEW c \in Calls, NEW j \in Judges, assignTeams(c, j)
      PROVE  IInv'
  <2> DEFINE r == [pc |-> "readAssign", judge |-> j, team |-> NoTeam, out |-> EmptyTree]
  <2>1. r \in Call /\ LegalTree(r.out, calls) /\ r.judge = j
    BY EmptyLegal DEF Call
  <2>2. calls[c].team \notin Teams
    BY <1>1, NoTeamAssumption DEF IInv, CallsWellFormed, assignTeams, CanStart
  <2>3. /\ calls' = [calls EXCEPT ![c] = r]
        /\ judgingQueue' = judgingQueue /\ scores' = scores /\ submitted' = submitted
    BY <1>1 DEF assignTeams
  <2> QED
    BY <1>0, <2>1, <2>2, <2>3, OneCallChanges
<1>2. ASSUME NEW c \in Calls, NEW j \in Judges, NEW t \in Teams, submitScores(c, j, t)
      PROVE  IInv'
  <2> DEFINE r == [pc |-> "readRemove", judge |-> j, team |-> t, out |-> EmptyTree]
  <2>1. r \in Call /\ LegalTree(r.out, calls) /\ r.judge = j /\ r.team = t
    BY EmptyLegal DEF Call
  <2>2. calls[c].team \notin Teams
    BY <1>2, NoTeamAssumption DEF IInv, CallsWellFormed, submitScores, CanStart
  <2>3. /\ calls' = [calls EXCEPT ![c] = r]
        /\ judgingQueue' = judgingQueue /\ scores' = scores
        /\ submitted' \in SUBSET (Teams \X Judges)
    BY <1>0, <1>2 DEF submitScores
  <2> QED
    BY <1>0, <2>1, <2>2, <2>3, OneCallChanges
<1>3. ASSUME NEW t \in Teams, NEW j \in Judges, ScoreStored(t, j)
      PROVE  IInv'
  <2>1. scores' \in [Teams -> SUBSET Judges] /\ submitted' \in SUBSET (Teams \X Judges)
    BY <1>0, <1>3 DEF ScoreStored
  <2> QED
    BY <1>0, <1>3, <2>1 DEF ScoreStored, IInv, TypeOK, CallsWellFormed
<1>4. ASSUME NEW c \in Calls, ReadToAssign(c)
      PROVE  IInv'
  <2> DEFINE out == processAssignedQueue(judgingQueue, scores, calls[c].judge)
             r == [calls[c] EXCEPT !.pc = "writeAssign", !.out = out]
  <2>1. calls[c].judge \in Judges
    BY <1>4 DEF IInv, CallsWellFormed, ReadToAssign
  <2>2. out \in Tree /\ LegalTree(out, calls)
    BY <1>0, <1>4, <2>1, AssignKeepsLegal DEF ReadToAssign
  <2>3. /\ calls' = [calls EXCEPT ![c] = r]
        /\ judgingQueue' = judgingQueue /\ scores' = scores /\ submitted' = submitted
    BY <1>0, <1>4 DEF ReadToAssign
  <2> HIDE DEF out
  <2>4. /\ r \in Call /\ r.out = out /\ r.pc = "writeAssign"
        /\ r.judge = calls[c].judge /\ r.team = calls[c].team
    BY <1>0, <2>2 DEF Call
  <2> QED
    BY <1>0, <2>1, <2>2, <2>3, <2>4, OneCallChanges
<1>5. ASSUME NEW c \in Calls, ReadAndSpin(c)
      PROVE  IInv'
  <2> DEFINE r == [calls[c] EXCEPT !.pc = "spin"]
  <2>1. /\ r \in Call /\ r.out = calls[c].out /\ r.pc = "spin"
        /\ r.judge = calls[c].judge /\ r.team = calls[c].team
    BY <1>0 DEF Call, Ended
  <2>2. /\ calls' = [calls EXCEPT ![c] = r]
        /\ judgingQueue' = judgingQueue /\ scores' = scores /\ submitted' = submitted
    BY <1>0, <1>5 DEF ReadAndSpin
  <2> QED
    BY <1>0, <2>1, <2>2, OneCallChanges
<1>6. ASSUME NEW c \in Calls, ReadToRemove(c)
      PROVE  IInv'
  <2> DEFINE out == filterAssignedQueue(judgingQueue, calls[c].judge, calls[c].team)
             r == [calls[c] EXCEPT !.pc = "writeRemove", !.out = out]
  <2>1. calls[c].judge \in Judges /\ calls[c].team \in Teams
    BY <1>6 DEF IInv, CallsWellFormed, ReadToRemove
  <2>2. out \in Tree /\ LegalTree(out, calls)
    BY <1>0, <2>1, RemoveKeepsLegal
  <2>3. /\ calls' = [calls EXCEPT ![c] = r]
        /\ judgingQueue' = judgingQueue /\ scores' = scores /\ submitted' = submitted
    BY <1>0, <1>6 DEF ReadToRemove
  <2> HIDE DEF out
  <2>4. /\ r \in Call /\ r.out = out /\ r.pc = "writeRemove"
        /\ r.judge = calls[c].judge /\ r.team = calls[c].team
    BY <1>0, <2>2 DEF Call
  <2> QED
    BY <1>0, <2>1, <2>2, <2>3, <2>4, OneCallChanges
<1>7. ASSUME NEW c \in Calls, WriteAssignment(c)
      PROVE  IInv'
  <2> DEFINE r == [calls[c] EXCEPT !.pc = "done", !.out = EmptyTree]
  <2>1. /\ r \in Call /\ r.out = EmptyTree /\ r.pc = "done"
        /\ r.judge = calls[c].judge /\ r.team = calls[c].team
    BY <1>0, EmptyLegal DEF Call, Ended
  <2>2. /\ calls' = [calls EXCEPT ![c] = r]
        /\ judgingQueue' = calls[c].out /\ scores' = scores /\ submitted' = submitted
    BY <1>0, <1>7 DEF WriteAssignment
  <2>3. calls[c].out \in Tree
    BY <1>0 DEF Call
  <2> QED
    BY <1>0, <2>1, <2>2, <2>3, EmptyLegal, OneCallChanges
<1>8. ASSUME NEW c \in Calls, WriteRemoval(c)
      PROVE  IInv'
  <2> DEFINE r == [calls[c] EXCEPT !.pc = "readAssign", !.out = EmptyTree]
  <2>1. /\ r \in Call /\ r.out = EmptyTree /\ r.pc = "readAssign"
        /\ r.judge = calls[c].judge /\ r.team = calls[c].team
    BY <1>0, EmptyLegal DEF Call
  <2>2. /\ calls' = [calls EXCEPT ![c] = r]
        /\ judgingQueue' = calls[c].out /\ scores' = scores /\ submitted' = submitted
    BY <1>0, <1>8 DEF WriteRemoval
  <2>3. calls[c].out \in Tree /\ calls[c].judge \in Judges
    BY <1>0, <1>8 DEF Call, IInv, CallsWellFormed, WriteRemoval
  <2> QED
    BY <1>0, <2>1, <2>2, <2>3, EmptyLegal, OneCallChanges
<1>9. ASSUME NEW c \in Calls, Abandon(c)
      PROVE  IInv'
  <2> DEFINE r == [calls[c] EXCEPT !.pc = "lost", !.out = EmptyTree]
  <2>1. /\ r \in Call /\ r.out = EmptyTree /\ r.pc = "lost"
        /\ r.judge = calls[c].judge /\ r.team = calls[c].team
    BY <1>0, EmptyLegal DEF Call, Ended
  <2>2. /\ calls' = [calls EXCEPT ![c] = r]
        /\ judgingQueue' = judgingQueue /\ scores' = scores /\ submitted' = submitted
    BY <1>0, <1>9 DEF Abandon
  <2> QED
    BY <1>0, <2>1, <2>2, EmptyLegal, OneCallChanges
<1>10. CASE UNCHANGED vars
  BY <1>10 DEF vars, IInv, TypeOK, CallsWellFormed
<1> QED
  BY <1>1, <1>2, <1>3, <1>4, <1>5, <1>6, <1>7, <1>8, <1>9, <1>10 DEF Next, CallStep

(* The inductive invariant holds in every reachable state.                 *)
LEMMA Inductive == Spec => []IInv
<1>1. Init => IInv
  BY InitEstablishes
<1>2. IInv /\ [Next]_vars => IInv'
  BY StepPreserves
<1> QED
  BY <1>1, <1>2, PTL DEF Spec

-----------------------------------------------------------------------------
(* The state stays well-typed: in particular a subtree that a call sets    *)
(* has a proper list of known teams for every judge.                       *)
THEOREM TypeCorrect == Spec => []TypeOK
<1>1. IInv => TypeOK
  BY DEF IInv
<1> QED
  BY <1>1, Inductive, PTL

(* However many calls overlap, no list outgrows the quota.                 *)
THEOREM QuotaTheorem == Spec => []QuotaRespected
<1>1. IInv => QuotaRespected
  BY DEF IInv, LegalTree, QuotaRespected
<1> QED
  BY <1>1, Inductive, PTL

(* However many calls overlap, no list shows a team twice.                 *)
THEOREM NoRepeatsTheorem == Spec => []NoRepeats
<1>1. IInv => NoRepeats
  BY DEF IInv, LegalTree, NoRepeats
<1> QED
  BY <1>1, Inductive, PTL

(* Judges are only offered teams of their affinity group.                  *)
THEOREM AffinityTheorem == Spec => []AffinityRespected
<1>1. IInv => AffinityRespected
  BY DEF IInv, LegalTree, AffinityRespected
<1> QED
  BY <1>1, Inductive, PTL

(* judgeAssigned never names a judge who does not have the team.           *)
THEOREM OwnerTheorem == Spec => []OwnerHoldsTeam
<1>1. IInv => OwnerHoldsTeam
  BY DEF IInv, LegalTree, OwnerHoldsTeam
<1> QED
  BY <1>1, Inductive, PTL

(* A team on a list that judgeAssigned gives to nobody was taken off       *)
(* another judge's list: no judge's own calls orphan the judge's teams.    *)
THEOREM OrphanTheorem == Spec => []OrphanNeedsForeignRemoval
<1>1. IInv => OrphanNeedsForeignRemoval
  BY DEF IInv, LegalTree, OrphanNeedsForeignRemoval
<1> QED
  BY <1>1, Inductive, PTL

(* However many calls overlap and whichever of them is stopped, lists stay *)
(* legal: stale subtrees are lost updates, never corruption.               *)
THEOREM ListsTheorem == Spec => []ListsAreLegal
<1>1. IInv => ListsAreLegal
  BY DEF IInv, LegalTree, ListsAreLegal, QuotaRespected, NoRepeats, AffinityRespected
<1> QED
  BY <1>1, Inductive, PTL

(* Lists and judgeAssigned agree, but for another judge's removals.        *)
THEOREM OwnersTheorem == Spec => []OwnersAgree
<1>1. IInv => OwnersAgree
  BY DEF IInv, LegalTree, OwnersAgree, OwnerHoldsTeam, OrphanNeedsForeignRemoval
<1> QED
  BY <1>1, Inductive, PTL

-----------------------------------------------------------------------------
(***************************************************************************)
(* What the calls do for the judges: an assignment leaves nobody short,    *)
(* and a removal brings back its own team only while the score sheet is    *)
(* under way.  Both hold of the snapshot a call works on, and stay true    *)
(* until its set because score sheets are only ever added.                 *)
(***************************************************************************)

(* The team of a removal has a sheet of its judge, or one is under way.    *)
SheetSent ==
    \A c \in Calls : calls[c].team \in Teams =>
        \/ <<calls[c].team, calls[c].judge>> \in submitted
        \/ calls[c].judge \in scores[calls[c].team]

Served == NobodyLeftShort /\ SheetSent

-----------------------------------------------------------------------------
(* Sheets are only added, so what is left to a judge only shrinks.         *)
LEMMA SheetsOnlyAdded ==
    ASSUME IInv, [Next]_vars
    PROVE  /\ \A t \in Teams : scores[t] \subseteq scores'[t]
           /\ \A j \in Judges : Remaining(scores', j) \subseteq Remaining(scores, j)
<1>1. scores \in [Teams -> SUBSET Judges]
  BY DEF IInv, TypeOK
<1>2. ASSUME NEW t \in Teams, NEW j \in Judges, ScoreStored(t, j)
      PROVE  \A u \in Teams : scores[u] \subseteq scores'[u]
  BY <1>1, <1>2 DEF ScoreStored
<1>3. ~(\E t \in Teams, j \in Judges : ScoreStored(t, j)) => scores' = scores
  BY DEF Next, CallStep, assignTeams, submitScores, ReadToAssign, ReadAndSpin, ReadToRemove,
         WriteAssignment, WriteRemoval, Abandon, vars
<1>4. \A u \in Teams : scores[u] \subseteq scores'[u]
  BY <1>2, <1>3
<1> QED
  BY <1>4 DEF Remaining, isScored

(* A sheet leaves the connection for the database.                         *)
LEMMA SheetsStay ==
    ASSUME IInv, [Next]_vars, NEW t \in Teams, NEW j \in Judges,
           <<t, j>> \in submitted \/ j \in scores[t]
    PROVE  <<t, j>> \in submitted' \/ j \in scores'[t]
<1>1. scores \in [Teams -> SUBSET Judges]
  BY DEF IInv, TypeOK
<1>2. ASSUME NEW u \in Teams, NEW k \in Judges, ScoreStored(u, k)
      PROVE  <<t, j>> \in submitted' \/ j \in scores'[t]
  BY <1>1, <1>2 DEF ScoreStored
<1>3. ~(\E u \in Teams, k \in Judges : ScoreStored(u, k)) =>
         scores' = scores /\ submitted \subseteq submitted'
  BY DEF Next, CallStep, assignTeams, submitScores, ReadToAssign, ReadAndSpin, ReadToRemove,
         WriteAssignment, WriteRemoval, Abandon, vars
<1> QED
  BY <1>2, <1>3

(* Who holds a call's team and judge from before, and who starts with one. *)
LEMMA TeamIsKeptOrSubmitted ==
    ASSUME IInv, [Next]_vars, NEW c \in Calls, calls'[c].team \in Teams
    PROVE  \/ calls'[c].team = calls[c].team /\ calls'[c].judge = calls[c].judge
           \/ <<calls'[c].team, calls'[c].judge>> \in submitted'
<1>1. calls \in [Calls -> Call]
  BY DEF IInv, TypeOK
<1>2. ASSUME NEW d \in Calls, NEW j \in Judges, assignTeams(d, j)
      PROVE  calls'[c].team = calls[c].team /\ calls'[c].judge = calls[c].judge
  BY <1>1, <1>2, NoTeamAssumption DEF assignTeams
<1>3. ASSUME NEW d \in Calls, NEW j \in Judges, NEW t \in Teams, submitScores(d, j, t)
      PROVE  \/ calls'[c].team = calls[c].team /\ calls'[c].judge = calls[c].judge
             \/ <<calls'[c].team, calls'[c].judge>> \in submitted'
  <2>1. CASE d = c
    <3>1. calls'[c].team = t /\ calls'[c].judge = j
      BY <1>1, <1>3, <2>1 DEF submitScores
    <3> QED
      BY <1>3, <3>1 DEF submitScores
  <2>2. CASE d # c
    BY <1>1, <1>3, <2>2 DEF submitScores
  <2> QED
    BY <2>1, <2>2
<1>4. ASSUME NEW d \in Calls, CallStep(d) \/ Abandon(d)
      PROVE  calls'[c].team = calls[c].team /\ calls'[c].judge = calls[c].judge
  BY <1>1, <1>4 DEF CallStep, ReadToAssign, ReadAndSpin, ReadToRemove, WriteAssignment,
                    WriteRemoval, Abandon, Call
<1>5. ASSUME NEW t \in Teams, NEW j \in Judges, ScoreStored(t, j)
      PROVE  calls'[c].team = calls[c].team /\ calls'[c].judge = calls[c].judge
  BY <1>5 DEF ScoreStored
<1>6. CASE UNCHANGED vars
  BY <1>6 DEF vars
<1> QED
  BY <1>2, <1>3, <1>4, <1>5, <1>6 DEF Next

(* A call is about to set an assignment that it was about to set before,   *)
(* or one that it has computed just now.                                   *)
LEMMA AssignmentIsOldOrNew ==
    ASSUME IInv, [Next]_vars, NEW c \in Calls, calls'[c].pc = "writeAssign"
    PROVE  \/ calls'[c] = calls[c]
           \/ ReadToAssign(c)
<1>1. calls \in [Calls -> Call]
  BY DEF IInv, TypeOK
<1>2. ASSUME NEW d \in Calls, NEW j \in Judges, assignTeams(d, j)
      PROVE  calls'[c] = calls[c]
  BY <1>1, <1>2 DEF assignTeams
<1>3. ASSUME NEW d \in Calls, NEW j \in Judges, NEW t \in Teams, submitScores(d, j, t)
      PROVE  calls'[c] = calls[c]
  BY <1>1, <1>3 DEF submitScores
<1>4. ASSUME NEW d \in Calls, CallStep(d) \/ Abandon(d), d # c
      PROVE  calls'[c] = calls[c]
  BY <1>1, <1>4 DEF CallStep, ReadToAssign, ReadAndSpin, ReadToRemove, WriteAssignment,
                    WriteRemoval, Abandon
<1>5. ASSUME CallStep(c) \/ Abandon(c)
      PROVE  ReadToAssign(c)
  BY <1>1, <1>5 DEF CallStep, ReadAndSpin, ReadToRemove, WriteAssignment, WriteRemoval,
                    Abandon, Call
<1>6. ASSUME NEW t \in Teams, NEW j \in Judges, ScoreStored(t, j)
      PROVE  calls'[c] = calls[c]
  BY <1>6 DEF ScoreStored
<1>7. CASE UNCHANGED vars
  BY <1>7 DEF vars
<1> QED
  BY <1>2, <1>3, <1>4, <1>5, <1>6, <1>7 DEF Next

(* What ReadToAssign puts into its call.                                   *)
LEMMA ReadToAssignFacts ==
    ASSUME IInv, NEW c \in Calls, ReadToAssign(c)
    PROVE  /\ calls[c].judge \in Judges
           /\ calls'[c].judge = calls[c].judge
           /\ calls'[c].out = processAssignedQueue(judgingQueue, scores, calls[c].judge)
           /\ scores' = scores /\ submitted' = submitted
           /\ ~Spins(judgingQueue, scores, calls[c].judge)
  BY DEF IInv, TypeOK, CallsWellFormed, InFlight, Reading, Writing, ReadToAssign, Call

LEMMA ServedPreserved == IInv /\ Served /\ [Next]_vars => Served'
<1> SUFFICES ASSUME IInv, Served, [Next]_vars PROVE Served'
  OBVIOUS
<1>1. /\ judgingQueue \in Tree /\ QuotaIn(judgingQueue)
      /\ scores \in [Teams -> SUBSET Judges] /\ calls \in [Calls -> Call]
  BY DEF IInv, TypeOK, LegalTree
<1>2. calls' \in [Calls -> Call] /\ CallsWellFormed'
  BY StepPreserves DEF IInv, TypeOK
<1>3. ASSUME NEW c \in Calls, calls'[c].pc = "writeAssign"
      PROVE  \/ Len(calls'[c].out.queue[calls'[c].judge]) = Quota
             \/ Remaining(scores', calls'[c].judge)
                    \subseteq Range(calls'[c].out.queue[calls'[c].judge])
  <2>1. CASE calls'[c] = calls[c]
    <3>1. calls[c].pc = "writeAssign" /\ calls[c].judge \in Judges
      BY <1>3, <2>1 DEF IInv, CallsWellFormed, InFlight, Writing
    <3>2. \/ Len(calls[c].out.queue[calls[c].judge]) = Quota
          \/ Remaining(scores, calls[c].judge)
                 \subseteq Range(calls[c].out.queue[calls[c].judge])
      BY <3>1 DEF Served, NobodyLeftShort
    <3>3. Remaining(scores', calls[c].judge) \subseteq Remaining(scores, calls[c].judge)
      BY <3>1, SheetsOnlyAdded
    <3> QED
      BY <2>1, <3>2, <3>3
  <2>2. CASE ReadToAssign(c)
    <3>1. /\ calls[c].judge \in Judges
          /\ calls'[c].judge = calls[c].judge
          /\ calls'[c].out = processAssignedQueue(judgingQueue, scores, calls[c].judge)
          /\ scores' = scores
      BY <2>2, ReadToAssignFacts
    <3>2. \/ Len(calls'[c].out.queue[calls[c].judge]) = Quota
          \/ Remaining(scores, calls[c].judge)
                 \subseteq Range(calls'[c].out.queue[calls[c].judge])
      <4>1. Len(judgingQueue.queue[calls[c].judge]) <= Quota
        BY <1>1, <3>1 DEF QuotaIn
      <4> QED
        BY <1>1, <3>1, <4>1, AssignFills
    <3> QED
      BY <3>1, <3>2
  <2> QED
    BY <1>3, <2>1, <2>2, AssignmentIsOldOrNew
<1>4. ASSUME NEW c \in Calls, calls'[c].team \in Teams
      PROVE  \/ <<calls'[c].team, calls'[c].judge>> \in submitted'
             \/ calls'[c].judge \in scores'[calls'[c].team]
  <2>1. CASE calls'[c].team = calls[c].team /\ calls'[c].judge = calls[c].judge
    <3>1. \/ <<calls[c].team, calls[c].judge>> \in submitted
          \/ calls[c].judge \in scores[calls[c].team]
      BY <1>4, <2>1 DEF Served, SheetSent
    <3>2. calls[c].judge \in Judges
      BY <1>1, <1>4, <2>1, <3>1 DEF IInv, TypeOK
    <3> QED
      BY <1>4, <2>1, <3>1, <3>2, SheetsStay
  <2>2. CASE <<calls'[c].team, calls'[c].judge>> \in submitted'
    BY <2>2
  <2> QED
    BY <1>4, <2>1, <2>2, TeamIsKeptOrSubmitted
<1>5. NobodyLeftShort'
  BY <1>3 DEF NobodyLeftShort
<1>6. SheetSent'
  BY <1>4 DEF SheetSent
<1> QED
  BY <1>5, <1>6 DEF Served

LEMMA InitServed == Init => Served
  BY NoTeamAssumption DEF Init, IdleCall, Served, NobodyLeftShort, SheetSent

LEMMA ServedAlways == Spec => [](IInv /\ Served)
<1>1. Spec => []IInv
  BY Inductive
<1> QED
  BY <1>1, InitServed, ServedPreserved, PTL DEF Spec

(* One step: a team that an assignment after a removal of that very team   *)
(* would add has no sheet of the judge in the snapshot, so it is under way. *)
LEMMA ReturnStep ==
    ASSUME IInv, SheetSent, [Next]_vars, NEW c \in Calls,
           calls[c].pc = "readAssign", calls'[c].pc = "writeAssign", calls[c].team \in Teams,
           calls[c].team \in Range(calls'[c].out.queue[calls[c].judge])
                                 \ Range(judgingQueue.queue[calls[c].judge])
    PROVE  <<calls[c].team, calls[c].judge>> \in submitted
<1> DEFINE j == calls[c].judge
           t == calls[c].team
           picks == Picks(judgingQueue, scores, j)
<1>1. /\ judgingQueue \in Tree /\ scores \in [Teams -> SUBSET Judges]
  BY DEF IInv, TypeOK
<1>2. ReadToAssign(c)
  BY AssignmentIsOldOrNew
<1>3. /\ j \in Judges
      /\ calls'[c].out = processAssignedQueue(judgingQueue, scores, j)
  BY <1>2, ReadToAssignFacts
<1>4. judgingQueue.queue \in [Judges -> Seq(Teams)]
  BY <1>1 DEF Tree
<1>5. calls'[c].out.queue[j] = judgingQueue.queue[j] \o picks
  <2>1. calls'[c].out.queue = [judgingQueue.queue EXCEPT ![j] = @ \o picks]
    BY <1>3 DEF processAssignedQueue
  <2> HIDE DEF picks, j, t
  <2> QED
    BY <1>3, <1>4, <2>1
<1>6. picks \in Seq(Teams) /\ Range(picks) \subseteq Remaining(scores, j)
  BY <1>1, <1>3, PicksFacts
<1> HIDE DEF picks
<1>7. Range(judgingQueue.queue[j] \o picks) = Range(judgingQueue.queue[j]) \cup Range(picks)
  BY <1>3, <1>4, <1>6, RangeConcatenation
<1>8. t \in Remaining(scores, j)
  BY <1>5, <1>6, <1>7
<1>9. j \notin scores[t]
  BY <1>8 DEF Remaining, isScored
<1> QED
  BY <1>9 DEF SheetSent

-----------------------------------------------------------------------------
(* The list that an assignment is about to set is full, or has every team  *)
(* that the judge has left to score, however many calls and score sheets   *)
(* come between its read and its set.                                      *)
THEOREM NobodyLeftShortHolds == Spec => []NobodyLeftShort
<1>1. Served => NobodyLeftShort
  BY DEF Served
<1> QED
  BY <1>1, ServedAlways, PTL

(* A removal brings its own team back to the list only while the score     *)
(* write that the app issued with it has not reached the database.         *)
THEOREM ReturnNeedsLateScoreHolds == Spec => ReturnNeedsLateScore
<1> DEFINE A == \A c \in Calls :
          LET j == calls[c].judge
              t == calls[c].team
          IN  /\ calls[c].pc = "readAssign" /\ calls'[c].pc = "writeAssign"
              /\ t \in Teams
              /\ t \in Range(calls'[c].out.queue[j]) \ Range(judgingQueue.queue[j])
              => <<t, j>> \in submitted
<1>1. IInv /\ Served /\ [Next]_vars => A
  BY ReturnStep DEF Served
<1>2. ReturnNeedsLateScore <=> [][A]_vars
  BY DEF ReturnNeedsLateScore
<1> HIDE DEF A
<1>3. Spec => [][A]_vars
  BY <1>1, ServedAlways, PTL DEF Spec
<1> QED
  BY <1>2, <1>3

-----------------------------------------------------------------------------
(* Calls that do not overlap.  While one call is under way nothing else    *)
(* writes the subtree, so what it is about to set still has to do with     *)
(* what is in the database.                                                *)
Contract == INSTANCE QueueContract

Alone == \A c, d \in Calls : calls[c].pc \in InFlight /\ calls[d].pc \in InFlight => c = d

Fresh ==
    /\ Alone
    /\ \A c \in Calls : calls[c].pc = "writeRemove" =>
          calls[c].out = filterAssignedQueue(judgingQueue, calls[c].judge, calls[c].team)
    /\ \A c \in Calls : calls[c].pc = "writeAssign" =>
          TopUpOf(calls[c].out, judgingQueue, scores, calls[c].judge)

(* A call starts only when none is under way.                              *)
LEMMA StartsAlone ==
    ASSUME MaxInFlight = 1, Alone, NEW c \in Calls, CanStart(c)
    PROVE  \A d \in Calls : calls[d].pc \notin InFlight
<1> DEFINE busy == {d \in Calls : calls[d].pc \in InFlight}
<1>1. Cardinality(busy) < 1
  BY DEF CanStart
<1>2. ASSUME NEW d \in busy PROVE FALSE
  <2>1. busy = {d}
    BY <1>2 DEF Alone
  <2>2. Cardinality({d}) = 1
    BY FS_Singleton
  <2> HIDE DEF busy
  <2> QED
    BY <1>1, <2>1, <2>2
<1> QED
  BY <1>2

(* A call's own step finds the others at rest and leaves them there.       *)
LEMMA StepsAlone ==
    ASSUME IInv, Alone, NEW c \in Calls, CallStep(c) \/ Abandon(c)
    PROVE  /\ calls[c].pc \in InFlight
           /\ calls' \in [Calls -> Call]
           /\ scores' = scores
           /\ calls'[c].judge = calls[c].judge /\ calls'[c].team = calls[c].team
           /\ \A d \in Calls \ {c} : calls[d].pc \notin InFlight /\ calls'[d] = calls[d]
<1>1. calls \in [Calls -> Call]
  BY DEF IInv, TypeOK
<1>2. /\ calls[c].pc \in InFlight /\ scores' = scores
      /\ \A d \in Calls \ {c} : calls'[d] = calls[d]
      /\ calls'[c].judge = calls[c].judge /\ calls'[c].team = calls[c].team
  BY <1>1 DEF CallStep, ReadToAssign, ReadAndSpin, ReadToRemove, WriteAssignment,
              WriteRemoval, Abandon, Call, InFlight, Reading, Writing
<1>3. \A d \in Calls \ {c} : calls[d].pc \notin InFlight
  BY <1>2 DEF Alone
<1>4. [Next]_vars
  BY DEF Next
<1>5. calls' \in [Calls -> Call]
  BY <1>4, StepPreserves DEF IInv, TypeOK
<1> QED
  BY <1>2, <1>3, <1>5

LEMMA InitFresh == Init => Fresh
  BY DEF Init, IdleCall, Fresh, Alone, InFlight, Reading, Writing

LEMMA FreshPreserved ==
    ASSUME MaxInFlight = 1, IInv, Fresh, [Next]_vars PROVE Fresh'
<1>1. /\ calls \in [Calls -> Call] /\ judgingQueue \in Tree
      /\ scores \in [Teams -> SUBSET Judges]
      /\ QuotaIn(judgingQueue) /\ NoRepeatsIn(judgingQueue)
  BY DEF IInv, TypeOK, LegalTree
<1>2. Alone
  BY DEF Fresh
(* A call starts: it reads first, and no other one is under way.           *)
<1>3. ASSUME NEW c \in Calls, CanStart(c), judgingQueue' = judgingQueue,
             calls'[c].pc \in Reading, \A d \in Calls \ {c} : calls'[d] = calls[d]
      PROVE  Fresh'
  <2>1. \A d \in Calls \ {c} : calls'[d].pc \notin InFlight
    BY <1>2, <1>3, StartsAlone
  <2>2. calls'[c].pc \notin Writing
    BY <1>3 DEF Reading, Writing
  <2> QED
    BY <2>1, <2>2 DEF Fresh, Alone, InFlight, Writing
<1>4. ASSUME NEW c \in Calls, NEW j \in Judges, assignTeams(c, j) PROVE Fresh'
  BY <1>1, <1>3, <1>4 DEF assignTeams, Reading
<1>5. ASSUME NEW c \in Calls, NEW j \in Judges, NEW t \in Teams, submitScores(c, j, t)
      PROVE  Fresh'
  BY <1>1, <1>3, <1>5 DEF submitScores, Reading
(* A sheet arrives: there is less left to give out than the call took.     *)
<1>6. ASSUME NEW t \in Teams, NEW j \in Judges, ScoreStored(t, j) PROVE Fresh'
  <2>1. calls' = calls /\ judgingQueue' = judgingQueue
    BY <1>6 DEF ScoreStored
  <2>2. \A k \in Judges : Remaining(scores', k) \subseteq Remaining(scores, k)
    BY SheetsOnlyAdded
  <2>3. ASSUME NEW c \in Calls, calls[c].pc = "writeAssign"
        PROVE  TopUpOf(calls[c].out, judgingQueue, scores', calls[c].judge)
    <3>1. TopUpOf(calls[c].out, judgingQueue, scores, calls[c].judge)
      BY <2>3 DEF Fresh
    <3>2. calls[c].judge \in Judges
      BY <2>3 DEF IInv, CallsWellFormed, InFlight, Writing
    <3> QED
      BY <2>2, <3>1, <3>2, TopUpStays
  <2> QED
    BY <2>1, <2>3 DEF Fresh, Alone
(* The call under way moves on: only what it computes just now is new.     *)
<1>7. ASSUME NEW c \in Calls, CallStep(c) \/ Abandon(c) PROVE Fresh'
  <2>1. /\ \A d \in Calls \ {c} : calls'[d].pc \notin InFlight
        /\ calls'[c].judge = calls[c].judge /\ calls'[c].team = calls[c].team
        /\ scores' = scores
    BY <1>2, <1>7, StepsAlone
  <2>2. Alone'
    BY <2>1 DEF Alone
  <2>3. ASSUME calls'[c].pc = "writeRemove"
        PROVE  calls'[c].out = filterAssignedQueue(judgingQueue', calls'[c].judge, calls'[c].team)
    <3>1. ReadToRemove(c)
      BY <1>1, <1>7, <2>3 DEF CallStep, ReadToAssign, ReadAndSpin, WriteAssignment,
                              WriteRemoval, Abandon, Call
    <3>2. calls'[c].out = filterAssignedQueue(judgingQueue, calls[c].judge, calls[c].team)
      BY <1>1, <3>1 DEF ReadToRemove, Call
    <3>3. judgingQueue' = judgingQueue
      BY <3>1 DEF ReadToRemove
    <3> QED
      BY <2>1, <3>2, <3>3
  <2>4. ASSUME calls'[c].pc = "writeAssign"
        PROVE  TopUpOf(calls'[c].out, judgingQueue', scores', calls'[c].judge)
    <3>1. ReadToAssign(c)
      BY <1>1, <1>7, <2>4 DEF CallStep, ReadToRemove, ReadAndSpin, WriteAssignment,
                              WriteRemoval, Abandon, Call
    <3>2. /\ calls[c].judge \in Judges
          /\ calls'[c].out = processAssignedQueue(judgingQueue, scores, calls[c].judge)
          /\ ~Spins(judgingQueue, scores, calls[c].judge)
      BY <3>1, ReadToAssignFacts
    <3>3. /\ IsInjective(judgingQueue.queue[calls[c].judge])
          /\ Len(judgingQueue.queue[calls[c].judge]) <= Quota
      BY <1>1, <3>2 DEF QuotaIn, NoRepeatsIn
    <3>4. TopUpOf(processAssignedQueue(judgingQueue, scores, calls[c].judge),
                  judgingQueue, scores, calls[c].judge)
      BY <1>1, <3>2, <3>3, AssignTopsUp
    <3>5. judgingQueue' = judgingQueue
      BY <3>1 DEF ReadToAssign
    <3> QED
      BY <2>1, <3>2, <3>4, <3>5
  <2>5. \A d \in Calls \ {c} : calls'[d].pc \notin {"writeRemove", "writeAssign"}
    BY <2>1 DEF InFlight, Writing
  <2>6. \A d \in Calls : calls'[d].pc = "writeRemove" =>
          calls'[d].out = filterAssignedQueue(judgingQueue', calls'[d].judge, calls'[d].team)
    BY <2>3, <2>5
  <2>7. \A d \in Calls : calls'[d].pc = "writeAssign" =>
          TopUpOf(calls'[d].out, judgingQueue', scores', calls'[d].judge)
    BY <2>4, <2>5
  <2> QED
    BY <2>2, <2>6, <2>7 DEF Fresh
<1>8. CASE UNCHANGED vars
  BY <1>8 DEF vars, Fresh, Alone
<1> QED
  BY <1>4, <1>5, <1>6, <1>7, <1>8 DEF Next

(* The contract's words mean here what they mean there.                    *)
LEMMA ContractWords ==
    ASSUME NEW new, NEW old, NEW sheets, NEW j, NEW t
    PROVE  /\ Contract!TopUpOf(new, old, sheets, j) <=> TopUpOf(new, old, sheets, j)
           /\ Contract!TakeOffOf(new, old, j, t) <=> TakeOffOf(new, old, j, t)
<1>1. ASSUME NEW f PROVE Contract!Range(f) = Range(f) /\ Contract!IsInjective(f) = IsInjective(f)
  BY DEF Contract!Range, Range, Contract!IsInjective, IsInjective
<1>2. ASSUME NEW s, NEW u
      PROVE  /\ Contract!Added(s, u) = Added(s, u)
             /\ Contract!Extends(s, u) = Extends(s, u)
  BY DEF Contract!Added, Added, Contract!Extends, Extends
<1>3. Contract!Remaining(sheets, j) = Remaining(sheets, j)
  BY DEF Contract!Remaining, Remaining, Contract!isScored, isScored,
         Contract!isPreferredTeam, isPreferredTeam
<1>4. \A u : Contract!isPreferredTeam(j, u) = isPreferredTeam(j, u)
  BY DEF Contract!isPreferredTeam, isPreferredTeam
<1>5. Contract!TopUpOf(new, old, sheets, j) <=> TopUpOf(new, old, sheets, j)
  <2>1. /\ Contract!Added(new.queue[j], old.queue[j]) = Added(new.queue[j], old.queue[j])
        /\ Contract!Extends(new.queue[j], old.queue[j]) = Extends(new.queue[j], old.queue[j])
        /\ Contract!Range(new.queue[j]) = Range(new.queue[j])
        /\ Contract!IsInjective(new.queue[j]) = IsInjective(new.queue[j])
    BY <1>1, <1>2
  <2> QED
    BY <1>3, <1>4, <2>1 DEF Contract!TopUpOf, TopUpOf
<1>6. Contract!TakeOffOf(new, old, j, t) <=> TakeOffOf(new, old, j, t)
  BY <1>1, Zenon DEF Contract!TakeOffOf, TakeOffOf
<1> QED
  BY <1>5, <1>6

(* Each write is one of the contract's steps; nothing else shows there.    *)
LEMMA StepKeepsContract ==
    ASSUME IInv, Fresh, [Next]_vars
    PROVE  [Contract!Next]_<<judgingQueue, scores>>
<1>1. /\ calls \in [Calls -> Call] /\ judgingQueue \in Tree /\ NoRepeatsIn(judgingQueue)
  BY DEF IInv, TypeOK, LegalTree
<1>2. ASSUME NEW c \in Calls, WriteAssignment(c), judgingQueue' # judgingQueue
      PROVE  Contract!Next
  <2>1. /\ calls[c].judge \in Judges
        /\ judgingQueue' = calls[c].out /\ scores' = scores
        /\ TopUpOf(calls[c].out, judgingQueue, scores, calls[c].judge)
    BY <1>2 DEF WriteAssignment, IInv, CallsWellFormed, InFlight, Writing, Fresh
  <2>2. Contract!TopUp(calls[c].judge)
    BY <1>2, <2>1, ContractWords DEF Contract!TopUp
  <2> QED
    BY <2>1, <2>2 DEF Contract!Next
<1>3. ASSUME NEW c \in Calls, WriteRemoval(c), judgingQueue' # judgingQueue
      PROVE  Contract!Next
  <2>1. /\ calls[c].judge \in Judges /\ calls[c].team \in Teams
        /\ judgingQueue' = calls[c].out /\ scores' = scores
        /\ calls[c].out = filterAssignedQueue(judgingQueue, calls[c].judge, calls[c].team)
    BY <1>3 DEF WriteRemoval, IInv, CallsWellFormed, InFlight, Writing, Fresh
  <2>2. TakeOffOf(judgingQueue', judgingQueue, calls[c].judge, calls[c].team)
    BY <1>1, <2>1, RemoveTakesOff DEF NoRepeatsIn
  <2>3. Contract!TakeOff(calls[c].judge, calls[c].team)
    BY <1>3, <2>1, <2>2, ContractWords DEF Contract!TakeOff
  <2> QED
    BY <2>1, <2>3 DEF Contract!Next
<1>4. ASSUME NEW t \in Teams, NEW j \in Judges, ScoreStored(t, j) PROVE Contract!Next
  <2>1. Contract!StoreSheet(t, j)
    BY <1>4 DEF ScoreStored, Contract!StoreSheet
  <2> QED
    BY <2>1 DEF Contract!Next
<1>5. \/ \E c \in Calls : /\ WriteAssignment(c) \/ WriteRemoval(c)
                          /\ judgingQueue' # judgingQueue
      \/ \E t \in Teams, j \in Judges : ScoreStored(t, j)
      \/ UNCHANGED <<judgingQueue, scores>>
  BY DEF Next, CallStep, assignTeams, submitScores, ReadToAssign, ReadAndSpin, ReadToRemove,
         Abandon, WriteAssignment, WriteRemoval, vars
<1> QED
  BY <1>2, <1>3, <1>4, <1>5

(* Calls made one at a time do to the database what QueueContract promises *)
(* of assignTeams and removeAssignedTeam: top-ups and take-offs of one     *)
(* judge's list.  Overlapping calls do not (overwritten subtrees).         *)
THEOREM SerialCallsRefineContract ==
    ASSUME MaxInFlight = 1 PROVE Spec => Contract!Spec
<1>1. Init => Contract!Init
  BY DEF Init, Contract!Init, EmptyTree, Contract!EmptyTree
<1>2. Spec => []Fresh
  <2>1. IInv /\ Fresh /\ [Next]_vars => Fresh'
    BY FreshPreserved
  <2> QED
    BY <2>1, InitFresh, Inductive, PTL DEF Spec
<1>3. IInv /\ Fresh /\ [Next]_vars => [Contract!Next]_<<judgingQueue, scores>>
  BY StepKeepsContract
<1> QED
  BY <1>1, <1>2, <1>3, Inductive, PTL DEF Spec, Contract!Spec
-----------------------------------------------------------------------------
(* The loops of processAssignedQueue, iteration by iteration, compute the  *)
(* closed form that JudgingQueue takes them for: the same lists, the same  *)
(* judgeAssigned, and the same snapshots on which they never end.  The     *)
(* invariant says which part of the picks a run has pushed so far.         *)

(* The teams pushed so far: a prefix of the free teams, or the first       *)
(* loop's picks and a prefix of all that are left.                         *)
Pushed ==
    IF loop = "filtered"
    THEN Upto(filteredTeams(snapshot, all_scores, Judge), i - 1)
    ELSE FirstPicks(snapshot, all_scores, Judge) \o Upto(preferredTeams(all_scores, Judge), i - 1)

SnapshotTyped ==
    /\ snapshot \in Tree
    /\ all_scores \in [Teams -> SUBSET Judges]
    /\ IsInjective(snapshot.queue[Judge])
    /\ Len(snapshot.queue[Judge]) <= Quota

LoopInv ==
    /\ SnapshotTyped
    /\ loop \in {"filtered", "preferred", "set"}
    /\ i \in Nat \ {0} /\ i - 1 <= Len(Candidates)
    /\ teamsAdded = Len(Pushed) /\ teamsAdded <= room
    /\ judgeAssignedTeams = snapshot.queue[Judge] \o Pushed
    /\ IsInjective(judgeAssignedTeams)
    /\ assignedTeams = [t \in Teams |-> IF t \in Range(Pushed) THEN Judge
                                        ELSE snapshot.judgeAssigned[t]]
    /\ loop = "set" => Pushed = Picks(snapshot, all_scores, Judge)

-----------------------------------------------------------------------------
(* Sequences that grow at the end.                                         *)

(* A prefix within the sequence has its length and its elements.           *)
LEMMA PrefixFacts ==
    ASSUME NEW S, NEW s \in Seq(S), NEW n \in Nat, n <= Len(s)
    PROVE  /\ Upto(s, n) \in Seq(S) /\ Len(Upto(s, n)) = n
           /\ \A k \in 1..n : Upto(s, n)[k] = s[k]
           /\ Range(Upto(s, n)) = {s[k] : k \in 1..n}
<1>1. Len(s) \in Nat /\ \A k \in 1..n : s[k] \in S
  BY LenProperties, ElementOfSeq
<1>2. Upto(s, n) = SubSeq(s, 1, n)
  BY <1>1 DEF Upto
<1>3. /\ SubSeq(s, 1, n) \in Seq(S) /\ Len(SubSeq(s, 1, n)) = n
      /\ \A k \in 1..n : SubSeq(s, 1, n)[k] = s[k]
  BY <1>1, SubSeqProperties
<1>4. Range(SubSeq(s, 1, n)) = {SubSeq(s, 1, n)[k] : k \in 1..n}
  BY <1>3, RangeEquality
<1> QED
  BY <1>2, <1>3, <1>4

(* The next prefix is this one and the next element.                       *)
LEMMA PrefixGrows ==
    ASSUME NEW S, NEW s \in Seq(S), NEW n \in Nat, n < Len(s)
    PROVE  Upto(s, n + 1) = Append(Upto(s, n), s[n + 1])
<1>1. /\ Len(s) \in Nat /\ n + 1 \in Nat /\ n <= Len(s) /\ n + 1 <= Len(s)
      /\ s[n + 1] \in S
  BY LenProperties, ElementOfSeq
<1>2. /\ Upto(s, n) \in Seq(S) /\ Len(Upto(s, n)) = n
      /\ \A k \in 1..n : Upto(s, n)[k] = s[k]
      /\ Upto(s, n + 1) \in Seq(S) /\ Len(Upto(s, n + 1)) = n + 1
      /\ \A k \in 1..(n + 1) : Upto(s, n + 1)[k] = s[k]
  BY <1>1, PrefixFacts
<1> DEFINE grown == Append(Upto(s, n), s[n + 1])
<1>3. /\ grown \in Seq(S) /\ Len(grown) = n + 1
      /\ \A k \in 1..n : grown[k] = s[k]
      /\ grown[n + 1] = s[n + 1]
  BY <1>1, <1>2, AppendProperties
<1> HIDE DEF grown
<1>4. \A k \in 1..(n + 1) : grown[k] = s[k]
  BY <1>3
<1>5. Upto(s, n + 1) = grown
  BY <1>2, <1>3, <1>4, SeqEqual
<1> QED
  BY <1>5 DEF grown

(* An element pushed to a list of two parts is pushed to the second one.   *)
LEMMA PushToSecond ==
    ASSUME NEW s \in Seq(Teams), NEW u \in Seq(Teams), NEW e \in Teams
    PROVE  Append(s \o u, e) = s \o Append(u, e)
<1>1. <<e>> \in Seq(Teams) /\ s \o u \in Seq(Teams)
  BY ConcatProperties
<1>2. Append(s \o u, e) = (s \o u) \o <<e>> /\ Append(u, e) = u \o <<e>>
  BY <1>1, AppendIsConcat
<1> QED
  BY <1>1, <1>2, ConcatAssociative

(* Pushing a new element adds it, and repeats nothing.                     *)
LEMMA PushFacts ==
    ASSUME NEW S, NEW s \in Seq(S), NEW e \in S
    PROVE  /\ Range(Append(s, e)) = Range(s) \cup {e}
           /\ IsInjective(s) /\ e \notin Range(s) => IsInjective(Append(s, e))
<1> DEFINE one == <<e>>
<1>1. one \in Seq(S) /\ Len(one) = 1 /\ one[1] = e
  OBVIOUS
<1>2. Append(s, e) = s \o one
  BY AppendIsConcat
<1> HIDE DEF one
<1>3. Range(one) = {e} /\ IsInjective(one)
  BY <1>1, LenProperties DEF Range, IsInjective
<1>4. Range(s \o one) = Range(s) \cup {e}
  BY <1>1, <1>3, RangeConcatenation
<1>5. ASSUME IsInjective(s), e \notin Range(s) PROVE IsInjective(s \o one)
  BY <1>1, <1>3, <1>5, JoinInjective
<1> QED
  BY <1>2, <1>4, <1>5

(* A repetition-free list of two parts has nothing in both.                *)
LEMMA JoinApart ==
    ASSUME NEW S, NEW s \in Seq(S), NEW u \in Seq(S), IsInjective(s \o u)
    PROVE  Range(s) \cap Range(u) = {}
<1>1. /\ Len(s) \in Nat /\ Len(u) \in Nat
      /\ DOMAIN s = 1..Len(s) /\ DOMAIN u = 1..Len(u)
  BY LenProperties
<1>2. /\ s \o u \in Seq(S)
      /\ Len(s \o u) = Len(s) + Len(u)
      /\ \A k \in 1..(Len(s) + Len(u)) :
            (s \o u)[k] = IF k <= Len(s) THEN s[k] ELSE u[k - Len(s)]
  BY ConcatProperties
<1>3. DOMAIN (s \o u) = 1..(Len(s) + Len(u))
  BY <1>2, LenProperties
<1>4. ASSUME NEW a \in 1..Len(s), NEW b \in 1..Len(u), s[a] = u[b]
      PROVE  FALSE
  <2>1. /\ a \in 1..(Len(s) + Len(u)) /\ b + Len(s) \in 1..(Len(s) + Len(u))
        /\ a # b + Len(s)
    BY <1>1
  <2>2. (s \o u)[a] = s[a] /\ (s \o u)[b + Len(s)] = u[b]
    BY <1>1, <1>2, <2>1
  <2> QED
    BY <1>3, <1>4, <2>1, <2>2 DEF IsInjective
<1> QED
  BY <1>1, <1>4 DEF Range

-----------------------------------------------------------------------------
(* The two lists that the loops walk, and what the closed form takes of    *)
(* them.                                                                   *)
LEMMA SnapshotFacts ==
    ASSUME Judge \in Judges, SnapshotTyped
    PROVE  LET tree == snapshot
               filtered == filteredTeams(tree, all_scores, Judge)
               preferred == preferredTeams(all_scores, Judge)
               first == FirstPicks(tree, all_scores, Judge)
               second == SecondPicks(tree, all_scores, Judge)
           IN  /\ tree.queue[Judge] \in Seq(Teams)
               /\ room \in Nat /\ room = teamsToAdd(tree, Judge)
               /\ filtered \in Seq(Teams) /\ IsInjective(filtered) /\ Len(filtered) \in Nat
               /\ preferred \in Seq(Teams) /\ IsInjective(preferred) /\ Len(preferred) \in Nat
               /\ first \in Seq(Teams) /\ Len(first) \in Nat /\ Len(first) <= room
               /\ first = Upto(filtered, room)
               /\ second = Upto(preferred, room - Len(first))
               /\ Picks(tree, all_scores, Judge) = first \o second
<1> DEFINE tree == snapshot
           left == Remaining(all_scores, Judge)
           free == {t \in left : tree.judgeAssigned[t] = Nobody}
           held == tree.queue[Judge]
           first == FirstPicks(tree, all_scores, Judge)
           second == SecondPicks(tree, all_scores, Judge)
<1>1. left \in SUBSET Teams /\ free \in SUBSET Teams
  BY DEF Remaining
<1>2. /\ KeyOrder[left] \in Seq(left) /\ IsInjective(KeyOrder[left])
      /\ KeyOrder[free] \in Seq(free) /\ IsInjective(KeyOrder[free])
  BY <1>1, KeyOrderAssumption DEF ListsOnce
<1>3. KeyOrder[left] \in Seq(Teams) /\ KeyOrder[free] \in Seq(Teams)
  BY <1>1, <1>2, SeqMonotonic
<1>4. /\ filteredTeams(tree, all_scores, Judge) = KeyOrder[free]
      /\ preferredTeams(all_scores, Judge) = KeyOrder[left]
  BY DEF filteredTeams, preferredTeams
<1>5. held \in Seq(Teams) /\ Len(held) \in Nat /\ Len(held) <= Quota
  BY LenProperties DEF SnapshotTyped, Tree
<1>6. /\ room = Quota - Len(held)
      /\ teamsToAdd(tree, Judge) = IF Len(held) < Quota THEN Quota - Len(held) ELSE 0
  BY DEF room, teamsToAdd
<1>7. first = Upto(KeyOrder[free], teamsToAdd(tree, Judge))
      /\ second = Upto(KeyOrder[left], teamsToAdd(tree, Judge) - Len(first))
  BY <1>4 DEF FirstPicks, SecondPicks
<1>8. Picks(tree, all_scores, Judge) = first \o second
  BY DEF Picks
<1> HIDE DEF tree, left, free, held, first, second
<1>9. room \in Nat /\ room = teamsToAdd(tree, Judge)
  BY <1>5, <1>6, QuotaAssumption
<1>10. first \in Seq(Teams) /\ Len(first) \in Nat /\ Len(first) <= room
  BY <1>3, <1>7, <1>9, UptoFacts
<1>11. Len(KeyOrder[left]) \in Nat /\ Len(KeyOrder[free]) \in Nat
  BY <1>3, LenProperties
<1> QED
  BY <1>2, <1>3, <1>4, <1>5, <1>7, <1>8, <1>9, <1>10, <1>11 DEF tree, held, first, second

(* The loop stands at the first candidate, and nothing is pushed.          *)
LEMMA InitLoop == ASSUME Judge \in Judges, LoopInit PROVE LoopInv
<1> DEFINE held == snapshot.queue[Judge]
           filtered == filteredTeams(snapshot, all_scores, Judge)
<1>1. ASSUME NEW j \in Judges
      PROVE  /\ snapshot.queue[j] \in Seq(Teams) /\ IsInjective(snapshot.queue[j])
             /\ Len(snapshot.queue[j]) <= Quota
  <2>1. snapshot.queue[j] \in AnyLists[j]
    BY DEF LoopInit, Snapshots
  <2>2. PICK n \in 0..Quota : snapshot.queue[j] \in Injection(1..n, Teams)
    BY <2>1 DEF AnyLists
  <2>3. snapshot.queue[j] \in [1..n -> Teams] /\ IsInjective(snapshot.queue[j])
    BY <2>2 DEF Injection
  <2>4. n \in Nat /\ n <= Quota
    BY QuotaAssumption
  <2>5. snapshot.queue[j] \in Seq(Teams)
    BY <2>3, <2>4, SeqDef
  <2>6. DOMAIN snapshot.queue[j] = 1..Len(snapshot.queue[j])
        /\ Len(snapshot.queue[j]) \in Nat
    BY <2>5, LenProperties
  <2>7. Len(snapshot.queue[j]) = n
    BY <2>3, <2>4, <2>6
  <2> QED
    BY <2>3, <2>4, <2>5, <2>7
<1>2. SnapshotTyped
  <2>1. snapshot \in Tree
    <3>1. /\ snapshot \in [queue : [Judges -> UNION Range(AnyLists)],
                               judgeAssigned : [Teams -> Judges \cup {Nobody}]]
      BY DEF LoopInit, Snapshots
    <3>2. snapshot.queue \in [Judges -> Seq(Teams)]
      BY <1>1, <3>1
    <3> QED
      BY <3>1, <3>2 DEF Tree
  <2>2. all_scores \in [Teams -> SUBSET Judges]
    BY DEF LoopInit
  <2> QED
    BY <1>1, <2>1, <2>2 DEF SnapshotTyped
<1>3. /\ held \in Seq(Teams) /\ room \in Nat
      /\ filtered \in Seq(Teams) /\ Len(filtered) \in Nat
  BY <1>2, SnapshotFacts
<1>4. Upto(filtered, 0) = <<>>
  <2>1. Upto(filtered, 0) = SubSeq(filtered, 1, 0)
    <3> HIDE DEF filtered
    <3> QED
      BY <1>3 DEF Upto
  <2> QED
    BY <2>1, SubSeqEmpty
<1>5. /\ loop = "filtered" /\ i = 1 /\ i - 1 = 0 /\ teamsAdded = 0
      /\ judgeAssignedTeams = held /\ assignedTeams = snapshot.judgeAssigned
  BY DEF LoopInit
<1>6. Pushed = <<>>
  BY <1>4, <1>5 DEF Pushed
<1>7. held \o <<>> = held
  BY <1>3, ConcatEmptySeq
<1>8. assignedTeams = [t \in Teams |-> IF t \in Range(<<>>) THEN Judge
                                       ELSE snapshot.judgeAssigned[t]]
  <2>1. Range(<<>>) = {}
    BY DEF Range
  <2>2. snapshot.judgeAssigned \in [Teams -> Judges \cup {Nobody}]
    BY <1>2 DEF SnapshotTyped, Tree
  <2> QED
    BY <1>5, <2>1, <2>2
<1>9. Candidates = filtered
  BY <1>5 DEF Candidates
<1> QED
  BY <1>2, <1>3, <1>5, <1>6, <1>7, <1>8, <1>9 DEF LoopInv, SnapshotTyped

-----------------------------------------------------------------------------
(* An iteration goes on to the next candidate: what is pushed grows by it. *)
LEMMA PushedGrows ==
    ASSUME Judge \in Judges, LoopInv, Push
    PROVE  /\ Candidates[i] \in Teams
           /\ Pushed \in Seq(Teams)
           /\ Pushed' = Append(Pushed, Candidates[i])
           /\ Candidates' = Candidates
           /\ loop' = loop /\ snapshot' = snapshot /\ all_scores' = all_scores
<1> DEFINE filtered == filteredTeams(snapshot, all_scores, Judge)
           preferred == preferredTeams(all_scores, Judge)
           first == FirstPicks(snapshot, all_scores, Judge)
<1>0. SnapshotTyped /\ i \in Nat \ {0} /\ i - 1 \in Nat /\ i' = i + 1
  BY DEF LoopInv, Push
<1>1. /\ loop' = loop /\ snapshot' = snapshot /\ all_scores' = all_scores
      /\ loop \in {"filtered", "preferred"} /\ i <= Len(Candidates)
  BY DEF Push, LoopGoes, LoopInv
<1>2. /\ filtered \in Seq(Teams) /\ Len(filtered) \in Nat
      /\ preferred \in Seq(Teams) /\ Len(preferred) \in Nat
      /\ first \in Seq(Teams)
  BY <1>0, SnapshotFacts
<1>3. (i + 1) - 1 = (i - 1) + 1 /\ (i - 1) + 1 = i
  BY <1>0
<1>4. CASE loop = "filtered"
  <2>1. Candidates = filtered
    BY <1>4 DEF Candidates
  <2>2. Pushed = Upto(filtered, i - 1) /\ Pushed' = Upto(filtered, i)
    BY <1>0, <1>1, <1>3, <1>4 DEF Pushed
  <2> HIDE DEF filtered
  <2>3. filtered[i] \in Teams
    BY <1>0, <1>1, <1>2, <2>1, ElementOfSeq
  <2>4. Upto(filtered, i) = Append(Upto(filtered, i - 1), filtered[i])
    <3>1. i - 1 < Len(filtered)
      BY <1>0, <1>1, <1>2, <2>1
    <3>2. Upto(filtered, (i - 1) + 1) = Append(Upto(filtered, i - 1), filtered[(i - 1) + 1])
      BY <1>0, <1>2, <3>1, PrefixGrows
    <3> QED
      BY <1>3, <3>2
  <2>5. Upto(filtered, i - 1) \in Seq(Teams)
    BY <1>0, <1>2, UptoFacts
  <2>6. Candidates' = Candidates
    BY <1>1 DEF Candidates
  <2> QED
    BY <1>1, <2>1, <2>2, <2>3, <2>4, <2>5, <2>6
<1>5. CASE loop = "preferred"
  <2>1. Candidates = preferred
    BY <1>5 DEF Candidates
  <2>2. Pushed = first \o Upto(preferred, i - 1) /\ Pushed' = first \o Upto(preferred, i)
    BY <1>0, <1>1, <1>3, <1>5 DEF Pushed
  <2> HIDE DEF preferred, first
  <2>3. preferred[i] \in Teams
    BY <1>0, <1>1, <1>2, <2>1, ElementOfSeq
  <2>4. Upto(preferred, i) = Append(Upto(preferred, i - 1), preferred[i])
    <3>1. i - 1 < Len(preferred)
      BY <1>0, <1>1, <1>2, <2>1
    <3>2. Upto(preferred, (i - 1) + 1) = Append(Upto(preferred, i - 1), preferred[(i - 1) + 1])
      BY <1>0, <1>2, <3>1, PrefixGrows
    <3> QED
      BY <1>3, <3>2
  <2>5. Upto(preferred, i - 1) \in Seq(Teams)
    BY <1>0, <1>2, UptoFacts
  <2>6. first \o Upto(preferred, i) = Append(first \o Upto(preferred, i - 1), preferred[i])
    <3>1. PICK e, u, s : e = preferred[i] /\ u = Upto(preferred, i - 1) /\ s = first
      OBVIOUS
    <3>2. s \in Seq(Teams) /\ u \in Seq(Teams) /\ e \in Teams
      BY <1>2, <2>3, <2>5, <3>1
    <3>3. Append(s \o u, e) = s \o Append(u, e)
      BY ONLY <3>2, PushToSecond, Zenon
    <3> QED
      BY <2>4, <3>1, <3>3
  <2>7. first \o Upto(preferred, i - 1) \in Seq(Teams)
    BY <1>2, <2>5, ConcatProperties
  <2>8. Candidates' = Candidates
    BY <1>1 DEF Candidates
  <2> QED
    BY <1>1, <2>1, <2>2, <2>3, <2>6, <2>7, <2>8
<1> QED
  BY <1>1, <1>4, <1>5

LEMMA PushKeeps == ASSUME Judge \in Judges, LoopInv, Push PROVE LoopInv'
<1> DEFINE held == snapshot.queue[Judge]
           team == Candidates[i]
<1>1. /\ team \in Teams /\ Pushed \in Seq(Teams) /\ Pushed' = Append(Pushed, team)
      /\ Candidates' = Candidates
      /\ loop' = loop /\ snapshot' = snapshot /\ all_scores' = all_scores
  BY PushedGrows
<1>2. /\ i \in Nat \ {0} /\ i <= Len(Candidates) /\ i' = i + 1
      /\ teamsAdded < room /\ teamsAdded' = teamsAdded + 1 /\ loop # "set"
      /\ team \notin Range(judgeAssignedTeams)
      /\ judgeAssignedTeams' = Append(judgeAssignedTeams, team)
      /\ assignedTeams' = [assignedTeams EXCEPT ![team] = Judge]
  BY DEF LoopInv, Push, LoopGoes
<1>3. /\ SnapshotTyped /\ loop \in {"filtered", "preferred", "set"}
      /\ teamsAdded = Len(Pushed)
      /\ judgeAssignedTeams = held \o Pushed /\ IsInjective(judgeAssignedTeams)
      /\ assignedTeams = [t \in Teams |-> IF t \in Range(Pushed) THEN Judge
                                          ELSE snapshot.judgeAssigned[t]]
  BY DEF LoopInv
<1>4. held \in Seq(Teams) /\ room \in Nat
  BY <1>3, SnapshotFacts
<1>5. SnapshotTyped' /\ room' = room /\ held' = held
  BY <1>1, <1>3 DEF SnapshotTyped, room
<1> HIDE DEF held, team
<1>6. held \o Pushed \in Seq(Teams)
  BY <1>1, <1>4, ConcatProperties
<1>7. judgeAssignedTeams' = held \o Append(Pushed, team)
  <2>1. judgeAssignedTeams = held \o Pushed
    BY <1>3 DEF held
  <2>2. judgeAssignedTeams' = Append(judgeAssignedTeams, team)
    BY <1>2 DEF team
  <2>3. held \o Append(Pushed, team) = Append(held \o Pushed, team)
    BY <1>1, <1>4, PushToSecond
  <2> QED
    BY <2>1, <2>2, <2>3
<1>8. IsInjective(judgeAssignedTeams') /\ Range(Append(Pushed, team)) = Range(Pushed) \cup {team}
  <2>1. PICK s, e : s = judgeAssignedTeams /\ e = team
    OBVIOUS
  <2>2. s \in Seq(Teams) /\ e \in Teams /\ IsInjective(s) /\ e \notin Range(s)
    BY <1>1, <1>2, <1>3, <1>6, <2>1 DEF held, team
  <2>3. IsInjective(Append(s, e))
    BY ONLY <2>2, PushFacts
  <2>4. PICK p : p = Pushed
    OBVIOUS
  <2>5. p \in Seq(Teams) /\ e \in Teams
    BY <1>1, <2>1, <2>2, <2>4
  <2>6. Range(Append(p, e)) = Range(p) \cup {e}
    BY ONLY <2>5, PushFacts
  <2> QED
    BY <1>2, <2>1, <2>3, <2>4, <2>6 DEF team
<1>9. assignedTeams' = [t \in Teams |-> IF t \in Range(Append(Pushed, team)) THEN Judge
                                        ELSE snapshot.judgeAssigned[t]]
  BY <1>1, <1>2, <1>3, <1>8
<1>10. Len(Pushed) \in Nat /\ Len(Append(Pushed, team)) = Len(Pushed) + 1
  BY <1>1, AppendProperties, LenProperties
<1>11. teamsAdded' = Len(Pushed') /\ teamsAdded' <= room
  BY <1>1, <1>2, <1>3, <1>4, <1>10
<1>12. i' \in Nat \ {0} /\ i' - 1 <= Len(Candidates')
  BY <1>1, <1>2
<1> QED
  BY <1>1, <1>2, <1>3, <1>5, <1>7, <1>8, <1>9, <1>11, <1>12 DEF LoopInv, held

(* A loop that has no room or no candidate left has pushed all its picks.  *)
LEMMA PrefixIsAll ==
    ASSUME NEW S, NEW s \in Seq(S), NEW n \in Nat, NEW k \in Nat, n <= Len(s), n <= k,
           n = Len(s) \/ n = k
    PROVE  Upto(s, n) = Upto(s, k)
  BY LenProperties DEF Upto

LEMMA ToPreferredKeeps == ASSUME Judge \in Judges, LoopInv, ToPreferred PROVE LoopInv'
<1> DEFINE filtered == filteredTeams(snapshot, all_scores, Judge)
           preferred == preferredTeams(all_scores, Judge)
           first == FirstPicks(snapshot, all_scores, Judge)
<1>1. /\ loop = "filtered" /\ loop' = "preferred" /\ i' = 1
      /\ UNCHANGED <<snapshot, all_scores, judgeAssignedTeams, assignedTeams, teamsAdded>>
      /\ ~LoopGoes
  BY DEF ToPreferred
<1>2. SnapshotTyped /\ i \in Nat \ {0} /\ i - 1 \in Nat
  BY DEF LoopInv
<1>3. /\ filtered \in Seq(Teams) /\ Len(filtered) \in Nat
      /\ preferred \in Seq(Teams) /\ Len(preferred) \in Nat
      /\ first \in Seq(Teams) /\ first = Upto(filtered, room) /\ room \in Nat
  BY <1>2, SnapshotFacts
<1>4. Candidates = filtered /\ Pushed = Upto(filtered, i - 1)
  BY <1>1 DEF Candidates, Pushed
<1>5. Candidates' = preferred /\ Pushed' = first \o Upto(preferred, 1 - 1)
  BY <1>1 DEF Candidates, Pushed
<1>6. i - 1 <= Len(filtered) /\ teamsAdded = Len(Pushed) /\ teamsAdded <= room
  BY <1>4 DEF LoopInv
<1>7. ~(i <= Len(filtered)) \/ ~(teamsAdded < room)
  BY <1>1, <1>4 DEF LoopGoes
<1> HIDE DEF filtered, preferred, first
<1>8. Len(Upto(filtered, i - 1)) = i - 1
  BY <1>2, <1>3, <1>6, PrefixFacts
<1>9. i - 1 <= room /\ (i - 1 = Len(filtered) \/ i - 1 = room)
  BY <1>2, <1>3, <1>4, <1>6, <1>7, <1>8
<1>10. Pushed = first
  BY <1>2, <1>3, <1>4, <1>6, <1>9, PrefixIsAll
<1>11. Pushed' = first
  <2>1. 1 - 1 = 0 /\ 0 < Len(preferred) + 1
    BY <1>3
  <2>2. Upto(preferred, 0) = <<>>
    <3>1. Upto(preferred, 0) = SubSeq(preferred, 1, 0)
      BY <1>3 DEF Upto
    <3> QED
      BY <3>1, SubSeqEmpty
  <2> QED
    BY <1>3, <1>5, <2>1, <2>2, ConcatEmptySeq
<1>12. SnapshotTyped' /\ room' = room /\ i' \in Nat \ {0} /\ i' - 1 <= Len(Candidates')
  BY <1>1, <1>2, <1>3, <1>5 DEF SnapshotTyped, room
<1>13. Pushed' = Pushed
  BY <1>10, <1>11
<1> QED
  BY <1>1, <1>12, <1>13 DEF LoopInv

LEMMA ToSetKeeps == ASSUME Judge \in Judges, LoopInv, ToSet PROVE LoopInv'
<1> DEFINE preferred == preferredTeams(all_scores, Judge)
           first == FirstPicks(snapshot, all_scores, Judge)
           second == SecondPicks(snapshot, all_scores, Judge)
<1>1. /\ loop = "preferred" /\ loop' = "set"
      /\ UNCHANGED <<snapshot, all_scores, judgeAssignedTeams, assignedTeams, i, teamsAdded>>
      /\ ~LoopGoes
  BY DEF ToSet
<1>2. SnapshotTyped /\ i \in Nat \ {0} /\ i - 1 \in Nat
  BY DEF LoopInv
<1>3. /\ preferred \in Seq(Teams) /\ Len(preferred) \in Nat
      /\ first \in Seq(Teams) /\ Len(first) \in Nat /\ Len(first) <= room /\ room \in Nat
      /\ second = Upto(preferred, room - Len(first))
      /\ Picks(snapshot, all_scores, Judge) = first \o second
  BY <1>2, SnapshotFacts
<1>4. Candidates = preferred /\ Pushed = first \o Upto(preferred, i - 1)
  BY <1>1 DEF Candidates, Pushed
<1>5. Candidates' = Candidates /\ Pushed' = Pushed
  BY <1>1 DEF Candidates, Pushed
<1>6. i - 1 <= Len(preferred) /\ teamsAdded = Len(Pushed) /\ teamsAdded <= room
  BY <1>4 DEF LoopInv
<1>7. ~(i <= Len(preferred)) \/ ~(teamsAdded < room)
  BY <1>1, <1>4 DEF LoopGoes
<1> HIDE DEF preferred, first, second
<1>8. Upto(preferred, i - 1) \in Seq(Teams) /\ Len(Upto(preferred, i - 1)) = i - 1
  BY <1>2, <1>3, <1>6, PrefixFacts
<1>9. Len(first \o Upto(preferred, i - 1)) = Len(first) + (i - 1)
  BY <1>3, <1>8, ConcatProperties
<1>10. /\ room - Len(first) \in Nat /\ i - 1 <= room - Len(first)
       /\ i - 1 = Len(preferred) \/ i - 1 = room - Len(first)
  BY <1>2, <1>3, <1>4, <1>6, <1>7, <1>9
<1>11. Upto(preferred, i - 1) = second
  BY <1>2, <1>3, <1>6, <1>10, PrefixIsAll
<1>12. Pushed' = Picks(snapshot, all_scores, Judge)'
  BY <1>1, <1>3, <1>4, <1>5, <1>11
<1>13. SnapshotTyped' /\ room' = room
  BY <1>1, <1>2 DEF SnapshotTyped, room
<1> QED
  BY <1>1, <1>5, <1>12, <1>13 DEF LoopInv

LEMMA LoopInvariant == ASSUME Judge \in Judges PROVE LoopSpec => []LoopInv
<1>1. LoopInit => LoopInv
  BY InitLoop
<1>2. LoopInv /\ [LoopNext]_allVars => LoopInv'
  <2>1. CASE UNCHANGED allVars
    BY <2>1 DEF allVars, loopVars, LoopInv, SnapshotTyped, Pushed, Candidates, room
  <2> QED
    BY <2>1, PushKeeps, ToPreferredKeeps, ToSetKeeps DEF LoopNext
<1> QED
  BY <1>1, <1>2, PTL DEF LoopSpec

-----------------------------------------------------------------------------
(* A candidate within the room is one of the picks, and not one of those   *)
(* before it.                                                              *)
LEMMA CandidateFacts ==
    ASSUME NEW S, NEW s \in Seq(S), IsInjective(s), NEW n \in Nat, NEW k \in Nat \ {0},
           k <= Len(s), k <= n
    PROVE  s[k] \in Range(Upto(s, n)) /\ s[k] \notin Range(Upto(s, k - 1))
<1>1. Len(s) \in Nat /\ DOMAIN s = 1..Len(s) /\ k - 1 \in Nat /\ k - 1 <= Len(s)
  BY LenProperties
<1>2. s[k] \in Range(Upto(s, n))
  <2> DEFINE m == IF n < Len(s) THEN n ELSE Len(s)
  <2>1. Upto(s, n) = Upto(s, m) /\ m \in Nat /\ m <= Len(s) /\ k \in 1..m
    BY <1>1 DEF Upto
  <2> HIDE DEF m
  <2>2. Range(Upto(s, m)) = {s[a] : a \in 1..m}
    BY <2>1, PrefixFacts
  <2> QED
    BY <2>1, <2>2
<1>3. s[k] \notin {s[a] : a \in 1..(k - 1)}
  <2> SUFFICES ASSUME NEW a \in 1..(k - 1), s[k] = s[a] PROVE FALSE
    OBVIOUS
  <2>1. a \in DOMAIN s /\ k \in DOMAIN s /\ a # k
    BY <1>1
  <2> QED
    BY <2>1 DEF IsInjective
<1>4. Range(Upto(s, k - 1)) = {s[a] : a \in 1..(k - 1)}
  <2> DEFINE n0 == k - 1
  <2>1. n0 \in Nat /\ n0 <= Len(s)
    BY <1>1
  <2> HIDE DEF n0
  <2>2. Range(Upto(s, n0)) = {s[a] : a \in 1..n0}
    BY <2>1, PrefixFacts
  <2> QED
    BY <2>2 DEF n0
<1> QED
  BY <1>2, <1>3, <1>4

(* In a state that satisfies the invariant, what is about to be set is the *)
(* closed form, and the closed form does not spin: the list has nothing    *)
(* twice, so the three parts it is made of are apart.                      *)
LEMMA LoopInvSetsClosedForm == ASSUME Judge \in Judges, LoopInv PROVE SetsClosedForm
<1> DEFINE held == snapshot.queue[Judge]
           first == FirstPicks(snapshot, all_scores, Judge)
           second == SecondPicks(snapshot, all_scores, Judge)
<1> SUFFICES ASSUME loop = "set"
             PROVE  /\ ~Spins(snapshot, all_scores, Judge)
                    /\ Written = processAssignedQueue(snapshot, all_scores, Judge)
  BY DEF SetsClosedForm
<1>1. SnapshotTyped
  BY DEF LoopInv
<1>2. /\ held \in Seq(Teams) /\ room \in Nat /\ first \in Seq(Teams) /\ Len(first) \in Nat
      /\ Len(first) <= room
      /\ preferredTeams(all_scores, Judge) \in Seq(Teams)
      /\ second = Upto(preferredTeams(all_scores, Judge), room - Len(first))
      /\ Picks(snapshot, all_scores, Judge) = first \o second
  BY <1>1, SnapshotFacts
<1>3. /\ Pushed = Picks(snapshot, all_scores, Judge)
      /\ judgeAssignedTeams = held \o Pushed /\ IsInjective(judgeAssignedTeams)
      /\ assignedTeams = [t \in Teams |-> IF t \in Range(Pushed) THEN Judge
                                          ELSE snapshot.judgeAssigned[t]]
  BY DEF LoopInv
<1>4. Spins(snapshot, all_scores, Judge) =
        (\/ Range(first) \cap Range(held) # {}
         \/ Range(second) \cap (Range(held) \cup Range(first)) # {})
  BY DEF Spins
<1>5. Written = processAssignedQueue(snapshot, all_scores, Judge)
  BY <1>3 DEF Written, processAssignedQueue
<1> HIDE DEF held, first, second
<1>6. room - Len(first) \in Nat
  BY <1>2
<1>7. second \in Seq(Teams)
  BY <1>2, <1>6, UptoFacts
<1>8. /\ first \o second \in Seq(Teams) /\ held \o first \in Seq(Teams)
      /\ held \o (first \o second) = (held \o first) \o second
  <2>1. first \o second \in Seq(Teams)
    BY <1>2, <1>7, ConcatProperties
  <2>2. held \o first \in Seq(Teams)
    BY <1>2, ConcatProperties
  <2>3. held \o (first \o second) = (held \o first) \o second
    <3>1. held \in Seq(Teams) /\ first \in Seq(Teams) /\ second \in Seq(Teams)
      BY <1>2, <1>7
    <3>2. (held \o first) \o second = held \o (first \o second)
      BY ONLY <3>1, ConcatAssociative
    <3> QED
      BY <3>2
  <2> QED
    BY <2>1, <2>2, <2>3
<1>9. /\ Range(first \o second) = Range(first) \cup Range(second)
      /\ Range(held \o first) = Range(held) \cup Range(first)
  BY <1>2, <1>7, RangeConcatenation
<1>10. Range(held) \cap Range(first \o second) = {}
  BY <1>2, <1>3, <1>8, JoinApart
<1>11. Range(held \o first) \cap Range(second) = {}
  BY <1>2, <1>3, <1>7, <1>8, JoinApart
<1> QED
  BY <1>4, <1>5, <1>9, <1>10, <1>11

(* A candidate that is on the list already was there before the call, or   *)
(* the first loop put it there: the picks before it in the same list are   *)
(* other teams.                                                            *)
LEMMA LoopInvStuckOnlyWhenSpins ==
    ASSUME Judge \in Judges, LoopInv PROVE StuckOnlyWhenSpins
<1> DEFINE held == snapshot.queue[Judge]
           filtered == filteredTeams(snapshot, all_scores, Judge)
           preferred == preferredTeams(all_scores, Judge)
           first == FirstPicks(snapshot, all_scores, Judge)
           second == SecondPicks(snapshot, all_scores, Judge)
<1> SUFFICES ASSUME LoopGoes, Candidates[i] \in Range(judgeAssignedTeams)
             PROVE  Spins(snapshot, all_scores, Judge)
  BY DEF StuckOnlyWhenSpins
<1>1. SnapshotTyped
  BY DEF LoopInv
<1>2. /\ held \in Seq(Teams) /\ room \in Nat
      /\ filtered \in Seq(Teams) /\ IsInjective(filtered) /\ Len(filtered) \in Nat
      /\ preferred \in Seq(Teams) /\ IsInjective(preferred) /\ Len(preferred) \in Nat
      /\ first \in Seq(Teams) /\ Len(first) \in Nat /\ Len(first) <= room
      /\ first = Upto(filtered, room) /\ second = Upto(preferred, room - Len(first))
  BY <1>1, SnapshotFacts
<1>3. /\ i \in Nat \ {0} /\ i - 1 \in Nat /\ i - 1 <= Len(Candidates)
      /\ loop \in {"filtered", "preferred"}
      /\ i <= Len(Candidates) /\ Len(Pushed) < room
      /\ judgeAssignedTeams = held \o Pushed
  BY DEF LoopInv, LoopGoes
<1>4. Spins(snapshot, all_scores, Judge) =
        (\/ Range(first) \cap Range(held) # {}
         \/ Range(second) \cap (Range(held) \cup Range(first)) # {})
  BY DEF Spins
<1>5. CASE loop = "filtered"
  <2>1. Candidates = filtered /\ Pushed = Upto(filtered, i - 1)
    BY <1>5 DEF Candidates, Pushed
  <2> HIDE DEF held, filtered, first
  <2>2. Pushed \in Seq(Teams) /\ Len(Pushed) = i - 1
    <3>1. PICK s, n : s = filtered /\ n = i - 1
      OBVIOUS
    <3>2. s \in Seq(Teams) /\ n \in Nat /\ n <= Len(s)
      BY <1>2, <1>3, <2>1, <3>1
    <3>3. Upto(s, n) \in Seq(Teams) /\ Len(Upto(s, n)) = n
      BY ONLY <3>2, PrefixFacts
    <3> QED
      BY <2>1, <3>1, <3>3
  <2>3. i <= Len(filtered) /\ i <= room
    BY <1>2, <1>3, <2>1, <2>2
  <2>4. filtered[i] \in Range(first) /\ filtered[i] \notin Range(Pushed)
    BY <1>2, <1>3, <2>1, <2>3, CandidateFacts
  <2>5. Range(judgeAssignedTeams) = Range(held) \cup Range(Pushed)
    BY <1>2, <1>3, <2>2, RangeConcatenation
  <2> QED
    BY <1>4, <2>1, <2>4, <2>5
<1>6. CASE loop = "preferred"
  <2>1. Candidates = preferred /\ Pushed = first \o Upto(preferred, i - 1)
    BY <1>6 DEF Candidates, Pushed
  <2> HIDE DEF held, preferred, first, second
  <2>2. Upto(preferred, i - 1) \in Seq(Teams) /\ Len(Upto(preferred, i - 1)) = i - 1
    BY <1>2, <1>3, <2>1, PrefixFacts
  <2>3. /\ Pushed \in Seq(Teams) /\ Len(Pushed) = Len(first) + (i - 1)
        /\ Range(Pushed) = Range(first) \cup Range(Upto(preferred, i - 1))
    BY <1>2, <2>1, <2>2, ConcatProperties, RangeConcatenation
  <2>4. room - Len(first) \in Nat /\ i <= Len(preferred) /\ i <= room - Len(first)
    BY <1>2, <1>3, <2>1, <2>3
  <2>5. preferred[i] \in Range(second) /\ preferred[i] \notin Range(Upto(preferred, i - 1))
    BY <1>2, <1>3, <2>4, CandidateFacts
  <2>6. Range(judgeAssignedTeams) = Range(held) \cup Range(Pushed)
    BY <1>2, <1>3, <2>3, RangeConcatenation
  <2> QED
    BY <1>4, <2>1, <2>3, <2>5, <2>6
<1> QED
  BY <1>3, <1>5, <1>6

-----------------------------------------------------------------------------
(* A run that gets to the set writes what processAssignedQueue's closed    *)
(* form says, and only where that form does not spin (index.js, 57-92).    *)
THEOREM LoopsSetClosedForm ==
    ASSUME Judge \in Judges PROVE LoopSpec => []SetsClosedForm
<1>1. LoopInv => SetsClosedForm
  BY LoopInvSetsClosedForm
<1> QED
  BY <1>1, LoopInvariant, PTL

(* The loops stand still at a team that is on the list already only where  *)
(* the closed form spins: it leaves out no snapshot that hangs the call.   *)
THEOREM LoopsStickOnlyWhenSpins ==
    ASSUME Judge \in Judges PROVE LoopSpec => []StuckOnlyWhenSpins
<1>1. LoopInv => StuckOnlyWhenSpins
  BY LoopInvStuckOnlyWhenSpins
<1> QED
  BY <1>1, LoopInvariant, PTL

(* What the loops leave to be set keeps the contract's top-up: the list is *)
(* extended at its end, to the quota or with everything left, free teams   *)
(* before taken ones, whatever the snapshot.                               *)
THEOREM LoopsKeepContract ==
    ASSUME Judge \in Judges PROVE LoopSpec => []SetKeepsContract
<1>1. ASSUME LoopInv, loop = "set"
      PROVE  TopUpOf(Written, snapshot, all_scores, Judge)
  <2>1. /\ ~Spins(snapshot, all_scores, Judge)
        /\ Written = processAssignedQueue(snapshot, all_scores, Judge)
    BY <1>1, LoopInvSetsClosedForm DEF SetsClosedForm
  <2>2. /\ snapshot \in Tree /\ all_scores \in [Teams -> SUBSET Judges]
        /\ IsInjective(snapshot.queue[Judge])
        /\ Len(snapshot.queue[Judge]) <= Quota
    BY <1>1 DEF LoopInv, SnapshotTyped
  <2> QED
    BY <2>1, <2>2, AssignTopsUp
<1>2. LoopInv => SetKeepsContract
  BY <1>1 DEF SetKeepsContract
<1> QED
  BY <1>2, LoopInvariant, PTL
=============================================================================
