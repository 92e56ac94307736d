----------------------------- MODULE AssignLoop -----------------------------
(***************************************************************************)
(* One run of processAssignedQueue on one snapshot, iteration by iteration *)
(* (index.js, lines 57-92), checked against the closed form that           *)
(* JudgingQueue uses.  The snapshot is any one that the concurrent calls   *)
(* can leave behind: lists without repetition and within the quota, every  *)
(* marked owner holding the team, score sheets that may already be there   *)
(* for a team still on the list.                                           *)
(***************************************************************************)
EXTENDS Assignment

CONSTANT Judge    \* the judgeId of the call

VARIABLES
    snapshot, all_scores,               \* judgingQueue and scores as they were read
    judgeAssignedTeams, assignedTeams,  \* the working copies
    loop,                               \* "filtered", "preferred" or "set"
    i, teamsAdded

loopVars == <<judgeAssignedTeams, assignedTeams, loop, i, teamsAdded>>
allVars == <<snapshot, all_scores, loopVars>>

AnyLists ==
    [j \in Judges |->
        {s \in UNION {Injection(1..n, Teams) : n \in 0..Quota} :
            \A t \in Range(s) : isPreferredTeam(j, t)}]

Snapshots ==
    {tree \in [queue : {q \in [Judges -> UNION Range(AnyLists)] :
                          \A j \in Judges : q[j] \in AnyLists[j]},
               judgeAssigned : [Teams -> Judges \cup {Nobody}]] :
        \A t \in Teams : tree.judgeAssigned[t] # Nobody
                            => t \in Range(tree.queue[tree.judgeAssigned[t]])}

LoopInit ==
    /\ snapshot \in Snapshots
    /\ all_scores \in [Teams -> {{}, {Judge}}]
    /\ judgeAssignedTeams = snapshot.queue[Judge]
    /\ assignedTeams = snapshot.judgeAssigned
    /\ loop = "filtered"
    /\ i = 1
    /\ teamsAdded = 0

(* "3 - judgeAssignedTeams.length", computed before the loops.             *)
room == Quota - Len(snapshot.queue[Judge])

(* The list that the current loop walks.                                   *)
Candidates ==
    IF loop = "filtered"
    THEN filteredTeams(snapshot, all_scores, Judge)
    ELSE preferredTeams(all_scores, Judge)

(* Seeded defect: the loop goes on when the room is used up.               *)
LoopGoesTooFar == loop # "set" /\ i <= Len(Candidates) /\ teamsAdded <= room

LoopGoes == loop # "set" /\ i <= Len(Candidates) /\ teamsAdded < room

(* Seeded defect: the index does not move.                                 *)
PushStays ==
    /\ LoopGoes
    /\ Candidates[i] \notin Range(judgeAssignedTeams)
    /\ judgeAssignedTeams' = Append(judgeAssignedTeams, Candidates[i])
    /\ assignedTeams' = [assignedTeams EXCEPT ![Candidates[i]] = Judge]
    /\ teamsAdded' = teamsAdded + 1
    /\ UNCHANGED <<snapshot, all_scores, loop, i>>

(* The loop body: push, mark, move on.  At a team that is on the list      *)
(* already the body does nothing, and nothing will ever change: no step.   *)
Push ==
    /\ LoopGoes
    /\ Candidates[i] \notin Range(judgeAssignedTeams)
    /\ judgeAssignedTeams' = Append(judgeAssignedTeams, Candidates[i])
    /\ assignedTeams' = [assignedTeams EXCEPT ![Candidates[i]] = Judge]
    /\ i' = i + 1
    /\ teamsAdded' = teamsAdded + 1
    /\ UNCHANGED <<snapshot, all_scores, loop>>

(* Seeded defect: the second loop starts where the first one stopped.      *)
ToPreferredSameIndex ==
    /\ loop = "filtered" /\ ~LoopGoes
    /\ loop' = "preferred"
    /\ UNCHANGED <<snapshot, all_scores, judgeAssignedTeams, assignedTeams, i, teamsAdded>>

ToPreferred ==
    /\ loop = "filtered" /\ ~LoopGoes
    /\ loop' = "preferred"
    /\ i' = 1
    /\ UNCHANGED <<snapshot, all_scores, judgeAssignedTeams, assignedTeams, teamsAdded>>

ToSet ==
    /\ loop = "preferred" /\ ~LoopGoes
    /\ loop' = "set"
    /\ UNCHANGED <<snapshot, all_scores, judgeAssignedTeams, assignedTeams, i, teamsAdded>>

LoopNext == Push \/ ToPreferred \/ ToSet

LoopSpec == LoopInit /\ [][LoopNext]_allVars /\ WF_allVars(LoopNext)

-----------------------------------------------------------------------------
(* What line 91 and 92 put in the subtree that is set.                     *)
Written == [queue |-> [snapshot.queue EXCEPT ![Judge] = judgeAssignedTeams],
            judgeAssigned |-> assignedTeams]

(* A run that reaches the set has computed the closed form, and the closed *)
(* form says that it would get there.                                      *)
SetsClosedForm ==
    loop = "set" =>
        /\ ~Spins(snapshot, all_scores, Judge)
        /\ Written = processAssignedQueue(snapshot, all_scores, Judge)

(* A run stands still before the set only where the closed form says so.   *)
StuckOnlyWhenSpins ==
    (LoopGoes /\ Candidates[i] \in Range(judgeAssignedTeams)) =>
        Spins(snapshot, all_scores, Judge)

(* What is set tops up the judge's list as the contract says, from every   *)
(* snapshot: full or everything left, free teams before taken ones.        *)
SetKeepsContract ==
    loop = "set" => TopUpOf(Written, snapshot, all_scores, Judge)

(* Where the closed form sees no obstacle, the run does reach the set.     *)
HaltsUnlessSpins ==
    ~Spins(snapshot, all_scores, Judge) ~> loop = "set"
=============================================================================
