---------------------------- MODULE MCFunctions -----------------------------
(***************************************************************************)
(* The cloud functions with overlapping calls, and, as parts of their own, *)
(* with one call at a time, and the loops of processAssignedQueue.  Every  *)
(* behaviour is one of a single part.                                      *)
(***************************************************************************)
EXTENDS MCJudgingQueue

CONSTANT t4

VARIABLES
    part,   \* which of them runs
    s_judgingQueue, s_scores, s_submitted, s_calls,
    l_snapshot, l_all_scores, l_judgeAssignedTeams, l_assignedTeams, l_loop, l_i,
    l_teamsAdded

(* Four teams, the code's quota of 3, and a second judge who may hold some. *)
LoopTeams == {t1, t2, t3, t4}
LoopJudgeGroup == j1 :> NoGroup @@ j2 :> GroupA
LoopTeamGroup == t1 :> GroupA @@ t2 :> GroupB @@ t3 :> GroupB @@ t4 :> GroupA
LoopKeyOrder ==
    [S \in SUBSET LoopTeams |-> SelectSeq(<<t1, t2, t3, t4>>, LAMBDA t : t \in S)]

Serial == INSTANCE JudgingQueue WITH
    Calls <- Calls, NoTeam <- NoTeam, Judges <- Judges, Teams <- Teams,
    JudgeGroup <- JudgeGroup, TeamGroup <- TeamGroup, NoGroup <- NoGroup,
    Nobody <- Nobody, KeyOrder <- KeyOrder, Quota <- Quota, MaxInFlight <- 1,
    judgingQueue <- s_judgingQueue, scores <- s_scores, submitted <- s_submitted,
    calls <- s_calls

Contract == INSTANCE QueueContract WITH judgingQueue <- s_judgingQueue, scores <- s_scores

L == INSTANCE AssignLoop WITH
    Quota <- 3, Judges <- {j1, j2}, Teams <- LoopTeams, JudgeGroup <- LoopJudgeGroup,
    TeamGroup <- LoopTeamGroup, KeyOrder <- LoopKeyOrder, Nobody <- Nobody,
    NoGroup <- NoGroup, Judge <- j1, snapshot <- l_snapshot, all_scores <- l_all_scores,
    judgeAssignedTeams <- l_judgeAssignedTeams, assignedTeams <- l_assignedTeams,
    loop <- l_loop, i <- l_i, teamsAdded <- l_teamsAdded

AssignLoopVars ==
    <<l_snapshot, l_all_scores, l_judgeAssignedTeams, l_assignedTeams, l_loop, l_i,
      l_teamsAdded>>
SerialVars == <<s_judgingQueue, s_scores, s_submitted, s_calls>>

(* The parts share nothing: one of them runs, the others stay as they are. *)
PartsInit ==
    /\ part \in {"overlapping", "serial", "assign_loop"}
    /\ Init
    /\ Serial!Init
    /\ L!LoopInit
    /\ part # "assign_loop" => l_snapshot = L!EmptyTree /\ l_all_scores = [t \in LoopTeams |-> {}]

JudgingQueueStep ==
    /\ part = "overlapping" /\ Next
    /\ UNCHANGED <<part, SerialVars, AssignLoopVars>>

SerialStep ==
    /\ part = "serial" /\ Serial!Next
    /\ UNCHANGED <<part, vars, AssignLoopVars>>

AssignLoopStep ==
    /\ part = "assign_loop" /\ L!LoopNext
    /\ UNCHANGED <<part, vars, SerialVars>>

PartsNext == JudgingQueueStep \/ SerialStep \/ AssignLoopStep

all == <<part, vars, SerialVars, AssignLoopVars>>

(* The loops are a sequential program that keeps running.  No call moves   *)
(* in that part, so CallSymmetry leaves what is checked of it alone.       *)
PartsSpec ==
    /\ PartsInit /\ [][PartsNext]_all
    /\ WF_AssignLoopVars(part = "assign_loop" /\ L!LoopNext)

-----------------------------------------------------------------------------
(* When calls do not overlap, every change that the functions make to      *)
(* judgingQueue is a top-up or a take-off of one judge's list as           *)
(* QueueContract states it, although they overwrite the whole subtree with *)
(* what they read earlier.                                                 *)
SerialCallsKeepContract == Contract!Spec

(* The loops of processAssignedQueue compute the closed form, keep the     *)
(* contract and get stuck only where the closed form says so (AssignLoop). *)
LoopsComputeClosedForm ==
    part = "assign_loop" =>
        L!SetsClosedForm /\ L!StuckOnlyWhenSpins /\ L!SetKeepsContract

(* The loops halt unless the closed form says that they spin (AssignLoop). *)
LoopHaltsUnlessSpins ==
    part = "assign_loop" /\ ~L!Spins(l_snapshot, l_all_scores, j1) ~> l_loop = "set"
=============================================================================
