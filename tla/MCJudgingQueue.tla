--------------------------- MODULE MCJudgingQueue ---------------------------
(* Small instances of JudgingQueue: two judges, three teams.               *)
EXTENDS JudgingQueue, TLC

CONSTANTS j1, j2, t1, t2, t3, GroupA, GroupB

MCJudges == {j1, j2}
MCTeams == {t1, t2, t3}

(* j1 judges group A (t1 and t2), j2 every team.                           *)
MCJudgeGroup == j1 :> GroupA @@ j2 :> NoGroup
MCTeamGroup == t1 :> GroupA @@ t2 :> GroupA @@ t3 :> GroupB

(* Both judges judge every team.                                           *)
OpenJudgeGroup == [j \in Judges |-> NoGroup]

(* Ascending keys.                                                         *)
MCKeyOrder ==
    [S \in SUBSET Teams |-> SelectSeq(<<t1, t2, t3>>, LAMBDA t : t \in S)]

CallSymmetry == Permutations(Calls)

(* On lists without repetition Without is JavaScript's filter.             *)
ASSUME \A s \in UNION {Injection(1..n, Teams) : n \in 0..Cardinality(Teams)} :
          \A t \in Teams : Without(s, t) = SelectSeq(s, LAMBDA u : u # t)
=============================================================================
