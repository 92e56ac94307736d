----------------------------- MODULE Assignment -----------------------------
(***************************************************************************)
(* What functions/index.js computes from one snapshot of the database root:*)
(* processAssignedQueue (top up a judge's list of teams) and               *)
(* filterAssignedQueue (take one team off it).  A snapshot's judgingQueue  *)
(* subtree is a record                                                     *)
(*    queue         : judge |-> the teams on the judge's list, in order    *)
(*    judgeAssigned : team  |-> the judge it was last given to, or Nobody  *)
(* The database stores no empty list and no empty object, and the code     *)
(* reads a missing one as empty, so both functions are total here.         *)
(* The scores subtree is team |-> the judges with a sheet for that team.   *)
(*                                                                         *)
(* A team's key is its teamId (the app reads teams/<teamId>), so the       *)
(* guard "currTeamId !== undefined" always holds.                          *)
(***************************************************************************)
EXTENDS Integers, Sequences, FiniteSets, Functions

CONSTANTS
    Judges,      \* registered judges, by phone number
    Teams,       \* team ids
    Nobody,      \* no judge
    Quota,       \* the 3 of "3 - judgeAssignedTeams.length"
    NoGroup,     \* the affinity group "None"
    JudgeGroup,  \* judge |-> affinity group
    TeamGroup,   \* team |-> affinity group
    KeyOrder     \* the order in which a set of teams is listed, see below

ASSUME QuotaAssumption == Quota \in Nat
ASSUME NobodyAssumption == Nobody \notin Judges

(***************************************************************************)
(* "for (const teamID in teams)" visits the keys in ascending order, and   *)
(* sort(compare) then sorts records that have no "scores" field: compare   *)
(* returns 0 for every pair.  Node 8 keeps the order of up to 10 equal     *)
(* elements and permutes longer arrays, always the same way, so all that   *)
(* is known of the order is that it lists each team of the set once.       *)
(***************************************************************************)
ListsOnce(s, S) ==
    /\ s \in Seq(S)
    /\ IsInjective(s)
    /\ \A t \in S : \E i \in 1..Len(s) : s[i] = t

ASSUME KeyOrderAssumption == \A S \in SUBSET Teams : ListsOnce(KeyOrder[S], S)

Tree == [queue : [Judges -> Seq(Teams)],
         judgeAssigned : [Teams -> Judges \cup {Nobody}]]

EmptyTree == [queue |-> [j \in Judges |-> <<>>],
              judgeAssigned |-> [t \in Teams |-> Nobody]]

-----------------------------------------------------------------------------
(* Which teams may be offered to a judge, lines 33-52.                     *)

isPreferredTeam(j, t) == JudgeGroup[j] = NoGroup \/ TeamGroup[t] = JudgeGroup[j]

(* Seeded defect: score sheets are not looked at.                          *)
isScoredNever(scores, j, t) == FALSE

isScored(scores, j, t) == j \in scores[t]

(* Seeded defect: the affinity group is not looked at.                     *)
RemainingAnyGroup(scores, j) == {t \in Teams : ~isScored(scores, j, t)}

Remaining(scores, j) ==
    {t \in Teams : isPreferredTeam(j, t) /\ ~isScored(scores, j, t)}

preferredTeams(scores, j) == KeyOrder[Remaining(scores, j)]

(* Seeded defect: teams that somebody has are not filtered out.            *)
filteredTeamsAll(tree, scores, j) == KeyOrder[Remaining(scores, j)]

filteredTeams(tree, scores, j) ==
    KeyOrder[{t \in Remaining(scores, j) : tree.judgeAssigned[t] = Nobody}]

-----------------------------------------------------------------------------
(* The two while loops, lines 57-89.  Each walks its list from the front   *)
(* while there is room, and moves on only past a team it pushes: at a team *)
(* that is on the judge's list already it tests the same team forever.     *)

Upto(s, n) == SubSeq(s, 1, IF n < Len(s) THEN n ELSE Len(s))

(* Seeded defect: one team too many.                                       *)
teamsToAddOffByOne(tree, j) ==
    IF Len(tree.queue[j]) <= Quota THEN Quota + 1 - Len(tree.queue[j]) ELSE 0

teamsToAdd(tree, j) ==
    IF Len(tree.queue[j]) < Quota THEN Quota - Len(tree.queue[j]) ELSE 0

FirstPicks(tree, scores, j) ==
    Upto(filteredTeams(tree, scores, j), teamsToAdd(tree, j))

(* Seeded defect: the second loop is missing.                              *)
SecondPicksNone(tree, scores, j) == <<>>

SecondPicks(tree, scores, j) ==
    Upto(preferredTeams(scores, j),
         teamsToAdd(tree, j) - Len(FirstPicks(tree, scores, j)))

(* Seeded defect: the loops push without asking what is on the list.       *)
SpinsNever(tree, scores, j) == FALSE

(* The call reaches a team that is on the judge's list by then.            *)
Spins(tree, scores, j) ==
    LET first == Range(FirstPicks(tree, scores, j))
        second == Range(SecondPicks(tree, scores, j))
        held == Range(tree.queue[j])
    IN  first \cap held # {} \/ second \cap (held \cup first) # {}

Picks(tree, scores, j) ==
    FirstPicks(tree, scores, j) \o SecondPicks(tree, scores, j)

(* Seeded defect: new teams go to the front of the list.                   *)
processUnshifts(tree, scores, j) ==
    [queue |-> [tree.queue EXCEPT ![j] = Picks(tree, scores, j) \o @],
     judgeAssigned |->
        [t \in Teams |-> IF t \in Range(Picks(tree, scores, j))
                         THEN j ELSE tree.judgeAssigned[t]]]

(* The judgingQueue that the call sets when it does not spin.              *)
processAssignedQueue(tree, scores, j) ==
    [queue |-> [tree.queue EXCEPT ![j] = @ \o Picks(tree, scores, j)],
     judgeAssigned |->
        [t \in Teams |-> IF t \in Range(Picks(tree, scores, j))
                         THEN j ELSE tree.judgeAssigned[t]]]

-----------------------------------------------------------------------------
(* filterAssignedQueue, lines 117-131.  A list holds a team at most once   *)
(* (NoRepeats in JudgingQueue), so filtering a team out of it closes the   *)
(* gap at its one position.                                                *)

Without(s, t) ==
    IF t \notin Range(s) THEN s
    ELSE LET at == CHOOSE i \in 1..Len(s) : s[i] = t
         IN  [k \in 1..(Len(s) - 1) |-> IF k < at THEN s[k] ELSE s[k + 1]]

(* Seeded defects: the entry is not deleted; the list is not filtered.     *)
filterKeepsEntry(tree, j, t) ==
    [tree EXCEPT !.queue[j] = Without(@, t)]

filterKeepsList(tree, j, t) ==
    [tree EXCEPT !.judgeAssigned[t] = Nobody]

(* "delete assignedTeams[teamId]" does not look whose entry it deletes.    *)
filterAssignedQueue(tree, j, t) ==
    [queue |-> [tree.queue EXCEPT ![j] = Without(@, t)],
     judgeAssigned |-> [tree.judgeAssigned EXCEPT ![t] = Nobody]]

-----------------------------------------------------------------------------
(* What a top-up and a take-off promise of the new subtree (QueueContract).*)

Extends(new, old) ==
    /\ Len(old) <= Len(new)
    /\ \A i \in 1..Len(old) : new[i] = old[i]

(* The teams that new has after old, when old is a prefix of new.          *)
Added(new, old) == {new[i] : i \in (Len(old) + 1)..Len(new)}

TopUpOf(new, old, sheets, j) ==
    LET added == Added(new.queue[j], old.queue[j])
        list == Range(new.queue[j])
        left == Remaining(sheets, j)
    IN  /\ Extends(new.queue[j], old.queue[j])
        /\ IsInjective(new.queue[j])
        /\ Len(new.queue[j]) <= Quota
        /\ Len(new.queue[j]) = Quota \/ left \subseteq list
        /\ \A t \in added : isPreferredTeam(j, t)
        /\ (\E t \in added : old.judgeAssigned[t] # Nobody) =>
               \A t \in left : old.judgeAssigned[t] = Nobody => t \in list
        /\ \A k \in Judges \ {j} : new.queue[k] = old.queue[k]
        /\ \A t \in Teams : new.judgeAssigned[t] =
               IF t \in added THEN j ELSE old.judgeAssigned[t]

TakeOffOf(new, old, j, t) ==
    /\ Range(new.queue[j]) = Range(old.queue[j]) \ {t}
    /\ \A k \in Judges \ {j} : new.queue[k] = old.queue[k]
    /\ new.judgeAssigned[t] = Nobody
    /\ \A u \in Teams \ {t} : new.judgeAssigned[u] = old.judgeAssigned[u]
=============================================================================
