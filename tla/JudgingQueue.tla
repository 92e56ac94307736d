---------------------------- MODULE JudgingQueue ----------------------------
(***************************************************************************)
(* The two callable functions of functions/index.js, assignTeams and       *)
(* removeAssignedTeam, running concurrently on the database, together with *)
(* the client steps that start them (TeamListVC.fetchTeamData and          *)
(* ScoringVC.submitScores).                                                *)
(*                                                                         *)
(* A call reads the root, computes a new judgingQueue subtree from that    *)
(* snapshot and sets the whole subtree; nothing stops another call from    *)
(* doing the same in between.  A removal is two such rounds: filter and    *)
(* set, then read again and top up.  Both handlers return before any of    *)
(* this has happened, so the platform may stop a call at any point.        *)
(***************************************************************************)
EXTENDS Assignment

CONSTANTS
    Calls,        \* invocations ever made: a bound on the behaviour
    MaxInFlight,  \* invocations under way at once: a bound on concurrency
    NoTeam        \* the team of an assignTeams call

ASSUME NoTeamAssumption == NoTeam \notin Teams

VARIABLES
    judgingQueue, \* the judgingQueue subtree of the database
    scores,       \* the scores subtree: team |-> judges with a stored sheet
    submitted,    \* <<team, judge>>: score writes a client has issued and
                  \* the database has not stored
    calls         \* call |-> its progress

vars == <<judgingQueue, scores, submitted, calls>>

Reading == {"readRemove", "readAssign"}
Writing == {"writeRemove", "writeAssign"}
InFlight == Reading \cup Writing
Ended == {"done", "lost", "spin"}

(* out is the subtree a writing call is about to set.                      *)
Call == [pc : {"idle"} \cup InFlight \cup Ended,
         judge : Judges \cup {Nobody},
         team : Teams \cup {NoTeam},
         out : Tree]

TypeOK ==
    /\ judgingQueue \in Tree
    /\ scores \in [Teams -> SUBSET Judges]
    /\ submitted \in SUBSET (Teams \X Judges)
    /\ calls \in [Calls -> Call]

IdleCall == [pc |-> "idle", judge |-> Nobody, team |-> NoTeam, out |-> EmptyTree]

Init ==
    /\ judgingQueue = EmptyTree
    /\ scores = [t \in Teams |-> {}]
    /\ submitted = {}
    /\ calls = [c \in Calls |-> IdleCall]

-----------------------------------------------------------------------------
CanStart(c) ==
    /\ calls[c].pc = "idle"
    /\ Cardinality({d \in Calls : calls[d].pc \in InFlight}) < MaxInFlight

(* TeamListVC.fetchTeamData calls assignTeams for the judge.               *)
assignTeams(c, j) ==
    /\ CanStart(c)
    /\ calls' = [calls EXCEPT ![c] =
                    [pc |-> "readAssign", judge |-> j, team |-> NoTeam, out |-> EmptyTree]]
    /\ UNCHANGED <<judgingQueue, scores, submitted>>

(* Seeded defect: the sheet is filed under the judge, then the team.       *)
submitScoresSwapped(c, j, t) ==
    /\ CanStart(c)
    /\ submitted' = submitted \cup {<<j, t>>}
    /\ calls' = [calls EXCEPT ![c] =
                    [pc |-> "readRemove", judge |-> j, team |-> t, out |-> EmptyTree]]
    /\ UNCHANGED <<judgingQueue, scores>>

(***************************************************************************)
(* ScoringVC.submitScores issues the score write and calls                 *)
(* removeAssignedTeam.  The write travels on the database connection and   *)
(* the call on its own HTTPS request: either may arrive first.  Any team   *)
(* can be opened from the search list, so t need not be on j's list.       *)
(***************************************************************************)
submitScores(c, j, t) ==
    /\ CanStart(c)
    /\ submitted' = submitted \cup {<<t, j>>}
    /\ calls' = [calls EXCEPT ![c] =
                    [pc |-> "readRemove", judge |-> j, team |-> t, out |-> EmptyTree]]
    /\ UNCHANGED <<judgingQueue, scores>>

(* The database stores a score sheet.                                      *)
ScoreStored(t, j) ==
    /\ <<t, j>> \in submitted
    /\ submitted' = submitted \ {<<t, j>>}
    /\ scores' = [scores EXCEPT ![t] = @ \cup {j}]
    /\ UNCHANGED <<judgingQueue, calls>>

-----------------------------------------------------------------------------
(* The root snapshot arrives: processAssignedQueue runs on it to the set.  *)
ReadToAssign(c) ==
    LET j == calls[c].judge IN
    /\ calls[c].pc = "readAssign"
    /\ ~Spins(judgingQueue, scores, j)
    /\ calls' = [calls EXCEPT
                    ![c].pc = "writeAssign",
                    ![c].out = processAssignedQueue(judgingQueue, scores, j)]
    /\ UNCHANGED <<judgingQueue, scores, submitted>>

(* The same, when one of its loops never moves on.                         *)
ReadAndSpin(c) ==
    /\ calls[c].pc = "readAssign"
    /\ Spins(judgingQueue, scores, calls[c].judge)
    /\ calls' = [calls EXCEPT ![c].pc = "spin"]
    /\ UNCHANGED <<judgingQueue, scores, submitted>>

(* The root snapshot arrives: filterAssignedQueue runs on it to the set.   *)
ReadToRemove(c) ==
    /\ calls[c].pc = "readRemove"
    /\ calls' = [calls EXCEPT
                    ![c].pc = "writeRemove",
                    ![c].out = filterAssignedQueue(judgingQueue, calls[c].judge, calls[c].team)]
    /\ UNCHANGED <<judgingQueue, scores, submitted>>

(* The database applies the set of the whole subtree.                      *)
WriteAssignment(c) ==
    /\ calls[c].pc = "writeAssign"
    /\ judgingQueue' = calls[c].out
    /\ calls' = [calls EXCEPT ![c].pc = "done", ![c].out = EmptyTree]
    /\ UNCHANGED <<scores, submitted>>

(* ... and on its acknowledgement the removal goes on to reassignTeam.     *)
WriteRemoval(c) ==
    /\ calls[c].pc = "writeRemove"
    /\ judgingQueue' = calls[c].out
    /\ calls' = [calls EXCEPT ![c].pc = "readAssign", ![c].out = EmptyTree]
    /\ UNCHANGED <<scores, submitted>>

(***************************************************************************)
(* A call ends early: the request never arrives (the client only prints    *)
(* the error), a read or a set fails (displayError and the catches return),*)
(* or the platform stops an instance whose handler has returned.           *)
(***************************************************************************)
Abandon(c) ==
    /\ calls[c].pc \in InFlight
    /\ calls' = [calls EXCEPT ![c].pc = "lost", ![c].out = EmptyTree]
    /\ UNCHANGED <<judgingQueue, scores, submitted>>

CallStep(c) ==
    \/ ReadToAssign(c) \/ ReadAndSpin(c) \/ ReadToRemove(c)
    \/ WriteAssignment(c) \/ WriteRemoval(c)

Next ==
    \/ \E c \in Calls, j \in Judges : assignTeams(c, j)
    \/ \E c \in Calls, j \in Judges, t \in Teams : submitScores(c, j, t)
    \/ \E t \in Teams, j \in Judges : ScoreStored(t, j)
    \/ \E c \in Calls : CallStep(c) \/ Abandon(c)

Spec == Init /\ [][Next]_vars

(* A call under way keeps running until it ends or is stopped.             *)
FairSpec == Spec /\ \A c \in Calls : WF_vars(CallStep(c))

-----------------------------------------------------------------------------
(* Safety.  The parts are stated for any subtree: the proofs need them for *)
(* the subtrees that calls are about to set as well.                       *)

QuotaIn(tree) == \A j \in Judges : Len(tree.queue[j]) <= Quota

NoRepeatsIn(tree) == \A j \in Judges : IsInjective(tree.queue[j])

AffinityIn(tree) ==
    \A j \in Judges : \A t \in Range(tree.queue[j]) : isPreferredTeam(j, t)

OwnerHoldsIn(tree) ==
    \A t \in Teams : tree.judgeAssigned[t] # Nobody
                        => t \in Range(tree.queue[tree.judgeAssigned[t]])

ForeignRemoval(cs, j, t) == \E c \in Calls : cs[c].team = t /\ cs[c].judge # j

OrphansIn(tree, cs) ==
    \A j \in Judges : \A t \in Range(tree.queue[j]) :
        tree.judgeAssigned[t] = Nobody => ForeignRemoval(cs, j, t)

(* No judge's list exceeds the quota of 3, however calls overlap.          *)
QuotaRespected == QuotaIn(judgingQueue)

(* No list shows a team twice, although a removal re-adds teams to a list  *)
(* that other calls overwrite.                                             *)
NoRepeats == NoRepeatsIn(judgingQueue)

(* A judge is only ever offered teams of the judge's affinity group (any   *)
(* team, for a judge of group "None").                                     *)
AffinityRespected == AffinityIn(judgingQueue)

(* A team marked as given to a judge in judgeAssigned is on that judge's   *)
(* list: a stale write never splits the index from the lists, because it   *)
(* replaces both.  Were it otherwise the team would be offered to nobody.  *)
OwnerHoldsTeam == OwnerHoldsIn(judgingQueue)

(* A team that is on a judge's list and is marked as given to nobody (the  *)
(* state in which the judge's next assignTeams spins on it) is always the  *)
(* doing of ANOTHER judge's removeAssignedTeam, whose "delete              *)
(* assignedTeams[teamId]" does not look at the owner.                      *)
OrphanNeedsForeignRemoval == OrphansIn(judgingQueue, calls)

(* Overwriting whole subtrees never breaks a list: it stays within the     *)
(* quota, free of repetition and in the judge's group.                     *)
ListsAreLegal == QuotaRespected /\ NoRepeats /\ AffinityRespected

(* Lists and judgeAssigned agree, but for what another judge's removal     *)
(* has taken out of judgeAssigned.                                         *)
OwnersAgree == OwnerHoldsTeam /\ OrphanNeedsForeignRemoval

(* The list an assignment is about to set is full or has every team the    *)
(* judge has left to score: no judge is left short while there is work.    *)
NobodyLeftShort ==
    \A c \in Calls : calls[c].pc = "writeAssign" =>
        LET list == calls[c].out.queue[calls[c].judge] IN
        \/ Len(list) = Quota
        \/ Remaining(scores, calls[c].judge) \subseteq Range(list)

(* A removal can put the very team it has just taken off back on the list  *)
(* (reassignTeam takes any unscored team nobody has), but only while the   *)
(* score write that came with it is still on its way.                      *)
ReturnNeedsLateScore ==
    [][\A c \in Calls :
          LET j == calls[c].judge
              t == calls[c].team
          IN  /\ calls[c].pc = "readAssign" /\ calls'[c].pc = "writeAssign"
              /\ t \in Teams
              /\ t \in Range(calls'[c].out.queue[j]) \ Range(judgingQueue.queue[j])
              => <<t, j>> \in submitted]_vars

-----------------------------------------------------------------------------
(* What the program says of itself and its calls do not keep up.           *)

(* A team comes (back) onto a judge's list only through a call made for    *)
(* that judge: "Removed teamId ... from judgeId ... queue" stays true.     *)
OnlyOwnCallsAddTeams ==
    [][\A j \in Judges :
          Range(judgingQueue'.queue[j]) \subseteq Range(judgingQueue.queue[j])
          \/ \E c \in Calls : /\ calls[c].pc = "writeAssign"
                              /\ calls'[c].pc = "done"
                              /\ calls[c].judge = j]_vars

(* "Getting a curated list of teams": a call that nobody stops returns.    *)
CallsReturn ==
    \A c \in Calls : calls[c].pc \in InFlight ~> calls[c].pc \in {"done", "lost"}

(* "ensuring all teams get scored equal number of times": of the teams     *)
(* nobody has, an assignment picks ones with the fewest score sheets.      *)
LeastScoredFirst ==
    [][\A c \in Calls :
          (calls[c].pc = "readAssign" /\ calls'[c].pc = "writeAssign") =>
              LET j == calls[c].judge
                  picked == Range(FirstPicks(judgingQueue, scores, j))
                  free == Range(filteredTeams(judgingQueue, scores, j))
              IN  \A t \in picked, u \in free \ picked :
                      Cardinality(scores[t]) <= Cardinality(scores[u])]_vars
=============================================================================
