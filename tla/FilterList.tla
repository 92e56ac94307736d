----------------------------- MODULE FilterList -----------------------------
(***************************************************************************)
(* FilterTeamsVC: a list of teams with a search field, opened for all      *)
(* teams (one read) or for the judged ones (an observer of the judge's     *)
(* entries and one read per entry, as in TeamList).  The table keeps       *)
(* showing the rows of its last reload while the arrays change.            *)
(*                                                                         *)
(* What a row opens once the gates are passed is in Scoring.               *)
(***************************************************************************)
EXTENDS Sift, FiniteSets, Functions, SequencesExt

CONSTANTS
    Teams,
    Texts,       \* search texts, the empty one included
    NoText,
    Matching,    \* text |-> the teams whose name contains it
    MaxEntries,  \* bound: entries of the judge, one for every submission
    MaxTexts     \* bound: changes of the search text

TextsAssumption ==
    /\ IsFiniteSet(Teams)
    /\ NoText \in Texts
    /\ Matching \in [Texts -> SUBSET Teams]
    /\ Matching[NoText] = Teams
    /\ MaxEntries \in Nat /\ MaxTexts \in Nat

VARIABLES
    filterVCType,   \* "AllTeams" or "JudgedTeams"
    entries,        \* judgedTeams/<phone>: the team of each entry
    events,         \* values on their way to the observer
    fetches,        \* team |-> reads of teams/<id> not answered yet
    allRead,        \* the read of all teams has been answered
    teams, filteredTeams,
    shown,          \* filteredTeams as of the last reloadData
    searchText,
    opened,         \* rows tapped: the team opened, the team shown
    crashed,        \* the array was indexed out of range
    texts,          \* changes of the text so far
    dropped         \* teams that the current round of reads dropped: a record
                    \* did not decode (recorded for the properties)

vars == <<filterVCType, entries, events, fetches, allRead, teams, filteredTeams,
          shown, searchText, opened, crashed, texts, dropped>>

TypeOK ==
    /\ filterVCType \in {"AllTeams", "JudgedTeams"}
    /\ entries \in Seq(Teams)
    /\ events \in Seq(Seq(Teams))
    /\ fetches \in [Teams -> Nat]
    /\ allRead \in BOOLEAN
    /\ teams \in Seq(Teams)
    /\ filteredTeams \in Seq(Teams)
    /\ shown \in Seq(Teams)
    /\ searchText \in Texts
    /\ opened \in SUBSET (Teams \X Teams)
    /\ crashed \in BOOLEAN
    /\ texts \in 0..MaxTexts
    /\ dropped \in SUBSET Teams

(* viewDidLoad: fetchTeamsList asks for all teams or registers the         *)
(* observer, which fires with the entries there are.                       *)
Init ==
    /\ filterVCType \in {"AllTeams", "JudgedTeams"}
    /\ entries \in {<<>>} \cup {<<t>> : t \in Teams}
    /\ events = IF filterVCType = "JudgedTeams" THEN <<entries>> ELSE <<>>
    /\ fetches = [t \in Teams |-> 0]
    /\ allRead = FALSE
    /\ teams = <<>> /\ filteredTeams = <<>> /\ shown = <<>>
    /\ searchText = NoText
    /\ opened = {}
    /\ crashed = FALSE
    /\ texts = 0
    /\ dropped = {}

-----------------------------------------------------------------------------
(* A submission on the form that a row of this list opened: a new entry,   *)
(* also for a team that has one already.                                   *)
Submitted(t) ==
    /\ Len(entries) < MaxEntries
    /\ entries' = Append(entries, t)
    /\ events' = IF filterVCType = "JudgedTeams" THEN Append(events, entries') ELSE events
    /\ UNCHANGED <<filterVCType, fetches, allRead, teams, filteredTeams, shown,
                   searchText, opened, crashed, texts, dropped>>

Occurrences(s, t) == Cardinality({i \in 1..Len(s) : s[i] = t})

(* Seeded defect: teams that are in the array already are not asked for.   *)
JudgedEventNewOnly ==
    /\ ~crashed
    /\ events # <<>>
    /\ events' = Tail(events)
    /\ teams' = <<>> /\ filteredTeams' = <<>>
    /\ fetches' = [t \in Teams |-> IF t \in Range(teams) THEN fetches[t]
                                   ELSE fetches[t] + Occurrences(Head(events), t)]
    /\ dropped' = {}
    /\ UNCHANGED <<filterVCType, entries, allRead, shown, searchText, opened, crashed, texts>>

(* The observer: empty both arrays, do not reload, read each entry's team. *)
JudgedEvent ==
    /\ ~crashed
    /\ events # <<>>
    /\ events' = Tail(events)
    /\ teams' = <<>> /\ filteredTeams' = <<>>
    /\ fetches' = [t \in Teams |-> fetches[t] + Occurrences(Head(events), t)]
    /\ dropped' = {}
    /\ UNCHANGED <<filterVCType, entries, allRead, shown, searchText, opened, crashed, texts>>

(* Seeded defect: one answer of several is appended as their number.       *)
TeamReadCount(t) ==
    /\ ~crashed
    /\ fetches[t] > 0
    /\ teams' = Append(teams, fetches[t])
    /\ filteredTeams' = Append(filteredTeams, fetches[t])
    /\ shown' = filteredTeams'
    /\ fetches' = [fetches EXCEPT ![t] = 0]
    /\ UNCHANGED <<filterVCType, entries, events, allRead, searchText, opened, crashed, texts,
                   dropped>>

(***************************************************************************)
(* The reads of one team are answered together (they share a listener).    *)
(* Each appends to both arrays, whatever the search text is.  Entries are  *)
(* visited in no particular order, so answers come in any order.           *)
(***************************************************************************)
TeamRead(t) ==
    /\ ~crashed
    /\ fetches[t] > 0
    /\ LET copies == [i \in 1..fetches[t] |-> t]
       IN  teams' = teams \o copies /\ filteredTeams' = filteredTeams \o copies
    /\ shown' = filteredTeams'
    /\ fetches' = [fetches EXCEPT ![t] = 0]
    /\ UNCHANGED <<filterVCType, entries, events, allRead, searchText, opened, crashed, texts,
                   dropped>>

(* The team's record does not decode: the error is printed, each of the    *)
(* reads appends nothing, and the table is not reloaded.                   *)
TeamUndecodable(t) ==
    /\ ~crashed
    /\ fetches[t] > 0
    /\ fetches' = [fetches EXCEPT ![t] = 0]
    /\ dropped' = dropped \cup {t}
    /\ UNCHANGED <<filterVCType, entries, events, allRead, teams, filteredTeams, shown,
                   searchText, opened, crashed, texts>>

(* All teams, in the order of a dictionary; the search text is not used.   *)
AllTeamsRead(order) ==
    /\ ~crashed
    /\ filterVCType = "AllTeams" /\ ~allRead
    /\ allRead' = TRUE
    /\ teams' = order /\ filteredTeams' = order /\ shown' = order
    /\ UNCHANGED <<filterVCType, entries, events, fetches, searchText, opened, crashed, texts,
                   dropped>>

(* The teams are decoded as one dictionary: a single record that does not  *)
(* decode, or a key that is no number, costs all of them.                  *)
AllTeamsUndecodable ==
    /\ ~crashed
    /\ filterVCType = "AllTeams" /\ ~allRead
    /\ allRead' = TRUE
    /\ dropped' = Teams
    /\ UNCHANGED <<filterVCType, entries, events, fetches, teams, filteredTeams, shown,
                   searchText, opened, crashed, texts>>

(* Seeded defect: what was filtered before is filtered further.            *)
filterTeamsFurther(text) ==
    IF text = NoText THEN teams
    ELSE Sifted(filteredTeams, Matching[text])

filterTeams(text) ==
    IF text = NoText THEN teams
    ELSE Sifted(teams, Matching[text])

textDidChange(text) ==
    /\ ~crashed
    /\ texts < MaxTexts /\ texts' = texts + 1
    /\ text # searchText
    /\ searchText' = text
    /\ filteredTeams' = filterTeams(text)
    /\ shown' = filteredTeams'
    /\ UNCHANGED <<filterVCType, entries, events, fetches, allRead, teams, opened, crashed,
                   dropped>>

(* Seeded defect: the row is looked up in the unfiltered array.            *)
SelectRowUnfiltered(row) ==
    /\ ~crashed
    /\ row \in 1..Len(shown)
    /\ IF row > Len(filteredTeams)
       THEN crashed' = TRUE /\ UNCHANGED opened
       ELSE UNCHANGED crashed /\ opened' = opened \cup {<<teams[row], shown[row]>>}
    /\ UNCHANGED <<filterVCType, entries, events, fetches, allRead, teams, filteredTeams,
                   shown, searchText, texts, dropped>>

(* didSelectRowAt for a row of the table as shown.                         *)
SelectRow(row) ==
    /\ ~crashed
    /\ row \in 1..Len(shown)
    /\ IF row > Len(filteredTeams)
       THEN crashed' = TRUE /\ UNCHANGED opened
       ELSE UNCHANGED crashed /\ opened' = opened \cup {<<filteredTeams[row], shown[row]>>}
    /\ UNCHANGED <<filterVCType, entries, events, fetches, allRead, teams, filteredTeams,
                   shown, searchText, texts, dropped>>

Next ==
    \/ \E t \in Teams : Submitted(t) \/ TeamRead(t) \/ TeamUndecodable(t)
    \/ JudgedEvent
    \/ AllTeamsUndecodable
    \/ \E order \in SetToSeqs(Teams) : AllTeamsRead(order)
    \/ \E text \in Texts : textDidChange(text)
    \/ \E row \in 1..Len(shown) : SelectRow(row)

Spec == Init /\ [][Next]_vars

(* The database connection delivers events and answers reads.              *)
FairSpec ==
    /\ Spec
    /\ WF_vars(JudgedEvent)
    /\ \A t \in Teams : WF_vars(TeamRead(t) \/ TeamUndecodable(t))
    /\ WF_vars(AllTeamsUndecodable \/ \E order \in SetToSeqs(Teams) : AllTeamsRead(order))

-----------------------------------------------------------------------------
(* The search never hides a team that matches it, in whatever order the    *)
(* text changes, events empty the arrays and answers arrive.               *)
MatchesListed ==
    \A t \in Range(teams) \cap Matching[searchText] : t \in Range(filteredTeams)

(* No judged team gets lost between two overlapping rounds of reads: it is *)
(* in the array, on its way or answered since with a record that does not  *)
(* decode.                                                                 *)
NoEntryForgotten ==
    (filterVCType = "JudgedTeams" /\ events = <<>>) =>
        \A t \in Range(entries) : t \in Range(teams) \/ fetches[t] > 0 \/ t \in dropped

(* A tapped row opens the team it shows, although the table is not         *)
(* reloaded whenever the array changes.                                    *)
TapOpensShownTeam == \A pair \in opened : pair[1] = pair[2]

(* When the judge stops typing and submitting, every team that the list is *)
(* about and the text matches comes to be on the screen, unless its record *)
(* (for the list of all teams: some record) did not decode.                *)
MatchesAreShown ==
    LET wanted == (IF filterVCType = "AllTeams" THEN Teams ELSE Range(entries)) \ dropped
    IN  <>[](crashed \/ wanted \cap Matching[searchText] \subseteq Range(shown))
=============================================================================
