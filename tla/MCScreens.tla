----------------------------- MODULE MCScreens ------------------------------
(***************************************************************************)
(* The screens of the app but for the score sheet: signing in, the two     *)
(* lists of teams, the messages; and the connection below them, over which *)
(* a device writes and observes.  The parts share nothing, and every       *)
(* behaviour is one of a single part.                                      *)
(***************************************************************************)
EXTENDS Session, SequencesExt, TLC

CONSTANTS
    Teams, Lists, NoLogo, MaxChanges,                   \* TeamList, and the teams of FilterList
    Texts, NoText, Matching, MaxEntries, MaxTexts,      \* FilterList
    Keys, Dates, Garbled, Malformed, MaxPosts,          \* Notifications
    MaxPuts, MaxListens, MaxEvents                      \* Connection

CONSTANTS p1, p2, t1, t2, t3, textA, textB   \* values for the model checker

VARIABLES
    part,   \* which of them runs
    f_filterVCType, f_entries, f_events, f_fetches, f_allRead, f_teams, f_filteredTeams,
    f_shown, f_searchText, f_opened, f_crashed, f_texts, f_dropped,
    n_messages, n_events, n_messagesData, n_crashed, n_changes,
    t_queue, t_events, t_fetches, t_filteredTeams, t_shown, t_images, t_logos,
    t_downloads, t_allowSubmissions, t_opened, t_crashed, t_changes, t_dropped,
    c_state, c_retry, c_attempt, c_fetches, c_interrupted, c_token, c_listens, c_unacked,
    c_puts, c_held, c_answers, c_cache, c_up, c_down, c_server, c_used

(* Two people, and texts in each of the formats that are accepted: an      *)
(* empty field is not.                                                     *)
MCPeople == {p1, p2}
MCNumbers == {[key |-> p1, format |-> "bare"], [key |-> p2, format |-> "plus"],
              [key |-> p2, format |-> "separated"]}

(* Three teams for the search; lists of two that overlap in other          *)
(* positions.                                                              *)
MCTeams == {t1, t2, t3}
MCLists == {<<>>, <<t1, t2>>, <<t2>>}

MCTexts == {NoText, textA, textB}
MCMatching == NoText :> MCTeams @@ textA :> {t1, t2} @@ textB :> {t2, t3}

T == INSTANCE TeamList WITH
    queue <- t_queue, events <- t_events, fetches <- t_fetches, filteredTeams <-
    t_filteredTeams, shown <- t_shown, images <- t_images, logos <- t_logos,
    downloads <- t_downloads, allowSubmissions <- t_allowSubmissions, opened <-
    t_opened, crashed <- t_crashed, changes <- t_changes, dropped <- t_dropped

F == INSTANCE FilterList WITH
    filterVCType <- f_filterVCType,
    entries <- f_entries, events <- f_events, fetches <- f_fetches,
    allRead <- f_allRead, teams <- f_teams, filteredTeams <- f_filteredTeams,
    shown <- f_shown, searchText <- f_searchText, opened <- f_opened,
    crashed <- f_crashed, texts <- f_texts, dropped <- f_dropped

N == INSTANCE Notifications WITH
    MaxChanges <- MaxPosts, messages <- n_messages, events <- n_events,
    messagesData <- n_messagesData, crashed <- n_crashed, changes <- n_changes

C == INSTANCE Connection WITH
    connectionState <- c_state,
    scheduledRetry <- c_retry, currentFetchTokenAttempt <- c_attempt, fetches <- c_fetches,
    interrupted <- c_interrupted, authToken <- c_token, listens <- c_listens,
    unackedListensCount <- c_unacked, outstandingPuts <- c_puts, putsToAck <- c_held,
    answers <- c_answers, cache <- c_cache, up <- c_up, down <- c_down, server <- c_server,
    used <- c_used

ASSUME ScreensParameters ==
    T!ListsAssumption /\ F!TextsAssumption /\ N!DatesAssumption /\ C!ConnectionAssumption

TeamListVars ==
    <<t_queue, t_events, t_fetches, t_filteredTeams, t_shown, t_images, t_logos,
    t_downloads, t_allowSubmissions, t_opened, t_crashed, t_changes, t_dropped>>
FilterListVars ==
    <<f_filterVCType, f_entries, f_events, f_fetches, f_allRead, f_teams,
      f_filteredTeams, f_shown, f_searchText, f_opened, f_crashed, f_texts, f_dropped>>
NotificationVars == <<n_messages, n_events, n_messagesData, n_crashed, n_changes>>
ConnectionVars ==
    <<c_state, c_retry, c_attempt, c_fetches, c_interrupted, c_token, c_listens, c_unacked,
      c_puts, c_held, c_answers, c_cache, c_up, c_down, c_server, c_used>>

(* The parts share nothing: one of them runs, the others stay as they are. *)
PartsInit ==
    /\ part \in {"session", "team_list", "filter_list", "notifications", "connection"}
    /\ Init
    /\ part # "session" => registered = {}
    /\ T!Init
    /\ part # "team_list" => t_queue = <<>>
    /\ F!Init
    /\ part # "filter_list" => f_filterVCType = "JudgedTeams" /\ f_entries = <<>>
    /\ N!Init
    /\ part # "notifications" => n_messages = <<>>
    /\ C!Init

SessionStep ==
    /\ part = "session" /\ Next
    /\ UNCHANGED <<part, TeamListVars, FilterListVars, NotificationVars, ConnectionVars>>

TeamListStep ==
    /\ part = "team_list" /\ T!Next
    /\ UNCHANGED <<part, vars, FilterListVars, NotificationVars, ConnectionVars>>

FilterListStep ==
    /\ part = "filter_list" /\ F!Next
    /\ UNCHANGED <<part, vars, TeamListVars, NotificationVars, ConnectionVars>>

NotificationStep ==
    /\ part = "notifications" /\ N!Next
    /\ UNCHANGED <<part, vars, TeamListVars, FilterListVars, ConnectionVars>>

ConnectionStep ==
    /\ part = "connection" /\ C!Next
    /\ UNCHANGED <<part, vars, TeamListVars, FilterListVars, NotificationVars>>

PartsNext ==
    SessionStep \/ TeamListStep \/ FilterListStep \/ NotificationStep \/ ConnectionStep

all == <<part, vars, TeamListVars, FilterListVars, NotificationVars, ConnectionVars>>

PartsSpec ==
    /\ PartsInit /\ [][PartsNext]_all
    /\ WF_TeamListVars(part = "team_list" /\ T!QueueEvent)
    /\ WF_TeamListVars(part = "team_list" /\ (T!TeamFetched \/ T!TeamUndecodable))
    /\ WF_FilterListVars(part = "filter_list" /\ F!JudgedEvent)
    /\ \A t \in Teams :
          WF_FilterListVars(part = "filter_list" /\ (F!TeamRead(t) \/ F!TeamUndecodable(t)))
    /\ WF_FilterListVars(part = "filter_list" /\
          (F!AllTeamsUndecodable \/ \E order \in SetToSeqs(Teams) : F!AllTeamsRead(order)))
    /\ WF_NotificationVars(part = "notifications" /\ N!MessagesEvent)
    /\ WF_ConnectionVars(part = "connection" /\ C!Connecting)
    /\ WF_ConnectionVars(part = "connection" /\ C!Receiving)
    /\ WF_ConnectionVars(part = "connection" /\ C!Serving)
    /\ WF_ConnectionVars(part = "connection" /\ C!LoadPath)

-----------------------------------------------------------------------------
(* The type invariants of the parts.                                       *)
PartsTypeOK ==
    /\ part = "session" => TypeOK
    /\ part = "team_list" => T!TypeOK
    /\ part = "filter_list" => F!TypeOK
    /\ part = "notifications" => N!TypeOK
    /\ part = "connection" => C!TypeOK

(* However rounds of reads, entries and typing overlap, no team of a list  *)
(* is lost, but for those whose record does not decode, and the search     *)
(* hides none that matches; a row that is tapped opens the team it shows   *)
(* and has the logo of that team or none; and all messages that there are  *)
(* are listed, in the order of their dates (TeamListVC, FilterTeamsVC,     *)
(* NotificationVC).                                                        *)
ListsAreTrue ==
    /\ T!NothingMissing /\ T!TapOpensShownTeam /\ T!LogoMatchesRow
    /\ F!MatchesListed /\ F!NoEntryForgotten /\ F!TapOpensShownTeam
    /\ N!NothingHeldBack /\ N!NewestFirst

(* However often the connection is lost, the writes of a device reach the  *)
(* server in their order, what their callers are told is final, and an     *)
(* observer sees no value from before a write of its own device            *)
(* (FPersistentConnection, ackPuts).                                       *)
WritesKeepOrder ==
    /\ C!OneAttempt /\ C!AppliedInOrder
    /\ C!AnswersAreFinal /\ C!AnswersInOrder /\ C!OwnWritesStayVisible

(* What is in a list and decodes comes to be on the screen, and every      *)
(* write of a device that is on line is answered (fetchTeamData,           *)
(* fetchTeamsList, fetchMessages, restoreState).                           *)
AllArrives ==
    /\ T!QueueIsShown /\ F!MatchesAreShown
    /\ part = "notifications" => N!MessagesAreShown
    /\ C!PutsAreAnswered

(* "Please score any one team...": tapping any row of the table is safe    *)
(* (TeamList).                                                             *)
TapIsSafe == T!TapIsSafe
=============================================================================
