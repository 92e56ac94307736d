------------------------------ MODULE TeamList ------------------------------
(***************************************************************************)
(* TeamListVC: the judge's list of teams on the screen.  A database        *)
(* observer hears of every change of judgingQueue/<phone>; each event      *)
(* empties the array and starts one read per team; each answer appends a   *)
(* team and reloads the table.  The table keeps showing the rows of its    *)
(* last reload while the array changes under it.                           *)
(*                                                                         *)
(* teams and filteredTeams are equal throughout (no search bar is ever     *)
(* added to this screen), so one variable stands for both.                 *)
(*                                                                         *)
(* The logos of the rows are downloaded in the background and cached in    *)
(* teamLogoImages; a team stands for its logo's URL.                       *)
(***************************************************************************)
EXTENDS Sift, FiniteSets, Functions

CONSTANTS
    Teams,
    Lists,       \* the values judgingQueue/<phone> takes
    NoLogo,      \* the image a new cell has
    MaxChanges   \* bound: changes of the judge's list

ListsAssumption ==
    /\ Lists \subseteq {s \in Seq(Teams) : IsInjective(s)}
    /\ <<>> \in Lists
    /\ NoLogo \notin Teams
    /\ MaxChanges \in Nat

VARIABLES
    queue,            \* judgingQueue/<phone> in the database
    events,           \* values on their way to the observer, in order
    fetches,          \* single-event reads of teams/<id> not answered yet
    filteredTeams,    \* the array behind the table
    shown,            \* the array as of the last reloadData
    images,           \* the logo in the cell of each row shown
    logos,            \* keys of teamLogoImages
    downloads,        \* [team, row]: logos under way, with the row their
                      \* cell has in the table, 0 once it is discarded
    allowSubmissions, \* AppConfigurations, 0 or 1
    opened,           \* the team for which a ScoringVC was last presented,
                      \* with the row's team as the judge saw it
    crashed,          \* the array was indexed out of range
    changes,
    dropped           \* teams that the current round of reads dropped: the
                      \* record did not decode (recorded for the properties)

table == <<shown, images, logos, downloads>>
vars == <<queue, events, fetches, filteredTeams, table, allowSubmissions,
          opened, crashed, changes, dropped>>

TypeOK ==
    /\ queue \in Lists
    /\ events \in Seq(Lists)
    /\ fetches \in Seq(Teams)
    /\ filteredTeams \in Seq(Teams)
    /\ shown \in Seq(Teams)
    /\ images \in Seq(Teams \cup {NoLogo})
    /\ logos \in SUBSET Teams
    /\ downloads \in SUBSET [team : Teams, row : Nat]
    /\ allowSubmissions \in {0, 1}
    /\ opened \in SUBSET (Teams \X Teams)
    /\ crashed \in BOOLEAN
    /\ changes \in 0..MaxChanges
    /\ dropped \in SUBSET Teams

(* viewDidLoad: the observer is registered and fires with the first value. *)
Init ==
    /\ queue \in Lists
    /\ events = <<queue>>
    /\ fetches = <<>>
    /\ filteredTeams = <<>>
    /\ shown = <<>> /\ images = <<>>
    /\ logos = {} /\ downloads = {}
    /\ allowSubmissions = 1
    /\ opened = {}
    /\ crashed = FALSE
    /\ changes = 0
    /\ dropped = {}

-----------------------------------------------------------------------------
(* A cloud function sets the judge's list.                                 *)
QueueChanges(v) ==
    /\ changes < MaxChanges
    /\ v # queue
    /\ queue' = v
    /\ events' = Append(events, v)
    /\ changes' = changes + 1
    /\ UNCHANGED <<fetches, filteredTeams, table, allowSubmissions, opened, crashed, dropped>>

(* The organisers open or close submissions.                               *)
ConfigurationChanges ==
    /\ changes < MaxChanges
    /\ allowSubmissions' = 1 - allowSubmissions
    /\ changes' = changes + 1
    /\ UNCHANGED <<queue, events, fetches, filteredTeams, table, opened, crashed, dropped>>

(* Seeded defects: the list is asked for as if it were one team; only      *)
(* teams that are not in the array are asked for.                          *)
QueueEventOneRead ==
    /\ ~crashed
    /\ events # <<>>
    /\ events' = Tail(events)
    /\ filteredTeams' = <<>>
    /\ fetches' = Append(fetches, Head(events))
    /\ dropped' = {}
    /\ UNCHANGED <<queue, table, allowSubmissions, opened, crashed, changes>>

QueueEventNewOnly ==
    /\ ~crashed
    /\ events # <<>>
    /\ events' = Tail(events)
    /\ filteredTeams' = <<>>
    /\ fetches' = fetches \o Sifted(Head(events), Teams \ Range(filteredTeams))
    /\ dropped' = {}
    /\ UNCHANGED <<queue, table, allowSubmissions, opened, crashed, changes>>

(* The observer of fetchTeamData: empty the array, do not reload the table,*)
(* ask for every team of the new list (none, when the value is null).      *)
QueueEvent ==
    /\ ~crashed
    /\ events # <<>>
    /\ events' = Tail(events)
    /\ filteredTeams' = <<>>
    /\ fetches' = fetches \o Head(events)
    /\ dropped' = {}
    /\ UNCHANGED <<queue, table, allowSubmissions, opened, crashed, changes>>

(* Seeded defect: the cells are reused, downloads keep writing to them.    *)
DiscardedNever(d) == d

(* Rows get new cells: a download for an old one no longer has a row.      *)
Discarded(d) == [d EXCEPT !.row = 0]

(* downloadAndSetImage for the cell of each row: the cached logo, or a     *)
(* download and the default image until it is there.                       *)
reloadData(list) ==
    /\ shown' = list
    /\ images' = [i \in 1..Len(list) |-> IF list[i] \in logos THEN list[i] ELSE NoLogo]
    /\ downloads' = {Discarded(d) : d \in downloads} \cup
          {[team |-> list[i], row |-> i] : i \in {k \in 1..Len(list) : list[k] \notin logos}}
    /\ UNCHANGED logos

(***************************************************************************)
(* The oldest read is answered.  Reads of the same team that are waiting   *)
(* by then share its listener: all of them are called, each appends the    *)
(* team and reloads.                                                       *)
(***************************************************************************)
TeamFetched ==
    /\ ~crashed
    /\ fetches # <<>>
    /\ LET team == Head(fetches)
           same == Sifted(fetches, {team})
       IN  /\ filteredTeams' = filteredTeams \o same
           /\ fetches' = Sifted(fetches, Teams \ {team})
    /\ reloadData(filteredTeams')
    /\ UNCHANGED <<queue, events, allowSubmissions, opened, crashed, changes, dropped>>

(* The answer is a record that does not decode: the error is printed, no   *)
(* row is appended and the table is not reloaded.                          *)
TeamUndecodable ==
    /\ ~crashed
    /\ fetches # <<>>
    /\ fetches' = Sifted(fetches, Teams \ {Head(fetches)})
    /\ dropped' = dropped \cup {Head(fetches)}
    /\ UNCHANGED <<queue, events, filteredTeams, table, allowSubmissions, opened, crashed,
                   changes>>

(* A download ends, with the image or with an error that is printed.       *)
LogoFetched(d) ==
    /\ ~crashed
    /\ downloads' = downloads \ {d}
    /\ logos' = logos \cup {d.team}
    /\ images' = IF d.row \in DOMAIN images THEN [images EXCEPT ![d.row] = d.team] ELSE images
    /\ UNCHANGED <<queue, events, fetches, filteredTeams, shown, allowSubmissions, opened,
                   crashed, changes, dropped>>

LogoFails(d) ==
    /\ ~crashed
    /\ downloads' = downloads \ {d}
    /\ UNCHANGED <<queue, events, fetches, filteredTeams, shown, images, logos,
                   allowSubmissions, opened, crashed, changes, dropped>>

(* Seeded defect: the row is read off by one.                              *)
SelectRowOffByOne(row) ==
    /\ ~crashed
    /\ row \in 1..Len(shown)
    /\ row < Len(filteredTeams)
    /\ allowSubmissions # 0
    /\ opened' = {<<filteredTeams[row + 1], shown[row]>>}
    /\ UNCHANGED <<queue, events, fetches, filteredTeams, table, allowSubmissions, crashed,
                   changes, dropped>>

(***************************************************************************)
(* didSelectRowAt for a row of the table as shown, whose last row is the   *)
(* search button.  Rows count from 1 here.                                 *)
(***************************************************************************)
SelectRow(row) ==
    /\ ~crashed
    /\ row \in 1..(Len(shown) + 1)
    /\ row # Len(filteredTeams) + 1
    /\ IF row > Len(filteredTeams)
       THEN crashed' = TRUE /\ UNCHANGED opened
       ELSE /\ UNCHANGED crashed
            /\ opened' = IF allowSubmissions = 0 THEN opened
                         ELSE {<<filteredTeams[row], shown[row]>>}
    /\ UNCHANGED <<queue, events, fetches, filteredTeams, table, allowSubmissions, changes,
                   dropped>>

Next ==
    \/ \E v \in Lists : QueueChanges(v)
    \/ ConfigurationChanges
    \/ QueueEvent
    \/ TeamFetched
    \/ TeamUndecodable
    \/ \E d \in downloads : LogoFetched(d) \/ LogoFails(d)
    \/ \E row \in 1..(Len(shown) + 1) : SelectRow(row)

Spec == Init /\ [][Next]_vars

(* The database connection delivers events and answers reads.              *)
FairSpec == Spec /\ WF_vars(QueueEvent) /\ WF_vars(TeamFetched \/ TeamUndecodable)

-----------------------------------------------------------------------------
(* No team of the judge's list is lost between two overlapping rounds of   *)
(* reads: once its event has been handled, each is on the screen's array,  *)
(* on its way or answered since with a record that does not decode,        *)
(* although every event empties the array.                                 *)
NothingMissing ==
    events = <<>> =>
        Range(queue) \subseteq Range(filteredTeams) \cup Range(fetches) \cup dropped

(* The row that the judge taps opens the team that the row shows: rows of  *)
(* an older reload are never read against another array.                   *)
TapOpensShownTeam == \A pair \in opened : pair[1] = pair[2]

(* A row shows the logo of its own team or none yet: a download that ends  *)
(* after the table has changed never reaches the cell of another team.     *)
LogoMatchesRow ==
    \A i \in 1..Len(shown) : images[i] \in {NoLogo, shown[i]}

(* When changes of the list have stopped, every team of the judge's list   *)
(* comes to be on the screen, whatever rounds of reads overlapped; but for *)
(* those whose record did not decode when the last round asked for it.     *)
QueueIsShown ==
    <>[](crashed \/ Range(queue) \ dropped \subseteq Range(shown))

-----------------------------------------------------------------------------
(* "Please score any one team...": tapping any row of the table is safe.   *)
TapIsSafe == ~crashed
=============================================================================
