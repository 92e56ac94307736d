------------------------------- MODULE Scoring -------------------------------
(***************************************************************************)
(* Scoring a team on one device: ScoringVC with its cells, the two gates   *)
(* (JudgedTeams, AppConfigurations) that every screen consults, the        *)
(* sign-out / sign-in of judges sharing the device, and the launch of the  *)
(* app.  What TeamListVC's header counts is only shown, and left out.      *)
(*                                                                         *)
(* Writes leave the device in the order they were made (outbox) and are    *)
(* kept in memory only: killing the app loses them.  Observers hear of a   *)
(* value some time after it changes, of the device's own writes too; what  *)
(* they then see is the database overlaid with the outbox.  A judge uses   *)
(* one device at a time.  The call of removeAssignedTeam that submitScores *)
(* makes is JudgingQueue!submitScores.                                     *)
(***************************************************************************)
EXTENDS Integers, Sequences, FiniteSets, FiniteSetsExt, Functions

CONSTANTS
    Judges, Teams, Nobody,
    Marks,        \* marks 1..5 of the four criteria, as one value
    Notes,        \* texts of the notes field
    DefaultMark,  \* the form opens with every mark at 1
    EmptyNote,    \* and no notes
    NoSheet, NoForm,
    MaxSubmits, MaxKills, MaxConfigs   \* bounds

ScoringAssumption ==
    /\ Nobody \notin Judges
    /\ DefaultMark \in Marks /\ EmptyNote \in Notes
    /\ NoSheet \notin [marks : Marks, notes : Notes]
    /\ MaxSubmits \in Nat /\ MaxKills \in Nat /\ MaxConfigs \in Nat

Sheet == [marks : Marks, notes : Notes]
Config == [allowEdits : {0, 1}, allowSubmissions : {0, 1}]
Form == [team : Teams, sheet : Sheet,
         loaded : BOOLEAN,    \* the previous scores have been heard of
         touched : BOOLEAN,   \* the judge changed something since
         open : BOOLEAN,      \* the gates have let the judge change it at some
                              \* time (recorded for the properties)
         notesField : {"hidden", "editable", "readonly"}]
Write == [kind : {"sheet"}, team : Teams, judge : Judges, sheet : Sheet]
         \cup [kind : {"judged"}, team : Teams, judge : Judges]

VARIABLES
    \* the database
    sheets,        \* scores/<team>/<judge>
    judgedTeams,   \* judgedTeams/<judge>: number of entries for each team
    config,        \* configuration
    \* the device
    outbox,        \* writes made and not yet stored
    user,          \* Auth.auth().currentUser
    hasRunBefore,  \* UserDefaults
    cfg,           \* AppConfigurations.shared.appConfigurations
    boundTo,       \* the judge whose entries JudgedTeams.shared observes
    judgedTeamIds, \* JudgedTeams.shared.judgedTeamIds, as a set
    form,          \* the ScoringVC on the screen
    \* bounds
    submits, kills, configs

database == <<sheets, judgedTeams, config>>
session == <<user, hasRunBefore>>
gates == <<cfg, boundTo, judgedTeamIds>>
bounds == <<submits, kills, configs>>
vars == <<database, outbox, session, gates, form, bounds>>

TypeOK ==
    /\ sheets \in [Teams -> [Judges -> Sheet \cup {NoSheet}]]
    /\ judgedTeams \in [Judges -> [Teams -> 0..(MaxSubmits + 1)]]
    /\ config \in Config /\ cfg \in Config
    /\ outbox \in Seq(Write)
    /\ user \in Judges \cup {Nobody} /\ boundTo \in Judges \cup {Nobody}
    /\ hasRunBefore \in BOOLEAN
    /\ judgedTeamIds \in SUBSET Teams
    /\ form \in Form \cup {NoForm}
    /\ submits \in 0..MaxSubmits /\ kills \in 0..MaxKills /\ configs \in 0..MaxConfigs

DefaultSheet == [marks |-> DefaultMark, notes |-> EmptyNote]
DefaultConfig == [allowEdits |-> 1, allowSubmissions |-> 1]

(* The database may hold sheets of an earlier day, each with its entry.    *)
Init ==
    /\ sheets \in [Teams -> [Judges -> {NoSheet, DefaultSheet}]]
    /\ judgedTeams = [j \in Judges |-> [t \in Teams |->
                        IF sheets[t][j] = NoSheet THEN 0 ELSE 1]]
    /\ config = DefaultConfig
    /\ outbox = <<>>
    /\ user = Nobody
    /\ hasRunBefore = TRUE
    /\ cfg = DefaultConfig
    /\ boundTo = Nobody
    /\ judgedTeamIds = {}
    /\ form = NoForm
    /\ submits = 0 /\ kills = 0 /\ configs = 0

-----------------------------------------------------------------------------
(* What the device sees of the database: its own pending writes on top.    *)

Pending(kind, t, j) ==
    {i \in 1..Len(outbox) :
        outbox[i].kind = kind /\ outbox[i].team = t /\ outbox[i].judge = j}

LocalSheet(t, j) ==
    LET mine == Pending("sheet", t, j)
    IN  IF mine = {} THEN sheets[t][j] ELSE outbox[Max(mine)].sheet

LocalEntries(t, j) == judgedTeams[j][t] + Cardinality(Pending("judged", t, j))

LocallyJudged(j) == {t \in Teams : LocalEntries(t, j) > 0}

(* The singleton is created, and its observer registered for whoever is    *)
(* signed in, when its value is first asked for; the value is empty then.  *)
AskJudgedTeams == boundTo' = IF boundTo = Nobody THEN user ELSE boundTo

isTeamScored(t) == t \in judgedTeamIds

(* Whether a form is closed, with the entries and the configuration given. *)
Closed(t, ids, c) == (t \in ids /\ c.allowEdits = 0) \/ c.allowSubmissions = 0

disallowEdits(t) == Closed(t, judgedTeamIds, cfg)

(* The form on the screen when the device hears of new gates.              *)
Regated(ids, c) ==
    IF form = NoForm THEN NoForm
    ELSE [form EXCEPT !.open = form.open \/ ~Closed(form.team, ids, c)]

-----------------------------------------------------------------------------
(* Signing in, signing out, and the launch of the app.                     *)

Login(j) ==
    /\ user = Nobody
    /\ user' = j
    /\ UNCHANGED <<database, outbox, hasRunBefore, gates, form, bounds>>

(* The singletons live on, with the observers they have.                   *)
logOutUser ==
    /\ user # Nobody /\ form = NoForm
    /\ user' = Nobody
    /\ hasRunBefore' = FALSE
    /\ UNCHANGED <<database, outbox, gates, form, bounds>>

(* The app is killed and started again.  Pending writes are lost.  A user  *)
(* stays signed in, unless hasRunBefore is missing.                        *)
Relaunch ==
    /\ kills < MaxKills
    /\ kills' = kills + 1
    /\ outbox' = <<>>
    /\ user' = IF hasRunBefore THEN user ELSE Nobody
    /\ hasRunBefore' = TRUE
    /\ cfg' = DefaultConfig
    /\ boundTo' = Nobody
    /\ judgedTeamIds' = {}
    /\ form' = NoForm
    /\ UNCHANGED <<database, submits, configs>>

-----------------------------------------------------------------------------
(* Opening a team.                                                         *)

NewForm(t) == [team |-> t, sheet |-> DefaultSheet, loaded |-> FALSE,
               touched |-> FALSE, open |-> ~disallowEdits(t), notesField |-> "hidden"]

(* TeamListVC.didSelectRowAt.                                              *)
OpenFromList(t) ==
    /\ user # Nobody /\ form = NoForm
    /\ cfg.allowSubmissions # 0
    /\ form' = NewForm(t)
    /\ UNCHANGED <<database, outbox, session, gates, bounds>>

(* FilterTeamsVC.didSelectRowAt: a scored team opens in any case, after an *)
(* alert when editing is closed; another one only while submissions are on.*)
OpenFromSearch(t) ==
    /\ user # Nobody /\ form = NoForm
    /\ AskJudgedTeams
    /\ form' = IF ~isTeamScored(t) /\ cfg.allowSubmissions = 0 THEN form ELSE NewForm(t)
    /\ UNCHANGED <<database, outbox, session, cfg, judgedTeamIds, bounds>>

dismissVC ==
    /\ form # NoForm
    /\ form' = NoForm
    /\ UNCHANGED <<database, outbox, session, gates, bounds>>

-----------------------------------------------------------------------------
(* Filling the form.                                                       *)

(* Seeded defect: a notes cell may be edited whatever the gates say.       *)
NotesShownUngated ==
    /\ form # NoForm
    /\ AskJudgedTeams
    /\ form' = [form EXCEPT !.notesField = "editable"]
    /\ UNCHANGED <<database, outbox, session, cfg, judgedTeamIds, bounds>>

(* A notes cell scrolls into view: NotesCell.configureCell decides now     *)
(* whether it may be edited.                                               *)
NotesShown ==
    /\ form # NoForm
    /\ AskJudgedTeams
    /\ form' = [form EXCEPT !.notesField =
                   IF disallowEdits(form.team) THEN "readonly" ELSE "editable"]
    /\ UNCHANGED <<database, outbox, session, cfg, judgedTeamIds, bounds>>

(* ScoringVC.manageScoreUpdate: the cells notify the form of a new value.  *)
(* Forms of earlier teams hear of it too; nothing submits them any more.   *)
manageScoreUpdate(sheet) == [form EXCEPT !.sheet = sheet, !.touched = TRUE]

(* Seeded defect: the mark stored is one more than the button's.           *)
broadcastOffByOne(m) ==
    /\ form # NoForm
    /\ AskJudgedTeams
    /\ form' = IF disallowEdits(form.team) THEN form
               ELSE manageScoreUpdate([form.sheet EXCEPT !.marks = m + 1])
    /\ UNCHANGED <<database, outbox, session, cfg, judgedTeamIds, bounds>>

(* ScoringCell.broadcastScore decides at every tap.                        *)
broadcastScore(m) ==
    /\ form # NoForm
    /\ AskJudgedTeams
    /\ form' = IF disallowEdits(form.team) THEN form
               ELSE manageScoreUpdate([form.sheet EXCEPT !.marks = m])
    /\ UNCHANGED <<database, outbox, session, cfg, judgedTeamIds, bounds>>

(* NotesCell.textViewDidChange.                                            *)
textViewDidChange(n) ==
    /\ form # NoForm
    /\ form.notesField = "editable"
    /\ form' = manageScoreUpdate([form.sheet EXCEPT !.notes = n])
    /\ UNCHANGED <<database, outbox, session, gates, bounds>>

(* Seeded defect: the marks of the stored sheet are not put on the form.   *)
PreviousScoresNoMarks ==
    /\ form # NoForm
    /\ ~form.loaded
    /\ LET stored == LocalSheet(form.team, user) IN
       form' = IF stored = NoSheet THEN [form EXCEPT !.loaded = TRUE]
               ELSE [form EXCEPT !.sheet.notes = stored.notes, !.loaded = TRUE,
                                 !.touched = FALSE, !.notesField = "hidden"]
    /\ UNCHANGED <<database, outbox, session, gates, bounds>>

(* fetchPreviousScores' observer: a stored sheet replaces all that is on   *)
(* the form and the table is reloaded; without one nothing happens.        *)
PreviousScores ==
    /\ form # NoForm
    /\ ~form.loaded
    /\ LET stored == LocalSheet(form.team, user) IN
       form' = IF stored = NoSheet THEN [form EXCEPT !.loaded = TRUE]
               ELSE [form EXCEPT !.sheet = stored, !.loaded = TRUE, !.touched = FALSE,
                                 !.notesField = "hidden"]
    /\ UNCHANGED <<database, outbox, session, gates, bounds>>

-----------------------------------------------------------------------------
(* ScoringVC.submitScores.                                                 *)

(* Seeded defects: the entry is written first; no entry is written.        *)
SubmitEntryFirst(t) ==
    << [kind |-> "judged", team |-> t, judge |-> user],
       [kind |-> "sheet", team |-> t, judge |-> user, sheet |-> form.sheet] >>

SubmitNoEntry(t) ==
    << [kind |-> "sheet", team |-> t, judge |-> user, sheet |-> form.sheet] >>

MayUpload(t) ==
    IF isTeamScored(t) THEN cfg.allowEdits # 0 ELSE cfg.allowSubmissions # 0

SubmitWrites(t) ==
    << [kind |-> "sheet", team |-> t, judge |-> user, sheet |-> form.sheet],
       [kind |-> "judged", team |-> t, judge |-> user] >>

submitScores ==
    /\ form # NoForm
    /\ submits < MaxSubmits
    /\ MayUpload(form.team)
    /\ AskJudgedTeams
    /\ outbox' = outbox \o SubmitWrites(form.team)
    /\ form' = NoForm
    /\ submits' = submits + 1
    /\ UNCHANGED <<database, session, cfg, judgedTeamIds, kills, configs>>

(* An alert, and the form stays.                                           *)
submitRefused ==
    /\ form # NoForm
    /\ ~MayUpload(form.team)
    /\ AskJudgedTeams
    /\ UNCHANGED <<database, outbox, session, cfg, judgedTeamIds, form, bounds>>

-----------------------------------------------------------------------------
(* The database and its observers.                                         *)

Store ==
    /\ outbox # <<>>
    /\ LET w == Head(outbox) IN
       IF w.kind = "sheet"
       THEN /\ sheets' = [sheets EXCEPT ![w.team][w.judge] = w.sheet]
            /\ UNCHANGED judgedTeams
       ELSE /\ judgedTeams' = [judgedTeams EXCEPT ![w.judge][w.team] = @ + 1]
            /\ UNCHANGED sheets
    /\ outbox' = Tail(outbox)
    /\ UNCHANGED <<config, session, gates, form, bounds>>

(* JudgedTeams' observer; it ignores a missing value.                      *)
JudgedEvent ==
    /\ boundTo # Nobody
    /\ LocallyJudged(boundTo) # {}
    /\ judgedTeamIds' = LocallyJudged(boundTo)
    /\ form' = Regated(judgedTeamIds', cfg)
    /\ UNCHANGED <<database, outbox, session, cfg, boundTo, bounds>>

(* The organisers change the configuration, and the device hears of it.    *)
Organise(c) ==
    /\ configs < MaxConfigs
    /\ c # config
    /\ config' = c
    /\ configs' = configs + 1
    /\ UNCHANGED <<sheets, judgedTeams, outbox, session, gates, form, submits, kills>>

ConfigEvent ==
    /\ cfg' = config
    /\ form' = Regated(judgedTeamIds, config)
    /\ UNCHANGED <<database, outbox, session, boundTo, judgedTeamIds, bounds>>

Next ==
    \/ \E j \in Judges : Login(j)
    \/ logOutUser \/ Relaunch
    \/ \E t \in Teams : OpenFromList(t) \/ OpenFromSearch(t)
    \/ dismissVC \/ NotesShown \/ PreviousScores
    \/ \E m \in Marks : broadcastScore(m)
    \/ \E n \in Notes : textViewDidChange(n)
    \/ submitScores \/ submitRefused
    \/ Store \/ JudgedEvent \/ ConfigEvent
    \/ \E c \in Config : Organise(c)

Spec == Init /\ [][Next]_vars

(* While the device is connected its writes are stored.                    *)
FairSpec == Spec /\ WF_vars(Store)

-----------------------------------------------------------------------------
(* Nothing counts as judged without a score sheet in the database: the     *)
(* sheet is written first and a kill loses a suffix of the writes.         *)
JudgedHasSheet ==
    \A j \in Judges, t \in Teams : judgedTeams[j][t] > 0 => sheets[t][j] # NoSheet

(* A stored sheet that is not listed as judged (and so escapes the closing *)
(* of edits) has its entry on the way, or the app was killed in between.   *)
UnlistedSheetNeedsKill ==
    \A j \in Judges, t \in Teams :
        sheets[t][j] # NoSheet => LocalEntries(t, j) > 0 \/ kills > 0

(* The two together: what counts as judged and what was scored differ only *)
(* by a submission that is under way or was cut short by a kill.           *)
JudgedMatchesSheets == JudgedHasSheet /\ UnlistedSheetNeedsKill

(* A form whose judge has changed nothing since the previous scores        *)
(* arrived holds exactly the judge's latest sheet, uploaded or not, so     *)
(* that submitting it again changes nothing.                               *)
UntouchedFormIsStored ==
    form # NoForm => LET stored == LocalSheet(form.team, user) IN
        form.loaded /\ ~form.touched /\ stored # NoSheet => form.sheet = stored

Unaware == boundTo # user \/ judgedTeamIds # LocallyJudged(user)

Submission == form # NoForm /\ Len(outbox') > Len(outbox)

(* While the device knows that edits are closed, no sheet is replaced,     *)
(* stored or on its way, unless JudgedTeams observes another judge, has    *)
(* not heard of all entries, or a kill has parted a sheet from its entry.  *)
ClosedEditsKeepSheet ==
    Submission /\ cfg.allowEdits = 0 =>
        LocalSheet(form.team, user) = NoSheet \/ Unaware \/ kills > 0

(* A form that the gates have never let the judge change, although marks   *)
(* ask them at every tap and the notes only when their cell appears, is    *)
(* submitted as it was: with the judge's latest sheet, or as an empty form *)
(* when that has not arrived.                                              *)
ClosedFormIsUnchanged ==
    Submission /\ ~form.open =>
        LET latest == LocalSheet(form.team, user)
        IN  outbox'[Len(outbox) + 1].sheet =
                IF form.loaded /\ latest # NoSheet THEN latest ELSE DefaultSheet

(* What the closed gates promise of every submission (ScoringVC).          *)
ClosedGatesHold == [][ClosedEditsKeepSheet /\ ClosedFormIsUnchanged]_vars

-----------------------------------------------------------------------------
(* "Score editing is now closed. However you can still view the scores you *)
(* submitted.": no sheet is replaced once the device knows of the closing  *)
(* and JudgedTeams has heard of every entry of the judge it observes.      *)
ClosedEditsStayClosed ==
    [][(/\ form # NoForm /\ Len(outbox') > Len(outbox)
        /\ cfg.allowEdits = 0
        /\ boundTo # Nobody /\ judgedTeamIds = LocallyJudged(boundTo)) =>
          LocalSheet(form.team, user) = NoSheet]_vars
=============================================================================
