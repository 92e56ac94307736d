--------------------------- MODULE ScoringProofs ----------------------------
(***************************************************************************)
(* For any judges, teams and marks, and any number of submissions, kills   *)
(* and changes of the configuration: a team counts as judged only with its *)
(* sheet in the database, a sheet without its entry needs a kill, an       *)
(* untouched form shows the judge's latest sheet, and what the closed      *)
(* gates protect is replaced only where JudgedTeams cannot know better.    *)
(*                                                                         *)
(* The first two are not inductive: any number of steps may lie between    *)
(* the two writes of a submission.  What holds at all times is that an     *)
(* entry on its way has its sheet in the database or further in front (a   *)
(* kill takes both, a store takes the front), and that without kills a     *)
(* sheet, stored or not, has its entry, stored or not.                     *)
(*                                                                         *)
(* That a closed form is sent unchanged rests on the whole life of a form: *)
(* as long as the gates have been closed nothing on it was touched, its    *)
(* notes were never made editable, and it is as it was opened until the    *)
(* stored sheet arrives.                                                   *)
(***************************************************************************)
EXTENDS Scoring, ListLemmas, FiniteSetTheorems, SequenceTheorems, TLAPS

Types ==
    /\ sheets \in [Teams -> [Judges -> Sheet \cup {NoSheet}]]
    /\ judgedTeams \in [Judges -> [Teams -> Nat]]
    /\ outbox \in Seq(Write)
    /\ user \in Judges \cup {Nobody}
    /\ form # NoForm => user # Nobody /\ form \in Form
    /\ kills \in Nat

EntriesFollowSheets ==
    \A t \in Teams, j \in Judges : \A i \in Pending("judged", t, j) :
        \/ sheets[t][j] # NoSheet
        \/ \E k \in Pending("sheet", t, j) : k < i

SheetsHaveEntries ==
    kills = 0 => \A t \in Teams, j \in Judges :
        sheets[t][j] # NoSheet \/ Pending("sheet", t, j) # {} =>
            judgedTeams[j][t] > 0 \/ Pending("judged", t, j) # {}

IInv ==
    /\ Types
    /\ JudgedHasSheet /\ EntriesFollowSheets
    /\ SheetsHaveEntries
    /\ UntouchedFormIsStored

(* As long as the gates have been closed for a form, they are now, and     *)
(* nothing was or can be typed.                                            *)
ClosedFormIsUntouched ==
    form # NoForm /\ ~form.open =>
        disallowEdits(form.team) /\ ~form.touched /\ form.notesField # "editable"

(* A form on which nothing was filled in is as it was opened.              *)
UnfilledFormIsEmpty ==
    form # NoForm /\ ~form.touched /\ (~form.loaded \/ LocalSheet(form.team, user) = NoSheet) =>
        form.sheet = DefaultSheet

GatesInv == ClosedFormIsUntouched /\ UnfilledFormIsEmpty

-----------------------------------------------------------------------------
(* The outbox.                                                             *)

LEMMA WriteFacts ==
    ASSUME NEW w \in Write
    PROVE  /\ w.kind \in {"sheet", "judged"} /\ w.team \in Teams /\ w.judge \in Judges
           /\ w.kind = "sheet" => w.sheet \in Sheet
BY DEF Write

LEMMA PendingIsFinite ==
    ASSUME Types, NEW k, NEW t, NEW j
    PROVE  /\ Len(outbox) \in Nat
           /\ Pending(k, t, j) \subseteq 1..Len(outbox)
           /\ IsFiniteSet(Pending(k, t, j))
<1>1. Len(outbox) \in Nat
  BY LenProperties DEF Types
<1>2. Pending(k, t, j) \subseteq 1..Len(outbox)
  BY DEF Pending
<1>3. IsFiniteSet(1..Len(outbox))
  BY <1>1, FS_Interval
<1> QED
  BY <1>1, <1>2, <1>3, FS_Subset

LEMMA MaxIsGreatest ==
    ASSUME NEW n \in Nat, NEW S, S \subseteq 1..n, NEW i \in S, \A k \in S : k <= i
    PROVE  Max(S) = i
<1>1. ASSUME NEW x \in S, \A y \in S : x >= y PROVE x = i
  BY <1>1
<1> QED
  BY <1>1 DEF Max

(* The judge's latest sheet is the last one on its way, or the stored one. *)
LEMMA LatestSheetTyped ==
    ASSUME Types, NEW t \in Teams, NEW j \in Judges
    PROVE  LocalSheet(t, j) \in Sheet \cup {NoSheet}
<1> DEFINE mine == Pending("sheet", t, j)
<1>1. CASE mine = {}
  BY <1>1 DEF Types, LocalSheet
<1>2. CASE mine # {}
  <2>1. PICK i \in mine : \A k \in mine : k <= i
    BY <1>2, PendingIsFinite, GreatestNatural
  <2>2. Max(mine) = i
    <3> HIDE DEF mine
    <3> QED
      BY <2>1, MaxIsGreatest, PendingIsFinite DEF mine
  <2>3. i \in 1..Len(outbox) /\ outbox[i].kind = "sheet" /\ outbox[i] \in Write
    BY ElementOfSeq DEF Pending, Types
  <2> QED
    BY <1>2, <2>2, <2>3, WriteFacts DEF LocalSheet
<1> QED
  BY <1>1, <1>2

(* Storing the front of the outbox moves the rest one place forward.       *)
LEMMA StoreShifts ==
    ASSUME Types, Store
    PROVE  /\ outbox[1] \in Write /\ Len(outbox) \in Nat \ {0}
           /\ outbox' \in Seq(Write)
           /\ \A k, t, j : \A i : i \in Pending(k, t, j)' <=>
                               i \in Nat \ {0} /\ i + 1 \in Pending(k, t, j)
           /\ \A i \in Nat \ {0} : i + 1 \in 1..Len(outbox) => outbox'[i] = outbox[i + 1]
<1>1. outbox \in Seq(Write) /\ outbox # <<>> /\ outbox' = Tail(outbox)
  BY DEF Types, Store
<1>2. /\ Tail(outbox) \in Seq(Write)
      /\ Len(Tail(outbox)) = Len(outbox) - 1
      /\ \A i \in 1..Len(Tail(outbox)) : Tail(outbox)[i] = outbox[i + 1]
  BY <1>1, HeadTailProperties
<1>3. Len(outbox) \in Nat \ {0}
  BY <1>1, EmptySeq
<1>4. outbox[1] \in Write
  BY <1>1, <1>3, ElementOfSeq
<1>5. ASSUME NEW i \in Nat \ {0}, i + 1 \in 1..Len(outbox) PROVE outbox'[i] = outbox[i + 1]
  BY <1>1, <1>2, <1>3, <1>5
<1>6. ASSUME NEW k, NEW t, NEW j, NEW i
      PROVE  i \in Pending(k, t, j)' <=> i \in Nat \ {0} /\ i + 1 \in Pending(k, t, j)
  <2>1. i \in 1..Len(outbox') <=> i \in Nat \ {0} /\ i + 1 \in 1..Len(outbox)
    BY <1>1, <1>2, <1>3
  <2> QED
    BY <1>5, <2>1 DEF Pending
<1> QED
  BY <1>1, <1>2, <1>3, <1>4, <1>5, <1>6

(* A submission puts a sheet and, behind it, its entry into the outbox.    *)
LEMMA SubmitAppends ==
    ASSUME Types, submitScores
    PROVE  /\ outbox' \in Seq(Write)
           /\ Len(outbox') = Len(outbox) + 2 /\ Len(outbox) \in Nat
           /\ outbox'[Len(outbox) + 1].sheet = form.sheet
           /\ \A i \in 1..Len(outbox) : outbox'[i] = outbox[i]
           /\ \A t \in Teams, j \in Judges :
                /\ \A k : Pending(k, t, j) \subseteq Pending(k, t, j)'
                /\ \A i \in Pending("judged", t, j)' \ Pending("judged", t, j) :
                       i = Len(outbox) + 2 /\ t = form.team /\ j = user
                /\ \A i \in Pending("sheet", t, j)' \ Pending("sheet", t, j) :
                       t = form.team /\ j = user
           /\ \A t \in Teams, j \in Judges : t = form.team /\ j = user =>
                /\ Len(outbox) + 1 \in Pending("sheet", t, j)'
                /\ Len(outbox) + 2 \in Pending("judged", t, j)'
<1> DEFINE n == Len(outbox)
           w1 == [kind |-> "sheet", team |-> form.team, judge |-> user, sheet |-> form.sheet]
           w2 == [kind |-> "judged", team |-> form.team, judge |-> user]
<1>1. form \in Form /\ user \in Judges /\ outbox \in Seq(Write)
  BY DEF Types, submitScores
<1>2. form.team \in Teams /\ form.sheet \in Sheet
  BY <1>1 DEF Form
<1>3. w1 \in Write /\ w2 \in Write
  BY <1>1, <1>2 DEF Write
<1>4. SubmitWrites(form.team) = <<w1, w2>>
  BY DEF SubmitWrites
<1>5. /\ <<w1, w2>> \in Seq(Write)
      /\ Len(<<w1, w2>>) = 2 /\ <<w1, w2>>[1] = w1 /\ <<w1, w2>>[2] = w2
  <2> HIDE DEF w1, w2
  <2> QED
    BY <1>3
<1>6. outbox' = outbox \o <<w1, w2>>
  BY <1>4 DEF submitScores
<1>7. n \in Nat
  BY <1>1, LenProperties
<1>8. /\ outbox' \in Seq(Write)
      /\ Len(outbox') = n + 2
      /\ \A i \in 1..(n + 2) :
            outbox'[i] = IF i <= n THEN outbox[i] ELSE <<w1, w2>>[i - n]
  <2> HIDE DEF w1, w2
  <2> QED
    BY <1>1, <1>5, <1>6, <1>7, ConcatProperties
<1>9. /\ \A i \in 1..n : outbox'[i] = outbox[i]
      /\ outbox'[n + 1] = w1 /\ outbox'[n + 2] = w2
  <2> HIDE DEF w1, w2
  <2> QED
    BY <1>5, <1>7, <1>8
<1>10. /\ w1.kind = "sheet" /\ w1.team = form.team /\ w1.judge = user /\ w1.sheet = form.sheet
       /\ w2.kind = "judged" /\ w2.team = form.team /\ w2.judge = user
  OBVIOUS
<1>11. ASSUME NEW t \in Teams, NEW j \in Judges, t = form.team, j = user
       PROVE  n + 1 \in Pending("sheet", t, j)' /\ n + 2 \in Pending("judged", t, j)'
  <2>1. n + 1 \in 1..Len(outbox') /\ n + 2 \in 1..Len(outbox')
    BY <1>7, <1>8
  <2> HIDE DEF w1, w2
  <2> QED
    BY <1>9, <1>10, <1>11, <2>1 DEF Pending
<1>12. ASSUME NEW t \in Teams, NEW j \in Judges, NEW k
       PROVE  Pending(k, t, j) \subseteq Pending(k, t, j)'
  BY <1>7, <1>8, <1>9 DEF Pending
<1>13. ASSUME NEW t \in Teams, NEW j \in Judges, NEW k,
              NEW i \in Pending(k, t, j)' \ Pending(k, t, j)
       PROVE  /\ t = form.team /\ j = user
              /\ k = "judged" => i = n + 2
  <2>1. i \in 1..(n + 2) /\ outbox'[i].kind = k /\ outbox'[i].team = t /\ outbox'[i].judge = j
    BY <1>8, <1>13 DEF Pending
  <2>2. i \notin 1..n
    BY <1>9, <1>13, <2>1 DEF Pending
  <2>3. i = n + 1 \/ i = n + 2
    BY <1>7, <2>1, <2>2
  <2> HIDE DEF w1, w2
  <2>4. CASE i = n + 1
    BY <1>9, <1>10, <2>1, <2>4
  <2>5. CASE i = n + 2
    BY <1>9, <1>10, <2>1, <2>5
  <2> QED
    BY <2>3, <2>4, <2>5
<1>14. outbox'[n + 1].sheet = form.sheet
  <2> HIDE DEF w1, w2
  <2> QED
    BY <1>9, <1>10
<1> QED
  BY <1>7, <1>8, <1>9, <1>11, <1>12, <1>13, <1>14

-----------------------------------------------------------------------------
(* The inductive invariant.                                                *)

LEMMA InitEstablishes == ASSUME ScoringAssumption, Init PROVE IInv
<1>1. outbox = <<>> /\ outbox \in Seq(Write) /\ Len(outbox) = 0
  BY EmptySeq DEF Init
<1>2. \A k, t, j : Pending(k, t, j) = {}
  BY <1>1 DEF Pending
<1>3. DefaultSheet \in Sheet
  BY DEF ScoringAssumption, DefaultSheet, Sheet
<1>4. Types
  BY <1>1, <1>3 DEF Init, Types
<1>5. JudgedHasSheet
  BY DEF Init, JudgedHasSheet
<1>6. EntriesFollowSheets
  BY <1>2 DEF EntriesFollowSheets
<1>7. SheetsHaveEntries
  BY <1>2 DEF Init, SheetsHaveEntries
<1>8. UntouchedFormIsStored
  BY DEF Init, UntouchedFormIsStored
<1> QED
  BY <1>4, <1>5, <1>6, <1>7, <1>8 DEF IInv

(* A step that sends and stores nothing only has to keep the form honest.  *)
LEMMA FormKeeps ==
    ASSUME IInv, UNCHANGED <<sheets, judgedTeams, outbox, kills>>,
           user' \in Judges \cup {Nobody},
           form' # NoForm => /\ user' # Nobody /\ form' \in Form
                             /\ UntouchedFormIsStored'
    PROVE  IInv'
<1>1. Types'
  BY DEF IInv, Types
<1>2. \A k, t, j : Pending(k, t, j)' = Pending(k, t, j)
  BY DEF Pending
<1>3. JudgedHasSheet' /\ EntriesFollowSheets' /\ SheetsHaveEntries'
  BY <1>2 DEF IInv, JudgedHasSheet, EntriesFollowSheets, SheetsHaveEntries
<1>4. UntouchedFormIsStored'
  BY DEF UntouchedFormIsStored
<1> QED
  BY <1>1, <1>3, <1>4 DEF IInv

LEMMA SameLocalSheet ==
    ASSUME UNCHANGED <<sheets, outbox>>, NEW t, NEW j
    PROVE  LocalSheet(t, j)' = LocalSheet(t, j)
BY DEF LocalSheet, Pending

(* What a form starts with, and what new gates change of it.               *)
LEMMA NewFormFacts ==
    ASSUME ScoringAssumption, NEW t \in Teams
    PROVE  /\ NewForm(t) \in Form /\ NewForm(t).team = t /\ NewForm(t).sheet = DefaultSheet
           /\ ~NewForm(t).loaded /\ ~NewForm(t).touched /\ NewForm(t).notesField = "hidden"
           /\ ~NewForm(t).open => disallowEdits(t)
<1>1. PICK b \in BOOLEAN : b = ~disallowEdits(t)
  OBVIOUS
<1>2. NewForm(t) = [team |-> t, sheet |-> DefaultSheet, loaded |-> FALSE, touched |-> FALSE,
                    open |-> b, notesField |-> "hidden"]
  BY <1>1 DEF NewForm
<1>3. DefaultSheet \in Sheet
  BY DEF ScoringAssumption, DefaultSheet, Sheet
<1>4. NewForm(t) \in Form
  BY <1>2, <1>3 DEF Form
<1>5. NewForm(t).open = b
  BY <1>2
<1>6. ~NewForm(t).open => disallowEdits(t)
  BY <1>1, <1>5
<1> QED
  BY <1>2, <1>4, <1>6

LEMMA RegatedFacts ==
    ASSUME form \in Form, form # NoForm, NEW ids, NEW c
    PROVE  LET new == Regated(ids, c)
           IN  /\ new \in Form
               /\ new.team = form.team /\ new.sheet = form.sheet /\ new.loaded = form.loaded
               /\ new.touched = form.touched /\ new.notesField = form.notesField
               /\ ~new.open => ~form.open /\ Closed(form.team, ids, c)
<1>1. PICK b \in BOOLEAN : b = (form.open \/ ~Closed(form.team, ids, c))
  OBVIOUS
<1>2. Regated(ids, c) = [form EXCEPT !.open = b]
  BY <1>1 DEF Regated
<1> QED
  BY <1>1, <1>2 DEF Form

(* What the step must show of a form that stays open.                      *)
LEMMA HonestForm ==
    ASSUME UNCHANGED <<sheets, outbox, user>>, form' # NoForm,
           LET stored == LocalSheet(form'.team, user) IN
           form'.loaded /\ ~form'.touched /\ stored # NoSheet => form'.sheet = stored
    PROVE  UntouchedFormIsStored'
BY DEF UntouchedFormIsStored, LocalSheet, Pending

(* The steps that open, close or leave the form.                           *)
LEMMA OpeningKeeps ==
    ASSUME ScoringAssumption, IInv,
           \/ \E j \in Judges : Login(j)
           \/ logOutUser
           \/ \E t \in Teams : OpenFromList(t) \/ OpenFromSearch(t)
           \/ dismissVC \/ submitRefused \/ JudgedEvent \/ ConfigEvent
           \/ \E c \in Config : Organise(c)
           \/ UNCHANGED vars
    PROVE  IInv'
<1> USE DEF database, session, gates, bounds
<1>0. /\ user \in Judges \cup {Nobody}
      /\ form # NoForm => user # Nobody /\ form \in Form
      /\ UntouchedFormIsStored
  BY DEF IInv, Types
<1>1. ASSUME NEW j \in Judges, Login(j) PROVE IInv'
  <2>1. form' = NoForm
    BY <1>0, <1>1 DEF Login
  <2> QED
    BY <1>1, <2>1, FormKeeps DEF Login
<1>2. CASE logOutUser
  <2>1. form' = NoForm
    BY <1>2 DEF logOutUser
  <2> QED
    BY <1>2, <2>1, FormKeeps DEF logOutUser
<1>3. ASSUME NEW t \in Teams, OpenFromList(t) \/ OpenFromSearch(t) PROVE IInv'
  <2>1. NewForm(t) \in Form /\ ~NewForm(t).loaded
    BY NewFormFacts
  <2>2. CASE form' = NewForm(t)
    <3>1. UNCHANGED <<sheets, judgedTeams, outbox, kills, user>> /\ user # Nobody
      BY <1>3 DEF OpenFromList, OpenFromSearch
    <3>2. form' # NoForm => UntouchedFormIsStored'
      BY <2>1, <2>2, <3>1, HonestForm
    <3> QED
      BY <1>0, <2>1, <2>2, <3>1, <3>2, FormKeeps
  <2>3. CASE form' = form
    <3>1. UNCHANGED <<sheets, judgedTeams, outbox, kills, user>> /\ form' = NoForm
      BY <1>3, <2>3 DEF OpenFromList, OpenFromSearch
    <3> QED
      BY <1>0, <3>1, FormKeeps
  <2> QED
    BY <1>3, <2>2, <2>3 DEF OpenFromList, OpenFromSearch
<1>4. CASE dismissVC
  <2>1. form' = NoForm
    BY <1>4 DEF dismissVC
  <2> QED
    BY <1>0, <1>4, <2>1, FormKeeps DEF dismissVC
<1>5. CASE UNCHANGED <<sheets, judgedTeams, outbox, kills, user, form>>
  <2>1. UntouchedFormIsStored'
    BY <1>0, <1>5 DEF UntouchedFormIsStored, LocalSheet, Pending
  <2> QED
    BY <1>0, <1>5, <2>1, FormKeeps
<1>6. CASE \/ submitRefused
           \/ \E c \in Config : Organise(c)
           \/ UNCHANGED vars
  BY <1>5, <1>6 DEF submitRefused, Organise, vars
<1>7. ASSUME NEW ids, NEW c, form' = Regated(ids, c),
             UNCHANGED <<sheets, judgedTeams, outbox, kills, user>>
      PROVE  IInv'
  <2>1. CASE form = NoForm
    BY <1>0, <1>5, <1>7, <2>1 DEF Regated
  <2>2. CASE form # NoForm
    <3>1. /\ form' \in Form
          /\ form'.team = form.team /\ form'.sheet = form.sheet
          /\ form'.loaded = form.loaded /\ form'.touched = form.touched
      BY <1>0, <1>7, <2>2, RegatedFacts
    <3>2. form' # NoForm => UntouchedFormIsStored'
      BY <1>0, <1>7, <2>2, <3>1, HonestForm DEF UntouchedFormIsStored
    <3> QED
      BY <1>0, <1>7, <2>2, <3>1, <3>2, FormKeeps
  <2> QED
    BY <2>1, <2>2
<1>8. CASE JudgedEvent
  BY <1>7, <1>8 DEF JudgedEvent
<1>9. CASE ConfigEvent
  BY <1>7, <1>9 DEF ConfigEvent
<1> QED
  BY <1>1, <1>2, <1>3, <1>4, <1>6, <1>8, <1>9

(* The steps that fill the form.                                           *)
LEMMA FillingKeeps ==
    ASSUME ScoringAssumption, IInv,
           \/ NotesShown \/ PreviousScores
           \/ \E m \in Marks : broadcastScore(m)
           \/ \E n \in Notes : textViewDidChange(n)
    PROVE  IInv'
<1> USE DEF database, session, gates, bounds
<1>0. /\ form # NoForm /\ form \in Form /\ user \in Judges
      /\ Types /\ UntouchedFormIsStored
      /\ UNCHANGED <<sheets, judgedTeams, outbox, kills, user>>
  BY DEF IInv, Types, NotesShown, PreviousScores, broadcastScore, textViewDidChange
<1>1. SUFFICES /\ form' \in Form
               /\ LET stored == LocalSheet(form'.team, user) IN
                  form'.loaded /\ ~form'.touched /\ stored # NoSheet => form'.sheet = stored
  <2>1. form' # NoForm => UntouchedFormIsStored'
    BY <1>0, HonestForm
  <2> QED
    BY <1>0, <2>1, FormKeeps DEF Types
<1>2. LET stored == LocalSheet(form.team, user) IN
      form.loaded /\ ~form.touched /\ stored # NoSheet => form.sheet = stored
  BY <1>0 DEF UntouchedFormIsStored
<1>3. CASE NotesShown
  <2>1. PICK f \in {"readonly", "editable"} : form' = [form EXCEPT !.notesField = f]
    BY <1>3 DEF NotesShown
  <2>2. /\ form' \in Form
        /\ form'.team = form.team /\ form'.sheet = form.sheet
        /\ form'.loaded = form.loaded /\ form'.touched = form.touched
    BY <1>0, <2>1 DEF Form
  <2> QED
    BY <1>2, <2>2
<1>4. CASE PreviousScores
  <2> DEFINE stored == LocalSheet(form.team, user)
  <2>1. form.team \in Teams /\ stored \in Sheet \cup {NoSheet}
    BY <1>0, LatestSheetTyped DEF Form
  <2>2. CASE stored = NoSheet
    <3>1. form' = [form EXCEPT !.loaded = TRUE]
      BY <1>4, <2>2 DEF PreviousScores
    <3>2. form' \in Form /\ form'.team = form.team
      BY <1>0, <3>1 DEF Form
    <3> QED
      BY <2>2, <3>2
  <2>3. CASE stored # NoSheet
    <3>1. form' = [form EXCEPT !.sheet = stored, !.loaded = TRUE, !.touched = FALSE,
                               !.notesField = "hidden"]
      BY <1>4, <2>3 DEF PreviousScores
    <3>2. form' \in Form /\ form'.team = form.team /\ form'.sheet = stored
      <4> HIDE DEF stored
      <4> QED
        BY <1>0, <2>1, <2>3, <3>1 DEF Form
    <3> QED
      BY <3>2
  <2> QED
    BY <2>2, <2>3
<1>5. ASSUME NEW sheet \in Sheet, form' = manageScoreUpdate(sheet)
      PROVE  form' \in Form /\ form'.touched
  BY <1>0, <1>5 DEF manageScoreUpdate, Form
<1>6. form.sheet \in Sheet
  BY <1>0 DEF Form
<1>7. ASSUME NEW m \in Marks, broadcastScore(m)
      PROVE  form' = form \/ (form' \in Form /\ form'.touched)
  <2>1. [form.sheet EXCEPT !.marks = m] \in Sheet
    BY <1>6 DEF Sheet
  <2> QED
    BY <1>5, <1>7, <2>1 DEF broadcastScore
<1>8. ASSUME NEW n \in Notes, textViewDidChange(n)
      PROVE  form' \in Form /\ form'.touched
  <2>1. [form.sheet EXCEPT !.notes = n] \in Sheet
    BY <1>6 DEF Sheet
  <2> QED
    BY <1>5, <1>8, <2>1 DEF textViewDidChange
<1> QED
  BY <1>0, <1>2, <1>3, <1>4, <1>7, <1>8

(* The app is killed: all that was on its way is lost.                     *)
LEMMA RelaunchKeeps ==
    ASSUME IInv, Relaunch
    PROVE  IInv'
<1> USE DEF database, session, gates, bounds
<1>1. outbox' = <<>> /\ outbox' \in Seq(Write) /\ Len(outbox') = 0
  BY EmptySeq DEF Relaunch
<1>2. \A k, t, j : Pending(k, t, j)' = {}
  BY <1>1 DEF Pending
<1>3. Types'
  BY <1>1 DEF IInv, Types, Relaunch
<1>4. kills' # 0
  BY DEF IInv, Types, Relaunch
<1>5. JudgedHasSheet' /\ EntriesFollowSheets' /\ SheetsHaveEntries'
  BY <1>2, <1>4 DEF IInv, JudgedHasSheet, EntriesFollowSheets, SheetsHaveEntries, Relaunch
<1>6. UntouchedFormIsStored'
  BY DEF UntouchedFormIsStored, Relaunch
<1> QED
  BY <1>3, <1>5, <1>6 DEF IInv

(* A submission: the sheet goes in front of the entry, and the form closes.*)
LEMMA SubmitKeeps ==
    ASSUME ScoringAssumption, IInv, submitScores
    PROVE  IInv'
<1> USE DEF database, session, gates, bounds
<1>1. Types /\ JudgedHasSheet /\ EntriesFollowSheets /\ SheetsHaveEntries
  BY DEF IInv
<1>2. UNCHANGED <<sheets, judgedTeams, user, kills>> /\ form' = NoForm
  BY DEF submitScores
<1>3. Types'
  BY <1>1, <1>2, SubmitAppends DEF Types
<1>4. EntriesFollowSheets'
  <2>1. SUFFICES ASSUME NEW t \in Teams, NEW j \in Judges, NEW i \in Pending("judged", t, j)'
                 PROVE  \/ sheets[t][j] # NoSheet
                        \/ \E k \in Pending("sheet", t, j)' : k < i
    BY <1>2 DEF EntriesFollowSheets
  <2>2. Pending("sheet", t, j) \subseteq Pending("sheet", t, j)'
    BY <1>1, SubmitAppends
  <2>3. CASE i \in Pending("judged", t, j)
    BY <1>1, <2>2, <2>3 DEF EntriesFollowSheets
  <2>4. CASE i \notin Pending("judged", t, j)
    <3>1. /\ i = Len(outbox) + 2 /\ t = form.team /\ j = user
          /\ Len(outbox) \in Nat
      BY <1>1, <2>4, SubmitAppends
    <3>2. Len(outbox) + 1 \in Pending("sheet", t, j)'
      BY <1>1, <3>1, SubmitAppends
    <3> QED
      BY <3>1, <3>2
  <2> QED
    BY <2>3, <2>4
<1>5. SheetsHaveEntries'
  <2>1. SUFFICES ASSUME kills = 0, NEW t \in Teams, NEW j \in Judges,
                        sheets[t][j] # NoSheet \/ Pending("sheet", t, j)' # {}
                 PROVE  judgedTeams[j][t] > 0 \/ Pending("judged", t, j)' # {}
    BY <1>2 DEF SheetsHaveEntries
  <2>2. CASE sheets[t][j] # NoSheet \/ Pending("sheet", t, j) # {}
    <3>1. judgedTeams[j][t] > 0 \/ Pending("judged", t, j) # {}
      BY <1>1, <2>1, <2>2 DEF SheetsHaveEntries
    <3>2. Pending("judged", t, j) \subseteq Pending("judged", t, j)'
      BY <1>1, SubmitAppends
    <3> QED
      BY <3>1, <3>2
  <2>3. CASE Pending("sheet", t, j)' # {} /\ Pending("sheet", t, j) = {}
    <3>1. t = form.team /\ j = user
      BY <1>1, <2>3, SubmitAppends
    <3> QED
      BY <1>1, <3>1, SubmitAppends
  <2> QED
    BY <2>1, <2>2, <2>3
<1>6. JudgedHasSheet' /\ UntouchedFormIsStored'
  BY <1>1, <1>2 DEF JudgedHasSheet, UntouchedFormIsStored
<1> QED
  BY <1>3, <1>4, <1>5, <1>6 DEF IInv

LEMMA ExceptTyped ==
    ASSUME NEW A, NEW B, NEW C, NEW f \in [A -> [B -> C]], NEW a \in A, NEW b \in B, NEW c \in C
    PROVE  [f EXCEPT ![a][b] = c] \in [A -> [B -> C]]
OBVIOUS

(* The front of the outbox reaches the database, and no judge's latest     *)
(* sheet changes by that.                                                  *)
LEMMA StoreKeepsLatest ==
    ASSUME Types, Store, NEW t \in Teams, NEW j \in Judges
    PROVE  LocalSheet(t, j)' = LocalSheet(t, j)
<1> DEFINE mine == Pending("sheet", t, j)
           rest == Pending("sheet", t, j)'
           w == outbox[1]
<1>1. /\ w \in Write /\ Len(outbox) \in Nat /\ mine \subseteq 1..Len(outbox)
      /\ \A i : i \in rest <=> i \in Nat \ {0} /\ i + 1 \in mine
      /\ 1 \in mine <=> w.kind = "sheet" /\ w.team = t /\ w.judge = j
      /\ \A i \in rest : outbox'[i] = outbox[i + 1]
  <2>1. /\ w \in Write /\ Len(outbox) \in Nat \ {0} /\ mine \subseteq 1..Len(outbox)
        /\ \A i : i \in rest <=> i \in Nat \ {0} /\ i + 1 \in mine
    BY StoreShifts, PendingIsFinite
  <2>2. 1 \in mine <=> w.kind = "sheet" /\ w.team = t /\ w.judge = j
    BY <2>1 DEF Pending
  <2>3. ASSUME NEW i \in rest PROVE outbox'[i] = outbox[i + 1]
    <3>1. i \in Nat \ {0} /\ i + 1 \in mine
      BY <2>1
    <3>2. i + 1 \in 1..Len(outbox)
      BY <2>1, <3>1
    <3> QED
      BY <3>1, <3>2, StoreShifts
  <2> QED
    BY <2>1, <2>2, <2>3
<1>2. sheets'[t][j] = IF 1 \in mine THEN w.sheet ELSE sheets[t][j]
  <2>1. w.team \in Teams /\ w.judge \in Judges
    BY <1>1, WriteFacts
  <2>2. Head(outbox) = w
    OBVIOUS
  <2> QED
    BY <1>1, <2>1, <2>2 DEF Store, Types
<1>3. CASE rest = {}
  <2>1. LocalSheet(t, j)' = sheets'[t][j]
    BY <1>3 DEF LocalSheet
  <2>2. ASSUME NEW k \in mine, k # 1 PROVE FALSE
    <3>1. k - 1 \in Nat \ {0} /\ (k - 1) + 1 = k
      BY <1>1, <2>2
    <3> QED
      BY <1>1, <1>3, <3>1
  <2>3. CASE 1 \in mine
    <3>1. mine = {1}
      BY <2>2, <2>3
    <3>2. Max(mine) = 1
      BY <1>1, <3>1, MaxIsGreatest
    <3> QED
      BY <1>2, <2>1, <2>3, <3>1, <3>2 DEF LocalSheet
  <2>4. CASE 1 \notin mine
    BY <1>2, <2>1, <2>2, <2>4 DEF LocalSheet
  <2> QED
    BY <2>3, <2>4
<1>4. CASE rest # {}
  <2>1. rest \subseteq 1..Len(outbox)
    BY <1>1
  <2>2. PICK i \in rest : \A k \in rest : k <= i
    BY <1>1, <1>4, <2>1, GreatestNatural
  <2>3. i + 1 \in mine /\ \A k \in mine : k <= i + 1
    <3>1. i \in Nat \ {0} /\ i + 1 \in mine
      BY <1>1, <2>2
    <3>2. ASSUME NEW k \in mine, k > i + 1 PROVE FALSE
      <4>1. k \in Nat /\ k - 1 \in Nat \ {0} /\ (k - 1) + 1 = k
        BY <1>1, <3>1, <3>2
      <4>2. k - 1 \in rest
        BY <1>1, <4>1
      <4> QED
        BY <2>2, <3>1, <3>2, <4>1, <4>2
    <3> QED
      BY <1>1, <3>1, <3>2
  <2>4. Max(rest) = i /\ Max(mine) = i + 1
    <3> HIDE DEF mine, rest
    <3> QED
      BY <1>1, <2>1, <2>2, <2>3, MaxIsGreatest
  <2>5. LocalSheet(t, j)' = outbox'[i].sheet /\ LocalSheet(t, j) = outbox[i + 1].sheet
    BY <1>4, <2>3, <2>4 DEF LocalSheet
  <2> QED
    BY <1>1, <2>2, <2>5
<1> QED
  BY <1>3, <1>4

LEMMA StoreKeeps ==
    ASSUME ScoringAssumption, IInv, Store
    PROVE  IInv'
<1> USE DEF database, session, gates, bounds
<1> DEFINE w == outbox[1]
<1>1. Types /\ JudgedHasSheet /\ EntriesFollowSheets /\ SheetsHaveEntries
      /\ UntouchedFormIsStored
  BY DEF IInv
<1>2. /\ w \in Write /\ Len(outbox) \in Nat \ {0}
      /\ w.kind \in {"sheet", "judged"} /\ w.team \in Teams /\ w.judge \in Judges
      /\ w.kind = "sheet" => w.sheet \in Sheet /\ w.sheet # NoSheet
  BY <1>1, StoreShifts, WriteFacts DEF ScoringAssumption, Sheet
<1>3. /\ Head(outbox) = w
      /\ UNCHANGED <<user, form, kills>>
  BY DEF Store
<1>4. ASSUME NEW t \in Teams, NEW j \in Judges, NEW k, NEW i
      PROVE  /\ i \in Pending(k, t, j)' <=> i \in Nat \ {0} /\ i + 1 \in Pending(k, t, j)
             /\ 1 \in Pending(k, t, j) <=> w.kind = k /\ w.team = t /\ w.judge = j
  <2>1. i \in Pending(k, t, j)' <=> i \in Nat \ {0} /\ i + 1 \in Pending(k, t, j)
    BY <1>1, StoreShifts
  <2>2. 1 \in Pending(k, t, j) <=> w.kind = k /\ w.team = t /\ w.judge = j
    BY <1>2 DEF Pending
  <2> QED
    BY <2>1, <2>2
<1>5. ASSUME NEW t \in Teams, NEW j \in Judges
      PROVE  /\ sheets[t][j] # NoSheet => sheets'[t][j] # NoSheet
             /\ 1 \in Pending("sheet", t, j) => sheets'[t][j] # NoSheet
             /\ sheets'[t][j] # NoSheet =>
                    sheets[t][j] # NoSheet \/ 1 \in Pending("sheet", t, j)
             /\ judgedTeams'[j][t] = judgedTeams[j][t]
                    + IF 1 \in Pending("judged", t, j) THEN 1 ELSE 0
             /\ judgedTeams[j][t] \in Nat
  <2>1. 1 \in Pending("sheet", t, j) <=> w.kind = "sheet" /\ w.team = t /\ w.judge = j
    BY <1>4
  <2>2. 1 \in Pending("judged", t, j) <=> w.kind = "judged" /\ w.team = t /\ w.judge = j
    BY <1>4
  <2>3. CASE w.kind = "sheet"
    BY <1>1, <1>2, <1>3, <2>1, <2>2, <2>3 DEF Store, Types
  <2>4. CASE w.kind = "judged"
    BY <1>1, <1>2, <1>3, <2>1, <2>2, <2>4 DEF Store, Types
  <2> QED
    BY <1>2, <2>3, <2>4
<1>6. Types'
  <2>1. outbox' \in Seq(Write)
    BY <1>1, StoreShifts
  <2>2. CASE w.kind = "sheet"
    <3>1. /\ sheets' = [sheets EXCEPT ![w.team][w.judge] = w.sheet]
          /\ judgedTeams' = judgedTeams
      BY <1>3, <2>2 DEF Store
    <3>2. sheets' \in [Teams -> [Judges -> Sheet \cup {NoSheet}]]
      BY <1>1, <1>2, <2>2, <3>1, ExceptTyped DEF Types
    <3> QED
      BY <1>1, <1>3, <2>1, <3>1, <3>2 DEF Types
  <2>3. CASE w.kind = "judged"
    <3>1. /\ judgedTeams' = [judgedTeams EXCEPT ![w.judge][w.team] = judgedTeams[w.judge][w.team] + 1]
          /\ sheets' = sheets
      BY <1>3, <2>3 DEF Store
    <3>2. judgedTeams[w.judge][w.team] + 1 \in Nat
      BY <1>1, <1>2 DEF Types
    <3>3. judgedTeams' \in [Judges -> [Teams -> Nat]]
      BY <1>1, <1>2, <3>1, <3>2, ExceptTyped DEF Types
    <3> QED
      BY <1>1, <1>3, <2>1, <3>1, <3>3 DEF Types
  <2> QED
    BY <1>2, <2>2, <2>3
<1>7. JudgedHasSheet'
  <2>1. SUFFICES ASSUME NEW t \in Teams, NEW j \in Judges, judgedTeams'[j][t] > 0
                 PROVE  sheets'[t][j] # NoSheet
    BY DEF JudgedHasSheet
  <2>2. CASE 1 \in Pending("judged", t, j)
    <3>1. ~ \E k \in Pending("sheet", t, j) : k < 1
      BY DEF Pending
    <3> QED
      BY <1>1, <1>5, <2>2, <3>1 DEF EntriesFollowSheets
  <2>3. CASE 1 \notin Pending("judged", t, j)
    BY <1>1, <1>5, <2>1, <2>3 DEF JudgedHasSheet
  <2> QED
    BY <2>2, <2>3
<1>8. EntriesFollowSheets'
  <2>1. SUFFICES ASSUME NEW t \in Teams, NEW j \in Judges, NEW i \in Pending("judged", t, j)'
                 PROVE  \/ sheets'[t][j] # NoSheet
                        \/ \E k \in Pending("sheet", t, j)' : k < i
    BY DEF EntriesFollowSheets
  <2>2. i \in Nat \ {0} /\ i + 1 \in Pending("judged", t, j)
    BY <1>4
  <2>3. CASE sheets[t][j] # NoSheet
    BY <1>5, <2>3
  <2>4. ASSUME NEW k \in Pending("sheet", t, j), k < i + 1
        PROVE  \/ sheets'[t][j] # NoSheet
               \/ \E l \in Pending("sheet", t, j)' : l < i
    <3>1. k \in 1..Len(outbox)
      BY DEF Pending
    <3>2. CASE k = 1
      BY <1>5, <2>4, <3>2
    <3>3. CASE k # 1
      <4>1. k - 1 \in Nat \ {0} /\ (k - 1) + 1 = k /\ k - 1 < i
        BY <1>2, <2>2, <2>4, <3>1, <3>3
      <4>2. k - 1 \in Pending("sheet", t, j)'
        BY <1>4, <4>1
      <4> QED
        BY <4>1, <4>2
    <3> QED
      BY <3>2, <3>3
  <2> QED
    BY <1>1, <2>2, <2>3, <2>4 DEF EntriesFollowSheets
<1>9. SheetsHaveEntries'
  <2>1. SUFFICES ASSUME kills = 0, NEW t \in Teams, NEW j \in Judges,
                        sheets'[t][j] # NoSheet \/ Pending("sheet", t, j)' # {}
                 PROVE  judgedTeams'[j][t] > 0 \/ Pending("judged", t, j)' # {}
    BY <1>3 DEF SheetsHaveEntries
  <2>2. sheets[t][j] # NoSheet \/ Pending("sheet", t, j) # {}
    BY <1>4, <1>5, <2>1
  <2>3. judgedTeams[j][t] > 0 \/ Pending("judged", t, j) # {}
    BY <1>1, <2>1, <2>2 DEF SheetsHaveEntries
  <2>4. CASE judgedTeams[j][t] > 0 \/ 1 \in Pending("judged", t, j)
    BY <1>5, <2>4
  <2>5. ASSUME NEW i \in Pending("judged", t, j), i # 1
        PROVE  Pending("judged", t, j)' # {}
    <3>1. i - 1 \in Nat \ {0} /\ (i - 1) + 1 = i
      BY <1>2, <2>5 DEF Pending
    <3> QED
      BY <1>4, <3>1
  <2> QED
    BY <2>3, <2>4, <2>5
<1>10. UntouchedFormIsStored'
  <2>1. CASE form = NoForm
    BY <1>3, <2>1 DEF UntouchedFormIsStored
  <2>2. CASE form # NoForm
    <3>1. form.team \in Teams /\ user \in Judges
      BY <1>1, <2>2 DEF Types, Form
    <3>2. \A t \in Teams, j \in Judges : LocalSheet(t, j)' = LocalSheet(t, j)
      BY <1>1, StoreKeepsLatest
    <3> QED
      BY <1>1, <1>3, <3>1, <3>2 DEF UntouchedFormIsStored
  <2> QED
    BY <2>1, <2>2
<1> QED
  BY <1>6, <1>7, <1>8, <1>9, <1>10 DEF IInv

LEMMA NextKeeps == ASSUME ScoringAssumption, IInv, [Next]_vars PROVE IInv'
<1>1. \/ \E j \in Judges : Login(j)
      \/ logOutUser
      \/ \E t \in Teams : OpenFromList(t) \/ OpenFromSearch(t)
      \/ dismissVC \/ submitRefused \/ JudgedEvent \/ ConfigEvent
      \/ \E c \in Config : Organise(c)
      \/ UNCHANGED vars
      \/ NotesShown \/ PreviousScores
      \/ \E m \in Marks : broadcastScore(m)
      \/ \E n \in Notes : textViewDidChange(n)
      \/ Relaunch \/ submitScores \/ Store
  BY DEF Next
<1> QED
  BY <1>1, OpeningKeeps, FillingKeeps, RelaunchKeeps, SubmitKeeps, StoreKeeps

(* A step changes nothing on a form that has been closed all the time.     *)
LEMMA GatesKept ==
    ASSUME ScoringAssumption, IInv, GatesInv, [Next]_vars
    PROVE  GatesInv'
<1> USE DEF database, session, gates, bounds
<1>0. /\ Types /\ ClosedFormIsUntouched /\ UnfilledFormIsEmpty
      /\ form # NoForm => form \in Form /\ user \in Judges
  BY DEF IInv, GatesInv, Types
<1>1. ASSUME form' = NoForm PROVE GatesInv'
  BY <1>1 DEF GatesInv, ClosedFormIsUntouched, UnfilledFormIsEmpty
<1>2. ASSUME UNCHANGED <<form, judgedTeamIds, cfg, user>>,
             form # NoForm => LocalSheet(form.team, user)' = LocalSheet(form.team, user)
      PROVE  GatesInv'
  <2>1. \A t : disallowEdits(t)' <=> disallowEdits(t)
    BY <1>2 DEF disallowEdits, isTeamScored, Closed
  <2> QED
    BY <1>0, <1>2, <2>1 DEF GatesInv, ClosedFormIsUntouched, UnfilledFormIsEmpty
<1>3. ASSUME NEW j \in Judges, Login(j) PROVE GatesInv'
  BY <1>0, <1>1, <1>3 DEF Login, Types
<1>4. CASE logOutUser \/ dismissVC \/ Relaunch \/ submitScores
  BY <1>1, <1>4 DEF logOutUser, dismissVC, Relaunch, submitScores
<1>5. ASSUME NEW t \in Teams, OpenFromList(t) \/ OpenFromSearch(t) PROVE GatesInv'
  <2>1. form' = NoForm \/ form' = NewForm(t)
    BY <1>5 DEF OpenFromList, OpenFromSearch
  <2>2. ASSUME form' = NewForm(t) PROVE GatesInv'
    <3>1. UNCHANGED <<judgedTeamIds, cfg>>
      BY <1>5 DEF OpenFromList, OpenFromSearch
    <3>2. disallowEdits(t)' <=> disallowEdits(t)
      BY <3>1 DEF disallowEdits, Closed
    <3> QED
      BY <2>2, <3>2, NewFormFacts DEF GatesInv, ClosedFormIsUntouched, UnfilledFormIsEmpty
  <2> QED
    BY <1>1, <2>1, <2>2
<1>6. ASSUME form # NoForm, NotesShown \/ PreviousScores \/ (\E m \in Marks : broadcastScore(m))
                            \/ (\E n \in Notes : textViewDidChange(n))
      PROVE  GatesInv'
  <2>1. /\ UNCHANGED <<judgedTeamIds, cfg, sheets, outbox, user>>
        /\ form \in Form
    BY <1>0, <1>6 DEF NotesShown, PreviousScores, broadcastScore, textViewDidChange
  <2>2. \A t : disallowEdits(t)' <=> disallowEdits(t)
    BY <2>1 DEF disallowEdits, Closed
  <2>3. \A t, j : LocalSheet(t, j)' = LocalSheet(t, j)
    BY <2>1, SameLocalSheet
  <2>4. CASE NotesShown
    <3>1. PICK f \in {"readonly", "editable"} :
              form' = [form EXCEPT !.notesField = f] /\ (f = "editable" => ~disallowEdits(form.team))
      BY <2>4 DEF NotesShown
    <3>2. /\ form'.team = form.team /\ form'.sheet = form.sheet /\ form'.loaded = form.loaded
          /\ form'.touched = form.touched /\ form'.open = form.open /\ form'.notesField = f
      BY <2>1, <3>1 DEF Form
    <3> QED
      BY <1>0, <1>6, <2>1, <2>2, <2>3, <3>1, <3>2
      DEF GatesInv, ClosedFormIsUntouched, UnfilledFormIsEmpty
  <2>5. CASE PreviousScores
    <3> DEFINE stored == LocalSheet(form.team, user)
    <3>1. CASE stored = NoSheet
      <4>1. form' = [form EXCEPT !.loaded = TRUE]
        BY <2>5, <3>1 DEF PreviousScores
      <4>2. /\ form'.team = form.team /\ form'.sheet = form.sheet /\ form'.touched = form.touched
            /\ form'.open = form.open /\ form'.notesField = form.notesField
        BY <2>1, <4>1 DEF Form
      <4> QED
        BY <1>0, <1>6, <2>1, <2>2, <2>3, <3>1, <4>2
        DEF GatesInv, ClosedFormIsUntouched, UnfilledFormIsEmpty
    <3>2. CASE stored # NoSheet
      <4>1. form' = [form EXCEPT !.sheet = stored, !.loaded = TRUE, !.touched = FALSE,
                                 !.notesField = "hidden"]
        BY <2>5, <3>2 DEF PreviousScores
      <4>2. /\ form'.team = form.team /\ form'.loaded /\ ~form'.touched
            /\ form'.open = form.open /\ form'.notesField = "hidden"
        <5> HIDE DEF stored
        <5> QED
          BY <2>1, <4>1 DEF Form
      <4> QED
        BY <1>0, <1>6, <2>1, <2>2, <2>3, <3>2, <4>2
        DEF GatesInv, ClosedFormIsUntouched, UnfilledFormIsEmpty
    <3> QED
      BY <3>1, <3>2
  <2>6. ASSUME NEW m \in Marks, broadcastScore(m) PROVE GatesInv'
    <3>1. CASE disallowEdits(form.team)
      <4>1. form' = form
        BY <2>6, <3>1 DEF broadcastScore
      <4> QED
        BY <1>2, <2>1, <2>3, <4>1
    <3>2. CASE ~disallowEdits(form.team)
      <4>1. form.open
        BY <1>0, <1>6, <3>2 DEF ClosedFormIsUntouched
      <4>2. form'.touched /\ form'.open = form.open
        BY <2>1, <2>6, <3>2 DEF broadcastScore, manageScoreUpdate, Form
      <4> QED
        BY <4>1, <4>2 DEF GatesInv, ClosedFormIsUntouched, UnfilledFormIsEmpty
    <3> QED
      BY <3>1, <3>2
  <2>7. ASSUME NEW n \in Notes, textViewDidChange(n) PROVE GatesInv'
    <3>1. form.open
      BY <1>0, <1>6, <2>7 DEF ClosedFormIsUntouched, textViewDidChange
    <3>2. form'.touched /\ form'.open = form.open
      BY <2>1, <2>7 DEF textViewDidChange, manageScoreUpdate, Form
    <3> QED
      BY <3>1, <3>2 DEF GatesInv, ClosedFormIsUntouched, UnfilledFormIsEmpty
  <2> QED
    BY <1>6, <2>4, <2>5, <2>6, <2>7
<1>7. CASE \/ submitRefused \/ (\E c \in Config : Organise(c)) \/ UNCHANGED vars
  <2>1. UNCHANGED <<form, judgedTeamIds, cfg, user, sheets, outbox>>
    BY <1>7 DEF submitRefused, Organise, vars
  <2> QED
    BY <1>2, <2>1, SameLocalSheet
<1>8. CASE Store
  <2>1. UNCHANGED <<form, judgedTeamIds, cfg, user>>
    BY <1>8 DEF Store
  <2>2. form # NoForm => LocalSheet(form.team, user)' = LocalSheet(form.team, user)
    <3>1. form # NoForm => form.team \in Teams /\ user \in Judges
      BY <1>0 DEF Form
    <3>2. \A t \in Teams, j \in Judges : LocalSheet(t, j)' = LocalSheet(t, j)
      BY <1>0, <1>8, StoreKeepsLatest
    <3> QED
      BY <2>1, <3>1, <3>2
  <2> QED
    BY <1>2, <2>1, <2>2
<1>9. ASSUME form' = Regated(judgedTeamIds', cfg'), UNCHANGED <<sheets, outbox, user>>
      PROVE  GatesInv'
  <2>1. CASE form = NoForm
    BY <1>1, <1>9, <2>1 DEF Regated
  <2>2. CASE form # NoForm
    <3>1. PICK ids, c : ids = judgedTeamIds' /\ c = cfg'
      OBVIOUS
    <3>2. /\ form'.team = form.team /\ form'.sheet = form.sheet /\ form'.loaded = form.loaded
          /\ form'.touched = form.touched /\ form'.notesField = form.notesField
          /\ ~form'.open => ~form.open /\ Closed(form.team, ids, c)
      <4>1. form' = Regated(ids, c)
        BY <1>9, <3>1
      <4> QED
        BY <1>0, <2>2, <4>1, RegatedFacts
    <3>3. \A t : disallowEdits(t)' <=> Closed(t, ids, c)
      BY <3>1 DEF disallowEdits, Closed
    <3>4. \A t, j : LocalSheet(t, j)' = LocalSheet(t, j)
      BY <1>9, SameLocalSheet
    <3> QED
      BY <1>0, <1>9, <2>2, <3>2, <3>3, <3>4
      DEF GatesInv, ClosedFormIsUntouched, UnfilledFormIsEmpty
  <2> QED
    BY <2>1, <2>2
<1>10. CASE JudgedEvent
  BY <1>9, <1>10 DEF JudgedEvent
<1>11. CASE ConfigEvent
  BY <1>9, <1>11 DEF ConfigEvent
<1> QED
  BY <1>3, <1>4, <1>5, <1>6, <1>7, <1>8, <1>10, <1>11
  DEF Next, NotesShown, PreviousScores, broadcastScore, textViewDidChange

LEMMA InvariantHolds == ASSUME ScoringAssumption PROVE Spec => []IInv
<1>1. Init => IInv
  BY InitEstablishes
<1>2. IInv /\ [Next]_vars => IInv'
  BY NextKeeps
<1> QED
  BY <1>1, <1>2, PTL DEF Spec

-----------------------------------------------------------------------------
(* An entry of judgedTeams never appears without the score sheet it stands *)
(* for: submitScores writes the sheet first.                               *)
LEMMA JudgedHasSheetHolds == ASSUME ScoringAssumption PROVE Spec => []JudgedHasSheet
<1>1. IInv => JudgedHasSheet
  BY DEF IInv
<1> QED
  BY <1>1, InvariantHolds, PTL

(* A sheet that the closing of edits cannot see (no entry stored or on its *)
(* way) needs a kill of the app between the two writes of submitScores.    *)
LEMMA UnlistedSheetNeedsKillHolds ==
    ASSUME ScoringAssumption PROVE Spec => []UnlistedSheetNeedsKill
<1>1. ASSUME IInv PROVE UnlistedSheetNeedsKill
  <2>1. SUFFICES ASSUME NEW j \in Judges, NEW t \in Teams, sheets[t][j] # NoSheet, kills = 0
                 PROVE  LocalEntries(t, j) > 0
    BY <1>1 DEF IInv, Types, UnlistedSheetNeedsKill
  <2> DEFINE entries == Pending("judged", t, j)
  <2>2. judgedTeams[j][t] > 0 \/ entries # {}
    BY <1>1, <2>1 DEF IInv, SheetsHaveEntries
  <2>3. judgedTeams[j][t] \in Nat /\ IsFiniteSet(entries)
    BY <1>1, PendingIsFinite DEF IInv, Types
  <2>4. Cardinality(entries) \in Nat /\ (Cardinality(entries) = 0 <=> entries = {})
    BY <2>3, FS_CardinalityType, FS_EmptySet
  <2> QED
    BY <2>2, <2>3, <2>4 DEF LocalEntries
<1> QED
  BY <1>1, InvariantHolds, PTL

(* What counts as judged and what was scored differ only by a submission   *)
(* of submitScores that is under way or was cut short by a kill.           *)
THEOREM JudgedMatchesSheetsHolds ==
    ASSUME ScoringAssumption PROVE Spec => []JudgedMatchesSheets
<1>1. JudgedHasSheet /\ UnlistedSheetNeedsKill => JudgedMatchesSheets
  BY DEF JudgedMatchesSheets
<1> QED
  BY <1>1, JudgedHasSheetHolds, UnlistedSheetNeedsKillHolds, PTL

(* A form whose judge has changed nothing since fetchPreviousScores        *)
(* answered holds the judge's latest sheet, uploaded or not.               *)
THEOREM UntouchedFormIsStoredHolds ==
    ASSUME ScoringAssumption PROVE Spec => []UntouchedFormIsStored
<1>1. IInv => UntouchedFormIsStored
  BY DEF IInv
<1> QED
  BY <1>1, InvariantHolds, PTL

(* What a submission sends, and to the outbox of which state.              *)
LEMMA OnlySubmissionsSend ==
    ASSUME IInv, [Next]_vars, Submission
    PROVE  submitScores
<1> USE DEF database, session, gates, bounds
<1>1. Len(outbox) \in Nat /\ Len(outbox') > Len(outbox)
  BY PendingIsFinite DEF IInv, Submission
<1>2. CASE Relaunch
  BY <1>1, <1>2, EmptySeq DEF Relaunch
<1>3. CASE Store
  <2>1. outbox \in Seq(Write) /\ outbox # <<>> /\ outbox' = Tail(outbox)
    BY <1>3 DEF IInv, Types, Store
  <2>2. Len(outbox') = Len(outbox) - 1
    BY <2>1, HeadTailProperties
  <2> QED
    BY <1>1, <2>2
<1>4. CASE UNCHANGED outbox
  BY <1>1, <1>4
<1>5. submitScores \/ Relaunch \/ Store \/ UNCHANGED outbox
  BY DEF Next, vars, Login, logOutUser, OpenFromList, OpenFromSearch, dismissVC,
         submitRefused, JudgedEvent, ConfigEvent, Organise,
         NotesShown, PreviousScores, broadcastScore, textViewDidChange
<1> QED
  BY <1>2, <1>3, <1>4, <1>5

(* A sheet that is stored or on its way is not replaced by submitScores    *)
(* while the device knows edits to be closed, unless JudgedTeams observes  *)
(* another judge, has not heard of all entries, or a kill has parted a     *)
(* sheet from its entry.                                                   *)
LEMMA SheetIsKept ==
    ASSUME IInv, [Next]_vars
    PROVE  ClosedEditsKeepSheet
<1> SUFFICES ASSUME Submission, cfg.allowEdits = 0, ~Unaware, kills = 0
             PROVE  LocalSheet(form.team, user) = NoSheet
  BY DEF ClosedEditsKeepSheet, IInv, Types
<1>1. submitScores /\ form # NoForm /\ form.team \in Teams /\ user \in Judges
  BY OnlySubmissionsSend DEF Submission, IInv, Types, Form
<1> DEFINE entries == Pending("judged", form.team, user)
<1>2. ~(LocalEntries(form.team, user) > 0)
  <2>1. form.team \notin judgedTeamIds
    BY <1>1 DEF submitScores, MayUpload, isTeamScored
  <2>2. judgedTeamIds = {t \in Teams : LocalEntries(t, user) > 0}
    BY DEF Unaware, LocallyJudged
  <2> QED
    BY <1>1, <2>1, <2>2
<1>3. judgedTeams[user][form.team] \in Nat /\ IsFiniteSet(entries)
  BY <1>1, PendingIsFinite DEF IInv, Types
<1>4. Cardinality(entries) \in Nat /\ (Cardinality(entries) = 0 <=> entries = {})
  BY <1>3, FS_CardinalityType, FS_EmptySet
<1>5. judgedTeams[user][form.team] = 0 /\ entries = {}
  BY <1>2, <1>3, <1>4 DEF LocalEntries
<1> QED
  BY <1>1, <1>5 DEF IInv, SheetsHaveEntries, LocalSheet

(* A form that the gates never let the judge change is sent as it was.     *)
LEMMA ClosedFormIsSentAsIs ==
    ASSUME IInv, GatesInv, [Next]_vars
    PROVE  ClosedFormIsUnchanged
<1> SUFFICES ASSUME Submission, ~form.open
             PROVE  outbox'[Len(outbox) + 1].sheet =
                        IF form.loaded /\ LocalSheet(form.team, user) # NoSheet
                        THEN LocalSheet(form.team, user) ELSE DefaultSheet
  BY DEF ClosedFormIsUnchanged
<1>1. submitScores /\ form # NoForm
  BY OnlySubmissionsSend DEF Submission
<1>2. outbox'[Len(outbox) + 1].sheet = form.sheet
  BY <1>1, SubmitAppends DEF IInv
<1> QED
  BY <1>1, <1>2 DEF IInv, GatesInv, ClosedFormIsUntouched, UnfilledFormIsEmpty,
                    UntouchedFormIsStored

(* The closed gates: submitScores replaces no sheet while edits are known  *)
(* to be closed, except where the entry cannot be known; and a form that   *)
(* was closed all the time, whose notes cell (NotesCell.configureCell)     *)
(* asked the gates once and whose marks ask them at every tap, is sent     *)
(* unchanged.                                                              *)
THEOREM ClosedGatesHoldHolds ==
    ASSUME ScoringAssumption PROVE Spec => ClosedGatesHold
<1>1. Init => IInv /\ GatesInv
  BY InitEstablishes DEF Init, GatesInv, ClosedFormIsUntouched, UnfilledFormIsEmpty
<1>2. IInv /\ GatesInv /\ [Next]_vars => (IInv /\ GatesInv)'
  BY NextKeeps, GatesKept
<1>3. IInv /\ GatesInv /\ [Next]_vars => ClosedEditsKeepSheet /\ ClosedFormIsUnchanged
  BY SheetIsKept, ClosedFormIsSentAsIs
<1> QED
  BY <1>1, <1>2, <1>3, PTL DEF Spec, ClosedGatesHold
=============================================================================
