------------------------------ MODULE Session -------------------------------
(***************************************************************************)
(* Signing in with a phone number and a one-time code (LoginVC), signing   *)
(* out (TeamListVC.logOutUser) and the launch of the app (SceneDelegate).  *)
(*                                                                         *)
(* A number goes through three steps that each wait for an answer: the     *)
(* registration check, the sending of a code, the sign-in.  Nothing is     *)
(* disabled meanwhile, so several attempts may be under way, and answers   *)
(* reach screens that are no longer on top.  A screen that presents        *)
(* something already (an alert, the team list) presents nothing more.      *)
(*                                                                         *)
(* A person is the last ten digits of a phone number: that is the key of   *)
(* judges/ and what getUserPhoneNumber returns.                            *)
(***************************************************************************)
EXTENDS Integers, FiniteSets

CONSTANTS
    People,
    Nobody,
    Numbers,     \* texts typed: [key : People, format : Formats]
    NoNumber,    \* the empty field
    Attempts,    \* bound: submissions of a number, 1..n
    Logins,      \* bound: submissions of a code
    MaxScreens   \* bound: LoginVCs made by signing out

(***************************************************************************)
(* What a text looks like to the three functions that read it: ten bare    *)
(* digits; a country code and ten digits without a gap; accepted by the    *)
(* pattern but with separators among the last ten digits; not accepted.    *)
(***************************************************************************)
Formats == {"bare", "plus", "separated", "invalid"}

ASSUME SessionAssumption ==
    /\ Nobody \notin People
    /\ Numbers \subseteq [key : People, format : Formats]
    /\ NoNumber \notin Numbers
    /\ Attempts \subseteq Nat \ {0}
    /\ MaxScreens \in Nat

VARIABLES
    registered,   \* judges/ in the database
    user,         \* Auth.auth().currentUser, kept across launches
    hasRunBefore, authVerificationID,   \* UserDefaults; 0 is no id
    top,          \* "off", "login" or "teams": what is on the screen
    screen,       \* which LoginVC is the newest
    input,        \* what it shows: "phone" or "otp"
    field,        \* the text of its phone field
    alert,        \* it shows an alert
    listFor,      \* the judge of the newest TeamListVC
    attempts,     \* attempt |-> [stage, number, screen]
    logins,       \* sign-in |-> [stage, id, code, screen]
    overlapped    \* the user did not wait for an answer, since the launch

vars == <<registered, user, hasRunBefore, authVerificationID, top, screen, input,
          field, alert, listFor, attempts, logins, overlapped>>
loginScreen == <<screen, input, field, alert>>
stored == <<user, hasRunBefore, authVerificationID>>

Stages == {"unused", "checking", "verifying", "sent", "redeemed", "ended"}

Attempt == [stage : Stages, number : Numbers \cup {NoNumber}, screen : 0..MaxScreens]
SignIn == [stage : {"unused", "pending", "ended"}, id : Attempts \cup {0},
           code : Attempts \cup {0}, screen : 0..MaxScreens]

TypeOK ==
    /\ registered \in SUBSET People
    /\ user \in People \cup {Nobody} /\ listFor \in People \cup {Nobody}
    /\ hasRunBefore \in BOOLEAN /\ alert \in BOOLEAN /\ overlapped \in BOOLEAN
    /\ authVerificationID \in Attempts \cup {0}
    /\ top \in {"off", "login", "teams"}
    /\ screen \in 0..MaxScreens
    /\ input \in {"phone", "otp"}
    /\ field \in Numbers \cup {NoNumber}
    /\ attempts \in [Attempts -> Attempt]
    /\ logins \in [Logins -> SignIn]

(* Installed and not running.  The keychain may hold a user of an earlier  *)
(* installation.                                                           *)
Init ==
    /\ registered \in SUBSET People
    /\ user \in registered \cup {Nobody}
    /\ hasRunBefore = FALSE
    /\ authVerificationID = 0
    /\ top = "off"
    /\ screen = 0 /\ input = "phone" /\ field = NoNumber /\ alert = FALSE
    /\ listFor = Nobody
    /\ attempts = [a \in Attempts |-> [stage |-> "unused", number |-> NoNumber, screen |-> 0]]
    /\ logins = [l \in Logins |-> [stage |-> "unused", id |-> 0, code |-> 0, screen |-> 0]]
    /\ overlapped = FALSE

-----------------------------------------------------------------------------
validatePhoneNumber(number) == number # NoNumber /\ number.format # "invalid"

(* "phoneNumber.suffix(10)" is a key only if it is ten digits.             *)
checkIfUserRegistred(number) ==
    number.format \in {"bare", "plus"} /\ number.key \in registered

(* Seeded defect: the whole number is taken, with its country code.        *)
getUserPhoneNumberWhole(number) == number

(* Auth knows the verified number with its country code.                   *)
getUserPhoneNumber(number) == number.key

(* An answer that arrives for screen s finds it free to present something. *)
Free(s) == s = screen /\ top = "login" /\ ~alert

Busy == \/ \E a \in Attempts : attempts[a].stage \in {"checking", "verifying"}
        \/ \E l \in Logins : logins[l].stage = "pending"

(* The front desk registers a judge.                                       *)
Register(p) ==
    /\ p \notin registered
    /\ registered' = registered \cup {p}
    /\ UNCHANGED <<stored, top, loginScreen, listFor, attempts, logins, overlapped>>

(* Seeded defect: the screen is chosen before the old user is signed out.  *)
LaunchChoosesFirst(works) ==
    /\ top = "off"
    /\ user' = IF ~hasRunBefore /\ works THEN Nobody ELSE user
    /\ hasRunBefore' = (hasRunBefore \/ works)
    /\ top' = IF user = Nobody THEN "login" ELSE "teams"
    /\ listFor' = user
    /\ UNCHANGED <<registered, authVerificationID, loginScreen, attempts, logins, overlapped>>

(* scene(_:willConnectTo:options:).  Signing out may throw.                *)
Launch(works) ==
    /\ top = "off"
    /\ user' = IF ~hasRunBefore /\ works THEN Nobody ELSE user
    /\ hasRunBefore' = (hasRunBefore \/ works)
    /\ top' = IF user' = Nobody THEN "login" ELSE "teams"
    /\ listFor' = user'
    /\ UNCHANGED <<registered, authVerificationID, loginScreen, attempts, logins, overlapped>>

(* The app is killed: screens and answers are gone, the defaults, the      *)
(* keychain and the codes already sent stay.                               *)
Kill ==
    /\ top # "off"
    /\ top' = "off"
    /\ screen' = 0 /\ input' = "phone" /\ field' = NoNumber /\ alert' = FALSE
    /\ listFor' = Nobody
    /\ attempts' = [a \in Attempts |->
                       IF attempts[a].stage \in {"checking", "verifying"}
                       THEN [attempts[a] EXCEPT !.stage = "ended"] ELSE attempts[a]]
    /\ logins' = [l \in Logins |->
                     IF logins[l].stage = "pending"
                     THEN [logins[l] EXCEPT !.stage = "ended"] ELSE logins[l]]
    /\ overlapped' = FALSE
    /\ UNCHANGED <<registered, stored>>

-----------------------------------------------------------------------------
TypeNumber(number) ==
    /\ Free(screen) /\ input = "phone"
    /\ field' = number
    /\ UNCHANGED <<registered, stored, top, screen, input, alert, listFor, attempts,
                   logins, overlapped>>

(* _submitNumber, up to the registration check.                            *)
submitNumber(a) ==
    /\ Free(screen) /\ input = "phone"
    /\ attempts[a].stage = "unused"
    /\ validatePhoneNumber(field)
    /\ attempts' = [attempts EXCEPT ![a] =
                       [stage |-> "checking", number |-> field, screen |-> screen]]
    /\ overlapped' = (overlapped \/ Busy)
    /\ UNCHANGED <<registered, stored, top, loginScreen, listFor, logins>>

submitInvalid ==
    /\ Free(screen) /\ input = "phone"
    /\ ~validatePhoneNumber(field)
    /\ alert' = TRUE
    /\ overlapped' = (overlapped \/ Busy)
    /\ UNCHANGED <<registered, stored, top, screen, input, field, listFor, attempts, logins>>

dismissAlert ==
    /\ top = "login" /\ alert
    /\ alert' = FALSE
    /\ UNCHANGED <<registered, stored, top, screen, input, field, listFor, attempts,
                   logins, overlapped>>

(* Seeded defect: the code is sent to the number the field holds by now.   *)
RegistrationFoundCurrent(a) ==
    /\ attempts[a].stage = "checking"
    /\ checkIfUserRegistred(attempts[a].number)
    /\ attempts' = [attempts EXCEPT ![a].stage = "verifying", ![a].number = field]
    /\ UNCHANGED <<registered, stored, top, loginScreen, listFor, logins, overlapped>>

(* The registration check is answered.  The code goes to the number that   *)
(* was checked.                                                            *)
RegistrationFound(a) ==
    /\ attempts[a].stage = "checking"
    /\ checkIfUserRegistred(attempts[a].number)
    /\ attempts' = [attempts EXCEPT ![a].stage = "verifying"]
    /\ UNCHANGED <<registered, stored, top, loginScreen, listFor, logins, overlapped>>

RegistrationMissing(a) ==
    /\ attempts[a].stage = "checking"
    /\ ~checkIfUserRegistred(attempts[a].number)
    /\ attempts' = [attempts EXCEPT ![a].stage = "ended"]
    /\ alert' = (alert \/ Free(attempts[a].screen))
    /\ UNCHANGED <<registered, stored, top, screen, input, field, listFor, logins, overlapped>>

(* Seeded defects: the input changes and the id is not kept; the id kept   *)
(* is the number of attempts there may be.                                 *)
CodeSentNotKept(a) ==
    /\ attempts[a].stage = "verifying"
    /\ attempts' = [attempts EXCEPT ![a].stage = "sent"]
    /\ input' = IF attempts[a].screen = screen /\ top = "login" THEN "otp" ELSE input
    /\ UNCHANGED <<registered, stored, top, screen, field, alert, listFor, logins, overlapped>>

CodeSentWrongId(a) ==
    /\ attempts[a].stage = "verifying"
    /\ attempts' = [attempts EXCEPT ![a].stage = "sent"]
    /\ authVerificationID' = a + Cardinality(Attempts)
    /\ input' = IF attempts[a].screen = screen /\ top = "login" THEN "otp" ELSE input
    /\ UNCHANGED <<registered, user, hasRunBefore, top, screen, field, alert, listFor,
                   logins, overlapped>>

(* verifyPhoneNumber is answered: the id is kept, the last one wins, and   *)
(* the screen that asked for it turns to the code.                         *)
CodeSent(a) ==
    /\ attempts[a].stage = "verifying"
    /\ attempts' = [attempts EXCEPT ![a].stage = "sent"]
    /\ authVerificationID' = a
    /\ input' = IF attempts[a].screen = screen /\ top = "login" THEN "otp" ELSE input
    /\ UNCHANGED <<registered, user, hasRunBefore, top, screen, field, alert, listFor,
                   logins, overlapped>>

CodeNotSent(a) ==
    /\ attempts[a].stage = "verifying"
    /\ attempts' = [attempts EXCEPT ![a].stage = "ended"]
    /\ alert' = (alert \/ Free(attempts[a].screen))
    /\ UNCHANGED <<registered, stored, top, screen, input, field, listFor, logins, overlapped>>

hideOtp ==
    /\ Free(screen) /\ input = "otp"
    /\ input' = "phone"
    /\ UNCHANGED <<registered, stored, top, screen, field, alert, listFor, attempts,
                   logins, overlapped>>

(* _submitOtp: the code of some message the user has got (0: another one), *)
(* with the id that is stored now.                                         *)
submitOtp(l, code) ==
    /\ Free(screen) /\ input = "otp"
    /\ logins[l].stage = "unused"
    /\ code # 0 => attempts[code].stage \in {"sent", "redeemed"}
    /\ logins' = [logins EXCEPT ![l] =
                     [stage |-> "pending", id |-> authVerificationID, code |-> code,
                      screen |-> screen]]
    /\ overlapped' = (overlapped \/ Busy)
    /\ UNCHANGED <<registered, stored, top, loginScreen, listFor, attempts>>

(* Auth accepts a code once, for the id it was sent with.                  *)
SignInSucceeds(l) ==
    LET id == logins[l].id IN
    /\ logins[l].stage = "pending"
    /\ id # 0 /\ logins[l].code = id /\ attempts[id].stage = "sent"
    /\ logins' = [logins EXCEPT ![l].stage = "ended"]
    /\ attempts' = [attempts EXCEPT ![id].stage = "redeemed"]
    /\ user' = getUserPhoneNumber(attempts[id].number)
    /\ IF Free(logins[l].screen)
       THEN top' = "teams" /\ listFor' = user'
       ELSE UNCHANGED <<top, listFor>>
    /\ UNCHANGED <<registered, hasRunBefore, authVerificationID, loginScreen, overlapped>>

(* A wrong code, a code used before, or no connection.                     *)
SignInFails(l) ==
    /\ logins[l].stage = "pending"
    /\ logins' = [logins EXCEPT ![l].stage = "ended"]
    /\ alert' = (alert \/ Free(logins[l].screen))
    /\ UNCHANGED <<registered, stored, top, screen, input, field, listFor, attempts, overlapped>>

(* A new LoginVC on top of the list.  When signing out throws, an alert    *)
(* and nothing else.                                                       *)
logOutUser ==
    /\ top = "teams"
    /\ screen < MaxScreens
    /\ user' = Nobody
    /\ top' = "login"
    /\ screen' = screen + 1
    /\ input' = "phone" /\ field' = NoNumber /\ alert' = FALSE
    /\ authVerificationID' = 0
    /\ hasRunBefore' = FALSE
    /\ UNCHANGED <<registered, listFor, attempts, logins, overlapped>>

Next ==
    \/ \E p \in People : Register(p)
    \/ \E works \in BOOLEAN : Launch(works)
    \/ Kill \/ logOutUser \/ hideOtp \/ submitInvalid \/ dismissAlert
    \/ \E number \in Numbers : TypeNumber(number)
    \/ \E a \in Attempts :
          \/ submitNumber(a) \/ RegistrationFound(a) \/ RegistrationMissing(a)
          \/ CodeSent(a) \/ CodeNotSent(a)
    \/ \E l \in Logins :
          \/ \E code \in Attempts \cup {0} : submitOtp(l, code)
          \/ SignInSucceeds(l) \/ SignInFails(l)

Spec == Init /\ [][Next]_vars

-----------------------------------------------------------------------------
(* Only registered judges get in, although the number on the screen may    *)
(* change while the check is under way and ids survive a restart.          *)
SignedInIsRegistered == user # Nobody => user \in registered

(* Where a code is asked for, there is an id to check it with, and it      *)
(* belongs to a registered judge: late answers for other screens and       *)
(* signing out never leave the code input without one.                     *)
CodeInputHasId ==
    (top = "login" /\ input = "otp") =>
        /\ authVerificationID # 0
        /\ attempts[authVerificationID].number.key \in registered

(* A user who waits for each answer sees what Auth says: the list of the   *)
(* signed-in judge, or the login.  (Otherwise an alert can keep the list   *)
(* from being presented, and a late sign-in can change the judge under a   *)
(* list that is shown.)                                                    *)
ScreenMatchesUser ==
    (top # "off" /\ ~overlapped) =>
        /\ top = "teams" <=> user # Nobody
        /\ top = "teams" => listFor = user
=============================================================================
