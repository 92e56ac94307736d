---------------------------- MODULE ScreensProofs ----------------------------
(***************************************************************************)
(* For any people, numbers, teams, texts and messages: only registered     *)
(* judges get in and the screen shows what Auth says; the lists on the     *)
(* screens lose nothing and open what they show; and the writes of a       *)
(* device reach the server in their order, with nothing but an end of the  *)
(* app losing one, however often its connection breaks.                    *)
(***************************************************************************)
EXTENDS MCScreens, ListLemmas, FunctionTheorems

-----------------------------------------------------------------------------
(* Signing in (Session).                                                   *)

(* Every attempt that was made has a number, and from the moment a code is *)
(* asked for, it is the number of a registered judge.                      *)
AttemptsVetted ==
    \A a \in Attempts :
        /\ attempts[a].stage # "unused" => attempts[a].number \in Numbers
        /\ attempts[a].stage \in {"verifying", "sent", "redeemed"} =>
              attempts[a].number.key \in registered

(* The stored id belongs to a code that was sent.                          *)
StoredIdSent ==
    authVerificationID # 0 => attempts[authVerificationID].stage \in {"sent", "redeemed"}

(* A code is asked for only with an id, and a launch starts at the number. *)
CodeInputStored ==
    /\ (top = "login" /\ input = "otp") => authVerificationID # 0
    /\ top = "off" => input = "phone"

IInv ==
    /\ TypeOK
    /\ AttemptsVetted
    /\ StoredIdSent
    /\ CodeInputStored
    /\ SignedInIsRegistered

-----------------------------------------------------------------------------
(* The initial states satisfy the invariant.                               *)
LEMMA InitEstablishes == Init => IInv
<1> SUFFICES ASSUME Init PROVE IInv
  OBVIOUS
<1>1. TypeOK
  <2>1. attempts \in [Attempts -> Attempt] /\ logins \in [Logins -> SignIn]
    BY SessionAssumption DEF Init, Attempt, SignIn, Stages
  <2>2. screen \in 0..MaxScreens
    BY SessionAssumption DEF Init
  <2> QED
    BY <2>1, <2>2 DEF Init, TypeOK
<1>2. AttemptsVetted /\ StoredIdSent /\ CodeInputStored /\ SignedInIsRegistered
  BY DEF Init, AttemptsVetted, StoredIdSent, CodeInputStored, SignedInIsRegistered
<1> QED
  BY <1>1, <1>2 DEF IInv

(* Every step preserves it.                                                *)
LEMMA StepPreserves == IInv /\ [Next]_vars => IInv'
<1> SUFFICES ASSUME IInv, [Next]_vars PROVE IInv'
  OBVIOUS
<1> USE SessionAssumption DEF loginScreen, stored
<1>0. TypeOK /\ AttemptsVetted /\ StoredIdSent /\ CodeInputStored /\ SignedInIsRegistered
  BY DEF IInv
<1>1. ASSUME NEW p \in People, Register(p) PROVE IInv'
  <2>1. TypeOK'
    BY <1>0, <1>1 DEF Register, TypeOK
  <2>2. AttemptsVetted'
    BY <1>0, <1>1 DEF Register, AttemptsVetted
  <2>3. StoredIdSent' /\ CodeInputStored'
    BY <1>0, <1>1 DEF Register, StoredIdSent, CodeInputStored
  <2>4. SignedInIsRegistered'
    BY <1>0, <1>1 DEF Register, SignedInIsRegistered
  <2> QED
    BY <2>1, <2>2, <2>3, <2>4 DEF IInv
<1>2. ASSUME NEW works \in BOOLEAN, Launch(works) PROVE IInv'
  <2>1. TypeOK'
    BY <1>0, <1>2 DEF Launch, TypeOK
  <2>2. AttemptsVetted'
    BY <1>0, <1>2 DEF Launch, AttemptsVetted
  <2>3. StoredIdSent' /\ CodeInputStored'
    BY <1>0, <1>2 DEF Launch, StoredIdSent, CodeInputStored
  <2>4. SignedInIsRegistered'
    BY <1>0, <1>2 DEF Launch, SignedInIsRegistered
  <2> QED
    BY <2>1, <2>2, <2>3, <2>4 DEF IInv
<1>3. ASSUME Kill PROVE IInv'
  <2>1. TypeOK'
    <3>1. attempts' \in [Attempts -> Attempt]
      BY <1>0, <1>3 DEF Kill, TypeOK, Attempt, Stages
    <3>2. logins' \in [Logins -> SignIn]
      BY <1>0, <1>3 DEF Kill, TypeOK, SignIn
    <3>3. screen' \in 0..MaxScreens
      BY <1>3 DEF Kill
    <3> QED
      BY <1>0, <1>3, <3>1, <3>2, <3>3 DEF Kill, TypeOK
  <2>2. AttemptsVetted'
    BY <1>0, <1>3 DEF Kill, AttemptsVetted
  <2>3. StoredIdSent' /\ CodeInputStored'
    BY <1>0, <1>3 DEF Kill, TypeOK, StoredIdSent, CodeInputStored
  <2>4. SignedInIsRegistered'
    BY <1>0, <1>3 DEF Kill, SignedInIsRegistered
  <2> QED
    BY <2>1, <2>2, <2>3, <2>4 DEF IInv
<1>4. ASSUME logOutUser PROVE IInv'
  <2>1. TypeOK'
    <3>1. screen' \in 0..MaxScreens
      BY <1>0, <1>4 DEF logOutUser, TypeOK
    <3> QED
      BY <1>0, <1>4, <3>1 DEF logOutUser, TypeOK
  <2>2. AttemptsVetted'
    BY <1>0, <1>4 DEF logOutUser, AttemptsVetted
  <2>3. StoredIdSent' /\ CodeInputStored'
    BY <1>0, <1>4 DEF logOutUser, StoredIdSent, CodeInputStored
  <2>4. SignedInIsRegistered'
    BY <1>0, <1>4 DEF logOutUser, SignedInIsRegistered
  <2> QED
    BY <2>1, <2>2, <2>3, <2>4 DEF IInv
<1>5. ASSUME hideOtp PROVE IInv'
  <2>1. TypeOK'
    BY <1>0, <1>5 DEF hideOtp, TypeOK
  <2>2. AttemptsVetted'
    BY <1>0, <1>5 DEF hideOtp, AttemptsVetted
  <2>3. StoredIdSent' /\ CodeInputStored'
    BY <1>0, <1>5 DEF hideOtp, StoredIdSent, CodeInputStored
  <2>4. SignedInIsRegistered'
    BY <1>0, <1>5 DEF hideOtp, SignedInIsRegistered
  <2> QED
    BY <2>1, <2>2, <2>3, <2>4 DEF IInv
<1>6. ASSUME submitInvalid PROVE IInv'
  <2>1. TypeOK'
    BY <1>0, <1>6 DEF submitInvalid, TypeOK
  <2>2. AttemptsVetted'
    BY <1>0, <1>6 DEF submitInvalid, AttemptsVetted
  <2>3. StoredIdSent' /\ CodeInputStored'
    BY <1>0, <1>6 DEF submitInvalid, StoredIdSent, CodeInputStored
  <2>4. SignedInIsRegistered'
    BY <1>0, <1>6 DEF submitInvalid, SignedInIsRegistered
  <2> QED
    BY <2>1, <2>2, <2>3, <2>4 DEF IInv
<1>7. ASSUME dismissAlert PROVE IInv'
  <2>1. TypeOK'
    BY <1>0, <1>7 DEF dismissAlert, TypeOK
  <2>2. AttemptsVetted'
    BY <1>0, <1>7 DEF dismissAlert, AttemptsVetted
  <2>3. StoredIdSent' /\ CodeInputStored'
    BY <1>0, <1>7 DEF dismissAlert, StoredIdSent, CodeInputStored
  <2>4. SignedInIsRegistered'
    BY <1>0, <1>7 DEF dismissAlert, SignedInIsRegistered
  <2> QED
    BY <2>1, <2>2, <2>3, <2>4 DEF IInv
<1>8. ASSUME NEW number \in Numbers, TypeNumber(number) PROVE IInv'
  <2>1. TypeOK'
    BY <1>0, <1>8 DEF TypeNumber, TypeOK
  <2>2. AttemptsVetted'
    BY <1>0, <1>8 DEF TypeNumber, AttemptsVetted
  <2>3. StoredIdSent' /\ CodeInputStored'
    BY <1>0, <1>8 DEF TypeNumber, StoredIdSent, CodeInputStored
  <2>4. SignedInIsRegistered'
    BY <1>0, <1>8 DEF TypeNumber, SignedInIsRegistered
  <2> QED
    BY <2>1, <2>2, <2>3, <2>4 DEF IInv
<1>9. ASSUME NEW a \in Attempts, submitNumber(a) PROVE IInv'
  <2>1. TypeOK'
    BY <1>0, <1>9 DEF submitNumber, TypeOK, Attempt, Stages
  <2>2. AttemptsVetted'
    BY <1>0, <1>9 DEF submitNumber, TypeOK, AttemptsVetted, validatePhoneNumber
  <2>3. StoredIdSent' /\ CodeInputStored'
    BY <1>0, <1>9 DEF submitNumber, StoredIdSent, CodeInputStored
  <2>4. SignedInIsRegistered'
    BY <1>0, <1>9 DEF submitNumber, SignedInIsRegistered
  <2> QED
    BY <2>1, <2>2, <2>3, <2>4 DEF IInv
<1>10. ASSUME NEW a \in Attempts, RegistrationFound(a) PROVE IInv'
  <2>1. TypeOK'
    BY <1>0, <1>10 DEF RegistrationFound, TypeOK, Attempt, Stages
  <2>2. AttemptsVetted'
    BY <1>0, <1>10 DEF RegistrationFound, AttemptsVetted, checkIfUserRegistred
  <2>3. StoredIdSent' /\ CodeInputStored'
    BY <1>0, <1>10 DEF RegistrationFound, StoredIdSent, CodeInputStored
  <2>4. SignedInIsRegistered'
    BY <1>0, <1>10 DEF RegistrationFound, SignedInIsRegistered
  <2> QED
    BY <2>1, <2>2, <2>3, <2>4 DEF IInv
<1>11. ASSUME NEW a \in Attempts, RegistrationMissing(a) PROVE IInv'
  <2>1. TypeOK'
    BY <1>0, <1>11 DEF RegistrationMissing, TypeOK, Attempt, Stages
  <2>2. AttemptsVetted'
    BY <1>0, <1>11 DEF RegistrationMissing, AttemptsVetted
  <2>3. StoredIdSent' /\ CodeInputStored'
    BY <1>0, <1>11 DEF RegistrationMissing, StoredIdSent, CodeInputStored
  <2>4. SignedInIsRegistered'
    BY <1>0, <1>11 DEF RegistrationMissing, SignedInIsRegistered
  <2> QED
    BY <2>1, <2>2, <2>3, <2>4 DEF IInv
<1>12. ASSUME NEW a \in Attempts, CodeSent(a) PROVE IInv'
  <2>1. TypeOK'
    BY <1>0, <1>12 DEF CodeSent, TypeOK, Attempt, Stages
  <2>2. AttemptsVetted'
    BY <1>0, <1>12 DEF CodeSent, AttemptsVetted
  <2>3. StoredIdSent' /\ CodeInputStored'
    BY <1>0, <1>12 DEF CodeSent, TypeOK, StoredIdSent, CodeInputStored
  <2>4. SignedInIsRegistered'
    BY <1>0, <1>12 DEF CodeSent, SignedInIsRegistered
  <2> QED
    BY <2>1, <2>2, <2>3, <2>4 DEF IInv
<1>13. ASSUME NEW a \in Attempts, CodeNotSent(a) PROVE IInv'
  <2>1. TypeOK'
    BY <1>0, <1>13 DEF CodeNotSent, TypeOK, Attempt, Stages
  <2>2. AttemptsVetted'
    BY <1>0, <1>13 DEF CodeNotSent, AttemptsVetted
  <2>3. StoredIdSent' /\ CodeInputStored'
    BY <1>0, <1>13 DEF CodeNotSent, StoredIdSent, CodeInputStored
  <2>4. SignedInIsRegistered'
    BY <1>0, <1>13 DEF CodeNotSent, SignedInIsRegistered
  <2> QED
    BY <2>1, <2>2, <2>3, <2>4 DEF IInv
<1>14. ASSUME NEW l \in Logins, NEW code \in Attempts \cup {0}, submitOtp(l, code) PROVE IInv'
  <2>1. TypeOK'
    BY <1>0, <1>14 DEF submitOtp, TypeOK, SignIn
  <2>2. AttemptsVetted'
    BY <1>0, <1>14 DEF submitOtp, AttemptsVetted
  <2>3. StoredIdSent' /\ CodeInputStored'
    BY <1>0, <1>14 DEF submitOtp, StoredIdSent, CodeInputStored
  <2>4. SignedInIsRegistered'
    BY <1>0, <1>14 DEF submitOtp, SignedInIsRegistered
  <2> QED
    BY <2>1, <2>2, <2>3, <2>4 DEF IInv
<1>15. ASSUME NEW l \in Logins, SignInSucceeds(l) PROVE IInv'
  <2> DEFINE id == logins[l].id
  <2>0. /\ id \in Attempts /\ attempts[id].stage = "sent"
        /\ user' = attempts[id].number.key
    BY <1>0, <1>15 DEF SignInSucceeds, TypeOK, SignIn, getUserPhoneNumber
  <2>1. TypeOK'
    <3>1. attempts[id].number.key \in People
      BY <1>0, <2>0 DEF AttemptsVetted
    <3>2. attempts' \in [Attempts -> Attempt]
      BY <1>0, <1>15, <2>0 DEF SignInSucceeds, TypeOK, Attempt, Stages
    <3>3. logins' \in [Logins -> SignIn]
      BY <1>0, <1>15 DEF SignInSucceeds, TypeOK, SignIn
    <3>4. top' \in {"off", "login", "teams"} /\ listFor' \in People \cup {Nobody}
      BY <1>0, <1>15, <2>0, <3>1 DEF SignInSucceeds, TypeOK
    <3> QED
      BY <1>0, <1>15, <2>0, <3>1, <3>2, <3>3, <3>4 DEF SignInSucceeds, TypeOK
  <2>2. AttemptsVetted'
    BY <1>0, <1>15, <2>0 DEF SignInSucceeds, AttemptsVetted
  <2>3. StoredIdSent' /\ CodeInputStored'
    BY <1>0, <1>15, <2>0 DEF SignInSucceeds, StoredIdSent, CodeInputStored
  <2>4. SignedInIsRegistered'
    BY <1>0, <1>15, <2>0 DEF SignInSucceeds, AttemptsVetted, SignedInIsRegistered
  <2> QED
    BY <2>1, <2>2, <2>3, <2>4 DEF IInv
<1>16. ASSUME NEW l \in Logins, SignInFails(l) PROVE IInv'
  <2>1. TypeOK'
    BY <1>0, <1>16 DEF SignInFails, TypeOK, Attempt, SignIn, Stages
  <2>2. AttemptsVetted'
    BY <1>0, <1>16 DEF SignInFails, AttemptsVetted
  <2>3. StoredIdSent' /\ CodeInputStored'
    BY <1>0, <1>16 DEF SignInFails, StoredIdSent, CodeInputStored
  <2>4. SignedInIsRegistered'
    BY <1>0, <1>16 DEF SignInFails, SignedInIsRegistered
  <2> QED
    BY <2>1, <2>2, <2>3, <2>4 DEF IInv
<1>17. CASE UNCHANGED vars
  BY <1>0, <1>17 DEF IInv, TypeOK, AttemptsVetted, StoredIdSent, CodeInputStored,
     SignedInIsRegistered, vars
<1> QED
  BY <1>1, <1>2, <1>3, <1>4, <1>5, <1>6, <1>7, <1>8, <1>9, <1>10, <1>11, <1>12, <1>13, <1>14,
     <1>15, <1>16, <1>17 DEF Next

(* The invariant holds throughout.                                         *)
LEMMA Inductive == Spec => []IInv
  BY InitEstablishes, StepPreserves, PTL DEF Spec

-----------------------------------------------------------------------------
(* Every variable keeps its type, whatever answers arrive in which order.  *)
THEOREM SessionTypeCorrect == Spec => []TypeOK
<1>1. IInv => TypeOK
  BY DEF IInv
<1> QED
  BY <1>1, Inductive, PTL

(* Whoever is signed in is registered: a changed number field, overlapping *)
(* attempts, a kill and ids kept from an earlier launch let nobody in.     *)
THEOREM SignedInTheorem == Spec => []SignedInIsRegistered
<1>1. IInv => SignedInIsRegistered
  BY DEF IInv
<1> QED
  BY <1>1, Inductive, PTL

(* Whenever the code input is shown, an id of a registered judge's code is *)
(* stored, however late answers, sign-outs and restarts interleave.        *)
THEOREM CodeInputTheorem == Spec => []CodeInputHasId
<1>1. IInv => CodeInputHasId
  BY DEF IInv, TypeOK, AttemptsVetted, StoredIdSent, CodeInputStored, CodeInputHasId
<1> QED
  BY <1>1, Inductive, PTL

-----------------------------------------------------------------------------
(* What a user who waits for each answer has running: at most one question,*)
(* of the screen that is on top and shows no alert.  This is what the      *)
(* screen and Auth need to agree: an answer to that question finds the     *)
(* screen free to present the list.                                        *)
Asking(a) == attempts[a].stage \in {"checking", "verifying"}
Pending(l) == logins[l].stage = "pending"

OneWait ==
    /\ \A a, b \in Attempts : Asking(a) /\ Asking(b) => a = b
    /\ \A l, m \in Logins : Pending(l) /\ Pending(m) => l = m
    /\ \A a \in Attempts, l \in Logins : ~(Asking(a) /\ Pending(l))
    /\ Busy => top = "login" /\ ~alert
    /\ \A l \in Logins : Pending(l) => logins[l].screen = screen

Waits ==
    /\ top = "off" => ~Busy
    /\ ~overlapped => OneWait
    /\ ScreenMatchesUser

(* Nothing new is under way, and what was is where it was.                 *)
LEMMA LessWaits ==
    ASSUME ~overlapped => OneWait, overlapped' = overlapped, screen' = screen,
           \A a \in Attempts : Asking(a)' => Asking(a),
           \A l \in Logins : Pending(l)' => Pending(l) /\ logins'[l].screen = logins[l].screen,
           Busy' => top' = top /\ (alert' => alert)
    PROVE  /\ ~overlapped' => OneWait'
           /\ Busy' => Busy
  BY DEF OneWait, Busy, Asking, Pending

(* Nobody waits before the first launch.                                   *)
LEMMA InitWaits == Init => Waits
  BY DEF Init, Waits, Busy, OneWait, Asking, Pending, ScreenMatchesUser

(* A user who waits for each answer has one question running at most.      *)
LEMMA WaitsPreserved ==
    ASSUME IInv, Waits, [Next]_vars PROVE Waits'
<1> USE DEF loginScreen, stored
<1>0. /\ attempts \in [Attempts -> Attempt] /\ logins \in [Logins -> SignIn]
      /\ ~overlapped => OneWait
      /\ top = "off" => ~Busy
      /\ ScreenMatchesUser
      /\ user \in People \cup {Nobody} /\ Nobody \notin People
  BY SessionAssumption DEF IInv, TypeOK, Waits
(* Steps that start and answer nothing and leave the user, and what is on  *)
(* top, alone.                                                             *)
<1>1. ASSUME UNCHANGED <<user, top, listFor, screen, attempts, logins>>,
             overlapped' = overlapped, alert' => alert \/ ~Busy
      PROVE  Waits'
  <2>1. Busy' = Busy /\ (~overlapped => OneWait')
    BY <1>0, <1>1 DEF Busy, OneWait, Asking, Pending
  <2> QED
    BY <1>0, <1>1, <2>1 DEF Waits, ScreenMatchesUser
<1>2. ASSUME NEW p \in People, Register(p) PROVE Waits'
  BY <1>1, <1>2 DEF Register
<1>3. ASSUME NEW works \in BOOLEAN, Launch(works) PROVE Waits'
  <2>1. ~Busy'
    BY <1>0, <1>3 DEF Launch, Busy
  <2>2. OneWait'
    BY <2>1 DEF Busy, OneWait, Asking, Pending
  <2>3. ScreenMatchesUser'
    BY <1>3 DEF Launch, ScreenMatchesUser
  <2> QED
    BY <1>3, <2>1, <2>2, <2>3 DEF Waits, Launch
<1>4. ASSUME Kill PROVE Waits'
  <2>1. ~Busy'
    BY <1>0, <1>4 DEF Kill, Busy, Attempt, SignIn
  <2>2. OneWait'
    BY <2>1 DEF Busy, OneWait, Asking, Pending
  <2> QED
    BY <1>4, <2>1, <2>2 DEF Waits, Kill, ScreenMatchesUser
(* Signing out needs the list on top, so nothing was under way.            *)
<1>5. ASSUME logOutUser PROVE Waits'
  <2>1. ~overlapped => ~Busy'
    BY <1>0, <1>5 DEF logOutUser, Busy, OneWait
  <2>2. ~overlapped => OneWait'
    BY <2>1 DEF Busy, OneWait, Asking, Pending
  <2> QED
    BY <1>5, <2>2 DEF Waits, logOutUser, ScreenMatchesUser
<1>6. ASSUME hideOtp PROVE Waits'
  BY <1>1, <1>6 DEF hideOtp
<1>7. ASSUME submitInvalid PROVE Waits'
  <2>1. CASE overlapped'
    BY <1>7, <2>1 DEF submitInvalid, Free, Waits, ScreenMatchesUser
  <2>2. CASE ~overlapped'
    <3>1. ~Busy /\ overlapped' = overlapped
      BY <1>7, <2>2 DEF submitInvalid, IInv, TypeOK
    <3> QED
      BY <1>1, <1>7, <3>1 DEF submitInvalid
  <2> QED
    BY <2>1, <2>2
<1>8. ASSUME dismissAlert PROVE Waits'
  BY <1>1, <1>8 DEF dismissAlert
<1>9. ASSUME NEW number \in Numbers, TypeNumber(number) PROVE Waits'
  BY <1>1, <1>9 DEF TypeNumber
(* A question is put: the first one, or the user did not wait.             *)
<1>10. ASSUME NEW a \in Attempts, submitNumber(a) PROVE Waits'
  <2>1. top' = top /\ top = "login" /\ alert' = alert /\ ~alert
    BY <1>10 DEF submitNumber, Free
  <2>2. ScreenMatchesUser'
    BY <1>0, <1>10, <2>1 DEF submitNumber, ScreenMatchesUser
  <2>3. ASSUME ~overlapped' PROVE OneWait'
    <3>1. ~Busy
      BY <1>10, <2>3 DEF submitNumber
    <3>2. \A b \in Attempts : Asking(b)' => b = a
      BY <1>0, <1>10, <3>1 DEF submitNumber, Asking, Busy
    <3>3. \A l \in Logins : ~Pending(l)'
      BY <1>10, <3>1 DEF submitNumber, Pending, Busy
    <3> QED
      BY <2>1, <3>2, <3>3 DEF OneWait
  <2> QED
    BY <2>1, <2>2, <2>3 DEF Waits
<1>11. ASSUME NEW l \in Logins, NEW code \in Attempts \cup {0}, submitOtp(l, code) PROVE Waits'
  <2>1. top' = top /\ top = "login" /\ alert' = alert /\ ~alert
    BY <1>11 DEF submitOtp, Free
  <2>2. ScreenMatchesUser'
    BY <1>0, <1>11, <2>1 DEF submitOtp, ScreenMatchesUser
  <2>3. ASSUME ~overlapped' PROVE OneWait'
    <3>1. ~Busy
      BY <1>11, <2>3 DEF submitOtp
    <3>2. \A m \in Logins : Pending(m)' => m = l
      BY <1>0, <1>11, <3>1 DEF submitOtp, Pending, Busy
    <3>3. \A a \in Attempts : ~Asking(a)'
      BY <1>11, <3>1 DEF submitOtp, Asking, Busy
    <3>4. logins'[l].screen = screen'
      BY <1>0, <1>11 DEF submitOtp
    <3> QED
      BY <2>1, <3>2, <3>3, <3>4 DEF OneWait
  <2> QED
    BY <2>1, <2>2, <2>3 DEF Waits
(* An answer that leads on to the next question of the same attempt.       *)
<1>12. ASSUME NEW a \in Attempts, RegistrationFound(a) PROVE Waits'
  <2>1. /\ \A b \in Attempts : Asking(b)' => Asking(b)
        /\ \A l \in Logins : Pending(l)' => Pending(l) /\ logins'[l].screen = logins[l].screen
    BY <1>0, <1>12 DEF RegistrationFound, Asking, Pending
  <2>2. (~overlapped' => OneWait') /\ (Busy' => Busy)
    BY <1>0, <1>12, <2>1, LessWaits DEF RegistrationFound
  <2> QED
    BY <1>0, <1>12, <2>2 DEF Waits, ScreenMatchesUser, RegistrationFound
(* The last answer: with it nothing is under way any more.                 *)
<1>13. ASSUME NEW a \in Attempts, Asking(a), attempts' \in [Attempts -> Attempt],
              ~Asking(a)', \A b \in Attempts \ {a} : attempts'[b] = attempts[b],
              logins' = logins, UNCHANGED <<user, top, listFor, screen, overlapped>>
       PROVE  Waits'
  <2>1. ~overlapped => ~Busy'
    BY <1>0, <1>13 DEF OneWait, Busy, Asking, Pending
  <2>2. ~overlapped' => OneWait'
    BY <1>13, <2>1 DEF Busy, OneWait, Asking, Pending
  <2>3. top' # "off"
    BY <1>0, <1>13 DEF Busy, Asking
  <2> QED
    BY <1>0, <1>13, <2>2, <2>3 DEF Waits, ScreenMatchesUser
<1>14. ASSUME NEW a \in Attempts, RegistrationMissing(a) \/ CodeSent(a) \/ CodeNotSent(a)
       PROVE  Waits'
  <2>1. /\ Asking(a) /\ attempts' \in [Attempts -> Attempt] /\ ~Asking(a)'
        /\ \A b \in Attempts \ {a} : attempts'[b] = attempts[b]
    BY <1>0, <1>14 DEF RegistrationMissing, CodeSent, CodeNotSent, Asking, Attempt, Stages
  <2>2. logins' = logins /\ UNCHANGED <<user, top, listFor, screen, overlapped>>
    BY <1>14 DEF RegistrationMissing, CodeSent, CodeNotSent
  <2> QED
    BY <1>13, <2>1, <2>2
<1>15. ASSUME NEW l \in Logins, SignInSucceeds(l) PROVE Waits'
  <2> DEFINE id == logins[l].id
  <2>1. /\ Pending(l) /\ ~Pending(l)' /\ overlapped' = overlapped /\ screen' = screen
        /\ \A m \in Logins \ {l} : logins'[m] = logins[m]
        /\ \A a \in Attempts : Asking(a)' => Asking(a)
        /\ (top' = top \/ top' = "teams") /\ alert' = alert
    BY <1>0, <1>15 DEF SignInSucceeds, Pending, Asking
  <2>2. id \in Attempts /\ attempts[id].stage = "sent" /\ user' = attempts[id].number.key
    BY <1>0, <1>15 DEF SignInSucceeds, SignIn, getUserPhoneNumber
  <2>3. user' \in People
    BY <2>2, SessionAssumption DEF IInv, AttemptsVetted
  <2>4. ~overlapped => ~Busy'
    BY <1>0, <2>1 DEF OneWait, Busy, Asking, Pending
  <2>5. ~overlapped' => OneWait'
    BY <2>1, <2>4 DEF Busy, OneWait, Asking, Pending
  <2>6. top' # "off"
    BY <1>0, <2>1 DEF Busy, Pending
  <2>7. ASSUME ~overlapped PROVE top' = "teams" /\ listFor' = user'
    <3>1. Free(logins[l].screen)
      BY <1>0, <2>1, <2>7 DEF OneWait, Busy, Pending, Free
    <3> QED
      BY <1>15, <3>1 DEF SignInSucceeds
  <2> QED
    BY <1>0, <2>1, <2>3, <2>5, <2>6, <2>7 DEF Waits, ScreenMatchesUser
<1>16. ASSUME NEW l \in Logins, SignInFails(l) PROVE Waits'
  <2>1. /\ Pending(l) /\ ~Pending(l)' /\ attempts' = attempts
        /\ \A m \in Logins \ {l} : logins'[m] = logins[m]
        /\ UNCHANGED <<user, top, listFor, screen, overlapped>>
    BY <1>0, <1>16 DEF SignInFails, Pending
  <2>2. ~overlapped => ~Busy'
    BY <1>0, <2>1 DEF OneWait, Busy, Asking, Pending
  <2>3. ~overlapped' => OneWait'
    BY <2>1, <2>2 DEF Busy, OneWait, Asking, Pending
  <2>4. top' # "off"
    BY <1>0, <2>1 DEF Busy, Pending
  <2> QED
    BY <1>0, <2>1, <2>3, <2>4 DEF Waits, ScreenMatchesUser
<1>17. CASE UNCHANGED vars
  BY <1>1, <1>17 DEF vars
<1> QED
  BY <1>2, <1>3, <1>4, <1>5, <1>6, <1>7, <1>8, <1>9, <1>10, <1>11, <1>12, <1>14, <1>15,
     <1>16, <1>17 DEF Next

(* To a user who waits for each answer the screen shows what Auth says:    *)
(* the list of the judge who is signed in, or the login, through every     *)
(* failed check, wrong code, sign-out, kill and launch.                    *)
THEOREM ScreenTheorem == Spec => []ScreenMatchesUser
<1>1. IInv /\ Waits /\ [Next]_vars => Waits'
  BY WaitsPreserved
<1>2. Waits => ScreenMatchesUser
  BY DEF Waits
<1> QED
  BY <1>1, <1>2, InitWaits, Inductive, PTL DEF Spec
-----------------------------------------------------------------------------
(* The judge's list (TeamList).                                            *)

(* The words of the libraries mean the same wherever they are used.        *)
LEMMA SameWords ==
    /\ \A f : T!Range(f) = Range(f) /\ F!Range(f) = Range(f) /\ N!Range(f) = Range(f)
    /\ \A s, S : T!Sifted(s, S) = Sifted(s, S) /\ F!Sifted(s, S) = Sifted(s, S)
    /\ \A f : N!IsInjective(f) = IsInjective(f)
    /\ \A S : /\ F!Cardinality(S) = Cardinality(S) /\ F!IsFiniteSet(S) = IsFiniteSet(S)
              /\ N!IsFiniteSet(S) = IsFiniteSet(S)
              /\ F!SetToSeqs(S) = SetToSeqs(S) /\ N!SetToSeqs(S) = SetToSeqs(S)
<1>1. \A f : T!Range(f) = Range(f) /\ F!Range(f) = Range(f) /\ N!Range(f) = Range(f)
  BY DEF Range, T!Range, F!Range, N!Range
<1>2. \A s, S : T!Sifted(s, S) = Sifted(s, S) /\ F!Sifted(s, S) = Sifted(s, S)
  BY DEF Sifted, T!Sifted, F!Sifted
<1>3. \A f : N!IsInjective(f) = IsInjective(f)
  BY DEF IsInjective, N!IsInjective
<1>4. \A S : F!Cardinality(S) = Cardinality(S)
  BY DEF Cardinality, F!Cardinality
<1>5. \A S : F!IsFiniteSet(S) = IsFiniteSet(S) /\ N!IsFiniteSet(S) = IsFiniteSet(S)
  BY DEF IsFiniteSet, F!IsFiniteSet, N!IsFiniteSet
<1>6. \A S : F!SetToSeqs(S) = SetToSeqs(S) /\ N!SetToSeqs(S) = SetToSeqs(S)
  BY DEF SetToSeqs, F!SetToSeqs, N!SetToSeqs, IsInjective, F!IsInjective, N!IsInjective,
     Cardinality, F!Cardinality, N!Cardinality
<1> QED
  BY <1>1, <1>2, <1>3, <1>4, <1>5, <1>6

(* The value that arrives last is the list as it is.                       *)
LastEventIsQueue == t_events # <<>> => t_events[Len(t_events)] = t_queue

(* The array is as at the last reload, unless an event has emptied it.     *)
TeamsEmptiedOrShown == t_filteredTeams \in {<<>>, t_shown}

(* Every row has a cell, and a download that still has a row is for the    *)
(* team of that row.                                                       *)
CellsMatchRows ==
    /\ Len(t_images) = Len(t_shown)
    /\ \A d \in t_downloads :
          d.row # 0 => d.row \in 1..Len(t_shown) /\ t_shown[d.row] = d.team

TeamListInv ==
    /\ T!TypeOK
    /\ LastEventIsQueue
    /\ TeamsEmptiedOrShown
    /\ CellsMatchRows
    /\ T!NothingMissing
    /\ T!TapOpensShownTeam
    /\ T!LogoMatchesRow

(* A list that was just opened shows nothing and has nothing to show.      *)
LEMMA InitTeamList == T!Init => TeamListInv
<1> SUFFICES ASSUME T!Init PROVE TeamListInv
  OBVIOUS
<1> USE ScreensParameters DEF T!Init
<1>1. T!TypeOK
  <2>1. t_events \in Seq(Lists) /\ t_fetches \in Seq(Teams) /\ t_filteredTeams \in Seq(Teams)
        /\ t_shown \in Seq(Teams) /\ t_images \in Seq(Teams \cup {NoLogo})
    OBVIOUS
  <2>2. t_changes \in 0..MaxChanges
    BY DEF T!ListsAssumption
  <2> QED
    BY <2>1, <2>2 DEF T!TypeOK
<1>2. LastEventIsQueue /\ TeamsEmptiedOrShown /\ CellsMatchRows
  BY DEF LastEventIsQueue, TeamsEmptiedOrShown, CellsMatchRows
<1>3. T!NothingMissing /\ T!TapOpensShownTeam /\ T!LogoMatchesRow
  BY DEF T!NothingMissing, T!TapOpensShownTeam, T!LogoMatchesRow
<1> QED
  BY <1>1, <1>2, <1>3 DEF TeamListInv

(* Reloading gives every row a cell with its own logo or none.             *)
LEMMA Reloaded ==
    ASSUME T!TypeOK, NEW list \in Seq(Teams), T!reloadData(list)
    PROVE  /\ t_shown' \in Seq(Teams) /\ t_images' \in Seq(Teams \cup {NoLogo})
           /\ t_logos' \in SUBSET Teams /\ t_downloads' \in SUBSET [team : Teams, row : Nat]
           /\ CellsMatchRows' /\ T!LogoMatchesRow'
<1>1. Len(list) \in Nat /\ \A i \in 1..Len(list) : list[i] \in Teams
  BY LenProperties, ElementOfSeq
<1> DEFINE cells == [i \in 1..Len(list) |-> IF list[i] \in t_logos THEN list[i] ELSE NoLogo]
           old == {T!Discarded(d) : d \in t_downloads}
           new == {[team |-> list[i], row |-> i] : i \in {k \in 1..Len(list) : list[k] \notin t_logos}}
<1>2. t_shown' = list /\ t_images' = cells /\ t_downloads' = old \cup new /\ t_logos' = t_logos
  BY DEF T!reloadData
<1>3. \A i \in 1..Len(list) : cells[i] \in {NoLogo, list[i]}
  OBVIOUS
<1>4. cells \in Seq(Teams \cup {NoLogo}) /\ Len(cells) = Len(list)
  <2>1. \A i \in 1..Len(list) : cells[i] \in Teams \cup {NoLogo}
    BY <1>1, <1>3
  <2>2. cells = [i \in 1..Len(list) |-> cells[i]]
    OBVIOUS
  <2> HIDE DEF cells
  <2> QED
    BY <1>1, <2>1, <2>2, IsASeq
<1>5. \A d \in old : d \in [team : Teams, row : Nat] /\ d.row = 0
  <2>1. t_downloads \subseteq [team : Teams, row : Nat]
    BY DEF T!TypeOK
  <2> QED
    BY <2>1 DEF T!Discarded
<1>6. \A d \in new : /\ d \in [team : Teams, row : Nat]
                     /\ d.row \in 1..Len(list) /\ list[d.row] = d.team
  BY <1>1
<1> HIDE DEF cells, old, new
<1>7. CellsMatchRows'
  BY <1>2, <1>4, <1>5, <1>6 DEF CellsMatchRows
<1>8. T!LogoMatchesRow'
  BY <1>2, <1>3 DEF T!LogoMatchesRow
<1> QED
  BY <1>2, <1>4, <1>5, <1>6, <1>7, <1>8 DEF T!TypeOK

(* Every step of the judge's list keeps its invariant.                     *)
LEMMA StepKeepsTeamList == TeamListInv /\ [T!Next]_T!vars => TeamListInv'
<1> SUFFICES ASSUME TeamListInv, [T!Next]_T!vars PROVE TeamListInv'
  OBVIOUS
<1>0. /\ T!TypeOK /\ LastEventIsQueue /\ TeamsEmptiedOrShown /\ CellsMatchRows
      /\ T!NothingMissing /\ T!TapOpensShownTeam /\ T!LogoMatchesRow
  BY DEF TeamListInv
<1>a. Lists \subseteq Seq(Teams) /\ MaxChanges \in Nat
  BY ScreensParameters DEF T!ListsAssumption
(* Steps that leave the lists alone.                                       *)
<1>1. ASSUME UNCHANGED <<t_queue, t_events, t_fetches, t_filteredTeams, T!table, t_opened,
                                   t_dropped>>,
                         T!TypeOK'
      PROVE  TeamListInv'
  BY <1>0, <1>1 DEF TeamListInv, LastEventIsQueue, TeamsEmptiedOrShown, CellsMatchRows,
     T!NothingMissing,
     T!TapOpensShownTeam, T!LogoMatchesRow, T!table
<1>2. ASSUME NEW v \in Lists, T!QueueChanges(v) PROVE TeamListInv'
  <2>1. /\ t_events' = Append(t_events, v) /\ t_queue' = v
        /\ UNCHANGED <<t_fetches, t_filteredTeams, t_shown, t_images, t_logos, t_downloads,
                       t_allowSubmissions, t_opened, t_crashed, t_dropped>>
        /\ t_changes' = t_changes + 1 /\ t_changes < MaxChanges
    BY <1>2 DEF T!QueueChanges, T!table
  <2>2. t_events' \in Seq(Lists) /\ t_events' # <<>> /\ t_events'[Len(t_events')] = v
    <3>1. t_events \in Seq(Lists) /\ Len(t_events) \in Nat
      BY <1>0, LenProperties DEF T!TypeOK
    <3>2. /\ Append(t_events, v) \in Seq(Lists) /\ Len(Append(t_events, v)) = Len(t_events) + 1
          /\ Append(t_events, v)[Len(t_events) + 1] = v
      BY <3>1, AppendProperties
    <3>3. Len(Append(t_events, v)) # 0
      BY <3>1, <3>2
    <3> QED
      BY <2>1, <3>2, <3>3, EmptySeq
  <2>3. T!TypeOK'
    BY <1>0, <1>a, <2>1, <2>2 DEF T!TypeOK
  <2>4. LastEventIsQueue' /\ T!NothingMissing'
    BY <2>1, <2>2 DEF LastEventIsQueue, T!NothingMissing
  <2>5. TeamsEmptiedOrShown' /\ CellsMatchRows' /\ T!TapOpensShownTeam' /\ T!LogoMatchesRow'
    BY <1>0, <2>1 DEF TeamsEmptiedOrShown, CellsMatchRows, T!TapOpensShownTeam, T!LogoMatchesRow
  <2> QED
    BY <2>3, <2>4, <2>5 DEF TeamListInv
<1>3. ASSUME T!ConfigurationChanges PROVE TeamListInv'
  <2>1. T!TypeOK'
    BY <1>0, <1>3, <1>a DEF T!ConfigurationChanges, T!TypeOK, T!table
  <2> QED
    BY <1>1, <1>3, <2>1 DEF T!ConfigurationChanges
<1>4. ASSUME T!QueueEvent PROVE TeamListInv'
  <2>1. /\ t_events # <<>> /\ t_events' = Tail(t_events) /\ t_filteredTeams' = <<>>
        /\ t_fetches' = t_fetches \o Head(t_events) /\ t_dropped' = {}
        /\ UNCHANGED <<t_queue, t_shown, t_images, t_logos, t_downloads, t_allowSubmissions,
                       t_opened,
                       t_crashed, t_changes>>
    BY <1>4 DEF T!QueueEvent, T!table
  <2>2. /\ Head(t_events) \in Lists /\ Tail(t_events) \in Seq(Lists)
        /\ Tail(t_events) = <<>> => Head(t_events) = t_queue
        /\ Tail(t_events) # <<>> => Tail(t_events)[Len(Tail(t_events))] = t_queue
    <3>1. t_events \in Seq(Lists)
      BY <1>0 DEF T!TypeOK
    <3>2. t_events[Len(t_events)] = t_queue
      BY <1>0, <2>1 DEF LastEventIsQueue
    <3>3. /\ Head(t_events) \in Lists /\ Tail(t_events) \in Seq(Lists)
          /\ Tail(t_events) = <<>> => Head(t_events) = t_events[Len(t_events)]
          /\ Tail(t_events) # <<>> => Tail(t_events)[Len(Tail(t_events))] = t_events[Len(t_events)]
      BY <2>1, <3>1, TailFacts
    <3> QED
      BY <3>2, <3>3
  <2>3. t_fetches' \in Seq(Teams) /\ Range(t_fetches') = Range(t_fetches) \cup Range(Head(t_events))
    <3>1. PICK f, h : f = t_fetches /\ h = Head(t_events)
      OBVIOUS
    <3>2. f \in Seq(Teams) /\ h \in Seq(Teams) /\ t_fetches' = f \o h
      BY <1>0, <1>a, <2>1, <2>2, <3>1 DEF T!TypeOK
    <3>3. f \o h \in Seq(Teams) /\ Range(f \o h) = Range(f) \cup Range(h)
      BY ONLY <3>2, ConcatProperties, RangeConcatenation
    <3> QED
      BY <3>1, <3>2, <3>3
  <2>4. T!TypeOK'
    BY <1>0, <2>1, <2>2, <2>3 DEF T!TypeOK
  <2>5. LastEventIsQueue' /\ T!NothingMissing'
    BY <2>1, <2>2, <2>3, SameWords DEF LastEventIsQueue, T!NothingMissing
  <2>6. TeamsEmptiedOrShown' /\ CellsMatchRows' /\ T!TapOpensShownTeam' /\ T!LogoMatchesRow'
    BY <1>0, <2>1 DEF TeamsEmptiedOrShown, CellsMatchRows, T!TapOpensShownTeam, T!LogoMatchesRow
  <2> QED
    BY <2>4, <2>5, <2>6 DEF TeamListInv
<1>5. ASSUME T!TeamFetched PROVE TeamListInv'
  <2> DEFINE team == Head(t_fetches)
             same == Sifted(t_fetches, {team})
             rest == Sifted(t_fetches, Teams \ {team})
  <2>1. /\ t_fetches # <<>> /\ t_filteredTeams' = t_filteredTeams \o same /\ t_fetches' = rest
        /\ T!reloadData(t_filteredTeams')
        /\ UNCHANGED <<t_queue, t_events, t_allowSubmissions, t_opened, t_crashed, t_changes,
                       t_dropped>>
    BY <1>5, SameWords DEF T!TeamFetched
  <2>2. t_fetches \in Seq(Teams) /\ t_filteredTeams \in Seq(Teams)
    BY <1>0 DEF T!TypeOK
  <2>3. /\ same \in Seq(Teams) /\ Range(same) = Range(t_fetches) \cap {team}
        /\ rest \in Seq(Teams) /\ Range(rest) = Range(t_fetches) \cap (Teams \ {team})
    BY <2>2, SiftedFacts
  <2>4. Range(t_fetches) \subseteq Teams
    BY <2>2, RangeOfSeq
  <2> HIDE DEF team, same, rest
  <2>5. /\ t_filteredTeams' \in Seq(Teams)
        /\ Range(t_filteredTeams') = Range(t_filteredTeams) \cup Range(same)
    BY <2>1, <2>2, <2>3, ConcatProperties, RangeConcatenation
  <2>6. PICK list \in Seq(Teams) : list = t_filteredTeams'
    BY <2>5
  <2>7. /\ t_shown' \in Seq(Teams) /\ t_images' \in Seq(Teams \cup {NoLogo})
        /\ t_logos' \in SUBSET Teams /\ t_downloads' \in SUBSET [team : Teams, row : Nat]
        /\ CellsMatchRows' /\ T!LogoMatchesRow'
    <3>1. T!reloadData(list)
      BY <2>1, <2>6
    <3> QED
      BY <1>0, <3>1, Reloaded
  <2>8. T!TypeOK'
    BY <1>0, <2>1, <2>3, <2>5, <2>7 DEF T!TypeOK
  <2>9. TeamsEmptiedOrShown'
    BY <2>1 DEF TeamsEmptiedOrShown, T!reloadData
  <2>10. T!NothingMissing'
    <3>1. Range(t_filteredTeams') \cup Range(t_fetches') = Range(t_filteredTeams) \cup Range(t_fetches)
      BY <2>1, <2>3, <2>4, <2>5
    <3> QED
      BY <1>0, <2>1, <3>1, SameWords DEF T!NothingMissing
  <2>11. LastEventIsQueue' /\ T!TapOpensShownTeam'
    BY <1>0, <2>1 DEF LastEventIsQueue, T!TapOpensShownTeam
  <2> QED
    BY <2>7, <2>8, <2>9, <2>10, <2>11 DEF TeamListInv
<1>6. ASSUME NEW d \in t_downloads, T!LogoFetched(d) PROVE TeamListInv'
  <2>1. /\ t_downloads' = t_downloads \ {d} /\ t_logos' = t_logos \cup {d.team}
        /\ t_images' = IF d.row \in DOMAIN t_images THEN [t_images EXCEPT ![d.row] = d.team] ELSE t_images
        /\ UNCHANGED <<t_queue, t_events, t_fetches, t_filteredTeams, t_shown,
                       t_allowSubmissions, t_opened,
                       t_crashed, t_changes, t_dropped>>
    BY <1>6 DEF T!LogoFetched
  <2>2. d \in [team : Teams, row : Nat] /\ d.team \in Teams
    BY <1>0 DEF T!TypeOK
  <2>3. /\ t_images \in Seq(Teams \cup {NoLogo}) /\ Len(t_images) \in Nat
        /\ DOMAIN t_images = 1..Len(t_images) /\ Len(t_images) = Len(t_shown)
    BY <1>0, LenProperties DEF T!TypeOK, CellsMatchRows
  <2>4. /\ t_images' \in Seq(Teams \cup {NoLogo}) /\ Len(t_images') = Len(t_images)
        /\ \A i \in 1..Len(t_shown) : t_images'[i] = t_images[i] \/ (i = d.row /\ t_images'[i] = d.team)
    <3>1. CASE d.row \in DOMAIN t_images
      <4>1. t_images' = [t_images EXCEPT ![d.row] = d.team]
        BY <2>1, <3>1
      <4>2. t_images' \in Seq(Teams \cup {NoLogo}) /\ Len(t_images') = Len(t_images)
        BY <2>2, <2>3, <3>1, <4>1, ExceptSeq
      <4>3. \A i \in 1..Len(t_shown) : t_images'[i] = IF i = d.row THEN d.team ELSE t_images[i]
        BY <2>3, <4>1
      <4> QED
        BY <4>2, <4>3
    <3>2. CASE d.row \notin DOMAIN t_images
      BY <2>1, <2>3, <3>2
    <3> QED
      BY <3>1, <3>2
  <2>5. \A i \in 1..Len(t_shown) : i = d.row => t_shown[i] = d.team
    <3>1. \A i \in 1..Len(t_shown) : i # 0
      BY <2>3
    <3> QED
      BY <1>0, <3>1 DEF CellsMatchRows
  <2>6. T!TypeOK'
    BY <1>0, <2>1, <2>2, <2>4 DEF T!TypeOK
  <2>7. T!LogoMatchesRow'
    BY <1>0, <2>1, <2>4, <2>5 DEF T!LogoMatchesRow
  <2>8. CellsMatchRows'
    BY <1>0, <2>1, <2>4 DEF CellsMatchRows
  <2>9. TeamsEmptiedOrShown' /\ LastEventIsQueue' /\ T!NothingMissing' /\ T!TapOpensShownTeam'
    BY <1>0, <2>1 DEF TeamsEmptiedOrShown, LastEventIsQueue, T!NothingMissing, T!TapOpensShownTeam
  <2> QED
    BY <2>6, <2>7, <2>8, <2>9 DEF TeamListInv
<1>7. ASSUME NEW d \in t_downloads, T!LogoFails(d) PROVE TeamListInv'
  <2>1. /\ t_downloads' = t_downloads \ {d}
        /\ UNCHANGED <<t_queue, t_events, t_fetches, t_filteredTeams, t_shown, t_images, t_logos,
                       t_allowSubmissions, t_opened, t_crashed, t_changes, t_dropped>>
    BY <1>7 DEF T!LogoFails
  <2>2. T!TypeOK'
    BY <1>0, <2>1 DEF T!TypeOK
  <2>3. CellsMatchRows'
    BY <1>0, <2>1 DEF CellsMatchRows
  <2>4. TeamsEmptiedOrShown' /\ LastEventIsQueue' /\ T!NothingMissing' /\ T!TapOpensShownTeam'
        /\ T!LogoMatchesRow'
    BY <1>0, <2>1 DEF TeamsEmptiedOrShown, LastEventIsQueue, T!NothingMissing, T!TapOpensShownTeam,
       T!LogoMatchesRow
  <2> QED
    BY <2>2, <2>3, <2>4 DEF TeamListInv
(* The row is in the array, so the array is not the emptied one.           *)
<1>8. ASSUME NEW row \in 1..(Len(t_shown) + 1), T!SelectRow(row) PROVE TeamListInv'
  <2>1. UNCHANGED <<t_queue, t_events, t_fetches, t_filteredTeams, t_shown, t_images, t_logos,
                    t_downloads,
                    t_allowSubmissions, t_changes, t_dropped>>
    BY <1>8 DEF T!SelectRow, T!table
  <2>2. /\ t_filteredTeams \in Seq(Teams) /\ t_shown \in Seq(Teams)
        /\ Len(t_filteredTeams) \in Nat /\ Len(t_shown) \in Nat
    BY <1>0, LenProperties DEF T!TypeOK
  <2>3. CASE row > Len(t_filteredTeams)
    <3>1. T!TypeOK'
      BY <1>0, <1>8, <2>1, <2>3 DEF T!TypeOK, T!SelectRow
    <3> QED
      BY <1>1, <1>8, <2>1, <2>3, <3>1 DEF T!SelectRow, T!table
  <2>4. CASE row <= Len(t_filteredTeams)
    <3>1. row \in 1..Len(t_filteredTeams)
      BY <2>2, <2>4
    <3>2. t_filteredTeams[row] = t_shown[row] /\ t_filteredTeams[row] \in Teams
      <4>1. t_filteredTeams # <<>>
        BY <2>2, <3>1, EmptySeq
      <4> QED
        BY <1>0, <2>2, <3>1, <4>1, ElementOfSeq DEF TeamsEmptiedOrShown
    <3>3. t_opened' \in {t_opened, {<<t_filteredTeams[row], t_shown[row]>>}} /\ t_crashed' = t_crashed
      BY <1>8, <2>2, <2>4 DEF T!SelectRow
    <3>4. t_opened' \in SUBSET (Teams \X Teams)
      BY <1>0, <3>2, <3>3 DEF T!TypeOK
    <3>5. T!TapOpensShownTeam'
      BY <1>0, <3>2, <3>3 DEF T!TapOpensShownTeam
    <3>6. T!TypeOK'
      BY <1>0, <2>1, <3>3, <3>4 DEF T!TypeOK
    <3>7. TeamsEmptiedOrShown' /\ CellsMatchRows' /\ LastEventIsQueue' /\ T!NothingMissing'
          /\ T!LogoMatchesRow'
      BY <1>0, <2>1 DEF TeamsEmptiedOrShown, CellsMatchRows, LastEventIsQueue, T!NothingMissing,
         T!LogoMatchesRow
    <3> QED
      BY <3>5, <3>6, <3>7 DEF TeamListInv
  <2> QED
    BY <2>2, <2>3, <2>4
<1>9. CASE UNCHANGED T!vars
  <2>1. T!TypeOK'
    BY <1>0, <1>9 DEF T!TypeOK, T!vars, T!table
  <2> QED
    BY <1>1, <1>9, <2>1 DEF T!vars
<1>10. ASSUME T!TeamUndecodable PROVE TeamListInv'
  <2> DEFINE team == Head(t_fetches)
             rest == Sifted(t_fetches, Teams \ {team})
  <2>1. /\ t_fetches # <<>> /\ t_fetches' = rest /\ t_dropped' = t_dropped \cup {team}
        /\ UNCHANGED <<t_queue, t_events, t_filteredTeams, t_shown, t_images, t_logos,
                       t_downloads, t_allowSubmissions, t_opened, t_crashed, t_changes>>
    BY <1>10, SameWords DEF T!TeamUndecodable, T!table
  <2>2. t_fetches \in Seq(Teams)
    BY <1>0 DEF T!TypeOK
  <2>3. rest \in Seq(Teams) /\ Range(rest) = Range(t_fetches) \cap (Teams \ {team})
    BY <2>2, SiftedFacts
  <2>4. Range(t_fetches) \subseteq Teams /\ team \in Teams
    BY <2>1, <2>2, RangeOfSeq
  <2> HIDE DEF team, rest
  <2>5. T!TypeOK'
    BY <1>0, <2>1, <2>3, <2>4 DEF T!TypeOK
  <2>6. T!NothingMissing'
    <3>1. Range(t_fetches) \subseteq Range(t_fetches') \cup {team}
      BY <2>1, <2>3, <2>4
    <3> QED
      BY <1>0, <2>1, <3>1, SameWords DEF T!NothingMissing
  <2>7. LastEventIsQueue' /\ TeamsEmptiedOrShown' /\ CellsMatchRows'
        /\ T!TapOpensShownTeam' /\ T!LogoMatchesRow'
    BY <1>0, <2>1 DEF LastEventIsQueue, TeamsEmptiedOrShown, CellsMatchRows,
       T!TapOpensShownTeam, T!LogoMatchesRow
  <2> QED
    BY <2>5, <2>6, <2>7 DEF TeamListInv
<1> QED
  BY <1>2, <1>3, <1>4, <1>5, <1>6, <1>7, <1>8, <1>9, <1>10 DEF T!Next

-----------------------------------------------------------------------------
(* The list with a search field (FilterList).                              *)

(* An order of a finite set is a list of its elements, each once.          *)
LEMMA OrdersAreLists ==
    ASSUME NEW S, IsFiniteSet(S), NEW s \in SetToSeqs(S)
    PROVE  /\ s \in Seq(S) /\ IsInjective(s) /\ Range(s) = S
<1>1. PICK n \in Nat : n = Cardinality(S)
  BY FS_CardinalityType
<1>2. s \in [1..n -> S] /\ \A i, j \in 1..n : i # j => s[i] # s[j]
  BY <1>1 DEF SetToSeqs
<1>3. s \in Injection(1..n, S)
  BY <1>2, Fun_IsInj
<1>4. Cardinality(1..n) = n
  BY FS_Interval
<1>5. s \in Surjection(1..n, S)
  BY <1>1, <1>3, <1>4, FS_Injection
<1>6. Range(s) = S
  BY <1>5, Fun_SurjectionProperties
<1>7. IsInjective(s)
  BY <1>2 DEF IsInjective
<1> QED
  BY <1>2, <1>6, <1>7

(* The value that arrives last has all entries that there are.             *)
LastEventIsEntries ==
    f_filterVCType = "JudgedTeams" /\ f_events # <<>> => f_events[Len(f_events)] = f_entries

FoundEmptiedOrShown == f_filteredTeams \in {<<>>, f_shown}

FilterListInv ==
    /\ F!TypeOK
    /\ LastEventIsEntries
    /\ FoundEmptiedOrShown
    /\ F!MatchesListed
    /\ F!NoEntryForgotten
    /\ F!TapOpensShownTeam

(* Before the first round of reads nothing is listed.                      *)
LEMMA InitFilterList == F!Init => FilterListInv
<1> SUFFICES ASSUME F!Init PROVE FilterListInv
  OBVIOUS
<1>1. F!TypeOK
  <2>1. f_entries \in Seq(Teams) /\ f_events \in Seq(Seq(Teams))
    <3>1. f_entries \in Seq(Teams)
      <4>1. f_entries \in {<<>>} \cup {<<t>> : t \in Teams}
        BY DEF F!Init
      <4>2. \A t \in Teams : <<t>> \in Seq(Teams)
        OBVIOUS
      <4> HIDE DEF F!Init
      <4> QED
        BY ONLY <4>1, <4>2, EmptySeq, Zenon
    <3>2. PICK e \in Seq(Teams) : e = f_entries
      BY <3>1
    <3>3. f_events = <<e>> \/ f_events = <<>>
      BY <3>2 DEF F!Init
    <3> HIDE DEF F!Init
    <3>4. <<e>> \in Seq(Seq(Teams)) /\ <<>> \in Seq(Seq(Teams))
      OBVIOUS
    <3> QED
      BY <3>1, <3>3, <3>4
  <2>2. f_fetches \in [Teams -> Nat] /\ f_texts \in 0..MaxTexts /\ f_searchText \in Texts
    BY ScreensParameters DEF F!Init, F!TextsAssumption
  <2>3. f_teams \in Seq(Teams) /\ f_filteredTeams \in Seq(Teams) /\ f_shown \in Seq(Teams)
    BY DEF F!Init
  <2> QED
    BY <2>1, <2>2, <2>3 DEF F!TypeOK, F!Init
<1>2. LastEventIsEntries /\ FoundEmptiedOrShown
  BY DEF F!Init, LastEventIsEntries, FoundEmptiedOrShown
<1>3. F!MatchesListed
  BY DEF F!Init, F!MatchesListed, Range
<1>4. F!NoEntryForgotten /\ F!TapOpensShownTeam
  BY DEF F!Init, F!NoEntryForgotten, F!TapOpensShownTeam
<1> QED
  BY <1>1, <1>2, <1>3, <1>4 DEF FilterListInv

(* What occurs in a list is counted at least once.                         *)
LEMMA OccurrencesFacts ==
    ASSUME NEW S, NEW s \in Seq(S), NEW t
    PROVE  F!Occurrences(s, t) \in Nat /\ (t \in Range(s) => F!Occurrences(s, t) > 0)
<1> DEFINE places == {i \in 1..Len(s) : s[i] = t}
<1>1. Len(s) \in Nat /\ DOMAIN s = 1..Len(s)
  BY LenProperties
<1>2. IsFiniteSet(places)
  <2>1. IsFiniteSet(1..Len(s)) /\ places \subseteq 1..Len(s)
    BY <1>1, FS_Interval
  <2> QED
    BY <2>1, FS_Subset
<1>3. t \in Range(s) => places # {}
  BY <1>1 DEF Range
<1> HIDE DEF places
<1>4. Cardinality(places) \in Nat /\ (places # {} => Cardinality(places) # 0)
  BY <1>2, FS_CardinalityType, FS_EmptySet
<1>5. F!Occurrences(s, t) = Cardinality(places)
  BY SameWords DEF F!Occurrences, places
<1> QED
  BY <1>3, <1>4, <1>5

(* Every step of the list with the search keeps its invariant.             *)
LEMMA StepKeepsFilterList == FilterListInv /\ [F!Next]_F!vars => FilterListInv'
<1> SUFFICES ASSUME FilterListInv, [F!Next]_F!vars PROVE FilterListInv'
  OBVIOUS
<1>0. /\ F!TypeOK /\ LastEventIsEntries /\ FoundEmptiedOrShown /\ F!MatchesListed
      /\ F!NoEntryForgotten /\ F!TapOpensShownTeam
  BY DEF FilterListInv
<1>a. /\ IsFiniteSet(Teams) /\ Matching \in [Texts -> SUBSET Teams] /\ MaxTexts \in Nat
  BY ScreensParameters, SameWords DEF F!TextsAssumption
<1>b. /\ f_entries \in Seq(Teams) /\ f_events \in Seq(Seq(Teams)) /\ f_fetches \in [Teams -> Nat]
      /\ f_teams \in Seq(Teams) /\ f_filteredTeams \in Seq(Teams) /\ f_shown \in Seq(Teams)
  BY <1>0 DEF F!TypeOK
<1>1. ASSUME NEW t \in Teams, F!Submitted(t) PROVE FilterListInv'
  <2>1. /\ f_entries' = Append(f_entries, t)
        /\ f_events' = IF f_filterVCType = "JudgedTeams" THEN Append(f_events, f_entries') ELSE f_events
        /\ UNCHANGED <<f_filterVCType, f_fetches, f_allRead, f_teams, f_filteredTeams, f_shown,
                       f_searchText, f_opened, f_crashed, f_texts, f_dropped>>
    BY <1>1 DEF F!Submitted
  <2>2. PICK e \in Seq(Teams) : e = f_entries'
    BY <1>b, <2>1, AppendProperties
  <2>3. Len(f_events) \in Nat
    BY <1>b, LenProperties
  <2>4. /\ Append(f_events, e) \in Seq(Seq(Teams))
        /\ Append(f_events, e) # <<>>
        /\ Append(f_events, e)[Len(Append(f_events, e))] = e
    <3> DEFINE more == Append(f_events, e)
    <3>1. more \in Seq(Seq(Teams)) /\ Len(more) = Len(f_events) + 1 /\ more[Len(f_events) + 1] = e
      BY <1>b, <2>2, AppendProperties
    <3> HIDE DEF more
    <3>2. more # <<>>
      BY <2>3, <3>1, EmptySeq
    <3>3. more = Append(f_events, e)
      BY DEF more
    <3> QED
      BY <2>3, <3>1, <3>2, <3>3
  <2>5. F!TypeOK'
    BY <1>0, <1>b, <2>1, <2>2, <2>4 DEF F!TypeOK
  <2>6. LastEventIsEntries'
    BY <2>1, <2>2, <2>4 DEF LastEventIsEntries
  <2>7. F!NoEntryForgotten'
    BY <2>1, <2>2, <2>4 DEF F!NoEntryForgotten
  <2>8. FoundEmptiedOrShown' /\ F!MatchesListed' /\ F!TapOpensShownTeam'
    BY <1>0, <2>1 DEF FoundEmptiedOrShown, F!MatchesListed, F!TapOpensShownTeam
  <2> QED
    BY <2>5, <2>6, <2>7, <2>8 DEF FilterListInv
<1>2. ASSUME F!JudgedEvent PROVE FilterListInv'
  <2>1. /\ f_events # <<>> /\ f_events' = Tail(f_events) /\ f_teams' = <<>> /\ f_filteredTeams' = <<>>
        /\ f_fetches' = [t \in Teams |-> f_fetches[t] + F!Occurrences(Head(f_events), t)]
        /\ f_dropped' = {}
        /\ UNCHANGED <<f_filterVCType, f_entries, f_allRead, f_shown, f_searchText, f_opened,
                       f_crashed, f_texts>>
    BY <1>2 DEF F!JudgedEvent
  <2>2. /\ Head(f_events) \in Seq(Teams) /\ Tail(f_events) \in Seq(Seq(Teams))
        /\ Tail(f_events) = <<>> => Head(f_events) = f_events[Len(f_events)]
        /\ Tail(f_events) # <<>> => Tail(f_events)[Len(Tail(f_events))] = f_events[Len(f_events)]
    BY <1>b, <2>1, TailFacts
  <2>3. PICK h \in Seq(Teams) : h = Head(f_events)
    BY <2>2
  <2>4. \A t \in Teams : /\ f_fetches[t] + F!Occurrences(h, t) \in Nat
                         /\ t \in Range(h) => f_fetches[t] + F!Occurrences(h, t) > 0
    <3>1. \A t \in Teams : F!Occurrences(h, t) \in Nat /\ (t \in Range(h) => F!Occurrences(h, t) > 0)
      BY OccurrencesFacts
    <3>2. \A t \in Teams : f_fetches[t] \in Nat
      BY <1>b
    <3> QED
      BY <3>1, <3>2
  <2>5. f_fetches' = [t \in Teams |-> f_fetches[t] + F!Occurrences(h, t)]
    BY <2>1, <2>3
  <2>6. F!TypeOK'
    <3>1. f_fetches' \in [Teams -> Nat]
      BY <2>4, <2>5
    <3>2. <<>> \in Seq(Teams)
      OBVIOUS
    <3> QED
      BY <1>0, <2>1, <2>2, <3>1, <3>2 DEF F!TypeOK
  <2>7. LastEventIsEntries'
    BY <1>0, <2>1, <2>2 DEF LastEventIsEntries
  <2>8. F!NoEntryForgotten'
    <3> SUFFICES ASSUME f_filterVCType = "JudgedTeams", Tail(f_events) = <<>>, NEW t \in Range(f_entries)
                 PROVE  f_fetches'[t] > 0
      BY <2>1, SameWords DEF F!NoEntryForgotten
    <3>1. f_entries = h
      BY <1>0, <2>1, <2>2, <2>3 DEF LastEventIsEntries
    <3>2. t \in Teams
      BY <1>b, RangeOfSeq
    <3> QED
      BY <2>4, <2>5, <3>1, <3>2
  <2>9. F!MatchesListed'
    <3>1. Range(<<>>) = {}
      BY DEF Range
    <3> QED
      BY <2>1, <3>1 DEF F!MatchesListed
  <2>10. FoundEmptiedOrShown' /\ F!TapOpensShownTeam'
    BY <1>0, <2>1 DEF FoundEmptiedOrShown, F!TapOpensShownTeam
  <2> QED
    BY <2>6, <2>7, <2>8, <2>9, <2>10 DEF FilterListInv
<1>3. ASSUME NEW t \in Teams, F!TeamRead(t) PROVE FilterListInv'
  <2> DEFINE copies == [i \in 1..f_fetches[t] |-> t]
  <2>1. /\ f_fetches[t] > 0 /\ f_teams' = f_teams \o copies /\ f_filteredTeams' = f_filteredTeams \o copies
        /\ f_shown' = f_filteredTeams' /\ f_fetches' = [f_fetches EXCEPT ![t] = 0]
        /\ UNCHANGED <<f_filterVCType, f_entries, f_events, f_allRead, f_searchText, f_opened,
                       f_crashed, f_texts, f_dropped>>
    BY <1>3 DEF F!TeamRead
  <2>2. f_fetches[t] \in Nat
    BY <1>b
  <2>3. copies \in Seq(Teams) /\ Range(copies) = {t}
    <3>1. copies \in Seq(Teams)
      BY <2>2
    <3>2. 1 \in 1..f_fetches[t]
      BY <2>1, <2>2
    <3> QED
      BY <3>1, <3>2 DEF Range
  <2> HIDE DEF copies
  <2>4. /\ f_teams' \in Seq(Teams) /\ Range(f_teams') = Range(f_teams) \cup {t}
        /\ f_filteredTeams' \in Seq(Teams) /\ Range(f_filteredTeams') = Range(f_filteredTeams) \cup {t}
    BY <1>b, <2>1, <2>3, ConcatProperties, RangeConcatenation
  <2>5. F!TypeOK'
    <3>1. f_fetches' \in [Teams -> Nat]
      BY <1>b, <2>1
    <3> QED
      BY <1>0, <2>1, <2>4, <3>1 DEF F!TypeOK
  <2>6. F!MatchesListed'
    BY <1>0, <2>1, <2>4, SameWords DEF F!MatchesListed
  <2>7. F!NoEntryForgotten'
    <3>1. \A u \in Teams : u # t => f_fetches'[u] = f_fetches[u]
      BY <1>b, <2>1
    <3>2. Range(f_entries) \subseteq Teams
      BY <1>b, RangeOfSeq
    <3> QED
      BY <1>0, <2>1, <2>4, <3>1, <3>2, SameWords DEF F!NoEntryForgotten
  <2>8. LastEventIsEntries' /\ FoundEmptiedOrShown' /\ F!TapOpensShownTeam'
    BY <1>0, <2>1 DEF LastEventIsEntries, FoundEmptiedOrShown, F!TapOpensShownTeam
  <2> QED
    BY <2>5, <2>6, <2>7, <2>8 DEF FilterListInv
<1>4. ASSUME NEW order \in SetToSeqs(Teams), F!AllTeamsRead(order) PROVE FilterListInv'
  <2>1. /\ f_filterVCType = "AllTeams" /\ f_allRead' = TRUE
        /\ f_teams' = order /\ f_filteredTeams' = order /\ f_shown' = order
        /\ UNCHANGED <<f_filterVCType, f_entries, f_events, f_fetches, f_searchText, f_opened,
                       f_crashed, f_texts, f_dropped>>
    BY <1>4 DEF F!AllTeamsRead
  <2>2. order \in Seq(Teams)
    BY <1>a, OrdersAreLists
  <2>3. F!TypeOK'
    BY <1>0, <2>1, <2>2 DEF F!TypeOK
  <2>4. F!MatchesListed' /\ FoundEmptiedOrShown' /\ F!NoEntryForgotten'
    BY <2>1 DEF F!MatchesListed, FoundEmptiedOrShown, F!NoEntryForgotten
  <2>5. LastEventIsEntries' /\ F!TapOpensShownTeam'
    BY <1>0, <2>1 DEF LastEventIsEntries, F!TapOpensShownTeam
  <2> QED
    BY <2>3, <2>4, <2>5 DEF FilterListInv
<1>5. ASSUME NEW text \in Texts, F!textDidChange(text) PROVE FilterListInv'
  <2>1. /\ f_texts < MaxTexts /\ f_texts' = f_texts + 1 /\ f_searchText' = text
        /\ f_filteredTeams' = F!filterTeams(text) /\ f_shown' = f_filteredTeams'
        /\ UNCHANGED <<f_filterVCType, f_entries, f_events, f_fetches, f_allRead, f_teams,
                       f_opened, f_crashed, f_dropped>>
    BY <1>5 DEF F!textDidChange
  <2>2. /\ F!filterTeams(text) \in Seq(Teams)
        /\ Range(f_teams) \cap Matching[text] \subseteq Range(F!filterTeams(text))
    BY <1>b, SiftedFacts, SameWords DEF F!filterTeams
  <2>3. F!TypeOK'
    BY <1>0, <1>a, <2>1, <2>2 DEF F!TypeOK
  <2>4. F!MatchesListed' /\ FoundEmptiedOrShown'
    BY <2>1, <2>2, SameWords DEF F!MatchesListed, FoundEmptiedOrShown
  <2>5. LastEventIsEntries' /\ F!NoEntryForgotten' /\ F!TapOpensShownTeam'
    BY <1>0, <2>1 DEF LastEventIsEntries, F!NoEntryForgotten, F!TapOpensShownTeam
  <2> QED
    BY <2>3, <2>4, <2>5 DEF FilterListInv
<1>6. ASSUME NEW row \in 1..Len(f_shown), F!SelectRow(row) PROVE FilterListInv'
  <2>1. UNCHANGED <<f_filterVCType, f_entries, f_events, f_fetches, f_allRead, f_teams,
                    f_filteredTeams,
                    f_shown, f_searchText, f_texts, f_dropped>>
    BY <1>6 DEF F!SelectRow
  <2>2. Len(f_filteredTeams) \in Nat /\ Len(f_shown) \in Nat
    BY <1>b, LenProperties
  <2>3. f_opened' \in SUBSET (Teams \X Teams) /\ F!TapOpensShownTeam' /\ f_crashed' \in BOOLEAN
    <3>1. CASE row > Len(f_filteredTeams)
      BY <1>0, <1>6, <3>1 DEF F!SelectRow, F!TypeOK, F!TapOpensShownTeam
    <3>2. CASE row <= Len(f_filteredTeams)
      <4>1. row \in 1..Len(f_filteredTeams) /\ f_filteredTeams # <<>>
        BY <2>2, <3>2, EmptySeq
      <4>2. f_filteredTeams[row] = f_shown[row] /\ f_filteredTeams[row] \in Teams
        BY <1>0, <1>b, <4>1, ElementOfSeq DEF FoundEmptiedOrShown
      <4>3. f_opened' = f_opened \cup {<<f_filteredTeams[row], f_shown[row]>>} /\ f_crashed' = f_crashed
        BY <1>6, <2>2, <3>2 DEF F!SelectRow
      <4> QED
        BY <1>0, <4>2, <4>3 DEF F!TypeOK, F!TapOpensShownTeam
    <3> QED
      BY <2>2, <3>1, <3>2
  <2>4. F!TypeOK'
    BY <1>0, <2>1, <2>3 DEF F!TypeOK
  <2>5. LastEventIsEntries' /\ FoundEmptiedOrShown' /\ F!MatchesListed' /\ F!NoEntryForgotten'
    BY <1>0, <2>1 DEF LastEventIsEntries, FoundEmptiedOrShown, F!MatchesListed, F!NoEntryForgotten
  <2> QED
    BY <2>3, <2>4, <2>5 DEF FilterListInv
<1>7. CASE UNCHANGED F!vars
  BY <1>0, <1>7 DEF FilterListInv, F!TypeOK, LastEventIsEntries, FoundEmptiedOrShown,
     F!MatchesListed,
     F!NoEntryForgotten, F!TapOpensShownTeam, F!vars
<1>8. ASSUME NEW t \in Teams, F!TeamUndecodable(t) PROVE FilterListInv'
  <2>1. /\ f_fetches' = [f_fetches EXCEPT ![t] = 0] /\ f_dropped' = f_dropped \cup {t}
        /\ UNCHANGED <<f_filterVCType, f_entries, f_events, f_allRead, f_teams, f_filteredTeams,
                       f_shown, f_searchText, f_opened, f_crashed, f_texts>>
    BY <1>8 DEF F!TeamUndecodable
  <2>2. F!TypeOK'
    <3>1. f_fetches' \in [Teams -> Nat]
      BY <1>b, <2>1
    <3> QED
      BY <1>0, <2>1, <3>1 DEF F!TypeOK
  <2>3. F!NoEntryForgotten'
    <3>1. \A u \in Teams : u # t => f_fetches'[u] = f_fetches[u]
      BY <1>b, <2>1
    <3>2. Range(f_entries) \subseteq Teams
      BY <1>b, RangeOfSeq
    <3> QED
      BY <1>0, <2>1, <3>1, <3>2, SameWords DEF F!NoEntryForgotten
  <2>4. /\ LastEventIsEntries' /\ FoundEmptiedOrShown' /\ F!MatchesListed'
        /\ F!TapOpensShownTeam'
    BY <1>0, <2>1 DEF LastEventIsEntries, FoundEmptiedOrShown, F!MatchesListed,
       F!TapOpensShownTeam
  <2> QED
    BY <2>2, <2>3, <2>4 DEF FilterListInv
<1>9. ASSUME F!AllTeamsUndecodable PROVE FilterListInv'
  BY <1>0, <1>9 DEF FilterListInv, F!TypeOK, LastEventIsEntries, FoundEmptiedOrShown,
     F!MatchesListed, F!NoEntryForgotten, F!TapOpensShownTeam, F!AllTeamsUndecodable
<1> QED
  BY <1>1, <1>2, <1>3, <1>4, <1>5, <1>6, <1>7, <1>8, <1>9, SameWords DEF F!Next

-----------------------------------------------------------------------------
(* The organisers' messages (Notifications).                               *)

Posted(table) == {<<k, table[k]>> : k \in DOMAIN table}

(* The value that arrives last is the subtree as it is.                    *)
LastEventIsMessages == n_events # <<>> => n_events[Len(n_events)] = n_messages

MessagesInv ==
    /\ N!TypeOK
    /\ LastEventIsMessages
    /\ N!NothingHeldBack
    /\ N!NewestFirst

(* What the observer makes of a subtree that decodes.                      *)
LEMMA SortedFacts ==
    ASSUME NEW table \in N!Tables, Malformed \notin Range(table),
           NEW s \in N!Sorted(table)
    PROVE  /\ s \in Seq(Keys \X N!Stamps) /\ IsInjective(s) /\ Range(s) = Posted(table)
           /\ \A i, l \in DOMAIN s :
                 i < l => N!parseISODateString(s[i][2]) >= N!parseISODateString(s[l][2])
<1>1. PICK S \in SUBSET Keys : table \in [S -> N!Stamps \cup {Malformed}]
  BY DEF N!Tables
<1>2. DOMAIN table = S /\ IsFiniteSet(S)
  BY <1>1, FS_Subset, ScreensParameters, SameWords DEF N!DatesAssumption
<1>3. \A k \in S : table[k] \in N!Stamps
  BY <1>1, <1>2 DEF Range
<1>4. IsFiniteSet(Posted(table))
  <2> DEFINE f == [k \in S |-> <<k, table[k]>>]
  <2>1. Posted(table) = {<<k, table[k]>> : k \in S}
    BY <1>2 DEF Posted
  <2>2. f \in Surjection(S, Posted(table))
    BY <2>1, Fun_IsSurj
  <2> HIDE DEF f
  <2> QED
    BY <1>2, <2>2, FS_Surjection
<1>5. /\ s \in SetToSeqs(Posted(table))
      /\ \A i, l \in DOMAIN s :
            i < l => N!parseISODateString(s[i][2]) >= N!parseISODateString(s[l][2])
  BY SameWords DEF N!Sorted, Posted
<1>6. s \in Seq(Posted(table)) /\ IsInjective(s) /\ Range(s) = Posted(table)
  BY <1>4, <1>5, OrdersAreLists
<1>7. Posted(table) \subseteq Keys \X N!Stamps
  BY <1>2, <1>3 DEF Posted
<1>8. s \in Seq(Keys \X N!Stamps)
  BY <1>6, <1>7, SeqMonotonic
<1> QED
  BY <1>5, <1>6, <1>8

(* The messages of the start were not heard of.                            *)
LEMMA InitMessages == N!Init => MessagesInv
<1> SUFFICES ASSUME N!Init PROVE MessagesInv
  OBVIOUS
<1>1. PICK m \in N!Tables : m = n_messages
  BY DEF N!Init
<1>2. n_events = <<m>> /\ n_events # <<>> /\ n_messagesData = <<>>
  BY <1>1 DEF N!Init
<1>3. n_events \in Seq(N!Tables) /\ n_messagesData \in Seq(Keys \X N!Stamps)
  BY <1>2
<1>4. N!TypeOK
  <2>1. n_messages \in N!Tables /\ n_crashed = FALSE /\ n_changes = 0
    BY DEF N!Init
  <2>2. n_changes \in 0..MaxPosts
    BY <2>1, ScreensParameters DEF N!DatesAssumption
  <2> QED
    BY <1>3, <2>1, <2>2 DEF N!TypeOK
<1>5. LastEventIsMessages
  BY <1>1, <1>2 DEF LastEventIsMessages
<1>6. N!NothingHeldBack
  BY <1>2 DEF N!NothingHeldBack
<1>7. N!NewestFirst
  BY <1>2 DEF N!NewestFirst, N!IsInjective
<1> QED
  BY <1>4, <1>5, <1>6, <1>7 DEF MessagesInv

(* Every step of the list of messages keeps its invariant.                 *)
LEMMA StepKeepsMessages == MessagesInv /\ [N!Next]_N!vars => MessagesInv'
<1> SUFFICES ASSUME MessagesInv, [N!Next]_N!vars PROVE MessagesInv'
  OBVIOUS
<1>0. N!TypeOK /\ LastEventIsMessages /\ N!NothingHeldBack /\ N!NewestFirst
  BY DEF MessagesInv
<1>a. /\ Dates \subseteq Nat \ {0} /\ Garbled \notin Dates /\ MaxPosts \in Nat
      /\ Malformed \notin Dates /\ Garbled # Malformed
  BY ScreensParameters DEF N!DatesAssumption
<1>1. ASSUME NEW k \in Keys, N!Change(k) PROVE MessagesInv'
  <2>1. /\ \/ n_messages' = [d \in DOMAIN n_messages \ {k} |-> n_messages[d]]
           \/ \E m \in N!Stamps \cup {Malformed} :
                n_messages' = [d \in DOMAIN n_messages \cup {k} |-> IF d = k THEN m ELSE n_messages[d]]
        /\ n_events' = Append(n_events, n_messages')
        /\ n_changes < MaxPosts /\ n_changes' = n_changes + 1
        /\ n_messagesData' = n_messagesData /\ n_crashed' = n_crashed
    BY <1>1 DEF N!Change
  <2>2. PICK S \in SUBSET Keys : n_messages \in [S -> N!Stamps \cup {Malformed}]
    BY <1>0 DEF N!TypeOK, N!Tables
  <2>3. /\ S \ {k} \in SUBSET Keys /\ S \cup {k} \in SUBSET Keys
        /\ \/ n_messages' \in [S \ {k} -> N!Stamps \cup {Malformed}]
           \/ n_messages' \in [S \cup {k} -> N!Stamps \cup {Malformed}]
    BY <2>1, <2>2
  <2>4. n_messages' \in N!Tables
    BY <2>3 DEF N!Tables
  <2>5. PICK t \in N!Tables : t = n_messages'
    BY <2>4
  <2>6. n_events \in Seq(N!Tables) /\ Len(n_events) \in Nat
    BY <1>0, LenProperties DEF N!TypeOK
  <2> DEFINE more == Append(n_events, t)
  <2>7. more \in Seq(N!Tables) /\ Len(more) = Len(n_events) + 1 /\ more[Len(n_events) + 1] = t
    BY <2>6, AppendProperties
  <2>8. n_events' = more
    BY <2>1, <2>5
  <2> HIDE DEF more
  <2>9. more # <<>>
    BY <2>6, <2>7, EmptySeq
  <2>10. N!TypeOK'
    BY <1>0, <1>a, <2>1, <2>4, <2>7, <2>8 DEF N!TypeOK
  <2>11. LastEventIsMessages'
    BY <2>5, <2>6, <2>7, <2>8 DEF LastEventIsMessages
  <2>12. N!NothingHeldBack'
    BY <2>8, <2>9 DEF N!NothingHeldBack
  <2>13. N!NewestFirst'
    BY <1>0, <2>1 DEF N!NewestFirst
  <2> QED
    BY <2>10, <2>11, <2>12, <2>13 DEF MessagesInv
<1>2. ASSUME N!MessagesEvent PROVE MessagesInv'
  <2>1. /\ n_events # <<>> /\ n_events' = Tail(n_events) /\ ~n_crashed
        /\ n_messages' = n_messages /\ n_changes' = n_changes
    BY <1>2 DEF N!MessagesEvent
  <2>2. n_events \in Seq(N!Tables)
    BY <1>0 DEF N!TypeOK
  <2>3. /\ Head(n_events) \in N!Tables /\ Tail(n_events) \in Seq(N!Tables)
        /\ Tail(n_events) = <<>> => Head(n_events) = n_events[Len(n_events)]
        /\ Tail(n_events) # <<>> => Tail(n_events)[Len(Tail(n_events))] = n_events[Len(n_events)]
    BY <2>1, <2>2, TailFacts
  <2>4. PICK h \in N!Tables : h = Head(n_events)
    BY <2>3
  <2>5. \/ n_crashed' = TRUE /\ n_messagesData' = n_messagesData
        \/ Malformed \in Range(h) /\ n_messagesData' = n_messagesData /\ n_crashed' = n_crashed
        \/ Malformed \notin Range(h) /\ n_messagesData' \in N!Sorted(h) /\ n_crashed' = n_crashed
    BY <1>2, <2>4, SameWords DEF N!MessagesEvent
  <2>6. /\ n_messagesData' \in Seq(Keys \X N!Stamps) /\ N!NewestFirst'
        /\ Malformed \notin Range(h) /\ ~n_crashed' => Range(n_messagesData') = Posted(h)
    <3>1. CASE n_messagesData' = n_messagesData /\ (n_crashed' \/ Malformed \in Range(h))
      BY <1>0, <3>1 DEF N!TypeOK, N!NewestFirst
    <3>2. CASE Malformed \notin Range(h) /\ n_messagesData' \in N!Sorted(h)
      <4>1. PICK s \in N!Sorted(h) : s = n_messagesData'
        BY <3>2
      <4>2. /\ s \in Seq(Keys \X N!Stamps) /\ IsInjective(s) /\ Range(s) = Posted(h)
            /\ \A i, l \in DOMAIN s :
                  i < l => N!parseISODateString(s[i][2]) >= N!parseISODateString(s[l][2])
        BY <3>2, <4>1, SortedFacts, ScreensParameters
      <4>3. \A i \in DOMAIN s : s[i][2] \in Dates \cup {Garbled}
        <5>1. \A i \in DOMAIN s : s[i] \in Keys \X N!Stamps
          BY <4>2, ElementOfSeq, LenProperties
        <5> QED
          BY <5>1 DEF N!Stamps
      <4>4. ASSUME NEW i \in DOMAIN s, NEW l \in DOMAIN s, i < l, s[l][2] \in Dates
            PROVE  s[i][2] \in Dates /\ s[i][2] >= s[l][2]
        <5>1. N!parseISODateString(s[i][2]) >= N!parseISODateString(s[l][2])
          BY <4>2, <4>4
        <5>2. N!parseISODateString(s[l][2]) = s[l][2] /\ s[l][2] \in Nat \ {0}
          BY <1>a, <4>4 DEF N!parseISODateString
        <5>3. s[i][2] # Garbled
          BY <5>1, <5>2 DEF N!parseISODateString
        <5> QED
          BY <4>3, <5>1, <5>2, <5>3 DEF N!parseISODateString
      <4>5. N!NewestFirst'
        BY <4>1, <4>2, <4>4, SameWords DEF N!NewestFirst
      <4> QED
        BY <4>1, <4>2, <4>5
    <3> QED
      BY <2>5, <3>1, <3>2
  <2>7. N!TypeOK'
    <3>1. n_crashed' \in BOOLEAN
      BY <1>0, <2>5 DEF N!TypeOK
    <3> QED
      BY <1>0, <2>1, <2>3, <2>6, <3>1 DEF N!TypeOK
  <2>8. LastEventIsMessages'
    BY <1>0, <2>1, <2>3 DEF LastEventIsMessages
  <2>9. N!NothingHeldBack'
    <3> SUFFICES ASSUME Tail(n_events) = <<>>, ~n_crashed', N!Decodes(n_messages)
                 PROVE  Range(n_messagesData') = Posted(n_messages)
      BY <2>1, SameWords DEF N!NothingHeldBack, Posted, N!Decodes
    <3>1. h = n_messages
      BY <1>0, <2>1, <2>3, <2>4 DEF LastEventIsMessages
    <3> QED
      BY <2>6, <3>1, SameWords DEF N!Decodes
  <2> QED
    BY <2>6, <2>7, <2>8, <2>9 DEF MessagesInv
<1>3. CASE UNCHANGED N!vars
  BY <1>0, <1>3 DEF MessagesInv, N!TypeOK, LastEventIsMessages, N!NothingHeldBack, N!Decodes,
     N!NewestFirst, N!vars
<1> QED
  BY <1>1, <1>2, <1>3 DEF N!Next

-----------------------------------------------------------------------------
ListsInv == TeamListInv /\ FilterListInv /\ MessagesInv

(* Each part's steps keep its own invariant, the other parts stand still.  *)
LEMMA StepKeepsLists == ListsInv /\ [PartsNext]_all => ListsInv'
<1> SUFFICES ASSUME ListsInv, [PartsNext]_all PROVE ListsInv'
  OBVIOUS
<1>1. [T!Next]_T!vars /\ [F!Next]_F!vars /\ [N!Next]_N!vars
  BY DEF PartsNext, SessionStep, TeamListStep, FilterListStep, NotificationStep, ConnectionStep,
     all, TeamListVars, FilterListVars, NotificationVars, T!vars, T!table, F!vars, N!vars
<1> QED
  BY <1>1, StepKeepsTeamList, StepKeepsFilterList, StepKeepsMessages DEF ListsInv

(* However rounds of reads, logos, entries, typing and messages overlap:   *)
(* no entry or message is lost, and no team but one whose record does not  *)
(* decode; a tapped row opens the team it shows, no row has another team's *)
(* logo, and the newest message is first.                                  *)
THEOREM ListsTheorem == PartsSpec => []ListsAreTrue
<1>1. PartsInit => ListsInv
  BY InitTeamList, InitFilterList, InitMessages DEF PartsInit, ListsInv
<1>2. ListsInv => ListsAreTrue
  BY DEF ListsInv, TeamListInv, FilterListInv, MessagesInv, ListsAreTrue
<1> QED
  BY <1>1, <1>2, StepKeepsLists, PTL DEF PartsSpec

-----------------------------------------------------------------------------
(* The connection (Connection).                                            *)

(* The words of the libraries mean the same in Connection.                 *)
LEMMA SameWordsC ==
    /\ \A f : C!ToSet(f) = ToSet(f)
    /\ \A s, S : C!Sifted(s, S) = Sifted(s, S)
    /\ \A S : C!Cardinality(S) = Cardinality(S)
<1>1. \A f : C!ToSet(f) = ToSet(f)
  BY DEF ToSet, C!ToSet
<1>2. \A s, S : C!Sifted(s, S) = Sifted(s, S)
  BY DEF Sifted, C!Sifted
<1>3. \A S : C!Cardinality(S) = Cardinality(S)
  BY DEF Cardinality, C!Cardinality
<1> QED
  BY <1>1, <1>2, <1>3

Unlisten == [type |-> "unlisten"]
Requests ==
    {C!ListenRequest, Unlisten} \cup {C!Auth(r) : r \in BOOLEAN} \cup {C!Put(p) : p \in Nat}
Data(n) == [type |-> "data", at |-> n]
AuthAnswer(r, ok) == [type |-> "auth", restore |-> r, ok |-> ok]
PutAnswer(p, ok) == [type |-> "put", put |-> p, ok |-> ok]
Messages ==
    {C!ListenRequest} \cup {Data(n) : n \in Nat}
    \cup {AuthAnswer(r, ok) : r \in BOOLEAN, ok \in BOOLEAN}
    \cup {PutAnswer(p, ok) : p \in Nat, ok \in BOOLEAN}
Told == [put : Nat, ok : BOOLEAN]

(* Requests of different kinds differ, and the type tells the kind.        *)
LEMMA RequestKinds ==
    /\ \A p, q : C!Put(p) = C!Put(q) => p = q
    /\ \A p : C!Put(p) # C!ListenRequest /\ C!Put(p) # Unlisten
    /\ \A p, r : C!Put(p) # C!Auth(r)
    /\ \A r : C!Auth(r) # C!ListenRequest /\ C!Auth(r) # Unlisten
    /\ C!Auth(TRUE) # C!Auth(FALSE)
    /\ C!ListenRequest # Unlisten
    /\ {C!ListenRequest, Unlisten, C!Auth(TRUE), C!Auth(FALSE)} \subseteq Requests
    /\ \A p \in Nat : C!Put(p) \in Requests
    /\ \A x \in Requests : /\ x.type = "listen" => x = C!ListenRequest
                           /\ x.type = "unlisten" => x = Unlisten
                           /\ x.type = "auth" => x.restore \in BOOLEAN /\ x = C!Auth(x.restore)
                           /\ x.type = "put" => x.put \in Nat /\ x = C!Put(x.put)
<1>1. \A x \in Requests : \/ x = C!ListenRequest \/ x = Unlisten
                          \/ \E r \in BOOLEAN : x = C!Auth(r)
                          \/ \E p \in Nat : x = C!Put(p)
  BY DEF Requests
<1>2. \A p, q : C!Put(p) = C!Put(q) => p = q
  BY DEF C!Put
<1>3. /\ \A p : C!Put(p) # C!ListenRequest /\ C!Put(p) # Unlisten
      /\ \A p, r : C!Put(p) # C!Auth(r)
      /\ \A r : C!Auth(r) # C!ListenRequest /\ C!Auth(r) # Unlisten
      /\ C!ListenRequest # Unlisten
  BY DEF C!Put, C!Auth, C!ListenRequest, Unlisten
<1>4. C!Auth(TRUE) # C!Auth(FALSE)
  BY DEF C!Auth
<1>5. /\ {C!ListenRequest, Unlisten, C!Auth(TRUE), C!Auth(FALSE)} \subseteq Requests
      /\ \A p \in Nat : C!Put(p) \in Requests
  BY DEF Requests
<1>6. \A x \in Requests : /\ x.type = "listen" => x = C!ListenRequest
                          /\ x.type = "unlisten" => x = Unlisten
                          /\ x.type = "auth" => x.restore \in BOOLEAN /\ x = C!Auth(x.restore)
                          /\ x.type = "put" => x.put \in Nat /\ x = C!Put(x.put)
  BY <1>1 DEF C!Put, C!Auth, C!ListenRequest, Unlisten
<1> QED
  BY <1>2, <1>3, <1>4, <1>5, <1>6

(* Messages of different kinds differ, and the type tells the kind.        *)
LEMMA MessageKinds ==
    /\ \A m, n : Data(m) = Data(n) => m = n
    /\ \A p, q, a, b : PutAnswer(p, a) = PutAnswer(q, b) => p = q /\ a = b
    /\ \A r, s, a, b : AuthAnswer(r, a) = AuthAnswer(s, b) => r = s /\ a = b
    /\ \A n, p, a : Data(n) # PutAnswer(p, a) /\ Data(n) # C!ListenRequest
    /\ \A p, a : PutAnswer(p, a) # C!ListenRequest
    /\ \A r, a, n, p, b : /\ AuthAnswer(r, a) # Data(n) /\ AuthAnswer(r, a) # PutAnswer(p, b)
                          /\ AuthAnswer(r, a) # C!ListenRequest
    /\ C!ListenRequest \in Messages
    /\ \A n \in Nat, a \in BOOLEAN : PutAnswer(n, a) \in Messages /\ Data(n) \in Messages
    /\ \A r \in BOOLEAN, a \in BOOLEAN : AuthAnswer(r, a) \in Messages
    /\ \A x \in Messages :
          /\ x.type = "listen" => x = C!ListenRequest
          /\ x.type = "data" => x.at \in Nat /\ x = Data(x.at)
          /\ x.type = "auth" => /\ x.restore \in BOOLEAN /\ x.ok \in BOOLEAN
                                /\ x = AuthAnswer(x.restore, x.ok)
          /\ x.type = "put" => /\ x.put \in Nat /\ x.ok \in BOOLEAN
                               /\ x = PutAnswer(x.put, x.ok)
<1>1. \A x \in Messages : \/ x = C!ListenRequest \/ \E n \in Nat : x = Data(n)
                          \/ \E r \in BOOLEAN, ok \in BOOLEAN : x = AuthAnswer(r, ok)
                          \/ \E p \in Nat, ok \in BOOLEAN : x = PutAnswer(p, ok)
  BY DEF Messages
<1>2. \A m, n : Data(m) = Data(n) => m = n
  BY DEF Data
<1>3. \A p, q, a, b : PutAnswer(p, a) = PutAnswer(q, b) => p = q /\ a = b
  BY DEF PutAnswer
<1>4. \A r, s, a, b : AuthAnswer(r, a) = AuthAnswer(s, b) => r = s /\ a = b
  BY DEF AuthAnswer
<1>5. /\ \A n, p, a : Data(n) # PutAnswer(p, a) /\ Data(n) # C!ListenRequest
      /\ \A p, a : PutAnswer(p, a) # C!ListenRequest
      /\ \A r, a, n, p, b : /\ AuthAnswer(r, a) # Data(n) /\ AuthAnswer(r, a) # PutAnswer(p, b)
                            /\ AuthAnswer(r, a) # C!ListenRequest
  BY DEF Data, PutAnswer, AuthAnswer, C!ListenRequest
<1>6. /\ C!ListenRequest \in Messages
      /\ \A n \in Nat, a \in BOOLEAN : PutAnswer(n, a) \in Messages /\ Data(n) \in Messages
      /\ \A r \in BOOLEAN, a \in BOOLEAN : AuthAnswer(r, a) \in Messages
  BY DEF Messages
<1>7. \A x \in Messages :
          /\ x.type = "listen" => x = C!ListenRequest
          /\ x.type = "data" => x.at \in Nat /\ x = Data(x.at)
          /\ x.type = "auth" => /\ x.restore \in BOOLEAN /\ x.ok \in BOOLEAN
                                /\ x = AuthAnswer(x.restore, x.ok)
          /\ x.type = "put" => /\ x.put \in Nat /\ x.ok \in BOOLEAN
                               /\ x = PutAnswer(x.put, x.ok)
  BY <1>1 DEF Data, PutAnswer, AuthAnswer, C!ListenRequest
<1> QED
  BY <1>2, <1>3, <1>4, <1>5, <1>6, <1>7

-----------------------------------------------------------------------------
(* Where writes, listens and answers are.                                  *)

Sees(n, p) == \E i \in 1..n : c_server.history[i] = p
Applied(p) == Sees(Len(c_server.history), p)
Known(p) == Applied(p) \/ p \in c_server.refused
First(s, x) == Has(s, x) /\ \A y : ~Precedes(s, y, x)

CTypes ==
    /\ C!TypeOK
    /\ c_up \in Seq(Requests) /\ c_down \in Seq(Messages)
    /\ c_answers \in Seq(Told) /\ c_held \in Seq(Told)
    /\ c_server \in [history : Seq(Nat), registered : BOOLEAN, loaded : BOOLEAN, asked : Nat,
                     refused : SUBSET Nat]
    /\ c_used \in [puts : Nat, listens : Nat, events : Nat]
    /\ c_attempt \in Nat

(* Attempts to connect; nothing is on its way to a device without one.     *)
Attempting ==
    /\ c_retry <=> c_state = "disconnected" /\ ~c_interrupted
    /\ c_interrupted => c_state = "disconnected"
    /\ c_state \in {"connecting", "authenticating", "connected"} => c_attempt \notin c_fetches
    /\ ~C!connected => c_down = <<>> /\ c_unacked = 0

(* The first request of a session is the restoring one, or it was answered *)
(* and nothing else was before.                                            *)
RestoreAsked ==
    /\ c_down = <<>> /\ First(c_up, C!Auth(TRUE)) /\ c_server.asked = 0 /\ ~c_server.loaded
RestoreAnswered ==
    /\ ~Has(c_up, C!Auth(TRUE))
    /\ \E ok \in BOOLEAN : /\ First(c_down, AuthAnswer(TRUE, ok))
                           /\ ~Has(c_down, AuthAnswer(TRUE, ~ok))
Restores ==
    /\ c_state = "connected" => /\ ~Has(c_up, C!Auth(TRUE))
                                /\ \A ok \in BOOLEAN : ~Has(c_down, AuthAnswer(TRUE, ok))
    /\ c_state = "authenticating" => RestoreAsked \/ RestoreAnswered

(* A listen not answered is on its way there, at the server, or on its way *)
(* back.                                                                   *)
Counted ==
    C!connected =>
        c_unacked = Times(c_up, C!ListenRequest) + c_server.asked + Times(c_down, C!ListenRequest)

(* The puts on the wire are outstanding; when they can be sent, all are.   *)
OnTheWire ==
    /\ \A p \in Nat : Has(c_up, C!Put(p)) => p \in c_puts
    /\ \A p \in Nat, ok \in BOOLEAN : Has(c_down, PutAnswer(p, ok)) => p \in c_puts
    /\ c_state = "connected" =>
          \A p \in c_puts : \/ Has(c_up, C!Put(p))
                            \/ \E ok \in BOOLEAN : Has(c_down, PutAnswer(p, ok))
    /\ c_state = "authenticating" =>
          \A p \in Nat : /\ ~Has(c_up, C!Put(p))
                         /\ \A ok \in BOOLEAN : ~Has(c_down, PutAnswer(p, ok))

(* They are in the order of their numbers.                                 *)
Rising ==
    /\ \A p, q \in Nat : Precedes(c_up, C!Put(p), C!Put(q)) => p < q
    /\ \A p, q \in Nat, a, b \in BOOLEAN :
          Precedes(c_down, PutAnswer(p, a), PutAnswer(q, b)) => p < q
    /\ \A p, q \in Nat, a \in BOOLEAN :
          Has(c_down, PutAnswer(p, a)) /\ Has(c_up, C!Put(q)) => p < q

(* What an answer says is true, and those before a put are settled.        *)
AnswersTrue ==
    \A p \in Nat : /\ Has(c_down, PutAnswer(p, TRUE)) => Applied(p)
                   /\ Has(c_down, PutAnswer(p, FALSE)) => p \in c_server.refused
EarlierKnown ==
    \A p, q \in Nat : 1 <= p /\ p < q /\ Has(c_up, C!Put(q)) => Known(p) \/ Has(c_up, C!Put(p))
SettledFirst ==
    \A p \in 1..c_used.puts : p \notin c_puts => Known(p) /\ \A q \in c_puts : p < q

(* Callers were told, or will be, of all that is settled, once.            *)
ToldOrHeld(p, ok) == Has(c_answers, C!Answer(p, ok)) \/ Has(c_held, C!Answer(p, ok))
ToldSettled ==
    /\ \A p \in Nat, ok \in BOOLEAN : ToldOrHeld(p, ok) => p \in 1..c_used.puts /\ p \notin c_puts
    /\ \A p \in 1..c_used.puts : p \notin c_puts => \E ok \in BOOLEAN : ToldOrHeld(p, ok)
    /\ \A p \in Nat : ToldOrHeld(p, TRUE) => Applied(p)
ToldOnce ==
    \A p \in Nat, a, b \in BOOLEAN :
        /\ ~Precedes(c_answers, C!Answer(p, a), C!Answer(p, b))
        /\ ~Precedes(c_held, C!Answer(p, a), C!Answer(p, b))
        /\ ~(Has(c_answers, C!Answer(p, a)) /\ Has(c_held, C!Answer(p, b)))

(* Who observes is registered, or will be.                                 *)
Observed ==
    /\ c_cache # 0 => c_listens
    /\ c_server.registered /\ ~c_server.loaded => c_server.asked > 0
    /\ c_state = "connected" /\ c_listens =>
          \/ Outlasts(c_up, C!ListenRequest, Unlisten)
          \/ c_server.registered /\ ~Has(c_up, Unlisten)

(* Data on its way is newer than what was heard, and than what was told.   *)
DataNewer ==
    /\ \A n \in Nat : Has(c_down, Data(n)) =>
          /\ c_cache <= n /\ n <= Len(c_server.history)
          /\ \A p \in Nat : ToldOrHeld(p, TRUE) => Sees(n, p)
    /\ \A m, n \in Nat : Precedes(c_down, Data(m), Data(n)) => m <= n
    /\ \A p, n \in Nat : Precedes(c_down, PutAnswer(p, TRUE), Data(n)) => Sees(n, p)

(* Before a caller is told of p, newer data than p will have been heard.   *)
Safe(p) ==
    \/ ~c_listens \/ Sees(c_cache, p) \/ c_server.asked > 0 \/ Has(c_up, C!ListenRequest)
    \/ \E n \in Nat : Precedes(c_down, Data(n), C!ListenRequest) /\ Sees(n, p)
HeldSafe ==
    c_state = "connected" =>
        \A p \in Nat :
            /\ Has(c_held, C!Answer(p, TRUE)) => Safe(p)
            /\ Has(c_down, PutAnswer(p, TRUE)) =>
                  \/ Safe(p)
                  \/ \E n \in Nat : Precedes(c_down, Data(n), PutAnswer(p, TRUE)) /\ Sees(n, p)
HeardTold ==
    c_cache # 0 => \A p \in Nat : Has(c_answers, C!Answer(p, TRUE)) => Sees(c_cache, p)

CInv ==
    /\ CTypes /\ Attempting /\ Restores /\ Counted
    /\ OnTheWire /\ Rising /\ AnswersTrue /\ EarlierKnown /\ SettledFirst
    /\ ToldSettled /\ ToldOnce
    /\ Observed /\ DataNewer /\ HeldSafe /\ HeardTold
    /\ C!AppliedInOrder

-----------------------------------------------------------------------------
(* What is on a list of elements of S is in S.                             *)
LEMMA Elements ==
    ASSUME NEW S, NEW s \in Seq(S), NEW x, Has(s, x)
    PROVE  x \in S
  BY ElementOfSeq DEF Has

(* The history is a list of writes that were made, and the position heard  *)
(* last is one in it.                                                      *)
LEMMA CacheFacts ==
    ASSUME CTypes
    PROVE  /\ Len(c_server.history) \in Nat /\ c_cache \in Nat
           /\ c_cache <= Len(c_server.history)
           /\ \A i \in 1..Len(c_server.history) : c_server.history[i] \in 0..c_used.puts
           /\ c_server.history \in Seq(Nat) /\ c_used.puts \in Nat
           /\ c_puts \subseteq 1..c_used.puts
<1>1. c_server.history \in Seq(Nat) /\ c_used.puts \in Nat
  BY DEF CTypes
<1>2. PICK h \in Seq(Nat) : h = c_server.history
  BY <1>1
<1>3. Len(h) \in Nat /\ c_cache \in 0..Len(h) /\ C!ToSet(h) \subseteq 0..c_used.puts
      /\ c_puts \subseteq 1..c_used.puts
  BY <1>2, LenProperties DEF CTypes, C!TypeOK
<1>4. \A i \in 1..Len(h) : h[i] \in C!ToSet(h)
  BY <1>2, LenProperties DEF C!ToSet
<1> QED
  BY <1>1, <1>2, <1>3, <1>4

(* The type of the history, said of its elements or of its positions.      *)
LEMMA HistoryTyped ==
    ASSUME NEW h \in Seq(Nat), NEW n
    PROVE  C!ToSet(h) \subseteq 0..n <=> \A i \in 1..Len(h) : h[i] \in 0..n
  BY LenProperties DEF C!ToSet

(* Losing the connection, or working on having one.                        *)
LEMMA OfflineKeeps ==
    ASSUME CInv, c_state' \in {"disconnected", "getting_token", "connecting"},
           c_down' = <<>>, c_unacked' = 0,
           UNCHANGED <<c_listens, c_puts, c_held, c_answers, c_cache, c_up, c_server>>,
           c_used'.puts = c_used.puts, CTypes', Attempting'
    PROVE  CInv'
<1>1. ~C!connected' /\ c_state' # "connected" /\ c_state' # "authenticating"
  BY DEF C!connected
<1>2. \A x, y : ~Has(c_down', x) /\ ~Precedes(c_down', x, y)
  BY Empty
<1>3. \A n, p : Sees(n, p)' <=> Sees(n, p)
  BY DEF Sees
<1>4. \A p : (Applied(p)' <=> Applied(p)) /\ (Known(p)' <=> Known(p))
  BY <1>3 DEF Applied, Known
<1>5. \A p, ok : ToldOrHeld(p, ok)' <=> ToldOrHeld(p, ok)
  BY DEF ToldOrHeld
<1>6. Restores' /\ Counted' /\ HeldSafe'
  BY <1>1 DEF Restores, Counted, HeldSafe
<1>7. OnTheWire'
  BY <1>1, <1>2 DEF CInv, OnTheWire
<1>8. Rising'
  BY <1>2 DEF CInv, Rising
<1>9. AnswersTrue' /\ EarlierKnown' /\ SettledFirst'
  BY <1>2, <1>4 DEF CInv, AnswersTrue, EarlierKnown, SettledFirst
<1>10. ToldSettled'
  BY <1>4, <1>5 DEF CInv, ToldSettled
<1>11. ToldOnce'
  BY DEF CInv, ToldOnce
<1>12. Observed'
  BY <1>1 DEF CInv, Observed
<1>13. DataNewer'
  BY <1>2 DEF DataNewer
<1>14. HeardTold'
  BY <1>3 DEF CInv, HeardTold
<1>15. C!AppliedInOrder'
  BY DEF CInv, C!AppliedInOrder
<1> QED
  BY <1>6, <1>7, <1>8, <1>9, <1>10, <1>11, <1>12, <1>13, <1>14, <1>15 DEF CInv

(* What an event, a write and a listen use up of the bounds.               *)
LEMMA UseFacts ==
    ASSUME CTypes
    PROVE  /\ C!Event => /\ c_used' \in [puts : Nat, listens : Nat, events : Nat]
                         /\ c_used'.puts = c_used.puts
           /\ C!Use("puts") => /\ c_used' \in [puts : Nat, listens : Nat, events : Nat]
                               /\ c_used'.puts = c_used.puts + 1
           /\ C!Use("listens") => /\ c_used' \in [puts : Nat, listens : Nat, events : Nat]
                                  /\ c_used'.puts = c_used.puts
<1>1. c_used \in [puts : Nat, listens : Nat, events : Nat]
  BY DEF CTypes
<1>2. ASSUME C!Use("events") PROVE c_used' = [c_used EXCEPT !.events = @ + 1]
  BY <1>2 DEF C!Use
<1>3. ASSUME C!Use("puts") PROVE c_used' = [c_used EXCEPT !.puts = @ + 1]
  BY <1>3 DEF C!Use
<1>4. ASSUME C!Use("listens") PROVE c_used' = [c_used EXCEPT !.listens = @ + 1]
  BY <1>4 DEF C!Use
<1> QED
  BY <1>1, <1>2, <1>3, <1>4 DEF C!Event

(* The parts of the types, of a state.                                     *)
LEMMA TypeParts ==
    ASSUME CTypes
    PROVE  /\ c_state \in {"disconnected", "getting_token", "connecting", "authenticating", "connected"}
           /\ c_retry \in BOOLEAN /\ c_interrupted \in BOOLEAN /\ c_token \in BOOLEAN
           /\ c_listens \in BOOLEAN /\ c_fetches \subseteq 1..c_attempt /\ c_unacked \in Nat
           /\ c_puts \subseteq 1..c_used.puts /\ c_cache \in 0..Len(c_server.history)
           /\ \A i \in 1..Len(c_server.history) : c_server.history[i] \in 0..c_used.puts
           /\ c_up \in Seq(Requests) /\ c_down \in Seq(Messages)
           /\ c_answers \in Seq(Told) /\ c_held \in Seq(Told)
           /\ c_server \in [history : Seq(Nat), registered : BOOLEAN, loaded : BOOLEAN, asked : Nat,
                            refused : SUBSET Nat]
           /\ c_used \in [puts : Nat, listens : Nat, events : Nat]
           /\ c_attempt \in Nat
<1>1. /\ c_state \in {"disconnected", "getting_token", "connecting", "authenticating", "connected"}
      /\ {c_retry, c_interrupted, c_token, c_listens} \subseteq BOOLEAN
      /\ c_fetches \subseteq 1..c_attempt /\ c_unacked \in Nat
      /\ c_puts \subseteq 1..c_used.puts /\ c_cache \in 0..Len(c_server.history)
  BY DEF CTypes, C!TypeOK
<1>2. \A i \in 1..Len(c_server.history) : c_server.history[i] \in 0..c_used.puts
  BY CacheFacts
<1> QED
  BY <1>1, <1>2 DEF CTypes

(* Nothing that the rest is about changes.                                 *)
LEMMA StayKeeps ==
    ASSUME CInv,
           UNCHANGED <<c_state, c_unacked, c_listens, c_puts, c_held, c_answers, c_cache, c_up, c_down,
                       c_server>>,
           c_used'.puts = c_used.puts, CTypes', Attempting'
    PROVE  CInv'
<1>1. \A n, p : Sees(n, p)' <=> Sees(n, p)
  BY DEF Sees
<1>2. \A p : (Applied(p)' <=> Applied(p)) /\ (Known(p)' <=> Known(p)) /\ (Safe(p)' <=> Safe(p))
  BY <1>1 DEF Applied, Known, Safe
<1>3. \A p, ok : ToldOrHeld(p, ok)' <=> ToldOrHeld(p, ok)
  BY DEF ToldOrHeld
<1>4. Restores' /\ Counted'
  BY DEF CInv, Restores, RestoreAsked, RestoreAnswered, First, Counted, C!connected
<1>5. OnTheWire' /\ Rising'
  BY DEF CInv, OnTheWire, Rising
<1>6. AnswersTrue' /\ EarlierKnown' /\ SettledFirst'
  BY <1>2 DEF CInv, AnswersTrue, EarlierKnown, SettledFirst
<1>7. ToldSettled' /\ ToldOnce'
  BY <1>2, <1>3 DEF CInv, ToldSettled, ToldOnce
<1>8. Observed' /\ HeardTold'
  BY <1>1 DEF CInv, Observed, HeardTold
<1>9. DataNewer'
  BY <1>1, <1>3 DEF CInv, DataNewer
<1>10. HeldSafe'
  BY <1>1, <1>2 DEF CInv, HeldSafe
<1>11. C!AppliedInOrder'
  BY DEF CInv, C!AppliedInOrder
<1> QED
  BY <1>4, <1>5, <1>6, <1>7, <1>8, <1>9, <1>10, <1>11 DEF CInv

(* The steps in which nothing is sent or received.                         *)
LEMMA LinkKeeps ==
    ASSUME CInv,
           C!resumeForReason \/ C!interruptForReason \/ C!Lost \/ C!Retry
           \/ (\E a \in c_fetches : C!Fetched(a)) \/ (\E a \in c_fetches : C!FetchFailed(a))
           \/ C!AuthFailed
    PROVE  CInv'
<1> DEFINE offline == /\ c_state' \in {"disconnected", "getting_token", "connecting"}
                      /\ c_down' = <<>> /\ c_unacked' = 0
           same == UNCHANGED <<c_state, c_unacked, c_down>>
           typed == /\ c_retry' \in BOOLEAN /\ c_interrupted' \in BOOLEAN /\ c_token' \in BOOLEAN
                    /\ c_attempt' \in Nat /\ c_fetches' \subseteq 1..c_attempt'
           tried == /\ c_retry' <=> c_state' = "disconnected" /\ ~c_interrupted'
                    /\ c_interrupted' => c_state' = "disconnected"
                    /\ c_state' \in {"connecting", "authenticating", "connected"}
                          => c_attempt' \notin c_fetches'
<1>0. CTypes /\ Attempting
  BY DEF CInv
<1>1. /\ c_state \in {"disconnected", "getting_token", "connecting", "authenticating", "connected"}
      /\ c_retry \in BOOLEAN /\ c_interrupted \in BOOLEAN /\ c_token \in BOOLEAN
      /\ c_fetches \subseteq 1..c_attempt /\ c_attempt \in Nat /\ c_unacked \in Nat
      /\ c_used \in [puts : Nat, listens : Nat, events : Nat]
  BY <1>0, TypeParts
<1>2. UNCHANGED <<c_listens, c_puts, c_held, c_answers, c_cache, c_up, c_server>>
  BY DEF C!resumeForReason, C!interruptForReason, C!Lost, C!Retry, C!Fetched, C!FetchFailed,
     C!AuthFailed, C!onDisconnect, C!client
<1>3. c_used' \in [puts : Nat, listens : Nat, events : Nat] /\ c_used'.puts = c_used.puts
  BY <1>0, <1>1, UseFacts DEF C!resumeForReason, C!interruptForReason, C!Lost, C!Retry, C!Fetched,
     C!FetchFailed, C!AuthFailed
<1>4. (offline \/ same) /\ typed /\ tried
  <2>1. CASE C!resumeForReason
    BY <1>0, <1>1, <2>1 DEF C!resumeForReason, C!client, Attempting
  <2>2. CASE C!interruptForReason
    <3>1. CASE C!realtime
      BY <1>0, <1>1, <2>2, <3>1 DEF C!interruptForReason, C!onDisconnect, C!realtime, Attempting
    <3>2. CASE ~C!realtime
      BY <1>0, <1>1, <2>2, <3>2 DEF C!interruptForReason, C!realtime, Attempting
    <3> QED
      BY <3>1, <3>2
  <2>3. CASE C!Lost \/ C!AuthFailed
    BY <1>0, <1>1, <2>3 DEF C!Lost, C!AuthFailed, C!onDisconnect, C!realtime, Attempting
  <2>4. CASE C!Retry
    <3>1. c_state = "disconnected" /\ ~c_interrupted /\ c_interrupted' = c_interrupted
          /\ c_retry' = FALSE /\ c_state' = "getting_token" /\ c_token' = c_token
          /\ c_down' = c_down /\ c_unacked' = c_unacked
          /\ c_attempt' = c_attempt + 1 /\ c_fetches' = c_fetches \cup {c_attempt'}
      BY <1>0, <2>4 DEF C!Retry, C!client, Attempting
    <3>2. c_down = <<>> /\ c_unacked = 0
      BY <1>0, <3>1 DEF Attempting, C!connected
    <3>3. c_fetches' \subseteq 1..c_attempt' /\ c_attempt' \in Nat
      BY <1>1, <3>1
    <3> QED
      BY <1>1, <3>1, <3>2, <3>3
  <2>5. ASSUME NEW a \in c_fetches, C!Fetched(a) PROVE <1>4
    BY <1>0, <1>1, <2>5 DEF C!Fetched, Attempting, C!connected
  <2>6. ASSUME NEW a \in c_fetches, C!FetchFailed(a) PROVE <1>4
    BY <1>0, <1>1, <2>6 DEF C!FetchFailed, C!client, Attempting, C!connected
  <2> QED
    BY <2>1, <2>2, <2>3, <2>4, <2>5, <2>6
<1>5. CTypes'
  <2>0. <<>> \in Seq(Messages) /\ c_down \in Seq(Messages)
    BY <1>0, TypeParts
  <2>1. /\ c_state' \in {"disconnected", "getting_token", "connecting", "authenticating", "connected"}
        /\ c_unacked' \in Nat /\ c_down' \in Seq(Messages)
    <3>1. CASE offline
      BY <2>0, <3>1
    <3>2. CASE same
      BY <1>1, <2>0, <3>2
    <3> QED
      BY <1>4, <3>1, <3>2
  <2>2. {c_retry', c_interrupted', c_token', c_listens'} \subseteq BOOLEAN
    BY <1>0, <1>2, <1>4, TypeParts
  <2> QED
    BY <1>0, <1>2, <1>3, <1>4, <2>1, <2>2 DEF CTypes, C!TypeOK
<1>6. Attempting'
  BY <1>0, <1>4 DEF Attempting, C!connected
<1> QED
  BY <1>2, <1>3, <1>4, <1>5, <1>6, OfflineKeeps, StayKeeps

-----------------------------------------------------------------------------
(* What the server knows stays while the server stays.                     *)
LEMMA SameServer ==
    ASSUME c_server' = c_server
    PROVE  /\ \A n, p : Sees(n, p)' <=> Sees(n, p)
           /\ \A p : (Applied(p)' <=> Applied(p)) /\ (Known(p)' <=> Known(p))
           /\ C!AppliedInOrder <=> C!AppliedInOrder'
<1>1. \A n, p : Sees(n, p)' <=> Sees(n, p)
  BY DEF Sees
<1>2. \A p : (Applied(p)' <=> Applied(p)) /\ (Known(p)' <=> Known(p))
  BY <1>1 DEF Applied, Known
<1>3. C!AppliedInOrder <=> C!AppliedInOrder'
  BY DEF C!AppliedInOrder
<1> QED
  BY <1>1, <1>2, <1>3

(* Who was told of what stays while the lists of answers stay.             *)
LEMMA SameTold ==
    ASSUME c_answers' = c_answers, c_held' = c_held
    PROVE  \A p, ok : ToldOrHeld(p, ok)' <=> ToldOrHeld(p, ok)
  BY DEF ToldOrHeld

(* The state of the link stays, and the link stays in order.               *)
LEMMA SameLink ==
    ASSUME CInv, UNCHANGED <<c_state, c_retry, c_attempt, c_fetches, c_interrupted>>,
           ~C!connected => UNCHANGED <<c_down, c_unacked>>
    PROVE  Attempting' /\ (C!connected' <=> C!connected)
  BY DEF CInv, Attempting, C!connected

(* One more request on the way.                                            *)
LEMMA SentMore ==
    ASSUME CInv, NEW a \in Requests, c_up' = Append(c_up, a)
    PROVE  /\ c_up' \in Seq(Requests)
           /\ \A x : Has(c_up', x) <=> x = a \/ Has(c_up, x)
           /\ \A x, y : Precedes(c_up', x, y) <=> Precedes(c_up, x, y) \/ (Has(c_up, x) /\ y = a)
           /\ \A x, y : Outlasts(c_up', x, y) <=> x = a \/ (Outlasts(c_up, x, y) /\ y # a)
           /\ \A x : Times(c_up', x) = Times(c_up, x) + (IF x = a THEN 1 ELSE 0)
           /\ \A x : Times(c_up, x) \in Nat
<1>1. c_up \in Seq(Requests)
  BY DEF CInv, CTypes
<1>2. PICK s \in Seq(Requests) : s = c_up
  BY <1>1
<1>3. \A x : Times(s, x) \in Nat
  BY TimesType
<1> QED
  BY <1>2, <1>3, Appended

(* putData: the write has the highest number, and is sent behind all       *)
(* others if it can be.                                                    *)
LEMMA PutKeeps ==
    ASSUME CInv, C!putData
    PROVE  CInv'
<1> DEFINE n == c_used.puts + 1
<1>0. CTypes /\ Attempting /\ c_used.puts \in Nat
  BY DEF CInv, CTypes
<1>1. /\ c_used' \in [puts : Nat, listens : Nat, events : Nat] /\ c_used'.puts = n
      /\ c_puts' = c_puts \cup {n}
      /\ UNCHANGED <<c_state, c_retry, c_attempt, c_fetches, c_interrupted, c_token, c_listens,
                     c_unacked, c_held, c_answers, c_cache, c_down, c_server>>
      /\ IF c_state = "connected" THEN c_up' = Append(c_up, C!Put(n)) ELSE c_up' = c_up
  BY <1>0, UseFacts DEF C!putData, C!link, C!canSendWrites
<1>2. c_puts \subseteq 1..c_used.puts /\ c_puts' \subseteq 1..n
      /\ n \in Nat /\ n \notin c_puts /\ \A q \in c_puts : q < n
  <2>1. PICK m \in Nat : m = c_used.puts
    BY <1>0
  <2>2. c_puts \subseteq 1..m /\ c_puts' = c_puts \cup {m + 1} /\ n = m + 1
    BY <1>0, <1>1, <2>1, TypeParts
  <2>3. c_puts' \subseteq 1..(m + 1) /\ m + 1 \in Nat /\ m + 1 \notin c_puts /\ \A q \in c_puts : q < m + 1
    BY ONLY m \in Nat, <2>2
  <2> QED
    BY <2>1, <2>2, <2>3
<1> HIDE DEF n
<1>3. /\ c_up' \in Seq(Requests)
      /\ \A x : Has(c_up', x) <=> (c_state = "connected" /\ x = C!Put(n)) \/ Has(c_up, x)
      /\ \A x, y : Precedes(c_up', x, y) <=>
            Precedes(c_up, x, y) \/ (c_state = "connected" /\ Has(c_up, x) /\ y = C!Put(n))
      /\ Outlasts(c_up', C!ListenRequest, Unlisten) <=> Outlasts(c_up, C!ListenRequest, Unlisten)
      /\ Times(c_up', C!ListenRequest) = Times(c_up, C!ListenRequest)
  <2>1. C!Put(n) \in Requests /\ C!Put(n) # C!ListenRequest /\ C!Put(n) # Unlisten
    BY <1>2, RequestKinds
  <2>2. CASE c_state = "connected"
    <3>1. /\ c_up' \in Seq(Requests)
          /\ \A x : Has(c_up', x) <=> x = C!Put(n) \/ Has(c_up, x)
          /\ \A x, y : Precedes(c_up', x, y) <=> Precedes(c_up, x, y) \/ (Has(c_up, x) /\ y = C!Put(n))
          /\ \A x, y : Outlasts(c_up', x, y) <=> x = C!Put(n) \/ (Outlasts(c_up, x, y) /\ y # C!Put(n))
          /\ \A x : Times(c_up', x) = Times(c_up, x) + (IF x = C!Put(n) THEN 1 ELSE 0)
          /\ \A x : Times(c_up, x) \in Nat
      BY <1>1, <2>1, <2>2, SentMore
    <3> QED
      BY <2>1, <2>2, <3>1
  <2>3. CASE c_state # "connected"
    BY <1>0, <1>1, <2>3 DEF CTypes
  <2> QED
    BY <2>2, <2>3
<1>4. CTypes'
  <2>0. 0..c_used.puts \subseteq 0..n
    BY <1>0 DEF n
  <2>1. \A i \in 1..Len(c_server.history) : c_server.history[i] \in 0..n
    BY <1>0, <2>0, TypeParts
  <2>2. C!ToSet(c_server.history) \subseteq 0..n
    BY <1>0, <2>1, HistoryTyped DEF CTypes
  <2> QED
    BY <1>0, <1>1, <1>2, <1>3, <2>2 DEF CTypes, C!TypeOK
<1>5. Attempting' /\ (C!connected' <=> C!connected)
  BY <1>1, SameLink
<1>6. /\ \A m, p : Sees(m, p)' <=> Sees(m, p)
      /\ \A p : (Applied(p)' <=> Applied(p)) /\ (Known(p)' <=> Known(p))
      /\ C!AppliedInOrder'
      /\ \A p, ok : ToldOrHeld(p, ok)' <=> ToldOrHeld(p, ok)
  BY <1>1, SameServer, SameTold DEF CInv
<1>7. Restores'
  BY <1>1, <1>3, RequestKinds DEF CInv, Restores, RestoreAsked, RestoreAnswered, First
<1>8. Counted'
  BY <1>1, <1>3, <1>5 DEF CInv, Counted
<1>9. OnTheWire'
  BY <1>1, <1>2, <1>3, RequestKinds DEF CInv, OnTheWire
<1>10. Rising'
  BY <1>1, <1>2, <1>3, RequestKinds DEF CInv, OnTheWire, Rising
<1>11. AnswersTrue'
  BY <1>1, <1>6 DEF CInv, AnswersTrue
<1>12. EarlierKnown'
  <2> SUFFICES ASSUME NEW p \in Nat, NEW q \in Nat, 1 <= p, p < q, Has(c_up', C!Put(q))
               PROVE  Known(p) \/ Has(c_up, C!Put(p))
    BY <1>3, <1>6 DEF EarlierKnown
  <2>1. CASE Has(c_up, C!Put(q))
    BY <2>1 DEF CInv, EarlierKnown
  <2>2. CASE c_state = "connected" /\ q = n
    <3>1. p \in 1..c_used.puts
      BY <1>0, <2>2 DEF n
    <3>2. CASE p \notin c_puts
      BY <3>1, <3>2 DEF CInv, SettledFirst
    <3>3. CASE p \in c_puts
      BY <2>2, <3>3 DEF CInv, OnTheWire, AnswersTrue, Known
    <3> QED
      BY <3>2, <3>3
  <2> QED
    BY <1>3, <2>1, <2>2, RequestKinds
<1>13. SettledFirst'
  <2>1. \A p \in 1..n : p \notin c_puts' => p \in 1..c_used.puts /\ p \notin c_puts /\ p < n
    BY <1>0, <1>1 DEF n
  <2> QED
    BY <1>1, <1>6, <2>1 DEF CInv, SettledFirst
<1>14. ToldSettled'
  <2>1. \A p \in 1..n : p \notin c_puts' => p \in 1..c_used.puts /\ p \notin c_puts
    BY <1>0, <1>1 DEF n
  <2>2. \A p \in 1..c_used.puts : p \notin c_puts => p \in 1..n /\ p \notin c_puts'
    BY <1>0, <1>1 DEF n
  <2> QED
    BY <1>1, <1>6, <2>1, <2>2 DEF CInv, ToldSettled
<1>15. ToldOnce' /\ Observed' /\ HeardTold'
  BY <1>1, <1>3, <1>6, RequestKinds DEF CInv, ToldOnce, Observed, HeardTold
<1>16. DataNewer'
  BY <1>1, <1>6 DEF CInv, DataNewer
<1>17. HeldSafe'
  <2>1. \A p : Safe(p)' <=> Safe(p)
    BY <1>1, <1>3, <1>6, RequestKinds DEF Safe
  <2> QED
    BY <1>1, <1>6, <2>1 DEF CInv, HeldSafe
<1> QED
  BY <1>4, <1>5, <1>6, <1>7, <1>8, <1>9, <1>10, <1>11, <1>12, <1>13, <1>14, <1>15, <1>16, <1>17 DEF CInv

(* One more request on the way, or none, that is not a put.                *)
LEMMA AskingKeeps ==
    ASSUME CInv, NEW a \in {C!ListenRequest, Unlisten, C!Auth(FALSE)},
           c_up' = c_up \/ (C!connected /\ c_up' = Append(c_up, a)),
           UNCHANGED <<c_state, c_retry, c_attempt, c_fetches, c_interrupted, c_puts, c_held, c_answers,
                       c_down, c_server>>,
           c_token' \in BOOLEAN, c_listens' \in BOOLEAN, c_unacked' \in Nat,
           ~C!connected => c_unacked' = c_unacked,
           c_used' \in [puts : Nat, listens : Nat, events : Nat], c_used'.puts = c_used.puts,
           c_cache' = c_cache \/ c_cache' = 0, Counted', Observed', HeldSafe'
    PROVE  CInv'
<1>0. CTypes /\ Attempting
  BY DEF CInv
<1>1. /\ c_up' \in Seq(Requests)
      /\ \A p : Has(c_up', C!Put(p)) <=> Has(c_up, C!Put(p))
      /\ Has(c_up', C!Auth(TRUE)) <=> Has(c_up, C!Auth(TRUE))
      /\ \A x, p : Precedes(c_up', x, C!Put(p)) <=> Precedes(c_up, x, C!Put(p))
      /\ \A x : Precedes(c_up', x, C!Auth(TRUE)) <=> Precedes(c_up, x, C!Auth(TRUE))
  <2>1. CASE c_up' = c_up
    BY <1>0, <2>1 DEF CTypes
  <2>2. CASE c_up' = Append(c_up, a)
    <3>1. a \in Requests /\ a # C!Auth(TRUE) /\ \A p : a # C!Put(p)
      BY RequestKinds
    <3>2. /\ c_up' \in Seq(Requests)
          /\ \A x : Has(c_up', x) <=> x = a \/ Has(c_up, x)
          /\ \A x, y : Precedes(c_up', x, y) <=> Precedes(c_up, x, y) \/ (Has(c_up, x) /\ y = a)
      BY <2>2, <3>1, SentMore
    <3>3. \A p : Has(c_up', C!Put(p)) <=> Has(c_up, C!Put(p))
      BY <3>1, <3>2
    <3>4. \A x, p : Precedes(c_up', x, C!Put(p)) <=> Precedes(c_up, x, C!Put(p))
      BY <3>1, <3>2
    <3> QED
      BY <3>1, <3>2, <3>3, <3>4
  <2> QED
    BY <2>1, <2>2
<1>2. CTypes'
  <2>1. c_cache' \in 0..Len(c_server.history) /\ c_puts \subseteq 1..c_used.puts
        /\ C!ToSet(c_server.history) \subseteq 0..c_used.puts
    <3>1. 0 \in 0..Len(c_server.history)
      BY <1>0, CacheFacts
    <3> QED
      BY <1>0, <3>1 DEF CTypes, C!TypeOK
  <2> QED
    BY <1>0, <1>1, <2>1 DEF CTypes, C!TypeOK
<1>3. Attempting' /\ (C!connected' <=> C!connected)
  BY SameLink
<1>4. /\ \A m, p : Sees(m, p)' <=> Sees(m, p)
      /\ \A p : (Applied(p)' <=> Applied(p)) /\ (Known(p)' <=> Known(p))
      /\ C!AppliedInOrder'
      /\ \A p, ok : ToldOrHeld(p, ok)' <=> ToldOrHeld(p, ok)
  BY SameServer, SameTold DEF CInv
<1>5. Restores'
  BY <1>1 DEF CInv, Restores, RestoreAsked, RestoreAnswered, First
<1>6. OnTheWire' /\ Rising'
  BY <1>1 DEF CInv, OnTheWire, Rising
<1>7. AnswersTrue' /\ EarlierKnown' /\ SettledFirst'
  BY <1>1, <1>4 DEF CInv, AnswersTrue, EarlierKnown, SettledFirst
<1>8. ToldSettled' /\ ToldOnce'
  BY <1>4 DEF CInv, ToldSettled, ToldOnce
<1>9. DataNewer'
  <2>1. \A n \in Nat : c_cache <= n => c_cache' <= n
    BY <1>0, CacheFacts
  <2> QED
    BY <1>4, <2>1 DEF CInv, DataNewer
<1>10. HeardTold'
  BY <1>4 DEF CInv, HeardTold
<1> QED
  BY <1>2, <1>3, <1>4, <1>5, <1>6, <1>7, <1>8, <1>9, <1>10 DEF CInv

(* listen: one more listen is counted, and one is on its way.              *)
LEMMA ListenKeeps ==
    ASSUME CInv, C!listen
    PROVE  CInv'
<1>0. CTypes /\ Attempting /\ c_unacked \in Nat /\ c_token \in BOOLEAN
  BY TypeParts DEF CInv
<1>1. /\ ~c_listens /\ c_listens' = TRUE
      /\ IF C!connected THEN c_up' = Append(c_up, C!ListenRequest) /\ c_unacked' = c_unacked + 1
                        ELSE UNCHANGED <<c_up, c_unacked>>
      /\ UNCHANGED <<c_state, c_retry, c_attempt, c_fetches, c_interrupted, c_token, c_puts, c_held,
                     c_answers, c_cache, c_down, c_server>>
      /\ c_used' \in [puts : Nat, listens : Nat, events : Nat] /\ c_used'.puts = c_used.puts
  BY <1>0, UseFacts DEF C!listen, C!link
<1>2. c_cache = 0
  BY <1>1 DEF CInv, Observed
<1>3. C!connected' <=> C!connected
  BY <1>1 DEF C!connected
<1>4. ASSUME C!connected
      PROVE  /\ Has(c_up', C!ListenRequest) /\ Outlasts(c_up', C!ListenRequest, Unlisten)
             /\ Times(c_up', C!ListenRequest) = Times(c_up, C!ListenRequest) + 1
             /\ Times(c_up, C!ListenRequest) \in Nat
  BY <1>1, <1>4, SentMore, RequestKinds
<1>5. Counted'
  <2> SUFFICES ASSUME C!connected
               PROVE c_unacked' = Times(c_up', C!ListenRequest) + c_server'.asked
                                  + Times(c_down', C!ListenRequest)
    BY <1>3 DEF Counted
  <2>1. c_server.asked \in Nat /\ Times(c_down, C!ListenRequest) \in Nat
    BY <1>0, TimesType DEF CTypes
  <2>2. c_unacked = Times(c_up, C!ListenRequest) + c_server.asked + Times(c_down, C!ListenRequest)
    BY DEF CInv, Counted
  <2>3. /\ Times(c_up', C!ListenRequest) = Times(c_up, C!ListenRequest) + 1
        /\ Times(c_up, C!ListenRequest) \in Nat /\ c_unacked' = c_unacked + 1
        /\ c_server'.asked = c_server.asked /\ c_down' = c_down
    BY <1>1, <1>4
  <2> QED
    BY <2>1, <2>2, <2>3
<1>6. Observed'
  BY <1>1, <1>2, <1>4 DEF CInv, Observed, C!connected
<1>7. HeldSafe'
  BY <1>1, <1>4 DEF HeldSafe, Safe, C!connected
<1> QED
  BY <1>0, <1>1, <1>5, <1>6, <1>7, AskingKeeps

(* unlisten: nothing heard is kept.                                        *)
LEMMA UnlistenKeeps ==
    ASSUME CInv, C!unlisten
    PROVE  CInv'
<1>0. CTypes /\ Attempting /\ c_unacked \in Nat /\ c_token \in BOOLEAN
      /\ c_used \in [puts : Nat, listens : Nat, events : Nat]
  BY TypeParts DEF CInv
<1>1. /\ c_listens' = FALSE /\ c_cache' = 0
      /\ IF C!connected THEN c_up' = Append(c_up, Unlisten) ELSE c_up' = c_up
      /\ UNCHANGED <<c_state, c_retry, c_attempt, c_fetches, c_interrupted, c_token, c_puts, c_held,
                     c_answers, c_down, c_server, c_unacked, c_used>>
  BY DEF C!unlisten, C!link, Unlisten
<1>2. Times(c_up', C!ListenRequest) = Times(c_up, C!ListenRequest)
  BY <1>1, SentMore, RequestKinds
<1>3. Counted' /\ Observed' /\ HeldSafe'
  BY <1>1, <1>2 DEF CInv, Counted, Observed, HeldSafe, Safe, C!connected
<1> QED
  BY <1>0, <1>1, <1>3, AskingKeeps

(* refreshAuthToken: a new token is no restore.                            *)
LEMMA RefreshKeeps ==
    ASSUME CInv, C!refreshAuthToken
    PROVE  CInv'
<1>0. CTypes /\ Attempting /\ c_unacked \in Nat /\ c_listens \in BOOLEAN
  BY TypeParts DEF CInv
<1>1. /\ c_token' \in BOOLEAN
      /\ c_up' = c_up \/ (C!connected /\ c_up' = Append(c_up, C!Auth(FALSE)))
      /\ UNCHANGED <<c_state, c_retry, c_attempt, c_fetches, c_interrupted, c_puts, c_held, c_listens,
                     c_answers, c_down, c_server, c_unacked, c_cache>>
      /\ c_used' \in [puts : Nat, listens : Nat, events : Nat] /\ c_used'.puts = c_used.puts
  BY <1>0, UseFacts DEF C!refreshAuthToken, C!link
<1>2. /\ Times(c_up', C!ListenRequest) = Times(c_up, C!ListenRequest)
      /\ Outlasts(c_up', C!ListenRequest, Unlisten) <=> Outlasts(c_up, C!ListenRequest, Unlisten)
      /\ Has(c_up', C!ListenRequest) <=> Has(c_up, C!ListenRequest)
      /\ Has(c_up', Unlisten) <=> Has(c_up, Unlisten)
  <2>1. CASE c_up' = c_up
    BY <2>1
  <2>2. CASE c_up' = Append(c_up, C!Auth(FALSE))
    <3>0. PICK a : a = C!Auth(FALSE)
      OBVIOUS
    <3>1. /\ a \in Requests
          /\ a # C!ListenRequest /\ a # Unlisten
      BY <3>0, RequestKinds
    <3>2. /\ \A x : Has(c_up', x) <=> x = a \/ Has(c_up, x)
          /\ \A x, y : Outlasts(c_up', x, y) <=>
                           x = a \/ (Outlasts(c_up, x, y) /\ y # a)
          /\ \A x : Times(c_up', x) = Times(c_up, x) + (IF x = a THEN 1 ELSE 0)
          /\ \A x : Times(c_up, x) \in Nat
      BY <2>2, <3>0, <3>1, SentMore
    <3>3. Times(c_up', C!ListenRequest) = Times(c_up, C!ListenRequest)
      BY <3>1, <3>2
    <3>4. /\ Has(c_up', C!ListenRequest) <=> Has(c_up, C!ListenRequest)
          /\ Has(c_up', Unlisten) <=> Has(c_up, Unlisten)
      BY <3>1, <3>2
    <3>5. Outlasts(c_up', C!ListenRequest, Unlisten) <=> Outlasts(c_up, C!ListenRequest, Unlisten)
      BY <3>1, <3>2
    <3> QED
      BY <3>3, <3>4, <3>5
  <2> QED
    BY <1>1, <2>1, <2>2
<1>3. Counted' /\ Observed'
  BY <1>1, <1>2 DEF CInv, Counted, Observed, C!connected
<1>4. HeldSafe'
  <2>1. /\ \A n, p : Sees(n, p)' <=> Sees(n, p)
        /\ \A p : Safe(p)' <=> Safe(p)
    BY <1>1, <1>2, SameServer DEF Safe
  <2> QED
    BY <1>1, <2>1 DEF CInv, HeldSafe
<1> QED
  BY <1>0, <1>1, <1>3, <1>4, AskingKeeps

-----------------------------------------------------------------------------
(* The server.                                                             *)

(* A request that is handled was the first; what comes behind it keeps its *)
(* order.                                                                  *)
LEMMA HandledOne ==
    ASSUME CInv, c_up # <<>>, c_up' = Tail(c_up)
    PROVE  /\ Head(c_up) \in Requests /\ c_up' \in Seq(Requests)
           /\ \A x : Has(c_up, x) <=> x = Head(c_up) \/ Has(c_up', x)
           /\ \A x, y : Precedes(c_up, x, y) <=>
                           Precedes(c_up', x, y) \/ (x = Head(c_up) /\ Has(c_up', y))
           /\ \A x, y : Outlasts(c_up, x, y) <=>
                           Outlasts(c_up', x, y) \/ (x = Head(c_up) /\ ~Has(c_up', y))
           /\ \A x : Times(c_up, x) = Times(c_up', x) + (IF x = Head(c_up) THEN 1 ELSE 0)
           /\ \A x : Times(c_up', x) \in Nat
<1>1. c_up \in Seq(Requests)
  BY DEF CInv, CTypes
<1>2. PICK s \in Seq(Requests) : s = c_up
  BY <1>1
<1>3. PICK t : t = Tail(s)
  OBVIOUS
<1>4. /\ Head(s) \in Requests /\ t \in Seq(Requests)
      /\ \A x : Has(s, x) <=> x = Head(s) \/ Has(t, x)
      /\ \A x, y : Precedes(s, x, y) <=> Precedes(t, x, y) \/ (x = Head(s) /\ Has(t, y))
      /\ \A x, y : Outlasts(s, x, y) <=> Outlasts(t, x, y) \/ (x = Head(s) /\ ~Has(t, y))
      /\ \A x : Times(s, x) = Times(t, x) + (IF x = Head(s) THEN 1 ELSE 0)
  BY <1>2, <1>3, Parted
<1>5. \A x : Times(t, x) \in Nat
  BY <1>4, TimesType
<1>6. c_up' = t
  BY <1>2, <1>3
<1> QED
  BY <1>2, <1>4, <1>5, <1>6

(* A message that is received was the first; what comes behind it keeps    *)
(* its order.                                                              *)
LEMMA ReceivedOne ==
    ASSUME CInv, c_down # <<>>, c_down' = Tail(c_down)
    PROVE  /\ Head(c_down) \in Messages /\ c_down' \in Seq(Messages)
           /\ \A x : Has(c_down, x) <=> x = Head(c_down) \/ Has(c_down', x)
           /\ \A x, y : Precedes(c_down, x, y) <=>
                           Precedes(c_down', x, y) \/ (x = Head(c_down) /\ Has(c_down', y))
           /\ \A x : Times(c_down, x) = Times(c_down', x) + (IF x = Head(c_down) THEN 1 ELSE 0)
           /\ \A x : Times(c_down', x) \in Nat
<1>1. c_down \in Seq(Messages)
  BY DEF CInv, CTypes
<1>2. PICK s \in Seq(Messages) : s = c_down
  BY <1>1
<1>3. PICK t : t = Tail(s)
  OBVIOUS
<1>4. /\ Head(s) \in Messages /\ t \in Seq(Messages)
      /\ \A x : Has(s, x) <=> x = Head(s) \/ Has(t, x)
      /\ \A x, y : Precedes(s, x, y) <=> Precedes(t, x, y) \/ (x = Head(s) /\ Has(t, y))
      /\ \A x : Times(s, x) = Times(t, x) + (IF x = Head(s) THEN 1 ELSE 0)
  BY <1>2, <1>3, Parted
<1>5. \A x : Times(t, x) \in Nat
  BY <1>4, TimesType
<1>6. c_down' = t
  BY <1>2, <1>3
<1> QED
  BY <1>2, <1>4, <1>5, <1>6

(* Who is connected gets the messages behind those on their way.           *)
LEMMA Delivered ==
    ASSUME CInv, NEW m \in Seq(Messages), C!Send(m)
    PROVE  /\ c_down' \in Seq(Messages)
           /\ ~C!connected => c_down' = c_down /\ c_down = <<>>
           /\ \A x : Has(c_down', x) <=> Has(c_down, x) \/ (C!connected /\ Has(m, x))
           /\ \A x, y : Precedes(c_down', x, y) <=>
                 \/ Precedes(c_down, x, y)
                 \/ C!connected /\ (Precedes(m, x, y) \/ (Has(c_down, x) /\ Has(m, y)))
           /\ \A x : C!connected => Times(c_down', x) = Times(c_down, x) + Times(m, x)
           /\ \A x : Times(c_down, x) \in Nat /\ Times(m, x) \in Nat
<1>1. c_down \in Seq(Messages) /\ Attempting
  BY DEF CInv, CTypes
<1>2. PICK s \in Seq(Messages) : s = c_down
  BY <1>1
<1>3. \A x : Times(s, x) \in Nat /\ Times(m, x) \in Nat
  BY TimesType
<1>4. CASE C!connected
  <2>1. c_down' = s \o m
    BY <1>2, <1>4 DEF C!Send
  <2>2. /\ c_down' \in Seq(Messages)
        /\ \A x : Has(c_down', x) <=> Has(s, x) \/ Has(m, x)
        /\ \A x, y : Precedes(c_down', x, y) <=>
                        Precedes(s, x, y) \/ Precedes(m, x, y) \/ (Has(s, x) /\ Has(m, y))
        /\ \A x : Times(c_down', x) = Times(s, x) + Times(m, x)
    BY <2>1, Joined
  <2> QED
    BY <1>2, <1>3, <1>4, <2>2
<1>5. CASE ~C!connected
  BY <1>1, <1>2, <1>3, <1>5 DEF C!Send, Attempting
<1> QED
  BY <1>4, <1>5

(* What a list of messages is that has the news, if there are any, and an  *)
(* answer behind them.                                                     *)
NewsOnly(m, s, d) ==
    /\ m \in Seq(Messages)
    /\ \A x : Has(m, x) <=> s.loaded /\ x = d
    /\ \A x, y : ~Precedes(m, x, y)
    /\ \A x : x # d => Times(m, x) = 0
AnswerBehindNews(m, s, d, a) ==
    /\ m \in Seq(Messages)
    /\ \A x : Has(m, x) <=> x = a \/ (s.loaded /\ x = d)
    /\ \A x, y : Precedes(m, x, y) <=> s.loaded /\ x = d /\ y = a
    /\ \A x : x # d => Times(m, x) = IF x = a THEN 1 ELSE 0

(* The news are one message with data, if the path was loaded.             *)
LEMMA NewsAlone ==
    ASSUME NEW s, NEW d \in Messages, NEW m, m = C!News(s),
           C!News(s) = IF s.loaded THEN <<d>> ELSE <<>>
    PROVE  NewsOnly(m, s, d)
<1>1. CASE s.loaded
  <2>1. m = <<d>>
    BY <1>1
  <2>2. /\ m \in Seq(Messages)
        /\ \A x : Has(m, x) <=> x = d
        /\ \A x, y : ~Precedes(m, x, y)
        /\ \A x : Times(m, x) = IF x = d THEN 1 ELSE 0
    BY <2>1, Single
  <2> QED
    BY <1>1, <2>2 DEF NewsOnly
<1>2. CASE ~s.loaded
  <2>1. m = <<>>
    BY <1>2
  <2>2. <<>> \in Seq(Messages)
    OBVIOUS
  <2> QED
    BY <1>2, <2>1, <2>2, Empty DEF NewsOnly
<1> QED
  BY <1>1, <1>2

(* The news, if there are, come before the answer.                         *)
LEMMA NewsAndAnswer ==
    ASSUME NEW a \in Messages, NEW s, NEW d \in Messages, NEW m, m = C!News(s) \o <<a>>,
           C!News(s) = IF s.loaded THEN <<d>> ELSE <<>>
    PROVE  AnswerBehindNews(m, s, d, a)
<1>1. PICK one \in Seq(Messages) : one = <<a>>
  <2>1. <<a>> \in Seq(Messages)
    BY Single
  <2> QED
    BY <2>1
<1>2. /\ \A x : Has(one, x) <=> x = a
      /\ \A x, y : ~Precedes(one, x, y)
      /\ \A x : Times(one, x) = IF x = a THEN 1 ELSE 0
  BY <1>1, Single
<1>3. PICK news : news = C!News(s)
  OBVIOUS
<1>4. /\ news \in Seq(Messages)
      /\ \A x : Has(news, x) <=> s.loaded /\ x = d
      /\ \A x, y : ~Precedes(news, x, y)
      /\ \A x : x # d => Times(news, x) = 0
  <2>1. NewsOnly(news, s, d)
    BY <1>3, NewsAlone
  <2> QED
    BY <2>1 DEF NewsOnly
<1>5. PICK u : u = news \o one
  OBVIOUS
<1>6. /\ u \in Seq(Messages)
      /\ \A x : Has(u, x) <=> Has(news, x) \/ Has(one, x)
      /\ \A x, y : Precedes(u, x, y) <=>
                      Precedes(news, x, y) \/ Precedes(one, x, y) \/ (Has(news, x) /\ Has(one, y))
      /\ \A x : Times(u, x) = Times(news, x) + Times(one, x)
  BY <1>4, <1>5, Joined
<1>7. /\ \A x : Has(u, x) <=> x = a \/ (s.loaded /\ x = d)
      /\ \A x, y : Precedes(u, x, y) <=> s.loaded /\ x = d /\ y = a
  BY ONLY <1>2, <1>4, <1>6
<1>8. \A x : x # d => Times(u, x) = IF x = a THEN 1 ELSE 0
  BY ONLY <1>2, <1>4, <1>6
<1>9. m = u
  BY ONLY m = C!News(s) \o <<a>>, <1>1, <1>3, <1>5
<1>10. AnswerBehindNews(u, s, d, a)
  BY <1>6, <1>7, <1>8 DEF AnswerBehindNews
<1> QED
  BY <1>9, <1>10

(* The writes not answered are numbers.                                    *)
LEMMA PutsTyped ==
    ASSUME CTypes
    PROVE  c_puts \subseteq Nat
<1>1. PICK m \in Nat : m = c_used.puts /\ c_puts \subseteq 1..m
  BY CacheFacts
<1> QED
  BY <1>1

(* A longer history has what the shorter one had, where it was.            *)
LEMMA HistoryGrows ==
    ASSUME CTypes, c_server'.history \in Seq(Nat),
           \/ c_server'.history = c_server.history
           \/ \E x \in Nat : c_server'.history = Append(c_server.history, x)
    PROVE  /\ Len(c_server.history) <= Len(c_server'.history)
           /\ \A i \in 1..Len(c_server.history) : c_server'.history[i] = c_server.history[i]
           /\ \A n \in 0..Len(c_server.history) : \A p : Sees(n, p)' <=> Sees(n, p)
           /\ \A n \in Nat : \A p : Sees(n, p) /\ n <= Len(c_server.history) => Sees(n, p)'
           /\ \A p : Applied(p) => Applied(p)'
<1>1. PICK h \in Seq(Nat), k \in Nat : h = c_server.history /\ k = Len(h)
  BY LenProperties DEF CTypes
<1>2. PICK g \in Seq(Nat), l \in Nat : g = c_server'.history /\ l = Len(g)
  BY LenProperties
<1>3. k <= l /\ \A i \in 1..k : g[i] = h[i]
  <2>1. CASE g = h
    BY <1>1, <1>2, <2>1
  <2>2. ASSUME NEW x \in Nat, g = Append(h, x) PROVE <1>3
    BY <1>1, <1>2, <2>2, AppendProperties
  <2> QED
    BY <1>1, <1>2, <2>1, <2>2
<1>4. \A n \in 0..k : \A p : Sees(n, p)' <=> Sees(n, p)
  <2> SUFFICES ASSUME NEW n \in 0..k, NEW p PROVE Sees(n, p)' <=> Sees(n, p)
    OBVIOUS
  <2>1. \A i \in 1..n : i \in 1..k
    BY <1>1
  <2> QED
    BY <1>1, <1>2, <1>3, <2>1 DEF Sees
<1>5. \A p : Applied(p) => Applied(p)'
  <2> SUFFICES ASSUME NEW p, Applied(p) PROVE Applied(p)'
    OBVIOUS
  <2>1. PICK i \in 1..k : h[i] = p
    BY <1>1 DEF Applied, Sees
  <2>2. i \in 1..l /\ g[i] = p
    BY ONLY k \in Nat, l \in Nat, <1>3, <2>1
  <2> QED
    BY <1>2, <2>2 DEF Applied, Sees
<1> QED
  BY <1>1, <1>2, <1>3, <1>4, <1>5

(* The server takes no write of this device, and answers none.             *)
LEMMA OtherServingKeeps ==
    ASSUME CInv,
           UNCHANGED <<c_state, c_retry, c_attempt, c_fetches, c_interrupted, c_token, c_listens, c_unacked,
                       c_puts, c_held, c_answers, c_cache>>,
           c_used' \in [puts : Nat, listens : Nat, events : Nat], c_used'.puts = c_used.puts,
           c_up' \in Seq(Requests), c_down' \in Seq(Messages), ~C!connected => c_down' = c_down,
           c_server' \in [history : Seq(Nat), registered : BOOLEAN, loaded : BOOLEAN, asked : Nat,
                          refused : SUBSET Nat],
           \/ c_server'.history = c_server.history
           \/ c_server'.history = Append(c_server.history, C!Foreign),
           c_server'.refused = c_server.refused,
           \A p \in Nat : Has(c_up', C!Put(p)) <=> Has(c_up, C!Put(p)),
           \A x, y : Precedes(c_up', x, y) => Precedes(c_up, x, y),
           \A p \in Nat, ok \in BOOLEAN : Has(c_down', PutAnswer(p, ok)) <=> Has(c_down, PutAnswer(p, ok)),
           \A p, q \in Nat, a, b \in BOOLEAN :
              Precedes(c_down', PutAnswer(p, a), PutAnswer(q, b)) =>
                 Precedes(c_down, PutAnswer(p, a), PutAnswer(q, b)),
           Restores', Counted', Observed', DataNewer', HeldSafe'
    PROVE  CInv'
<1>0. CTypes
  BY DEF CInv
<1>1. /\ Len(c_server.history) \in Nat /\ Len(c_server.history) <= Len(c_server'.history)
      /\ \A i \in 1..Len(c_server.history) : c_server'.history[i] = c_server.history[i]
      /\ \A n \in 0..Len(c_server.history) : \A p : Sees(n, p)' <=> Sees(n, p)
      /\ \A p : Applied(p) => Applied(p)'
      /\ \A p : Known(p) => Known(p)'
      /\ c_cache \in 0..Len(c_server.history)
  <2>1. 0 \in Nat /\ c_server'.history \in Seq(Nat)
    OBVIOUS
  <2>2. /\ Len(c_server.history) <= Len(c_server'.history)
        /\ \A i \in 1..Len(c_server.history) : c_server'.history[i] = c_server.history[i]
        /\ \A n \in 0..Len(c_server.history) : \A p : Sees(n, p)' <=> Sees(n, p)
        /\ \A p : Applied(p) => Applied(p)'
    BY <1>0, <2>1, HistoryGrows DEF C!Foreign
  <2>3. Len(c_server.history) \in Nat /\ c_cache \in 0..Len(c_server.history)
    BY <1>0, CacheFacts, TypeParts
  <2> QED
    BY <2>2, <2>3 DEF Known
<1>2. Len(c_server'.history) \in Nat
      /\ \A i \in 1..Len(c_server'.history) : \/ i \in 1..Len(c_server.history)
                                              \/ c_server'.history[i] = 0
  <2>1. PICK h \in Seq(Nat), k \in Nat : h = c_server.history /\ k = Len(h)
    BY <1>0, LenProperties DEF CTypes
  <2>2. PICK g \in Seq(Nat) : g = c_server'.history
    OBVIOUS
  <2>3. CASE g = h
    BY <2>1, <2>2, <2>3
  <2>4. CASE g = Append(h, 0)
    <3>1. Len(g) = k + 1 /\ g[k + 1] = 0
      BY <2>1, <2>4, AppendProperties
    <3>2. \A i \in 1..(k + 1) : i \in 1..k \/ i = k + 1
      BY <2>1
    <3> QED
      BY <2>1, <2>2, <3>1, <3>2
  <2> QED
    BY <2>1, <2>2, <2>3, <2>4 DEF C!Foreign
<1>3. CTypes'
  <2>1. c_cache' \in 0..Len(c_server'.history)
    BY <1>1, <1>2
  <2>2. \A i \in 1..Len(c_server'.history) : c_server'.history[i] \in 0..c_used.puts
    <3>1. c_used.puts \in Nat /\ 0 \in 0..c_used.puts
      BY <1>0, CacheFacts
    <3>2. \A i \in 1..Len(c_server.history) : c_server.history[i] \in 0..c_used.puts
      BY <1>0, TypeParts
    <3> SUFFICES ASSUME NEW i \in 1..Len(c_server'.history) PROVE c_server'.history[i] \in 0..c_used.puts
      OBVIOUS
    <3>3. CASE i \in 1..Len(c_server.history)
      BY <1>1, <3>2, <3>3
    <3>4. CASE c_server'.history[i] = 0
      BY <3>1, <3>4
    <3> QED
      BY <1>2, <3>3, <3>4
  <2>3. C!ToSet(c_server'.history) \subseteq 0..c_used.puts
    BY <2>2, HistoryTyped
  <2> QED
    BY <1>0, <2>1, <2>3 DEF CTypes, C!TypeOK
<1>4. Attempting'
  BY SameLink
<1>5. OnTheWire'
  <2>1. \A p \in Nat : Has(c_up', C!Put(p)) => p \in c_puts'
    BY DEF CInv, OnTheWire
  <2>2. \A p \in Nat, ok \in BOOLEAN : Has(c_down', PutAnswer(p, ok)) => p \in c_puts'
    BY DEF CInv, OnTheWire
  <2>3. ASSUME c_state' = "connected", NEW p \in c_puts'
        PROVE  Has(c_up', C!Put(p)) \/ \E ok \in BOOLEAN : Has(c_down', PutAnswer(p, ok))
    <3>1. p \in Nat
      BY <1>0, PutsTyped
    <3> QED
      BY <2>3, <3>1 DEF CInv, OnTheWire
  <2>4. ASSUME c_state' = "authenticating", NEW p \in Nat
        PROVE  /\ ~Has(c_up', C!Put(p)) /\ \A ok \in BOOLEAN : ~Has(c_down', PutAnswer(p, ok))
    BY <2>4 DEF CInv, OnTheWire
  <2> QED
    BY <2>1, <2>2, <2>3, <2>4 DEF OnTheWire
<1>6. Rising'
  <2>1. \A p, q \in Nat : Precedes(c_up', C!Put(p), C!Put(q)) => p < q
    BY DEF CInv, Rising
  <2>2. \A p, q \in Nat, a, b \in BOOLEAN :
           Precedes(c_down', PutAnswer(p, a), PutAnswer(q, b)) => p < q
    BY DEF CInv, Rising
  <2>3. \A p, q \in Nat, a \in BOOLEAN :
           Has(c_down', PutAnswer(p, a)) /\ Has(c_up', C!Put(q)) => p < q
    BY DEF CInv, Rising
  <2> QED
    BY <2>1, <2>2, <2>3 DEF Rising
<1>7. AnswersTrue'
  BY <1>1 DEF CInv, AnswersTrue
<1>8. EarlierKnown'
  BY <1>1 DEF CInv, EarlierKnown
<1>9. SettledFirst'
  BY <1>1 DEF CInv, SettledFirst
<1>10. \A p, ok : ToldOrHeld(p, ok)' <=> ToldOrHeld(p, ok)
  BY SameTold
<1>11. ToldSettled'
  BY <1>1, <1>10 DEF CInv, ToldSettled
<1>12. ToldOnce'
  BY DEF CInv, ToldOnce
<1>13. HeardTold'
  BY <1>1 DEF CInv, HeardTold
<1>14. C!AppliedInOrder'
  <2> SUFFICES ASSUME NEW i \in 1..Len(c_server'.history), NEW p \in 1..(c_server'.history[i] - 1)
               PROVE  \/ \E j \in 1..(i - 1) : c_server'.history[j] = p
                      \/ p \in c_server'.refused
    <3>1. DOMAIN c_server'.history = 1..Len(c_server'.history)
      BY LenProperties
    <3> QED
      BY <3>1 DEF C!AppliedInOrder
  <2>1. c_server'.history[i] # 0
    OBVIOUS
  <2>2. i \in 1..Len(c_server.history) /\ c_server'.history[i] = c_server.history[i]
    BY <1>1, <1>2, <2>1
  <2>3. DOMAIN c_server.history = 1..Len(c_server.history)
    BY <1>0, LenProperties DEF CTypes
  <2>4. \/ \E j \in 1..(i - 1) : c_server.history[j] = p
        \/ p \in c_server.refused
    BY <2>2, <2>3 DEF CInv, C!AppliedInOrder
  <2>5. \A j \in 1..(i - 1) : c_server'.history[j] = c_server.history[j]
    BY <1>1, <2>2
  <2> QED
    BY <2>4, <2>5
<1> QED
  BY <1>3, <1>4, <1>5, <1>6, <1>7, <1>8, <1>9, <1>11, <1>12, <1>13, <1>14 DEF CInv

(* In a session not restored yet, that request is the one served next.     *)
LEMMA RestoreFirst ==
    ASSUME CInv, c_up # <<>>, c_up' = Tail(c_up), RestoreAsked
    PROVE  Head(c_up) = C!Auth(TRUE) /\ ~Has(c_up', C!Auth(TRUE))
  BY HandledOne DEF RestoreAsked, First

(* HandleAuth: the answer to restoreAuth is the first message of a         *)
(* session.                                                                *)
LEMMA HandleAuthKeeps ==
    ASSUME CInv, C!HandleAuth
    PROVE  CInv'
<1>0. CTypes /\ c_server \in [history : Seq(Nat), registered : BOOLEAN, loaded : BOOLEAN, asked : Nat,
                              refused : SUBSET Nat]
  BY DEF CInv, CTypes
<1>1. PICK r : r = Head(c_up)
  OBVIOUS
<1>2. /\ c_up # <<>> /\ c_up' = Tail(c_up) /\ r.type = "auth"
      /\ UNCHANGED <<c_state, c_retry, c_attempt, c_fetches, c_interrupted, c_token, c_listens, c_unacked,
                     c_puts, c_held, c_answers, c_cache, c_server>>
  BY <1>1 DEF C!HandleAuth, C!Handled, C!Request, C!link, C!client
<1>3. /\ r \in Requests /\ c_up' \in Seq(Requests)
      /\ \A x : Has(c_up, x) <=> x = r \/ Has(c_up', x)
      /\ \A x, y : Precedes(c_up, x, y) <=> Precedes(c_up', x, y) \/ (x = r /\ Has(c_up', y))
      /\ \A x, y : Outlasts(c_up, x, y) <=> Outlasts(c_up', x, y) \/ (x = r /\ ~Has(c_up', y))
      /\ \A x : Times(c_up, x) = Times(c_up', x) + (IF x = r THEN 1 ELSE 0)
      /\ \A x : Times(c_up', x) \in Nat
  BY <1>1, <1>2, HandledOne
<1>4. /\ r.restore \in BOOLEAN /\ r = C!Auth(r.restore)
      /\ r # C!ListenRequest /\ r # Unlisten /\ \A p : r # C!Put(p)
  BY <1>2, <1>3, RequestKinds
<1>5. PICK ok \in BOOLEAN : /\ C!Send(<<AuthAnswer(r.restore, ok)>>)
                            /\ c_used' \in [puts : Nat, listens : Nat, events : Nat]
                            /\ c_used'.puts = c_used.puts
  BY <1>0, <1>1, UseFacts DEF C!HandleAuth, C!Request, AuthAnswer, CTypes
<1>6. PICK a \in Messages : a = AuthAnswer(r.restore, ok)
  BY <1>4, MessageKinds
<1>7. PICK m \in Seq(Messages) : m = <<a>>
  <2>1. <<a>> \in Seq(Messages)
    BY Single
  <2> QED
    BY <2>1
<1>8. /\ c_down' \in Seq(Messages)
      /\ ~C!connected => c_down' = c_down
      /\ \A x : Has(c_down', x) <=> Has(c_down, x) \/ (C!connected /\ x = a)
      /\ \A x, y : Precedes(c_down', x, y) <=>
                      Precedes(c_down, x, y) \/ (C!connected /\ Has(c_down, x) /\ y = a)
      /\ \A x : C!connected => Times(c_down', x) = Times(c_down, x) + (IF x = a THEN 1 ELSE 0)
      /\ \A x : Times(c_down, x) \in Nat
  <2>1. C!Send(m)
    BY <1>5, <1>6, <1>7
  <2>2. /\ \A x : Has(m, x) <=> x = a
        /\ \A x, y : ~Precedes(m, x, y)
        /\ \A x : Times(m, x) = IF x = a THEN 1 ELSE 0
    BY <1>7, Single
  <2>3. /\ c_down' \in Seq(Messages)
        /\ ~C!connected => c_down' = c_down /\ c_down = <<>>
        /\ \A x : Has(c_down', x) <=> Has(c_down, x) \/ (C!connected /\ Has(m, x))
        /\ \A x, y : Precedes(c_down', x, y) <=>
              \/ Precedes(c_down, x, y)
              \/ C!connected /\ (Precedes(m, x, y) \/ (Has(c_down, x) /\ Has(m, y)))
        /\ \A x : C!connected => Times(c_down', x) = Times(c_down, x) + Times(m, x)
        /\ \A x : Times(c_down, x) \in Nat /\ Times(m, x) \in Nat
    BY <2>1, Delivered
  <2> QED
    BY <2>2, <2>3
<1>9. a # C!ListenRequest /\ (\A n : a # Data(n)) /\ (\A p, b : a # PutAnswer(p, b))
  BY <1>6, MessageKinds
<1>10. Restores'
  <2>1. CASE c_state = "connected"
    <3>1. r # C!Auth(TRUE)
      BY <1>3, <2>1 DEF CInv, Restores
    <3>2. r.restore = FALSE
      BY <1>4, <3>1
    <3>3. \A b : a # AuthAnswer(TRUE, b)
      BY <1>6, <3>2 DEF AuthAnswer
    <3> QED
      BY <1>2, <1>3, <1>8, <2>1, <3>3 DEF CInv, Restores
  <2>2. CASE c_state = "authenticating" /\ RestoreAsked
    <3>1. r = C!Auth(TRUE) /\ ~Has(c_up', C!Auth(TRUE))
      BY <1>1, <1>2, <2>2, RestoreFirst
    <3>2. r.restore = TRUE
      BY <1>4, <3>1, RequestKinds
    <3>3. a = AuthAnswer(TRUE, ok) /\ a # AuthAnswer(TRUE, ~ok)
      BY <1>6, <3>2 DEF AuthAnswer
    <3>4. \A x, y : ~Has(c_down, x) /\ ~Precedes(c_down, x, y)
      BY <2>2, Empty DEF RestoreAsked
    <3>5. C!connected
      BY <2>2 DEF C!connected
    <3>6. First(c_down', AuthAnswer(TRUE, ok)) /\ ~Has(c_down', AuthAnswer(TRUE, ~ok))
      BY <1>8, <3>3, <3>4, <3>5 DEF First
    <3>7. RestoreAnswered'
      BY <3>1, <3>6 DEF RestoreAnswered, First
    <3> QED
      BY <1>2, <2>2, <3>7 DEF Restores
  <2>3. CASE c_state = "authenticating" /\ RestoreAnswered
    <3>1. r # C!Auth(TRUE) /\ ~Has(c_up', C!Auth(TRUE))
      BY <1>3, <2>3 DEF RestoreAnswered
    <3>2. r.restore = FALSE
      BY <1>4, <3>1
    <3>3. \A b : a # AuthAnswer(TRUE, b)
      BY <1>6, <3>2 DEF AuthAnswer
    <3>4. RestoreAnswered'
      BY <1>8, <2>3, <3>1, <3>3 DEF RestoreAnswered, First
    <3> QED
      BY <1>2, <2>3, <3>4 DEF Restores
  <2> QED
    BY <1>2, <2>1, <2>2, <2>3 DEF CInv, Restores
<1>11. Counted'
  <2>1. Times(c_up', C!ListenRequest) = Times(c_up, C!ListenRequest)
    BY <1>3, <1>4
  <2>2. C!connected => Times(c_down', C!ListenRequest) = Times(c_down, C!ListenRequest)
    BY <1>8, <1>9
  <2> QED
    BY <1>2, <2>1, <2>2 DEF CInv, Counted, C!connected
<1>12. Observed'
  BY <1>2, <1>3, <1>4 DEF CInv, Observed
<1>13. \A n, p : Sees(n, p)' <=> Sees(n, p)
  BY <1>2, SameServer
<1>14. DataNewer'
  <2>1. /\ \A n : Has(c_down', Data(n)) <=> Has(c_down, Data(n))
        /\ \A x, n : Precedes(c_down', x, Data(n)) <=> Precedes(c_down, x, Data(n))
    BY <1>8, <1>9
  <2>2. \A p, b : ToldOrHeld(p, b)' <=> ToldOrHeld(p, b)
    BY <1>2, SameTold
  <2> QED
    BY <1>2, <1>13, <2>1, <2>2 DEF CInv, DataNewer
<1>15. HeldSafe'
  <2>1. \A p : Safe(p) => Safe(p)'
    BY <1>2, <1>3, <1>4, <1>8, <1>13 DEF Safe
  <2>2. /\ \A p, b : Has(c_down', PutAnswer(p, b)) <=> Has(c_down, PutAnswer(p, b))
        /\ \A x, y : Precedes(c_down, x, y) => Precedes(c_down', x, y)
    BY <1>8, <1>9
  <2> QED
    BY <1>2, <1>13, <2>1, <2>2 DEF CInv, HeldSafe
<1>16. /\ \A p \in Nat : Has(c_up', C!Put(p)) <=> Has(c_up, C!Put(p))
       /\ \A x, y : Precedes(c_up', x, y) => Precedes(c_up, x, y)
       /\ \A p \in Nat, b \in BOOLEAN : Has(c_down', PutAnswer(p, b)) <=> Has(c_down, PutAnswer(p, b))
       /\ \A p, q \in Nat, b, c \in BOOLEAN :
             Precedes(c_down', PutAnswer(p, b), PutAnswer(q, c)) =>
                Precedes(c_down, PutAnswer(p, b), PutAnswer(q, c))
  BY <1>3, <1>4, <1>8, <1>9
<1> QED
  BY <1>0, <1>2, <1>3, <1>5, <1>8, <1>10, <1>11, <1>12, <1>14, <1>15, <1>16, OtherServingKeeps

(* A request other than auth or put is served; nothing is sent.            *)
LEMMA RegisterKeeps ==
    ASSUME CInv, NEW r \in {C!ListenRequest, Unlisten}, c_up # <<>>, c_up' = Tail(c_up), r = Head(c_up),
           UNCHANGED <<c_state, c_retry, c_attempt, c_fetches, c_interrupted, c_token, c_listens, c_unacked,
                       c_puts, c_held, c_answers, c_cache, c_down, c_used>>,
           c_server' \in [history : Seq(Nat), registered : BOOLEAN, loaded : BOOLEAN, asked : Nat,
                          refused : SUBSET Nat],
           c_server'.history = c_server.history, c_server'.refused = c_server.refused,
           Counted', Observed', HeldSafe'
    PROVE  CInv'
<1>0. CTypes /\ c_used \in [puts : Nat, listens : Nat, events : Nat] /\ c_down \in Seq(Messages)
  BY DEF CInv, CTypes
<1>1. /\ c_up' \in Seq(Requests)
      /\ \A x : Has(c_up, x) <=> x = r \/ Has(c_up', x)
      /\ \A x, y : Precedes(c_up', x, y) => Precedes(c_up, x, y)
  BY HandledOne
<1>2. r # C!Auth(TRUE) /\ \A p : r # C!Put(p)
  BY RequestKinds
<1>3. Restores'
  <2>1. ~RestoreAsked
    BY <1>2, RestoreFirst
  <2> QED
    BY <1>1, <2>1 DEF CInv, Restores, RestoreAnswered, First
<1>4. \A n, p : Sees(n, p)' <=> Sees(n, p)
  BY DEF Sees
<1>5. DataNewer'
  <2>1. \A p, b : ToldOrHeld(p, b)' <=> ToldOrHeld(p, b)
    BY SameTold
  <2> QED
    BY <1>4, <2>1 DEF CInv, DataNewer
<1>6. \A p \in Nat : Has(c_up', C!Put(p)) <=> Has(c_up, C!Put(p))
  BY <1>1, <1>2
<1> QED
  BY <1>0, <1>1, <1>3, <1>5, <1>6, OtherServingKeeps

(* HandleListen: the listen is counted at the server instead of on its     *)
(* way.                                                                    *)
LEMMA HandleListenKeeps ==
    ASSUME CInv, C!HandleListen
    PROVE  CInv'
<1> DEFINE r == C!ListenRequest
<1>0. CTypes /\ c_server \in [history : Seq(Nat), registered : BOOLEAN, loaded : BOOLEAN, asked : Nat,
                              refused : SUBSET Nat]
      /\ c_unacked \in Nat
  BY TypeParts DEF CInv
<1>1. /\ c_up # <<>> /\ c_up' = Tail(c_up) /\ Head(c_up).type = "listen"
      /\ c_server' = [c_server EXCEPT !.registered = TRUE, !.asked = @ + 1]
      /\ UNCHANGED <<c_state, c_retry, c_attempt, c_fetches, c_interrupted, c_token, c_listens, c_unacked,
                     c_puts, c_held, c_answers, c_cache, c_down, c_used>>
  BY DEF C!HandleListen, C!Handled, C!Request, C!link, C!client
<1>2. Head(c_up) = r
  BY <1>1, HandledOne, RequestKinds
<1>3. /\ c_server' \in [history : Seq(Nat), registered : BOOLEAN, loaded : BOOLEAN, asked : Nat,
                        refused : SUBSET Nat]
      /\ c_server'.history = c_server.history /\ c_server'.refused = c_server.refused
      /\ c_server'.registered = TRUE /\ c_server'.asked = c_server.asked + 1
      /\ c_server'.asked > 0 /\ c_server.asked \in Nat
  <2>1. c_server.asked \in Nat /\ c_server.asked + 1 \in Nat /\ c_server.asked + 1 > 0
    BY <1>0
  <2>2. PICK k \in Nat : k = c_server.asked + 1
    BY <2>1
  <2>3. c_server' = [c_server EXCEPT !.registered = TRUE, !.asked = k]
    BY <1>1, <2>2
  <2> QED
    BY <1>0, <2>1, <2>2, <2>3
<1>4. /\ \A x : Has(c_up, x) <=> x = r \/ Has(c_up', x)
      /\ \A x, y : Outlasts(c_up, x, y) <=> Outlasts(c_up', x, y) \/ (x = r /\ ~Has(c_up', y))
  BY <1>1, <1>2, HandledOne
<1>5. Times(c_up, r) = Times(c_up', r) + 1 /\ Times(c_up', r) \in Nat
  BY <1>1, <1>2, HandledOne
<1>6. Counted'
  <2> SUFFICES ASSUME C!connected
               PROVE  c_unacked = Times(c_up', r) + c_server'.asked + Times(c_down, r)
    BY <1>1 DEF Counted, C!connected
  <2>1. c_unacked = Times(c_up, r) + c_server.asked + Times(c_down, r)
    BY DEF CInv, Counted
  <2>2. Times(c_down, r) \in Nat
    BY <1>0, TimesType DEF CTypes
  <2>3. PICK d \in Nat, u \in Nat, k \in Nat :
           d = Times(c_down, r) /\ u = Times(c_up', r) /\ k = c_server.asked
    BY <1>3, <1>5, <2>2
  <2>4. c_unacked = u + 1 + k + d
    BY <1>5, <2>1, <2>3
  <2>5. c_server'.asked = k + 1
    BY <1>3, <2>3
  <2> QED
    BY <2>3, <2>4, <2>5
<1>7. Observed'
  BY <1>1, <1>3, <1>4 DEF CInv, Observed
<1>8. HeldSafe'
  BY <1>1, <1>3 DEF HeldSafe, Safe
<1> QED
  BY <1>1, <1>2, <1>3, <1>6, <1>7, <1>8, RegisterKeeps

(* HandleUnlisten: the observer is gone, a later listen is on its way.     *)
LEMMA HandleUnlistenKeeps ==
    ASSUME CInv, C!HandleUnlisten
    PROVE  CInv'
<1>0. CTypes /\ c_server \in [history : Seq(Nat), registered : BOOLEAN, loaded : BOOLEAN, asked : Nat,
                              refused : SUBSET Nat]
  BY DEF CInv, CTypes
<1>1. /\ c_up # <<>> /\ c_up' = Tail(c_up) /\ Head(c_up).type = "unlisten"
      /\ c_server' = [c_server EXCEPT !.registered = FALSE, !.loaded = FALSE]
      /\ UNCHANGED <<c_state, c_retry, c_attempt, c_fetches, c_interrupted, c_token, c_listens, c_unacked,
                     c_puts, c_held, c_answers, c_cache, c_down, c_used>>
  BY DEF C!HandleUnlisten, C!Handled, C!Request, C!link, C!client
<1>2. Head(c_up) = Unlisten /\ Unlisten # C!ListenRequest
  BY <1>1, HandledOne, RequestKinds
<1>3. /\ c_server' \in [history : Seq(Nat), registered : BOOLEAN, loaded : BOOLEAN, asked : Nat,
                        refused : SUBSET Nat]
      /\ c_server'.history = c_server.history /\ c_server'.refused = c_server.refused
      /\ c_server'.registered = FALSE /\ c_server'.asked = c_server.asked
  BY <1>0, <1>1
<1>4. /\ Has(c_up, Unlisten)
      /\ Outlasts(c_up, C!ListenRequest, Unlisten) <=> Outlasts(c_up', C!ListenRequest, Unlisten)
  BY <1>1, <1>2, HandledOne
<1>5. Times(c_up, C!ListenRequest) = Times(c_up', C!ListenRequest)
  BY <1>1, <1>2, HandledOne
<1>6. Counted'
  BY <1>1, <1>3, <1>5 DEF CInv, Counted, C!connected
<1>7. Observed'
  BY <1>1, <1>3, <1>4 DEF CInv, Observed
<1>8. HeldSafe'
  <2> SUFFICES ASSUME c_state = "connected", c_listens PROVE Has(c_up', C!ListenRequest)
    BY <1>1 DEF HeldSafe, Safe
  <2>1. Outlasts(c_up', C!ListenRequest, Unlisten)
    BY <1>4 DEF CInv, Observed
  <2> QED
    BY <2>1, OrderedHas
<1> QED
  BY <1>1, <1>2, <1>3, <1>6, <1>7, <1>8, RegisterKeeps

(* More is heard of: the newest data is newer than anything a caller knows *)
(* of.                                                                     *)
LEMMA NewestData ==
    ASSUME CInv, NEW l \in Nat,
           c_server'.history \in Seq(Nat), l = Len(c_server'.history),
           \/ c_server'.history = c_server.history
           \/ \E x \in Nat : c_server'.history = Append(c_server.history, x),
           c_cache' = c_cache, UNCHANGED <<c_answers, c_held>>,
           \A n : Has(c_down', Data(n)) => Has(c_down, Data(n)) \/ n = l,
           \A x, n : Precedes(c_down', x, Data(n)) =>
                        Precedes(c_down, x, Data(n)) \/ (Has(c_down, x) /\ n = l)
    PROVE  DataNewer' /\ \A p : Applied(p) => Sees(l, p)'
<1>0. CTypes /\ Len(c_server.history) \in Nat /\ c_cache \in Nat /\ c_cache <= Len(c_server.history)
  BY CacheFacts DEF CInv
<1>1. /\ Len(c_server.history) <= l
      /\ \A n \in Nat : \A p : Sees(n, p) /\ n <= Len(c_server.history) => Sees(n, p)'
      /\ \A p : Applied(p) => Applied(p)'
  BY <1>0, HistoryGrows
<1>2. \A p : Applied(p) => Sees(l, p)'
  BY <1>1 DEF Applied
<1>3. \A p, b : ToldOrHeld(p, b)' <=> ToldOrHeld(p, b)
  BY SameTold
<1>5. ASSUME NEW n \in Nat, Has(c_down', Data(n))
      PROVE  /\ c_cache <= n /\ n <= l
             /\ \A p \in Nat : ToldOrHeld(p, TRUE) => Sees(n, p)'
  <2>1. CASE Has(c_down, Data(n))
    <3>1. /\ c_cache <= n /\ n <= Len(c_server.history)
          /\ \A p \in Nat : ToldOrHeld(p, TRUE) => Sees(n, p)
      BY <2>1 DEF CInv, DataNewer
    <3>2. n <= l
      BY <1>0, <1>1, <3>1
    <3>3. \A p : Sees(n, p) => Sees(n, p)'
      BY <1>1, <3>1
    <3> QED
      BY <3>1, <3>2, <3>3
  <2>2. CASE n = l
    <3>1. \A p \in Nat : ToldOrHeld(p, TRUE) => Applied(p)
      BY DEF CInv, ToldSettled
    <3>2. c_cache <= n /\ n <= l
      BY <1>0, <1>1, <2>2
    <3>3. \A p : Applied(p) => Sees(n, p)'
      BY <1>2, <2>2
    <3> QED
      BY <3>1, <3>2, <3>3
  <2> QED
    BY <1>5, <2>1, <2>2
<1>6. ASSUME NEW m \in Nat, NEW n \in Nat, Precedes(c_down', Data(m), Data(n)) PROVE m <= n
  <2>1. CASE Precedes(c_down, Data(m), Data(n))
    BY <2>1 DEF CInv, DataNewer
  <2>2. CASE Has(c_down, Data(m)) /\ n = l
    <3>1. m <= Len(c_server.history)
      BY <2>2 DEF CInv, DataNewer
    <3> QED
      BY <1>0, <1>1, <2>2, <3>1
  <2> QED
    BY <1>6, <2>1, <2>2
<1>7. ASSUME NEW p \in Nat, NEW n \in Nat, Precedes(c_down', PutAnswer(p, TRUE), Data(n))
      PROVE  Sees(n, p)'
  <2>1. CASE Precedes(c_down, PutAnswer(p, TRUE), Data(n))
    <3>1. Has(c_down, Data(n))
      BY <2>1, OrderedHas
    <3>2. n <= Len(c_server.history) /\ Sees(n, p)
      BY <2>1, <3>1 DEF CInv, DataNewer
    <3> QED
      BY <1>1, <3>2
  <2>2. CASE Has(c_down, PutAnswer(p, TRUE)) /\ n = l
    <3>1. Applied(p)
      BY <2>2 DEF CInv, AnswersTrue
    <3> QED
      BY <1>2, <2>2, <3>1
  <2>3. \/ Precedes(c_down, PutAnswer(p, TRUE), Data(n))
        \/ Has(c_down, PutAnswer(p, TRUE)) /\ n = l
    <3>1. PICK x : x = PutAnswer(p, TRUE)
      OBVIOUS
    <3>2. Precedes(c_down', x, Data(n))
      BY <1>7, <3>1
    <3>3. Precedes(c_down, x, Data(n)) \/ (Has(c_down, x) /\ n = l)
      BY <3>2
    <3> QED
      BY <3>1, <3>3
  <2> QED
    BY <2>1, <2>2, <2>3
<1>8. DataNewer'
  BY <1>3, <1>5, <1>6, <1>7 DEF DataNewer
<1> QED
  BY <1>2, <1>8

(* LoadPath: the data of now comes before the answer to the listen, which  *)
(* is on its way back instead of at the server.                            *)
LEMMA LoadPathKeeps ==
    ASSUME CInv, C!LoadPath
    PROVE  CInv'
<1> DEFINE L == C!ListenRequest
<1>0. CTypes /\ c_server \in [history : Seq(Nat), registered : BOOLEAN, loaded : BOOLEAN, asked : Nat,
                              refused : SUBSET Nat]
      /\ c_unacked \in Nat /\ c_used \in [puts : Nat, listens : Nat, events : Nat]
  BY TypeParts DEF CInv
<1>1. /\ c_server.asked > 0
      /\ c_server' = [c_server EXCEPT !.asked = @ - 1, !.loaded = c_server.registered]
      /\ C!Send(C!News(c_server') \o <<L>>)
      /\ UNCHANGED <<c_state, c_retry, c_attempt, c_fetches, c_interrupted, c_token, c_listens, c_unacked,
                     c_puts, c_held, c_answers, c_cache, c_up, c_used>>
  BY DEF C!LoadPath, C!link, C!client, C!ListenRequest
<1>2. PICK k \in Nat : c_server.asked = k + 1 /\ c_server.asked - 1 = k
  <2>1. c_server.asked \in Nat
    BY <1>0
  <2> QED
    BY <1>1, <2>1
<1>3. /\ c_server' \in [history : Seq(Nat), registered : BOOLEAN, loaded : BOOLEAN, asked : Nat,
                        refused : SUBSET Nat]
      /\ c_server'.history = c_server.history /\ c_server'.refused = c_server.refused
      /\ c_server'.registered = c_server.registered /\ c_server'.asked = k
      /\ c_server'.loaded = c_server.registered
  <2>1. c_server' = [c_server EXCEPT !.asked = k, !.loaded = c_server.registered]
    BY <1>1, <1>2
  <2> QED
    BY <1>0, <2>1
<1>4. PICK l \in Nat : l = Len(c_server'.history) /\ l = Len(c_server.history)
  BY <1>0, <1>3, LenProperties
<1>5. PICK d \in Messages : d = Data(l)
  BY <1>4, MessageKinds
<1>6. PICK reg : reg = c_server.registered
  OBVIOUS
<1>7. /\ c_down' \in Seq(Messages)
      /\ ~C!connected => c_down' = c_down
      /\ \A x : Has(c_down', x) <=> Has(c_down, x) \/ (C!connected /\ (x = L \/ (reg /\ x = d)))
      /\ \A x, y : Precedes(c_down', x, y) <=>
            \/ Precedes(c_down, x, y)
            \/ /\ C!connected
               /\ \/ reg /\ x = d /\ y = L
                  \/ Has(c_down, x) /\ (y = L \/ (reg /\ y = d))
      /\ C!connected => Times(c_down', L) = Times(c_down, L) + 1
      /\ Times(c_down, L) \in Nat
  <2>1. L \in Messages /\ L # d
    BY <1>5, MessageKinds
  <2>2. C!News(c_server') = IF c_server'.loaded THEN <<d>> ELSE <<>>
    BY <1>4, <1>5 DEF C!News, Data
  <2>3. PICK m : m = C!News(c_server') \o <<L>>
    OBVIOUS
  <2>4. /\ m \in Seq(Messages)
        /\ \A x : Has(m, x) <=> x = L \/ (c_server'.loaded /\ x = d)
        /\ \A x, y : Precedes(m, x, y) <=> c_server'.loaded /\ x = d /\ y = L
        /\ \A x : x # d => Times(m, x) = IF x = L THEN 1 ELSE 0
    <3>1. AnswerBehindNews(m, c_server', d, L)
      BY <2>1, <2>2, <2>3, NewsAndAnswer
    <3> QED
      BY <3>1 DEF AnswerBehindNews
  <2>5. /\ m \in Seq(Messages)
        /\ \A x : Has(m, x) <=> x = L \/ (reg /\ x = d)
        /\ \A x, y : Precedes(m, x, y) <=> reg /\ x = d /\ y = L
        /\ Times(m, L) = 1
    BY <1>3, <1>6, <2>1, <2>4
  <2>6. C!Send(m)
    BY <1>1, <2>3
  <2>7. /\ c_down' \in Seq(Messages)
        /\ ~C!connected => c_down' = c_down /\ c_down = <<>>
        /\ \A x : Has(c_down', x) <=> Has(c_down, x) \/ (C!connected /\ Has(m, x))
        /\ \A x, y : Precedes(c_down', x, y) <=>
              \/ Precedes(c_down, x, y)
              \/ C!connected /\ (Precedes(m, x, y) \/ (Has(c_down, x) /\ Has(m, y)))
        /\ \A x : C!connected => Times(c_down', x) = Times(c_down, x) + Times(m, x)
        /\ \A x : Times(c_down, x) \in Nat /\ Times(m, x) \in Nat
    BY <2>5, <2>6, Delivered
  <2> QED
    BY <2>5, <2>7
<1> HIDE DEF L
<1>8. L = C!ListenRequest /\ d # L /\ (\A n : L # Data(n)) /\ (\A p, b : L # PutAnswer(p, b) /\ d # PutAnswer(p, b))
      /\ \A a, b : L # AuthAnswer(a, b) /\ d # AuthAnswer(a, b)
  BY <1>5, MessageKinds DEF L
<1>9. Restores'
  <2>1. ~RestoreAsked
    <3>1. c_server.asked # 0
      BY <1>2
    <3> QED
      BY <3>1 DEF RestoreAsked
  <2>2. \A a, b : Has(c_down', AuthAnswer(a, b)) <=> Has(c_down, AuthAnswer(a, b))
    BY <1>7, <1>8
  <2>3. \A x, a, b : Precedes(c_down', x, AuthAnswer(a, b)) <=> Precedes(c_down, x, AuthAnswer(a, b))
    BY <1>7, <1>8
  <2> QED
    BY <1>1, <2>1, <2>2, <2>3 DEF CInv, Restores, RestoreAnswered, First
<1>10. Counted'
  <2> SUFFICES ASSUME C!connected
               PROVE  c_unacked = Times(c_up, L) + k + Times(c_down', L)
    BY <1>1, <1>3, <1>8 DEF Counted, C!connected
  <2>1. c_unacked = Times(c_up, L) + (k + 1) + Times(c_down, L)
    BY <1>2, <1>8 DEF CInv, Counted
  <2>2. Times(c_up, L) \in Nat
    BY <1>0, TimesType DEF CTypes
  <2>3. Times(c_down', L) = Times(c_down, L) + 1 /\ Times(c_down, L) \in Nat
    BY <1>7
  <2> QED
    BY <2>1, <2>2, <2>3
<1>11. Observed'
  BY <1>1, <1>3 DEF CInv, Observed
<1>12. DataNewer' /\ \A p : Applied(p) => Sees(l, p)'
  <2>2. \A n : Has(c_down', Data(n)) => Has(c_down, Data(n)) \/ n = l
    BY <1>5, <1>7, <1>8, MessageKinds
  <2>3. \A x, n : Precedes(c_down', x, Data(n)) =>
                     Precedes(c_down, x, Data(n)) \/ (Has(c_down, x) /\ n = l)
    BY <1>5, <1>7, <1>8, MessageKinds
  <2>4. c_server'.history \in Seq(Nat) /\ l = Len(c_server'.history)
    BY <1>3, <1>4
  <2> QED
    BY <1>1, <1>3, <1>4, <2>2, <2>3, <2>4, NewestData
<1>13. HeldSafe'
  <2> SUFFICES ASSUME c_state = "connected", NEW p \in Nat,
                      Has(c_held, C!Answer(p, TRUE)) \/ Has(c_down', PutAnswer(p, TRUE))
               PROVE  Safe(p)'
    BY <1>1 DEF HeldSafe
  <2>1. Applied(p)
    <3>1. Has(c_down', PutAnswer(p, TRUE)) => Has(c_down, PutAnswer(p, TRUE))
      BY <1>7, <1>8
    <3> QED
      BY <3>1 DEF CInv, ToldSettled, ToldOrHeld, AnswersTrue
  <2>2. CASE ~c_listens
    BY <1>1, <2>2 DEF Safe
  <2>3. CASE c_listens /\ Outlasts(c_up, C!ListenRequest, Unlisten)
    <3>1. Has(c_up', C!ListenRequest)
      BY <1>1, <2>3, OrderedHas
    <3> QED
      BY <3>1 DEF Safe
  <2>4. CASE reg
    <3>1. Precedes(c_down', Data(l), C!ListenRequest)
      BY <1>5, <1>7, <1>8, <2>4 DEF C!connected
    <3>2. l \in Nat /\ Sees(l, p)'
      BY <1>4, <1>12, <2>1
    <3> QED
      BY <3>1, <3>2 DEF Safe
  <2> QED
    BY <1>6, <2>2, <2>3, <2>4 DEF CInv, Observed
<1>14. /\ \A p \in Nat, b \in BOOLEAN : Has(c_down', PutAnswer(p, b)) <=> Has(c_down, PutAnswer(p, b))
       /\ \A p, q \in Nat, b, c \in BOOLEAN :
             Precedes(c_down', PutAnswer(p, b), PutAnswer(q, c)) =>
                Precedes(c_down, PutAnswer(p, b), PutAnswer(q, c))
  BY <1>7, <1>8
<1>15. c_up' \in Seq(Requests)
  BY <1>0, <1>1 DEF CTypes
<1> QED
  BY <1>0, <1>1, <1>3, <1>7, <1>9, <1>10, <1>11, <1>12, <1>13, <1>14, <1>15, OtherServingKeeps

(* WriteOfOther: who has loaded the path hears of it.                      *)
LEMMA WriteOfOtherKeeps ==
    ASSUME CInv, C!WriteOfOther
    PROVE  CInv'
<1> DEFINE L == C!ListenRequest
<1>0. CTypes /\ c_server \in [history : Seq(Nat), registered : BOOLEAN, loaded : BOOLEAN, asked : Nat,
                              refused : SUBSET Nat]
      /\ c_unacked \in Nat /\ c_used \in [puts : Nat, listens : Nat, events : Nat]
  BY TypeParts DEF CInv
<1>1. /\ c_server' = [c_server EXCEPT !.history = Append(@, C!Foreign)]
      /\ C!Send(C!News(c_server'))
      /\ c_used' \in [puts : Nat, listens : Nat, events : Nat] /\ c_used'.puts = c_used.puts
      /\ UNCHANGED <<c_state, c_retry, c_attempt, c_fetches, c_interrupted, c_token, c_listens, c_unacked,
                     c_puts, c_held, c_answers, c_cache, c_up>>
  BY <1>0, UseFacts DEF C!WriteOfOther, C!link, C!client
<1>2. PICK h \in Seq(Nat) : h = c_server.history
  BY <1>0
<1>3. Append(h, 0) \in Seq(Nat)
  BY AppendProperties
<1>4. /\ c_server' \in [history : Seq(Nat), registered : BOOLEAN, loaded : BOOLEAN, asked : Nat,
                        refused : SUBSET Nat]
      /\ c_server'.history = Append(c_server.history, C!Foreign)
      /\ c_server'.history = Append(c_server.history, 0)
      /\ c_server'.refused = c_server.refused /\ c_server'.asked = c_server.asked
      /\ c_server'.registered = c_server.registered /\ c_server'.loaded = c_server.loaded
  BY <1>0, <1>1, <1>2, <1>3 DEF C!Foreign
<1>5. PICK l \in Nat : l = Len(c_server'.history)
  BY <1>4, LenProperties
<1>6. PICK d \in Messages : d = Data(l)
  BY <1>5, MessageKinds
<1>7. PICK on : on = c_server.loaded
  OBVIOUS
<1>8. PICK m : m = C!News(c_server')
  OBVIOUS
<1>9. m = IF on THEN <<d>> ELSE <<>>
  BY <1>4, <1>5, <1>6, <1>7, <1>8 DEF C!News, Data
<1>10. /\ c_down' \in Seq(Messages)
       /\ ~C!connected => c_down' = c_down
       /\ \A x : Has(c_down', x) <=> Has(c_down, x) \/ (C!connected /\ on /\ x = d)
       /\ \A x, y : Precedes(c_down', x, y) <=>
             Precedes(c_down, x, y) \/ (C!connected /\ Has(c_down, x) /\ on /\ y = d)
       /\ C!connected => Times(c_down', L) = Times(c_down, L)
  <2>1. L \in Messages /\ L # d
    BY <1>6, MessageKinds
  <2>2. C!News(c_server') = IF c_server'.loaded THEN <<d>> ELSE <<>>
    BY <1>5, <1>6 DEF C!News, Data
  <2>3. /\ m \in Seq(Messages)
        /\ \A x : Has(m, x) <=> c_server'.loaded /\ x = d
        /\ \A x, y : ~Precedes(m, x, y)
        /\ \A x : x # d => Times(m, x) = 0
    <3>1. NewsOnly(m, c_server', d)
      BY <1>8, <2>1, <2>2, NewsAlone
    <3> QED
      BY <3>1 DEF NewsOnly
  <2>4. /\ m \in Seq(Messages)
        /\ \A x : Has(m, x) <=> on /\ x = d
        /\ \A x, y : ~Precedes(m, x, y)
        /\ Times(m, L) = 0
    BY <1>4, <1>7, <2>1, <2>3
  <2>5. C!Send(m)
    BY <1>1, <1>8
  <2>6. /\ c_down' \in Seq(Messages)
        /\ ~C!connected => c_down' = c_down /\ c_down = <<>>
        /\ \A x : Has(c_down', x) <=> Has(c_down, x) \/ (C!connected /\ Has(m, x))
        /\ \A x, y : Precedes(c_down', x, y) <=>
              \/ Precedes(c_down, x, y)
              \/ C!connected /\ (Precedes(m, x, y) \/ (Has(c_down, x) /\ Has(m, y)))
        /\ \A x : C!connected => Times(c_down', x) = Times(c_down, x) + Times(m, x)
        /\ \A x : Times(c_down, x) \in Nat /\ Times(m, x) \in Nat
    BY <2>4, <2>5, Delivered
  <2> QED
    BY <2>4, <2>6
<1> HIDE DEF L
<1>11. L = C!ListenRequest /\ d # L /\ (\A p, b : d # PutAnswer(p, b)) /\ (\A a, b : d # AuthAnswer(a, b))
  BY <1>6, MessageKinds DEF L
<1>12. Restores'
  <2>1. ASSUME RestoreAsked PROVE RestoreAsked'
    <3>1. m = <<>> /\ c_down = <<>>
      BY <1>7, <1>9, <2>1 DEF RestoreAsked
    <3>2. c_down' = <<>>
      BY <1>1, <1>8, <3>1 DEF C!Send
    <3> QED
      BY <1>1, <1>4, <2>1, <3>2 DEF RestoreAsked, First
  <2>2. \A a, b : Has(c_down', AuthAnswer(a, b)) <=> Has(c_down, AuthAnswer(a, b))
    BY <1>10, <1>11
  <2>3. \A x, a, b : Precedes(c_down', x, AuthAnswer(a, b)) <=> Precedes(c_down, x, AuthAnswer(a, b))
    BY <1>10, <1>11
  <2>4. RestoreAnswered => RestoreAnswered'
    BY <1>1, <2>2, <2>3 DEF RestoreAnswered, First
  <2> QED
    BY <1>1, <2>1, <2>2, <2>4 DEF CInv, Restores
<1>13. Counted'
  BY <1>1, <1>4, <1>10, <1>11 DEF CInv, Counted, C!connected
<1>14. Observed'
  BY <1>1, <1>4 DEF CInv, Observed
<1>15. DataNewer' /\ \A p : Applied(p) => Sees(l, p)'
  <2>1. \A n : Has(c_down', Data(n)) => Has(c_down, Data(n)) \/ n = l
    BY <1>6, <1>10, MessageKinds
  <2>2. \A x, n : Precedes(c_down', x, Data(n)) =>
                     Precedes(c_down, x, Data(n)) \/ (Has(c_down, x) /\ n = l)
    BY <1>6, <1>10, MessageKinds
  <2>3. /\ c_server'.history \in Seq(Nat) /\ l = Len(c_server'.history)
        /\ \/ c_server'.history = c_server.history
           \/ \E x \in Nat : c_server'.history = Append(c_server.history, x)
    <3>1. c_server'.history = Append(c_server.history, 0) /\ 0 \in Nat
      BY <1>4
    <3> QED
      BY <1>4, <1>5, <3>1
  <2> QED
    BY <1>1, <1>5, <2>1, <2>2, <2>3, NewestData
<1>16. HeldSafe'
  <2>1. /\ Len(c_server.history) \in Nat /\ c_cache \in Nat /\ c_cache <= Len(c_server.history)
        /\ \A n \in Nat : \A p : Sees(n, p) /\ n <= Len(c_server.history) => Sees(n, p)'
    BY <1>0, <1>4, CacheFacts, HistoryGrows
  <2>2. \A n \in Nat : \A x, p : /\ Precedes(c_down, Data(n), x) /\ Sees(n, p)
                             => Precedes(c_down', Data(n), x) /\ Sees(n, p)'
    <3>1. \A n \in Nat : \A x : Precedes(c_down, Data(n), x) => n <= Len(c_server.history)
      BY OrderedHas DEF CInv, DataNewer
    <3> QED
      BY <1>10, <2>1, <3>1
  <2>3. \A p : Sees(c_cache, p) => Sees(c_cache, p)'
    BY <1>1, <2>1
  <2>4. \A p : Safe(p) => Safe(p)'
    BY <1>1, <1>4, <2>2, <2>3 DEF Safe
  <2>5. \A p, b : Has(c_down', PutAnswer(p, b)) <=> Has(c_down, PutAnswer(p, b))
    BY <1>10, <1>11
  <2> QED
    BY <1>1, <2>2, <2>4, <2>5 DEF CInv, HeldSafe
<1>17. /\ \A p \in Nat, b \in BOOLEAN : Has(c_down', PutAnswer(p, b)) <=> Has(c_down, PutAnswer(p, b))
       /\ \A p, q \in Nat, b, c \in BOOLEAN :
             Precedes(c_down', PutAnswer(p, b), PutAnswer(q, c)) =>
                Precedes(c_down, PutAnswer(p, b), PutAnswer(q, c))
  BY <1>10, <1>11
<1>18. c_up' \in Seq(Requests)
  BY <1>0, <1>1 DEF CTypes
<1> QED
  BY <1>0, <1>1, <1>4, <1>10, <1>12, <1>13, <1>14, <1>15, <1>16, <1>17, <1>18, OtherServingKeeps

(* A write is applied or refused: the answer follows the news of it.       *)
PutServed(q, l, ok, d, a) ==
    /\ d = Data(l) /\ a = PutAnswer(q, ok) /\ l = Len(c_server'.history)
    /\ c_up # <<>> /\ c_up' = Tail(c_up) /\ Head(c_up) = C!Put(q)
    /\ UNCHANGED <<c_state, c_retry, c_attempt, c_fetches, c_interrupted, c_token, c_listens,
                   c_unacked, c_puts, c_held, c_answers, c_cache>>
    /\ c_used' \in [puts : Nat, listens : Nat, events : Nat] /\ c_used'.puts = c_used.puts
    /\ c_server' \in [history : Seq(Nat), registered : BOOLEAN, loaded : BOOLEAN, asked : Nat,
                      refused : SUBSET Nat]
    /\ c_server'.registered = c_server.registered /\ c_server'.loaded = c_server.loaded
    /\ c_server'.asked = c_server.asked
    /\ IF ok THEN /\ c_server'.history = Append(c_server.history, q)
                  /\ c_server'.refused = c_server.refused
             ELSE /\ c_server'.history = c_server.history
                  /\ c_server'.refused = c_server.refused \cup {q}
    /\ c_down' \in Seq(Messages)
    /\ ~C!connected => c_down' = c_down
    /\ \A x : Has(c_down', x) <=>
          \/ Has(c_down, x)
          \/ C!connected /\ (x = a \/ (ok /\ c_server.loaded /\ x = d))
    /\ \A x, y : Precedes(c_down', x, y) <=>
          \/ Precedes(c_down, x, y)
          \/ /\ C!connected
             /\ \/ ok /\ c_server.loaded /\ x = d /\ y = a
                \/ Has(c_down, x) /\ (y = a \/ (ok /\ c_server.loaded /\ y = d))
    /\ C!connected => Times(c_down', C!ListenRequest) = Times(c_down, C!ListenRequest)

(* HandlePut, with the put and the messages by name.                       *)
LEMMA PutIsServed ==
    ASSUME CInv, C!HandlePut
    PROVE  \E q \in Nat, l \in Nat, ok \in BOOLEAN, d \in Messages, a \in Messages :
              PutServed(q, l, ok, d, a)
<1>0. CTypes /\ c_server \in [history : Seq(Nat), registered : BOOLEAN, loaded : BOOLEAN, asked : Nat,
                              refused : SUBSET Nat]
      /\ c_used \in [puts : Nat, listens : Nat, events : Nat]
  BY TypeParts DEF CInv
<1>1. /\ c_up # <<>> /\ c_up' = Tail(c_up) /\ Head(c_up).type = "put"
      /\ UNCHANGED <<c_state, c_retry, c_attempt, c_fetches, c_interrupted, c_token, c_listens,
                     c_unacked, c_puts, c_held, c_answers, c_cache>>
  BY DEF C!HandlePut, C!Handled, C!Request, C!link, C!client
<1>2. PICK q \in Nat : Head(c_up) = C!Put(q) /\ q = Head(c_up).put
  BY <1>1, HandledOne, RequestKinds
<1>3. PICK h \in Seq(Nat) : h = c_server.history /\ Append(h, q) \in Seq(Nat)
  BY <1>0, AppendProperties
<1>4. CASE /\ c_server' = [c_server EXCEPT !.history = Append(@, Head(c_up).put)]
           /\ C!Send(C!News(c_server') \o <<[type |-> "put", put |-> Head(c_up).put, ok |-> TRUE]>>)
           /\ UNCHANGED c_used
  <2>1. /\ c_server' \in [history : Seq(Nat), registered : BOOLEAN, loaded : BOOLEAN, asked : Nat,
                          refused : SUBSET Nat]
        /\ c_server'.history = Append(c_server.history, q)
        /\ c_server'.refused = c_server.refused /\ c_server'.asked = c_server.asked
        /\ c_server'.registered = c_server.registered /\ c_server'.loaded = c_server.loaded
    BY <1>0, <1>2, <1>3, <1>4
  <2>2. PICK l \in Nat : l = Len(c_server'.history)
    BY <2>1, LenProperties
  <2>3. PICK d \in Messages : d = Data(l)
    BY <2>2, MessageKinds
  <2>4. PICK a \in Messages : a = PutAnswer(q, TRUE)
    BY <1>2, MessageKinds
  <2>5. PICK m : m = C!News(c_server') \o <<a>>
    OBVIOUS
  <2>6. C!Send(m)
    BY <1>2, <1>4, <2>4, <2>5 DEF PutAnswer
  <2>7. d # C!ListenRequest /\ a # C!ListenRequest
    BY <2>3, <2>4, MessageKinds
  <2>8. C!News(c_server') = IF c_server'.loaded THEN <<d>> ELSE <<>>
    BY <2>2, <2>3 DEF C!News, Data
  <2>9. /\ m \in Seq(Messages)
        /\ \A x : Has(m, x) <=> x = a \/ (c_server'.loaded /\ x = d)
        /\ \A x, y : Precedes(m, x, y) <=> c_server'.loaded /\ x = d /\ y = a
        /\ \A x : x # d => Times(m, x) = IF x = a THEN 1 ELSE 0
    <3>1. PICK s : s = c_server'
      OBVIOUS
    <3>2. C!News(s) = IF s.loaded THEN <<d>> ELSE <<>>
      BY <2>8, <3>1
    <3>3. m = C!News(s) \o <<a>>
      BY <2>5, <3>1
    <3>4. AnswerBehindNews(m, s, d, a)
      BY <3>2, <3>3, NewsAndAnswer
    <3> QED
      BY <3>1, <3>4 DEF AnswerBehindNews
  <2>10. /\ m \in Seq(Messages)
         /\ \A x : Has(m, x) <=> x = a \/ (c_server.loaded /\ x = d)
         /\ \A x, y : Precedes(m, x, y) <=> c_server.loaded /\ x = d /\ y = a
         /\ Times(m, C!ListenRequest) = 0
    BY <2>1, <2>7, <2>9
  <2>11. /\ c_down' \in Seq(Messages)
         /\ ~C!connected => c_down' = c_down /\ c_down = <<>>
         /\ \A x : Has(c_down', x) <=> Has(c_down, x) \/ (C!connected /\ Has(m, x))
         /\ \A x, y : Precedes(c_down', x, y) <=>
               \/ Precedes(c_down, x, y)
               \/ C!connected /\ (Precedes(m, x, y) \/ (Has(c_down, x) /\ Has(m, y)))
         /\ \A x : C!connected => Times(c_down', x) = Times(c_down, x) + Times(m, x)
         /\ \A x : Times(c_down, x) \in Nat /\ Times(m, x) \in Nat
    BY <2>6, <2>10, Delivered
  <2>12. /\ c_down' \in Seq(Messages)
         /\ ~C!connected => c_down' = c_down
         /\ \A x : Has(c_down', x) <=>
               \/ Has(c_down, x)
               \/ C!connected /\ (x = a \/ (TRUE /\ c_server.loaded /\ x = d))
         /\ \A x, y : Precedes(c_down', x, y) <=>
               \/ Precedes(c_down, x, y)
               \/ /\ C!connected
                  /\ \/ TRUE /\ c_server.loaded /\ x = d /\ y = a
                     \/ Has(c_down, x) /\ (y = a \/ (TRUE /\ c_server.loaded /\ y = d))
         /\ C!connected => Times(c_down', C!ListenRequest) = Times(c_down, C!ListenRequest)
    BY <2>10, <2>11
  <2>13. c_used' \in [puts : Nat, listens : Nat, events : Nat] /\ c_used'.puts = c_used.puts
    BY <1>0, <1>4
  <2>14. PutServed(q, l, TRUE, d, a)
    BY <1>1, <1>2, <2>1, <2>2, <2>3, <2>4, <2>12, <2>13 DEF PutServed
  <2> QED
    BY <2>14
<1>5. CASE /\ C!Send(<<[type |-> "put", put |-> Head(c_up).put, ok |-> FALSE]>>)
           /\ C!Event
           /\ c_server' = [c_server EXCEPT !.refused = @ \cup {Head(c_up).put}]
  <2>0. c_server.refused \cup {q} \in SUBSET Nat
    BY <1>0
  <2>1. /\ c_server' \in [history : Seq(Nat), registered : BOOLEAN, loaded : BOOLEAN, asked : Nat,
                          refused : SUBSET Nat]
        /\ c_server'.history = c_server.history
        /\ c_server'.refused = c_server.refused \cup {q} /\ c_server'.asked = c_server.asked
        /\ c_server'.registered = c_server.registered /\ c_server'.loaded = c_server.loaded
    BY <1>0, <1>2, <1>5, <2>0
  <2>2. PICK l \in Nat : l = Len(c_server'.history)
    BY <2>1, LenProperties
  <2>3. PICK d \in Messages : d = Data(l)
    BY <2>2, MessageKinds
  <2>4. PICK a \in Messages : a = PutAnswer(q, FALSE)
    BY <1>2, MessageKinds
  <2>5. PICK m \in Seq(Messages) : m = <<a>>
    <3>1. <<a>> \in Seq(Messages)
      BY Single
    <3> QED
      BY <3>1
  <2>6. C!Send(m)
    BY <1>2, <1>5, <2>4, <2>5 DEF PutAnswer
  <2>7. a # C!ListenRequest
    BY <2>4, MessageKinds
  <2>8. /\ \A x : Has(m, x) <=> x = a
        /\ \A x, y : ~Precedes(m, x, y)
        /\ \A x : Times(m, x) = IF x = a THEN 1 ELSE 0
    BY <2>5, Single
  <2>9. Times(m, C!ListenRequest) = 0
    BY <2>7, <2>8
  <2>10. /\ c_down' \in Seq(Messages)
         /\ ~C!connected => c_down' = c_down /\ c_down = <<>>
         /\ \A x : Has(c_down', x) <=> Has(c_down, x) \/ (C!connected /\ Has(m, x))
         /\ \A x, y : Precedes(c_down', x, y) <=>
               \/ Precedes(c_down, x, y)
               \/ C!connected /\ (Precedes(m, x, y) \/ (Has(c_down, x) /\ Has(m, y)))
         /\ \A x : C!connected => Times(c_down', x) = Times(c_down, x) + Times(m, x)
         /\ \A x : Times(c_down, x) \in Nat /\ Times(m, x) \in Nat
    BY <2>6, Delivered
  <2>11. /\ c_down' \in Seq(Messages)
         /\ ~C!connected => c_down' = c_down
         /\ \A x : Has(c_down', x) <=>
               \/ Has(c_down, x)
               \/ C!connected /\ (x = a \/ (FALSE /\ c_server.loaded /\ x = d))
         /\ \A x, y : Precedes(c_down', x, y) <=>
               \/ Precedes(c_down, x, y)
               \/ /\ C!connected
                  /\ \/ FALSE /\ c_server.loaded /\ x = d /\ y = a
                     \/ Has(c_down, x) /\ (y = a \/ (FALSE /\ c_server.loaded /\ y = d))
         /\ C!connected => Times(c_down', C!ListenRequest) = Times(c_down, C!ListenRequest)
    BY <2>8, <2>9, <2>10
  <2>12. c_used' \in [puts : Nat, listens : Nat, events : Nat] /\ c_used'.puts = c_used.puts
    BY <1>0, <1>5, UseFacts
  <2>13. PutServed(q, l, FALSE, d, a)
    BY <1>1, <1>2, <2>1, <2>2, <2>3, <2>4, <2>11, <2>12 DEF PutServed
  <2> QED
    BY <2>13
<1> QED
  BY <1>4, <1>5 DEF C!HandlePut, C!Request

(* The answer to a put that is not outstanding twice is new.               *)
LEMMA NewAnswer ==
    ASSUME NEW q \in Nat, NEW l \in Nat, NEW ok \in BOOLEAN, NEW d \in Messages, NEW a \in Messages,
           PutServed(q, l, ok, d, a), NEW p \in Nat, Has(c_down', PutAnswer(p, TRUE))
    PROVE  Has(c_down, PutAnswer(p, TRUE)) \/ (p = q /\ ok)
<1>1. PICK x : x = PutAnswer(p, TRUE)
  OBVIOUS
<1>2. \A y : Has(c_down', y) => Has(c_down, y) \/ y = a \/ y = d
  BY DEF PutServed
<1>3. Has(c_down, x) \/ x = a \/ x = d
  BY <1>1, <1>2
<1>4. x # d
  BY <1>1 DEF PutServed, PutAnswer, Data
<1>5. x = a => p = q /\ ok
  BY <1>1 DEF PutServed, PutAnswer
<1> QED
  BY <1>1, <1>3, <1>4, <1>5

(* HandlePut: the put moves from the requests to the answers, and the data *)
(* that has it comes before its answer.                                    *)
LEMMA PutServedKeeps ==
    ASSUME CInv, NEW q \in Nat, NEW l \in Nat, NEW ok \in BOOLEAN, NEW d \in Messages, NEW a \in Messages,
           PutServed(q, l, ok, d, a)
    PROVE  CInv'
<1>0. CTypes /\ c_used \in [puts : Nat, listens : Nat, events : Nat]
  BY DEF CInv, CTypes
<1>1. /\ UNCHANGED <<c_state, c_retry, c_attempt, c_fetches, c_interrupted, c_token, c_listens,
                     c_unacked, c_puts, c_held, c_answers, c_cache>>
      /\ c_used' \in [puts : Nat, listens : Nat, events : Nat] /\ c_used'.puts = c_used.puts
  BY DEF PutServed
<1>2. /\ c_up' \in Seq(Requests)
      /\ \A x : Has(c_up, x) <=> x = C!Put(q) \/ Has(c_up', x)
      /\ \A x, y : Precedes(c_up, x, y) <=> Precedes(c_up', x, y) \/ (x = C!Put(q) /\ Has(c_up', y))
      /\ \A x, y : Outlasts(c_up, x, y) <=>
                      Outlasts(c_up', x, y) \/ (x = C!Put(q) /\ ~Has(c_up', y))
      /\ Times(c_up', C!ListenRequest) = Times(c_up, C!ListenRequest)
  <2>1. c_up # <<>> /\ c_up' = Tail(c_up) /\ Head(c_up) = C!Put(q)
    BY DEF PutServed
  <2>2. /\ c_up' \in Seq(Requests)
        /\ \A x : Has(c_up, x) <=> x = C!Put(q) \/ Has(c_up', x)
        /\ \A x, y : Precedes(c_up, x, y) <=> Precedes(c_up', x, y) \/ (x = C!Put(q) /\ Has(c_up', y))
        /\ \A x, y : Outlasts(c_up, x, y) <=>
                        Outlasts(c_up', x, y) \/ (x = C!Put(q) /\ ~Has(c_up', y))
        /\ \A x : Times(c_up, x) = Times(c_up', x) + (IF x = C!Put(q) THEN 1 ELSE 0)
        /\ \A x : Times(c_up', x) \in Nat
    BY <2>1, HandledOne
  <2>3. C!Put(q) # C!ListenRequest
    BY RequestKinds
  <2> QED
    BY <2>2, <2>3
<1>3. /\ c_down' \in Seq(Messages)
      /\ ~C!connected => c_down' = c_down
      /\ \A x : Has(c_down', x) =>
            Has(c_down, x) \/ (C!connected /\ (x = a \/ (ok /\ c_server.loaded /\ x = d)))
      /\ \A x : Has(c_down, x) \/ (C!connected /\ x = a) => Has(c_down', x)
      /\ \A x, y : Precedes(c_down', x, y) =>
            \/ Precedes(c_down, x, y)
            \/ /\ C!connected
               /\ \/ x = d /\ y = a
                  \/ Has(c_down, x) /\ (y = a \/ y = d)
      /\ \A x, y : Precedes(c_down, x, y) => Precedes(c_down', x, y)
      /\ C!connected /\ ok /\ c_server.loaded => Precedes(c_down', d, a)
      /\ C!connected => Times(c_down', C!ListenRequest) = Times(c_down, C!ListenRequest)
  BY DEF PutServed
<1>4. /\ c_server' \in [history : Seq(Nat), registered : BOOLEAN, loaded : BOOLEAN, asked : Nat,
                        refused : SUBSET Nat]
      /\ c_server'.registered = c_server.registered /\ c_server'.loaded = c_server.loaded
      /\ c_server'.asked = c_server.asked
  BY DEF PutServed
<1>5. /\ ok => /\ c_server'.history = Append(c_server.history, q)
               /\ c_server'.refused = c_server.refused
      /\ ~ok => /\ c_server'.history = c_server.history
                /\ c_server'.refused = c_server.refused \cup {q}
  BY DEF PutServed
<1>6. d = Data(l) /\ a = PutAnswer(q, ok) /\ l = Len(c_server'.history)
  BY DEF PutServed
<1>7. /\ a # C!ListenRequest /\ a # d /\ \A n : a # Data(n)
      /\ \A x, b : a # AuthAnswer(x, b) /\ d # AuthAnswer(x, b)
      /\ \A p, b : d # PutAnswer(p, b)
      /\ \A p, b : a = PutAnswer(p, b) => p = q /\ b = ok
      /\ d # C!ListenRequest /\ \A n : d = Data(n) => n = l
  BY <1>6, MessageKinds
<1>8. q \in c_puts /\ Has(c_up, C!Put(q)) /\ 1 <= q /\ q \in 0..c_used.puts /\ c_used.puts \in Nat
  <2>1. Has(c_up, C!Put(q))
    BY <1>2
  <2>2. q \in c_puts
    BY <2>1 DEF CInv, OnTheWire
  <2>3. c_puts \subseteq 1..c_used.puts /\ c_used.puts \in Nat
    BY <1>0, TypeParts
  <2> QED
    BY <2>1, <2>2, <2>3
<1>9. PICK k \in Nat : k = Len(c_server.history)
  BY <1>0, CacheFacts
<1>10. /\ k <= l
       /\ \A i \in 1..k : c_server'.history[i] = c_server.history[i]
       /\ \A n \in 0..k : \A p : Sees(n, p)' <=> Sees(n, p)
       /\ \A p : Applied(p) => Applied(p)'
       /\ \A p : Known(p) => Known(p)'
       /\ \A i \in 1..l : i \in 1..k \/ (i = k + 1 /\ l = k + 1 /\ c_server'.history[i] = q)
       /\ ok => Applied(q)'
       /\ Known(q)'
       /\ c_cache \in 0..k
  <2>1. \/ c_server'.history = c_server.history
        \/ \E x \in Nat : c_server'.history = Append(c_server.history, x)
    BY <1>5
  <2>2. /\ k <= l
        /\ \A i \in 1..k : c_server'.history[i] = c_server.history[i]
        /\ \A n \in 0..k : \A p : Sees(n, p)' <=> Sees(n, p)
        /\ \A p : Applied(p) => Applied(p)'
    BY <1>0, <1>4, <1>6, <1>9, <2>1, HistoryGrows
  <2>3. c_server.refused \subseteq c_server'.refused
    BY <1>5
  <2>4. \A p : Known(p) => Known(p)'
    BY <2>2, <2>3 DEF Known
  <2>5. PICK h \in Seq(Nat), g \in Seq(Nat) : h = c_server.history /\ g = c_server'.history
    BY <1>0, <1>4 DEF CTypes
  <2>6. ok => l = k + 1 /\ g[k + 1] = q
    BY <1>5, <1>6, <1>9, <2>5, AppendProperties
  <2>7. ~ok => l = k
    BY <1>5, <1>6, <1>9
  <2>8. \A i \in 1..(k + 1) : i \in 1..k \/ i = k + 1
    OBVIOUS
  <2>9. \A i \in 1..l : i \in 1..k \/ (i = k + 1 /\ l = k + 1 /\ c_server'.history[i] = q)
    BY <2>5, <2>6, <2>7, <2>8
  <2>10. ok => Applied(q)'
    <3>1. ok => k + 1 \in 1..l
      BY <2>6
    <3> QED
      BY <1>6, <2>5, <2>6, <3>1 DEF Applied, Sees
  <2>11. Known(q)'
    BY <1>5, <2>10 DEF Known
  <2>12. c_cache \in 0..k
    BY <1>0, <1>9, TypeParts
  <2> QED
    BY <2>2, <2>4, <2>9, <2>10, <2>11, <2>12
<1>11. CTypes'
  <2>1. c_cache' \in 0..Len(c_server'.history)
    BY <1>1, <1>6, <1>10
  <2>2. \A i \in 1..Len(c_server'.history) : c_server'.history[i] \in 0..c_used.puts
    <3>1. \A i \in 1..k : c_server.history[i] \in 0..c_used.puts
      BY <1>0, <1>9, TypeParts
    <3> QED
      BY <1>6, <1>8, <1>10, <3>1
  <2>3. C!ToSet(c_server'.history) \subseteq 0..c_used.puts
    BY <1>4, <2>2, HistoryTyped
  <2> QED
    BY <1>0, <1>1, <1>2, <1>3, <1>4, <2>1, <2>3 DEF CTypes, C!TypeOK
<1>12. Attempting' /\ (C!connected' <=> C!connected)
  BY <1>1, <1>3, SameLink
<1>13. c_state # "authenticating"
  BY <1>8 DEF CInv, OnTheWire
<1>14. Restores'
  BY <1>1, <1>2, <1>3, <1>7, <1>13 DEF CInv, Restores
<1>15. Counted'
  BY <1>1, <1>2, <1>3, <1>4, <1>12 DEF CInv, Counted
<1>16. OnTheWire'
  <2>1. \A p \in Nat : Has(c_up', C!Put(p)) => p \in c_puts'
    BY <1>1, <1>2 DEF CInv, OnTheWire
  <2>2. ASSUME NEW p \in Nat, NEW b \in BOOLEAN, Has(c_down', PutAnswer(p, b)) PROVE p \in c_puts'
    BY <1>1, <1>3, <1>7, <1>8, <2>2 DEF CInv, OnTheWire
  <2>3. ASSUME c_state' = "connected", NEW p \in c_puts'
        PROVE  Has(c_up', C!Put(p)) \/ \E b \in BOOLEAN : Has(c_down', PutAnswer(p, b))
    <3>1. CASE p = q
      <4>1. Has(c_down', a)
        BY <1>1, <1>3, <2>3 DEF C!connected
      <4> QED
        BY <1>6, <3>1, <4>1
    <3>2. CASE p # q
      <4>1. Has(c_up, C!Put(p)) \/ \E b \in BOOLEAN : Has(c_down, PutAnswer(p, b))
        BY <1>1, <2>3 DEF CInv, OnTheWire
      <4>2. Has(c_up, C!Put(p)) => Has(c_up', C!Put(p))
        BY <1>2, <3>2, RequestKinds
      <4> QED
        BY <1>3, <4>1, <4>2
    <3> QED
      BY <3>1, <3>2
  <2> QED
    BY <1>1, <1>13, <2>1, <2>2, <2>3 DEF OnTheWire
<1>17. Rising'
  <2>1. \A p, s \in Nat : Precedes(c_up', C!Put(p), C!Put(s)) => p < s
    BY <1>2 DEF CInv, Rising
  <2>2. ASSUME NEW p \in Nat, NEW s \in Nat, NEW b \in BOOLEAN, NEW c \in BOOLEAN,
               Precedes(c_down', PutAnswer(p, b), PutAnswer(s, c))
        PROVE  p < s
    <3>1. \/ Precedes(c_down, PutAnswer(p, b), PutAnswer(s, c))
          \/ Has(c_down, PutAnswer(p, b)) /\ s = q
      BY <1>3, <1>7, <2>2
    <3> QED
      BY <1>8, <3>1 DEF CInv, Rising
  <2>3. ASSUME NEW p \in Nat, NEW s \in Nat, NEW b \in BOOLEAN,
               Has(c_down', PutAnswer(p, b)), Has(c_up', C!Put(s))
        PROVE  p < s
    <3>1. Has(c_down, PutAnswer(p, b)) \/ p = q
      BY <1>3, <1>7, <2>3
    <3>2. Has(c_up, C!Put(s)) /\ Precedes(c_up, C!Put(q), C!Put(s))
      BY <1>2, <2>3
    <3> QED
      BY <3>1, <3>2 DEF CInv, Rising
  <2> QED
    BY <2>1, <2>2, <2>3 DEF Rising
<1>18. AnswersTrue'
  <2> SUFFICES ASSUME NEW p \in Nat
               PROVE  /\ Has(c_down', PutAnswer(p, TRUE)) => Applied(p)'
                      /\ Has(c_down', PutAnswer(p, FALSE)) => p \in c_server'.refused
    BY DEF AnswersTrue
  <2>1. Has(c_down', PutAnswer(p, TRUE)) => Applied(p)'
    <3>1. Has(c_down', PutAnswer(p, TRUE)) => Has(c_down, PutAnswer(p, TRUE)) \/ (p = q /\ ok)
      BY NewAnswer
    <3> QED
      BY <1>10, <3>1 DEF CInv, AnswersTrue
  <2>2. Has(c_down', PutAnswer(p, FALSE)) => p \in c_server'.refused
    <3>1. Has(c_down', PutAnswer(p, FALSE)) => Has(c_down, PutAnswer(p, FALSE)) \/ (p = q /\ ~ok)
      BY <1>3, <1>7
    <3> QED
      BY <1>5, <3>1 DEF CInv, AnswersTrue
  <2> QED
    BY <2>1, <2>2
<1>19. EarlierKnown'
  <2> SUFFICES ASSUME NEW p \in Nat, NEW s \in Nat, 1 <= p, p < s, Has(c_up', C!Put(s))
               PROVE  Known(p)' \/ Has(c_up', C!Put(p))
    BY DEF EarlierKnown
  <2>1. Known(p) \/ Has(c_up, C!Put(p))
    BY <1>2 DEF CInv, EarlierKnown
  <2>2. Has(c_up, C!Put(p)) => p = q \/ Has(c_up', C!Put(p))
    BY <1>2, RequestKinds
  <2> QED
    BY <1>10, <2>1, <2>2
<1>20. SettledFirst'
  BY <1>1, <1>10 DEF CInv, SettledFirst
<1>21. \A p, b : ToldOrHeld(p, b)' <=> ToldOrHeld(p, b)
  BY <1>1, SameTold
<1>22. ToldSettled'
  BY <1>1, <1>10, <1>21 DEF CInv, ToldSettled
<1>23. ToldOnce'
  BY <1>1 DEF CInv, ToldOnce
<1>24. Observed'
  BY <1>1, <1>2, <1>4, RequestKinds DEF CInv, Observed
<1>25. HeardTold'
  BY <1>1, <1>10 DEF CInv, HeardTold
<1>26. DataNewer' /\ \A p : Applied(p) => Sees(l, p)'
  <2>1. \A n : Has(c_down', Data(n)) => Has(c_down, Data(n)) \/ n = l
    BY <1>3, <1>7
  <2>2. \A x, n : Precedes(c_down', x, Data(n)) =>
                     Precedes(c_down, x, Data(n)) \/ (Has(c_down, x) /\ n = l)
    BY <1>3, <1>7
  <2>3. /\ c_server'.history \in Seq(Nat) /\ l = Len(c_server'.history)
        /\ \/ c_server'.history = c_server.history
           \/ \E x \in Nat : c_server'.history = Append(c_server.history, x)
    BY <1>4, <1>5, <1>6
  <2> QED
    BY <1>1, <2>1, <2>2, <2>3, NewestData
<1>27. HeldSafe'
  <2>1. \A n \in Nat : \A x, p : /\ Precedes(c_down, Data(n), x) /\ Sees(n, p)
                                 => Precedes(c_down', Data(n), x) /\ Sees(n, p)'
    <3>1. \A n \in Nat : Has(c_down, Data(n)) => n \in 0..k
      <4>1. \A n \in Nat : Has(c_down, Data(n)) => n <= Len(c_server.history)
        BY DEF CInv, DataNewer
      <4> QED
        BY <1>9, <4>1
    <3>2. \A n \in Nat : \A x : Precedes(c_down, Data(n), x) => n \in 0..k
      BY <3>1, OrderedHas
    <3> QED
      BY <1>3, <1>10, <3>2
  <2>2. \A p : Sees(c_cache, p) => Sees(c_cache, p)'
    BY <1>1, <1>10
  <2>3. Has(c_up, C!ListenRequest) => Has(c_up', C!ListenRequest)
    BY <1>2, RequestKinds
  <2>4. \A p : Safe(p) => Safe(p)'
    BY <1>1, <1>4, <2>1, <2>2, <2>3 DEF Safe
  <2> SUFFICES ASSUME c_state = "connected", NEW p \in Nat
               PROVE  /\ Has(c_held, C!Answer(p, TRUE)) => Safe(p)'
                      /\ Has(c_down', PutAnswer(p, TRUE)) =>
                            \/ Safe(p)'
                            \/ \E n \in Nat : /\ Precedes(c_down', Data(n), PutAnswer(p, TRUE))
                                              /\ Sees(n, p)'
    BY <1>1 DEF HeldSafe
  <2>5. Has(c_held, C!Answer(p, TRUE)) => Safe(p)'
    BY <2>4 DEF CInv, HeldSafe
  <2>6. CASE Has(c_down, PutAnswer(p, TRUE))
    BY <2>1, <2>4, <2>5, <2>6 DEF CInv, HeldSafe
  <2>7. CASE p = q /\ ok
    <3>1. CASE ~c_listens
      BY <1>1, <2>5, <3>1 DEF Safe
    <3>2. CASE Outlasts(c_up, C!ListenRequest, Unlisten)
      BY <2>3, <2>5, <3>2, OrderedHas DEF Safe
    <3>3. CASE c_server.registered /\ ~c_server.loaded
      <4>1. c_server'.asked > 0
        BY <1>4, <3>3 DEF CInv, Observed
      <4> QED
        BY <2>5, <4>1 DEF Safe
    <3>4. CASE c_server.loaded
      <4>1. Precedes(c_down', Data(l), a)
        BY <1>3, <1>6, <2>7, <3>4 DEF C!connected
      <4>2. a = PutAnswer(p, TRUE)
        BY <1>6, <2>7
      <4>3. Sees(l, p)'
        BY <1>6, <1>10, <2>7 DEF Applied
      <4> QED
        BY <2>5, <4>1, <4>2, <4>3
    <3> QED
      BY <3>1, <3>2, <3>3, <3>4 DEF CInv, Observed
  <2>8. Has(c_down', PutAnswer(p, TRUE)) => Has(c_down, PutAnswer(p, TRUE)) \/ (p = q /\ ok)
    BY NewAnswer
  <2> QED
    BY <2>5, <2>6, <2>7, <2>8
<1>28. C!AppliedInOrder'
  <2> SUFFICES ASSUME NEW i \in 1..l, NEW p \in 1..(c_server'.history[i] - 1)
               PROVE  \/ \E j \in 1..(i - 1) : c_server'.history[j] = p
                      \/ p \in c_server'.refused
    <3>1. DOMAIN c_server'.history = 1..l
      BY <1>4, <1>6, LenProperties
    <3> QED
      BY <3>1 DEF C!AppliedInOrder
  <2>1. c_server.refused \subseteq c_server'.refused
    BY <1>5
  <2>2. CASE i \in 1..k
    <3>1. p \in 1..(c_server.history[i] - 1)
      BY <1>10, <2>2
    <3>2. DOMAIN c_server.history = 1..k
      BY <1>0, <1>9, LenProperties DEF CTypes
    <3>3. \/ \E j \in 1..(i - 1) : c_server.history[j] = p
          \/ p \in c_server.refused
      BY <2>2, <3>1, <3>2 DEF CInv, C!AppliedInOrder
    <3>4. \A j \in 1..(i - 1) : c_server'.history[j] = c_server.history[j]
      BY <1>10, <2>2
    <3> QED
      BY <2>1, <3>3, <3>4
  <2>3. CASE i = k + 1 /\ c_server'.history[i] = q
    <3>1. p \in Nat /\ 1 <= p /\ p < q
      BY <2>3
    <3>2. Known(p)
      <4>1. Known(p) \/ Has(c_up, C!Put(p))
        BY <1>8, <3>1 DEF CInv, EarlierKnown
      <4>2. ~Has(c_up, C!Put(p))
        <5>1. C!Put(p) # C!Put(q)
          BY <3>1, RequestKinds
        <5>2. Has(c_up, C!Put(p)) => Precedes(c_up, C!Put(q), C!Put(p))
          BY <1>2, <5>1
        <5> QED
          BY <3>1, <5>2 DEF CInv, Rising
      <4> QED
        BY <4>1, <4>2
    <3>3. CASE p \in c_server.refused
      BY <2>1, <3>3
    <3>4. CASE Applied(p)
      <4>1. PICK j \in 1..k : c_server.history[j] = p
        BY <1>9, <3>4 DEF Applied, Sees
      <4>2. j \in 1..(i - 1) /\ c_server'.history[j] = p
        BY <1>10, <2>3, <4>1
      <4> QED
        BY <4>2
    <3> QED
      BY <3>2, <3>3, <3>4 DEF Known
  <2> QED
    BY <1>10, <2>2, <2>3
<1> QED
  BY <1>11, <1>12, <1>14, <1>15, <1>16, <1>17, <1>18, <1>19, <1>20, <1>22, <1>23, <1>24, <1>25, <1>26,
     <1>27, <1>28 DEF CInv

-----------------------------------------------------------------------------
(* Messages of the server.                                                 *)

(* Nothing is received before the answer to restoreAuth.                   *)
LEMMA RestoreAnsweredFirst ==
    ASSUME CInv, c_down # <<>>, c_down' = Tail(c_down)
    PROVE  /\ C!connected
           /\ c_state = "authenticating" =>
                 \E ok \in BOOLEAN : Head(c_down) = AuthAnswer(TRUE, ok) /\ RestoreAnswered
           /\ c_state = "connected" => \A ok \in BOOLEAN : Head(c_down) # AuthAnswer(TRUE, ok)
<1>1. C!connected
  BY DEF CInv, Attempting
<1>2. ASSUME c_state = "authenticating"
      PROVE  \E ok \in BOOLEAN : Head(c_down) = AuthAnswer(TRUE, ok) /\ RestoreAnswered
  <2>1. RestoreAnswered
    BY <1>2 DEF CInv, Restores, RestoreAsked
  <2>2. PICK ok \in BOOLEAN : First(c_down, AuthAnswer(TRUE, ok))
    BY <2>1 DEF RestoreAnswered
  <2>3. PICK x : x = AuthAnswer(TRUE, ok)
    OBVIOUS
  <2>4. Has(c_down, x) /\ \A y : ~Precedes(c_down, y, x)
    BY <2>2, <2>3 DEF First
  <2>5. Head(c_down) = x
    BY <2>4, ReceivedOne
  <2> QED
    BY <2>1, <2>3, <2>5
<1>3. ASSUME c_state = "connected", NEW ok \in BOOLEAN PROVE Head(c_down) # AuthAnswer(TRUE, ok)
  <2>1. Has(c_down, Head(c_down))
    BY ReceivedOne
  <2> QED
    BY <1>3, <2>1 DEF CInv, Restores
<1> QED
  BY <1>1, <1>2, <1>3

(* What holds of the server and of what is sent to it holds on.            *)
LEMMA ReceivingKeeps ==
    ASSUME CInv, c_down # <<>>, c_down' = Tail(c_down),
           UNCHANGED <<c_retry, c_attempt, c_fetches, c_interrupted, c_token, c_listens, c_server, c_used>>,
           c_state' = "connected", c_unacked' \in Nat,
           c_up' \in Seq(Requests), c_answers' \in Seq(Told), c_held' \in Seq(Told),
           c_cache' \in 0..Len(c_server.history), c_puts' \subseteq c_puts,
           Restores', Counted', OnTheWire', Rising', EarlierKnown', SettledFirst',
           ToldSettled', ToldOnce', Observed', DataNewer', HeldSafe', HeardTold'
    PROVE  CInv'
<1>1. CTypes /\ C!connected
  BY RestoreAnsweredFirst DEF CInv
<1>2. c_down' \in Seq(Messages)
  BY ReceivedOne
<1>3. CTypes'
  <2>1. c_puts' \subseteq 1..c_used.puts /\ C!ToSet(c_server.history) \subseteq 0..c_used.puts
    BY <1>1 DEF CTypes, C!TypeOK
  <2> QED
    BY <1>1, <1>2, <2>1 DEF CTypes, C!TypeOK
<1>4. Attempting'
  <2>1. c_state \in {"authenticating", "connected"}
    BY <1>1 DEF C!connected
  <2> QED
    BY <2>1 DEF CInv, Attempting, C!connected
<1>5. AnswersTrue' /\ C!AppliedInOrder'
  <2>1. \A x : Has(c_down', x) => Has(c_down, x)
    BY ReceivedOne
  <2> QED
    BY <2>1, SameServer DEF CInv, AnswersTrue
<1> QED
  BY <1>3, <1>4, <1>5 DEF CInv

(* DataUpdate: what is heard has all that callers were told of.            *)
LEMMA DataUpdateKeeps ==
    ASSUME CInv, C!DataUpdate
    PROVE  CInv'
<1>0. CTypes
  BY DEF CInv
<1>1. /\ c_down # <<>> /\ Head(c_down).type = "data" /\ c_down' = Tail(c_down)
      /\ c_cache' = (IF c_listens THEN Head(c_down).at ELSE c_cache)
      /\ UNCHANGED <<c_state, c_retry, c_attempt, c_fetches, c_interrupted, c_token, c_listens, c_unacked,
                     c_puts, c_held, c_answers, c_up, c_server, c_used>>
  BY DEF C!DataUpdate, C!Received, C!Message, C!link
<1>2. PICK n \in Nat, d \in Messages : d = Data(n) /\ Head(c_down) = d /\ Head(c_down).at = n
  BY <1>1, ReceivedOne, MessageKinds
<1>3. /\ \A x : Has(c_down, x) <=> x = d \/ Has(c_down', x)
      /\ \A x, y : Precedes(c_down, x, y) <=> Precedes(c_down', x, y) \/ (x = d /\ Has(c_down', y))
      /\ \A x : Times(c_down, x) = Times(c_down', x) + (IF x = d THEN 1 ELSE 0)
      /\ \A x : Times(c_down', x) \in Nat
  BY <1>1, <1>2, ReceivedOne
<1>4. d # C!ListenRequest /\ (\A p, b : d # PutAnswer(p, b)) /\ (\A r, b : d # AuthAnswer(r, b))
  BY <1>2, MessageKinds
<1>5. c_state = "connected" /\ C!connected
  <2>1. c_state # "authenticating"
    BY <1>1, <1>2, <1>4, RestoreAnsweredFirst
  <2> QED
    BY <1>1, <2>1, RestoreAnsweredFirst DEF C!connected
<1>6. Restores'
  BY <1>1, <1>3, <1>5 DEF CInv, Restores
<1>7. Counted'
  <2>1. Times(c_down', C!ListenRequest) = Times(c_down, C!ListenRequest)
    BY <1>3, <1>4
  <2> QED
    BY <1>1, <2>1 DEF CInv, Counted, C!connected
<1>8. OnTheWire'
  <2>1. \A p, b : Has(c_down', PutAnswer(p, b)) <=> Has(c_down, PutAnswer(p, b))
    BY <1>3, <1>4
  <2> QED
    BY <1>1, <2>1 DEF CInv, OnTheWire
<1>9. Rising'
  BY <1>1, <1>3 DEF CInv, Rising
<1>10. /\ \A m, p : Sees(m, p)' <=> Sees(m, p)
       /\ \A p : (Applied(p)' <=> Applied(p)) /\ (Known(p)' <=> Known(p))
       /\ \A p, b : ToldOrHeld(p, b)' <=> ToldOrHeld(p, b)
  BY <1>1, SameServer, SameTold
<1>11. EarlierKnown' /\ SettledFirst'
  BY <1>1, <1>10 DEF CInv, EarlierKnown, SettledFirst
<1>12. ToldSettled' /\ ToldOnce'
  BY <1>1, <1>10 DEF CInv, ToldSettled, ToldOnce
<1>13. Observed'
  <2>1. c_cache' # 0 => c_listens
    BY <1>1 DEF CInv, Observed
  <2> QED
    BY <1>1, <2>1 DEF CInv, Observed
<1>14. /\ c_cache <= n /\ n <= Len(c_server.history)
       /\ \A p \in Nat : ToldOrHeld(p, TRUE) => Sees(n, p)
  BY <1>2, <1>3 DEF CInv, DataNewer
<1>15. c_cache' \in 0..Len(c_server.history) /\ c_cache \in Nat
  <2>1. c_cache \in 0..Len(c_server.history)
    BY <1>0, TypeParts
  <2> QED
    BY <1>1, <1>2, <1>14, <2>1
<1>16. DataNewer'
  <2>1. ASSUME NEW m \in Nat, Has(c_down', Data(m))
        PROVE  c_cache' <= m
    <3>1. Has(c_down, Data(m)) /\ Precedes(c_down, Data(n), Data(m))
      BY <1>2, <1>3, <2>1
    <3> QED
      BY <1>1, <1>2, <3>1 DEF CInv, DataNewer
  <2> QED
    BY <1>1, <1>3, <1>10, <2>1 DEF CInv, DataNewer
<1>17. HeldSafe'
  <2>1. ASSUME NEW m \in Nat, NEW x, NEW p, Precedes(c_down, Data(m), x), Sees(m, p), c_listens
        PROVE  Precedes(c_down', Data(m), x) \/ Sees(c_cache', p)
    BY <1>1, <1>2, <1>3, <2>1, MessageKinds
  <2>2. ASSUME NEW p, Sees(c_cache, p), c_listens PROVE Sees(c_cache', p)
    BY <1>1, <1>2, <1>14, <1>15, <2>2 DEF Sees
  <2>3. \A p : Safe(p) => Safe(p)'
    BY <1>1, <1>10, <2>1, <2>2 DEF Safe
  <2>4. ASSUME NEW p \in Nat, Has(c_down', PutAnswer(p, TRUE))
        PROVE  \/ Safe(p)'
               \/ \E m \in Nat : Precedes(c_down', Data(m), PutAnswer(p, TRUE)) /\ Sees(m, p)
    <3>1. Has(c_down, PutAnswer(p, TRUE))
      BY <1>3, <2>4
    <3>2. CASE ~c_listens
      BY <1>1, <3>2 DEF Safe
    <3>3. CASE Safe(p)
      BY <2>3, <3>3
    <3>4. ASSUME c_listens, NEW m \in Nat, Precedes(c_down, Data(m), PutAnswer(p, TRUE)), Sees(m, p)
          PROVE  \/ Safe(p)'
                 \/ Precedes(c_down', Data(m), PutAnswer(p, TRUE))
      <4>1. Precedes(c_down', Data(m), PutAnswer(p, TRUE)) \/ Sees(c_cache', p)
        BY <2>1, <3>4
      <4> QED
        BY <1>10, <4>1 DEF Safe
    <3> QED
      BY <1>5, <3>1, <3>2, <3>3, <3>4 DEF CInv, HeldSafe
  <2> QED
    BY <1>1, <1>5, <1>10, <2>3, <2>4 DEF CInv, HeldSafe
<1>18. HeardTold'
  <2>1. \A p \in Nat : Has(c_answers, C!Answer(p, TRUE)) => Sees(n, p)
    BY <1>14 DEF ToldOrHeld
  <2>2. CASE c_listens
    BY <1>1, <1>2, <1>10, <2>1, <2>2 DEF HeardTold
  <2>3. CASE ~c_listens
    BY <1>1, <1>10, <2>3 DEF CInv, HeardTold
  <2> QED
    BY <2>2, <2>3
<1>19. /\ c_up' \in Seq(Requests) /\ c_answers' \in Seq(Told) /\ c_held' \in Seq(Told)
       /\ c_unacked' \in Nat
  BY <1>0, <1>1, TypeParts
<1> QED
  BY <1>1, <1>5, <1>6, <1>7, <1>8, <1>9, <1>11, <1>12, <1>13, <1>15, <1>16, <1>17, <1>18, <1>19,
     ReceivingKeeps

(* All listens are answered.                                               *)
LEMMA NoListenDue ==
    ASSUME CInv, C!connected, c_unacked = 0
    PROVE  /\ ~Has(c_up, C!ListenRequest) /\ c_server.asked = 0
           /\ \A x : ~Precedes(c_down, x, C!ListenRequest)
<1>1. c_up \in Seq(Requests) /\ c_down \in Seq(Messages) /\ c_server.asked \in Nat
  BY DEF CInv, CTypes
<1>2. PICK u \in Nat, d \in Nat, k \in Nat :
         /\ u = Times(c_up, C!ListenRequest) /\ d = Times(c_down, C!ListenRequest)
         /\ k = c_server.asked
  BY <1>1, TimesType
<1>3. 0 = u + k + d
  BY <1>2 DEF CInv, Counted
<1>4. u = 0 /\ d = 0 /\ k = 0
  BY <1>3
<1>5. ~Has(c_up, C!ListenRequest) /\ ~Has(c_down, C!ListenRequest)
  BY <1>1, <1>2, <1>4, TimesType
<1> QED
  BY <1>2, <1>4, <1>5, OrderedHas

(* One more caller is told, or will be.                                    *)
LEMMA ToldMore ==
    ASSUME NEW s \in Seq(Told), NEW a \in Told
    PROVE  /\ Append(s, a) \in Seq(Told)
           /\ \A x : Has(Append(s, a), x) <=> x = a \/ Has(s, x)
           /\ \A x, y : Precedes(Append(s, a), x, y) <=> Precedes(s, x, y) \/ (Has(s, x) /\ y = a)
  BY Appended

(* PutAnswered: with no listen on its way the caller may be told, because  *)
(* data with the write was heard before.                                   *)
LEMMA PutAnsweredKeeps ==
    ASSUME CInv, C!PutAnswered
    PROVE  CInv'
<1>0. CTypes
  BY DEF CInv
<1>1. /\ c_down # <<>> /\ Head(c_down).type = "put" /\ c_down' = Tail(c_down)
      /\ c_puts' = c_puts \ {Head(c_down).put}
      /\ UNCHANGED <<c_state, c_retry, c_attempt, c_fetches, c_interrupted, c_token, c_listens, c_unacked,
                     c_cache, c_up, c_server, c_used>>
  BY DEF C!PutAnswered, C!Received, C!Message, C!link
<1>2. PICK q \in Nat, ok \in BOOLEAN, d \in Messages :
         d = PutAnswer(q, ok) /\ Head(c_down) = d /\ Head(c_down).put = q /\ Head(c_down).ok = ok
  BY <1>1, ReceivedOne, MessageKinds
<1>3. /\ \A x : Has(c_down, x) <=> x = d \/ Has(c_down', x)
      /\ \A x, y : Precedes(c_down, x, y) <=> Precedes(c_down', x, y) \/ (x = d /\ Has(c_down', y))
      /\ \A x : Times(c_down, x) = Times(c_down', x) + (IF x = d THEN 1 ELSE 0)
      /\ \A x : Times(c_down', x) \in Nat
  BY <1>1, <1>2, ReceivedOne
<1>4. d # C!ListenRequest /\ (\A n : d # Data(n)) /\ (\A r, b : d # AuthAnswer(r, b))
  BY <1>2, MessageKinds
<1>5. c_state = "connected" /\ C!connected
  <2>1. c_state # "authenticating"
    BY <1>1, <1>2, <1>4, RestoreAnsweredFirst
  <2> QED
    BY <1>1, <2>1, RestoreAnsweredFirst DEF C!connected
<1>6. /\ q \in c_puts /\ q \in 1..c_used.puts /\ Known(q)
      /\ Has(c_down, PutAnswer(q, ok))
      /\ ok => Applied(q) /\ Has(c_down, PutAnswer(q, TRUE))
      /\ ~Has(c_up, C!Put(q))
      /\ \A b \in BOOLEAN : ~Has(c_down', PutAnswer(q, b))
  <2>1. Has(c_down, PutAnswer(q, ok))
    BY <1>2, <1>3
  <2>2. q \in c_puts
    BY <2>1 DEF CInv, OnTheWire
  <2>3. q \in 1..c_used.puts
    BY <1>0, <2>2, TypeParts
  <2>6. Known(q) /\ (ok => Applied(q) /\ Has(c_down, PutAnswer(q, TRUE)))
    <3>1. ok = TRUE => Applied(q) /\ Has(c_down, PutAnswer(q, TRUE))
      BY <2>1 DEF CInv, AnswersTrue
    <3>2. ok = FALSE => Known(q)
      BY <2>1 DEF CInv, AnswersTrue, Known
    <3> QED
      BY <3>1, <3>2 DEF Known
  <2>7. ~Has(c_up, C!Put(q))
    <3>1. ~(q < q)
      OBVIOUS
    <3> QED
      BY <2>1, <3>1 DEF CInv, Rising
  <2>8. ASSUME NEW b \in BOOLEAN, Has(c_down', PutAnswer(q, b)) PROVE FALSE
    <3>1. Precedes(c_down, PutAnswer(q, ok), PutAnswer(q, b))
      BY <1>2, <1>3, <2>8
    <3>2. q < q
      BY <3>1 DEF CInv, Rising
    <3> QED
      BY <3>2
  <2> QED
    BY <2>1, <2>2, <2>3, <2>6, <2>7, <2>8
<1>7. PICK a \in Told : a = C!Answer(q, ok) /\ \A p, b : C!Answer(p, b) = a => p = q /\ b = ok
  <2>1. C!Answer(q, ok) \in Told
    BY DEF Told, C!Answer
  <2>2. \A p, b : C!Answer(p, b) = C!Answer(q, ok) => p = q /\ b = ok
    BY DEF C!Answer
  <2> QED
    BY <2>1, <2>2
<1>8. \/ c_unacked = 0 /\ c_answers' = Append(c_answers, a) /\ c_held' = c_held
      \/ c_unacked # 0 /\ c_held' = Append(c_held, a) /\ c_answers' = c_answers
  BY <1>2, <1>6, <1>7 DEF C!PutAnswered, C!Message
<1>9. /\ c_answers' \in Seq(Told) /\ c_held' \in Seq(Told)
      /\ \A p, b : ToldOrHeld(p, b)' <=> ToldOrHeld(p, b) \/ C!Answer(p, b) = a
      /\ \A x : Has(c_held', x) => Has(c_held, x) \/ (c_unacked # 0 /\ x = a)
      /\ \A x : Has(c_answers', x) => Has(c_answers, x) \/ (c_unacked = 0 /\ x = a)
      /\ \A x, y : Precedes(c_answers', x, y) =>
                      Precedes(c_answers, x, y) \/ (Has(c_answers, x) /\ y = a)
      /\ \A x, y : Precedes(c_held', x, y) => Precedes(c_held, x, y) \/ (Has(c_held, x) /\ y = a)
      /\ \A x, y : Has(c_answers', x) /\ Has(c_held', y) =>
                      \/ Has(c_answers, x) /\ Has(c_held, y)
                      \/ x = a /\ Has(c_held, y)
                      \/ Has(c_answers, x) /\ y = a
  <2>1. PICK s \in Seq(Told), t \in Seq(Told) : s = c_answers /\ t = c_held
    BY <1>0, TypeParts
  <2>2. /\ Append(s, a) \in Seq(Told)
        /\ \A x : Has(Append(s, a), x) <=> x = a \/ Has(s, x)
        /\ \A x, y : Precedes(Append(s, a), x, y) <=> Precedes(s, x, y) \/ (Has(s, x) /\ y = a)
    BY ToldMore
  <2>3. /\ Append(t, a) \in Seq(Told)
        /\ \A x : Has(Append(t, a), x) <=> x = a \/ Has(t, x)
        /\ \A x, y : Precedes(Append(t, a), x, y) <=> Precedes(t, x, y) \/ (Has(t, x) /\ y = a)
    BY ToldMore
  <2>4. CASE c_unacked = 0 /\ c_answers' = Append(c_answers, a) /\ c_held' = c_held
    BY <2>1, <2>2, <2>4 DEF ToldOrHeld
  <2>5. CASE c_unacked # 0 /\ c_held' = Append(c_held, a) /\ c_answers' = c_answers
    BY <2>1, <2>3, <2>5 DEF ToldOrHeld
  <2> QED
    BY <1>8, <2>4, <2>5
<1>10. Restores'
  BY <1>1, <1>3, <1>5 DEF CInv, Restores
<1>11. Counted'
  <2>1. Times(c_down', C!ListenRequest) = Times(c_down, C!ListenRequest)
    BY <1>3, <1>4
  <2> QED
    BY <1>1, <2>1 DEF CInv, Counted, C!connected
<1>12. OnTheWire'
  <2>1. \A p \in Nat : Has(c_up', C!Put(p)) => p \in c_puts'
    BY <1>1, <1>2, <1>6 DEF CInv, OnTheWire
  <2>2. \A p \in Nat, b \in BOOLEAN : Has(c_down', PutAnswer(p, b)) => p \in c_puts'
    BY <1>1, <1>2, <1>3, <1>6 DEF CInv, OnTheWire
  <2>3. ASSUME NEW p \in c_puts'
        PROVE  Has(c_up', C!Put(p)) \/ \E b \in BOOLEAN : Has(c_down', PutAnswer(p, b))
    <3>1. p \in c_puts /\ p # q
      BY <1>1, <1>2
    <3>2. Has(c_up, C!Put(p)) \/ \E b \in BOOLEAN : Has(c_down, PutAnswer(p, b))
      BY <1>5, <3>1 DEF CInv, OnTheWire
    <3>3. \A b : PutAnswer(p, b) # d
      BY <1>2, <3>1, MessageKinds
    <3> QED
      BY <1>1, <1>3, <3>2, <3>3
  <2> QED
    BY <1>1, <1>5, <2>1, <2>2, <2>3 DEF OnTheWire
<1>13. Rising'
  BY <1>1, <1>3 DEF CInv, Rising
<1>14. /\ \A m, p : Sees(m, p)' <=> Sees(m, p)
       /\ \A p : (Applied(p)' <=> Applied(p)) /\ (Known(p)' <=> Known(p))
  BY <1>1, SameServer
<1>15. EarlierKnown'
  BY <1>1, <1>14 DEF CInv, EarlierKnown
<1>16. SettledFirst'
  <2> SUFFICES ASSUME NEW p \in 1..c_used.puts, p \notin c_puts'
               PROVE  Known(p) /\ \A s \in c_puts' : p < s
    BY <1>1, <1>14 DEF SettledFirst
  <2>1. CASE p \notin c_puts
    BY <1>1, <2>1 DEF CInv, SettledFirst
  <2>2. CASE p = q
    <3>1. ASSUME NEW s \in c_puts' PROVE q < s
      <4>1. s \in c_puts /\ s \in Nat
        BY <1>0, <1>1, TypeParts
      <4>2. CASE Has(c_up, C!Put(s))
        BY <1>6, <4>1, <4>2 DEF CInv, Rising
      <4>3. ASSUME NEW b \in BOOLEAN, Has(c_down', PutAnswer(s, b)) PROVE q < s
        <5>1. Precedes(c_down, PutAnswer(q, ok), PutAnswer(s, b))
          BY <1>2, <1>3, <4>3
        <5> QED
          BY <4>1, <5>1 DEF CInv, Rising
      <4>4. Has(c_up', C!Put(s)) \/ \E b \in BOOLEAN : Has(c_down', PutAnswer(s, b))
        BY <1>1, <1>5, <1>12 DEF OnTheWire
      <4> QED
        BY <1>1, <4>2, <4>3, <4>4
    <3> QED
      BY <1>6, <2>2, <3>1
  <2> QED
    BY <1>1, <1>2, <2>1, <2>2
<1>17. \A p \in Nat, b \in BOOLEAN : ToldOrHeld(p, b) => p # q
  BY <1>6 DEF CInv, ToldSettled
<1>18. \A p, b : ToldOrHeld(p, b)' => ToldOrHeld(p, b) \/ (p = q /\ b = ok)
  BY <1>7, <1>9
<1>19. ToldOrHeld(q, ok)' /\ \A p, b : ToldOrHeld(p, b) => ToldOrHeld(p, b)'
  BY <1>7, <1>9
<1>20. ToldSettled'
  <2>1. \A p \in Nat, b \in BOOLEAN : ToldOrHeld(p, b)' => p \in 1..c_used.puts /\ p \notin c_puts'
    BY <1>1, <1>2, <1>6, <1>18 DEF CInv, ToldSettled
  <2>2. \A p \in 1..c_used.puts : p \notin c_puts' => \E b \in BOOLEAN : ToldOrHeld(p, b)'
    BY <1>1, <1>2, <1>19 DEF CInv, ToldSettled
  <2>3. ASSUME NEW p \in Nat, ToldOrHeld(p, TRUE)' PROVE Applied(p)
    <3>1. ToldOrHeld(p, TRUE) \/ (p = q /\ ok)
      <4>1. ToldOrHeld(p, TRUE) \/ C!Answer(p, TRUE) = a
        BY <1>9, <2>3
      <4> QED
        BY <1>7, <4>1 DEF C!Answer
    <3> QED
      BY <1>6, <3>1 DEF CInv, ToldSettled
  <2> QED
    BY <1>1, <1>14, <2>1, <2>2, <2>3 DEF ToldSettled
<1>21. ToldOnce'
  <2> SUFFICES ASSUME NEW p \in Nat, NEW b \in BOOLEAN, NEW c \in BOOLEAN
               PROVE  /\ ~Precedes(c_answers', C!Answer(p, b), C!Answer(p, c))
                      /\ ~Precedes(c_held', C!Answer(p, b), C!Answer(p, c))
                      /\ ~(Has(c_answers', C!Answer(p, b)) /\ Has(c_held', C!Answer(p, c)))
    BY DEF ToldOnce
  <2>1. /\ C!Answer(p, c) = a => ~Has(c_answers, C!Answer(p, b)) /\ ~Has(c_held, C!Answer(p, b))
        /\ C!Answer(p, b) = a => ~Has(c_held, C!Answer(p, c))
    BY <1>7, <1>17 DEF ToldOrHeld
  <2>2. /\ ~Precedes(c_answers, C!Answer(p, b), C!Answer(p, c))
        /\ ~Precedes(c_held, C!Answer(p, b), C!Answer(p, c))
        /\ ~(Has(c_answers, C!Answer(p, b)) /\ Has(c_held, C!Answer(p, c)))
    BY DEF CInv, ToldOnce
  <2> QED
    BY <1>9, <2>1, <2>2
<1>22. Observed'
  BY <1>1 DEF CInv, Observed
<1>23. DataNewer'
  <2>1. ASSUME NEW n \in Nat, Has(c_down', Data(n)), NEW p \in Nat, ToldOrHeld(p, TRUE)'
        PROVE  Sees(n, p)
    <3>1. CASE ToldOrHeld(p, TRUE)
      BY <1>3, <2>1, <3>1 DEF CInv, DataNewer
    <3>2. CASE p = q /\ ok
      <4>1. Precedes(c_down, d, Data(n))
        BY <1>3, <2>1
      <4>2. d = PutAnswer(p, TRUE)
        BY <1>2, <3>2
      <4>3. Precedes(c_down, PutAnswer(p, TRUE), Data(n))
        BY <4>1, <4>2
      <4> QED
        BY <4>3 DEF CInv, DataNewer
    <3>3. ToldOrHeld(p, TRUE) \/ C!Answer(p, TRUE) = a
      BY <1>9, <2>1
    <3>4. C!Answer(p, TRUE) = a => p = q /\ ok
      BY <1>7 DEF C!Answer
    <3> QED
      BY <3>1, <3>2, <3>3, <3>4
  <2>2. \A n \in Nat : Has(c_down', Data(n)) => c_cache <= n /\ n <= Len(c_server.history)
    BY <1>3 DEF CInv, DataNewer
  <2>3. \A m, n \in Nat : Precedes(c_down', Data(m), Data(n)) => m <= n
    BY <1>3 DEF CInv, DataNewer
  <2>4. \A p, n \in Nat : Precedes(c_down', PutAnswer(p, TRUE), Data(n)) => Sees(n, p)
    BY <1>3 DEF CInv, DataNewer
  <2> QED
    BY <1>1, <1>14, <2>1, <2>2, <2>3, <2>4 DEF DataNewer
<1>24. \A n, x : Precedes(c_down, Data(n), x) => Precedes(c_down', Data(n), x)
  BY <1>3, <1>4
<1>25. \A p : Safe(p) => Safe(p)'
  BY <1>1, <1>14, <1>24 DEF Safe
<1>26. ok => Safe(q)
  <2>1. \A n : ~Precedes(c_down, Data(n), d)
    <3>1. ~Has(c_down', d)
      BY <1>2, <1>6
    <3> QED
      BY <1>24, <3>1, OrderedHas
  <2>2. ok => d = PutAnswer(q, TRUE)
    BY <1>2
  <2>3. ok => Safe(q) \/ \E n \in Nat : Precedes(c_down, Data(n), PutAnswer(q, TRUE)) /\ Sees(n, q)
    BY <1>5, <1>6 DEF CInv, HeldSafe
  <2> QED
    BY <2>1, <2>2, <2>3
<1>27. HeldSafe'
  <2>1. ASSUME NEW p \in Nat, Has(c_held', C!Answer(p, TRUE)) PROVE Safe(p)
    <3>1. CASE Has(c_held, C!Answer(p, TRUE))
      BY <1>5, <3>1 DEF CInv, HeldSafe
    <3>2. CASE C!Answer(p, TRUE) = a
      <4>1. p = q /\ ok
        BY <1>7, <3>2 DEF C!Answer
      <4> QED
        BY <1>26, <4>1
    <3> QED
      BY <1>9, <2>1, <3>1, <3>2
  <2>2. ASSUME NEW p \in Nat, Has(c_down', PutAnswer(p, TRUE))
        PROVE  \/ Safe(p)
               \/ \E n \in Nat : Precedes(c_down', Data(n), PutAnswer(p, TRUE)) /\ Sees(n, p)
    BY <1>3, <1>5, <1>24, <2>2 DEF CInv, HeldSafe
  <2> QED
    BY <1>14, <1>25, <2>1, <2>2 DEF HeldSafe
<1>28. HeardTold'
  <2> SUFFICES ASSUME c_cache # 0, NEW p \in Nat, Has(c_answers', C!Answer(p, TRUE))
               PROVE  Sees(c_cache, p)
    BY <1>1, <1>14 DEF HeardTold
  <2>1. CASE Has(c_answers, C!Answer(p, TRUE))
    BY <2>1 DEF CInv, HeardTold
  <2>2. CASE c_unacked = 0 /\ C!Answer(p, TRUE) = a
    <3>1. p = q /\ ok
      BY <1>7, <2>2 DEF C!Answer
    <3>2. Safe(p)
      BY <1>26, <3>1
    <3>3. c_listens
      BY DEF CInv, Observed
    <3>4. /\ ~Has(c_up, C!ListenRequest) /\ c_server.asked = 0
          /\ \A x : ~Precedes(c_down, x, C!ListenRequest)
      BY <1>5, <2>2, NoListenDue
    <3>5. ~(c_server.asked > 0)
      BY <3>4
    <3> QED
      BY <3>2, <3>3, <3>4, <3>5 DEF Safe
  <2> QED
    BY <1>9, <2>1, <2>2
<1>29. c_up' \in Seq(Requests) /\ c_unacked' \in Nat /\ c_cache' \in 0..Len(c_server.history)
       /\ c_puts' \subseteq c_puts /\ c_state' = "connected"
  BY <1>0, <1>1, <1>5, TypeParts
<1> QED
  BY <1>1, <1>9, <1>10, <1>11, <1>12, <1>13, <1>15, <1>16, <1>20, <1>21, <1>22, <1>23, <1>27, <1>28, <1>29,
     ReceivingKeeps

(* What is sent again: the outstanding puts, in the order of their numbers.*)
LEMMA PutsInOrder ==
    ASSUME CInv
    PROVE  /\ C!Puts \in Seq(Requests)
           /\ \A x : Has(C!Puts, x) <=> \E p \in c_puts : x = C!Put(p)
           /\ \A p, q \in Nat : Precedes(C!Puts, C!Put(p), C!Put(q)) => p < q
<1>1. PICK n \in Nat : n = c_used.puts /\ c_puts \subseteq 1..n
  BY TypeParts DEF CInv
<1>2. PICK wanted \in Seq(Requests) : wanted = [p \in 1..n |-> C!Put(p)]
  <2>1. \A p \in 1..n : C!Put(p) \in Requests
    BY RequestKinds
  <2>2. [p \in 1..n |-> C!Put(p)] \in [1..n -> Requests]
    BY <2>1
  <2>3. PICK f \in [1..n -> Requests] : f = [p \in 1..n |-> C!Put(p)]
    BY <2>2
  <2>4. f \in Seq(Requests)
    BY ONLY n \in Nat, f \in [1..n -> Requests], SeqDef
  <2> QED
    BY <2>3, <2>4
<1>3. Len(wanted) = n /\ \A p \in 1..n : wanted[p] = C!Put(p)
  BY <1>1, <1>2, LenProperties
<1>4. PICK taken : taken = {C!Put(p) : p \in c_puts}
  OBVIOUS
<1>5. PICK u : u = Sifted(wanted, taken)
  OBVIOUS
<1>6. C!Puts = u
  BY <1>1, <1>2, <1>4, <1>5, SameWordsC DEF C!Puts
<1>7. u \in Seq(Requests)
  BY <1>5, SiftedPlaces
<1>8. PICK at : TakenAt(wanted, taken, u, at)
  BY <1>5, SiftedPlaces
<1>9. /\ \A k \in 1..Len(u) : at[k] \in 1..n /\ u[k] = C!Put(at[k]) /\ u[k] \in taken
      /\ \A k, m \in 1..Len(u) : k < m => at[k] < at[m]
      /\ \A p \in 1..n : C!Put(p) \in taken => \E k \in 1..Len(u) : at[k] = p
  BY <1>3, <1>8 DEF TakenAt
<1>10. ASSUME NEW x PROVE Has(u, x) <=> \E p \in c_puts : x = C!Put(p)
  <2>1. ASSUME Has(u, x) PROVE \E p \in c_puts : x = C!Put(p)
    BY <1>4, <1>9, <2>1 DEF Has
  <2>2. ASSUME NEW p \in c_puts, x = C!Put(p) PROVE Has(u, x)
    <3>1. p \in 1..n /\ C!Put(p) \in taken
      BY <1>1, <1>4
    <3>2. PICK k \in 1..Len(u) : at[k] = p
      BY <1>9, <3>1
    <3>3. u[k] = x
      BY <1>9, <2>2, <3>2
    <3> QED
      BY <3>3 DEF Has
  <2> QED
    BY <2>1, <2>2
<1>11. ASSUME NEW p \in Nat, NEW q \in Nat, Precedes(u, C!Put(p), C!Put(q)) PROVE p < q
  <2>1. PICK k \in 1..Len(u), m \in 1..Len(u) : k < m /\ u[k] = C!Put(p) /\ u[m] = C!Put(q)
    BY <1>11 DEF Precedes
  <2>2. at[k] = p /\ at[m] = q
    BY <1>9, <2>1, RequestKinds
  <2> QED
    BY <1>9, <2>1, <2>2
<1> QED
  BY <1>6, <1>7, <1>10, <1>11

(* Behind what is sent already, the listen and the puts.                   *)
LEMMA RestoredRequests ==
    ASSUME CInv, NEW s \in Seq(Requests), C!restoreState(s)
    PROVE  /\ c_up' \in Seq(Requests)
           /\ \A x : Has(c_up', x) <=> \/ Has(s, x) \/ (c_listens /\ x = C!ListenRequest)
                                       \/ \E p \in c_puts : x = C!Put(p)
           /\ \A p, q \in Nat : Precedes(c_up', C!Put(p), C!Put(q)) =>
                                   Has(s, C!Put(p)) \/ p < q
           /\ c_listens => Outlasts(c_up', C!ListenRequest, Unlisten)
           /\ Times(s, C!ListenRequest) \in Nat
           /\ \/ ~c_listens /\ c_unacked' = c_unacked
                 /\ Times(c_up', C!ListenRequest) = Times(s, C!ListenRequest)
              \/ c_listens /\ c_unacked' = c_unacked + 1
                 /\ Times(c_up', C!ListenRequest) = Times(s, C!ListenRequest) + 1
<1>1. PICK u \in Seq(Requests) : u = C!Puts
  BY PutsInOrder
<1>2. /\ \A x : Has(u, x) <=> \E p \in c_puts : x = C!Put(p)
      /\ \A p, q \in Nat : Precedes(u, C!Put(p), C!Put(q)) => p < q
  BY <1>1, PutsInOrder
<1>3. C!ListenRequest # Unlisten /\ C!ListenRequest \in Requests
      /\ \A p : C!Put(p) # C!ListenRequest /\ C!Put(p) # Unlisten
  BY RequestKinds
<1>4. ~Has(u, C!ListenRequest) /\ ~Has(u, Unlisten)
  BY <1>2, <1>3
<1>5. Times(u, C!ListenRequest) = 0
  BY <1>4, TimesType
<1>6. PICK t \in Seq(Requests) :
         /\ t = C!Listens
         /\ \A x : Has(t, x) <=> c_listens /\ x = C!ListenRequest
         /\ \A x, y : ~Precedes(t, x, y)
         /\ c_listens => Outlasts(t, C!ListenRequest, Unlisten)
         /\ \/ ~c_listens /\ Len(t) = 0 /\ Times(t, C!ListenRequest) = 0
            \/ c_listens /\ Len(t) = 1 /\ Times(t, C!ListenRequest) = 1
  <2>1. CASE c_listens
    <3>1. <<C!ListenRequest>> \in Seq(Requests) /\ Len(<<C!ListenRequest>>) = 1
      BY <1>3
    <3>2. PICK t \in Seq(Requests) : t = <<C!ListenRequest>> /\ Len(t) = 1
      BY <3>1
    <3>3. /\ \A x : Has(t, x) <=> x = C!ListenRequest
          /\ \A x, y : ~Precedes(t, x, y)
          /\ \A x, y : Outlasts(t, x, y) <=> x = C!ListenRequest
          /\ \A x : Times(t, x) = IF x = C!ListenRequest THEN 1 ELSE 0
      BY <1>3, <3>2, Single
    <3>4. C!Listens = t
      BY <2>1, <3>2 DEF C!Listens
    <3> QED
      BY <2>1, <3>2, <3>3, <3>4
  <2>2. CASE ~c_listens
    <3>0. <<>> \in Seq(Requests) /\ Len(<<>>) = 0
      OBVIOUS
    <3>1. PICK t \in Seq(Requests) : t = <<>> /\ Len(t) = 0
      BY <3>0
    <3>2. \A x, y : ~Has(t, x) /\ ~Precedes(t, x, y) /\ Times(t, x) = 0
      BY <3>1, Empty
    <3>3. C!Listens = t
      BY <2>2, <3>1 DEF C!Listens
    <3> QED
      BY <2>2, <3>1, <3>2, <3>3
  <2> QED
    BY <2>1, <2>2
<1>7. PICK v \in Seq(Requests) : v = s \o t
  BY Joined
<1>8. c_up' = v \o u /\ c_unacked' = c_unacked + Len(t)
  BY <1>1, <1>6, <1>7 DEF C!restoreState
<1>9. /\ \A x : Has(v, x) <=> Has(s, x) \/ Has(t, x)
      /\ \A x, y : Precedes(v, x, y) <=>
                      Precedes(s, x, y) \/ Precedes(t, x, y) \/ (Has(s, x) /\ Has(t, y))
      /\ \A x, y : Outlasts(v, x, y) <=> Outlasts(t, x, y) \/ (Outlasts(s, x, y) /\ ~Has(t, y))
      /\ \A x : Times(v, x) = Times(s, x) + Times(t, x)
  BY ONLY s \in Seq(Requests), t \in Seq(Requests), <1>7, Joined
<1>10. /\ v \o u \in Seq(Requests)
       /\ \A x : Has(v \o u, x) <=> Has(v, x) \/ Has(u, x)
       /\ \A x, y : Precedes(v \o u, x, y) <=>
                       Precedes(v, x, y) \/ Precedes(u, x, y) \/ (Has(v, x) /\ Has(u, y))
       /\ \A x, y : Outlasts(v \o u, x, y) <=> Outlasts(u, x, y) \/ (Outlasts(v, x, y) /\ ~Has(u, y))
       /\ \A x : Times(v \o u, x) = Times(v, x) + Times(u, x)
  BY ONLY v \in Seq(Requests), u \in Seq(Requests), Joined
<1>11. \A x : Has(c_up', x) <=> \/ Has(s, x) \/ (c_listens /\ x = C!ListenRequest)
                                \/ \E p \in c_puts : x = C!Put(p)
  BY <1>2, <1>6, <1>8, <1>9, <1>10
<1>12. ASSUME NEW p \in Nat, NEW q \in Nat, Precedes(c_up', C!Put(p), C!Put(q))
       PROVE  Has(s, C!Put(p)) \/ p < q
  <2>1. \/ Precedes(v, C!Put(p), C!Put(q)) \/ Precedes(u, C!Put(p), C!Put(q))
        \/ Has(v, C!Put(p))
    BY <1>8, <1>10, <1>12
  <2>2. Precedes(v, C!Put(p), C!Put(q)) => Has(v, C!Put(p))
    BY OrderedHas
  <2>3. Has(v, C!Put(p)) => Has(s, C!Put(p))
    BY <1>3, <1>6, <1>9
  <2> QED
    BY <1>2, <2>1, <2>2, <2>3
<1>13. c_listens => Outlasts(c_up', C!ListenRequest, Unlisten)
  BY <1>4, <1>6, <1>8, <1>9, <1>10
<1>14. Times(s, C!ListenRequest) \in Nat
  BY TimesType
<1>15. c_unacked \in Nat
  BY TypeParts DEF CInv
<1>16. Times(c_up', C!ListenRequest) = Times(s, C!ListenRequest) + Times(t, C!ListenRequest)
  BY <1>5, <1>6, <1>8, <1>9, <1>10, <1>14
<1>17. \/ ~c_listens /\ c_unacked' = c_unacked
          /\ Times(c_up', C!ListenRequest) = Times(s, C!ListenRequest)
       \/ c_listens /\ c_unacked' = c_unacked + 1
          /\ Times(c_up', C!ListenRequest) = Times(s, C!ListenRequest) + 1
  <2>1. CASE ~c_listens
    BY <1>6, <1>8, <1>14, <1>15, <1>16, <2>1
  <2>2. CASE c_listens
    BY <1>6, <1>8, <1>14, <1>15, <1>16, <2>2
  <2> QED
    BY <2>1, <2>2
<1>18. c_up' \in Seq(Requests)
  BY <1>8, <1>10
<1> QED
  BY <1>11, <1>12, <1>13, <1>14, <1>17, <1>18

(* After that the writes and the listens of the device are on their way.   *)
LEMMA RestoredKeeps ==
    ASSUME CInv, NEW s \in Seq(Requests), C!restoreState(s),
           \A p : ~Has(s, C!Put(p)), ~Has(s, C!Auth(TRUE)),
           \A p \in Nat, b \in BOOLEAN : ~Has(c_down', PutAnswer(p, b)),
           \A b \in BOOLEAN : ~Has(c_down', AuthAnswer(TRUE, b)),
           c_state' = "connected", UNCHANGED <<c_listens, c_puts, c_held, c_answers, c_cache, c_used>>,
           c_server'.history = c_server.history, c_server'.refused = c_server.refused,
           c_server'.registered /\ ~c_server'.loaded => c_server'.asked > 0
    PROVE  /\ Restores' /\ OnTheWire' /\ Rising' /\ EarlierKnown' /\ SettledFirst'
           /\ ToldSettled' /\ ToldOnce' /\ Observed' /\ HeldSafe' /\ HeardTold'
<1>1. /\ \A x : Has(c_up', x) <=> \/ Has(s, x) \/ (c_listens /\ x = C!ListenRequest)
                                  \/ \E p \in c_puts : x = C!Put(p)
      /\ \A p, q \in Nat : Precedes(c_up', C!Put(p), C!Put(q)) => Has(s, C!Put(p)) \/ p < q
      /\ c_listens => Outlasts(c_up', C!ListenRequest, Unlisten)
  BY RestoredRequests
<1>2. \A p : Has(c_up', C!Put(p)) <=> p \in c_puts
  BY <1>1, RequestKinds
<1>3. /\ \A n, p : Sees(n, p)' <=> Sees(n, p)
      /\ \A p : (Applied(p)' <=> Applied(p)) /\ (Known(p)' <=> Known(p))
      /\ \A p, b : ToldOrHeld(p, b)' <=> ToldOrHeld(p, b)
  <2>1. \A n, p : Sees(n, p)' <=> Sees(n, p)
    BY DEF Sees
  <2>2. \A p : (Applied(p)' <=> Applied(p)) /\ (Known(p)' <=> Known(p))
    BY <2>1 DEF Applied, Known
  <2> QED
    BY <2>1, <2>2, SameTold
<1>4. Restores'
  <2>1. ~Has(c_up', C!Auth(TRUE))
    <3>1. PICK x : x = C!Auth(TRUE)
      OBVIOUS
    <3>2. x # C!ListenRequest /\ ~Has(s, x) /\ \A p : x # C!Put(p)
      BY <3>1, RequestKinds
    <3>3. ~Has(c_up', x)
      BY <1>1, <3>2
    <3> QED
      BY <3>1, <3>3
  <2> QED
    BY <2>1 DEF Restores
<1>5. OnTheWire'
  BY <1>2 DEF OnTheWire
<1>6. Rising'
  <2>1. \A p, q \in Nat : Precedes(c_up', C!Put(p), C!Put(q)) => p < q
    BY <1>1
  <2>2. \A p, q \in Nat, a, b \in BOOLEAN : ~Precedes(c_down', PutAnswer(p, a), PutAnswer(q, b))
    BY OrderedHas
  <2> QED
    BY <2>1, <2>2 DEF Rising
<1>7. EarlierKnown'
  <2> SUFFICES ASSUME NEW p \in Nat, NEW q \in c_puts, 1 <= p, p < q PROVE Known(p) \/ p \in c_puts
    BY <1>2, <1>3 DEF EarlierKnown
  <2>1. p \in 1..c_used.puts
    <3>1. CTypes
      BY DEF CInv
    <3>2. q \in 1..c_used.puts /\ c_used.puts \in Nat
      BY <3>1, TypeParts
    <3> QED
      BY <3>2
  <2> QED
    BY <2>1 DEF CInv, SettledFirst
<1>8. SettledFirst' /\ ToldSettled' /\ ToldOnce'
  BY <1>3 DEF CInv, SettledFirst, ToldSettled, ToldOnce
<1>9. Observed'
  BY <1>1 DEF CInv, Observed
<1>10. HeldSafe'
  <2>1. c_listens => Has(c_up', C!ListenRequest)
    BY <1>1
  <2> QED
    BY <2>1 DEF HeldSafe, Safe
<1>11. HeardTold'
  BY <1>3 DEF CInv, HeardTold
<1> QED
  BY <1>4, <1>5, <1>6, <1>7, <1>8, <1>9, <1>10, <1>11

(* ListenAnswered: with the last listen answered, the data with the writes *)
(* held back was heard.                                                    *)
LEMMA ListenAnsweredKeeps ==
    ASSUME CInv, C!ListenAnswered
    PROVE  CInv'
<1> DEFINE d == C!ListenRequest
<1>0. CTypes /\ c_unacked \in Nat
  BY TypeParts DEF CInv
<1>1. /\ c_down # <<>> /\ Head(c_down).type = "listen" /\ c_down' = Tail(c_down)
      /\ c_unacked' = c_unacked - 1
      /\ IF c_unacked' = 0 THEN c_answers' = c_answers \o c_held /\ c_held' = <<>>
                           ELSE c_answers' = c_answers /\ c_held' = c_held
      /\ UNCHANGED <<c_state, c_retry, c_attempt, c_fetches, c_interrupted, c_token, c_listens, c_puts,
                     c_cache, c_up, c_server, c_used>>
  BY DEF C!ListenAnswered, C!Received, C!Message, C!link
<1>2. Head(c_down) = d
  BY <1>1, ReceivedOne, MessageKinds
<1> HIDE DEF d
<1>3. /\ \A x : Has(c_down, x) <=> x = d \/ Has(c_down', x)
      /\ \A x, y : Precedes(c_down, x, y) <=> Precedes(c_down', x, y) \/ (x = d /\ Has(c_down', y))
      /\ Times(c_down, d) = Times(c_down', d) + 1 /\ Times(c_down', d) \in Nat
      /\ Has(c_down', d) <=> Times(c_down', d) # 0
  <2>1. /\ c_down' \in Seq(Messages)
        /\ \A x : Has(c_down, x) <=> x = d \/ Has(c_down', x)
        /\ \A x, y : Precedes(c_down, x, y) <=> Precedes(c_down', x, y) \/ (x = d /\ Has(c_down', y))
        /\ \A x : Times(c_down, x) = Times(c_down', x) + (IF x = d THEN 1 ELSE 0)
        /\ \A x : Times(c_down', x) \in Nat
    BY <1>1, <1>2, ReceivedOne
  <2>2. Has(c_down', d) <=> Times(c_down', d) # 0
    BY <2>1, TimesType
  <2> QED
    BY <2>1, <2>2
<1>4. d = C!ListenRequest /\ (\A n : d # Data(n)) /\ (\A p, b : d # PutAnswer(p, b))
      /\ \A r, b : d # AuthAnswer(r, b)
  BY MessageKinds DEF d
<1>5. c_state = "connected" /\ C!connected
  <2>1. c_state # "authenticating"
    BY <1>1, <1>2, <1>4, RestoreAnsweredFirst
  <2> QED
    BY <1>1, <2>1, RestoreAnsweredFirst DEF C!connected
<1>6. Restores'
  BY <1>1, <1>3, <1>5 DEF CInv, Restores
<1>7. PICK u \in Nat, k \in Nat, w \in Nat :
         /\ u = Times(c_up, d) /\ k = c_server.asked /\ w = Times(c_down', d)
         /\ c_unacked = u + k + (w + 1) /\ c_unacked' = u + k + w
  <2>1. PICK u \in Nat, k \in Nat, w \in Nat :
           u = Times(c_up, d) /\ k = c_server.asked /\ w = Times(c_down', d)
    BY <1>0, <1>3, TimesType DEF CTypes
  <2>2. c_unacked = Times(c_up, d) + c_server.asked + Times(c_down, d)
    BY <1>4, <1>5 DEF CInv, Counted
  <2>3. Times(c_down, d) = w + 1
    BY <1>3, <2>1
  <2>4. c_unacked = u + k + (w + 1)
    BY <2>1, <2>2, <2>3
  <2>5. c_unacked' = c_unacked - 1
    BY <1>1
  <2>6. c_unacked' = u + k + w
    BY ONLY <2>4, <2>5, u \in Nat, k \in Nat, w \in Nat
  <2> QED
    BY <2>1, <2>4, <2>6
<1>8. c_unacked' \in Nat /\ (c_unacked' = 0 => u = 0 /\ k = 0 /\ w = 0)
  BY <1>7
<1>9. Counted'
  BY <1>1, <1>4, <1>7 DEF Counted
<1>10. /\ c_answers' \in Seq(Told) /\ c_held' \in Seq(Told)
       /\ \A p, b : ToldOrHeld(p, b)' <=> ToldOrHeld(p, b)
       /\ \A x : Has(c_answers', x) => Has(c_answers, x) \/ (c_unacked' = 0 /\ Has(c_held, x))
       /\ \A x : Has(c_held', x) => Has(c_held, x)
       /\ ToldOnce'
  <2>1. PICK s \in Seq(Told), t \in Seq(Told) : s = c_answers /\ t = c_held
    BY <1>0, TypeParts
  <2>2. CASE c_unacked' = 0
    <3>1. c_answers' = s \o t /\ c_held' = <<>>
      BY <1>1, <2>1, <2>2
    <3>2. /\ s \o t \in Seq(Told)
          /\ \A x : Has(s \o t, x) <=> Has(s, x) \/ Has(t, x)
          /\ \A x, y : Precedes(s \o t, x, y) <=>
                          Precedes(s, x, y) \/ Precedes(t, x, y) \/ (Has(s, x) /\ Has(t, y))
      BY Joined
    <3>3. \A x, y : ~Has(c_held', x) /\ ~Precedes(c_held', x, y)
      BY <3>1, Empty
    <3>4. <<>> \in Seq(Told)
      OBVIOUS
    <3>5. \A p, b : ToldOrHeld(p, b)' <=> ToldOrHeld(p, b)
      BY <2>1, <3>1, <3>2, <3>3 DEF ToldOrHeld
    <3>6. ToldOnce'
      BY <2>1, <3>1, <3>2, <3>3 DEF CInv, ToldOnce
    <3> QED
      BY <2>1, <2>2, <3>1, <3>2, <3>3, <3>4, <3>5, <3>6
  <2>3. CASE c_unacked' # 0
    <3>1. c_answers' = c_answers /\ c_held' = c_held
      BY <1>1, <2>3
    <3>2. ToldOnce'
      BY <3>1 DEF CInv, ToldOnce
    <3> QED
      BY <2>1, <3>1, <3>2, SameTold
  <2> QED
    BY <2>2, <2>3
<1>11. OnTheWire'
  <2>1. \A p, b : Has(c_down', PutAnswer(p, b)) <=> Has(c_down, PutAnswer(p, b))
    BY <1>3, <1>4
  <2> QED
    BY <1>1, <2>1 DEF CInv, OnTheWire
<1>12. Rising'
  BY <1>1, <1>3 DEF CInv, Rising
<1>13. /\ \A m, p : Sees(m, p)' <=> Sees(m, p)
       /\ \A p : (Applied(p)' <=> Applied(p)) /\ (Known(p)' <=> Known(p))
  BY <1>1, SameServer
<1>14. EarlierKnown' /\ SettledFirst'
  BY <1>1, <1>13 DEF CInv, EarlierKnown, SettledFirst
<1>15. ToldSettled'
  BY <1>1, <1>10, <1>13 DEF CInv, ToldSettled
<1>16. Observed'
  BY <1>1 DEF CInv, Observed
<1>17. DataNewer'
  BY <1>1, <1>3, <1>10, <1>13 DEF CInv, DataNewer
<1>18. \A n, x : Precedes(c_down, Data(n), x) => Precedes(c_down', Data(n), x)
  BY <1>3, <1>4
<1>19. HeldSafe'
  <2>1. \A p : Safe(p) => Safe(p)'
    BY <1>1, <1>13, <1>18 DEF Safe
  <2>2. \A p \in Nat : Has(c_held', C!Answer(p, TRUE)) => Safe(p)
    BY <1>5, <1>10 DEF CInv, HeldSafe
  <2>3. ASSUME NEW p \in Nat, Has(c_down', PutAnswer(p, TRUE))
        PROVE  \/ Safe(p)
               \/ \E n \in Nat : Precedes(c_down', Data(n), PutAnswer(p, TRUE)) /\ Sees(n, p)
    BY <1>3, <1>5, <1>18, <2>3 DEF CInv, HeldSafe
  <2> QED
    BY <1>13, <2>1, <2>2, <2>3 DEF HeldSafe
<1>20. HeardTold'
  <2> SUFFICES ASSUME c_cache # 0, NEW p \in Nat, Has(c_answers', C!Answer(p, TRUE))
               PROVE  Sees(c_cache, p)
    BY <1>1, <1>13 DEF HeardTold
  <2>1. CASE Has(c_answers, C!Answer(p, TRUE))
    BY <2>1 DEF CInv, HeardTold
  <2>2. CASE c_unacked' = 0 /\ Has(c_held, C!Answer(p, TRUE))
    <3>1. Safe(p)
      BY <1>5, <2>2 DEF CInv, HeldSafe
    <3>2. c_listens
      BY DEF CInv, Observed
    <3>3. ~Has(c_up, C!ListenRequest)
      <4>1. c_up \in Seq(Requests)
        BY <1>0, TypeParts
      <4> QED
        BY <1>4, <1>7, <1>8, <2>2, <4>1, TimesType
    <3>4. \A n : ~Precedes(c_down, Data(n), C!ListenRequest)
      <4>1. ~Has(c_down', d)
        BY <1>3, <1>7, <1>8, <2>2
      <4> QED
        BY <1>4, <1>18, <4>1, OrderedHas
    <3>5. ~(c_server.asked > 0)
      BY <1>7, <1>8, <2>2
    <3> QED
      BY <3>1, <3>2, <3>3, <3>4, <3>5 DEF Safe
  <2> QED
    BY <1>10, <2>1, <2>2
<1>21. c_up' \in Seq(Requests) /\ c_cache' \in 0..Len(c_server.history) /\ c_puts' \subseteq c_puts
  BY <1>0, <1>1, TypeParts
<1> QED
  BY <1>1, <1>5, <1>6, <1>8, <1>9, <1>10, <1>11, <1>12, <1>14, <1>15, <1>16, <1>17, <1>19, <1>20, <1>21,
     ReceivingKeeps

(* AuthOk: the answer to restoreAuth restores everything, another one      *)
(* nothing.                                                                *)
LEMMA AuthOkKeeps ==
    ASSUME CInv, C!AuthOk
    PROVE  CInv'
<1>0. CTypes /\ c_unacked \in Nat
  BY TypeParts DEF CInv
<1>1. /\ c_down # <<>> /\ Head(c_down).type = "auth" /\ Head(c_down).ok /\ c_down' = Tail(c_down)
      /\ c_state' = "connected"
      /\ IF Head(c_down).restore THEN C!restoreState(c_up) ELSE UNCHANGED <<c_up, c_unacked>>
      /\ UNCHANGED <<c_retry, c_attempt, c_fetches, c_interrupted, c_token, c_listens, c_puts, c_held,
                     c_answers, c_cache, c_server, c_used>>
  BY DEF C!AuthOk, C!Received, C!Message
<1>2. PICK d \in Messages : /\ d = Head(c_down) /\ d = AuthAnswer(d.restore, d.ok)
                            /\ d.restore \in BOOLEAN /\ d.ok
  BY <1>1, ReceivedOne, MessageKinds
<1>3. /\ \A x : Has(c_down, x) <=> x = d \/ Has(c_down', x)
      /\ \A x, y : Precedes(c_down, x, y) <=> Precedes(c_down', x, y) \/ (x = d /\ Has(c_down', y))
      /\ \A x : Times(c_down, x) = Times(c_down', x) + (IF x = d THEN 1 ELSE 0)
      /\ \A x : Times(c_down', x) \in Nat
  BY <1>1, <1>2, ReceivedOne
<1>4. d # C!ListenRequest /\ (\A n : d # Data(n)) /\ \A p, b : d # PutAnswer(p, b)
  BY <1>2 DEF AuthAnswer, Data, PutAnswer, C!ListenRequest
<1>5. Times(c_down', C!ListenRequest) = Times(c_down, C!ListenRequest)
  BY <1>3, <1>4
<1>6. /\ \A m, p : Sees(m, p)' <=> Sees(m, p)
      /\ \A p : (Applied(p)' <=> Applied(p)) /\ (Known(p)' <=> Known(p))
      /\ \A p, b : ToldOrHeld(p, b)' <=> ToldOrHeld(p, b)
  BY <1>1, SameServer, SameTold
<1>7. DataNewer'
  BY <1>1, <1>3, <1>6 DEF CInv, DataNewer
<1>8. C!connected /\ C!connected'
  BY <1>1, RestoreAnsweredFirst DEF C!connected
<1>9. /\ c_answers' \in Seq(Told) /\ c_held' \in Seq(Told)
      /\ c_cache' \in 0..Len(c_server.history) /\ c_puts' \subseteq c_puts
  BY <1>0, <1>1, TypeParts
<1>10. CASE d.restore
  <2>1. d = AuthAnswer(TRUE, TRUE)
    BY <1>2, <1>10
  <2>2. c_state = "authenticating" /\ RestoreAnswered
    BY <1>1, <1>2, <1>8, <2>1, RestoreAnsweredFirst DEF C!connected
  <2>3. C!restoreState(c_up)
    BY <1>1, <1>2, <1>10
  <2>4. PICK s \in Seq(Requests) : s = c_up
    BY <1>0, TypeParts
  <2>5. ~Has(s, C!Auth(TRUE))
    BY <2>2, <2>4 DEF RestoreAnswered
  <2>6. \A p \in Nat : ~Has(c_up, C!Put(p))
    BY <2>2 DEF CInv, OnTheWire
  <2>7. \A p : ~Has(s, C!Put(p))
    <3>1. ASSUME NEW p, Has(s, C!Put(p)) PROVE p \in Nat
      <4>1. C!Put(p) \in Requests
        BY <3>1, Elements
      <4>2. C!Put(p).type = "put" /\ C!Put(p).put = p
        BY DEF C!Put
      <4> QED
        BY <4>1, <4>2, RequestKinds
    <3> QED
      BY <2>4, <2>6, <3>1
  <2>8. \A p \in Nat, b \in BOOLEAN : ~Has(c_down', PutAnswer(p, b))
    BY <1>3, <2>2 DEF CInv, OnTheWire
  <2>9. \A b \in BOOLEAN : ~Has(c_down', AuthAnswer(TRUE, b))
    <3>1. PICK ok \in BOOLEAN : First(c_down, AuthAnswer(TRUE, ok)) /\ ~Has(c_down, AuthAnswer(TRUE, ~ok))
      BY <2>2 DEF RestoreAnswered
    <3>2. PICK x : x = AuthAnswer(TRUE, ok)
      OBVIOUS
    <3>3. ~Has(c_down', x)
      <4>1. \A y : ~Precedes(c_down, y, x)
        BY <3>1, <3>2 DEF First
      <4>2. Has(c_down', x) => Precedes(c_down, d, x)
        BY <1>3
      <4> QED
        BY <4>1, <4>2
    <3>4. ~Has(c_down', AuthAnswer(TRUE, ~ok))
      BY <1>3, <3>1
    <3>5. \A b \in BOOLEAN : b = ok \/ b = ~ok
      OBVIOUS
    <3> QED
      BY <3>2, <3>3, <3>4, <3>5
  <2>10. c_server'.registered /\ ~c_server'.loaded => c_server'.asked > 0
    BY <1>1 DEF CInv, Observed
  <2>11. /\ Restores' /\ OnTheWire' /\ Rising' /\ EarlierKnown' /\ SettledFirst'
         /\ ToldSettled' /\ ToldOnce' /\ Observed' /\ HeldSafe' /\ HeardTold'
    BY <1>1, <2>3, <2>4, <2>5, <2>7, <2>8, <2>9, <2>10, RestoredKeeps
  <2>12. /\ c_up' \in Seq(Requests) /\ Times(s, C!ListenRequest) \in Nat
         /\ \/ c_unacked' = c_unacked
               /\ Times(c_up', C!ListenRequest) = Times(s, C!ListenRequest)
            \/ c_unacked' = c_unacked + 1
               /\ Times(c_up', C!ListenRequest) = Times(s, C!ListenRequest) + 1
    BY <2>3, <2>4, RestoredRequests
  <2>13. c_unacked' \in Nat
    BY <1>0, <2>12
  <2>14. Counted'
    <3>1. PICK k \in Nat, w \in Nat : k = c_server.asked /\ w = Times(c_down, C!ListenRequest)
      BY <1>0, TimesType DEF CTypes
    <3>2. c_unacked = Times(s, C!ListenRequest) + k + w
      BY <1>8, <2>4, <3>1 DEF CInv, Counted
    <3>3. c_unacked' = Times(c_up', C!ListenRequest) + k + w
      BY <2>12, <3>1, <3>2
    <3> QED
      BY <1>1, <1>5, <3>1, <3>3 DEF Counted
  <2> QED
    BY <1>1, <1>7, <1>9, <2>11, <2>12, <2>13, <2>14, ReceivingKeeps
<1>11. CASE ~d.restore
  <2>1. UNCHANGED <<c_up, c_unacked>>
    BY <1>1, <1>2, <1>11
  <2>2. c_state = "connected"
    <3>1. \A ok : d # AuthAnswer(TRUE, ok)
      BY <1>2, <1>11 DEF AuthAnswer
    <3>2. c_state # "authenticating"
      BY <1>1, <1>2, <3>1, RestoreAnsweredFirst
    <3> QED
      BY <1>8, <3>2 DEF C!connected
  <2>3. Restores'
    BY <1>1, <1>3, <2>1, <2>2 DEF CInv, Restores
  <2>4. Counted'
    BY <1>1, <1>5, <1>8, <2>1 DEF CInv, Counted
  <2>5. OnTheWire'
    <3>1. \A p, b : Has(c_down', PutAnswer(p, b)) <=> Has(c_down, PutAnswer(p, b))
      BY <1>3, <1>4
    <3> QED
      BY <1>1, <2>1, <2>2, <3>1 DEF CInv, OnTheWire
  <2>6. Rising'
    BY <1>1, <1>3, <2>1 DEF CInv, Rising
  <2>7. EarlierKnown' /\ SettledFirst'
    BY <1>1, <1>6, <2>1 DEF CInv, EarlierKnown, SettledFirst
  <2>8. ToldSettled' /\ ToldOnce' /\ HeardTold'
    BY <1>1, <1>6 DEF CInv, ToldSettled, ToldOnce, HeardTold
  <2>9. Observed'
    BY <1>1, <2>1, <2>2 DEF CInv, Observed
  <2>10. HeldSafe'
    <3>1. \A n, x : Precedes(c_down, Data(n), x) => Precedes(c_down', Data(n), x)
      BY <1>3, <1>4
    <3>2. \A p : Safe(p) => Safe(p)'
      BY <1>1, <1>6, <2>1, <3>1 DEF Safe
    <3>3. ASSUME NEW p \in Nat, Has(c_down', PutAnswer(p, TRUE))
          PROVE  \/ Safe(p)
                 \/ \E n \in Nat : Precedes(c_down', Data(n), PutAnswer(p, TRUE)) /\ Sees(n, p)
      BY <1>3, <2>2, <3>1, <3>3 DEF CInv, HeldSafe
    <3> QED
      BY <1>1, <1>6, <2>2, <3>2, <3>3 DEF CInv, HeldSafe
  <2>11. c_up' \in Seq(Requests) /\ c_unacked' \in Nat
    BY <1>0, <2>1, TypeParts
  <2> QED
    BY <1>1, <1>7, <1>9, <2>3, <2>4, <2>5, <2>6, <2>7, <2>8, <2>9, <2>10, <2>11, ReceivingKeeps
<1> QED
  BY <1>10, <1>11

(* The handshake: the server forgets the last session, and everything not  *)
(* answered is sent, at once or after the answer to restoreAuth.           *)
LEMMA OnReadyKeeps ==
    ASSUME CInv, C!onReady
    PROVE  CInv'
<1> DEFINE L == C!ListenRequest
<1>0. CTypes /\ Attempting /\ c_unacked \in Nat
      /\ c_server \in [history : Seq(Nat), registered : BOOLEAN, loaded : BOOLEAN, asked : Nat,
                       refused : SUBSET Nat]
  BY TypeParts DEF CInv
<1>1. /\ c_state = "connecting"
      /\ c_server' = [c_server EXCEPT !.registered = FALSE, !.loaded = FALSE, !.asked = 0]
      /\ \/ /\ c_state' = "authenticating" /\ c_up' = <<C!Auth(TRUE)>> /\ c_unacked' = c_unacked
         \/ c_state' = "connected" /\ C!restoreState(<<>>)
      /\ UNCHANGED <<c_retry, c_attempt, c_fetches, c_interrupted, c_token, c_listens, c_puts, c_held,
                     c_answers, c_cache, c_down, c_used>>
  BY DEF C!onReady
<1>2. /\ c_server'.history = c_server.history /\ c_server'.refused = c_server.refused
      /\ c_server'.registered = FALSE /\ c_server'.loaded = FALSE /\ c_server'.asked = 0
      /\ c_server' \in [history : Seq(Nat), registered : BOOLEAN, loaded : BOOLEAN, asked : Nat,
                        refused : SUBSET Nat]
  BY <1>0, <1>1
<1>3. c_down = <<>> /\ c_down' = <<>> /\ c_unacked = 0
  BY <1>0, <1>1 DEF Attempting, C!connected
<1>4. \A x, y : ~Has(c_down', x) /\ ~Precedes(c_down', x, y) /\ Times(c_down', x) = 0
  BY <1>3, Empty
<1>5. /\ \A n, p : Sees(n, p)' <=> Sees(n, p)
      /\ \A p : (Applied(p)' <=> Applied(p)) /\ (Known(p)' <=> Known(p))
      /\ \A p, b : ToldOrHeld(p, b)' <=> ToldOrHeld(p, b)
  <2>1. \A n, p : Sees(n, p)' <=> Sees(n, p)
    BY <1>2 DEF Sees
  <2>2. \A p : (Applied(p)' <=> Applied(p)) /\ (Known(p)' <=> Known(p))
    BY <1>2, <2>1 DEF Applied, Known
  <2> QED
    BY <1>1, <2>1, <2>2, SameTold
<1>6. Attempting'
  BY <1>0, <1>1, <1>3 DEF Attempting, C!connected
<1>7. AnswersTrue' /\ DataNewer'
  BY <1>4 DEF AnswersTrue, DataNewer
<1>8. C!AppliedInOrder'
  <2> DEFINE ordered(h, r) ==
        \A i \in DOMAIN h : \A p \in 1..(h[i] - 1) : (\E j \in 1..(i - 1) : h[j] = p) \/ p \in r
  <2>1. ordered(c_server.history, c_server.refused)
    BY DEF CInv, C!AppliedInOrder
  <2>2. C!AppliedInOrder' <=> ordered(c_server'.history, c_server'.refused)
    BY DEF C!AppliedInOrder
  <2> HIDE DEF ordered
  <2> QED
    BY <1>2, <2>1, <2>2
<1>9. ASSUME c_up' \in Seq(Requests), c_unacked' \in Nat PROVE CTypes'
  <2>1. c_state' \in {"disconnected", "getting_token", "connecting", "authenticating", "connected"}
    BY <1>1
  <2>2. /\ {c_retry, c_interrupted, c_token, c_listens} \subseteq BOOLEAN
        /\ c_fetches \subseteq 1..c_attempt /\ c_puts \subseteq 1..c_used.puts
        /\ c_cache \in 0..Len(c_server.history)
        /\ C!ToSet(c_server.history) \subseteq 0..c_used.puts
    BY <1>0 DEF CTypes, C!TypeOK
  <2>3. C!TypeOK'
    BY <1>1, <1>2, <1>9, <2>1, <2>2 DEF C!TypeOK
  <2> QED
    BY <1>0, <1>1, <1>2, <1>9, <2>3 DEF CTypes
<1>10. CASE c_state' = "authenticating" /\ c_up' = <<C!Auth(TRUE)>> /\ c_unacked' = c_unacked
  <2>1. PICK a : a = C!Auth(TRUE)
    OBVIOUS
  <2>2. a \in Requests /\ a # L /\ \A p : a # C!Put(p)
    BY <2>1, RequestKinds
  <2>3. c_up' \in Seq(Requests)
        /\ (\A x : Has(c_up', x) <=> x = a) /\ (\A x, y : ~Precedes(c_up', x, y))
        /\ \A x : Times(c_up', x) = IF x = a THEN 1 ELSE 0
    BY <1>10, <2>1, <2>2, Single
  <2>4. Restores'
    <3>1. First(c_up', a)
      BY <2>3 DEF First
    <3>2. c_down' = <<>> /\ First(c_up, C!Auth(TRUE))' /\ c_server'.asked = 0 /\ ~c_server'.loaded
      BY <1>2, <1>3, <2>1, <3>1 DEF First
    <3>3. RestoreAsked'
      BY <3>2 DEF RestoreAsked
    <3> QED
      BY <1>10, <3>3 DEF Restores
  <2>5. Counted'
    <3>1. Times(c_up', L) = 0 /\ Times(c_down', L) = 0 /\ c_unacked' = 0
      BY <1>3, <1>4, <1>10, <2>2, <2>3
    <3>2. c_server'.asked = 0
      BY <1>2
    <3> QED
      BY <3>1, <3>2 DEF Counted
  <2>6. \A p : ~Has(c_up', C!Put(p))
    BY <2>2, <2>3
  <2>7. OnTheWire' /\ Rising'
    BY <1>4, <1>10, <2>3, <2>6 DEF OnTheWire, Rising
  <2>8. EarlierKnown' /\ SettledFirst'
    BY <1>1, <1>5, <2>6 DEF CInv, EarlierKnown, SettledFirst
  <2>9. ToldSettled' /\ ToldOnce' /\ HeardTold'
    BY <1>1, <1>5 DEF CInv, ToldSettled, ToldOnce, HeardTold
  <2>10. Observed' /\ HeldSafe'
    BY <1>1, <1>2, <1>10 DEF CInv, Observed, HeldSafe
  <2>11. CTypes'
    BY <1>0, <1>9, <1>10, <2>3
  <2> QED
    BY <1>6, <1>7, <1>8, <2>4, <2>5, <2>7, <2>8, <2>9, <2>10, <2>11 DEF CInv
<1>11. CASE c_state' = "connected" /\ C!restoreState(<<>>)
  <2>1. <<>> \in Seq(Requests)
    OBVIOUS
  <2>2. PICK s \in Seq(Requests) : s = <<>>
    BY <2>1
  <2>3. C!restoreState(s)
    BY <1>11, <2>2
  <2>4. \A x : ~Has(s, x) /\ Times(s, x) = 0
    BY <2>2, Empty
  <2>5. /\ Restores' /\ OnTheWire' /\ Rising' /\ EarlierKnown' /\ SettledFirst'
        /\ ToldSettled' /\ ToldOnce' /\ Observed' /\ HeldSafe' /\ HeardTold'
    BY <1>1, <1>2, <1>4, <1>11, <2>3, <2>4, RestoredKeeps
  <2>6. /\ c_up' \in Seq(Requests)
        /\ \/ c_unacked' = c_unacked /\ Times(c_up', L) = Times(s, L)
           \/ c_unacked' = c_unacked + 1 /\ Times(c_up', L) = Times(s, L) + 1
    BY <2>3, RestoredRequests
  <2>7. c_unacked' \in Nat /\ c_unacked' = Times(c_up', L)
    BY <1>3, <2>4, <2>6
  <2>8. Counted'
    <3>1. c_unacked' = Times(c_up', L) + 0 + 0
      BY <2>7
    <3>2. Times(c_down', L) = 0 /\ c_server'.asked = 0
      BY <1>2, <1>4
    <3> QED
      BY <3>1, <3>2 DEF Counted
  <2> QED
    BY <1>6, <1>7, <1>8, <1>9, <2>5, <2>6, <2>7, <2>8 DEF CInv
<1> QED
  BY <1>1, <1>10, <1>11

(* At the start nothing was written, heard or told.                        *)
LEMMA InitConnection == C!Init => CInv
<1> SUFFICES ASSUME C!Init PROVE CInv
  OBVIOUS
<1>1. /\ c_state = "disconnected" /\ c_retry = FALSE /\ c_interrupted = TRUE
      /\ c_attempt = 0 /\ c_fetches = {} /\ c_token = FALSE
      /\ c_listens = FALSE /\ c_unacked = 0
      /\ c_puts = {} /\ c_held = <<>> /\ c_answers = <<>>
      /\ c_cache = 0 /\ c_up = <<>> /\ c_down = <<>>
      /\ c_server = [history |-> <<0>>, registered |-> FALSE, loaded |-> FALSE, asked |-> 0,
                     refused |-> {}]
      /\ c_used = [puts |-> 0, listens |-> 0, events |-> 0]
  BY DEF C!Init, C!Foreign
<1>2. PICK h \in Seq(Nat) : h = <<0>>
  <2>1. <<0>> \in Seq(Nat)
    OBVIOUS
  <2> QED
    BY <2>1
<1>3. Len(h) = 1 /\ h[1] = 0
  BY <1>2
<1>4. /\ c_server.history = h /\ c_server.registered = FALSE /\ c_server.loaded = FALSE
      /\ c_server.asked = 0 /\ c_server.refused = {} /\ c_used.puts = 0
      /\ \A p \in 1..c_used.puts : FALSE
  <2>1. c_used.puts = 0
    BY <1>1
  <2>2. \A p \in 1..0 : FALSE
    OBVIOUS
  <2> QED
    BY <1>1, <1>2, <2>1, <2>2
<1>5. /\ \A x, y : ~Has(c_down, x) /\ ~Precedes(c_down, x, y)
      /\ \A x, y : ~Has(c_up, x) /\ ~Precedes(c_up, x, y)
      /\ \A x, y : ~Has(c_held, x) /\ ~Precedes(c_held, x, y)
      /\ \A x, y : ~Has(c_answers, x) /\ ~Precedes(c_answers, x, y)
  BY <1>1, Empty
<1>6. CTypes
  <2>1. C!ToSet(h) \subseteq 0..0
    <3>1. \A i \in 1..Len(h) : h[i] \in 0..0
      <4>1. \A i \in 1..1 : i = 1
        OBVIOUS
      <4> QED
        BY <1>3, <4>1
    <3> QED
      BY <3>1, HistoryTyped
  <2>2. C!TypeOK
    <3>1. /\ {c_retry, c_interrupted, c_token, c_listens} \subseteq BOOLEAN
          /\ c_state \in {"disconnected", "getting_token", "connecting", "authenticating", "connected"}
      BY <1>1
    <3>2. c_fetches \subseteq 1..c_attempt /\ c_unacked \in Nat /\ c_puts \subseteq 1..c_used.puts
      BY <1>1
    <3>3. c_cache \in 0..Len(c_server.history) /\ C!ToSet(c_server.history) \subseteq 0..c_used.puts
      BY <1>1, <1>3, <1>4, <2>1
    <3> QED
      BY <3>1, <3>2, <3>3 DEF C!TypeOK
  <2>3. c_server \in [history : Seq(Nat), registered : BOOLEAN, loaded : BOOLEAN, asked : Nat,
                      refused : SUBSET Nat]
    BY <1>1, <1>2
  <2>4. /\ <<>> \in Seq(Requests) /\ <<>> \in Seq(Messages) /\ <<>> \in Seq(Told)
    OBVIOUS
  <2> QED
    BY <1>1, <2>2, <2>3, <2>4 DEF CTypes
<1>7. Attempting /\ Restores /\ Counted
  BY <1>1 DEF Attempting, Restores, Counted, C!connected
<1>8. OnTheWire /\ Rising
  BY <1>1, <1>5 DEF OnTheWire, Rising
<1>9. AnswersTrue /\ EarlierKnown /\ SettledFirst
  BY <1>4, <1>5 DEF AnswersTrue, EarlierKnown, SettledFirst
<1>10. ToldSettled /\ ToldOnce
  BY <1>4, <1>5 DEF ToldSettled, ToldOnce, ToldOrHeld
<1>11. Observed /\ HeldSafe /\ HeardTold
  BY <1>1, <1>4 DEF Observed, HeldSafe, HeardTold
<1>12. DataNewer
  BY <1>5 DEF DataNewer
<1>13. C!AppliedInOrder
  <2>1. ASSUME NEW i \in DOMAIN h PROVE 1..(h[i] - 1) = {}
    <3>1. i = 1
      BY <1>3
    <3> QED
      BY <1>3, <3>1
  <2> QED
    BY <1>4, <2>1 DEF C!AppliedInOrder
<1> QED
  BY <1>6, <1>7, <1>8, <1>9, <1>10, <1>11, <1>12, <1>13 DEF CInv

(* Every step of the connection keeps what the proof needs.                *)
LEMMA StepKeepsConnection == CInv /\ [C!Next]_C!vars => CInv'
<1> SUFFICES ASSUME CInv, [C!Next]_C!vars PROVE CInv'
  OBVIOUS
<1>1. CASE C!resumeForReason \/ C!interruptForReason \/ C!Lost \/ C!Retry
           \/ (\E a \in c_fetches : C!Fetched(a)) \/ (\E a \in c_fetches : C!FetchFailed(a))
           \/ C!AuthFailed
  BY <1>1, LinkKeeps
<1>2. CASE C!onReady
  BY <1>2, OnReadyKeeps
<1>3. CASE C!putData
  BY <1>3, PutKeeps
<1>4. CASE C!listen
  BY <1>4, ListenKeeps
<1>5. CASE C!unlisten
  BY <1>5, UnlistenKeeps
<1>6. CASE C!refreshAuthToken
  BY <1>6, RefreshKeeps
<1>7. CASE C!HandleAuth
  BY <1>7, HandleAuthKeeps
<1>8. CASE C!HandlePut
  BY <1>8, PutIsServed, PutServedKeeps
<1>9. CASE C!HandleListen
  BY <1>9, HandleListenKeeps
<1>10. CASE C!HandleUnlisten
  BY <1>10, HandleUnlistenKeeps
<1>11. CASE C!LoadPath
  BY <1>11, LoadPathKeeps
<1>12. CASE C!WriteOfOther
  BY <1>12, WriteOfOtherKeeps
<1>13. CASE C!DataUpdate
  BY <1>13, DataUpdateKeeps
<1>14. CASE C!AuthOk
  BY <1>14, AuthOkKeeps
<1>15. CASE C!PutAnswered
  BY <1>15, PutAnsweredKeeps
<1>16. CASE C!ListenAnswered
  BY <1>16, ListenAnsweredKeeps
<1>17. CASE UNCHANGED C!vars
  <2>1. UNCHANGED <<c_state, c_retry, c_attempt, c_fetches, c_interrupted, c_token, c_listens, c_unacked,
                    c_puts, c_held, c_answers, c_cache, c_up, c_down, c_server, c_used>>
    BY <1>17 DEF C!vars, C!link, C!client
  <2>2. CTypes' /\ Attempting'
    BY <2>1 DEF CInv, CTypes, C!TypeOK, Attempting, C!connected
  <2> QED
    BY <2>1, <2>2, StayKeeps
<1> QED
  BY <1>1, <1>2, <1>3, <1>4, <1>5, <1>6, <1>7, <1>8, <1>9, <1>10, <1>11, <1>12, <1>13, <1>14, <1>15,
     <1>16, <1>17 DEF C!Next, C!Connecting, C!Receiving, C!Serving

-----------------------------------------------------------------------------
(* The answers on a list, as a set or by what is on it.                    *)
LEMMA ToldElements ==
    ASSUME NEW s \in Seq(Told)
    PROVE  /\ \A a : a \in C!ToSet(s) <=> Has(s, a)
           /\ \A a : Has(s, a) => /\ a.put \in Nat /\ a.ok \in BOOLEAN
                                  /\ a = C!Answer(a.put, a.ok)
<1>1. \A a : a \in C!ToSet(s) <=> Has(s, a)
  BY LenProperties DEF C!ToSet, Has
<1>2. \A a \in Told : a.put \in Nat /\ a.ok \in BOOLEAN /\ a = C!Answer(a.put, a.ok)
  BY DEF Told, C!Answer
<1> QED
  BY <1>1, <1>2, Elements

(* A list on which no two answers are of the same put has as many of them  *)
(* as puts.                                                                *)
LEMMA ToldCounted ==
    ASSUME NEW s \in Seq(Told),
           \A p \in Nat, a, b \in BOOLEAN : ~Precedes(s, C!Answer(p, a), C!Answer(p, b))
    PROVE  Cardinality({a.put : a \in C!ToSet(s)}) = Len(s)
<1> DEFINE puts == {a.put : a \in C!ToSet(s)}
           f == [i \in 1..Len(s) |-> s[i].put]
<1>1. PICK n \in Nat : n = Len(s)
  BY LenProperties
<1>2. \A i \in 1..n : s[i] \in C!ToSet(s) /\ s[i].put \in Nat /\ s[i].ok \in BOOLEAN
                      /\ s[i] = C!Answer(s[i].put, s[i].ok)
  BY <1>1, ToldElements DEF Has
<1>3. \A y \in puts : \E i \in 1..n : s[i].put = y
  BY <1>1, ToldElements DEF Has
<1>4. \A i, j \in 1..n : s[i].put = s[j].put => ~(i < j)
  <2> SUFFICES ASSUME NEW i \in 1..n, NEW j \in 1..n, s[i].put = s[j].put, i < j PROVE FALSE
    OBVIOUS
  <2>1. PICK p \in Nat, a \in BOOLEAN, b \in BOOLEAN : s[i] = C!Answer(p, a) /\ s[j] = C!Answer(p, b)
    BY <1>2
  <2>2. Precedes(s, C!Answer(p, a), C!Answer(p, b))
    BY <1>1, <2>1 DEF Precedes
  <2> QED
    BY <2>2
<1>5. \A i, j \in 1..n : s[i].put = s[j].put => i = j
  BY <1>4
<1>6. f \in [1..n -> puts] /\ \A i \in 1..n : f[i] = s[i].put
  BY <1>1, <1>2
<1> HIDE DEF f, puts
<1>7. f \in Bijection(1..n, puts)
  BY <1>3, <1>5, <1>6 DEF Bijection, Injection, Surjection, IsInjective
<1>8. ExistsBijection(1..n, puts)
  BY <1>7 DEF ExistsBijection
<1> QED
  BY <1>1, <1>8, FS_CountingElements DEF puts

(* The invariant says more than the property: what callers were told is    *)
(* counted by a bijection, the rest follows part by part.                  *)
LEMMA OrderKept == CInv => WritesKeepOrder
<1> SUFFICES ASSUME CInv PROVE WritesKeepOrder
  OBVIOUS
<1> DEFINE L == C!ListenRequest
<1>0. CTypes /\ c_up \in Seq(Requests) /\ c_down \in Seq(Messages) /\ c_answers \in Seq(Told)
      /\ c_held \in Seq(Told) /\ c_unacked \in Nat /\ c_used.puts \in Nat
      /\ c_server.asked \in Nat /\ c_cache \in Nat
  BY TypeParts, CacheFacts DEF CInv, CTypes
<1>1. C!OneAttempt
  <2>1. c_unacked >= Times(c_down, L)
    <3>1. PICK u \in Nat, k \in Nat, w \in Nat :
             u = Times(c_up, L) /\ k = c_server.asked /\ w = Times(c_down, L)
      BY <1>0, TimesType
    <3>2. CASE C!connected
      <4>1. c_unacked = u + k + w
        BY <3>1, <3>2 DEF CInv, Counted
      <4> QED
        BY <1>0, <3>1, <4>1
    <3>3. CASE ~C!connected
      <4>1. c_unacked = 0 /\ Times(c_down, L) = 0
        BY <3>3, Empty DEF CInv, Attempting
      <4> QED
        BY <4>1
    <3> QED
      BY <3>2, <3>3
  <2>2. Len(C!Sifted(c_down, {L})) = Times(c_down, L)
    BY <1>0, SameWordsC, SiftedTimes
  <2> QED
    BY <2>1, <2>2 DEF CInv, Attempting, C!OneAttempt
<1>2. \A q : q \in C!Answered <=> \E b \in BOOLEAN : q \in Nat /\ Has(c_answers, C!Answer(q, b))
  <2>1. ASSUME NEW q, q \in C!Answered
        PROVE  \E b \in BOOLEAN : q \in Nat /\ Has(c_answers, C!Answer(q, b))
    <3>1. PICK a \in C!ToSet(c_answers) : q = a.put
      BY <2>1 DEF C!Answered
    <3> QED
      BY <1>0, <3>1, ToldElements
  <2>2. ASSUME NEW q, NEW b \in BOOLEAN, Has(c_answers, C!Answer(q, b)) PROVE q \in C!Answered
    <3>1. C!Answer(q, b) \in C!ToSet(c_answers)
      BY <1>0, <2>2, ToldElements
    <3>2. C!Answer(q, b).put = q
      BY DEF C!Answer
    <3> QED
      BY <3>1, <3>2 DEF C!Answered
  <2> QED
    BY <2>1, <2>2
<1>3. C!AnswersAreFinal
  <2>1. ASSUME NEW a \in C!ToSet(c_answers) PROVE C!Put(a.put) \notin C!ToSet(c_up) /\ a.put \notin c_puts
    <3>1. Has(c_answers, a) /\ a.put \in Nat /\ a.ok \in BOOLEAN /\ a = C!Answer(a.put, a.ok)
      BY <1>0, <2>1, ToldElements
    <3>2. a.put \notin c_puts
      BY <3>1 DEF CInv, ToldSettled, ToldOrHeld
    <3>3. ~Has(c_up, C!Put(a.put))
      BY <3>1, <3>2 DEF CInv, OnTheWire
    <3>4. \A x : x \in C!ToSet(c_up) => Has(c_up, x)
      BY <1>0, LenProperties DEF C!ToSet, Has
    <3> QED
      BY <3>2, <3>3, <3>4
  <2>2. Cardinality({a.put : a \in C!ToSet(c_answers)}) = Len(c_answers)
    BY <1>0, ToldCounted DEF CInv, ToldOnce
  <2> QED
    BY <2>1, <2>2, SameWordsC DEF C!AnswersAreFinal, C!Answered
<1>4. C!AnswersInOrder
  <2> SUFFICES ASSUME NEW p \in 1..c_used.puts, p \notin C!Answered, NEW q \in C!Answered, p < q
               PROVE  p \in {a.put : a \in C!ToSet(c_held)}
    BY DEF C!AnswersInOrder, C!Pending
  <2>1. q \in 1..c_used.puts /\ q \notin c_puts
    BY <1>2 DEF CInv, ToldSettled, ToldOrHeld
  <2>2. p \notin c_puts
    BY <1>0, <2>1 DEF CInv, SettledFirst
  <2>3. PICK b \in BOOLEAN : ToldOrHeld(p, b)
    BY <2>2 DEF CInv, ToldSettled
  <2>4. Has(c_held, C!Answer(p, b))
    BY <1>0, <1>2, <2>3 DEF ToldOrHeld
  <2>5. C!Answer(p, b) \in C!ToSet(c_held)
    BY <1>0, <2>4, ToldElements
  <2>6. C!Answer(p, b).put = p
    BY DEF C!Answer
  <2> QED
    BY <2>5, <2>6
<1>5. C!OwnWritesStayVisible
  <2> SUFFICES ASSUME c_cache # 0, NEW a \in C!ToSet(c_answers), a.ok
               PROVE  \E i \in 1..c_cache : c_server.history[i] = a.put
    BY DEF C!OwnWritesStayVisible
  <2>1. Has(c_answers, a) /\ a.put \in Nat /\ a.ok \in BOOLEAN /\ a = C!Answer(a.put, a.ok)
    BY <1>0, ToldElements
  <2>2. PICK p \in Nat : p = a.put
    BY <2>1
  <2>3. a = C!Answer(p, TRUE)
    BY <2>1, <2>2 DEF C!Answer
  <2>4. Has(c_answers, C!Answer(p, TRUE))
    BY <2>1, <2>3
  <2>5. Sees(c_cache, p)
    BY <2>4 DEF CInv, HeardTold
  <2> QED
    BY <2>2, <2>5 DEF Sees
<1> QED
  BY <1>1, <1>3, <1>4, <1>5 DEF CInv, WritesKeepOrder

(* However often the connection is lost and whatever is answered late, the *)
(* writes of a device reach the server in the order of putData, what their *)
(* callers are told is final and in order, unless held back, and an        *)
(* observer hears of nothing older than a write its caller was told of     *)
(* (FPersistentConnection: restoreState, sendPut, ackPuts).                *)
THEOREM WritesTheorem == PartsSpec => []WritesKeepOrder
<1>1. PartsInit => CInv
  BY InitConnection DEF PartsInit
<1>2. CInv /\ [PartsNext]_all => CInv'
  <2> SUFFICES ASSUME CInv, [PartsNext]_all PROVE CInv'
    OBVIOUS
  <2>1. [C!Next]_C!vars
    BY DEF PartsNext, SessionStep, TeamListStep, FilterListStep, NotificationStep, ConnectionStep,
       all, ConnectionVars, C!vars, C!link, C!client
  <2> QED
    BY <2>1, StepKeepsConnection
<1> QED
  BY <1>1, <1>2, OrderKept, PTL DEF PartsSpec

(* Every variable of the application's parts keeps its type, whichever of  *)
(* them runs.                                                              *)
THEOREM PartsTypeCorrect == PartsSpec => []PartsTypeOK
<1> DEFINE parts == ListsInv /\ CInv /\ IInv
<1>1. PartsInit => parts
  BY InitEstablishes, InitTeamList, InitFilterList, InitMessages, InitConnection DEF PartsInit, ListsInv
<1>2. parts /\ [PartsNext]_all => parts'
  <2> SUFFICES ASSUME parts, [PartsNext]_all PROVE parts'
    OBVIOUS
  <2>1. [Next]_vars /\ [C!Next]_C!vars
    BY DEF PartsNext, SessionStep, TeamListStep, FilterListStep, NotificationStep, ConnectionStep,
       all, ConnectionVars, C!vars, C!link, C!client
  <2> QED
    BY <2>1, StepKeepsConnection, StepKeepsLists, StepPreserves
<1>3. parts => PartsTypeOK
  BY DEF ListsInv, TeamListInv, FilterListInv, MessagesInv, CInv, CTypes, IInv, PartsTypeOK
<1> HIDE DEF parts
<1> QED
  BY <1>1, <1>2, <1>3, PTL DEF PartsSpec
=============================================================================
