----------------------------- MODULE Connection -----------------------------
(***************************************************************************)
(* FPersistentConnection: how the writes of a device reach the database    *)
(* over connections that break, and what its observers see meanwhile.  One *)
(* path is written and observed.  A write is its number; the server's      *)
(* value is the last of its history, and what the device has heard of it   *)
(* is a position in there.                                                 *)
(***************************************************************************)
EXTENDS Sift, SequencesExt, FiniteSets

CONSTANTS
    MaxPuts,      \* bound: writes of this device
    MaxListens,   \* bound: calls of listen
    MaxEvents     \* bound: writes of others, changes of the token, lost connections,
                  \* failures, refusals, going offline

ConnectionAssumption ==
    {MaxPuts, MaxListens, MaxEvents} \subseteq Nat

VARIABLES
    connectionState,
    scheduledRetry,    \* an attempt to connect waits for its time
    currentFetchTokenAttempt, fetches,   \* fetches of a token not answered
    interrupted,       \* there are reasons not to connect
    authToken,         \* there is one
    listens,           \* the path is observed
    unackedListensCount,
    outstandingPuts, putsToAck,
    answers,           \* what the callers of putData were told, in this order
    cache,             \* position of what the device heard last, 0 if nothing
    up, down,          \* requests and messages on their way
    server,            \* its history, the puts it refused, what it knows of the listener
    used               \* what of the bounds is used up

client == <<authToken, listens, unackedListensCount, outstandingPuts, putsToAck, answers, cache>>
link == <<connectionState, scheduledRetry, currentFetchTokenAttempt, fetches, interrupted>>
vars == <<link, client, up, down, server, used>>

Foreign == 0
Use(what) == used' = [used EXCEPT ![what] = @ + 1]
Event == used.events < MaxEvents /\ Use("events")

connected == connectionState \in {"authenticating", "connected"}
canSendWrites == connectionState = "connected"
realtime == connected \/ connectionState = "connecting"

Answer(p, ok) == [put |-> p, ok |-> ok]
Answered == {a.put : a \in ToSet(answers)}
Pending == 1..used.puts \ Answered      \* the write tree of the device

Auth(restore) == [type |-> "auth", restore |-> restore]
ListenRequest == [type |-> "listen"]
Put(p) == [type |-> "put", put |-> p]

TypeOK ==
    /\ connectionState \in {"disconnected", "getting_token", "connecting", "authenticating", "connected"}
    /\ {scheduledRetry, interrupted, authToken, listens} \subseteq BOOLEAN
    /\ fetches \subseteq 1..currentFetchTokenAttempt
    /\ unackedListensCount \in Nat
    /\ outstandingPuts \subseteq 1..used.puts
    /\ cache \in 0..Len(server.history)
    /\ ToSet(server.history) \subseteq 0..used.puts

Init ==
    /\ connectionState = "disconnected" /\ scheduledRetry = FALSE /\ interrupted = TRUE
    /\ currentFetchTokenAttempt = 0 /\ fetches = {} /\ authToken = FALSE
    /\ listens = FALSE /\ unackedListensCount = 0
    /\ outstandingPuts = {} /\ putsToAck = <<>> /\ answers = <<>>
    /\ cache = 0 /\ up = <<>> /\ down = <<>>
    /\ server = [history |-> <<Foreign>>, registered |-> FALSE, loaded |-> FALSE, asked |-> 0,
                 refused |-> {}]
    /\ used = [puts |-> 0, listens |-> 0, events |-> 0]

-----------------------------------------------------------------------------
(* Connecting.                                                             *)

(* resumeForReason: the first time this is open.                           *)
resumeForReason ==
    /\ interrupted /\ interrupted' = FALSE
    /\ scheduledRetry' = (scheduledRetry \/ connectionState = "disconnected")
    /\ UNCHANGED <<connectionState, currentFetchTokenAttempt, fetches, client, up, down, server, used>>

(* onDisconnect: callbacks of requests are forgotten, outstanding puts and *)
(* the answers held back are not.                                          *)
onDisconnect ==
    /\ connectionState' = "disconnected"
    /\ unackedListensCount' = 0
    /\ scheduledRetry' = ~interrupted'
    /\ down' = <<>>

(* The connection is lost, in use or while it is opened.                   *)
Lost ==
    /\ realtime /\ Event
    /\ interrupted' = interrupted /\ onDisconnect
    /\ UNCHANGED <<currentFetchTokenAttempt, fetches, authToken, listens,
                   outstandingPuts, putsToAck, answers, cache, up, server>>

(* Closes the connection, or cancels the attempt that is scheduled.        *)
interruptForReason ==
    /\ ~interrupted /\ interrupted' = TRUE /\ Event
    /\ IF realtime
       THEN onDisconnect
       ELSE /\ connectionState' = "disconnected" /\ scheduledRetry' = FALSE
            /\ UNCHANGED <<unackedListensCount, down>>
    /\ UNCHANGED <<currentFetchTokenAttempt, fetches, authToken, listens,
                   outstandingPuts, putsToAck, answers, cache, up, server>>

(* The block of tryScheduleReconnect, after the delay.                     *)
Retry ==
    /\ scheduledRetry /\ scheduledRetry' = FALSE
    /\ connectionState' = "getting_token"
    /\ currentFetchTokenAttempt' = currentFetchTokenAttempt + 1
    /\ fetches' = fetches \cup {currentFetchTokenAttempt'}
    /\ UNCHANGED <<interrupted, client, up, down, server, used>>

(* Seeded defect: does not ask whether this was the latest attempt.        *)
FetchedAny(a) ==
    /\ fetches' = fetches \ {a}
    /\ IF connectionState = "getting_token"
       THEN connectionState' = "connecting" /\ authToken' \in BOOLEAN
       ELSE UNCHANGED <<connectionState, authToken>>
    /\ UNCHANGED <<scheduledRetry, currentFetchTokenAttempt, interrupted, used, listens, unackedListensCount,
                   outstandingPuts, putsToAck, answers, cache, up, down, server>>

(* The token arrives, or nil where nobody is signed in.                    *)
Fetched(a) ==
    /\ fetches' = fetches \ {a}
    /\ IF a = currentFetchTokenAttempt /\ connectionState = "getting_token"
       THEN connectionState' = "connecting" /\ authToken' \in BOOLEAN
       ELSE UNCHANGED <<connectionState, authToken>>
    /\ UNCHANGED <<scheduledRetry, currentFetchTokenAttempt, interrupted, used, listens, unackedListensCount,
                   outstandingPuts, putsToAck, answers, cache, up, down, server>>

FetchFailed(a) ==
    /\ Event
    /\ fetches' = fetches \ {a}
    /\ IF a = currentFetchTokenAttempt
       THEN connectionState' = "disconnected" /\ scheduledRetry' = (scheduledRetry \/ ~interrupted)
       ELSE UNCHANGED <<connectionState, scheduledRetry>>
    /\ UNCHANGED <<currentFetchTokenAttempt, interrupted, client, up, down, server>>

-----------------------------------------------------------------------------
(* Sending.                                                                *)

Listens == IF listens THEN <<ListenRequest>> ELSE <<>>
Puts == Sifted([p \in 1..used.puts |-> Put(p)], {Put(p) : p \in outstandingPuts})

(* Seeded defect: the writes are sent again latest first.                  *)
restoreStateLatestFirst(sent) ==
    /\ up' = sent \o Listens \o Reverse(Puts)
    /\ unackedListensCount' = unackedListensCount + Len(Listens)

(* Everything not answered is sent, the puts in the order of putData.      *)
restoreState(sent) ==
    /\ up' = sent \o Listens \o Puts
    /\ unackedListensCount' = unackedListensCount + Len(Listens)

(* The handshake and restoreAuth.  The server ends the last session first. *)
onReady ==
    /\ connectionState = "connecting"
    /\ server' = [server EXCEPT !.registered = FALSE, !.loaded = FALSE, !.asked = 0]
    /\ IF authToken
       THEN connectionState' = "authenticating" /\ up' = <<Auth(TRUE)>> /\ UNCHANGED unackedListensCount
       ELSE connectionState' = "connected" /\ restoreState(<<>>)
    /\ UNCHANGED <<scheduledRetry, currentFetchTokenAttempt, fetches, interrupted, authToken,
                   listens, outstandingPuts, putsToAck, answers, cache, down, used>>

(* set of FRepo: the write is shown at once, and sent if it can be.        *)
putData ==
    /\ used.puts < MaxPuts /\ Use("puts")
    /\ outstandingPuts' = outstandingPuts \cup {used'.puts}
    /\ up' = IF canSendWrites THEN Append(up, Put(used'.puts)) ELSE up
    /\ UNCHANGED <<link, authToken, listens, unackedListensCount, putsToAck, answers, cache, down, server>>

listen ==
    /\ ~listens /\ listens' = TRUE
    /\ used.listens < MaxListens /\ Use("listens")
    /\ IF connected
       THEN up' = Append(up, ListenRequest) /\ unackedListensCount' = unackedListensCount + 1
       ELSE UNCHANGED <<up, unackedListensCount>>
    /\ UNCHANGED <<link, authToken, outstandingPuts, putsToAck, answers, cache, down, server>>

unlisten ==
    /\ listens /\ listens' = FALSE /\ cache' = 0
    /\ up' = IF connected THEN Append(up, [type |-> "unlisten"]) ELSE up
    /\ UNCHANGED <<link, authToken, unackedListensCount, outstandingPuts, putsToAck, answers, down, server, used>>

(* Seeded defect: what was restored once is restored again.                *)
refreshAuthTokenRestores ==
    /\ Event
    /\ authToken' \in BOOLEAN
    /\ up' = IF connected /\ authToken' THEN Append(up, Auth(TRUE)) ELSE up
    /\ UNCHANGED <<link, listens, unackedListensCount, outstandingPuts, putsToAck, answers, cache, down, server>>

(* Somebody signs in or out, or the token is renewed.  Nothing waits for   *)
(* the answer of sendUnauth.                                               *)
refreshAuthToken ==
    /\ Event
    /\ authToken' \in BOOLEAN
    /\ up' = IF connected /\ authToken' THEN Append(up, Auth(FALSE)) ELSE up
    /\ UNCHANGED <<link, listens, unackedListensCount, outstandingPuts, putsToAck, answers, cache, down, server>>

-----------------------------------------------------------------------------
(* The server.  It handles requests in order and may get to those of a     *)
(* lost connection until the next handshake; who has loaded a path hears   *)
(* of every change of it before the answer to the change.                  *)

Send(messages) == down' = IF connected THEN down \o messages ELSE down
News(s) == IF s.loaded THEN <<[type |-> "data", at |-> Len(s.history)]>> ELSE <<>>
Request == Head(up)
Handled(type) == up # <<>> /\ Request.type = type /\ up' = Tail(up)

HandleAuth ==
    /\ Handled("auth")
    /\ \/ Send(<<[type |-> "auth", restore |-> Request.restore, ok |-> TRUE]>>) /\ UNCHANGED used
       \/ Send(<<[type |-> "auth", restore |-> Request.restore, ok |-> FALSE]>>) /\ Event
    /\ UNCHANGED <<link, client, server>>

HandlePut ==
    /\ Handled("put")
    /\ \/ /\ server' = [server EXCEPT !.history = Append(@, Request.put)]
          /\ Send(News(server') \o <<[type |-> "put", put |-> Request.put, ok |-> TRUE]>>)
          /\ UNCHANGED used
       \/ /\ Send(<<[type |-> "put", put |-> Request.put, ok |-> FALSE]>>)
          /\ Event
          /\ server' = [server EXCEPT !.refused = @ \cup {Request.put}]
    /\ UNCHANGED <<link, client>>

HandleListen ==
    /\ Handled("listen")
    /\ server' = [server EXCEPT !.registered = TRUE, !.asked = @ + 1]
    /\ UNCHANGED <<link, client, down, used>>

HandleUnlisten ==
    /\ Handled("unlisten")
    /\ server' = [server EXCEPT !.registered = FALSE, !.loaded = FALSE]
    /\ UNCHANGED <<link, client, down, used>>

(* The data of a path takes its time.                                      *)
LoadPath ==
    /\ server.asked > 0
    /\ server' = [server EXCEPT !.asked = @ - 1, !.loaded = server.registered]
    /\ Send(News(server') \o <<[type |-> "listen"]>>)
    /\ UNCHANGED <<link, client, up, used>>

WriteOfOther ==
    /\ Event
    /\ server' = [server EXCEPT !.history = Append(@, Foreign)]
    /\ Send(News(server'))
    /\ UNCHANGED <<link, client, up>>

-----------------------------------------------------------------------------
(* Messages of the server (onDataMessage).                                 *)

Message == Head(down)
Received(type) == down # <<>> /\ Message.type = type

(* onDataPushWithAction, onDataUpdate.                                     *)
DataUpdate ==
    /\ Received("data") /\ down' = Tail(down)
    /\ cache' = IF listens THEN Message.at ELSE cache
    /\ UNCHANGED <<link, authToken, listens, unackedListensCount, outstandingPuts, putsToAck,
                   answers, up, server, used>>

AuthOk ==
    /\ Received("auth") /\ Message.ok /\ down' = Tail(down)
    /\ connectionState' = "connected"
    /\ IF Message.restore THEN restoreState(up) ELSE UNCHANGED <<up, unackedListensCount>>
    /\ UNCHANGED <<scheduledRetry, currentFetchTokenAttempt, fetches, interrupted, authToken, listens,
                   outstandingPuts, putsToAck, answers, cache, server, used>>

AuthFailed ==
    /\ Received("auth") /\ ~Message.ok
    /\ authToken' = FALSE
    /\ interrupted' = interrupted /\ onDisconnect
    /\ UNCHANGED <<currentFetchTokenAttempt, fetches, listens, outstandingPuts, putsToAck, answers,
                   cache, up, server, used>>

(* Seeded defect: the caller is told at once.                              *)
PutAnsweredAtOnce ==
    /\ Received("put") /\ down' = Tail(down)
    /\ Message.put \in outstandingPuts
    /\ outstandingPuts' = outstandingPuts \ {Message.put}
    /\ answers' = Append(answers, Answer(Message.put, Message.ok))
    /\ UNCHANGED <<link, authToken, listens, unackedListensCount, cache, up, server, used, putsToAck>>

(* The callback of sendPut.  The caller is told only when no listen is on  *)
(* its way: the server's data, which will be shown then, might be older.   *)
PutAnswered ==
    /\ Received("put") /\ down' = Tail(down)
    /\ outstandingPuts' = outstandingPuts \ {Message.put}
    /\ LET answer == Answer(Message.put, Message.ok) IN
       IF Message.put \notin outstandingPuts
       THEN UNCHANGED <<answers, putsToAck>>
       ELSE IF unackedListensCount = 0
       THEN answers' = Append(answers, answer) /\ UNCHANGED putsToAck
       ELSE putsToAck' = Append(putsToAck, answer) /\ UNCHANGED answers
    /\ UNCHANGED <<link, authToken, listens, unackedListensCount, cache, up, server, used>>

(* The callback of sendListen.                                             *)
ListenAnswered ==
    /\ Received("listen") /\ down' = Tail(down)
    /\ unackedListensCount' = unackedListensCount - 1
    /\ IF unackedListensCount' = 0
       THEN answers' = answers \o putsToAck /\ putsToAck' = <<>>
       ELSE UNCHANGED <<answers, putsToAck>>
    /\ UNCHANGED <<link, authToken, listens, outstandingPuts, cache, up, server, used>>

-----------------------------------------------------------------------------
Connecting == Retry \/ (\E a \in fetches : Fetched(a)) \/ onReady
Receiving == DataUpdate \/ AuthOk \/ AuthFailed \/ PutAnswered \/ ListenAnswered
Serving == HandleAuth \/ HandlePut \/ HandleListen \/ HandleUnlisten \/ LoadPath

Next ==
    \/ resumeForReason \/ interruptForReason \/ Lost \/ Connecting
    \/ \E a \in fetches : FetchFailed(a)
    \/ putData \/ listen \/ unlisten \/ refreshAuthToken
    \/ Serving \/ WriteOfOther \/ Receiving

Spec == Init /\ [][Next]_vars

(* The main queue runs, tokens are fetched, and the network delivers while *)
(* it is there.                                                            *)
FairSpec == Spec /\ WF_vars(Connecting) /\ WF_vars(Receiving) /\ WF_vars(Serving) /\ WF_vars(LoadPath)

-----------------------------------------------------------------------------
(* The assertions of the code: an attempt to connect is scheduled only     *)
(* while there is no connection, and always then, unless interrupted; no   *)
(* more listens are answered than were sent.                               *)
OneAttempt ==
    /\ scheduledRetry <=> connectionState = "disconnected" /\ ~interrupted
    /\ unackedListensCount >= Len(Sifted(down, {ListenRequest}))

(* A write reaches the server only after those before it, however often    *)
(* they are sent, unless these were refused (restoreState).                *)
AppliedInOrder ==
    \A i \in DOMAIN server.history : \A p \in 1..(server.history[i] - 1) :
        \/ \E j \in 1..(i - 1) : server.history[j] = p
        \/ p \in server.refused

(* What a caller was told is final: the write is not sent once more        *)
(* (sendPut), and the caller is told once.                                 *)
AnswersAreFinal ==
    /\ \A a \in ToSet(answers) : Put(a.put) \notin ToSet(up) /\ a.put \notin outstandingPuts
    /\ Cardinality(Answered) = Len(answers)

(* The observer of a device does not see values from before a write of the *)
(* device: while none is pending, the data heard last is not older than    *)
(* any that was answered (unackedListensCount, ackPuts).                   *)
OwnWritesStayVisible ==
    Pending = {} /\ cache # 0 =>
        \A a \in ToSet(answers) : a.ok => \E i \in 1..cache : server.history[i] = a.put

(* An answer is overtaken only if it was held back for a listen and the    *)
(* connection was lost before that was answered.                           *)
AnswersInOrder ==
    \A p \in Pending : (\E q \in Answered : p < q) => p \in {a.put : a \in ToSet(putsToAck)}

(* Every write is answered while the device is on line, except that one    *)
(* held back may wait for the next listen.                                 *)
PutsAreAnswered ==
    []<>(interrupted \/ Pending \subseteq (IF listens THEN {} ELSE {a.put : a \in ToSet(putsToAck)}))
=============================================================================
