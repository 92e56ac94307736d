--------------------------- MODULE Notifications ---------------------------
(***************************************************************************)
(* NotificationVC: the organisers' messages, newest first.  One observer   *)
(* of the whole messages subtree replaces the array, sorts it and reloads  *)
(* the table; an observed value is shown as a whole or not at all.         *)
(***************************************************************************)
EXTENDS Integers, Sequences, FiniteSets, Functions, SequencesExt

CONSTANTS
    Keys,        \* keys under messages
    Dates,       \* timestamps in the format of parseISODateString
    Garbled,     \* a timestamp in another format
    Malformed,   \* a message without one of MessageData's three texts
    MaxChanges   \* bound: changes that the organisers make

DatesAssumption ==
    /\ Dates \subseteq Nat \ {0}
    /\ {Garbled, Malformed} \cap Dates = {} /\ Garbled # Malformed
    /\ IsFiniteSet(Keys) /\ MaxChanges \in Nat

VARIABLES
    messages,     \* the messages subtree: key |-> timestamp, or Malformed
    events,       \* its values on their way to the observer
    messagesData, \* the array, which is what the table shows: <<key, timestamp>>
    crashed,      \* JSONSerialization was given no dictionary and raised
    changes       \* changes so far

vars == <<messages, events, messagesData, crashed, changes>>

Stamps == Dates \cup {Garbled}
Tables == UNION {[S -> Stamps \cup {Malformed}] : S \in SUBSET Keys}

TypeOK ==
    /\ messages \in Tables
    /\ events \in Seq(Tables)
    /\ messagesData \in Seq(Keys \X Stamps)
    /\ crashed \in BOOLEAN
    /\ changes \in 0..MaxChanges

(* viewDidLoad registers the observer, which fires with what there is.     *)
Init ==
    /\ messages \in Tables
    /\ events = <<messages>>
    /\ messagesData = <<>>
    /\ crashed = FALSE
    /\ changes = 0

(* An organiser puts, replaces or takes away a message.                    *)
Change(k) ==
    /\ changes < MaxChanges /\ changes' = changes + 1
    /\ \/ messages' = [d \in DOMAIN messages \ {k} |-> messages[d]]
       \/ \E m \in Stamps \cup {Malformed} :
            messages' = [d \in DOMAIN messages \cup {k} |-> IF d = k THEN m ELSE messages[d]]
    /\ messages' # messages
    /\ events' = Append(events, messages')
    /\ UNCHANGED <<messagesData, crashed>>

(* Any text in another format is taken for the first second of 1970.       *)
parseISODateString(isoDate) == IF isoDate = Garbled THEN 0 ELSE isoDate

(* Seeded defect: a text that is no date is not given one.                 *)
SortedGarbledDropped(table) ==
    {s \in SetToSeqs({<<k, table[k]>> : k \in {d \in DOMAIN table : table[d] # Garbled}}) :
        \A i, l \in DOMAIN s : i < l => s[i][2] >= s[l][2]}

(* Seeded defect: the oldest come first.                                   *)
SortedOldestFirst(table) ==
    {s \in SetToSeqs({<<k, table[k]>> : k \in DOMAIN table}) :
        \A i, l \in DOMAIN s :
            i < l => parseISODateString(s[i][2]) <= parseISODateString(s[l][2])}

(* The values of a dictionary come in any order, and so do, after a sort   *)
(* that promises no more, messages of the same date.                       *)
Sorted(table) ==
    {s \in SetToSeqs({<<k, table[k]>> : k \in DOMAIN table}) :
        \A i, l \in DOMAIN s :
            i < l => parseISODateString(s[i][2]) >= parseISODateString(s[l][2])}

(* The observer.  An empty subtree is a null, which JSONSerialization does *)
(* not take (it raises, and "catch" catches errors only); one message that *)
(* does not decode makes the decoding of all fail.                         *)
MessagesEvent ==
    /\ ~crashed
    /\ events # <<>>
    /\ events' = Tail(events)
    /\ IF DOMAIN Head(events) = {}
       THEN crashed' = TRUE /\ UNCHANGED messagesData
       ELSE /\ IF Malformed \in Range(Head(events)) THEN UNCHANGED messagesData
               ELSE messagesData' \in Sorted(Head(events))
            /\ UNCHANGED crashed
    /\ UNCHANGED <<messages, changes>>

Next == MessagesEvent \/ \E k \in Keys : Change(k)

Spec == Init /\ [][Next]_vars /\ WF_vars(MessagesEvent)

-----------------------------------------------------------------------------
Decodes(table) == DOMAIN table # {} /\ Malformed \notin Range(table)

(* Once every value has been observed the table shows all messages and no  *)
(* other, unless one of them does not decode (or the app is gone): a list  *)
(* that was held back earlier comes back whole.                            *)
NothingHeldBack ==
    events = <<>> /\ ~crashed /\ Decodes(messages)
        => Range(messagesData) = {<<k, messages[k]>> : k \in DOMAIN messages}

(* A message that has a date is never below one that is older or has none, *)
(* whatever the order in which they were put, and none is shown twice.     *)
NewestFirst ==
    /\ IsInjective(messagesData)
    /\ \A i, l \in DOMAIN messagesData :
          i < l /\ messagesData[l][2] \in Dates
              => /\ messagesData[i][2] \in Dates
                 /\ messagesData[i][2] >= messagesData[l][2]

(* When the organisers rest, what they have posted comes to be shown, and  *)
(* stays, unless a message does not decode or there was a time without any. *)
MessagesAreShown ==
    <>[](crashed \/ ~Decodes(messages)
            \/ Range(messagesData) = {<<k, messages[k]>> : k \in DOMAIN messages})
=============================================================================
