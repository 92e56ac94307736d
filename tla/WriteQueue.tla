----------------------------- MODULE WriteQueue -----------------------------
(***************************************************************************)
(* DBImpl::Write: writers queue up, the one in front logs a group for      *)
(* those behind it, and may first have to wait for the background thread.  *)
(*                                                                         *)
(* Every step is what one thread does while it holds mutex_; it lets go of *)
(* it in the waits, the delay, while it logs, and during background work.  *)
(* A wait ends only when it is signalled.  A writer is one call; its size  *)
(* is one unit of the write buffer and of a group.                         *)
(***************************************************************************)
EXTENDS Sift, FiniteSets, SequencesExt

CONSTANTS
    Writers,
    MaxGroup,                       \* writes in a group (max_size)
    WriteBufferSize,
    L0CompactionTrigger, L0SlowdownWritesTrigger, L0StopWritesTrigger,
    MaxFailures                     \* bound: calls of the environment that fail

WriteQueueAssumption ==
    /\ MaxGroup \in Nat \ {0} /\ WriteBufferSize \in Nat /\ MaxFailures \in Nat
    /\ 0 < L0CompactionTrigger /\ L0CompactionTrigger <= L0StopWritesTrigger

Kinds == {"plain", "sync", "null"}   \* a null batch forces a new memtable

VARIABLES
    kind,       \* of each writer's call
    pc,         \* where each writer is
    signalled,  \* writers whose wait has been signalled
    queue,      \* writers_
    result,     \* [done, ok] of each writer, as set for it or by itself
    delayed, forced,   \* the leader's locals: has slept; still has to switch
    group,      \* the writers logged for by the leader
    log,        \* logged writers, in order
    synced,     \* how many of them a sync has covered
    mem,        \* writers in the memtable
    imm,        \* there is an immutable memtable
    level0,     \* number of level-0 files
    bg,         \* background thread: "idle", "scheduled", "flush", "compact"
    bg_error, sync_error, failures,
    arrival     \* the order in which the calls came

leader == <<delayed, forced, group>>
data == <<log, synced, mem, imm>>
errors == <<bg_error, sync_error, failures>>
vars == <<kind, pc, signalled, queue, result, leader, data, level0, bg, errors, arrival>>

Places == {"idle", "waiting", "room", "asleep", "stalled", "logging", "drain", "returned"}

TypeOK ==
    /\ kind \in [Writers -> Kinds] /\ pc \in [Writers -> Places]
    /\ signalled \subseteq Writers
    /\ Range(queue) \subseteq Writers /\ Len(queue) = Cardinality(Range(queue))
    /\ result \in [Writers -> [done : BOOLEAN, ok : BOOLEAN]]
    /\ synced \in 0..Len(log) /\ level0 \in Nat /\ imm \in BOOLEAN
    /\ bg \in {"idle", "scheduled", "flush", "compact"}
    /\ failures \in 0..MaxFailures

Init ==
    /\ kind \in [Writers -> Kinds]
    /\ pc = [w \in Writers |-> "idle"]
    /\ signalled = {} /\ queue = <<>> /\ arrival = <<>>
    /\ result = [w \in Writers |-> [done |-> FALSE, ok |-> FALSE]]
    /\ delayed = FALSE /\ forced = FALSE /\ group = <<>>
    /\ log = <<>> /\ synced = 0 /\ mem = {} /\ imm = FALSE
    /\ level0 = 0 /\ bg = "idle"
    /\ bg_error = FALSE /\ sync_error = FALSE /\ failures = 0

Failure == failures < MaxFailures /\ failures' = failures + 1

(* Wakes everyone who waits for background_work_finished_signal_.          *)
SignalAll == signalled' = signalled \cup {w \in Writers : pc[w] \in {"stalled", "drain"}}

-----------------------------------------------------------------------------
(* A writer that gets to the front goes on to MakeRoomForWrite.            *)
Lead(w) ==
    /\ pc' = [pc EXCEPT ![w] = "room"]
    /\ delayed' = (kind[w] = "null") /\ forced' = (kind[w] = "null")
    /\ UNCHANGED group

(* Seeded defect: the second in the queue does not wait either.            *)
EnqueueEager(w) ==
    /\ pc[w] = "idle"
    /\ queue' = Append(queue, w) /\ arrival' = Append(arrival, w)
    /\ IF Len(queue) < 2 THEN Lead(w)
       ELSE pc' = [pc EXCEPT ![w] = "waiting"] /\ UNCHANGED leader
    /\ UNCHANGED <<kind, signalled, result, data, level0, bg, errors>>

Enqueue(w) ==
    /\ pc[w] = "idle"
    /\ queue' = Append(queue, w) /\ arrival' = Append(arrival, w)
    /\ IF queue = <<>> THEN Lead(w)
       ELSE pc' = [pc EXCEPT ![w] = "waiting"] /\ UNCHANGED leader
    /\ UNCHANGED <<kind, signalled, result, data, level0, bg, errors>>

(* Where a call goes when its Write is over: a forced compaction then      *)
(* waits until there is no immutable memtable.                             *)
After(w, ok) == IF kind[w] = "null" /\ ok THEN "drain" ELSE "returned"

Wake(w) ==
    /\ pc[w] = "waiting" /\ w \in signalled
    /\ signalled' = signalled \ {w}
    /\ IF result[w].done
       THEN pc' = [pc EXCEPT ![w] = After(w, result[w].ok)] /\ UNCHANGED leader
       ELSE IF Head(queue) = w THEN Lead(w)
       ELSE UNCHANGED <<pc, leader>>
    /\ UNCHANGED <<kind, queue, result, data, level0, bg, errors, arrival>>

(***************************************************************************)
(* The end of Write: the writers of the group are taken off the queue and  *)
(* told the leader's status, the next in front is woken.                   *)
(***************************************************************************)
Position(w) == CHOOSE i \in 1..Len(queue) : queue[i] = w

Finish(w, last, ok) ==
    LET n == Position(last)
        told == {queue[i] : i \in 1..n}
        front == IF n < Len(queue) THEN {queue[n + 1]} ELSE {}
    IN  /\ queue' = SubSeq(queue, n + 1, Len(queue))
        /\ result' = [v \in Writers |-> IF v \in told THEN [done |-> TRUE, ok |-> ok]
                                        ELSE result[v]]
        /\ signalled' = signalled \cup (told \ {w}) \cup front
        /\ pc' = [pc EXCEPT ![w] = After(w, ok)]

-----------------------------------------------------------------------------
(* What MaybeScheduleCompaction leaves of an idle background thread.       *)
MaybeScheduleCompaction(immutable, files, error) ==
    IF ~error /\ (immutable \/ files >= L0CompactionTrigger) THEN "scheduled" ELSE "idle"

(* Seeded defect: a writer that syncs joins a group that does not.         *)
MayJoinAny(first, w) == TRUE

MayJoin(first, w) == ~(kind[w] = "sync" /\ kind[first] # "sync")

(* BuildBatchGroup: the longest prefix of the queue that one record may    *)
(* hold.  A null batch in it adds nothing.                                 *)
BuildBatchGroup ==
    LET first == Head(queue)
        batches(n) == Cardinality({i \in 1..n : kind[queue[i]] # "null"})
        fits(n) == \A i \in 2..n : MayJoin(first, queue[i]) /\ batches(i) <= MaxGroup
    IN  SubSeq(queue, 1, CHOOSE n \in 1..Len(queue) :
                             fits(n) /\ \A m \in (n + 1)..Len(queue) : ~fits(m))

SlowDown == ~delayed /\ level0 >= L0SlowdownWritesTrigger

AtRoom(w) == pc[w] = "room" /\ Head(queue) = w

(* MakeRoomForWrite yields the background error, or cannot make a log.     *)
NoRoom(w) ==
    /\ AtRoom(w)
    /\ \/ bg_error /\ UNCHANGED failures
       \/ /\ ~bg_error /\ ~SlowDown /\ ~imm /\ level0 < L0StopWritesTrigger
          /\ forced \/ Cardinality(mem) > WriteBufferSize
          /\ Failure
    /\ Finish(w, w, FALSE)
    /\ UNCHANGED <<kind, leader, data, level0, bg, bg_error, sync_error, arrival>>

Sleep(w) ==
    /\ AtRoom(w) /\ ~bg_error /\ SlowDown
    /\ delayed' = TRUE
    /\ pc' = [pc EXCEPT ![w] = "asleep"]
    /\ UNCHANGED <<kind, signalled, queue, result, forced, group, data, level0, bg, errors, arrival>>

EndSleep(w) ==
    /\ pc[w] = "asleep"
    /\ pc' = [pc EXCEPT ![w] = "room"]
    /\ UNCHANGED <<kind, signalled, queue, result, leader, data, level0, bg, errors, arrival>>

HasRoom == ~forced /\ Cardinality(mem) <= WriteBufferSize

(* There is room: a group is built and logged, or a null batch is done.    *)
Go(w) ==
    /\ AtRoom(w) /\ ~bg_error /\ ~SlowDown /\ HasRoom
    /\ IF kind[w] = "null"
       THEN Finish(w, w, TRUE) /\ UNCHANGED group
       ELSE /\ group' = BuildBatchGroup
            /\ pc' = [pc EXCEPT ![w] = "logging"]
            /\ UNCHANGED <<queue, result, signalled>>
    /\ UNCHANGED <<kind, delayed, forced, data, level0, bg, errors, arrival>>

(* The previous memtable is not flushed yet, or there are too many files.  *)
Stall(w) ==
    /\ AtRoom(w) /\ ~bg_error /\ ~SlowDown /\ ~HasRoom
    /\ imm \/ level0 >= L0StopWritesTrigger
    /\ pc' = [pc EXCEPT ![w] = "stalled"]
    /\ UNCHANGED <<kind, signalled, queue, result, leader, data, level0, bg, errors, arrival>>

EndStall(w) ==
    /\ pc[w] = "stalled" /\ w \in signalled
    /\ signalled' = signalled \ {w}
    /\ pc' = [pc EXCEPT ![w] = "room"]
    /\ UNCHANGED <<kind, queue, result, leader, data, level0, bg, errors, arrival>>

SwitchMemTable(w) ==
    /\ AtRoom(w) /\ ~bg_error /\ ~SlowDown /\ ~HasRoom
    /\ ~imm /\ level0 < L0StopWritesTrigger
    /\ imm' = TRUE /\ mem' = {}
    /\ forced' = FALSE
    /\ bg' = IF bg = "idle" THEN "scheduled" ELSE bg
    /\ UNCHANGED <<kind, pc, signalled, queue, result, delayed, group, log, synced, level0, errors,
                   arrival>>

NotNull == {w \in Writers : kind[w] # "null"}

(* Seeded defect: the leader's own batch comes last.                       *)
BatchesLeaderLast(g) == Sifted(Tail(g) \o <<Head(g)>>, NotNull)

(* The batches of the group, in the order of its writers.                  *)
Batches(g) == Sifted(g, NotNull)

(* The record is logged, synced for a leader that asked for it, and        *)
(* inserted.                                                               *)
LogGroup(w) ==
    /\ pc[w] = "logging"
    /\ log' = log \o Batches(group)
    /\ synced' = IF kind[w] = "sync" THEN Len(log') ELSE synced
    /\ mem' = mem \cup Range(Batches(group))
    /\ Finish(w, Last(group), TRUE)
    /\ UNCHANGED <<kind, leader, imm, level0, bg, errors, arrival>>

(* Seeded defect: a failed sync is not remembered.                         *)
LogGroupForgets(w) ==
    /\ pc[w] = "logging" /\ Failure
    /\ \/ UNCHANGED <<log, bg_error, sync_error>>
       \/ /\ kind[w] = "sync"
          /\ log' = log \o Batches(group)
          /\ sync_error' = TRUE /\ UNCHANGED bg_error
    /\ Finish(w, Last(group), FALSE)
    /\ UNCHANGED <<kind, leader, synced, mem, imm, level0, bg, arrival>>

(* The append fails; or the sync does, and the error is kept.              *)
LogGroupFails(w) ==
    /\ pc[w] = "logging" /\ Failure
    /\ \/ UNCHANGED <<log, bg_error, sync_error>>
       \/ /\ kind[w] = "sync"
          /\ log' = log \o Batches(group)
          /\ bg_error' = TRUE /\ sync_error' = TRUE
    /\ Finish(w, Last(group), FALSE)
    /\ UNCHANGED <<kind, leader, synced, mem, imm, level0, bg, arrival>>

(* TEST_CompactMemTable goes on when there is no immutable memtable left,  *)
(* or an error; it waits otherwise.                                        *)
Drain(w) ==
    /\ pc[w] = "drain"
    /\ ~imm \/ bg_error
    /\ pc' = [pc EXCEPT ![w] = "returned"]
    /\ result' = [result EXCEPT ![w].ok = ~imm]
    /\ signalled' = signalled \ {w}
    /\ UNCHANGED <<kind, queue, leader, data, level0, bg, errors, arrival>>

-----------------------------------------------------------------------------
(* BackgroundCall: a memtable first, then a compaction of level 0.         *)
BackgroundStart ==
    /\ bg = "scheduled"
    /\ IF bg_error \/ (~imm /\ level0 < L0CompactionTrigger)
       THEN bg' = "idle" /\ SignalAll
       ELSE bg' = (IF imm THEN "flush" ELSE "compact") /\ UNCHANGED signalled
    /\ UNCHANGED <<kind, pc, queue, result, leader, data, level0, errors, arrival>>

(* CompactMemTable: to level 0, or deeper if nothing overlaps.  Within a   *)
(* compaction the thread goes on with that.                                *)
Flush ==
    /\ bg = "flush" \/ (bg = "compact" /\ imm)
    /\ imm' = FALSE
    /\ level0' \in {level0, level0 + 1}
    /\ bg' = IF bg = "compact" THEN bg ELSE MaybeScheduleCompaction(FALSE, level0', bg_error)
    /\ SignalAll
    /\ UNCHANGED <<kind, pc, queue, result, leader, log, synced, mem, errors, arrival>>

(* Seeded defect: the error is recorded, but nobody is told.               *)
RecordBackgroundErrorSilently == bg_error' = TRUE /\ UNCHANGED signalled

RecordBackgroundError == bg_error' = TRUE /\ SignalAll

FlushFails ==
    /\ bg = "flush" \/ (bg = "compact" /\ imm)
    /\ Failure /\ RecordBackgroundError
    /\ bg' = IF bg = "compact" THEN bg ELSE "idle"
    /\ UNCHANGED <<kind, pc, queue, result, leader, data, level0, sync_error, arrival>>

Compact ==
    /\ bg = "compact"
    /\ level0' = 0
    /\ bg' = MaybeScheduleCompaction(imm, 0, bg_error)
    /\ SignalAll
    /\ UNCHANGED <<kind, pc, queue, result, leader, data, errors, arrival>>

CompactFails ==
    /\ bg = "compact" /\ Failure /\ RecordBackgroundError
    /\ bg' = "idle"
    /\ UNCHANGED <<kind, pc, queue, result, leader, data, level0, sync_error, arrival>>

WriterStep(w) ==
    \/ Wake(w) \/ NoRoom(w) \/ Sleep(w) \/ EndSleep(w) \/ Go(w) \/ Stall(w) \/ EndStall(w)
    \/ SwitchMemTable(w) \/ LogGroup(w) \/ LogGroupFails(w) \/ Drain(w)

Background == BackgroundStart \/ Flush \/ FlushFails \/ Compact \/ CompactFails

AllReturned == (\A w \in Writers : pc[w] = "returned") /\ bg = "idle" /\ UNCHANGED vars

Next == Background \/ AllReturned \/ \E w \in Writers : Enqueue(w) \/ WriterStep(w)

(* The threads run: the system schedules each of them and its background.  *)
Fairness == WF_vars(Background) /\ \A w \in Writers : WF_vars(WriterStep(w))

Spec == Init /\ [][Next]_vars /\ Fairness

-----------------------------------------------------------------------------
Acknowledged == {w \in NotNull : result[w].done /\ result[w].ok}

(* An acknowledged write is logged once and has reached the memtable, one  *)
(* that asked for it is synced; a refused one is in no memtable, although  *)
(* others may have been logged with it.                                    *)
AckMeansLogged ==
    /\ \A w \in Acknowledged : Cardinality({i \in 1..Len(log) : log[i] = w}) = 1
    /\ \A w \in Acknowledged : kind[w] = "sync" => \E i \in 1..synced : log[i] = w
    /\ \A w \in Writers : result[w].done /\ ~result[w].ok => w \notin mem

(* Writes are logged in the order in which the calls came.                 *)
LoggedInOrder ==
    \A i, j \in 1..Len(log) : i < j =>
        \E k, l \in 1..Len(arrival) : k < l /\ arrival[k] = log[i] /\ arrival[l] = log[j]

(* There is one leader, in front of the queue: nobody else logs.           *)
OneLeader ==
    \A w \in Writers : pc[w] \in {"room", "asleep", "stalled", "logging"} => Head(queue) = w

(* So the queue serves the calls as if they came one after the other.      *)
ServedInOrder == OneLeader /\ LoggedInOrder /\ AckMeansLogged

(* After a failed sync nothing is logged any more: the log may hold a      *)
(* record whose fate is unknown.                                           *)
NothingAfterSyncError == [][sync_error => log' = log]_vars

(* Every call returns, although it may wait for the queue, for the         *)
(* background thread and for a flush, any of which may fail.               *)
CallsReturn == \A w \in Writers : pc[w] = "waiting" ~> pc[w] = "returned"
=============================================================================
