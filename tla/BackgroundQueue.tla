-------------------------- MODULE BackgroundQueue ---------------------------
(***************************************************************************)
(* PosixEnv::Schedule: work items run one after the other on a thread that *)
(* is started with the first one and sleeps while there is nothing to do.  *)
(* An item may schedule another one: that is how compactions go on.        *)
(***************************************************************************)
EXTENDS Integers, Sequences

CONSTANT MaxItems      \* bound: calls of Schedule

BackgroundQueueAssumption == MaxItems \in Nat

VARIABLES
    work_queue,
    thread,       \* "none", "ready", "waiting", "woken" or "running"
    running,      \* the item that runs
    scheduled, done   \* how many have been scheduled, have been run

vars == <<work_queue, thread, running, scheduled, done>>

TypeOK ==
    /\ thread \in {"none", "ready", "waiting", "woken", "running"}
    /\ scheduled \in 0..MaxItems /\ done \in 0..scheduled

Init == work_queue = <<>> /\ thread = "none" /\ running = 0 /\ scheduled = 0 /\ done = 0

(* Seeded defect: signals only when there is work already.                 *)
ScheduleSilent ==
    /\ scheduled < MaxItems
    /\ scheduled' = scheduled + 1
    /\ thread' = IF thread = "none" THEN "ready"
                 ELSE IF thread = "waiting" /\ work_queue # <<>> THEN "woken" ELSE thread
    /\ work_queue' = Append(work_queue, scheduled')
    /\ UNCHANGED <<running, done>>

(* A caller, or the running item.  Only an empty queue is signalled.       *)
Schedule ==
    /\ scheduled < MaxItems
    /\ scheduled' = scheduled + 1
    /\ thread' = IF thread = "none" THEN "ready"
                 ELSE IF thread = "waiting" /\ work_queue = <<>> THEN "woken" ELSE thread
    /\ work_queue' = Append(work_queue, scheduled')
    /\ UNCHANGED <<running, done>>

(* Seeded defect: takes the last item.                                     *)
TakeLast ==
    /\ thread \in {"ready", "woken"}
    /\ IF work_queue = <<>>
       THEN thread' = "waiting" /\ UNCHANGED <<work_queue, running>>
       ELSE /\ thread' = "running" /\ running' = work_queue[Len(work_queue)]
            /\ work_queue' = SubSeq(work_queue, 1, Len(work_queue) - 1)
    /\ UNCHANGED <<scheduled, done>>

(* BackgroundThreadMain with the mutex: waits, or takes the first item.    *)
Take ==
    /\ thread \in {"ready", "woken"}
    /\ IF work_queue = <<>>
       THEN thread' = "waiting" /\ UNCHANGED <<work_queue, running>>
       ELSE /\ thread' = "running" /\ running' = Head(work_queue)
            /\ work_queue' = Tail(work_queue)
    /\ UNCHANGED <<scheduled, done>>

(* A condition variable may wake up by itself.                             *)
Spurious == thread = "waiting" /\ thread' = "woken" /\ UNCHANGED <<work_queue, running, scheduled, done>>

Run ==
    /\ thread = "running"
    /\ thread' = "ready" /\ done' = done + 1 /\ running' = 0
    /\ UNCHANGED <<work_queue, scheduled>>

Next == Schedule \/ Take \/ Spurious \/ Run

Fairness == WF_vars(Take) /\ WF_vars(Run)

Spec == Init /\ [][Next]_vars /\ Fairness

-----------------------------------------------------------------------------
(* Items run in the order in which they were scheduled, none twice.        *)
RunsInOrder == thread = "running" => running = done + 1

(* No item stays in the queue: once no more come, all have run.  No signal *)
(* is lost, whatever the thread was doing when it came.                    *)
WorkGetsDone == []<>(done = scheduled)
=============================================================================
