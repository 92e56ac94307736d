------------------------------ MODULE FileLock ------------------------------
(***************************************************************************)
(* PosixEnv::LockFile and UnlockFile: a store is to be open once.  Within  *)
(* a process a table of locked names says so, between processes an         *)
(* advisory lock of the kernel, which belongs to a process and which goes  *)
(* away when the process closes ANY descriptor of the file.                *)
(***************************************************************************)
EXTENDS Integers, FiniteSets

CONSTANTS Threads, Processes, ProcessOf, NoProcess

ASSUME FileLockAssumption ==
    ProcessOf \in [Threads -> Processes] /\ NoProcess \notin Processes

VARIABLES
    pc,          \* where each thread is; "held" is between the two calls
    locked_files,   \* processes whose table has the name
    owner,       \* of the kernel's lock
    strayClose   \* closing a descriptor has taken the lock from its holder

vars == <<pc, locked_files, owner, strayClose>>

Places == {"idle", "opened", "refused", "entered", "failed", "held", "unlocked", "removed"}

TypeOK ==
    /\ pc \in [Threads -> Places]
    /\ locked_files \subseteq Processes
    /\ owner \in Processes \cup {NoProcess} /\ strayClose \in BOOLEAN

Init ==
    /\ pc = [t \in Threads |-> "idle"]
    /\ locked_files = {} /\ owner = NoProcess /\ strayClose = FALSE

Goto(t, place) == pc' = [pc EXCEPT ![t] = place]

(* close(fd), by the kernel's rule.                                        *)
Close(t) ==
    LET p == ProcessOf[t]
    IN  /\ owner' = IF owner = p THEN NoProcess ELSE owner
        /\ strayClose' = (strayClose \/
               (owner = p /\ \E u \in Threads \ {t} : ProcessOf[u] = p /\ pc[u] = "held"))

Open(t) == pc[t] = "idle" /\ Goto(t, "opened") /\ UNCHANGED <<locked_files, owner, strayClose>>

(* Seeded defect: the table is not asked.                                  *)
InsertAlways(t) ==
    /\ pc[t] = "opened"
    /\ Goto(t, "entered") /\ locked_files' = locked_files \cup {ProcessOf[t]}
    /\ UNCHANGED <<owner, strayClose>>

(* locks_.Insert: the process may have the file locked already.            *)
Insert(t) ==
    /\ pc[t] = "opened"
    /\ IF ProcessOf[t] \in locked_files
       THEN Goto(t, "refused") /\ UNCHANGED locked_files
       ELSE Goto(t, "entered") /\ locked_files' = locked_files \cup {ProcessOf[t]}
    /\ UNCHANGED <<owner, strayClose>>

CloseRefused(t) == pc[t] = "refused" /\ Close(t) /\ Goto(t, "idle") /\ UNCHANGED locked_files

(* Seeded defect: it does not matter whether fcntl succeeds.               *)
LockIgnoresError(t) ==
    /\ pc[t] = "entered" /\ Goto(t, "held")
    /\ owner' = IF owner = NoProcess THEN ProcessOf[t] ELSE owner
    /\ UNCHANGED <<locked_files, strayClose>>

(* LockOrUnlock(fd, true): fails if another process has the lock.          *)
Lock(t) ==
    /\ pc[t] = "entered"
    /\ IF owner \in {NoProcess, ProcessOf[t]}
       THEN Goto(t, "held") /\ owner' = ProcessOf[t]
       ELSE Goto(t, "failed") /\ UNCHANGED owner
    /\ UNCHANGED <<locked_files, strayClose>>

CloseFailed(t) ==
    /\ pc[t] = "failed" /\ Close(t) /\ Goto(t, "idle")
    /\ locked_files' = locked_files \ {ProcessOf[t]}

(* UnlockFile: the kernel's lock, the table, the descriptor.               *)
Unlock(t) ==
    /\ pc[t] = "held" /\ Goto(t, "unlocked")
    /\ owner' = IF owner = ProcessOf[t] THEN NoProcess ELSE owner
    /\ UNCHANGED <<locked_files, strayClose>>

(* fcntl fails: the call returns at once.  Nobody holds the file, but the  *)
(* name stays in the table and the descriptor open until the process ends. *)
UnlockFails(t) ==
    /\ pc[t] = "held" /\ Goto(t, "idle")
    /\ UNCHANGED <<locked_files, owner, strayClose>>

Remove(t) ==
    /\ pc[t] = "unlocked" /\ Goto(t, "removed")
    /\ locked_files' = locked_files \ {ProcessOf[t]}
    /\ UNCHANGED <<owner, strayClose>>

CloseUnlocked(t) == pc[t] = "removed" /\ Close(t) /\ Goto(t, "idle") /\ UNCHANGED locked_files

(* The process ends: the kernel closes what it had open.                   *)
Exit(p) ==
    /\ pc' = [t \in Threads |-> IF ProcessOf[t] = p THEN "idle" ELSE pc[t]]
    /\ locked_files' = locked_files \ {p}
    /\ owner' = IF owner = p THEN NoProcess ELSE owner
    /\ UNCHANGED strayClose

ThreadStep(t) ==
    \/ Open(t) \/ Insert(t) \/ CloseRefused(t) \/ Lock(t) \/ CloseFailed(t)
    \/ Unlock(t) \/ UnlockFails(t) \/ Remove(t) \/ CloseUnlocked(t)

Next == (\E t \in Threads : ThreadStep(t)) \/ \E p \in Processes : Exit(p)

Spec == Init /\ [][Next]_vars

-----------------------------------------------------------------------------
Holders == {t \in Threads : pc[t] = "held"}

(* Within a process the file is locked once, however its threads           *)
(* interleave and although unlocking takes three steps.                    *)
OneHolderPerProcess ==
    \A t, u \in Holders : ProcessOf[t] = ProcessOf[u] => t = u

(* Two processes have the store open only after one of them has closed a   *)
(* further descriptor of the lock file while it held the lock.             *)
TwoHoldersNeedStrayClose == Cardinality(Holders) > 1 => strayClose

(* "Used to prevent concurrent access to the same db by multiple           *)
(* processes": never two holders.                                          *)
OneHolder == Cardinality(Holders) <= 1
=============================================================================
