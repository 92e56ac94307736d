---------------------------- MODULE MCDurability ----------------------------
(***************************************************************************)
(* How the storage engine keeps what it was given: its files across        *)
(* crashes, the queue of writers, the background thread, and a file being  *)
(* written.  Every behaviour is one of a single part.                      *)
(***************************************************************************)
EXTENDS WriteQueue

CONSTANTS
    MaxWrites, MaxMishaps,       \* Recovery
    BufferSize, Sizes, MaxBytes, \* PosixFile
    MaxItems                     \* BackgroundQueue

VARIABLES
    part,   \* which of them runs
    r_logs, r_manifests, r_current, r_tables, r_db, r_acked, r_exposed, r_cut, r_issued,
    r_mishaps, p_appended, p_buf, p_file, p_synced, p_todo, p_failed, p_promised,
    b_work_queue, b_thread, b_running, b_scheduled, b_done

R == INSTANCE Recovery WITH
    logs <- r_logs, manifests <- r_manifests,
    current <- r_current, tables <- r_tables, db <- r_db, acked <- r_acked,
    exposed <- r_exposed, cut <- r_cut, issued <- r_issued, mishaps <- r_mishaps

P == INSTANCE PosixFile WITH
    appended <- p_appended, buf <- p_buf, file <- p_file, synced <- p_synced,
    todo <- p_todo, failed <- p_failed, promised <- p_promised

B == INSTANCE BackgroundQueue WITH
    work_queue <- b_work_queue, thread <- b_thread, running <- b_running,
    scheduled <- b_scheduled, done <- b_done

ASSUME WriteQueueParameters == WriteQueueAssumption
ASSUME RecoveryParameters == R!RecoveryAssumption
ASSUME PosixFileParameters == P!PosixFileAssumption
ASSUME BackgroundQueueParameters == B!BackgroundQueueAssumption

RecoveryVars ==
    <<r_logs, r_manifests, r_current, r_tables, r_db, r_acked, r_exposed, r_cut, r_issued,
      r_mishaps>>
PosixFileVars ==
    <<p_appended, p_buf, p_file, p_synced, p_todo, p_failed, p_promised>>
BackgroundQueueVars == <<b_work_queue, b_thread, b_running, b_scheduled, b_done>>

(* Writers differ in their kinds only: one order of these stands for all.  *)
KindRank == [plain |-> 1, sync |-> 2, null |-> 3]
SortedByKind ==
    \A v, w \in Writers : v < w => KindRank[kind[v]] <= KindRank[kind[w]]

(* The parts share nothing: one of them runs, the others stay as they are. *)
PartsInit ==
    /\ part \in {"recovery", "write_queue", "posix_file", "background_queue"}
    /\ R!Init
    /\ Init
    /\ SortedByKind
    /\ part # "write_queue" => kind = [w \in Writers |-> "plain"]
    /\ P!Init
    /\ B!Init

RecoveryStep ==
    /\ part = "recovery" /\ R!Next
    /\ UNCHANGED <<part, vars, PosixFileVars, BackgroundQueueVars>>

WriteQueueStep ==
    /\ part = "write_queue" /\ Next
    /\ UNCHANGED <<part, RecoveryVars, PosixFileVars, BackgroundQueueVars>>

PosixFileStep ==
    /\ part = "posix_file" /\ P!Next
    /\ UNCHANGED <<part, vars, RecoveryVars, BackgroundQueueVars>>

BackgroundQueueStep ==
    /\ part = "background_queue" /\ B!Next
    /\ UNCHANGED <<part, vars, RecoveryVars, PosixFileVars>>

PartsNext == RecoveryStep \/ WriteQueueStep \/ PosixFileStep \/ BackgroundQueueStep

all == <<part, vars, RecoveryVars, PosixFileVars, BackgroundQueueVars>>

PartsSpec ==
    /\ PartsInit /\ [][PartsNext]_all
    /\ WF_vars(part = "write_queue" /\ Background)
    /\ \A w \in Writers : WF_vars(part = "write_queue" /\ WriterStep(w))
    /\ WF_BackgroundQueueVars(part = "background_queue" /\ B!Take)
    /\ WF_BackgroundQueueVars(part = "background_queue" /\ B!Run)
    /\ WF_RecoveryVars(part = "recovery" /\ R!Opening)

-----------------------------------------------------------------------------
(* The type invariants of the parts.                                       *)
PartsTypeOK ==
    /\ part = "recovery" => R!TypeOK
    /\ part = "write_queue" => TypeOK
    /\ part = "posix_file" => P!TypeOK
    /\ part = "background_queue" => B!TypeOK

(* A crash takes only what was not promised, never leaves a hole in a log, *)
(* never makes a store that was opened once unreadable, and no number of a *)
(* file or a write is given out again (DBImpl::Recover).  Nothing is said  *)
(* of the writes put into a log behind a failed append.                    *)
RecoveryIsSound ==
    part = "recovery" =>
        /\ R!AcknowledgedSurvive /\ R!NoHoleWithinLog /\ R!CorruptNeedsFirstOpen
        /\ R!SequencesFresh /\ R!NumbersFresh

(* The store keeps its contract (Recovery), but for the writes put into a  *)
(* log behind a failed append.                                             *)
ImplementsContract == R!ImplementsContract

(* A file holds what was appended in order, what a successful sync covered *)
(* is on the disk, and background work runs in the order of Schedule       *)
(* (PosixWritableFile, PosixEnv::BackgroundThreadMain).                    *)
EnvironmentKeepsOrder ==
    /\ part = "posix_file" => P!FileInOrder /\ P!SyncedSurvives
    /\ part = "background_queue" => B!RunsInOrder

(* A store comes up again after the last crash, every write returns, and   *)
(* no background work stays in the queue (Recovery, WriteQueue,            *)
(* BackgroundQueue).                                                       *)
StoreMakesProgress ==
    /\ part = "recovery" /\ r_db.step = "down" ~> r_db.step \in {"open", "corrupt"}
    /\ CallsReturn
    /\ B!WorkGetsDone
=============================================================================
