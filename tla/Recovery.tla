------------------------------ MODULE Recovery ------------------------------
(***************************************************************************)
(* The storage engine's files across crashes: the write-ahead logs, the    *)
(* manifests and the file CURRENT that names one of them, the tables; and  *)
(* how DB::Open brings a database back.                                    *)
(*                                                                         *)
(* A crash may come between any two steps.  It takes a suffix of what was  *)
(* written to each log and manifest and not synced; that a created,        *)
(* renamed or deleted file stays so is assumed of the file system.  A      *)
(* write is its id and its sequence number; levels and keys are in         *)
(* Compaction, the bytes of a log in LogFormat.                            *)
(***************************************************************************)
EXTENDS Integers, Sequences, FiniteSets, FiniteSetsExt, SequencesExt

CONSTANTS
    MaxWrites,    \* bound: writes, acknowledged or not
    MaxMishaps    \* bound: crashes, clean ends and calls of the environment that fail

RecoveryAssumption == MaxWrites \in Nat /\ MaxMishaps \in Nat

Torn == [id |-> 0, seq |-> 0]   \* a stretch of a log that its reader drops
NoEdit == [none |-> TRUE]

VARIABLES
    logs,        \* number |-> [recs, synced]
    manifests,   \* number |-> [recs, synced], records are version edits
    current,     \* the manifest CURRENT names, 0 if there is no CURRENT
    tables,      \* number |-> writes
    db,          \* the memory of the process
    acked,       \* [id, log, sync] of every acknowledged write
    exposed,     \* writes put into a log behind a failed append
    cut,         \* records that crashes took
    issued, mishaps

disk == <<logs, manifests, current, tables>>
ghosts == <<acked, exposed, cut, issued>>
vars == <<disk, db, ghosts, mishaps>>

(* The process is down, has failed to open for good, is in a step of       *)
(* DB::Open, or is open; a background edit goes through its own steps.     *)
Steps == {"down", "corrupt", "current", "versions", "logs", "newlog", "open"}
EditSteps == {"none", "build", "log", "sync", "point", "install", "collect"}

Down == [step |-> "down", edit |-> NoEdit, at |-> "none", mem |-> {}, imm |-> {}, log |-> 0,
         log_number |-> 0, files |-> {}, next_file |-> 2, manifest |-> 0, described |-> FALSE,
         last_sequence |-> 0, todo |-> <<>>, bg_error |-> FALSE]

Init ==
    /\ logs = [n \in {} |-> {}] /\ manifests = [n \in {} |-> {}] /\ tables = [n \in {} |-> {}]
    /\ current = 0
    /\ db = Down
    /\ acked = {} /\ exposed = {} /\ cut = {} /\ issued = 0
    /\ mishaps = 0

File(recs, synced) == [recs |-> recs, synced |-> synced]
With(files, n, f) == [m \in DOMAIN files \cup {n} |-> IF m = n THEN f ELSE files[m]]
Only(files, S) == [n \in DOMAIN files \cap S |-> files[n]]
Mishap == mishaps < MaxMishaps /\ mishaps' = mishaps + 1

(* What a log reader returns: at a bad record it drops the rest of the     *)
(* block, and goes on with the next one.                                   *)
Readable(recs) == Range(recs) \ {Torn}

-----------------------------------------------------------------------------
(* A record that is logged, synced if asked for, and put into the          *)
(* memtable.  After a failed append the log writer's place in the block is *)
(* wrong: what it writes from then on may lie in the part of a block that  *)
(* the reader drops, or across the end of a block.                         *)
Write(sync) ==
    LET log == logs[db.log]
        w == [id |-> issued + 1, seq |-> db.last_sequence + 1]
    IN  /\ db.step = "open" /\ ~db.bg_error /\ issued < MaxWrites
        /\ issued' = issued + 1
        /\ \E x \in IF Torn \in Range(log.recs) THEN {w, Torn} ELSE {w} :
              logs' = [logs EXCEPT ![db.log] =
                  File(Append(log.recs, x), IF sync THEN Len(log.recs) + 1 ELSE log.synced)]
        /\ db' = [db EXCEPT !.mem = @ \cup {w}, !.last_sequence = @ + 1]
        /\ acked' = acked \cup {[id |-> w.id, log |-> db.log, sync |-> sync]}
        /\ exposed' = IF Torn \in Range(log.recs) THEN exposed \cup {w.id} ELSE exposed
        /\ UNCHANGED <<manifests, current, tables, cut, mishaps>>

(* The append fails: even if nothing was written, the log writer counts    *)
(* the record as written, so its place in the block is wrong.  Or the sync *)
(* fails, with the record written or a part of it, and no later write may  *)
(* succeed.  The sequence number is used up.                               *)
WriteFails ==
    LET log == logs[db.log]
        w == [id |-> issued + 1, seq |-> db.last_sequence + 1]
    IN  /\ db.step = "open" /\ ~db.bg_error /\ issued < MaxWrites /\ Mishap
        /\ issued' = issued + 1
        /\ \E x \in {Torn, w}, sync \in BOOLEAN :
              /\ x = w => sync
              /\ logs' = [logs EXCEPT ![db.log].recs = Append(@, x)]
              /\ db' = [db EXCEPT !.last_sequence = @ + 1, !.bg_error = sync]
        /\ UNCHANGED <<manifests, current, tables, acked, exposed, cut>>

(* MakeRoomForWrite, last branch: a new log; the old one is closed, but    *)
(* not synced.                                                             *)
SwitchMemTable ==
    /\ db.step = "open" /\ ~db.bg_error
    /\ db.mem # {} /\ db.imm = {}
    /\ logs' = With(logs, db.next_file, File(<<>>, 0))
    /\ db' = [db EXCEPT !.imm = db.mem, !.mem = {}, !.log = db.next_file, !.next_file = @ + 1]
    /\ UNCHANGED <<manifests, current, tables, ghosts, mishaps>>

-----------------------------------------------------------------------------
NewEdit(add, del, log) == [add |-> add, del |-> del, log |-> log]

(* Seeded defect: the edit drops the logs, but not only after the table is *)
(* there.                                                                  *)
CompactMemTableNoTable ==
    /\ db.step = "open" /\ db.at = "none" /\ ~db.bg_error /\ db.imm # {}
    /\ db' = [db EXCEPT !.at = "log", !.edit = NewEdit({}, {}, db.log)]
    /\ UNCHANGED <<disk, ghosts, mishaps>>

(* CompactMemTable up to LogAndApply: the table is complete and synced.    *)
CompactMemTable ==
    /\ db.step = "open" /\ db.at = "none" /\ ~db.bg_error /\ db.imm # {}
    /\ tables' = With(tables, db.next_file, db.imm)
    /\ db' = [db EXCEPT !.next_file = @ + 1, !.at = "log",
                        !.edit = NewEdit({db.next_file}, {}, db.log)]
    /\ UNCHANGED <<logs, manifests, current, ghosts, mishaps>>

(* A compaction of all tables into one, up to LogAndApply.                 *)
Compact ==
    /\ db.step = "open" /\ db.at = "none" /\ ~db.bg_error
    /\ db.imm = {} /\ Cardinality(db.files) > 1
    /\ tables' = With(tables, db.next_file, UNION {tables[n] : n \in db.files})
    /\ db' = [db EXCEPT !.next_file = @ + 1, !.at = "log",
                        !.edit = NewEdit({db.next_file}, db.files, db.log_number)]
    /\ UNCHANGED <<logs, manifests, current, ghosts, mishaps>>

(***************************************************************************)
(* LogAndApply.  The edit gets the counters and goes to the manifest; the  *)
(* first one of a process starts a new manifest with a snapshot.           *)
(***************************************************************************)
Edit(add, del, log, next, seq) ==
    [add |-> add, del |-> del, log |-> log, next |-> next, seq |-> seq]
Snapshot == Edit(db.files, {}, 0, 0, 0)

LogEdit ==
    LET e == Edit(db.edit.add, db.edit.del, db.edit.log, db.next_file, db.last_sequence)
    IN  /\ db.at = "log"
        /\ manifests' = IF db.described
               THEN [manifests EXCEPT ![db.manifest].recs = Append(@, e)]
               ELSE With(manifests, db.manifest, File(<<Snapshot, e>>, 0))
        /\ db' = [db EXCEPT !.at = "sync"]
        /\ UNCHANGED <<logs, current, tables, ghosts, mishaps>>

(* Seeded defect: CURRENT is moved although the manifest is not synced.    *)
SyncManifestNever ==
    /\ db.at = "sync"
    /\ db' = [db EXCEPT !.at = IF db.described THEN "install" ELSE "point"]
    /\ UNCHANGED <<disk, ghosts, mishaps>>

SyncManifest ==
    /\ db.at = "sync"
    /\ manifests' = [manifests EXCEPT ![db.manifest].synced = Len(manifests[db.manifest].recs)]
    /\ db' = [db EXCEPT !.at = IF db.described THEN "install" ELSE "point"]
    /\ UNCHANGED <<logs, current, tables, ghosts, mishaps>>

SetCurrentFile ==
    /\ db.at = "point"
    /\ current' = db.manifest
    /\ db' = [db EXCEPT !.at = "install", !.described = TRUE]
    /\ UNCHANGED <<logs, manifests, tables, ghosts, mishaps>>

(* The manifest cannot be written: an opening fails and takes the new      *)
(* manifest back, a background edit stops all writes, and here all edits:  *)
(* a compaction that is under way in the code may still add one behind it. *)
LogAndApplyFails ==
    /\ db.at \in {"log", "sync", "point"} /\ Mishap
    /\ IF db.described
       THEN db' = [db EXCEPT !.at = "none", !.edit = NoEdit, !.bg_error = TRUE]
            /\ UNCHANGED manifests
       ELSE db' = Down /\ manifests' = Only(manifests, DOMAIN manifests \ {db.manifest})
    /\ UNCHANGED <<logs, current, tables, ghosts>>

(* The version is installed and the immutable memtable released.           *)
Install ==
    /\ db.at = "install"
    /\ db' = [db EXCEPT !.files = (@ \ db.edit.del) \cup db.edit.add,
                        !.imm = IF db.edit.log = db.log THEN {} ELSE @,
                        !.log_number = db.edit.log, !.edit = NoEdit, !.at = "collect"]
    /\ UNCHANGED <<disk, ghosts, mishaps>>

KeepsLog(n) == n >= db.log_number

(* Seeded defect: the manifest in use is deleted.                          *)
KeepsManifestNewer(n) == n > db.manifest

KeepsManifest(n) == n >= db.manifest

DeleteObsoleteFiles ==
    /\ db.at = "collect"
    /\ IF db.bg_error THEN UNCHANGED <<logs, manifests, tables>>
       ELSE /\ logs' = Only(logs, {n \in DOMAIN logs : KeepsLog(n)})
            /\ manifests' = Only(manifests, {n \in DOMAIN manifests : KeepsManifest(n)})
            /\ tables' = Only(tables, db.files)
    /\ db' = [db EXCEPT !.at = "none", !.step = "open"]
    /\ UNCHANGED <<current, ghosts, mishaps>>

-----------------------------------------------------------------------------
(***************************************************************************)
(* DB::Open.  Without a CURRENT file a database is created: its manifest   *)
(* is closed but not synced before CURRENT names it.                       *)
(***************************************************************************)
NewDB ==
    /\ db.step = "down" /\ current = 0
    /\ manifests' = With(manifests, 1, File(<<Edit({}, {}, 0, 2, 0)>>, 0))
    /\ db' = [db EXCEPT !.step = "current"]
    /\ UNCHANGED <<logs, current, tables, ghosts, mishaps>>

PointToNewDB ==
    /\ db.step = "current"
    /\ current' = 1
    /\ db' = [db EXCEPT !.step = "versions"]
    /\ UNCHANGED <<logs, manifests, tables, ghosts, mishaps>>

OpenExisting ==
    /\ db.step = "down" /\ current # 0
    /\ db' = [db EXCEPT !.step = "versions"]
    /\ UNCHANGED <<disk, ghosts, mishaps>>

(* The version a manifest describes.                                       *)
Apply(recs) ==
    LET counted == {i \in 1..Len(recs) : recs[i].next # 0}
        last == IF counted = {} THEN Edit({}, {}, 0, 0, 0) ELSE recs[Max(counted)]
        files == {n \in UNION {e.add : e \in Range(recs)} :
                     \A i \in 1..Len(recs) : n \in recs[i].del =>
                         \E k \in i..Len(recs) : n \in recs[k].add}
    IN  [files |-> files, log |-> last.log, next |-> last.next, seq |-> last.seq]

(* Seeded defect: the log the manifest names is not replayed.              *)
LogsAfter(n) ==
    LET S == {m \in DOMAIN logs : m > n}
    IN  [i \in 1..Cardinality(S) |->
            CHOOSE m \in S : Cardinality({k \in S : k < m}) = i - 1]

LogsFrom(n) ==
    LET S == {m \in DOMAIN logs : m >= n}
    IN  [i \in 1..Cardinality(S) |->
            CHOOSE m \in S : Cardinality({k \in S : k < m}) = i - 1]

(* Seeded defect: the number of the new manifest is given out again.       *)
NextFileAgain(v) == v.next

NextFile(v) == v.next + 1

(* VersionSet::Recover and the first half of DBImpl::Recover: the version, *)
(* a number for the new manifest, and the logs to replay.                  *)
RecoverVersions ==
    LET v == Apply(manifests[current].recs)
    IN  /\ db.step = "versions"
        /\ db' = IF current \notin DOMAIN manifests \/ v.next = 0
                    \/ ~(v.files \subseteq DOMAIN tables \cup DOMAIN logs \cup DOMAIN manifests)
                 THEN [Down EXCEPT !.step = "corrupt"]
                 ELSE [db EXCEPT !.step = "logs", !.files = v.files, !.log_number = v.log,
                                 !.manifest = v.next, !.next_file = NextFile(v),
                                 !.last_sequence = v.seq, !.todo = LogsFrom(v.log),
                                 !.edit = NewEdit({}, {}, 0)]
        /\ UNCHANGED <<disk, ghosts, mishaps>>

(* Seeded defects: a memtable that filled up in the middle of the log is   *)
(* not added; the sequence numbers of the log are not taken over.          *)
RecoverLogFileLastTable ==
    LET n == Head(db.todo)
        recs == Readable(logs[n].recs)
        newest == {r \in recs : \A q \in recs : q.id <= r.id}
    IN  /\ db.step = "logs" /\ db.todo # <<>>
        /\ tables' = IF recs = {} THEN tables ELSE With(tables, db.next_file, newest)
        /\ db' = [db EXCEPT
               !.todo = Tail(@),
               !.edit.add = IF recs = {} THEN @ ELSE @ \cup {db.next_file},
               !.next_file = Max({IF recs = {} THEN @ ELSE @ + 1, n + 1}),
               !.last_sequence = Max({r.seq : r \in recs} \cup {@})]
        /\ UNCHANGED <<logs, manifests, current, ghosts, mishaps>>

RecoverLogFileNoSequence ==
    LET n == Head(db.todo)
        recs == Readable(logs[n].recs)
    IN  /\ db.step = "logs" /\ db.todo # <<>>
        /\ tables' = IF recs = {} THEN tables ELSE With(tables, db.next_file, recs)
        /\ db' = [db EXCEPT
               !.todo = Tail(@),
               !.edit.add = IF recs = {} THEN @ ELSE @ \cup {db.next_file},
               !.next_file = Max({IF recs = {} THEN @ ELSE @ + 1, n + 1})]
        /\ UNCHANGED <<logs, manifests, current, ghosts, mishaps>>

(* RecoverLogFile: what the log holds becomes a table.                     *)
RecoverLogFile ==
    LET n == Head(db.todo)
        recs == Readable(logs[n].recs)
        seqs == {r.seq : r \in recs}
    IN  /\ db.step = "logs" /\ db.todo # <<>>
        /\ tables' = IF recs = {} THEN tables ELSE With(tables, db.next_file, recs)
        /\ db' = [db EXCEPT
               !.todo = Tail(@),
               !.edit.add = IF recs = {} THEN @ ELSE @ \cup {db.next_file},
               !.next_file = Max({IF recs = {} THEN @ ELSE @ + 1, n + 1}),
               !.last_sequence = Max(seqs \cup {@})]
        /\ UNCHANGED <<logs, manifests, current, ghosts, mishaps>>

(* Seeded defect: a new log only if an old one was replayed.               *)
CreateLogIfReplayed ==
    /\ db.step = "logs" /\ db.todo = <<>> /\ db.edit.add # {}
    /\ logs' = With(logs, db.next_file, File(<<>>, 0))
    /\ db' = [db EXCEPT !.step = "newlog", !.at = "log", !.log = db.next_file,
                        !.next_file = @ + 1, !.edit.log = db.next_file]
    /\ UNCHANGED <<manifests, current, tables, ghosts, mishaps>>

(* The new log; LogAndApply and DeleteObsoleteFiles follow.                *)
CreateLog ==
    /\ db.step = "logs" /\ db.todo = <<>>
    /\ logs' = With(logs, db.next_file, File(<<>>, 0))
    /\ db' = [db EXCEPT !.step = "newlog", !.at = "log", !.log = db.next_file,
                        !.next_file = @ + 1, !.edit.log = db.next_file]
    /\ UNCHANGED <<manifests, current, tables, ghosts, mishaps>>

(* A step of the opening fails: the process may open again.                *)
OpenFails ==
    /\ db.step \in {"current", "versions", "logs"} /\ Mishap
    /\ db' = Down
    /\ UNCHANGED <<disk, ghosts>>

-----------------------------------------------------------------------------
(* What a crash may leave of some files: of each at least what is synced.  *)
LeftOver(files) ==
    LET unsynced == {n \in DOMAIN files : files[n].synced < Len(files[n].recs)}
        left(n) == files[n].synced..Len(files[n].recs)
        lengths == {k \in [unsynced -> UNION {left(n) : n \in unsynced}] :
                       \A n \in unsynced : k[n] \in left(n)}
    IN  {[n \in DOMAIN files |-> IF n \in unsynced THEN File(SubSeq(files[n].recs, 1, k[n]), k[n])
                                 ELSE files[n]] : k \in lengths}

Crash ==
    /\ db.step \notin {"down", "corrupt"} /\ Mishap
    /\ logs' \in LeftOver(logs)
    /\ manifests' \in LeftOver(manifests)
    /\ cut' = cut \cup UNION {{r.id : r \in Range(logs[n].recs)}
                                 \ {r.id : r \in Range(logs'[n].recs)} : n \in DOMAIN logs}
    /\ db' = Down
    /\ UNCHANGED <<current, tables, acked, exposed, issued>>

(* A clean end loses nothing, and syncs nothing.                           *)
Close ==
    /\ db.step = "open" /\ db.at = "none" /\ Mishap
    /\ db' = Down
    /\ UNCHANGED <<disk, ghosts>>

Opening ==
    \/ NewDB \/ PointToNewDB \/ OpenExisting \/ RecoverVersions \/ RecoverLogFile \/ CreateLog
    \/ LogEdit \/ SyncManifest \/ SetCurrentFile \/ Install \/ DeleteObsoleteFiles

Next ==
    \/ Opening
    \/ \E sync \in BOOLEAN : Write(sync)
    \/ WriteFails \/ SwitchMemTable \/ CompactMemTable \/ Compact
    \/ LogAndApplyFails \/ OpenFails \/ Crash \/ Close

Spec == Init /\ [][Next]_vars /\ WF_vars(Opening)

-----------------------------------------------------------------------------
Ids(ws) == {w.id : w \in ws} \ {0}

(* What the next incarnation finds if nothing more happens.                *)
Recoverable ==
    IF current \notin DOMAIN manifests THEN {}
    ELSE LET v == Apply(manifests[current].recs)
         IN  (UNION {tables[n] : n \in v.files \cap DOMAIN tables})
                 \cup UNION {Readable(logs[n].recs) : n \in {m \in DOMAIN logs : m >= v.log}}

Contents == db.mem \cup db.imm \cup UNION {tables[n] : n \in db.files}

TypeOK ==
    /\ db.step \in Steps /\ db.at \in EditSteps
    /\ \A n \in DOMAIN logs : logs[n].synced \in 0..Len(logs[n].recs)
    /\ \A n \in DOMAIN manifests : manifests[n].synced \in 0..Len(manifests[n].recs)
    /\ \A n \in DOMAIN tables : Ids(tables[n]) \subseteq 1..issued
    /\ Ids(Contents) \subseteq 1..issued
    /\ current \in DOMAIN manifests \cup {0}

(* An open database has every acknowledged write that no crash cut off a   *)
(* log and that was not put into one behind a failed append.               *)
AcknowledgedSurvive ==
    db.step = "open" => {a.id : a \in acked} \ (cut \cup exposed) \subseteq Ids(Contents)

(* What a crash takes from one log is its end: a write survives only with  *)
(* the earlier ones of its log, those aside that were put behind a failed  *)
(* append.                                                                 *)
NoHoleWithinLog ==
    db.step = "open" =>
        \A a, b \in acked : /\ a.log = b.log /\ a.id < b.id /\ a.id \notin exposed
                            /\ b.id \in Ids(Contents)
                            => a.id \in Ids(Contents)

(* "CURRENT points to a non-existent file", "missing files", "no meta-     *)
(* nextfile entry": a database that was opened once is never refused.      *)
CorruptNeedsFirstOpen == db.step = "corrupt" => current = 1

(* The creation of a database is committed when its descriptor is created: *)
(* it can be opened after a crash at any time.                             *)
NeverCorrupt == db.step # "corrupt"

(* No two writes of a store share a sequence number, and the next one is   *)
(* newer than all: after a recovery, too.                                  *)
SequencesFresh ==
    db.step = "open" =>
        /\ \A w \in Contents : w.seq <= db.last_sequence
        /\ \A w, x \in Contents : w.seq = x.seq => w = x

(* Tables, logs and the manifest in use have different numbers, and a new  *)
(* file gets another.                                                      *)
NumbersFresh ==
    LET numbers == <<db.files, {n \in DOMAIN logs : n >= db.log_number}, {db.manifest}>>
    IN  db.step = "open" =>
            /\ \A i, j \in 1..3 : i # j => numbers[i] \cap numbers[j] = {}
            /\ \A i \in 1..3 : \A n \in numbers[i] : n < db.next_file

(* A database comes up again after the last crash, unless it is refused.   *)
ComesUp == db.step = "down" ~> db.step \in {"open", "corrupt"}

Promised == {a.id : a \in {x \in acked : x.sync}} \ exposed

Contract == INSTANCE StoreContract
    WITH Writes <- 1..MaxWrites, contents <- Ids(Recoverable) \ exposed, promised <- Promised,
         up <- db.step # "down"

ImplementsContract == Contract!Spec
=============================================================================
