------------------------------- MODULE Repair -------------------------------
(***************************************************************************)
(* RepairDB: logs become tables, every table that can be read is listed in *)
(* a new descriptor, what cannot be read or is no longer needed moves to   *)
(* the directory "lost".  The repairer may be killed between any two       *)
(* steps, calls of the environment may fail, and it may be run again.      *)
(*                                                                         *)
(* A file is the sequence numbers that can be read from it and whether a   *)
(* reader meets an error.  GetChildren returns names in any order; that a  *)
(* file can be moved to "lost" is assumed.                                 *)
(***************************************************************************)
EXTENDS Integers, FiniteSets, FiniteSetsExt

CONSTANTS
    Directories,  \* what may be found: [logs, tables, manifests, current]
    MaxMishaps,   \* bound: kills and calls that fail
    MaxNumber     \* bound: no run starts with a higher number for its first table

RepairAssumption == MaxMishaps \in Nat /\ MaxNumber \in Nat

NoFile == [seqs |-> {}, whole |-> FALSE]
NoManifest == [tables |-> {}, next |-> 0, last |-> 0]

VARIABLES
    logs, tables,   \* number |-> file
    manifests,      \* number |-> what it says
    current,        \* the manifest CURRENT names, 0 if there is none
    lost,           \* <<kind, number>> |-> file
    repair,         \* the memory of the repairer
    found,          \* sequence numbers that could be read before the first run
    broken,         \* a mishap has cost some of them (recorded for the properties)
    mishaps

disk == <<logs, tables, manifests, current, lost>>
recorded == <<found, broken>>
vars == <<disk, repair, recorded, mishaps>>

Stages == {"idle", "logs", "table", "archive", "scan", "copy", "source", "finish", "rename",
           "describe", "discard", "install", "point", "done"}

Idle == [stage |-> "idle", next |-> 1, logs |-> {}, numbers |-> {}, listed |-> {}, at |-> 0,
         copy |-> 0, discard |-> {}, failed |-> FALSE]

Init ==
    \E d \in Directories :
        /\ logs = d.logs /\ tables = d.tables /\ current = d.current
        /\ manifests = [n \in d.manifests |-> NoManifest]
        /\ lost = [x \in {} |-> NoFile]
        /\ repair = Idle /\ mishaps = 0
        /\ found = UNION {d.logs[n].seqs : n \in DOMAIN d.logs}
                       \cup UNION {d.tables[n].seqs : n \in DOMAIN d.tables}
        /\ broken = FALSE

With(files, n, f) == [m \in DOMAIN files \cup {n} |-> IF m = n THEN f ELSE files[m]]
Without(files, n) == [m \in DOMAIN files \ {n} |-> files[m]]
Mishap == mishaps < MaxMishaps /\ mishaps' = mishaps + 1
Go(stage) == repair' = [repair EXCEPT !.stage = stage]

(* Seeded defect: the numbers of logs are not looked at.                   *)
NextNumberTables == Max({0} \cup DOMAIN tables) + 1

NextNumber == Max({0} \cup DOMAIN logs \cup DOMAIN tables) + 1

FindFiles ==
    /\ repair.stage \in {"idle", "done"} /\ NextNumber <= MaxNumber
    /\ repair' = [Idle EXCEPT !.stage = "logs", !.next = NextNumber, !.logs = DOMAIN logs,
                              !.numbers = DOMAIN tables, !.discard = DOMAIN manifests]
    /\ UNCHANGED <<disk, recorded, mishaps>>

(* ConvertLogToTable: the table's file is there before its contents are.   *)
OpenLog(n) ==
    /\ repair.stage = "logs" /\ n \in repair.logs
    /\ tables' = With(tables, repair.next, NoFile)
    /\ repair' = [repair EXCEPT !.stage = "table", !.logs = @ \ {n}, !.at = n, !.next = @ + 1]
    /\ UNCHANGED <<logs, manifests, current, lost, recorded, mishaps>>

OpenLogFails(n) ==
    /\ repair.stage = "logs" /\ n \in repair.logs /\ Mishap
    /\ repair' = [repair EXCEPT !.stage = "archive", !.logs = @ \ {n}, !.at = n, !.failed = TRUE]
    /\ broken' = TRUE
    /\ UNCHANGED <<disk, found>>

BuildTable ==
    LET n == repair.next - 1
        seqs == logs[repair.at].seqs
    IN  /\ repair.stage = "table"
        /\ tables' = IF seqs = {} THEN Without(tables, n)
                     ELSE With(tables, n, [seqs |-> seqs, whole |-> TRUE])
        /\ repair' = [repair EXCEPT !.stage = "archive",
                                    !.numbers = IF seqs = {} THEN @ ELSE @ \cup {n}]
        /\ UNCHANGED <<logs, manifests, current, lost, recorded, mishaps>>

BuildTableFails ==
    /\ repair.stage = "table" /\ Mishap
    /\ tables' = Without(tables, repair.next - 1)
    /\ repair' = [repair EXCEPT !.stage = "archive", !.failed = TRUE]
    /\ broken' = TRUE
    /\ UNCHANGED <<logs, manifests, current, lost, found>>

(* ArchiveFile(logname), whatever became of the table.                     *)
ArchiveLog ==
    /\ repair.stage = "archive"
    /\ logs' = Without(logs, repair.at)
    /\ lost' = With(lost, <<"log", repair.at>>, logs[repair.at])
    /\ Go("logs")
    /\ UNCHANGED <<tables, manifests, current, recorded, mishaps>>

LogsDone ==
    /\ repair.stage = "logs" /\ repair.logs = {}
    /\ Go("scan")
    /\ UNCHANGED <<disk, recorded, mishaps>>

(* ScanTable: the table is listed if nothing is wrong with it.             *)
ScanTable(n) ==
    /\ repair.stage = "scan" /\ n \in repair.numbers
    /\ repair' = IF tables[n].whole
           THEN [repair EXCEPT !.numbers = @ \ {n}, !.listed = @ \cup {n}]
           ELSE [repair EXCEPT !.numbers = @ \ {n}, !.at = n, !.stage = "copy"]
    /\ UNCHANGED <<disk, recorded, mishaps>>

(* The size of the file cannot be had: it is moved away and dropped.       *)
ScanTableFails(n) ==
    /\ repair.stage = "scan" /\ n \in repair.numbers /\ Mishap
    /\ tables' = Without(tables, n)
    /\ lost' = With(lost, <<"table", n>>, tables[n])
    /\ repair' = [repair EXCEPT !.numbers = @ \ {n}, !.failed = TRUE]
    /\ broken' = TRUE
    /\ UNCHANGED <<logs, manifests, current, found>>

(* RepairTable: a new file, the copy, the source moved away, and then the  *)
(* file completed and renamed over the source.                             *)
CreateCopy ==
    /\ repair.stage = "copy"
    /\ tables' = With(tables, repair.next, NoFile)
    /\ repair' = [repair EXCEPT !.stage = "source", !.copy = repair.next, !.next = @ + 1]
    /\ UNCHANGED <<logs, manifests, current, lost, recorded, mishaps>>

CreateCopyFails ==
    /\ repair.stage = "copy" /\ Mishap
    /\ repair' = [repair EXCEPT !.stage = "scan", !.next = @ + 1, !.failed = TRUE]
    /\ UNCHANGED <<disk, recorded>>

ArchiveSource ==
    /\ repair.stage = "source"
    /\ lost' = With(lost, <<"table", repair.at>>, tables[repair.at])
    /\ tables' = Without(tables, repair.at)
    /\ Go("finish")
    /\ UNCHANGED <<logs, manifests, current, recorded, mishaps>>

(* The builder is closed after the source has gone.  Nothing to save       *)
(* leaves an empty file under the copy's name.                             *)
FinishCopy ==
    LET seqs == lost[<<"table", repair.at>>].seqs
    IN  /\ repair.stage = "finish"
        /\ IF seqs = {} THEN Go("scan") /\ UNCHANGED tables
           ELSE Go("rename") /\ tables' = With(tables, repair.copy, [seqs |-> seqs, whole |-> TRUE])
        /\ UNCHANGED <<logs, manifests, current, lost, recorded, mishaps>>

(* Seeded defect: the copy takes the source's place, but is not listed.    *)
RenameCopyUnlisted ==
    /\ repair.stage = "rename"
    /\ tables' = With(Without(tables, repair.copy), repair.at, tables[repair.copy])
    /\ repair' = [repair EXCEPT !.stage = "scan"]
    /\ UNCHANGED <<logs, manifests, current, lost, recorded, mishaps>>

RenameCopy ==
    /\ repair.stage = "rename"
    /\ tables' = With(Without(tables, repair.copy), repair.at, tables[repair.copy])
    /\ repair' = [repair EXCEPT !.stage = "scan", !.listed = @ \cup {repair.at}]
    /\ UNCHANGED <<logs, manifests, current, lost, recorded, mishaps>>

(* The copy cannot be completed or renamed: it is deleted.                 *)
RenameCopyFails ==
    /\ repair.stage \in {"finish", "rename"} /\ Mishap
    /\ tables' = Without(tables, repair.copy)
    /\ repair' = [repair EXCEPT !.stage = "scan", !.failed = TRUE]
    /\ broken' = TRUE
    /\ UNCHANGED <<logs, manifests, current, lost, found>>

TablesDone ==
    /\ repair.stage = "scan" /\ repair.numbers = {}
    /\ Go("describe")
    /\ UNCHANGED <<disk, recorded, mishaps>>

(* WriteDescriptor: a temporary file, older manifests moved away, and then *)
(* the file renamed and named by CURRENT.                                  *)
Describe ==
    /\ repair.stage = "describe"
    /\ Go("discard")
    /\ UNCHANGED <<disk, recorded, mishaps>>

Discard(n) ==
    /\ repair.stage = "discard" /\ n \in repair.discard
    /\ manifests' = Without(manifests, n)
    /\ repair' = [repair EXCEPT !.discard = @ \ {n}]
    /\ UNCHANGED <<logs, tables, current, lost, recorded, mishaps>>

Listed == UNION {tables[n].seqs : n \in repair.listed}

(* Seeded defect: the last sequence number is that of the newest table.    *)
InstallNewest ==
    /\ repair.stage = "discard" /\ repair.discard = {}
    /\ manifests' = With(manifests, 1,
           [tables |-> repair.listed, next |-> repair.next,
            last |-> IF Listed = {} THEN 0 ELSE Max(tables[Max(repair.listed)].seqs)])
    /\ Go("point")
    /\ UNCHANGED <<logs, tables, current, lost, recorded, mishaps>>

Install ==
    /\ repair.stage = "discard" /\ repair.discard = {}
    /\ manifests' = With(manifests, 1, [tables |-> repair.listed, next |-> repair.next,
                                        last |-> Max({0} \cup Listed)])
    /\ Go("point")
    /\ UNCHANGED <<logs, tables, current, lost, recorded, mishaps>>

SetCurrentFile ==
    /\ repair.stage = "point"
    /\ current' = 1
    /\ Go("done")
    /\ UNCHANGED <<logs, tables, manifests, lost, recorded, mishaps>>

(* Any of the calls of WriteDescriptor fails: the run ends with an error.  *)
WriteDescriptorFails ==
    /\ repair.stage \in {"describe", "discard", "point"} /\ Mishap
    /\ repair.stage = "discard" => repair.discard = {}
    /\ repair' = Idle
    /\ UNCHANGED <<disk, recorded>>

(* Only between ArchiveFile and the end of the copy is a table nowhere but *)
(* in "lost", where no run looks.                                          *)
Kill ==
    /\ repair.stage \notin {"idle", "done"} /\ Mishap
    /\ repair' = Idle
    /\ broken' = (broken \/ repair.stage = "finish")
    /\ UNCHANGED <<disk, found>>

Next ==
    \/ FindFiles
    \/ \E n \in repair.logs : OpenLog(n) \/ OpenLogFails(n)
    \/ BuildTable \/ BuildTableFails \/ ArchiveLog \/ LogsDone
    \/ \E n \in repair.numbers : ScanTable(n) \/ ScanTableFails(n)
    \/ CreateCopy \/ CreateCopyFails \/ ArchiveSource \/ FinishCopy
    \/ RenameCopy \/ RenameCopyFails
    \/ TablesDone \/ Describe \/ \E n \in repair.discard : Discard(n)
    \/ Install \/ SetCurrentFile \/ WriteDescriptorFails \/ Kill

Spec == Init /\ [][Next]_vars

-----------------------------------------------------------------------------
TypeOK ==
    /\ repair.stage \in Stages
    /\ DOMAIN logs \cap DOMAIN tables = {}
    /\ repair.listed \subseteq DOMAIN tables
    /\ current \in Nat
    /\ mishaps \in 0..MaxMishaps

(* A run that comes to its end without a failed call lists everything that *)
(* could be read before the first one, although earlier runs were killed   *)
(* or failed in writing the descriptor.  What costs data is a call that    *)
(* fails on a log or a table, and a kill after RepairTable has moved the   *)
(* source away and before the copy is complete.                            *)
KeepsWhatItFound ==
    repair.stage = "done" /\ ~repair.failed /\ ~broken =>
        found \subseteq UNION {tables[n].seqs : n \in manifests[1].tables}

(* What it leaves can be opened: CURRENT names a manifest, its tables are  *)
(* there and whole, and numbers and sequence numbers go on above them.     *)
DoneIsOpenable ==
    repair.stage = "done" =>
        LET m == manifests[current]
        IN  /\ current \in DOMAIN manifests
            /\ \A n \in m.tables : n \in DOMAIN tables /\ tables[n].whole
            /\ \A n \in m.tables : \A s \in tables[n].seqs : s <= m.last
            /\ \A n \in DOMAIN logs \cup DOMAIN tables : n < m.next

(* No file is written over: a number given to a new table is free.         *)
NumbersFree ==
    repair.stage \notin {"idle", "done"} =>
        \A n \in DOMAIN logs \cup DOMAIN tables : n < repair.next
=============================================================================
