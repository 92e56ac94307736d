----------------------------- MODULE PosixFile ------------------------------
(***************************************************************************)
(* PosixWritableFile: bytes wait in a buffer of the process, then in the   *)
(* caches of the kernel, then are on the disk.  A write may come to a part *)
(* of the bytes only, be interrupted, or fail; so may a sync.              *)
(*                                                                         *)
(* A byte is its number in the order of the appends.                       *)
(***************************************************************************)
EXTENDS Integers, Sequences, FiniteSets, SequencesExt

CONSTANTS
    BufferSize,           \* kWritableFileBufferSize
    Sizes,                \* of appended data
    MaxBytes, MaxFailures \* bounds

PosixFileAssumption ==
    /\ BufferSize \in Nat \ {0} /\ Sizes \subseteq Nat \ {0}
    /\ MaxBytes \in Nat /\ MaxFailures \in Nat

VARIABLES
    appended,     \* bytes given to Append so far
    buf, file,    \* buf_; what was written to the descriptor
    synced,       \* how many bytes of file are on the disk
    todo,         \* what a call under way has still to do: sequence of
                  \* [op, data]; "write" clears the buffer when it is over
    failed,       \* calls that failed
    promised      \* bytes appended before a Sync that succeeded

vars == <<appended, buf, file, synced, todo, failed, promised>>

TypeOK ==
    /\ appended \in 0..MaxBytes /\ Len(buf) <= BufferSize
    /\ synced \in 0..Len(file) /\ failed \in 0..MaxFailures

Init ==
    /\ appended = 0 /\ buf = <<>> /\ file = <<>> /\ synced = 0
    /\ todo = <<>> /\ failed = 0 /\ promised = 0

Bytes(from, n) == [i \in 1..n |-> from + i]

(* Seeded defect: data that does not fit is written before the buffer.     *)
AppendOvertakes(n) ==
    LET data == Bytes(appended, n)
        fits == Len(buf) + n <= BufferSize
    IN  /\ todo = <<>> /\ appended + n <= MaxBytes
        /\ appended' = appended + n
        /\ IF fits THEN buf' = buf \o data /\ UNCHANGED todo
           ELSE todo' = <<[op |-> "direct", data |-> data]>> /\ UNCHANGED buf
        /\ UNCHANGED <<file, synced, failed, promised>>

(* Append: as much as fits goes to the buffer; if there is more, the       *)
(* buffer is flushed, and what is left follows it or goes to the buffer.   *)
AppendData(n) ==
    LET data == Bytes(appended, n)
        copy == IF n < BufferSize - Len(buf) THEN n ELSE BufferSize - Len(buf)
        rest == SubSeq(data, copy + 1, n)
        direct == Len(rest) >= BufferSize
    IN  /\ todo = <<>> /\ appended + n <= MaxBytes
        /\ appended' = appended + n
        /\ buf' = buf \o SubSeq(data, 1, copy)
        /\ todo' = IF rest = <<>> THEN <<>>
                   ELSE <<[op |-> "write", data |-> buf'],
                          [op |-> IF direct THEN "direct" ELSE "copy", data |-> rest]>>
        /\ UNCHANGED <<file, synced, failed, promised>>

Flush ==
    /\ todo = <<>> /\ buf # <<>>
    /\ todo' = <<[op |-> "write", data |-> buf]>>
    /\ UNCHANGED <<appended, buf, file, synced, failed, promised>>

(* Seeded defect: the buffer is not flushed before the sync.               *)
SyncUnflushed ==
    /\ todo = <<>>
    /\ todo' = <<[op |-> "sync", data |-> <<>>]>>
    /\ UNCHANGED <<appended, buf, file, synced, failed, promised>>

Sync ==
    /\ todo = <<>>
    /\ todo' = <<[op |-> "write", data |-> buf], [op |-> "sync", data |-> <<>>]>>
    /\ UNCHANGED <<appended, buf, file, synced, failed, promised>>

(* WriteUnbuffered: write() takes some of the bytes.                       *)
WriteSome(n) ==
    /\ todo # <<>> /\ Head(todo).op \in {"write", "direct"}
    /\ n \in 1..Len(Head(todo).data)
    /\ file' = file \o SubSeq(Head(todo).data, 1, n)
    /\ todo' = [todo EXCEPT ![1].data = SubSeq(@, n + 1, Len(@))]
    /\ UNCHANGED <<appended, buf, synced, failed, promised>>

WriteDone ==
    /\ todo # <<>> /\ Head(todo).op \in {"write", "direct"} /\ Head(todo).data = <<>>
    /\ buf' = IF Head(todo).op = "write" THEN <<>> ELSE buf
    /\ todo' = Tail(todo)
    /\ UNCHANGED <<appended, file, synced, failed, promised>>

(* The call gives up; a buffer it was flushing is gone (pos_ = 0).         *)
WriteFails ==
    /\ todo # <<>> /\ Head(todo).op \in {"write", "direct"} /\ Head(todo).data # <<>>
    /\ failed < MaxFailures /\ failed' = failed + 1
    /\ buf' = IF Head(todo).op = "write" THEN <<>> ELSE buf
    /\ todo' = <<>>
    /\ UNCHANGED <<appended, file, synced, promised>>

Copy ==
    /\ todo # <<>> /\ Head(todo).op = "copy"
    /\ buf' = Head(todo).data /\ todo' = Tail(todo)
    /\ UNCHANGED <<appended, file, synced, failed, promised>>

SyncFd ==
    /\ todo # <<>> /\ Head(todo).op = "sync"
    /\ synced' = Len(file) /\ promised' = appended
    /\ todo' = Tail(todo)
    /\ UNCHANGED <<appended, buf, file, failed>>

SyncFails ==
    /\ todo # <<>> /\ Head(todo).op = "sync"
    /\ failed < MaxFailures /\ failed' = failed + 1
    /\ todo' = <<>>
    /\ UNCHANGED <<appended, buf, file, synced, promised>>

(* The kernel writes its caches when it likes.                             *)
WriteBack == synced < Len(file) /\ synced' = synced + 1
             /\ UNCHANGED <<appended, buf, file, todo, failed, promised>>

Next ==
    \/ \E n \in Sizes : AppendData(n)
    \/ Flush \/ Sync \/ WriteDone \/ WriteFails \/ Copy \/ SyncFd \/ SyncFails \/ WriteBack
    \/ \E n \in 1..MaxBytes : WriteSome(n)

Spec == Init /\ [][Next]_vars

-----------------------------------------------------------------------------
(* The file holds bytes in the order of the appends, none twice; as long   *)
(* as no call has failed, none is missing.                                 *)
FileInOrder ==
    /\ \A i, j \in 1..Len(file) : i < j => file[i] < file[j]
    /\ failed = 0 => file = Bytes(0, Len(file))

(* When Sync succeeds and nothing has failed before, all that was appended *)
(* until then survives a crash at any later time.                          *)
SyncedSurvives == failed = 0 => promised <= synced
=============================================================================
