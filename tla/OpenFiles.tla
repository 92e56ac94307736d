----------------------------- MODULE OpenFiles ------------------------------
(***************************************************************************)
(* PosixEnv::NewRandomAccessFile: a file to be read is mapped as long as   *)
(* there are few mappings, else it keeps a descriptor as long as there are *)
(* few of those, else it is opened for every read.  Two Limiters count, by *)
(* two atomic operations that others may come between.                     *)
(***************************************************************************)
EXTENDS Integers, FiniteSets

CONSTANTS
    Files,               \* concurrent calls, each followed by the file's use
    MaxMmaps, MaxOpenFiles

OpenFilesAssumption == MaxMmaps \in Nat /\ MaxOpenFiles \in Nat

Limit == [mmap |-> MaxMmaps, fd |-> MaxOpenFiles]
Resources == {"mmap", "fd"}

VARIABLES
    place,      \* where each file is
    allowed     \* acquires_allowed_ of each limiter

vars == <<place, allowed>>

(* "back": Acquire has subtracted too much and has yet to add it again.    *)
Places == {"none", "acquire mmap", "back mmap", "mapping", "mapped", "acquire fd", "back fd",
           "permanent", "per read"}

TypeOK ==
    /\ place \in [Files -> Places]
    /\ allowed \in [Resources -> Int]
    /\ \A r \in Resources : allowed[r] \in (-Cardinality(Files))..Limit[r]

Init == place = [f \in Files |-> "none"] /\ allowed = Limit

Goto(f, p) == place' = [place EXCEPT ![f] = p]
Count(r, d) == allowed' = [allowed EXCEPT ![r] = @ + d]

(* The file is opened; a missing one is an error and takes nothing.        *)
Open(f) == place[f] = "none" /\ Goto(f, "acquire mmap") /\ UNCHANGED allowed

(* Limiter::Acquire: fetch_sub, and fetch_add if there was none left.      *)
Acquire(f, r, from, won, back) ==
    /\ place[f] = from
    /\ Count(r, -1)
    /\ Goto(f, IF allowed[r] > 0 THEN won ELSE back)

PutBack(f, r, from, to) == place[f] = from /\ Count(r, 1) /\ Goto(f, to)

AcquireMmap(f) == Acquire(f, "mmap", "acquire mmap", "mapping", "back mmap")
NoMmap(f) == PutBack(f, "mmap", "back mmap", "acquire fd")
AcquireFd(f) == Acquire(f, "fd", "acquire fd", "permanent", "back fd")
NoFd(f) == PutBack(f, "fd", "back fd", "per read")

Map(f) == place[f] = "mapping" /\ Goto(f, "mapped") /\ UNCHANGED allowed

(* Seeded defect: the right to a mapping that cannot be made is kept.      *)
MapFailsKeeps(f) == place[f] = "mapping" /\ Goto(f, "none") /\ UNCHANGED allowed

MapFails(f) == place[f] = "mapping" /\ Count("mmap", 1) /\ Goto(f, "none")

(* The destructors.                                                        *)
Delete(f) ==
    \/ place[f] = "mapped" /\ Count("mmap", 1) /\ Goto(f, "none")
    \/ place[f] = "permanent" /\ Count("fd", 1) /\ Goto(f, "none")
    \/ place[f] = "per read" /\ Goto(f, "none") /\ UNCHANGED allowed

Step(f) ==
    \/ Open(f) \/ AcquireMmap(f) \/ NoMmap(f) \/ AcquireFd(f) \/ NoFd(f)
    \/ Map(f) \/ MapFails(f) \/ Delete(f)

Next == \E f \in Files : Step(f)

Spec == Init /\ [][Next]_vars

-----------------------------------------------------------------------------
Having(ps) == Cardinality({f \in Files : place[f] \in ps})

(* Neither limit is ever exceeded, and every acquired right comes back:    *)
(* what is allowed and what is in use add up.                              *)
LimitsKept ==
    /\ Having({"mapping", "mapped"}) <= MaxMmaps /\ Having({"permanent"}) <= MaxOpenFiles
    /\ allowed["mmap"] = MaxMmaps - Having({"mapping", "mapped", "back mmap"})
    /\ allowed["fd"] = MaxOpenFiles - Having({"permanent", "back fd"})
=============================================================================
