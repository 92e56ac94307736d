--------------------------- MODULE FileLockProofs ---------------------------
(***************************************************************************)
(* What LockFile and UnlockFile promise, for any number of threads and     *)
(* processes.  The invariant says who has entered a process's name in its  *)
(* table: whoever passed Insert and has not yet removed it, or failed to   *)
(* unlock, at most one thread of a process; the kernel's lock is the       *)
(* process's while one of them holds the file, unless a further descriptor *)
(* was closed meanwhile.                                                   *)
(***************************************************************************)
EXTENDS FileLock, FiniteSetTheorems, TLAPS

(* The threads between Insert and the removal of the name.                 *)
Listed == {"entered", "failed", "held", "unlocked"}

ListedOnce ==
    /\ \A t \in Threads : pc[t] \in Listed => ProcessOf[t] \in locked_files
    /\ \A t, u \in Threads :
           pc[t] \in Listed /\ pc[u] \in Listed /\ ProcessOf[t] = ProcessOf[u] => t = u

HeldMeansOwned ==
    \A t \in Threads : pc[t] = "held" => strayClose \/ owner = ProcessOf[t]

LockInv == TypeOK /\ ListedOnce /\ HeldMeansOwned

(* Every step but Exit moves one thread and leaves the others' places.     *)
LEMMA GotoMoves ==
    ASSUME TypeOK, NEW t \in Threads, NEW place \in Places, Goto(t, place)
    PROVE  /\ pc' \in [Threads -> Places]
           /\ pc'[t] = place
           /\ \A u \in Threads \ {t} : pc'[u] = pc[u]
  BY DEF TypeOK, Goto

LEMMA InitLock == Init => LockInv
  BY FileLockAssumption DEF Init, LockInv, TypeOK, ListedOnce, HeldMeansOwned, Listed, Places

(* A thread that closes its descriptor is at no listed place but "failed", *)
(* so closing either leaves the holder's lock or is a stray close.         *)
LEMMA CloseKeepsOwned ==
    ASSUME LockInv, NEW t \in Threads, Close(t), Goto(t, "idle"), pc[t] # "held"
    PROVE  /\ HeldMeansOwned'
           /\ owner' \in Processes \cup {NoProcess}
           /\ strayClose' \in BOOLEAN
  <1>1. /\ pc'[t] = "idle"
        /\ \A u \in Threads \ {t} : pc'[u] = pc[u]
    BY GotoMoves DEF LockInv, Places
  <1>2. /\ owner' \in Processes \cup {NoProcess}
        /\ strayClose' \in BOOLEAN
    BY DEF LockInv, TypeOK, Close
  <1>3. ASSUME NEW u \in Threads, pc'[u] = "held"
        PROVE  strayClose' \/ owner' = ProcessOf[u]
    <2>1. u # t /\ pc[u] = "held"
      BY <1>1, <1>3
    <2>2. strayClose \/ owner = ProcessOf[u]
      BY <2>1 DEF LockInv, HeldMeansOwned
    <2>3. CASE owner = ProcessOf[t] /\ ProcessOf[u] = ProcessOf[t]
      BY <2>1, <2>3 DEF Close
    <2>4. CASE ~(owner = ProcessOf[t] /\ ProcessOf[u] = ProcessOf[t])
      BY <2>2, <2>4 DEF Close
    <2> QED
      BY <2>3, <2>4
  <1> QED
    BY <1>2, <1>3 DEF HeldMeansOwned

(* Each step of a thread.                                                  *)
LEMMA ThreadKeepsLock ==
    ASSUME LockInv, NEW t \in Threads, ThreadStep(t)
    PROVE  LockInv'
  <1> USE FileLockAssumption DEF LockInv
  <1>p. ProcessOf[t] \in Processes
    OBVIOUS
  <1>1. CASE Open(t)
    <2>1. Goto(t, "opened") /\ UNCHANGED <<locked_files, owner, strayClose>> /\ pc[t] = "idle"
      BY <1>1 DEF Open
    <2> QED
      BY <2>1, GotoMoves DEF TypeOK, ListedOnce, HeldMeansOwned, Listed, Places
  <1>2. CASE Insert(t)
    <2>1. CASE ProcessOf[t] \in locked_files
      <3>1. Goto(t, "refused") /\ UNCHANGED <<locked_files, owner, strayClose>>
        BY <1>2, <2>1 DEF Insert
      <3> QED
        BY <3>1, GotoMoves DEF TypeOK, ListedOnce, HeldMeansOwned, Listed, Places
    <2>2. CASE ProcessOf[t] \notin locked_files
      <3>1. /\ Goto(t, "entered") /\ UNCHANGED <<owner, strayClose>>
            /\ locked_files' = locked_files \cup {ProcessOf[t]}
        BY <1>2, <2>2 DEF Insert
      <3>2. TypeOK' /\ HeldMeansOwned'
        BY <3>1, <1>p, GotoMoves DEF TypeOK, HeldMeansOwned, Places
      <3>3. \A u \in Threads : ProcessOf[u] = ProcessOf[t] => pc[u] \notin Listed
        BY <2>2 DEF ListedOnce
      <3>4. ListedOnce'
        BY <3>1, <3>3, GotoMoves DEF ListedOnce, Places, Listed
      <3> QED
        BY <3>2, <3>4
    <2> QED
      BY <2>1, <2>2
  <1>3. CASE CloseRefused(t)
    <2>1. pc[t] = "refused" /\ Close(t) /\ Goto(t, "idle") /\ UNCHANGED locked_files
      BY <1>3 DEF CloseRefused
    <2>2. TypeOK' /\ HeldMeansOwned'
      BY <2>1, CloseKeepsOwned, GotoMoves DEF TypeOK, Places
    <2>3. ListedOnce'
      BY <2>1, GotoMoves DEF ListedOnce, Places, Listed
    <2> QED
      BY <2>2, <2>3
  <1>4. CASE Lock(t)
    <2>1. CASE owner \in {NoProcess, ProcessOf[t]}
      <3>1. /\ Goto(t, "held") /\ owner' = ProcessOf[t] /\ pc[t] = "entered"
            /\ UNCHANGED <<locked_files, strayClose>>
        BY <1>4, <2>1 DEF Lock
      <3>2. TypeOK'
        BY <3>1, <1>p, GotoMoves DEF TypeOK, Places
      <3>3. ListedOnce'
        BY <3>1, GotoMoves DEF ListedOnce, Places, Listed
      <3>4. ASSUME NEW u \in Threads, pc'[u] = "held"
            PROVE  strayClose' \/ owner' = ProcessOf[u]
        <4>1. u = t \/ pc[u] = "held"
          BY <3>1, <3>4, GotoMoves DEF Places
        <4>2. CASE u = t
          BY <3>1, <4>2
        <4>3. CASE u # t
          <5>1. strayClose \/ owner = ProcessOf[u]
            BY <4>1, <4>3 DEF HeldMeansOwned
          <5>2. owner # ProcessOf[u] \/ owner = ProcessOf[t]
            BY <2>1
          <5> QED
            BY <5>1, <5>2, <3>1
        <4> QED
          BY <4>2, <4>3
      <3> QED
        BY <3>2, <3>3, <3>4 DEF HeldMeansOwned
    <2>2. CASE owner \notin {NoProcess, ProcessOf[t]}
      <3>1. Goto(t, "failed") /\ pc[t] = "entered" /\ UNCHANGED <<locked_files, owner, strayClose>>
        BY <1>4, <2>2 DEF Lock
      <3> QED
        BY <3>1, GotoMoves DEF TypeOK, ListedOnce, HeldMeansOwned, Listed, Places
    <2> QED
      BY <2>1, <2>2
  <1>5. CASE CloseFailed(t)
    <2>1. /\ pc[t] = "failed" /\ Close(t) /\ Goto(t, "idle")
          /\ locked_files' = locked_files \ {ProcessOf[t]}
      BY <1>5 DEF CloseFailed
    <2>2. TypeOK' /\ HeldMeansOwned'
      BY <2>1, CloseKeepsOwned, GotoMoves DEF TypeOK, Places
    <2>3. \A u \in Threads \ {t} : pc[u] \in Listed => ProcessOf[u] # ProcessOf[t]
      BY <2>1 DEF ListedOnce, Listed
    <2>4. ListedOnce'
      BY <2>1, <2>3, GotoMoves DEF ListedOnce, Places, Listed
    <2> QED
      BY <2>2, <2>4
  <1>6. CASE Unlock(t)
    <2>1. /\ pc[t] = "held" /\ Goto(t, "unlocked")
          /\ owner' = IF owner = ProcessOf[t] THEN NoProcess ELSE owner
          /\ UNCHANGED <<locked_files, strayClose>>
      BY <1>6 DEF Unlock
    <2>2. TypeOK'
      BY <2>1, GotoMoves DEF TypeOK, Places
    <2>3. ListedOnce'
      BY <2>1, GotoMoves DEF ListedOnce, Places, Listed
    <2>4. ASSUME NEW u \in Threads, pc'[u] = "held"
          PROVE  strayClose' \/ owner' = ProcessOf[u]
      <3>1. u # t /\ pc[u] = "held"
        BY <2>1, <2>4, GotoMoves DEF Places
      <3>2. ProcessOf[u] # ProcessOf[t]
        BY <2>1, <3>1 DEF ListedOnce, Listed
      <3> QED
        BY <2>1, <3>1, <3>2 DEF HeldMeansOwned
    <2> QED
      BY <2>2, <2>3, <2>4 DEF HeldMeansOwned
  <1>7. CASE Remove(t)
    <2>1. /\ pc[t] = "unlocked" /\ Goto(t, "removed")
          /\ locked_files' = locked_files \ {ProcessOf[t]}
          /\ UNCHANGED <<owner, strayClose>>
      BY <1>7 DEF Remove
    <2>2. TypeOK' /\ HeldMeansOwned'
      BY <2>1, GotoMoves DEF TypeOK, HeldMeansOwned, Places
    <2>3. \A u \in Threads \ {t} : pc[u] \in Listed => ProcessOf[u] # ProcessOf[t]
      BY <2>1 DEF ListedOnce, Listed
    <2>4. ListedOnce'
      BY <2>1, <2>3, GotoMoves DEF ListedOnce, Places, Listed
    <2> QED
      BY <2>2, <2>4
  <1>8. CASE CloseUnlocked(t)
    <2>1. pc[t] = "removed" /\ Close(t) /\ Goto(t, "idle") /\ UNCHANGED locked_files
      BY <1>8 DEF CloseUnlocked
    <2>2. TypeOK' /\ HeldMeansOwned'
      BY <2>1, CloseKeepsOwned, GotoMoves DEF TypeOK, Places
    <2>3. ListedOnce'
      BY <2>1, GotoMoves DEF ListedOnce, Places, Listed
    <2> QED
      BY <2>2, <2>3
  <1>9. CASE UnlockFails(t)
    <2>1. Goto(t, "idle") /\ UNCHANGED <<locked_files, owner, strayClose>>
      BY <1>9 DEF UnlockFails
    <2> QED
      BY <2>1, GotoMoves DEF TypeOK, ListedOnce, HeldMeansOwned, Listed, Places
  <1> QED
    BY <1>1, <1>2, <1>3, <1>4, <1>5, <1>6, <1>7, <1>8, <1>9 DEF ThreadStep

(* The end of a process takes its threads, its table and its lock.         *)
LEMMA ExitKeepsLock ==
    ASSUME LockInv, NEW p \in Processes, Exit(p)
    PROVE  LockInv'
  <1>1. \A u \in Threads :
            /\ ProcessOf[u] = p => pc'[u] = "idle"
            /\ ProcessOf[u] # p => pc'[u] = pc[u]
    BY DEF LockInv, TypeOK, Exit
  <1>2. TypeOK'
    BY DEF LockInv, TypeOK, Exit, Places
  <1>3. ListedOnce'
    BY <1>1 DEF LockInv, ListedOnce, Listed, Exit
  <1>4. HeldMeansOwned'
    BY <1>1 DEF LockInv, HeldMeansOwned, Exit
  <1> QED
    BY <1>2, <1>3, <1>4 DEF LockInv

LEMMA StepKeepsLock == LockInv /\ [Next]_vars => LockInv'
  <1> SUFFICES ASSUME LockInv, [Next]_vars
               PROVE  LockInv'
    OBVIOUS
  <1>1. CASE \E t \in Threads : ThreadStep(t)
    BY <1>1, ThreadKeepsLock
  <1>2. CASE \E p \in Processes : Exit(p)
    BY <1>2, ExitKeepsLock
  <1>3. CASE UNCHANGED vars
    BY <1>3 DEF vars, LockInv, TypeOK, ListedOnce, HeldMeansOwned
  <1> QED
    BY <1>1, <1>2, <1>3 DEF Next

LEMMA LockInvariant == Spec => []LockInv
  BY InitLock, StepKeepsLock, PTL DEF Spec

(* However the threads of a process interleave in LockFile and UnlockFile, *)
(* one of them at most has the file locked (env_posix.cc, PosixLockTable). *)
THEOREM OneHolderPerProcessHolds == Spec => []OneHolderPerProcess
  <1>1. LockInv => OneHolderPerProcess
    BY DEF LockInv, ListedOnce, Listed, OneHolderPerProcess, Holders
  <1> QED
    BY <1>1, LockInvariant, PTL

(* Two processes hold the file together only after one of them closed a    *)
(* further descriptor of it: fcntl's rule, not the order of the steps, is  *)
(* the one way in (env_posix.cc, LockFile).                                *)
THEOREM TwoHoldersNeedStrayCloseHolds == Spec => []TwoHoldersNeedStrayClose
  <1>1. LockInv => TwoHoldersNeedStrayClose
    <2> SUFFICES ASSUME LockInv, ~strayClose
                 PROVE  ~(Cardinality(Holders) > 1)
      BY DEF TwoHoldersNeedStrayClose
    <2>1. \A t, u \in Holders : t = u
      BY DEF LockInv, HeldMeansOwned, ListedOnce, Listed, Holders
    <2>2. CASE Holders = {}
      BY <2>2, FS_EmptySet
    <2>3. CASE \E t \in Holders : TRUE
      <3>1. PICK t \in Holders : TRUE
        BY <2>3
      <3>2. Holders = {t}
        BY <2>1, <3>1
      <3>3. Cardinality(Holders) = 1
        BY <3>2, FS_Singleton
      <3> QED
        BY <3>3
    <2> QED
      BY <2>2, <2>3
  <1> QED
    BY <1>1, LockInvariant, PTL
=============================================================================
