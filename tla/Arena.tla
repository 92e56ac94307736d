------------------------------- MODULE Arena --------------------------------
(***************************************************************************)
(* The arena a memtable allocates from: pieces are cut off the current     *)
(* block, large ones get a block of their own.  A block is aligned; an     *)
(* address is a block and an offset in it.                                 *)
(***************************************************************************)
EXTENDS Integers, FiniteSets, FiniteSetsExt

CONSTANTS
    BlockSize, Align, PointerSize,   \* kBlockSize, align, sizeof(char* )
    Sizes, MaxPieces                 \* what is asked for; bound

ArenaAssumption ==
    /\ BlockSize \in Nat /\ Align \in Nat \ {0} /\ PointerSize \in Nat
    /\ Sizes \subseteq Nat \ {0} /\ MaxPieces \in Nat

VARIABLES
    alloc_ptr,               \* [block, offset]; block 0 is the null pointer
    alloc_bytes_remaining,
    blocks,                  \* sizes, by number
    memory_usage,
    pieces                   \* [block, offset, bytes, aligned] handed out

vars == <<alloc_ptr, alloc_bytes_remaining, blocks, memory_usage, pieces>>

Init ==
    /\ alloc_ptr = [block |-> 0, offset |-> 0] /\ alloc_bytes_remaining = 0
    /\ blocks = [b \in {} |-> 0] /\ memory_usage = 0 /\ pieces = {}

NextBlock == Cardinality(DOMAIN blocks) + 1
AllocateNewBlock(bytes) ==
    /\ blocks' = [b \in 1..NextBlock |-> IF b = NextBlock THEN bytes ELSE blocks[b]]
    /\ memory_usage' = memory_usage + bytes + PointerSize

HandOut(block, offset, bytes, aligned) ==
    pieces' = pieces \cup {[block |-> block, offset |-> offset, bytes |-> bytes, aligned |-> aligned]}

(* Seeded defect: the block of a large piece becomes the current one.      *)
AllocateFallbackTakesBlock(bytes, aligned) ==
    LET size == IF bytes > BlockSize \div 4 THEN bytes ELSE BlockSize
    IN  /\ AllocateNewBlock(size)
        /\ alloc_ptr' = [block |-> NextBlock, offset |-> bytes]
        /\ alloc_bytes_remaining' = BlockSize - bytes
        /\ HandOut(NextBlock, 0, bytes, aligned)

AllocateFallback(bytes, aligned) ==
    /\ HandOut(NextBlock, 0, bytes, aligned)
    /\ IF bytes > BlockSize \div 4
       THEN AllocateNewBlock(bytes) /\ UNCHANGED <<alloc_ptr, alloc_bytes_remaining>>
       ELSE /\ AllocateNewBlock(BlockSize)
            /\ alloc_ptr' = [block |-> NextBlock, offset |-> bytes]
            /\ alloc_bytes_remaining' = BlockSize - bytes

CutOff(slop, bytes, aligned) ==
    /\ HandOut(alloc_ptr.block, alloc_ptr.offset + slop, bytes, aligned)
    /\ alloc_ptr' = [alloc_ptr EXCEPT !.offset = @ + slop + bytes]
    /\ alloc_bytes_remaining' = alloc_bytes_remaining - slop - bytes
    /\ UNCHANGED <<blocks, memory_usage>>

Allocate(bytes) ==
    IF bytes <= alloc_bytes_remaining THEN CutOff(0, bytes, FALSE)
    ELSE AllocateFallback(bytes, FALSE)

(* Seeded defect: the slop is not counted.                                 *)
AllocateAlignedUncounted(bytes) ==
    LET slop == (-alloc_ptr.offset) % Align
    IN  IF bytes <= alloc_bytes_remaining THEN CutOff(slop, bytes, TRUE)
        ELSE AllocateFallback(bytes, TRUE)

AllocateAligned(bytes) ==
    LET slop == (-alloc_ptr.offset) % Align
    IN  IF bytes + slop <= alloc_bytes_remaining THEN CutOff(slop, bytes, TRUE)
        ELSE AllocateFallback(bytes, TRUE)

Next ==
    /\ Cardinality(pieces) < MaxPieces
    /\ \E bytes \in Sizes : Allocate(bytes) \/ AllocateAligned(bytes)

Spec == Init /\ [][Next]_vars

-----------------------------------------------------------------------------
TypeOK == alloc_bytes_remaining \in 0..BlockSize /\ memory_usage \in Nat

(* Every piece lies in its block and apart from all others; an aligned one *)
(* is aligned.                                                             *)
PiecesAreApart ==
    /\ \A p \in pieces : p.offset + p.bytes <= blocks[p.block]
    /\ \A p \in pieces : p.aligned => p.offset % Align = 0
    /\ \A p, q \in pieces :
           p # q /\ p.block = q.block =>
               p.offset + p.bytes <= q.offset \/ q.offset + q.bytes <= p.offset
=============================================================================
