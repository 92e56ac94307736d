------------------------------ MODULE Checksum ------------------------------
(***************************************************************************)
(* crc32c::Extend: a register updated byte by byte up to a word boundary,  *)
(* then in four strides at once, then the strides combined and the rest    *)
(* byte by byte; the masking of stored checksums.  Sizes are parameters:   *)
(* a byte has ByteBits bits, a word WordBytes bytes, the register a word.  *)
(***************************************************************************)
EXTENDS Integers, Sequences, SequencesExt, Bitwise

CONSTANTS
    ByteBits, WordBytes, Poly,   \* 8, 4 and 0x82f63b78 in the code
    Rotation, MaskDelta,         \* 15 and kMaskDelta in the code
    Chunks, MaxBytes             \* what is appended at a time; bound

ChecksumAssumption ==
    /\ ByteBits \in Nat \ {0} /\ WordBytes \in Nat \ {0} /\ MaxBytes \in Nat
    /\ Poly \in 0..(2^(ByteBits * WordBytes) - 1) /\ MaskDelta \in 0..(2^(ByteBits * WordBytes) - 1)
    /\ Rotation \in 0..(ByteBits * WordBytes)

VARIABLES crc, data

vars == <<crc, data>>

Width == ByteBits * WordBytes
Words == 0..(2^Width - 1)
Bytes == 0..(2^ByteBits - 1)
kCRC32Xor == 2^Width - 1

Init == crc = 0 /\ data = <<>>

(* n zero bits through the register.                                       *)
Zeros[x \in Words, n \in 0..(ByteBits * 4 * WordBytes)] ==
    IF n = 0 THEN x
    ELSE Zeros[IF x % 2 = 1 THEN (x \div 2) ^^ Poly ELSE x \div 2, n - 1]

kByteExtensionTable[c \in Bytes] == Zeros[c, ByteBits]

(* Table k is for the byte that is k-th from the top.                      *)
kStrideExtensionTable[k \in 0..(WordBytes - 1), b \in Bytes] ==
    Zeros[b * 2^(ByteBits * (WordBytes - 1 - k)), ByteBits * 4 * WordBytes]

ByteOf(x, i) == (x \div 2^(ByteBits * i)) % 2^ByteBits

STEP1(l, byte) ==
    kByteExtensionTable[ByteOf(l, 0) ^^ byte] ^^ (l \div 2^ByteBits)

ReadUint32LE(p) == FoldLeft(LAMBDA w, i : w + p[i] * 2^(ByteBits * (i - 1)), 0,
                            [i \in 1..WordBytes |-> i])

STEP4(w, p) ==
    FoldLeft(LAMBDA x, i : x ^^ kStrideExtensionTable[WordBytes - i, ByteOf(w, i - 1)],
             ReadUint32LE(p), [i \in 1..WordBytes |-> i])

STEP4W(l, w) ==
    FoldLeft(LAMBDA x, i : (x \div 2^ByteBits) ^^ kByteExtensionTable[ByteOf(x, 0)],
             w ^^ l, [i \in 1..WordBytes |-> i])

From(p, n) == SubSeq(p, n + 1, Len(p))

(* Seeded defect: the strides are not rotated.                             *)
AdvanceStays(crcs, p) == <<STEP4(crcs[1], p), crcs[2], crcs[3], crcs[4]>>

(* One word is taken into the first stride, which then is the last.        *)
Advance(crcs, p) == <<crcs[2], crcs[3], crcs[4], STEP4(crcs[1], p)>>

Combine(crcs) == FoldLeft(STEP4W, 0, crcs)

(* misaligned is the number of bytes to the next word boundary.            *)
Extend(init, p, misaligned) ==
    LET head == IF misaligned <= Len(p) THEN misaligned ELSE 0
        l == FoldLeft(STEP1, init ^^ kCRC32Xor, SubSeq(p, 1, head))
        rest == From(p, head)
        swath == 4 * WordBytes
        words == (Len(rest) - swath) \div WordBytes
        word(i) == From(rest, i * WordBytes)
        start == <<ReadUint32LE(rest) ^^ l, ReadUint32LE(word(1)), ReadUint32LE(word(2)),
                   ReadUint32LE(word(3))>>
        strides == FoldLeft(LAMBDA c, i : Advance(c, word(3 + i)), start, [i \in 1..words |-> i])
    IN  IF Len(rest) >= swath
        THEN FoldLeft(STEP1, Combine(strides), word(4 + words)) ^^ kCRC32Xor
        ELSE FoldLeft(STEP1, l, rest) ^^ kCRC32Xor

RotateRight(x, n) == (x \div 2^n) + (x % 2^n) * 2^(Width - n)

Mask(x) == (RotateRight(x, Rotation) + MaskDelta) % 2^Width

(* Seeded defect: rotated the wrong way.                                   *)
UnmaskAgain(x) == RotateRight((x - MaskDelta) % 2^Width, Rotation)

Unmask(x) == RotateRight((x - MaskDelta) % 2^Width, Width - Rotation)

AppendData(chunk, misaligned) ==
    /\ Len(data) + Len(chunk) <= MaxBytes
    /\ crc' = Extend(crc, chunk, misaligned)
    /\ data' = data \o chunk

Next == \E chunk \in Chunks, misaligned \in 0..(WordBytes - 1) : AppendData(chunk, misaligned)

Spec == Init /\ [][Next]_vars

-----------------------------------------------------------------------------
TypeOK == crc \in Words /\ Len(data) <= MaxBytes

(* The definition of the checksum: bit by bit over the whole string.       *)
BitByBit(p) ==
    LET bits == FlattenSeq([i \in 1..Len(p) |->
                               [k \in 1..ByteBits |-> (p[i] \div 2^(k - 1)) % 2]])
        shift(l, bit) == IF l % 2 # bit THEN (l \div 2) ^^ Poly ELSE l \div 2
    IN  FoldLeft(shift, kCRC32Xor, bits) ^^ kCRC32Xor

(* However a string is cut into pieces and wherever they lie in memory,    *)
(* Extend computes the checksum of the whole.                              *)
ExtendIsTheChecksum == crc = BitByBit(data)

(* A stored checksum is the one that was computed.                         *)
MaskIsUndone == Unmask(Mask(crc)) = crc
=============================================================================
