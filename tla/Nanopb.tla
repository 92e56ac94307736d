------------------------------- MODULE Nanopb -------------------------------
(***************************************************************************)
(* The protocol-buffer codec of nanopb (pb_encode.c, pb_decode.c,          *)
(* pb_common.c) that the Firebase SDK of the app encodes its requests      *)
(* with and decodes the answers with: a struct is encoded into a buffer of *)
(* bounded size, the bytes may be cut short or altered, or carry fields of *)
(* a newer schema, or follow an earlier encoding, and are decoded.         *)
(*                                                                         *)
(* A byte holds a continuation bit and Group value bits (7 in the code),   *)
(* integers have Narrow or Wide bits (32 and 64).  A struct is a function  *)
(* from the tags of its fields: a required field has its value, an         *)
(* optional one or a member of a union a "has" flag with it, a repeated    *)
(* one the sequence of its items.  Allocation succeeds.  Callbacks,        *)
(* extensions, fixed-count arrays and fields of proto3, which no schema of *)
(* the app has, are left out.                                              *)
(***************************************************************************)
EXTENDS Integers, Sequences, FiniteSets, FiniteSetsExt, SequencesExt

CONSTANTS
    Group, Narrow, Wide,  \* bits of a varint byte, of int32_t, of int64_t
    FixedBytes,           \* bytes of a fixed32
    Fields,               \* descriptors of the message: a sequence of fields
    Messages,             \* the structs that are encoded
    BufferSizes,          \* the sizes of the buffers they are encoded into
    Unknown,              \* encoded fields that the descriptors do not have
    AlteredBytes          \* what an altered byte becomes

Radix == 2^Group
ByteValues == 0..(2 * Radix - 1)

VARIABLES
    phase,    \* "idle", "encoded", "sent", "decoded"
    msg,      \* the struct that was encoded
    size,     \* what pb_get_encoded_size says of it
    max,      \* the size of the buffer
    stream,   \* the output stream: [ok, written, out]
    harm,     \* what became of the bytes: "none", "cut", "altered", "newer", "twice"
    before,   \* the struct whose encoding precedes, when harm = "twice"
    wire,     \* the bytes that are decoded
    dest      \* the result: [ok, rest, val]

vars == <<phase, msg, size, max, stream, harm, before, wire, dest>>

-----------------------------------------------------------------------------
(* Fields.                                                                 *)

Packable(f) == f.ltype \in {"varint", "uvarint", "svarint", "fixed32"}

WireType(f) == CASE f.ltype \in {"varint", "uvarint", "svarint"} -> 0
                 [] f.ltype = "fixed32" -> 5
                 [] OTHER -> 2

(* The other members of the union that f belongs to.                       *)
Rivals(fields, f) ==
    {g.tag : g \in {h \in ToSet(fields) : h.htype = "oneof" /\ f.htype = "oneof"
                                           /\ h.tag # f.tag}}

RECURSIVE pb_message_set_to_defaults(_)

Zero(f) == CASE f.ltype \in {"varint", "uvarint", "svarint", "fixed32"} -> 0
             [] f.ltype = "submessage" -> pb_message_set_to_defaults(f.sub)
             [] f.ltype = "fixed_length_bytes" -> [i \in 1..f.size |-> 0]
             [] OTHER -> <<>>

pb_field_set_to_default(f) ==
    CASE f.htype = "required" -> Zero(f)
      [] f.htype \in {"optional", "oneof"} -> [has |-> FALSE, val |-> Zero(f)]
      [] f.htype = "repeated" -> <<>>

pb_message_set_to_defaults(fields) ==
    [tag \in {fields[i].tag : i \in DOMAIN fields} |->
        pb_field_set_to_default(CHOOSE f \in ToSet(fields) : f.tag = tag)]

-----------------------------------------------------------------------------
(* Integers: two's complement in w bits, and its reading back.             *)

Unsigned(n, w) == n % 2^w
Signed(u, w) == IF u % 2^w >= 2^(w - 1) THEN (u % 2^w) - 2^w ELSE u % 2^w

More(b) == b >= Radix

(* The bytes that w bits take, and the position of the first bit of the last one. *)
GroupsOf(w) == (w + Group - 1) \div Group
LastPos(w) == (GroupsOf(w) - 1) * Group

-----------------------------------------------------------------------------
(* Encoding.  An output stream that only counts has sizing = TRUE.         *)

NewStream(sizing, limit) ==
    [ok |-> TRUE, sizing |-> sizing, max |-> limit, written |-> 0, out |-> <<>>]

Failed(st) == [st EXCEPT !.ok = FALSE]

WriteCount(st, n, bytes) ==
    IF ~st.ok THEN st
    ELSE IF ~st.sizing /\ st.written + n > st.max THEN Failed(st)
    ELSE [st EXCEPT !.written = @ + n, !.out = IF st.sizing THEN @ ELSE @ \o bytes]

pb_write(st, bytes) == WriteCount(st, Len(bytes), bytes)

(* The groups of a value, low ones first, each but the last marked.        *)
VarintBytes(u) ==
    LET n == IF u < Radix THEN 1
             ELSE CHOOSE k \in 1..GroupsOf(Wide) : Radix^(k - 1) <= u /\ u < Radix^k
    IN  [i \in 1..n |-> ((u \div Radix^(i - 1)) % Radix) + (IF i < n THEN Radix ELSE 0)]

pb_encode_varint(st, u) == pb_write(st, VarintBytes(u))

(* value << 1, complemented when the value is negative.                    *)
pb_encode_svarint(st, n) ==
    pb_encode_varint(st, IF n < 0 THEN 2 * (-n) - 1 ELSE 2 * n)

pb_encode_fixed32(st, u) ==
    pb_write(st, [i \in 1..FixedBytes |-> (u \div (2 * Radix)^(i - 1)) % (2 * Radix)])

pb_encode_tag(st, wiretype, tag) == pb_encode_varint(st, tag * 8 + wiretype)

pb_encode_string(st, bytes) == pb_write(pb_encode_varint(st, Len(bytes)), bytes)

(* The characters before the terminator.                                   *)
UpToNul(bytes) ==
    LET ends == {i \in DOMAIN bytes : bytes[i] = 0}
    IN  IF ends = {} THEN bytes ELSE SubSeq(bytes, 1, Min(ends) - 1)

RECURSIVE pb_encode(_, _, _)

(* The message is encoded twice: to learn its size, and to write it into a *)
(* stream of exactly that size.                                            *)
pb_encode_submessage(st, fields, m) ==
    LET sized == pb_encode(NewStream(TRUE, 0), fields, m)
        counted == pb_encode_varint(st, sized.written)
        written == pb_encode(NewStream(FALSE, sized.written), fields, m)
    IN  IF ~sized.ok THEN Failed(st)
        ELSE IF ~counted.ok \/ st.sizing THEN WriteCount(counted, sized.written, <<>>)
        ELSE IF counted.written + sized.written > st.max THEN Failed(counted)
        ELSE IF ~written.ok \/ written.written # sized.written THEN Failed(counted)
        ELSE pb_write(counted, written.out)

(* PB_ENCODERS[ltype](stream, field, src).                                 *)
EncodeValue(st, f, v) ==
    CASE f.ltype = "varint" -> pb_encode_varint(st, Unsigned(v, Wide))
      [] f.ltype = "uvarint" -> pb_encode_varint(st, v)
      [] f.ltype = "svarint" -> pb_encode_svarint(st, v)
      [] f.ltype = "fixed32" -> pb_encode_fixed32(st, v)
      [] f.ltype = "bytes" -> IF f.atype = "static" /\ Len(v) > f.size THEN Failed(st)
                              ELSE pb_encode_string(st, v)
      [] f.ltype = "string" -> pb_encode_string(st, UpToNul(v))
      [] f.ltype = "fixed_length_bytes" -> pb_encode_string(st, v)
      [] f.ltype = "submessage" -> pb_encode_submessage(st, f.sub, v)

EncodeTagged(st, f, v) == EncodeValue(pb_encode_tag(st, WireType(f), f.tag), f, v)

(* Seeded defect: the size written before a packed array counts its items. *)
encode_arrayCountsItems(st, f, items) ==
    LET counted == pb_encode_varint(pb_encode_tag(st, 2, f.tag), Len(items))
    IN  IF items = <<>> THEN st
        ELSE IF f.atype = "static" /\ Len(items) > f.array THEN Failed(st)
        ELSE IF ~Packable(f) THEN FoldLeft(LAMBDA a, v : EncodeTagged(a, f, v), st, items)
        ELSE IF st.sizing THEN WriteCount(counted, Len(items), <<>>)
        ELSE FoldLeft(LAMBDA a, v : EncodeValue(a, f, v), counted, items)

(* A packed array is sized first, by arithmetic when its items have a      *)
(* fixed size; other arrays repeat the tag before each item.               *)
encode_array(st, f, items) ==
    LET item(a, v) == EncodeValue(a, f, v)
        sized == IF f.ltype = "fixed32" THEN FixedBytes * Len(items)
                 ELSE FoldLeft(item, NewStream(TRUE, 0), items).written
        counted == pb_encode_varint(pb_encode_tag(st, 2, f.tag), sized)
    IN  IF items = <<>> THEN st
        ELSE IF f.atype = "static" /\ Len(items) > f.array THEN Failed(st)
        ELSE IF ~Packable(f) THEN FoldLeft(LAMBDA a, v : EncodeTagged(a, f, v), st, items)
        ELSE IF st.sizing THEN WriteCount(counted, sized, <<>>)
        ELSE FoldLeft(item, counted, items)

encode_basic_field(st, f, v) ==
    CASE f.htype = "required" -> EncodeTagged(st, f, v)
      [] f.htype = "repeated" -> encode_array(st, f, v)
      [] f.htype \in {"optional", "oneof"} ->
             IF v.has THEN EncodeTagged(st, f, v.val) ELSE st

pb_encode(st, fields, m) ==
    FoldLeft(LAMBDA a, f : encode_basic_field(a, f, m[f.tag]), st, fields)

pb_get_encoded_size(fields, m) == pb_encode(NewStream(TRUE, 0), fields, m).written

-----------------------------------------------------------------------------
(* Decoding.  An input stream is the bytes that are left in it; a function *)
(* returns whether it succeeded, the bytes it leaves and what it read.     *)

Fail == [ok |-> FALSE, rest |-> <<>>, val |-> 0]
Got(rest, val) == [ok |-> TRUE, rest |-> rest, val |-> val]

Drop(s, n) == SubSeq(s, n + 1, Len(s))

pb_read(s, n) == IF Len(s) < n THEN Fail ELSE Got(Drop(s, n), SubSeq(s, 1, n))

(* The number of bytes of the varint at the front, 0 if it does not end.   *)
VarintEnd(s) ==
    LET ends == {i \in DOMAIN s : ~More(s[i])} IN IF ends = {} THEN 0 ELSE Min(ends)

ValueOf(s, n) == FoldLeft(LAMBDA a, i : a + (s[i] % Radix) * Radix^(i - 1),
                          0, [i \in 1..n |-> i])

pb_decode_varint(s) ==
    LET n == VarintEnd(s)
    IN  IF n = 0 \/ n > GroupsOf(Wide) THEN Fail
        ELSE Got(Drop(s, n), ValueOf(s, n) % 2^Wide)

(* Bytes past the narrow ones must be padding or the sign of a negative    *)
(* number; of the last narrow byte only the bits that fit may be set.      *)
pb_decode_varint32(s) ==
    LET n == VarintEnd(s)
        narrow == GroupsOf(Narrow)
        result == ValueOf(s, Min({n, narrow})) % 2^Narrow
        extension(i) == IF (i - 1) * Group < LastPos(Wide) THEN 2 * Radix - 1
                        ELSE 2^(Wide - LastPos(Wide)) - 1
        padded(i) == \/ s[i] % Radix = 0
                     \/ (result >= 2^(Narrow - 1) /\ s[i] = extension(i))
    IN  IF \/ n = 0
           \/ \E i \in (narrow + 1)..n : ~padded(i)
           \/ (n = narrow /\ s[n] >= 2^(Narrow - LastPos(Narrow)))
        THEN Fail
        ELSE Got(Drop(s, n), result)

(* Seeded defect: a substream longer than its parent ends with the parent. *)
pb_make_string_substreamShort(s) ==
    LET r == pb_decode_varint32(s)
    IN  IF r.ok THEN pb_read(r.rest, Min({r.val, Len(r.rest)})) ELSE Fail

Substream(r) == IF r.ok THEN pb_read(r.rest, r.val) ELSE Fail

pb_make_string_substream(s) == Substream(pb_decode_varint32(s))

pb_skip_varint(s) == IF VarintEnd(s) = 0 THEN Fail ELSE Got(Drop(s, VarintEnd(s)), 0)

pb_skip_field(s, wiretype) ==
    CASE wiretype = 0 -> pb_skip_varint(s)
      [] wiretype = 1 -> pb_read(s, 2 * FixedBytes)
      [] wiretype = 2 -> pb_make_string_substream(s)
      [] wiretype = 5 -> pb_read(s, FixedBytes)
      [] OTHER -> Fail

(* A value that its field's type cannot hold is refused.                   *)
Clamped(r, v, low, high) ==
    IF r.ok /\ low <= v /\ v <= high THEN Got(r.rest, v) ELSE Fail
ClampedSigned(r, v, f) == Clamped(r, v, -(2^(f.bits - 1)), 2^(f.bits - 1) - 1)

(* Seeded defect: every value is cast to int32_t first.                  *)
NarrowedValue(r, f) == ClampedSigned(r, Signed(r.val, Narrow), f)
pb_dec_varintNarrows(s, f) == NarrowedValue(pb_decode_varint(s), f)

SignedValue(r, f) ==
    ClampedSigned(r, Signed(r.val, IF f.bits = Wide THEN Wide ELSE Narrow), f)

pb_dec_varint(s, f) == SignedValue(pb_decode_varint(s), f)

UnsignedValue(r, f) == Clamped(r, r.val, 0, 2^f.bits - 1)

pb_dec_uvarint(s, f) == UnsignedValue(pb_decode_varint(s), f)

ZigZagValue(r, f) ==
    ClampedSigned(r, IF r.val % 2 = 1 THEN -(r.val \div 2) - 1 ELSE r.val \div 2, f)

pb_dec_svarint(s, f) == ZigZagValue(pb_decode_varint(s), f)

pb_dec_fixed32(s) ==
    LET r == pb_read(s, FixedBytes)
        digit(a, i) == a + r.val[i] * (2 * Radix)^(i - 1)
    IN  IF r.ok THEN Got(r.rest, FoldLeft(digit, 0, [i \in 1..FixedBytes |-> i])) ELSE Fail

(* A string is stored with a terminator.                                   *)
BytesValue(r, f) ==
    LET needed == IF f.ltype = "string" THEN r.val + 1 ELSE r.val
        read == pb_read(r.rest, r.val)
    IN  IF ~r.ok \/ (f.atype = "static" /\ needed > f.size) \/ ~read.ok THEN Fail
        ELSE Got(read.rest, IF f.ltype = "string" THEN UpToNul(read.val) ELSE read.val)

pb_dec_bytes(s, f) == BytesValue(pb_decode_varint32(s), f)

FixedLengthValue(r, f) ==
    IF ~r.ok THEN Fail
    ELSE IF r.val = 0 THEN Got(r.rest, Zero(f))
    ELSE IF r.val # f.size THEN Fail
    ELSE pb_read(r.rest, f.size)

pb_dec_fixed_length_bytes(s, f) == FixedLengthValue(pb_decode_varint32(s), f)

RECURSIVE pb_decode_noinit(_, _, _, _)

pb_decode(s, fields) == pb_decode_noinit(s, fields, pb_message_set_to_defaults(fields), {})

(* Past a substream, with what was decoded from it.                        *)
Closed(sub, inner) == IF ~sub.ok \/ ~inner.ok THEN Fail ELSE Got(sub.rest, inner.val)

(* Seeded defect: the submessage is always decoded over defaults.        *)
pb_dec_submessageAnew(s, f, old) ==
    LET sub == pb_make_string_substream(s)
    IN  Closed(sub, pb_decode(sub.val, f.sub))

(* The submessage is decoded over what the struct has; what it leaves of   *)
(* its substream is skipped.                                               *)
pb_dec_submessage(s, f, old) ==
    LET sub == pb_make_string_substream(s)
    IN  Closed(sub, pb_decode_noinit(sub.val, f.sub, old, {}))

(* PB_DECODERS[ltype](stream, field, dest).                                *)
DecodeValue(s, f, old) ==
    CASE f.ltype = "varint" -> pb_dec_varint(s, f)
      [] f.ltype = "uvarint" -> pb_dec_uvarint(s, f)
      [] f.ltype = "svarint" -> pb_dec_svarint(s, f)
      [] f.ltype = "fixed32" -> pb_dec_fixed32(s)
      [] f.ltype \in {"bytes", "string"} -> pb_dec_bytes(s, f)
      [] f.ltype = "fixed_length_bytes" -> pb_dec_fixed_length_bytes(s, f)
      [] f.ltype = "submessage" -> pb_dec_submessage(s, f, old)

(* Seeded defect: one item too many.                                     *)
FullLate(f, items) == f.atype = "static" /\ Len(items) > f.array

Full(f, items) == f.atype = "static" /\ Len(items) >= f.array

(* The items of a packed array, up to the end of its substream.            *)
RECURSIVE DecodePacked(_, _, _)
PackedItem(r, f, items) ==
    IF r.ok THEN DecodePacked(r.rest, f, Append(items, r.val)) ELSE Fail

DecodePacked(s, f, items) ==
    IF s = <<>> THEN Got(s, items)
    ELSE IF Full(f, items) THEN Fail
    ELSE PackedItem(DecodeValue(s, f, Zero(f)), f, items)

OneItem(r, items) == IF r.ok THEN Got(r.rest, Append(items, r.val)) ELSE Fail

decode_repeated(s, wiretype, f, items) ==
    LET sub == pb_make_string_substream(s)
    IN  IF wiretype = 2 /\ Packable(f) THEN Closed(sub, DecodePacked(sub.val, f, items))
        ELSE IF Full(f, items) THEN Fail
        ELSE OneItem(DecodeValue(s, f, Zero(f)), items)

(* A submessage that is allocated or in a union is reset first, one in the *)
(* struct itself is merged into.  The wire type is not looked at, but for  *)
(* arrays.                                                                 *)
Stored(r, fields, f, m) ==
    CASE ~r.ok -> Fail
      [] f.htype \in {"required", "repeated"} -> Got(r.rest, [m EXCEPT ![f.tag] = r.val])
      [] OTHER -> Got(r.rest,
           [tag \in DOMAIN m |->
               IF tag = f.tag THEN [has |-> TRUE, val |-> r.val]
               ELSE IF tag \in Rivals(fields, f)
               THEN pb_field_set_to_default(CHOOSE g \in ToSet(fields) : g.tag = tag)
               ELSE m[tag]])

decode_field(s, wiretype, fields, f, m) ==
    LET old == IF f.atype = "pointer" \/ f.htype = "oneof" THEN Zero(f)
               ELSE IF f.htype = "required" THEN m[f.tag] ELSE m[f.tag].val
    IN  Stored(IF f.htype = "repeated" THEN decode_repeated(s, wiretype, f, m[f.tag])
               ELSE DecodeValue(s, f, old),
               fields, f, m)

(* One field after the other until the stream ends or a zero tag is read;  *)
(* then every required field must have been seen.                          *)
Ended(rest, fields, m, seen) ==
    IF {g.tag : g \in {h \in ToSet(fields) : h.htype = "required"}} \subseteq seen
    THEN Got(rest, m) ELSE Fail

AfterField(r, fields, seen) ==
    IF r.ok THEN pb_decode_noinit(r.rest, fields, r.val, seen) ELSE Fail

AfterTag(t, fields, m, seen) ==
    LET known == {f \in ToSet(fields) : f.tag = t.val \div 8}
        f == CHOOSE g \in known : TRUE
    IN  IF ~t.ok THEN Fail
        ELSE IF t.val = 0 THEN Ended(t.rest, fields, m, seen)
        ELSE IF known = {}
        THEN AfterField([pb_skip_field(t.rest, t.val % 8) EXCEPT !.val = m], fields, seen)
        ELSE AfterField(decode_field(t.rest, t.val % 8, fields, f, m), fields,
                        seen \cup {f.tag})

pb_decode_noinit(s, fields, m, seen) ==
    IF s = <<>> THEN Ended(s, fields, m, seen)
    ELSE AfterTag(pb_decode_varint32(s), fields, m, seen)

-----------------------------------------------------------------------------
(* A message is encoded, its bytes travel, and are decoded.                *)

Blank == pb_message_set_to_defaults(Fields)

Init ==
    /\ phase = "idle"
    /\ msg = Blank
    /\ size = 0
    /\ max = 0
    /\ stream = NewStream(FALSE, 0)
    /\ harm = "none"
    /\ before = Blank
    /\ wire = <<>>
    /\ dest = Fail

Encode(m, limit) ==
    /\ phase = "idle"
    /\ phase' = "encoded"
    /\ msg' = m
    /\ size' = pb_get_encoded_size(Fields, m)
    /\ max' = limit
    /\ stream' = pb_encode(NewStream(FALSE, limit), Fields, m)
    /\ UNCHANGED <<harm, before, wire, dest>>

Send(kind, bytes) ==
    /\ phase = "encoded"
    /\ stream.ok
    /\ phase' = "sent"
    /\ harm' = kind
    /\ wire' = bytes
    /\ UNCHANGED <<msg, size, max, stream, dest>>

Deliver == Send("none", stream.out) /\ UNCHANGED before

Cut(n) == n < Len(stream.out) /\ Send("cut", SubSeq(stream.out, 1, n)) /\ UNCHANGED before

Alter(i, b) ==
    /\ i <= Len(stream.out)
    /\ b # stream.out[i]
    /\ Send("altered", [stream.out EXCEPT ![i] = b])
    /\ UNCHANGED before

(* Fields of a newer schema come before or after the known ones.           *)
Newer(u) ==
    /\ \E bytes \in {u \o stream.out, stream.out \o u} : Send("newer", bytes)
    /\ UNCHANGED before

Twice(m) ==
    /\ Send("twice", pb_encode(NewStream(FALSE, Max(BufferSizes)), Fields, m).out
                     \o stream.out)
    /\ before' = m

Decode ==
    /\ phase = "sent"
    /\ phase' = "decoded"
    /\ dest' = pb_decode(wire, Fields)
    /\ UNCHANGED <<msg, size, max, stream, harm, before, wire>>

Next ==
    \/ \E m \in Messages, limit \in BufferSizes : Encode(m, limit)
    \/ Deliver
    \/ \E n \in 0..Max(BufferSizes) : Cut(n)
    \/ \E i \in 1..Max(BufferSizes), b \in AlteredBytes : Alter(i, b)
    \/ \E u \in Unknown : Newer(u)
    \/ \E m \in Messages : Twice(m)
    \/ Decode

Spec == Init /\ [][Next]_vars

-----------------------------------------------------------------------------
(* What a field may hold.                                                  *)

RECURSIVE Fits(_, _)

ValueFits(f, v) ==
    CASE f.ltype \in {"varint", "svarint"} -> v \in -(2^(f.bits - 1))..(2^(f.bits - 1) - 1)
      [] f.ltype = "uvarint" -> v \in 0..(2^f.bits - 1)
      [] f.ltype = "fixed32" -> v \in 0..((2 * Radix)^FixedBytes - 1)
      [] f.ltype = "bytes" -> f.atype = "static" => Len(v) <= f.size
      [] f.ltype = "string" -> f.atype = "static" => Len(v) < f.size
      [] f.ltype = "fixed_length_bytes" -> Len(v) = f.size
      [] f.ltype = "submessage" -> Fits(f.sub, v)

FieldFits(f, v) ==
    CASE f.htype = "required" -> ValueFits(f, v)
      [] f.htype = "repeated" -> /\ f.atype = "static" => Len(v) <= f.array
                                 /\ \A i \in DOMAIN v : ValueFits(f, v[i])
      [] OTHER -> ValueFits(f, v.val)

Fits(fields, m) ==
    /\ \A i \in DOMAIN fields : FieldFits(fields[i], m[fields[i].tag])
    /\ Cardinality({i \in DOMAIN fields : fields[i].htype = "oneof"
                                          /\ m[fields[i].tag].has}) <= 1

TypeOK ==
    /\ phase \in {"idle", "encoded", "sent", "decoded"}
    /\ msg \in Messages \cup {Blank}
    /\ before \in Messages \cup {Blank}
    /\ size \in Nat
    /\ max \in BufferSizes \cup {0}
    /\ stream.ok \in BOOLEAN /\ stream.out \in Seq(ByteValues)
    /\ harm \in {"none", "cut", "altered", "newer", "twice"}
    /\ wire \in Seq(ByteValues)
    /\ dest.ok \in BOOLEAN

(* The buffer that pb_get_encoded_size asks for is enough and no smaller   *)
(* one is: what the sizing pass adds up for packed arrays and nested       *)
(* messages is exactly what the writing pass writes, and a stream that is  *)
(* full is reported, never overrun.                                        *)
SizeIsExact ==
    phase # "idle" =>
        /\ stream.ok <=> size <= max
        /\ stream.ok => Len(stream.out) = size
        /\ Len(stream.out) <= max

(* What was encoded is decoded as it was, negative and boundary values,    *)
(* empty strings and absent fields included, and fields of a newer schema  *)
(* are skipped whatever their wire type.                                   *)
RoundTrip ==
    phase = "decoded" /\ harm \in {"none", "newer"} => dest.ok /\ dest.val = msg

(* A message that lost its end is refused, or shows of each field nothing, *)
(* or what was sent, or of an array its first items; never half a number   *)
(* or half a nested message, and never without a required field.           *)
CutShowsNoOther ==
    phase = "decoded" /\ harm = "cut" /\ dest.ok =>
        \A i \in DOMAIN Fields :
            LET f == Fields[i] IN
            IF f.htype = "repeated" THEN IsPrefix(dest.val[f.tag], msg[f.tag])
            ELSE dest.val[f.tag] \in {msg[f.tag]} \cup
                     (IF f.htype = "required" THEN {} ELSE {Blank[f.tag]})

(* Whatever the bytes are, what decodes fits its struct: no array grows    *)
(* past its size, no number past its type, no union has two members.       *)
DecodedFits == phase = "decoded" /\ dest.ok => Fits(Fields, dest.val)

RECURSIVE Merged(_, _, _)

Merged(fields, a, b) ==
    [tag \in DOMAIN a |->
        LET f == CHOOSE g \in ToSet(fields) : g.tag = tag
            rivalSet == \E t \in Rivals(fields, f) : b[t].has
        IN  CASE f.htype = "required" -> b[tag]
              [] f.htype = "repeated" -> a[tag] \o b[tag]
              [] f.htype = "oneof" -> IF b[tag].has THEN b[tag]
                                      ELSE IF rivalSet THEN Blank[tag] ELSE a[tag]
              [] ~b[tag].has -> a[tag]
              [] f.ltype = "submessage" /\ f.atype = "static" /\ a[tag].has ->
                    [has |-> TRUE, val |-> Merged(f.sub, a[tag].val, b[tag].val)]
              [] OTHER -> b[tag]]

(* Two encodings in a row decode as the merge of the two structs: arrays   *)
(* are joined, of a union the last member stays, a nested struct is merged *)
(* field by field (an allocated one is replaced), and it fails exactly     *)
(* when a joined array exceeds its size.                                   *)
TwiceIsMerged ==
    phase = "decoded" /\ harm = "twice" =>
        LET m == Merged(Fields, before, msg)
        IN  /\ dest.ok <=> Fits(Fields, m)
            /\ dest.ok => dest.val = m
=============================================================================
