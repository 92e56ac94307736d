------------------------------- MODULE Base64 -------------------------------
(***************************************************************************)
(* The base64 conversion (fbase64.c) of the web socket that carries the    *)
(* Realtime Database: f_b64_ntop turns bytes into text, f_b64_pton reads   *)
(* text back, four characters at a time.  A character is one of the 64     *)
(* digits, by its index in Base64[], the pad, a space or any other one.    *)
(* Both work in a target of limited size.  On its way the text may gain    *)
(* white space, lose a character or have one changed.                      *)
(***************************************************************************)
EXTENDS Integers, Sequences, FiniteSets, SequencesExt

CONSTANTS Sources, TargetSizes, Damages

Pad == 64
Space == 65
Other == 66

VARIABLES phase, src, text, harm, sizes, result

vars == <<phase, src, text, harm, sizes, result>>

Error == [ok |-> FALSE, out |-> <<>>]
Returned(out) == [ok |-> TRUE, out |-> out]

(* The four digits of up to three bytes, absent bytes being zero.          *)
Digits(a, b, c) ==
    <<a \div 4, (a % 4) * 16 + b \div 16, (b % 16) * 4 + c \div 64, c % 64>>

(* Three bytes at a time; one or two that are left are padded.             *)
RECURSIVE Quanta(_)
Quanta(s) ==
    CASE Len(s) = 0 -> <<>>
      [] Len(s) = 1 -> SubSeq(Digits(s[1], 0, 0), 1, 2) \o <<Pad, Pad>>
      [] Len(s) = 2 -> SubSeq(Digits(s[1], s[2], 0), 1, 3) \o <<Pad>>
      [] OTHER -> Digits(s[1], s[2], s[3]) \o Quanta(SubSeq(s, 4, Len(s)))

(* The text and its terminator must fit.                                   *)
f_b64_ntop(s, targsize) ==
    IF Len(Quanta(s)) >= targsize THEN Error ELSE Returned(Quanta(s))

(* Seeded defect: white space is skipped at the front only.              *)
SkippedOnce(s) == IF s # <<>> /\ s[1] = Space THEN Tail(s) ELSE s

Skipped(s) == SelectSeq(s, LAMBDA ch : ch # Space)

(* One digit: state counts the digits of the quantum, target is what is    *)
(* written so far, its last byte begun but not complete unless state = 0.  *)
Put(r, d, targsize) ==
    LET n == Len(r.target)
        Into(x) == [r.target EXCEPT ![n] = @ + x]
    IN  CASE r.state = 0 -> [state |-> 1, ok |-> n < targsize,
                             target |-> Append(r.target, d * 4)]
          [] r.state = 1 -> [state |-> 2, ok |-> n < targsize,
                             target |-> Append(Into(d \div 16), (d % 16) * 16)]
          [] r.state = 2 -> [state |-> 3, ok |-> n < targsize,
                             target |-> Append(Into(d \div 4), (d % 4) * 64)]
          [] r.state = 3 -> [state |-> 0, ok |-> TRUE, target |-> Into(d)]

Step(r, ch, targsize) ==
    IF ~r.ok \/ ch \notin 0..63 THEN [r EXCEPT !.ok = FALSE] ELSE Put(r, ch, targsize)

(* Seeded defect: the bits left over are not looked at.                  *)
f_b64_ptonSlop(s, targsize) ==
    LET chars == Skipped(s)
        digits == SelectSeq(chars, LAMBDA ch : ch # Pad)
        r == FoldLeft(LAMBDA a, ch : Step(a, ch, targsize),
                      [state |-> 0, ok |-> TRUE, target |-> <<>>], digits)
    IN  IF ~r.ok \/ r.state = 1 \/ Len(chars) % 4 # 0 THEN Error
        ELSE IF r.state = 0 THEN Returned(r.target)
        ELSE Returned(SubSeq(r.target, 1, Len(r.target) - 1))

(* White space is skipped.  The digits end at the first pad; one pad must  *)
(* follow three digits of a quantum, two must follow two, nothing else may *)
(* come after, and the bits that no whole byte takes must be zero.         *)
f_b64_pton(s, targsize) ==
    LET chars == Skipped(s)
        pads == {i \in DOMAIN chars : chars[i] = Pad}
        n == IF pads = {} THEN Len(chars)
             ELSE (CHOOSE i \in pads : \A j \in pads : i <= j) - 1
        r == FoldLeft(LAMBDA a, ch : Step(a, ch, targsize),
                      [state |-> 0, ok |-> TRUE, target |-> <<>>], SubSeq(chars, 1, n))
        tail == SubSeq(chars, n + 1, Len(chars))
        whole == SubSeq(r.target, 1, Len(r.target) - 1)
    IN  IF ~r.ok THEN Error
        ELSE IF pads = {} THEN IF r.state = 0 THEN Returned(r.target) ELSE Error
        ELSE IF r.state \notin {2, 3} \/ tail # [i \in 1..(4 - r.state) |-> Pad]
        THEN Error
        ELSE IF r.target[Len(r.target)] # 0 THEN Error
        ELSE Returned(whole)

-----------------------------------------------------------------------------
Init ==
    /\ phase = "idle"
    /\ src = <<>>
    /\ text = <<>>
    /\ harm = "none"
    /\ sizes = <<0, 0>>
    /\ result = Error

(* Texts that do not fit are not sent.                                     *)
Encode(s, targsize) ==
    /\ phase = "idle"
    /\ phase' = IF f_b64_ntop(s, targsize).ok THEN "encoded" ELSE "refused"
    /\ src' = s
    /\ text' = f_b64_ntop(s, targsize).out
    /\ sizes' = [sizes EXCEPT ![1] = targsize]
    /\ UNCHANGED <<harm, result>>

(* Character i is changed to ch, or dropped; or white space comes before it. *)
Damage(i, ch) ==
    /\ phase = "encoded" /\ harm = "none"
    /\ i \in DOMAIN text
    /\ \/ ch = Space /\ harm' = "spaced" /\ text' = InsertAt(text, i, ch)
       \/ harm' = "changed" /\ ch # text[i] /\ text' = [text EXCEPT ![i] = ch]
       \/ harm' = "changed" /\ text' = RemoveAt(text, i)
    /\ UNCHANGED <<phase, src, sizes, result>>

Decode(targsize) ==
    /\ phase = "encoded"
    /\ phase' = "decoded"
    /\ sizes' = [sizes EXCEPT ![2] = targsize]
    /\ result' = f_b64_pton(text, targsize)
    /\ UNCHANGED <<src, text, harm>>

Next ==
    \/ \E s \in Sources, n \in TargetSizes : Encode(s, n)
    \/ \E i \in 1..12, ch \in Damages : Damage(i, ch)
    \/ \E n \in TargetSizes : Decode(n)

Spec == Init /\ [][Next]_vars

-----------------------------------------------------------------------------
TypeOK ==
    /\ phase \in {"idle", "encoded", "refused", "decoded"}
    /\ src \in Sources \cup {<<>>}
    /\ text \in Seq((0..63) \cup {Pad, Space, Other})
    /\ harm \in {"none", "spaced", "changed"}
    /\ result.ok \in BOOLEAN
    /\ result.out \in Seq(0..255)

(* What f_b64_ntop writes, f_b64_pton reads back, white space or not, when *)
(* there is a byte to spare for the bits left over; and neither fills more *)
(* than its target.                                                        *)
ReadsBack ==
    /\ phase \in {"encoded", "refused"} => (phase = "encoded" <=> Len(Quanta(src)) < sizes[1])
    /\ phase = "decoded" /\ harm # "changed" =>
          LET spare == IF Len(src) % 3 = 0 THEN 0 ELSE 1 IN
          IF Len(src) + spare <= sizes[2] THEN result = Returned(src) ELSE ~result.ok

(* "If we don't check them, they become a subliminal channel": of all the  *)
(* texts that could stand for some bytes only one is accepted, the one     *)
(* that f_b64_ntop writes for them, with white space anywhere.             *)
OneTextPerValue ==
    phase = "decoded" /\ result.ok => Skipped(text) = Quanta(result.out)
=============================================================================
