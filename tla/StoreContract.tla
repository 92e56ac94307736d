--------------------------- MODULE StoreContract ----------------------------
(***************************************************************************)
(* What a store promises about its writes, whatever it does behind the     *)
(* scenes: a write that is acknowledged can be read back by every later    *)
(* incarnation; a crash takes only writes that were not promised to be on  *)
(* the disk; flushing, compacting, collecting garbage and recovering take  *)
(* nothing.                                                                *)
(***************************************************************************)
CONSTANT Writes

VARIABLES
    contents,   \* the writes the next incarnation would find
    promised,   \* those no crash may take
    up          \* a process has the store in use

vars == <<contents, promised, up>>

Init == contents = {} /\ promised = {} /\ ~up

Start ==
    /\ ~up /\ up'
    /\ UNCHANGED <<contents, promised>>

(* An unacknowledged write may end up in the store, too.                   *)
Write(w) ==
    /\ up /\ up' /\ w \notin contents
    /\ contents' \in {contents, contents \cup {w}}
    /\ promised' \in {promised, promised \cup ({w} \cap contents')}

End ==
    /\ up /\ ~up'
    /\ contents' \subseteq contents /\ promised \subseteq contents'
    /\ UNCHANGED promised

Next == Start \/ End \/ \E w \in Writes : Write(w)

Spec == Init /\ [][Next]_vars
=============================================================================
