------------------------------ MODULE MC_Notify ------------------------------
EXTENDS Notify

CONSTANTS i1, i2, h1, h2, a, b

MC_Ids == {i1, i2}
MC_Handlers == {h1, h2}
MC_Items == {a, b}

(* Single-byte items, as a uint8_t setting watched with size 1.          *)
MC_ByteItems == [it \in MC_Items |-> 1]

(* A two-byte item (a uint16_t watched with size 2) next to a byte.      *)
MC_WordItem == (a :> 2) @@ (b :> 1)

====
