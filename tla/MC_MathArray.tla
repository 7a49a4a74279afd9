---------------------------- MODULE MC_MathArray ----------------------------
EXTENDS MathArray

(* Small elements, a negative one for the int16_t and float calls.         *)
MC_Elems == {-1, 0, 1, 2}

(* Elements whose sum overflows a uint16_t or an int16_t.                  *)
MC_WideElems == {-20000, 0, 20000, 40000}
====
