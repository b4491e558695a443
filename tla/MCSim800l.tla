----------------------------- MODULE MCSim800l -----------------------------
(* Small instances of Sim800l for TLC. *)
EXTENDS Sim800l
CONSTANTS r1, r2, r3

NoRequests    == {}
OneRequest    == {r1}
ThreeRequests == {r1, r2, r3}
OneUnicode    == {r2}
OneSlot       == {1}
Connected     == {0}
=============================================================================
