------------------------------ MODULE MCHistory ------------------------------
(* Small instances of History.                                                *)
EXTENDS History, TLC

CONSTANTS a, b, c, d, auto, byHand

(* A day of two chunks, the second short; one of a full chunk, with an empty  *)
(* one after it; one without notices. A notice may be on two days.            *)
ThreeDays == <<<<a, b, c>>, <<d, a>>, << >>>>

Capped  == [l \in Loaders |-> IF l = auto THEN 1 ELSE 2]
==============================================================================
