------------------------------ MODULE MCWorker ------------------------------
(* A small instance of Worker.                                                *)
EXTENDS Worker

CONSTANTS feed, requalify, s1

(* Both have their slot at the second tick.                                   *)
SlotsOf == [j \in Jobs |-> {2}]

Reads == [j \in Jobs |-> IF j = feed THEN s1 ELSE None]

InOrder == <<feed>>
==============================================================================
