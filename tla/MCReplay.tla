------------------------------- MODULE MCReplay -------------------------------
(* A small instance of Replay.                                                 *)
EXTENDS Replay, TLC

(* Months of three, three and two entries, numbered through.                  *)
EightEntries == <<1, 2, 3, 4, 5, 6, 7, 8>>
ThreeMonths  == 0 :> 0 @@ 1 :> 3 @@ 2 :> 6 @@ 3 :> 8
==============================================================================
