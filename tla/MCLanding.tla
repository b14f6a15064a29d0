------------------------------ MODULE MCLanding ------------------------------
(* Small instances of Landing.                                                *)
EXTENDS Landing, TLC

CONSTANTS p1, p2, p3, p4, walk, load

(* Rows told apart by who landed them when.                                   *)
IdOf(s, n, p) == <<s, n, p>>
AllIds == Runs \X (1..MaxRuns) \X Payloads

(* Each job is of a source of its own, and so are its rows.                   *)
OwnSource == [s \in Runs |-> s]
SourceOfId == [i \in AllIds |-> i[1]]

(* A walk that skips held content and a load, of one record twice: each source*)
(* has it indexed for itself.                                                 *)
WalkAndLoad == (walk :> {p1, p2, p3}) @@ (load :> {p1, p4})
==============================================================================
