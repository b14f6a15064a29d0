---------------------------- MODULE MCRawArchive -----------------------------
(* Small instances of RawArchive.                                             *)
EXTENDS RawArchive, TLC

CONSTANTS p1, p2, p3, load, tool

(* Row ids, in the order of the runs.                                         *)
Place(p) == CASE p = p1 -> 1 [] p = p2 -> 2 [] OTHER -> 3
IdOf(s, n, p) == 10 * n + Place(p)

LoadMore == load :> {p1, p2, p3}
OneSource == [s \in Runs |-> load]
ItsRows == [i \in Ids |-> load]
NoObjects == << >>
==============================================================================
