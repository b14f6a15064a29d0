---------------------------- MODULE MCWorkspace -----------------------------
(* A small instance of Workspace.                                             *)
EXTENDS Workspace, TLC

CONSTANTS ann, bob, eve, r1, r2

Plans == [a \in Accounts |-> IF a = eve THEN 0 ELSE 1]

(* Requests differ in what they hold only.                                    *)
Alike == Permutations(Requests)
==============================================================================
