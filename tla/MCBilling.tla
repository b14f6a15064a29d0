------------------------------ MODULE MCBilling ------------------------------
(* Small instances of Billing.                                                *)
EXTENDS Billing

CONSTANTS ann, bob, first, second, other

(* One account with two tabs, another after the same last place.              *)
BuyerOf == [r \in Refs |-> IF r = other THEN bob ELSE ann]

PlanOf == [r \in Refs |-> IF r = second THEN "pro" ELSE "founding"]

(* A subscription that changes twice, one that changes once.                 *)
Changes == [r \in Refs |-> IF r = first THEN 3 ELSE 1]
==============================================================================
