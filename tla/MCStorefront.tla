---------------------------- MODULE MCStorefront ----------------------------
(* Small instances of Storefront. *)
EXTENDS Storefront, TLC

CONSTANTS t1, t2, a, b

Pair == <<a, b>>
TabSymmetry == Permutations(Tabs)
=============================================================================
