----------------------------- MODULE MCRefunds -----------------------------
(* Small instances of Refunds. *)
EXTENDS Refunds, TLC

CONSTANTS o1, q1, q2, h1, h2

NoOps == {}
NoAmount == {}
Declines == {"decline"}
AnyOp == AllOps
RefundSymmetry == Permutations(Handlers) \cup Permutations(Returns)
============================================================================
