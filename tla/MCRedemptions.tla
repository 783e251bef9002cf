--------------------------- MODULE MCRedemptions ---------------------------
(* Small instances of Redemptions: amounts of a few minor units, so that a
   coupon, an offer and points together reach and exceed a cart's value. *)
EXTENDS Redemptions, TLC

CONSTANTS c1, o1, o2, h1, h2

SamePrice == [s \in Subtotals |-> {s}]
LimitOne == {{1}}
NoOps == {}
Declines == {"decline"}
NoAmount == {}
NoSaving == {0}
UpAndDown == {-1, 3}
OrderSymmetry == Permutations(Handlers) \cup Permutations(Orders)
============================================================================
