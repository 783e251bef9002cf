-------------------------- MODULE MCOrderLifecycle --------------------------
(* Instances of OrderLifecycle.  Contending orders ask for the same single
   unit; the two-line order may be interrupted between its lines. *)
EXTENDS OrderLifecycle, TLC

CONSTANTS o1, o2, v1, v2, h1, h2, w1

OneOrder == {o1}
TwoOrders == {o1, o2}
OneVariant == {v1}
TwoVariants == {v1, v2}
TwoHandlers == {h1, h2}
OneWorker == {w1}

OneUnitEach == [o \in Orders |-> [v \in Variants |-> 1]]
OneInStock == [v \in Variants |-> 1]

HandlerSymmetry == Permutations(Handlers)
OrderSymmetry == Permutations(Handlers) \cup Permutations(Orders)
============================================================================
