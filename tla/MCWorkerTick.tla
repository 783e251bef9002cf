---------------------------- MODULE MCWorkerTick ----------------------------
(* Small instances of WorkerTick, one per group of jobs. *)
EXTENDS WorkerTick

CONSTANTS w, m          \* the worker's execution of a job, and the merchant's
CONSTANTS c1, q1, p1, v1, k1, s1, h1

Delays == <<0, 1>>
CartWork == {"recovery", "subscriptions"}
AnyOp == AllOps
StoreWork == {"alerts", "cohorts", "subscriptions", "engagement", "advisories"}

Warmth == {"HOT", "COLD"}
CapOf == [t \in Warmth |-> IF t = "HOT" THEN 2 ELSE 1]
=============================================================================
