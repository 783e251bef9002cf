------------------------------ MODULE Cohorts ------------------------------
(***************************************************************************)
(* Micro-cohorts of one store (CohortService).  A recompute, started by    *)
(* the worker when the store's cadence is due or by the merchant, reads    *)
(* the customers' features, deletes the store's cohorts and creates the    *)
(* new ones one by one, without a transaction and in an order of its own:  *)
(* that of Maps filled from queries that name none.  [storeId, key] is     *)
(* unique: a run that meets a cohort of an overlapping run throws there.   *)
(***************************************************************************)
EXTENDS Naturals, FiniteSets

CONSTANTS
    Keys,          \* cohort keys
    Recomputes,    \* executions of recompute() that may overlap
    Scheduled,     \* the one of them that the worker starts
    FirstKeys,     \* what the features of an established store yield
    Nightly, Weekly, Monthly,   \* the cadences, in days: 1, 7, 30
    CohortOps,     \* what an instance lets happen besides recomputing
    MaxLosses,     \* bound: runs that die or fail half-way
    MaxShifts      \* bound: changes of the features

AllCohortOps == {"shift", "lose"}

ASSUME CohortAssumption ==
    /\ FirstKeys \subseteq Keys
    /\ Scheduled \in Recomputes
    /\ Nightly \in 1..Monthly /\ Weekly \in 1..Monthly /\ Monthly \in Nat
    /\ CohortOps \subseteq AllCohortOps
    /\ MaxLosses \in Nat /\ MaxShifts \in Nat

VARIABLES
    features,      \* the keys a recompute that reads now will create
    cohorts,       \* the keys of the store's cohorts
    recompute,     \* per run: where it stands and the keys it has left
    age,           \* days since cohortsRecomputedAt, up to the longest cadence
    steady,        \* the keys the features have yielded at all times
    losses,        \* runs that died or failed so far
    shifts,        \* changes of the features so far
    latest,        \* history: the run that deleted the cohorts last, until it ends
    spoilt         \* history: that run has failed

lastRun == <<latest, spoilt>>
cohortVars == <<features, cohorts, recompute, age, steady, losses, shifts, lastRun>>

(* cadence(): the interval, in days, for the average daily visitors. *)
Cadence(visitors) ==
    IF visitors >= 10000 THEN Nightly ELSE IF visitors >= 1000 THEN Weekly ELSE Monthly

Traffic == {0, 1000, 10000}
Idle == [at |-> "idle", todo |-> {}]
Recompute == [at : {"idle", "reset", "create"}, todo : SUBSET Keys]

CohortTypeOK ==
    /\ features \subseteq Keys /\ cohorts \subseteq Keys /\ steady \subseteq features
    /\ recompute \in [Recomputes -> Recompute]
    /\ age \in 0..Monthly
    /\ losses \in Nat /\ shifts \in Nat
    /\ latest \subseteq Recomputes /\ spoilt \in BOOLEAN

(* A store that has its cohorts, or a new one, never computed. *)
CohortInit ==
    /\ features \in {FirstKeys, {}}
    /\ cohorts = features /\ steady = features
    /\ age = IF features = {} THEN Monthly ELSE 0
    /\ recompute = [r \in Recomputes |-> Idle]
    /\ losses = 0 /\ shifts = 0
    /\ latest = {} /\ spoilt = FALSE

CohortDayPasses ==
    /\ age < Monthly
    /\ age' = age + 1
    /\ UNCHANGED <<features, cohorts, recompute, steady, losses, shifts, lastRun>>

(* Customers come, browse, search and buy. *)
ShiftFeatures(f) ==
    /\ "shift" \in CohortOps /\ f # features
    /\ shifts < MaxShifts /\ shifts' = shifts + 1
    /\ features' = f /\ steady' = steady \cap f
    /\ UNCHANGED <<cohorts, recompute, age, losses, lastRun>>
----------------------------------------------------------------------------
(* recompute(): the features are read and the cohorts formed, *)
ReadFeatures(r) ==
    /\ recompute[r].at = "idle"
    /\ recompute' = [recompute EXCEPT ![r] = [at |-> "reset", todo |-> features]]
    /\ UNCHANGED <<features, cohorts, age, steady, losses, shifts, lastRun>>

(* the store's cohorts deleted, *)
ResetCohorts(r) ==
    /\ recompute[r].at = "reset"
    /\ cohorts' = {}
    /\ recompute' = [recompute EXCEPT ![r].at = "create"]
    /\ latest' = {r} /\ spoilt' = FALSE
    /\ UNCHANGED <<features, age, steady, losses, shifts>>

(* the new ones created, in any order: one that exists already ends the run, *)
GivesUp(r) ==
    /\ recompute' = [recompute EXCEPT ![r] = Idle]
    /\ latest' = latest \ {r} /\ spoilt' = (spoilt \/ r \in latest)

KeepsCreating(r, todo) ==
    recompute' = [recompute EXCEPT ![r].todo = todo] /\ UNCHANGED lastRun

CreateCohortUnlessThere(r, k) ==
    /\ recompute[r].at = "create" /\ k \in recompute[r].todo
    /\ cohorts' = cohorts \cup {k}
    /\ KeepsCreating(r, IF k \in cohorts THEN {} ELSE recompute[r].todo \ {k})
    /\ UNCHANGED <<features, age, steady, losses, shifts>>

CreateCohort(r, k) ==
    /\ recompute[r].at = "create" /\ k \in recompute[r].todo
    /\ cohorts' = cohorts \cup {k}
    /\ IF k \in cohorts THEN GivesUp(r) ELSE KeepsCreating(r, recompute[r].todo \ {k})
    /\ UNCHANGED <<features, age, steady, losses, shifts>>

(* and the time recorded. *)
StampCohorts(r) ==
    /\ recompute[r].at = "create" /\ recompute[r].todo = {}
    /\ recompute' = [recompute EXCEPT ![r] = Idle]
    /\ age' = 0
    /\ latest' = latest \ {r}
    /\ UNCHANGED <<features, cohorts, steady, losses, shifts, spoilt>>

(* A statement fails or the process dies. *)
LoseRecompute(r) ==
    /\ "lose" \in CohortOps /\ losses < MaxLosses /\ losses' = losses + 1
    /\ recompute[r].at # "idle"
    /\ GivesUp(r)
    /\ UNCHANGED <<features, cohorts, age, steady, shifts>>

(* runDueRecomputes, for the visitors counted now: a store never computed, and
   one as old as its cadence. *)
RecomputeDueLate(visitors) == age > Cadence(visitors)
RecomputeDue(visitors) == age >= Cadence(visitors)
----------------------------------------------------------------------------
Recomputing(r) ==
    \/ ResetCohorts(r) \/ StampCohorts(r)
    \/ \E k \in Keys : CreateCohort(r, k)

CohortsDrift == \E f \in SUBSET Keys : ShiftFeatures(f)

StartsRecompute(r, visitors) ==
    /\ r = Scheduled => RecomputeDue(visitors)
    /\ ReadFeatures(r)

CohortNext ==
    \/ CohortDayPasses \/ CohortsDrift
    \/ \E r \in Recomputes :
          \/ \E visitors \in Traffic : StartsRecompute(r, visitors)
          \/ Recomputing(r) \/ LoseRecompute(r)

CohortSpec == CohortInit /\ [][CohortNext]_cohortVars
----------------------------------------------------------------------------
Creating(k) == {r \in Recomputes : recompute[r].at = "create" /\ k \in recompute[r].todo}

(* The recompute that deleted the cohorts last keeps what the features yield all
   the time: such a cohort is there or that run is still to create it, whatever
   the runs it overlaps create and wherever they give up, unless it failed itself
   and threw. *)
LastRunKeepsSteady == ~spoilt => \A k \in steady \ cohorts : latest \cap Creating(k) # {}

(* Overlapping alone never leaves a store without cohorts: where none are left,
   some run is about to create every steady one. *)
NeverLeftEmpty ==
    losses = 0 /\ cohorts = {} /\ steady # {} =>
       \E r \in Recomputes : recompute[r].at = "create" /\ steady \subseteq recompute[r].todo

(* No cohort is lost without an error (recompute deletes and creates without a
   transaction). *)
SteadyCohortsKept == LastRunKeepsSteady /\ NeverLeftEmpty

(* Cohorts are missing, and the merchant is not computing them. *)
CohortsWait ==
    /\ ~(features \subseteq cohorts)
    /\ \A r \in Recomputes \ {Scheduled} : recompute[r].at = "idle"
============================================================================
