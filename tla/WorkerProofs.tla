---------------------------- MODULE WorkerProofs ----------------------------
(***************************************************************************)
(* Proofs about the worker's jobs, one section each, and about the tick    *)
(* that runs them.                                                         *)
(*                                                                         *)
(* Subscriptions: a date that is claimed lies before the next one, is      *)
(* unbilled and has one claimant, for any number of overlapping runs.      *)
(*                                                                         *)
(* Cohorts, for any number of cohorts and of overlapping recomputes, each  *)
(* in an order of its own: what the run that deleted the cohorts last has  *)
(* left to create makes up for every steady cohort that is missing, and a  *)
(* run that has not deleted yet has every steady one to create.            *)
(*                                                                         *)
(* CartRecovery: what a handler or the job is about to write is accounted  *)
(* for (RecoveryInv), so that a cart that was settled is only unsettled by *)
(* a write that slipped, and each reminder by its step or by a fault.      *)
(*                                                                         *)
(* Engagement: what a customer gets in any window is what some run could   *)
(* count when it began to serve her, and one for each run that overlaps    *)
(* (EngagementInv).                                                        *)
(*                                                                         *)
(* OwnerAlerts: the alerts that scans can still send without a change of   *)
(* the rating are counted (AlertsLeft), and no step makes that count and   *)
(* those sent grow together; a report that was not recorded is one mishap. *)
(*                                                                         *)
(* The tick: a step of WorkerTick is a step of each job or leaves it       *)
(* alone, so every job behaves as its own specification says.              *)
(***************************************************************************)
EXTENDS WorkerTick, FiniteSetTheorems, TLAPS

(***************************************************************************)
(* Subscriptions: types, and that no due date is billed twice by any       *)
(* number of overlapping runs, as long as no claim is given back.          *)
(***************************************************************************)

TypeInv == SubscriptionTypeOK

LEMMA RestingTyped == Resting \in Run
  BY DEF Resting, Run

(* A run that goes on with a smaller list is well typed. *)
LEMMA GoesOnTyped ==
    ASSUME TypeInv, NEW r \in Runners, NEW due \in SUBSET Due, GoesOn(r, due)
    PROVE  runner' \in [Runners -> Run]
  BY RestingTyped DEF TypeInv, SubscriptionTypeOK, GoesOn, Run

LEMMA InitTyped == Init => TypeInv
  BY SubscriptionAssumption, RestingTyped
     DEF Init, TypeInv, SubscriptionTypeOK, Row, Days, Status, NotManaging

LEMMA NextTyped == TypeInv /\ [Next]_vars => TypeInv'
<1>. SUFFICES ASSUME TypeInv, [Next]_vars PROVE TypeInv'
  OBVIOUS
<1>. USE SubscriptionAssumption
<1>1. CASE PassDay
  BY <1>1 DEF PassDay, TypeInv, SubscriptionTypeOK, Days
<1>2. ASSUME NEW s \in Subs, NEW i \in Intervals, NEW t \in Days \cup {now + i}, Create(s, i, t)
      PROVE  TypeInv'
  <2>1. t \in Nat
    BY DEF Days, TypeInv, SubscriptionTypeOK
  <2>2. [status |-> "ACTIVE", next |-> t, interval |-> i, cycles |-> 0] \in Row
    BY <2>1 DEF Row, Status
  <2>. QED  BY <1>2, <2>1, <2>2 DEF Create, TypeInv, SubscriptionTypeOK
<1>3. ASSUME NEW m \in Managers, WriteChange(m) PROVE TypeInv'
  <2>. DEFINE c == manager[m]
  <2>1. c \in Change
    BY <1>3 DEF WriteChange, TypeInv, SubscriptionTypeOK
  <2>2. c.sub \in Subs
    BY <2>1 DEF Change
  <2>3. subscription[c.sub] \in Row
    BY <2>2 DEF TypeInv, SubscriptionTypeOK
  <2>4. CASE c.at = "status"
    <3>1. c.status \in Status
      BY <2>1, <2>4 DEF Change
    <3>2. [subscription[c.sub] EXCEPT !.status = c.status] \in Row
      BY <2>3, <3>1 DEF Row
    <3>3. subscription' = [subscription EXCEPT ![c.sub] = [subscription[c.sub] EXCEPT !.status = c.status]]
      BY <1>3, <2>4 DEF WriteChange
    <3>4. subscription' \in [Subs -> Row]
      BY <2>2, <3>2, <3>3 DEF TypeInv, SubscriptionTypeOK
    <3>. QED  BY <1>3, <3>4 DEF WriteChange, TypeInv, SubscriptionTypeOK
  <2>5. CASE c.at # "status"
    <3>1. c.next \in Nat /\ c.interval \in Intervals
      BY <2>1, <2>5 DEF Change, Days
    <3>2. Patched(subscription[c.sub], c) \in Row
      BY <2>3, <3>1 DEF Row, Patched
    <3>3. subscription' = [subscription EXCEPT ![c.sub] = Patched(subscription[c.sub], c)]
      BY <1>3, <2>5 DEF WriteChange
    <3>4. subscription' \in [Subs -> Row]
      BY <2>2, <3>2, <3>3 DEF TypeInv, SubscriptionTypeOK
    <3>. QED  BY <1>3, <3>4 DEF WriteChange, TypeInv, SubscriptionTypeOK
  <2>. QED  BY <2>4, <2>5
<1>4. ASSUME NEW m \in Managers, NEW c \in Change, BeginChange(m, c) PROVE TypeInv'
  BY <1>4 DEF BeginChange, TypeInv, SubscriptionTypeOK
<1>5. ASSUME NEW r \in Runners, ListDue(r) PROVE TypeInv'
  <2>. DEFINE rows == {s \in Subs : subscription[s].status = "ACTIVE" /\ IsDue(subscription[s])}
              list == {[sub |-> s, next |-> subscription[s].next,
                        interval |-> subscription[s].interval] : s \in rows}
  <2>1. \A s \in rows : [sub |-> s, next |-> subscription[s].next,
                         interval |-> subscription[s].interval] \in Due
    BY DEF IsDue, TypeInv, SubscriptionTypeOK, Row, Due, Days
  <2>2. [at |-> "run", claim |-> {}, due |-> list]
          \in Run
    BY <2>1 DEF Run
  <2>3. runner' = [runner EXCEPT ![r] = [at |-> "run", claim |-> {}, due |-> list]]
    BY <1>5 DEF ListDue
  <2>. QED  BY <1>5, <2>2, <2>3 DEF ListDue, TypeInv, SubscriptionTypeOK
<1>6. ASSUME NEW r \in Runners, NEW d \in runner[r].due, Claim(r, d) PROVE TypeInv'
  <2>1. d \in Due /\ runner[r].due \ {d} \in SUBSET Due
    BY DEF TypeInv, SubscriptionTypeOK, Run
  <2>2. CASE ClaimValid(d)
    <3>. d.sub \in Subs /\ d.next \in Nat /\ d.interval \in Intervals
      BY <2>1 DEF Due, Days
    <3>. d.interval \in Nat
      BY SubscriptionAssumption DEF SubscriptionAssumption
    <3>1. NextDate(d) \in Nat
      BY DEF NextDate
    <3>. subscription[d.sub] \in Row
      BY DEF TypeInv, SubscriptionTypeOK
    <3>2. [subscription[d.sub] EXCEPT !.next = NextDate(d)] \in Row
      BY <3>1 DEF Row
    <3>3. [at |-> "order", due |-> runner[r].due \ {d}, claim |-> {d}]
            \in Run
      BY <2>1 DEF Run
    <3>. QED  BY <1>6, <2>2, <3>1, <3>2, <3>3 DEF Claim, TypeInv, SubscriptionTypeOK
  <2>3. CASE ~ClaimValid(d)
    BY <1>6, <2>1, <2>3, GoesOnTyped DEF Claim, TypeInv, SubscriptionTypeOK
  <2>. QED  BY <2>2, <2>3
<1>7. ASSUME NEW r \in Runners, NEW d \in runner[r].claim, PlaceOrder(r, d) PROVE TypeInv'
  <2>1. d.sub \in Subs /\ d.next \in Days
    BY DEF TypeInv, SubscriptionTypeOK, Due, Run
  <2>2. [billed[d.sub] EXCEPT ![d.next] = @ + 1] \in [Days -> Nat]
    BY <2>1 DEF TypeInv, SubscriptionTypeOK
  <2>3. billed' = [billed EXCEPT ![d.sub] = [billed[d.sub] EXCEPT ![d.next] = @ + 1]]
    BY <1>7 DEF PlaceOrder
  <2>4. billed' \in [Subs -> [Days -> Nat]]
    BY <2>1, <2>2, <2>3 DEF TypeInv, SubscriptionTypeOK
  <2>5. [runner[r] EXCEPT !.at = "record"] \in Run
    BY DEF TypeInv, SubscriptionTypeOK, Run
  <2>. QED  BY <1>7, <2>4, <2>5 DEF PlaceOrder, TypeInv, SubscriptionTypeOK
<1>8. ASSUME NEW r \in Runners, NEW d \in runner[r].claim, RecordCycle(r, d) \/ Revert(r, d)
      PROVE  TypeInv'
  <2>1. d \in Due /\ d.sub \in Subs /\ d.next \in Nat /\ runner[r].due \in SUBSET Due
    BY DEF TypeInv, SubscriptionTypeOK, Due, Days, Run
  <2>2. subscription[d.sub] \in Row
    BY <2>1 DEF TypeInv, SubscriptionTypeOK
  <2>3. Reverted(subscription[d.sub], d) \in Row
    BY <2>1, <2>2 DEF Reverted, Row, Status
  <2>4. [subscription[d.sub] EXCEPT !.cycles = @ + 1] \in Row
    BY <2>2 DEF Row
  <2>5. subscription' \in [Subs -> Row]
    BY <1>8, <2>1, <2>3, <2>4 DEF RecordCycle, Revert, TypeInv, SubscriptionTypeOK
  <2>6. GoesOn(r, runner[r].due)
    BY <1>8 DEF RecordCycle, Revert
  <2>. QED  BY <1>8, <2>1, <2>5, <2>6, GoesOnTyped DEF RecordCycle, Revert, TypeInv, SubscriptionTypeOK
<1>9. ASSUME NEW r \in Runners, CheckoutFails(r) \/ RecordFails(r) \/ Crash(r) PROVE TypeInv'
  <2>1. [runner[r] EXCEPT !.at = "revert"] \in Run
    BY DEF TypeInv, SubscriptionTypeOK, Run
  <2>2. runner' \in [Runners -> Run]
    BY <1>9, <2>1, RestingTyped DEF CheckoutFails, RecordFails, Crash, TypeInv, SubscriptionTypeOK
  <2>. QED  BY <1>9, <2>2 DEF CheckoutFails, RecordFails, Crash, TypeInv, SubscriptionTypeOK
<1>10. CASE UNCHANGED vars
  BY <1>10 DEF vars, TypeInv, SubscriptionTypeOK
<1>. QED  BY <1>1, <1>2, <1>3, <1>4, <1>5, <1>6, <1>7, <1>8, <1>9, <1>10 DEF Next, Bills

(* The variables of the billing runs keep their types. *)
THEOREM SubscriptionTypeCorrect == Spec => []SubscriptionTypeOK
  BY InitTyped, NextTyped, PTL DEF Spec, TypeInv
----------------------------------------------------------------------------
(* Why a claim is enough.  A date from nextBillingAt on has not been billed; a
   claimed date lies before it, is not billed yet, and has one claimant. *)
Unborn ==
    \A s \in Subs : subscription[s].status = "NONE" =>
       /\ \A t \in Days : billed[s][t] = 0
       /\ \A r \in Runners : \A d \in runner[r].due \cup runner[r].claim : d.sub # s
FutureUnbilled ==
    \A s \in Subs, t \in Days : t >= subscription[s].next => billed[s][t] = 0
ClaimsPast ==
    \A r \in Runners : \A d \in runner[r].claim : runner[r].at = "order" =>
       d.next < subscription[d.sub].next /\ billed[d.sub][d.next] = 0
OneClaimant ==
    \A r, q \in Runners : \A d \in runner[r].claim, e \in runner[q].claim :
       (r # q /\ runner[r].at = "order" /\ runner[q].at = "order" /\ d.sub = e.sub) => d.next # e.next
NothingGivenBack ==
    /\ \A r \in Runners : runner[r].at # "revert"
    /\ \A m \in Managers : manager[m] # NotManaging =>
          manager[m].at = "status" /\ subscription[manager[m].sub].status # "NONE"

Billing == Unborn /\ FutureUnbilled /\ ClaimsPast /\ OneClaimant /\ NothingGivenBack /\ BilledAtMostOnce

ClaimsKept == Ops \cap {"reschedule", "declined", "unsaved"} = {}

LEMMA BillingInit == Init => Billing
  BY DEF Init, Resting, Billing, Unborn, FutureUnbilled, ClaimsPast, OneClaimant, NothingGivenBack,
         BilledAtMostOnce

(* A run that goes on or stops gives up its claim and lists nothing new. *)
LEMMA BillingRests ==
    ASSUME TypeInv, Billing, NEW r \in Runners, UNCHANGED <<billed, manager>>,
           NEW x \in Run, runner' = [runner EXCEPT ![r] = x],
           x.at \notin {"order", "revert"}, x.due \cup x.claim \subseteq runner[r].due \cup runner[r].claim,
           \A s \in Subs : subscription'[s].status = subscription[s].status /\ subscription'[s].next = subscription[s].next
    PROVE  Billing'
<1>1. \A q \in Runners : runner'[q] = IF q = r THEN x ELSE runner[q]
  BY DEF TypeInv, SubscriptionTypeOK
<1>2. \A q \in Runners : \A d \in runner[q].due \cup runner[q].claim : d.sub \in Subs
  BY DEF TypeInv, SubscriptionTypeOK, Run, Due
<1>3. Unborn'
  BY <1>1 DEF Billing, Unborn
<1>4. FutureUnbilled' /\ BilledAtMostOnce'
  BY DEF Billing, FutureUnbilled, BilledAtMostOnce
<1>5. ClaimsPast'
  BY <1>1, <1>2 DEF Billing, ClaimsPast
<1>6. OneClaimant'
  BY <1>1 DEF Billing, OneClaimant
<1>7. \A m \in Managers : manager[m] # NotManaging => manager[m].sub \in Subs
  BY DEF TypeInv, SubscriptionTypeOK, Change
<1>8. NothingGivenBack'
  BY <1>1, <1>7 DEF Billing, NothingGivenBack
<1>. QED  BY <1>3, <1>4, <1>5, <1>6, <1>8 DEF Billing

LEMMA GoesOnIs ==
    ASSUME TypeInv, NEW r \in Runners, NEW due \in SUBSET runner[r].due, GoesOn(r, due)
    PROVE  \E x \in Run : /\ runner' = [runner EXCEPT ![r] = x]
                          /\ x.at \notin {"order", "revert"}
                          /\ x.due \cup x.claim \subseteq runner[r].due \cup runner[r].claim
<1>. DEFINE x == IF due = {} THEN Resting ELSE [at |-> "run", due |-> due, claim |-> {}]
<1>1. due \in SUBSET Due
  BY DEF TypeInv, SubscriptionTypeOK, Run
<1>2. x \in Run /\ x.at \notin {"order", "revert"} /\ x.due \subseteq due /\ x.claim = {}
  BY <1>1 DEF Resting, Run
<1>3. runner' = [runner EXCEPT ![r] = x]
  BY DEF GoesOn
<1>. HIDE DEF x
<1>. QED  BY <1>2, <1>3

LEMMA BillingStep == ClaimsKept /\ TypeInv /\ Billing /\ [Next]_vars /\ TypeInv' => Billing'
<1>. SUFFICES ASSUME ClaimsKept, TypeInv, Billing, [Next]_vars, TypeInv' PROVE Billing'
  OBVIOUS
<1>. USE SubscriptionAssumption DEF Billing
<1>0. \A s \in Subs : subscription[s] \in Row /\ subscription[s].next \in Nat
  BY DEF TypeInv, SubscriptionTypeOK, Row
<1>a. \A q \in Runners : runner[q] \in Run
  BY DEF TypeInv, SubscriptionTypeOK
<1>b. \A q \in Runners : \A d \in runner[q].due \cup runner[q].claim :
         d.sub \in Subs /\ d.next \in Days /\ d.interval \in Intervals
  BY <1>a DEF Run, Due
<1>1. CASE PassDay
  BY <1>1 DEF PassDay, Unborn, FutureUnbilled, ClaimsPast, OneClaimant, NothingGivenBack, BilledAtMostOnce
<1>2. ASSUME NEW s \in Subs, NEW i \in Intervals, NEW t \in Days \cup {now + i}, Create(s, i, t)
      PROVE  Billing'
  <2>1. \A u \in Subs : u # s => subscription'[u] = subscription[u]
    BY <1>2 DEF Create, TypeInv, SubscriptionTypeOK
  <2>2. /\ \A u \in Days : billed[s][u] = 0
        /\ \A r \in Runners : \A d \in runner[r].due \cup runner[r].claim : d.sub # s
        /\ subscription'[s].status # "NONE"
    BY <1>2 DEF Create, Unborn, TypeInv, SubscriptionTypeOK
  <2>3. UNCHANGED <<billed, runner, manager>>
    BY <1>2 DEF Create
  <2>4. Unborn' /\ FutureUnbilled' /\ BilledAtMostOnce'
    BY <2>1, <2>2, <2>3 DEF Unborn, FutureUnbilled, BilledAtMostOnce
  <2>5. ClaimsPast' /\ OneClaimant'
    BY <2>1, <2>2, <2>3, <1>b DEF ClaimsPast, OneClaimant
  <2>6. \A m \in Managers : manager[m] # NotManaging => manager[m].sub \in Subs
    BY DEF TypeInv, SubscriptionTypeOK, Change
  <2>7. NothingGivenBack'
    BY <2>1, <2>2, <2>3, <2>6 DEF NothingGivenBack
  <2>. QED  BY <2>4, <2>5, <2>7
<1>3. ASSUME NEW m \in Managers, WriteChange(m) PROVE Billing'
  <2>. DEFINE c == manager[m]
  <2>1. c \in Change /\ c.at = "status" /\ subscription[c.sub].status # "NONE"
    BY <1>3 DEF WriteChange, NothingGivenBack, TypeInv, SubscriptionTypeOK
  <2>2. c.sub \in Subs /\ c.status \in Status
    BY <2>1 DEF Change
  <2>3. \A s \in Subs : /\ subscription'[s].next = subscription[s].next
                        /\ subscription'[s].status = IF s = c.sub THEN c.status ELSE subscription[s].status
    BY <1>0, <1>3, <2>1, <2>2 DEF WriteChange, TypeInv, SubscriptionTypeOK, Row
  <2>4. c.status # "NONE"
    BY <2>2 DEF Status
  <2>5. UNCHANGED <<billed, runner>>
    BY <1>3 DEF WriteChange
  <2>6. Unborn' /\ FutureUnbilled' /\ BilledAtMostOnce'
    BY <2>1, <2>2, <2>3, <2>4, <2>5 DEF Unborn, FutureUnbilled, BilledAtMostOnce
  <2>7. ClaimsPast' /\ OneClaimant'
    BY <2>3, <2>5, <1>b DEF ClaimsPast, OneClaimant
  <2>8. \A n \in Managers : manager'[n] # NotManaging => manager'[n] = manager[n]
    BY <1>3 DEF WriteChange, TypeInv, SubscriptionTypeOK
  <2>9. \A n \in Managers : manager[n] # NotManaging => manager[n].sub \in Subs
    BY DEF TypeInv, SubscriptionTypeOK, Change
  <2>10. NothingGivenBack'
    BY <2>3, <2>4, <2>5, <2>8, <2>9 DEF NothingGivenBack
  <2>. QED  BY <2>6, <2>7, <2>10
<1>4. ASSUME NEW m \in Managers, NEW c \in Change, BeginChange(m, c) PROVE Billing'
  <2>1. c.at = "status" /\ subscription[c.sub].status # "NONE"
    BY <1>4 DEF BeginChange, Manageable, Change, ClaimsKept
  <2>2. \A n \in Managers : manager'[n] = IF n = m THEN c ELSE manager[n]
    BY <1>4 DEF BeginChange, TypeInv, SubscriptionTypeOK
  <2>3. UNCHANGED <<subscription, billed, runner>>
    BY <1>4 DEF BeginChange
  <2>4. Unborn' /\ FutureUnbilled' /\ ClaimsPast' /\ OneClaimant' /\ BilledAtMostOnce'
    BY <2>3 DEF Unborn, FutureUnbilled, ClaimsPast, OneClaimant, BilledAtMostOnce
  <2>5. NothingGivenBack'
    BY <2>1, <2>2, <2>3 DEF NothingGivenBack
  <2>. QED  BY <2>4, <2>5
<1>5. ASSUME NEW r \in Runners, ListDue(r) PROVE Billing'
  <2>. DEFINE rows == {s \in Subs : subscription[s].status = "ACTIVE" /\ IsDue(subscription[s])}
              list == {[sub |-> s, next |-> subscription[s].next,
                        interval |-> subscription[s].interval] : s \in rows}
  <2>1. runner' = [runner EXCEPT ![r] = [at |-> "run", claim |-> {}, due |-> list]]
    BY <1>5 DEF ListDue
  <2>2. \A q \in Runners : runner'[q] = IF q = r THEN [at |-> "run", claim |-> {}, due |-> list] ELSE runner[q]
    BY <2>1 DEF TypeInv, SubscriptionTypeOK
  <2>3. \A d \in list : d.sub \in Subs /\ subscription[d.sub].status # "NONE"
    OBVIOUS
  <2>. HIDE DEF list
  <2>4. UNCHANGED <<subscription, billed, manager>>
    BY <1>5 DEF ListDue
  <2>5. Unborn' /\ FutureUnbilled' /\ BilledAtMostOnce'
    BY <2>2, <2>3, <2>4 DEF Unborn, FutureUnbilled, BilledAtMostOnce
  <2>6. ClaimsPast' /\ OneClaimant' /\ NothingGivenBack'
    BY <2>2, <2>4 DEF ClaimsPast, OneClaimant, NothingGivenBack
  <2>. QED  BY <2>5, <2>6
<1>6. ASSUME NEW r \in Runners, NEW d \in runner[r].due, Claim(r, d) PROVE Billing'
  <2>0. d.sub \in Subs /\ d.next \in Days /\ d.interval \in Intervals /\ d.next \in Nat
    BY <1>b DEF Days
  <2>1. CASE ~ClaimValid(d)
    <3>1. UNCHANGED <<subscription, billed, manager>> /\ GoesOn(r, runner[r].due \ {d})
      BY <1>6, <2>1 DEF Claim
    <3>2. PICK x \in Run : /\ runner' = [runner EXCEPT ![r] = x]
                          /\ x.at \notin {"order", "revert"}
                          /\ x.due \cup x.claim \subseteq runner[r].due \cup runner[r].claim
      BY <3>1, GoesOnIs
    <3>. QED  BY <3>1, <3>2, BillingRests
  <2>2. CASE ClaimValid(d)
    <3>. DEFINE x == [at |-> "order", due |-> runner[r].due \ {d}, claim |-> {d}]
    <3>1. UNCHANGED <<billed, manager>> /\ runner' = [runner EXCEPT ![r] = x]
      BY <1>6, <2>2 DEF Claim
    <3>2. \A q \in Runners : runner'[q] = IF q = r THEN x ELSE runner[q]
      BY <3>1 DEF TypeInv, SubscriptionTypeOK
    <3>3. subscription[d.sub].status = "ACTIVE" /\ subscription[d.sub].next = d.next
      BY <2>2 DEF ClaimValid
    <3>4. NextDate(d) \in Nat /\ NextDate(d) > d.next
      <4>1. d.interval \in Nat /\ d.interval > 0
        <5>1. \A i \in Intervals : i \in Nat /\ i # 0
          BY SubscriptionAssumption DEF SubscriptionAssumption
        <5>2. d.interval \in Intervals
          BY <2>0
        <5>. QED  BY ONLY <5>1, <5>2
      <4>. QED  BY <2>0, <4>1 DEF NextDate
    <3>5. \A s \in Subs : /\ subscription'[s].status = subscription[s].status
                          /\ subscription'[s].next = IF s = d.sub THEN NextDate(d) ELSE subscription[s].next
      <4>. DEFINE row == subscription[d.sub]
                  moved == [row EXCEPT !.next = NextDate(d)]
      <4>1. subscription' = [subscription EXCEPT ![d.sub] = moved]
        BY <1>6, <2>2 DEF Claim
      <4>2. row \in Row
        BY <1>0, <2>0
      <4>3. moved.next = NextDate(d) /\ moved.status = row.status
        BY <4>2 DEF Row
      <4>. HIDE DEF moved
      <4>. QED  BY <2>0, <4>1, <4>3 DEF TypeInv, SubscriptionTypeOK
    <3>6. \A s \in Subs : subscription'[s].next \in Nat /\ subscription'[s].next >= subscription[s].next
      BY <1>0, <3>3, <3>4, <3>5
    <3>7. Unborn' /\ BilledAtMostOnce'
      BY <3>1, <3>2, <3>5 DEF Unborn, BilledAtMostOnce
    <3>8. FutureUnbilled'
      BY <1>0, <3>1, <3>6 DEF FutureUnbilled, Days
    <3>9. ClaimsPast'
      <4>1. billed[d.sub][d.next] = 0
        BY <2>0, <3>3 DEF FutureUnbilled
      <4>2. \A q \in Runners : \A e \in runner[q].claim :
               runner[q].at = "order" => e.next < subscription'[e.sub].next /\ billed[e.sub][e.next] = 0
        BY <1>0, <1>b, <3>6 DEF ClaimsPast, Days
      <4>3. d.next < subscription'[d.sub].next
        BY <2>0, <3>4, <3>5
      <4>. QED  BY <3>1, <3>2, <4>1, <4>2, <4>3 DEF ClaimsPast
    <3>10. OneClaimant'
      <4>1. \A q \in Runners : \A e \in runner[q].claim :
               (runner[q].at = "order" /\ e.sub = d.sub) => e.next < d.next
        BY <3>3 DEF ClaimsPast
      <4>2. \A q \in Runners : \A e \in runner[q].claim :
               (runner[q].at = "order" /\ e.sub = d.sub) => e.next # d.next
        BY <1>b, <2>0, <4>1 DEF Days
      <4>. QED  BY <3>2, <4>2 DEF OneClaimant
    <3>11. NothingGivenBack'
      <4>1. \A m \in Managers : manager[m] # NotManaging => manager[m].sub \in Subs
        BY DEF TypeInv, SubscriptionTypeOK, Change
      <4>. QED  BY <3>1, <3>2, <3>5, <4>1 DEF NothingGivenBack
    <3>. QED  BY <3>7, <3>8, <3>9, <3>10, <3>11
  <2>. QED  BY <2>1, <2>2
<1>7. ASSUME NEW r \in Runners, NEW d \in runner[r].claim, PlaceOrder(r, d) PROVE Billing'
  <2>0. d.sub \in Subs /\ d.next \in Days
    BY <1>b
  <2>1. /\ UNCHANGED <<subscription, manager>> /\ runner[r].at = "order"
        /\ runner' = [runner EXCEPT ![r] = [runner[r] EXCEPT !.at = "record"]]
        /\ billed' = [billed EXCEPT ![d.sub][d.next] = billed[d.sub][d.next] + 1]
    BY <1>7 DEF PlaceOrder
  <2>2. \A q \in Runners : /\ runner'[q].due = runner[q].due /\ runner'[q].claim = runner[q].claim
                           /\ runner'[q].at = IF q = r THEN "record" ELSE runner[q].at
    BY <1>a, <2>1 DEF TypeInv, SubscriptionTypeOK, Run
  <2>3. billed[d.sub][d.next] = 0 /\ d.next < subscription[d.sub].next
    BY <2>1 DEF ClaimsPast
  <2>4. \A s \in Subs, t \in Days : billed'[s][t] = IF s = d.sub /\ t = d.next THEN 1 ELSE billed[s][t]
    BY <2>0, <2>1, <2>3 DEF TypeInv, SubscriptionTypeOK
  <2>5. Unborn'
    BY <1>b, <2>0, <2>1, <2>2, <2>4 DEF Unborn
  <2>6. FutureUnbilled' /\ BilledAtMostOnce'
    BY <1>0, <2>0, <2>1, <2>3, <2>4 DEF FutureUnbilled, BilledAtMostOnce, Days
  <2>7. ClaimsPast' /\ OneClaimant'
    <3>1. \A q \in Runners : \A e \in runner[q].claim :
             (q # r /\ runner[q].at = "order") => ~(e.sub = d.sub /\ e.next = d.next)
      BY <2>1 DEF OneClaimant
    <3>. QED  BY <1>b, <2>1, <2>2, <2>4, <3>1 DEF ClaimsPast, OneClaimant
  <2>8. NothingGivenBack'
    BY <2>1, <2>2 DEF NothingGivenBack
  <2>. QED  BY <2>5, <2>6, <2>7, <2>8
<1>8. ASSUME NEW r \in Runners, NEW d \in runner[r].claim, RecordCycle(r, d) PROVE Billing'
  <2>1. \A s \in Subs : /\ subscription'[s].status = subscription[s].status
                        /\ subscription'[s].next = subscription[s].next
    BY <1>0, <1>8 DEF RecordCycle, TypeInv, SubscriptionTypeOK, Row
  <2>2. PICK x \in Run : /\ runner' = [runner EXCEPT ![r] = x]
                        /\ x.at \notin {"order", "revert"}
                        /\ x.due \cup x.claim \subseteq runner[r].due \cup runner[r].claim
    BY <1>8, GoesOnIs DEF RecordCycle
  <2>. QED  BY <1>8, <2>1, <2>2, BillingRests DEF RecordCycle
<1>9. ASSUME NEW r \in Runners, NEW d \in runner[r].claim, Revert(r, d) PROVE FALSE
  BY <1>9 DEF Revert, NothingGivenBack
<1>10. ASSUME NEW r \in Runners, CheckoutFails(r) \/ RecordFails(r) PROVE FALSE
  BY <1>10 DEF CheckoutFails, RecordFails, ClaimsKept
<1>11. ASSUME NEW r \in Runners, Crash(r) PROVE Billing'
  <2>1. Resting.at = "idle" /\ Resting.due = {} /\ Resting.claim = {} /\ Resting \in Run
    BY RestingTyped DEF Resting
  <2>. QED  BY <1>11, <2>1, BillingRests DEF Crash
<1>12. CASE UNCHANGED vars
  BY <1>12 DEF vars, Unborn, FutureUnbilled, ClaimsPast, OneClaimant, NothingGivenBack, BilledAtMostOnce
<1>. QED  BY <1>1, <1>2, <1>3, <1>4, <1>5, <1>6, <1>7, <1>8, <1>9, <1>10, <1>11, <1>12 DEF Next, Bills

(* However many runs overlap and wherever they die, no due date of a
   subscription is billed twice, as long as checkouts succeed, completed cycles
   are saved and nobody reschedules: a claim is then never given back. *)
THEOREM NeverDoubleBilled ==
    ASSUME Ops \cap {"reschedule", "declined", "unsaved"} = {}
    PROVE  Spec => []BilledAtMostOnce
<1>1. ClaimsKept
  BY DEF ClaimsKept
<1>2. Init => TypeInv /\ Billing
  BY InitTyped, BillingInit
<1>3. TypeInv /\ Billing /\ [Next]_vars => TypeInv' /\ Billing'
  BY <1>1, NextTyped, BillingStep
<1>4. Billing => BilledAtMostOnce
  BY DEF Billing
<1>. QED  BY <1>2, <1>3, <1>4, PTL DEF Spec
----------------------------------------------------------------------------
(* What a run holds: no claim before it has claimed, one afterwards, and of the row
   the interval that it still has, since nobody reschedules. *)
OneClaim ==
    \A r \in Runners :
       /\ runner[r].at \in {"idle", "run"} => runner[r].claim = {}
       /\ \A d, e \in runner[r].claim : d = e
ListedAsIs ==
    \A r \in Runners : \A d \in runner[r].due \cup runner[r].claim :
       d.interval = subscription[d.sub].interval
NothingForgone == \A s \in Subs : subscription[s].status = "NONE" => forgone[s] = 0

Holding == OneClaim /\ ListedAsIs /\ NothingForgone

Known == TypeInv /\ Billing /\ Holding

LEMMA RowsTyped ==
    ASSUME TypeInv
    PROVE  /\ \A s \in Subs : /\ subscription[s] \in Row /\ subscription[s].next \in Nat
                              /\ subscription[s].cycles \in Nat
                              /\ subscription[s].interval \in Nat \ {0}
                              /\ forgone[s] \in Nat /\ start[s] \in Nat
           /\ \A r \in Runners : runner[r] \in Run
           /\ \A r \in Runners : \A d \in runner[r].due \cup runner[r].claim :
                 d.sub \in Subs /\ d.next \in Days /\ d.next \in Nat /\ d.interval \in Intervals
<1>1. \A s \in Subs : subscription[s] \in Row /\ forgone[s] \in Nat /\ start[s] \in Nat
  BY DEF TypeInv, SubscriptionTypeOK
<1>2. \A row \in Row : row.next \in Nat /\ row.cycles \in Nat /\ row.interval \in Nat \ {0}
  BY SubscriptionAssumption DEF Row
<1>3. \A r \in Runners : runner[r] \in Run
  BY DEF TypeInv, SubscriptionTypeOK
<1>4. \A x \in Run : x.due \cup x.claim \subseteq Due
  BY DEF Run
<1>5. \A d \in Due : d.sub \in Subs /\ d.next \in Days /\ d.next \in Nat /\ d.interval \in Intervals
  BY DEF Due, Days
<1> QED BY <1>1, <1>2, <1>3, <1>4, <1>5

(* A step that starts no claim, and changes no interval and no new row. *)
LEMMA HoldingStays ==
    ASSUME Known, UNCHANGED forgone,
           \A s \in Subs : /\ subscription'[s].interval = subscription[s].interval
                           /\ subscription'[s].status = "NONE" => subscription[s].status = "NONE",
           \A r \in Runners :
              \/ /\ runner'[r].claim = runner[r].claim /\ runner'[r].due \subseteq runner[r].due
                 /\ runner'[r].at \in {"idle", "run"} => runner[r].at \in {"idle", "run"}
              \/ runner'[r].claim = {} /\ runner'[r].due \subseteq runner[r].due
    PROVE  Holding'
<1>1. OneClaim' BY DEF Known, Holding, OneClaim
<1>2. ListedAsIs' BY RowsTyped DEF Known, Holding, ListedAsIs
<1>3. NothingForgone' BY DEF Known, Holding, NothingForgone
<1> QED BY <1>1, <1>2, <1>3 DEF Holding

(* The run r goes from x to y; the others stay. *)
LEMMA RunnersAfter ==
    ASSUME TypeInv, NEW r \in Runners, NEW y, runner' = [runner EXCEPT ![r] = y]
    PROVE  \A q \in Runners : runner'[q] = IF q = r THEN y ELSE runner[q]
  BY DEF TypeInv, SubscriptionTypeOK

LEMMA AfterGoesOn ==
    ASSUME TypeInv, NEW r \in Runners, NEW due \in SUBSET runner[r].due, GoesOn(r, due)
    PROVE  \E y : /\ \A q \in Runners : runner'[q] = IF q = r THEN y ELSE runner[q]
                  /\ y.claim = {} /\ y.due \subseteq due /\ y.at \in {"idle", "run"}
<1> DEFINE y == IF due = {} THEN Resting ELSE [at |-> "run", due |-> due, claim |-> {}]
<1>1. runner' = [runner EXCEPT ![r] = y] BY DEF GoesOn
<1>2. y.claim = {} /\ y.due \subseteq due /\ y.at \in {"idle", "run"} BY DEF Resting
<1> HIDE DEF y
<1> QED BY <1>1, <1>2, RunnersAfter

(* A step that neither claims, orders, records nor loses anything. *)
Quiet ==
    /\ UNCHANGED <<start, forgone, billed>>
    /\ \A s \in Subs : /\ subscription'[s].next = subscription[s].next
                       /\ subscription'[s].cycles = subscription[s].cycles
                       /\ subscription'[s].interval = subscription[s].interval
                       /\ subscription'[s].status = "NONE" <=> subscription[s].status = "NONE"
    /\ \A r \in Runners : /\ runner'[r].claim = runner[r].claim
                          /\ runner'[r].at = "order" <=> runner[r].at = "order"

LEMMA WriteChangeQuiet ==
    ASSUME Known, NEW m \in Managers, WriteChange(m)
    PROVE  Quiet /\ runner' = runner
<1> DEFINE c == manager[m]
<1>1. c \in Change /\ c.at = "status" /\ subscription[c.sub].status # "NONE"
  BY DEF WriteChange, Known, Billing, NothingGivenBack, TypeInv, SubscriptionTypeOK
<1>2. c.sub \in Subs /\ c.status \in Status BY <1>1 DEF Change
<1>3. subscription' = [subscription EXCEPT ![c.sub] = [subscription[c.sub] EXCEPT !.status = c.status]]
  BY <1>1 DEF WriteChange
<1>4. subscription[c.sub] \in Row BY <1>2, RowsTyped DEF Known
<1>5. \A s \in Subs : subscription'[s] = IF s = c.sub THEN [subscription[c.sub] EXCEPT !.status = c.status]
                                         ELSE subscription[s]
  BY <1>2, <1>3 DEF Known, TypeInv, SubscriptionTypeOK
<1>6. c.status # "NONE" BY <1>2 DEF Status
<1>7. \A s \in Subs : /\ subscription'[s].next = subscription[s].next
                      /\ subscription'[s].cycles = subscription[s].cycles
                      /\ subscription'[s].interval = subscription[s].interval
                      /\ subscription'[s].status = "NONE" <=> subscription[s].status = "NONE"
  BY <1>1, <1>4, <1>5, <1>6 DEF Row
<1>8. UNCHANGED <<start, forgone, billed, runner>> BY DEF WriteChange
<1> QED BY <1>7, <1>8 DEF Quiet

LEMMA ListDueDoes ==
    ASSUME Known, NEW r \in Runners, ListDue(r)
    PROVE  Quiet /\ Holding'
<1> DEFINE rows == {s \in Subs : subscription[s].status = "ACTIVE" /\ IsDue(subscription[s])}
           list == {[sub |-> s, next |-> subscription[s].next,
                     interval |-> subscription[s].interval] : s \in rows}
           y == [at |-> "run", claim |-> {}, due |-> list]
<1>1. runner' = [runner EXCEPT ![r] = y] /\ runner[r].at = "idle" BY DEF ListDue
<1>2. \A d \in list : d.interval = subscription[d.sub].interval OBVIOUS
<1>3. y.claim = {} /\ y.due = list /\ y.at = "run" OBVIOUS
<1>4. UNCHANGED <<subscription, start, forgone, billed>> BY DEF ListDue
<1> HIDE DEF list, y
<1>5. \A q \in Runners : runner'[q] = IF q = r THEN y ELSE runner[q]
  BY <1>1, RunnersAfter DEF Known
<1>6. runner[r].claim = {} BY <1>1 DEF Known, Holding, OneClaim
<1>7. Quiet BY <1>1, <1>3, <1>4, <1>5, <1>6 DEF Quiet
<1>8. OneClaim' BY <1>3, <1>5 DEF Known, Holding, OneClaim
<1>9. ListedAsIs' BY <1>2, <1>3, <1>4, <1>5 DEF Known, Holding, ListedAsIs
<1>10. NothingForgone' BY <1>4 DEF Known, Holding, NothingForgone
<1> QED BY <1>7, <1>8, <1>9, <1>10 DEF Holding

LEMMA CreateDoes ==
    ASSUME Known, NEW s \in Subs, NEW i \in Intervals, NEW t \in Days \cup {now + i}, Create(s, i, t)
    PROVE  /\ UNCHANGED <<forgone, billed, runner>>
           /\ subscription[s].status = "NONE" /\ t \in Nat /\ i \in Nat
           /\ start' = [start EXCEPT ![s] = t]
           /\ subscription' = [subscription EXCEPT ![s] =
                                 [status |-> "ACTIVE", next |-> t, interval |-> i, cycles |-> 0]]
           /\ \A u \in Subs : u # s => subscription'[u] = subscription[u]
           /\ \A u \in Days : billed[s][u] = 0
           /\ \A r \in Runners : \A d \in runner[r].due \cup runner[r].claim : d.sub # s
<1>1. t \in Nat /\ i \in Nat
  <2>1. now \in Nat BY DEF Known, TypeInv, SubscriptionTypeOK, Days
  <2>2. i \in Nat BY SubscriptionAssumption
  <2> QED BY <2>1, <2>2 DEF Days
<1> QED BY <1>1 DEF Create, Known, TypeInv, SubscriptionTypeOK, Billing, Unborn

LEMMA ClaimDoes ==
    ASSUME Known, NEW r \in Runners, NEW d \in runner[r].due, Claim(r, d), ClaimValid(d)
    PROVE  /\ UNCHANGED <<start, forgone, billed>>
           /\ runner[r].claim = {} /\ runner[r].at = "run"
           /\ \A q \in Runners : q # r => runner'[q] = runner[q]
           /\ runner'[r].at = "order" /\ runner'[r].claim = {d} /\ runner'[r].due = runner[r].due \ {d}
           /\ subscription[d.sub].next = d.next /\ subscription[d.sub].interval = d.interval
           /\ \A s \in Subs : /\ subscription'[s].status = subscription[s].status
                              /\ subscription'[s].cycles = subscription[s].cycles
                              /\ subscription'[s].interval = subscription[s].interval
                              /\ subscription'[s].next = IF s = d.sub THEN d.next + d.interval
                                                         ELSE subscription[s].next
<1> DEFINE y == [at |-> "order", due |-> runner[r].due \ {d}, claim |-> {d}]
<1>1. d.sub \in Subs /\ d.interval = subscription[d.sub].interval
  BY RowsTyped DEF Known, Holding, ListedAsIs
<1>2. /\ runner' = [runner EXCEPT ![r] = y] /\ runner[r].at = "run"
      /\ subscription' = [subscription EXCEPT ![d.sub].next = d.next + d.interval]
      /\ UNCHANGED <<start, forgone, billed>>
  BY DEF Claim, NextDate
<1>3. \A q \in Runners : runner'[q] = IF q = r THEN y ELSE runner[q]
  BY <1>2, RunnersAfter DEF Known
<1>4. runner[r].claim = {} BY <1>2 DEF Known, Holding, OneClaim
<1>5. subscription[d.sub] \in Row BY <1>1, RowsTyped DEF Known
<1>6. \A s \in Subs : subscription'[s] = IF s = d.sub THEN [subscription[d.sub] EXCEPT !.next = d.next + d.interval]
                                         ELSE subscription[s]
  BY <1>1, <1>2 DEF Known, TypeInv, SubscriptionTypeOK
<1>7. \A s \in Subs : /\ subscription'[s].status = subscription[s].status
                      /\ subscription'[s].cycles = subscription[s].cycles
                      /\ subscription'[s].interval = subscription[s].interval
                      /\ subscription'[s].next = IF s = d.sub THEN d.next + d.interval
                                                 ELSE subscription[s].next
  BY <1>5, <1>6 DEF Row
<1> QED BY <1>1, <1>2, <1>3, <1>4, <1>7 DEF ClaimValid

LEMMA ClaimLostQuiet ==
    ASSUME Known, NEW r \in Runners, NEW d \in runner[r].due, Claim(r, d), ~ClaimValid(d)
    PROVE  Quiet /\ Holding'
<1>1. /\ UNCHANGED <<subscription, start, forgone, billed>> /\ runner[r].at = "run"
      /\ GoesOn(r, runner[r].due \ {d})
  BY DEF Claim
<1>2. PICK y : /\ \A q \in Runners : runner'[q] = IF q = r THEN y ELSE runner[q]
               /\ y.claim = {} /\ y.due \subseteq runner[r].due \ {d} /\ y.at \in {"idle", "run"}
  BY <1>1, AfterGoesOn DEF Known
<1>3. runner[r].claim = {} BY <1>1 DEF Known, Holding, OneClaim
<1>4. Quiet BY <1>1, <1>2, <1>3 DEF Quiet
<1>5. Holding' BY <1>1, <1>2, HoldingStays
<1> QED BY <1>4, <1>5

LEMMA PlaceDoes ==
    ASSUME Known, NEW r \in Runners, NEW d \in runner[r].claim, PlaceOrder(r, d)
    PROVE  /\ UNCHANGED <<subscription, start, forgone>>
           /\ runner[r].at = "order" /\ runner[r].claim = {d}
           /\ billed' = [billed EXCEPT ![d.sub][d.next] = @ + 1]
           /\ \A q \in Runners : /\ runner'[q].claim = runner[q].claim /\ runner'[q].due = runner[q].due
                                 /\ runner'[q].at = IF q = r THEN "record" ELSE runner[q].at
<1>1. runner' = [runner EXCEPT ![r] = [runner[r] EXCEPT !.at = "record"]] BY DEF PlaceOrder
<1>2. runner[r] \in Run BY RowsTyped DEF Known
<1>3. \A q \in Runners : runner'[q] = IF q = r THEN [runner[r] EXCEPT !.at = "record"] ELSE runner[q]
  BY <1>1, RunnersAfter DEF Known
<1>4. \A q \in Runners : /\ runner'[q].claim = runner[q].claim /\ runner'[q].due = runner[q].due
                         /\ runner'[q].at = IF q = r THEN "record" ELSE runner[q].at
  BY <1>2, <1>3 DEF Run
<1> QED BY <1>4 DEF PlaceOrder, Known, Holding, OneClaim

LEMMA RecordDoes ==
    ASSUME Known, NEW r \in Runners, NEW d \in runner[r].claim, RecordCycle(r, d)
    PROVE  /\ UNCHANGED <<start, forgone, billed>>
           /\ runner[r].at = "record" /\ runner[r].claim = {d}
           /\ \A q \in Runners : q # r => runner'[q] = runner[q]
           /\ runner'[r].claim = {} /\ runner'[r].at \in {"idle", "run"}
           /\ runner'[r].due \subseteq runner[r].due
           /\ \A s \in Subs : /\ subscription'[s].status = subscription[s].status
                              /\ subscription'[s].next = subscription[s].next
                              /\ subscription'[s].interval = subscription[s].interval
                              /\ subscription'[s].cycles = IF s = d.sub THEN subscription[s].cycles + 1
                                                           ELSE subscription[s].cycles
<1>1. PICK y : /\ \A q \in Runners : runner'[q] = IF q = r THEN y ELSE runner[q]
               /\ y.claim = {} /\ y.due \subseteq runner[r].due /\ y.at \in {"idle", "run"}
  BY AfterGoesOn DEF Known, RecordCycle
<1>2. d.sub \in Subs /\ subscription[d.sub] \in Row BY RowsTyped DEF Known
<1>3. \A s \in Subs : subscription'[s] = IF s = d.sub THEN [subscription[d.sub] EXCEPT !.cycles = @ + 1]
                                         ELSE subscription[s]
  BY <1>2 DEF RecordCycle, Known, TypeInv, SubscriptionTypeOK
<1>4. \A s \in Subs : /\ subscription'[s].status = subscription[s].status
                      /\ subscription'[s].next = subscription[s].next
                      /\ subscription'[s].interval = subscription[s].interval
                      /\ subscription'[s].cycles = IF s = d.sub THEN subscription[s].cycles + 1
                                                   ELSE subscription[s].cycles
  BY <1>2, <1>3 DEF Row
<1> QED BY <1>1, <1>4 DEF RecordCycle, Known, Holding, OneClaim

LEMMA CrashDoes ==
    ASSUME Known, NEW r \in Runners, Crash(r)
    PROVE  /\ UNCHANGED <<subscription, start, billed>>
           /\ forgone' = [s \in Subs |-> IF r \in Claims(s) THEN forgone[s] + 1 ELSE forgone[s]]
           /\ \A q \in Runners : q # r => runner'[q] = runner[q]
           /\ runner'[r].claim = {} /\ runner'[r].due = {} /\ runner'[r].at = "idle"
<1>1. runner' = [runner EXCEPT ![r] = Resting] BY DEF Crash
<1>2. \A q \in Runners : runner'[q] = IF q = r THEN Resting ELSE runner[q]
  BY <1>1, RunnersAfter DEF Known
<1> QED BY <1>2 DEF Crash, Resting

LEMMA HoldingInit == Init => Holding
  BY DEF Init, Resting, Holding, OneClaim, ListedAsIs, NothingForgone

(* What every step is, once claims are kept. *)
LEMMA StepIs ==
    ASSUME ClaimsKept, Known, [Next]_vars
    PROVE  \/ Quiet /\ Holding'
           \/ \E s \in Subs, i \in Intervals : \E t \in Days \cup {now + i} : Create(s, i, t)
           \/ \E r \in Runners : \E d \in runner[r].due : Claim(r, d) /\ ClaimValid(d)
           \/ \E r \in Runners : \E d \in runner[r].claim : PlaceOrder(r, d) \/ RecordCycle(r, d)
           \/ \E r \in Runners : Crash(r)
<1>1. ASSUME UNCHANGED <<subscription, start, forgone, billed, runner>> PROVE Quiet /\ Holding'
  <2>1. Quiet BY <1>1 DEF Quiet
  <2>2. Holding' BY <1>1, HoldingStays
  <2> QED BY <2>1, <2>2
<1>2. ASSUME NEW m \in Managers, WriteChange(m) PROVE Quiet /\ Holding'
  <2>1. Quiet /\ runner' = runner BY <1>2, WriteChangeQuiet
  <2>2. Holding' BY <2>1, HoldingStays DEF Quiet
  <2> QED BY <2>1, <2>2
<1>3. ASSUME NEW r \in Runners, ListDue(r) PROVE Quiet /\ Holding' BY <1>3, ListDueDoes
<1>4. ASSUME NEW r \in Runners, NEW d \in runner[r].due, Claim(r, d), ~ClaimValid(d)
      PROVE  Quiet /\ Holding'
  BY <1>4, ClaimLostQuiet
<1>5. ASSUME NEW r \in Runners, NEW d \in runner[r].claim, Revert(r, d) PROVE FALSE
  BY <1>5 DEF Revert, Known, Billing, NothingGivenBack
<1>6. ASSUME NEW r \in Runners, CheckoutFails(r) \/ RecordFails(r) PROVE FALSE
  BY <1>6 DEF CheckoutFails, RecordFails, ClaimsKept
<1>7. CASE PassDay BY <1>1, <1>7 DEF PassDay
<1>8. ASSUME NEW m \in Managers, NEW c \in Change, BeginChange(m, c) PROVE Quiet /\ Holding'
  BY <1>1, <1>8 DEF BeginChange
<1>9. CASE UNCHANGED vars BY <1>1, <1>9 DEF vars
<1> QED BY <1>2, <1>3, <1>4, <1>5, <1>6, <1>7, <1>8, <1>9 DEF Next, Bills

LEMMA HoldingStep ==
    ASSUME ClaimsKept, Known, [Next]_vars
    PROVE  Holding'
<1>1. ASSUME NEW s \in Subs, NEW i \in Intervals, NEW t \in Days \cup {now + i}, Create(s, i, t)
      PROVE  Holding'
  <2>1. OneClaim' BY <1>1, CreateDoes DEF Known, Holding, OneClaim
  <2>2. ListedAsIs' BY <1>1, CreateDoes, RowsTyped DEF Known, Holding, ListedAsIs
  <2>3. NothingForgone' BY <1>1, CreateDoes DEF Known, Holding, NothingForgone
  <2> QED BY <2>1, <2>2, <2>3 DEF Holding
<1>2. ASSUME NEW r \in Runners, NEW d \in runner[r].due, Claim(r, d), ClaimValid(d) PROVE Holding'
  <2>0. /\ \A q \in Runners : q # r => runner'[q] = runner[q]
        /\ runner'[r].at = "order" /\ runner'[r].claim = {d} /\ runner'[r].due = runner[r].due \ {d}
        /\ \A s \in Subs : subscription'[s].interval = subscription[s].interval
    BY <1>2, ClaimDoes
  <2>1. OneClaim' BY <2>0 DEF Known, Holding, OneClaim
  <2>2. ListedAsIs' BY <2>0, RowsTyped DEF Known, Holding, ListedAsIs
  <2>3. NothingForgone' BY <1>2, ClaimDoes DEF Known, Holding, NothingForgone
  <2> QED BY <2>1, <2>2, <2>3 DEF Holding
<1>3. ASSUME NEW r \in Runners, NEW d \in runner[r].claim, PlaceOrder(r, d) PROVE Holding'
  <2>0. \A q \in Runners : /\ runner'[q].claim = runner[q].claim
                           /\ runner'[q].at = IF q = r THEN "record" ELSE runner[q].at
    BY <1>3, PlaceDoes
  <2>1. OneClaim' BY <2>0 DEF Known, Holding, OneClaim
  <2>2. ListedAsIs' BY <1>3, PlaceDoes DEF Known, Holding, ListedAsIs
  <2>3. NothingForgone' BY <1>3, PlaceDoes DEF Known, Holding, NothingForgone
  <2> QED BY <2>1, <2>2, <2>3 DEF Holding
<1>4. ASSUME NEW r \in Runners, NEW d \in runner[r].claim, RecordCycle(r, d) PROVE Holding'
  <2>1. OneClaim' BY <1>4, RecordDoes DEF Known, Holding, OneClaim
  <2>2. ListedAsIs' BY <1>4, RecordDoes, RowsTyped DEF Known, Holding, ListedAsIs
  <2>3. NothingForgone' BY <1>4, RecordDoes DEF Known, Holding, NothingForgone
  <2> QED BY <2>1, <2>2, <2>3 DEF Holding
<1>5. ASSUME NEW r \in Runners, Crash(r) PROVE Holding'
  <2>1. OneClaim' BY <1>5, CrashDoes DEF Known, Holding, OneClaim
  <2>2. ListedAsIs' BY <1>5, CrashDoes DEF Known, Holding, ListedAsIs
  <2>3. NothingForgone'     \* a claim is of a row that exists
    <3> SUFFICES ASSUME NEW s \in Subs, subscription'[s].status = "NONE" PROVE forgone'[s] = 0
      BY DEF NothingForgone
    <3>1. subscription[s].status = "NONE" BY <1>5, CrashDoes
    <3>2. r \notin Claims(s) BY <3>1 DEF Known, Billing, Unborn, Claims
    <3>3. forgone[s] = 0 BY <3>1 DEF Known, Holding, NothingForgone
    <3> QED BY <1>5, CrashDoes, <3>2, <3>3
  <2> QED BY <2>1, <2>2, <2>3 DEF Holding
<1> QED BY StepIs, <1>1, <1>2, <1>3, <1>4, <1>5

LEMMA KnownInvariant ==
    ASSUME ClaimsKept
    PROVE  Spec => []Known
<1>1. Init => Known BY InitTyped, BillingInit, HoldingInit DEF Known
<1>2. Known /\ [Next]_vars => Known' BY NextTyped, BillingStep, HoldingStep DEF Known
<1> QED BY <1>1, <1>2, PTL DEF Spec
----------------------------------------------------------------------------
LEMMA ClaimsFinite == \A s \in Subs : IsFiniteSet(Claims(s)) /\ Cardinality(Claims(s)) \in Nat
<1> TAKE s \in Subs
<1>1. Claims(s) \subseteq Runners BY DEF Claims
<1> QED BY <1>1, SubscriptionAssumption, FS_Subset, FS_CardinalityType

LEMMA OneIntervalMore ==
    ASSUME NEW i \in Nat, NEW n \in Nat
    PROVE  i * (n + 1) = i * n + i
  OBVIOUS

LEMMA ScheduleQuiet ==
    ASSUME Quiet, ScheduleMatchesCycles
    PROVE  ScheduleMatchesCycles'
<1>1. \A s : Claims(s)' = Claims(s) BY DEF Quiet, Claims
<1> QED BY <1>1 DEF Quiet, ScheduleMatchesCycles

LEMMA ScheduleStep ==
    ASSUME ClaimsKept, Known, ScheduleMatchesCycles, [Next]_vars
    PROVE  ScheduleMatchesCycles'
<1>1. ASSUME NEW s \in Subs, NEW i \in Intervals, NEW t \in Days \cup {now + i}, Create(s, i, t)
      PROVE  ScheduleMatchesCycles'
  <2>1. \A u : Claims(u)' = Claims(u) BY <1>1, CreateDoes DEF Claims
  <2>2. Claims(s) = {} BY <1>1, CreateDoes DEF Claims
  <2>3. Cardinality(Claims(s)) = 0 BY <2>2, FS_EmptySet
  <2>4. forgone[s] = 0 BY <1>1, CreateDoes DEF Known, Holding, NothingForgone
  <2>5. /\ subscription'[s].next = t /\ subscription'[s].interval = i /\ subscription'[s].cycles = 0
        /\ start'[s] = t /\ t \in Nat /\ i \in Nat
        /\ \A u \in Subs : u # s => subscription'[u] = subscription[u] /\ start'[u] = start[u]
        /\ forgone' = forgone
    BY <1>1, CreateDoes DEF Known, TypeInv, SubscriptionTypeOK
  <2> SUFFICES ASSUME NEW u \in Subs, subscription'[u].status # "NONE"
               PROVE  subscription'[u].next = start'[u] + subscription'[u].interval
                         * (subscription'[u].cycles + Cardinality(Claims(u)') + forgone'[u])
    BY DEF ScheduleMatchesCycles
  <2>6. CASE u = s BY <2>1, <2>3, <2>4, <2>5, <2>6
  <2>7. CASE u # s BY <2>1, <2>5, <2>7 DEF ScheduleMatchesCycles
  <2> QED BY <2>6, <2>7
<1>2. ASSUME NEW r \in Runners, NEW d \in runner[r].due, Claim(r, d), ClaimValid(d)
      PROVE  ScheduleMatchesCycles'
  <2>0. /\ \A q \in Runners : q # r => runner'[q] = runner[q]
        /\ runner'[r].claim = {d} /\ runner[r].claim = {}
        /\ subscription[d.sub].next = d.next /\ subscription[d.sub].interval = d.interval
        /\ start' = start /\ forgone' = forgone
        /\ \A s \in Subs : /\ subscription'[s].status = subscription[s].status
                           /\ subscription'[s].cycles = subscription[s].cycles
                           /\ subscription'[s].interval = subscription[s].interval
                           /\ subscription'[s].next = IF s = d.sub THEN d.next + d.interval
                                                      ELSE subscription[s].next
    BY <1>2, ClaimDoes
  <2>1. \A u : Claims(u)' = IF u = d.sub THEN Claims(u) \cup {r} ELSE Claims(u)
    BY <2>0 DEF Claims
  <2>2. r \notin Claims(d.sub) BY <2>0 DEF Claims
  <2>3. d.sub \in Subs BY RowsTyped DEF Known
  <2>4. Cardinality(Claims(d.sub)') = Cardinality(Claims(d.sub)) + 1
    BY <2>1, <2>2, <2>3, ClaimsFinite, FS_AddElement
  <2> SUFFICES ASSUME NEW u \in Subs, subscription'[u].status # "NONE"
               PROVE  subscription'[u].next = start'[u] + subscription'[u].interval
                         * (subscription'[u].cycles + Cardinality(Claims(u)') + forgone'[u])
    BY DEF ScheduleMatchesCycles
  <2>5. CASE u = d.sub
    <3> DEFINE n == subscription[u].cycles + Cardinality(Claims(u)) + forgone[u]
               i == subscription[u].interval
    <3>1. n \in Nat /\ i \in Nat /\ start[u] \in Nat /\ Cardinality(Claims(u)) \in Nat
          /\ subscription[u].cycles \in Nat /\ forgone[u] \in Nat
      BY RowsTyped, ClaimsFinite DEF Known
    <3>2. subscription[u].next = start[u] + i * n
      BY <2>0, <2>5 DEF ScheduleMatchesCycles
    <3>3. subscription'[u].next = subscription[u].next + i /\ subscription'[u].interval = i
          /\ subscription'[u].cycles = subscription[u].cycles /\ start'[u] = start[u]
          /\ forgone'[u] = forgone[u]
      BY <2>0, <2>5
    <3>4. subscription[u].cycles + Cardinality(Claims(u)') + forgone[u] = n + 1
      BY <2>4, <2>5, <3>1
    <3> HIDE DEF n, i
    <3>5. start[u] + i * n + i = start[u] + i * (n + 1)
      <4>1. i * n \in Nat BY <3>1
      <4> QED BY <3>1, <4>1, OneIntervalMore
    <3> QED BY <3>2, <3>3, <3>4, <3>5
  <2>6. CASE u # d.sub BY <2>0, <2>1, <2>6 DEF ScheduleMatchesCycles
  <2> QED BY <2>5, <2>6
<1>3. ASSUME NEW r \in Runners, NEW d \in runner[r].claim, PlaceOrder(r, d) PROVE ScheduleMatchesCycles'
  <2>1. \A u : Claims(u)' = Claims(u) BY <1>3, PlaceDoes DEF Claims
  <2> QED BY <1>3, PlaceDoes, <2>1 DEF ScheduleMatchesCycles
<1>4. ASSUME NEW r \in Runners, NEW d \in runner[r].claim, RecordCycle(r, d) PROVE ScheduleMatchesCycles'
  <2>1. \A u : Claims(u)' = IF u = d.sub THEN Claims(u) \ {r} ELSE Claims(u)
    BY <1>4, RecordDoes DEF Claims
  <2>2. r \in Claims(d.sub) BY DEF Claims
  <2>3. d.sub \in Subs BY RowsTyped DEF Known
  <2>4. Cardinality(Claims(d.sub)') = Cardinality(Claims(d.sub)) - 1
    BY <2>1, <2>2, <2>3, ClaimsFinite, FS_RemoveElement
  <2> SUFFICES ASSUME NEW u \in Subs, subscription'[u].status # "NONE"
               PROVE  subscription'[u].next = start'[u] + subscription'[u].interval
                         * (subscription'[u].cycles + Cardinality(Claims(u)') + forgone'[u])
    BY DEF ScheduleMatchesCycles
  <2>5. CASE u = d.sub
    <3>1. subscription[u].cycles \in Nat /\ forgone[u] \in Nat /\ Cardinality(Claims(u)) \in Nat
      BY RowsTyped, ClaimsFinite DEF Known
    <3>2. subscription[u].cycles + 1 + Cardinality(Claims(u)') + forgone[u]
            = subscription[u].cycles + Cardinality(Claims(u)) + forgone[u]
      BY <2>4, <2>5, <3>1
    <3> QED BY <1>4, RecordDoes, <2>5, <3>2 DEF ScheduleMatchesCycles
  <2>6. CASE u # d.sub BY <1>4, RecordDoes, <2>1, <2>6 DEF ScheduleMatchesCycles
  <2> QED BY <2>5, <2>6
<1>5. ASSUME NEW r \in Runners, Crash(r) PROVE ScheduleMatchesCycles'
  <2>1. \A u : Claims(u)' = Claims(u) \ {r} BY <1>5, CrashDoes DEF Claims
  <2> SUFFICES ASSUME NEW u \in Subs, subscription'[u].status # "NONE"
               PROVE  subscription'[u].next = start'[u] + subscription'[u].interval
                         * (subscription'[u].cycles + Cardinality(Claims(u)') + forgone'[u])
    BY DEF ScheduleMatchesCycles
  <2>2. subscription'[u] = subscription[u] /\ start'[u] = start[u]
        /\ forgone'[u] = IF r \in Claims(u) THEN forgone[u] + 1 ELSE forgone[u]
    BY <1>5, CrashDoes
  <2>3. subscription[u].next = start[u] + subscription[u].interval
           * (subscription[u].cycles + Cardinality(Claims(u)) + forgone[u])
    BY <2>2 DEF ScheduleMatchesCycles
  <2>4. subscription[u].cycles \in Nat /\ forgone[u] \in Nat /\ Cardinality(Claims(u)) \in Nat
        /\ IsFiniteSet(Claims(u))
    BY RowsTyped, ClaimsFinite DEF Known
  <2>5. Cardinality(Claims(u)') + forgone'[u] = Cardinality(Claims(u)) + forgone[u]
        /\ Cardinality(Claims(u)') \in Int
    <3>1. CASE r \in Claims(u)
      <4>1. Cardinality(Claims(u) \ {r}) = Cardinality(Claims(u)) - 1
        BY <2>4, <3>1, FS_RemoveElement
      <4>2. Claims(u)' = Claims(u) \ {r} /\ forgone'[u] = forgone[u] + 1 BY <2>1, <2>2, <3>1
      <4>3. Cardinality(Claims(u)') = Cardinality(Claims(u)) - 1 BY <4>1, <4>2
      <4> QED BY <2>4, <4>2, <4>3
    <3>2. CASE r \notin Claims(u)
      <4>1. Claims(u) \ {r} = Claims(u) BY <3>2
      <4>2. Claims(u)' = Claims(u) /\ forgone'[u] = forgone[u] BY <2>1, <2>2, <3>2, <4>1
      <4> QED BY <2>4, <4>2
    <3> QED BY <3>1, <3>2
  <2>6. forgone'[u] \in Nat BY <2>2, <2>4
  <2>7. subscription[u].cycles + Cardinality(Claims(u)') + forgone'[u]
          = subscription[u].cycles + Cardinality(Claims(u)) + forgone[u]
    BY <2>4, <2>5, <2>6
  <2> QED BY <2>2, <2>3, <2>7
<1> QED BY StepIs, ScheduleQuiet, <1>1, <1>2, <1>3, <1>4, <1>5

(* However many runs overlap and wherever they die, the schedule has advanced by
   one interval for every completed cycle, claim under way and claim that was lost
   (runDueSubscriptions), as long as no claim is given back. *)
THEOREM ScheduleIsExact ==
    ASSUME Ops \cap {"reschedule", "declined", "unsaved"} = {}
    PROVE  Spec => []ScheduleMatchesCycles
<1>1. ClaimsKept BY DEF ClaimsKept
<1>2. Spec => []Known BY <1>1, KnownInvariant
<1>3. Init => ScheduleMatchesCycles BY DEF Init, ScheduleMatchesCycles
<1>4. Known /\ ScheduleMatchesCycles /\ [Next]_vars => ScheduleMatchesCycles'
  BY <1>1, ScheduleStep
<1> QED BY <1>2, <1>3, <1>4, PTL DEF Spec
----------------------------------------------------------------------------
(* The refinement: the dates that are taken are those a run has claimed and not
   ordered yet. *)
Taken(s) == {t \in Days : \E r \in Runners :
                runner[r].at = "order" /\ \E d \in runner[r].claim : d.sub = s /\ d.next = t}
Ahead == [s \in Subs |-> subscription[s].next]
AllTaken == [s \in Subs |-> Taken(s)]

PromiseVars == <<Ahead, AllTaken, billed>>

LEMMA PromiseInitially == Init => Promise!PromiseInit
<1> SUFFICES ASSUME Init PROVE Promise!PromiseInit
    OBVIOUS
<1>1. Ahead = [s \in Subs |-> 0] BY DEF Init, Ahead
<1>2. AllTaken = [s \in Subs |-> {}] BY DEF Init, Resting, AllTaken, Taken
<1> QED BY <1>1, <1>2 DEF Promise!PromiseInit, Init, Ahead, AllTaken, Taken

LEMMA PromiseStutters ==
    ASSUME billed' = billed, \A s \in Subs : subscription'[s].next = subscription[s].next,
           \A s \in Subs : Taken(s)' = Taken(s)
    PROVE  UNCHANGED Promise!promiseVars
<1>1. Ahead' = Ahead BY DEF Ahead
<1>2. AllTaken' = AllTaken BY DEF AllTaken
<1> QED BY <1>1, <1>2 DEF Promise!promiseVars, Ahead, AllTaken, Taken

LEMMA CreateSubscribes ==
    ASSUME Known, NEW s \in Subs, NEW i \in Intervals, NEW t \in Days \cup {now + i}, Create(s, i, t)
    PROVE  Promise!Subscribe(s)
<1>1. /\ t \in Nat /\ subscription'[s].next = t
      /\ \A u \in Subs : u # s => subscription'[u] = subscription[u]
      /\ UNCHANGED <<billed, runner>> /\ \A u \in Days : billed[s][u] = 0
  BY CreateDoes DEF Known, TypeInv, SubscriptionTypeOK
<1>2. Taken(s) = {} BY CreateDoes DEF Taken
<1>3. \A u : Taken(u)' = Taken(u) BY <1>1 DEF Taken
<1>4. AllTaken[s] = {} /\ AllTaken' = AllTaken BY <1>2, <1>3 DEF AllTaken
<1>5. Ahead'[s] \in Nat /\ Ahead' = [Ahead EXCEPT ![s] = Ahead'[s]] BY <1>1 DEF Ahead
<1> QED BY <1>1, <1>4, <1>5 DEF Promise!Subscribe, Promise!Moves, Ahead, AllTaken, Taken

LEMMA ClaimTakes ==
    ASSUME Known, NEW r \in Runners, NEW d \in runner[r].due, Claim(r, d), ClaimValid(d)
    PROVE  d.sub \in Subs /\ Promise!Take(d.sub)
<1>1. d.sub \in Subs /\ d.next \in Days /\ d.next \in Nat /\ d.interval \in Nat \ {0}
  BY RowsTyped, SubscriptionAssumption DEF Known
<1>2. /\ \A q \in Runners : q # r => runner'[q] = runner[q]
      /\ runner'[r].at = "order" /\ runner'[r].claim = {d} /\ runner[r].claim = {}
      /\ billed' = billed /\ subscription[d.sub].next = d.next
      /\ \A s \in Subs : subscription'[s].next = IF s = d.sub THEN d.next + d.interval
                                                 ELSE subscription[s].next
  BY ClaimDoes
<1>3. \A u : Taken(u)' = IF u = d.sub THEN Taken(u) \cup {d.next} ELSE Taken(u)
  BY <1>1, <1>2 DEF Taken
<1>4. Ahead[d.sub] = d.next /\ Ahead'[d.sub] = d.next + d.interval
      /\ Ahead' = [Ahead EXCEPT ![d.sub] = Ahead'[d.sub]]
  BY <1>1, <1>2 DEF Ahead
<1>5. AllTaken' = [AllTaken EXCEPT ![d.sub] = @ \cup {Ahead[d.sub]}]
  BY <1>1, <1>3, <1>4 DEF AllTaken
<1>6. Ahead[d.sub] \in Days /\ Ahead'[d.sub] \in Nat /\ Ahead'[d.sub] > Ahead[d.sub]
  BY <1>1, <1>4
<1> QED BY <1>1, <1>2, <1>4, <1>5, <1>6 DEF Promise!Take, Promise!Moves, Ahead, AllTaken, Taken

(* A run that gives up its claim, with or without an order for it: nobody else has
   claimed that date. *)
LEMMA TakenGivenUp ==
    ASSUME Known, NEW r \in Runners, NEW d \in runner[r].claim, runner[r].at = "order",
           \A q \in Runners : q # r => runner'[q].claim = runner[q].claim /\ runner'[q].at = runner[q].at,
           runner'[r].at # "order"
    PROVE  /\ d.sub \in Subs /\ d.next \in Taken(d.sub)
           /\ AllTaken' = [AllTaken EXCEPT ![d.sub] = @ \ {d.next}]
<1>1. d.sub \in Subs /\ d.next \in Days BY RowsTyped DEF Known
<1>2. runner[r].claim = {d} BY DEF Known, Holding, OneClaim
<1>3. \A q \in Runners : \A e \in runner[q].claim :
         (q # r /\ runner[q].at = "order" /\ e.sub = d.sub) => e.next # d.next
  BY DEF Known, Billing, OneClaimant
<1>4. \A u : Taken(u)' = IF u = d.sub THEN Taken(u) \ {d.next} ELSE Taken(u)
  BY <1>2, <1>3 DEF Taken
<1>5. d.next \in Taken(d.sub) BY <1>1 DEF Taken
<1>6. AllTaken' = [AllTaken EXCEPT ![d.sub] = @ \ {d.next}] BY <1>1, <1>4 DEF AllTaken
<1> QED BY <1>1, <1>5, <1>6

LEMMA PlaceOrders ==
    ASSUME Known, NEW r \in Runners, NEW d \in runner[r].claim, PlaceOrder(r, d)
    PROVE  d.sub \in Subs /\ d.next \in Days /\ Promise!Order(d.sub, d.next)
<1>1. /\ UNCHANGED subscription /\ runner[r].at = "order"
      /\ billed' = [billed EXCEPT ![d.sub][d.next] = @ + 1]
      /\ \A q \in Runners : q # r => runner'[q].claim = runner[q].claim /\ runner'[q].at = runner[q].at
      /\ runner'[r].at # "order"
  BY PlaceDoes
<1>2. d.sub \in Subs /\ d.next \in Days BY RowsTyped DEF Known
<1>3. /\ d.next \in Taken(d.sub)
      /\ AllTaken' = [AllTaken EXCEPT ![d.sub] = @ \ {d.next}]
  BY <1>1, TakenGivenUp
<1>4. d.next \in AllTaken[d.sub] BY <1>2, <1>3 DEF AllTaken
<1>5. Ahead' = Ahead BY <1>1 DEF Ahead
<1> QED BY <1>1, <1>2, <1>3, <1>4, <1>5 DEF Promise!Order, Ahead, AllTaken, Taken

LEMMA CrashGivesUp ==
    ASSUME Known, NEW r \in Runners, Crash(r)
    PROVE  \/ \E s \in Subs, t \in Days : Promise!GiveUp(s, t)
           \/ UNCHANGED Promise!promiseVars
<1>1. /\ UNCHANGED <<subscription, billed>>
      /\ \A q \in Runners : q # r => runner'[q] = runner[q]
      /\ runner'[r].at # "order" /\ runner'[r].claim = {}
  BY CrashDoes
<1>2. Ahead' = Ahead BY <1>1 DEF Ahead
<1>3. CASE runner[r].at = "order" /\ runner[r].claim # {}
  <2>1. PICK d \in runner[r].claim : TRUE BY <1>3
  <2>2. /\ d.sub \in Subs /\ d.next \in Taken(d.sub)
        /\ AllTaken' = [AllTaken EXCEPT ![d.sub] = @ \ {d.next}]
    BY <1>1, <1>3, TakenGivenUp
  <2>3. d.next \in Days /\ d.next \in AllTaken[d.sub] BY <2>2 DEF AllTaken, Taken
  <2>4. Promise!GiveUp(d.sub, d.next)
    BY <1>1, <1>2, <2>2, <2>3 DEF Promise!GiveUp, Ahead, AllTaken, Taken
  <2> QED BY <2>2, <2>3, <2>4
<1>4. CASE ~(runner[r].at = "order" /\ runner[r].claim # {})
  <2>1. \A u : Taken(u)' = Taken(u) BY <1>1, <1>4 DEF Taken
  <2> QED BY <1>1, <2>1, PromiseStutters
<1> QED BY <1>3, <1>4

LEMMA PromiseStep ==
    ASSUME ClaimsKept, Known, [Next]_vars
    PROVE  [Promise!PromiseNext]_Promise!promiseVars
<1>1. CASE Quiet
  <2>1. \A u : Taken(u)' = Taken(u) BY <1>1 DEF Quiet, Taken
  <2> QED BY <1>1, <2>1, PromiseStutters DEF Quiet
<1>2. ASSUME NEW s \in Subs, NEW i \in Intervals, NEW t \in Days \cup {now + i}, Create(s, i, t)
      PROVE  Promise!PromiseNext
  BY <1>2, CreateSubscribes DEF Promise!PromiseNext
<1>3. ASSUME NEW r \in Runners, NEW d \in runner[r].due, Claim(r, d), ClaimValid(d)
      PROVE  Promise!PromiseNext
  BY <1>3, ClaimTakes DEF Promise!PromiseNext
<1>4. ASSUME NEW r \in Runners, NEW d \in runner[r].claim, PlaceOrder(r, d) PROVE Promise!PromiseNext
  BY <1>4, PlaceOrders DEF Promise!PromiseNext
<1>5. ASSUME NEW r \in Runners, NEW d \in runner[r].claim, RecordCycle(r, d)
      PROVE  UNCHANGED Promise!promiseVars
  <2>1. /\ billed' = billed /\ runner[r].at = "record" /\ runner'[r].at # "order"
        /\ \A q \in Runners : q # r => runner'[q] = runner[q]
        /\ \A s \in Subs : subscription'[s].next = subscription[s].next
    BY <1>5, RecordDoes
  <2>2. \A u : Taken(u)' = Taken(u) BY <2>1 DEF Taken
  <2> QED BY <2>1, <2>2, PromiseStutters
<1>6. ASSUME NEW r \in Runners, Crash(r) PROVE [Promise!PromiseNext]_Promise!promiseVars
  BY <1>6, CrashGivesUp DEF Promise!PromiseNext
<1> QED BY StepIs, <1>1, <1>2, <1>3, <1>4, <1>5, <1>6

(* The claim implements the promise: whatever overlaps, stops or is managed, each
   date is taken in order and once, gets its one order or is given up, and never
   comes back (runDueSubscriptions: "a concurrent run or retry can't double-bill the
   same period"), as long as no claim is given back. *)
THEOREM ClaimsImplementPromise ==
    ASSUME Ops \cap {"reschedule", "declined", "unsaved"} = {}
    PROVE  Spec => BillingPromised
<1>1. ClaimsKept BY DEF ClaimsKept
<1>2. Spec => []Known BY <1>1, KnownInvariant
<1>3. Known /\ [Next]_vars => [Promise!PromiseNext]_Promise!promiseVars BY <1>1, PromiseStep
<1> QED BY <1>2, <1>3, PromiseInitially, PTL DEF Spec, BillingPromised, Promise!PromiseSpec
----------------------------------------------------------------------------
(* No run places an order for a subscription that it has not claimed, and none claims
   one that is not active, however stale its list is (runDueSubscriptions: the claim's
   where clause names the status). *)
THEOREM InactiveNotBilled == Spec => InactiveIsNotBilled
<1> DEFINE Unbilled == \A s \in Subs :
             (subscription[s].status # "ACTIVE" /\ Claims(s) = {}) =>
                (billed'[s] = billed[s] /\ Claims(s)' = {})
<1>1. SubscriptionTypeOK /\ [Next]_vars => [Unbilled]_vars
  <2> SUFFICES ASSUME SubscriptionTypeOK, Next,
                      NEW s \in Subs, subscription[s].status # "ACTIVE", Claims(s) = {}
               PROVE  billed'[s] = billed[s] /\ Claims(s)' = {}
    OBVIOUS
  <2>0. \A r \in Runners : \A d \in runner[r].claim : d.sub # s BY DEF Claims
  <2>1. ASSUME billed' = billed, NEW r \in Runners, NEW x, runner' = [runner EXCEPT ![r] = x],
               \A d \in x.claim : d.sub # s
        PROVE  billed'[s] = billed[s] /\ Claims(s)' = {}
    BY <2>0, <2>1 DEF Claims, SubscriptionTypeOK
  <2>2. ASSUME UNCHANGED <<billed, runner>> PROVE billed'[s] = billed[s] /\ Claims(s)' = {}
    BY <2>0, <2>2 DEF Claims
  <2>3. CASE PassDay \/ \E m \in Managers : WriteChange(m) \/ \E c \in Change : BeginChange(m, c)
    BY <2>2, <2>3 DEF PassDay, WriteChange, BeginChange
  <2>4. ASSUME NEW u \in Subs, NEW i \in Intervals, NEW t \in Days \cup {now + i}, Create(u, i, t)
        PROVE  billed'[s] = billed[s] /\ Claims(s)' = {}
    BY <2>2, <2>4 DEF Create
  <2>5. ASSUME NEW r \in Runners, Crash(r) PROVE billed'[s] = billed[s] /\ Claims(s)' = {}
    <3>1. Resting.claim = {} BY DEF Resting
    <3> QED BY <2>1, <2>5, <3>1 DEF Crash
  <2>6. ASSUME NEW r \in Runners, NEW due, GoesOn(r, due), billed' = billed
        PROVE  billed'[s] = billed[s] /\ Claims(s)' = {}
    <3> DEFINE x == IF due = {} THEN Resting ELSE [at |-> "run", due |-> due, claim |-> {}]
    <3>1. x.claim = {} BY DEF Resting
    <3>2. runner' = [runner EXCEPT ![r] = x] BY <2>6 DEF GoesOn
    <3> HIDE DEF x
    <3> QED BY <2>1, <2>6, <3>1, <3>2
  <2>7. ASSUME NEW r \in Runners, ListDue(r) PROVE billed'[s] = billed[s] /\ Claims(s)' = {}
    <3>1. PICK rows : runner' = [runner EXCEPT ![r] = [at |-> "run", claim |-> {}, due |-> rows]]
      BY <2>7 DEF ListDue
    <3> DEFINE x == [at |-> "run", claim |-> {}, due |-> rows]
    <3>2. x.claim = {} /\ runner' = [runner EXCEPT ![r] = x] /\ billed' = billed BY <2>7, <3>1 DEF ListDue
    <3> HIDE DEF x
    <3> QED BY <2>1, <3>2
  <2>8. ASSUME NEW r \in Runners, NEW d \in runner[r].due, Claim(r, d)
        PROVE  billed'[s] = billed[s] /\ Claims(s)' = {}
    <3>1. CASE ClaimValid(d)
      <4> DEFINE x == [at |-> "order", due |-> runner[r].due \ {d}, claim |-> {d}]
      <4>1. runner' = [runner EXCEPT ![r] = x] /\ billed' = billed BY <2>8, <3>1 DEF Claim
      <4>2. d.sub # s BY <3>1 DEF ClaimValid
      <4>3. \A e \in x.claim : e.sub # s BY <4>2
      <4> HIDE DEF x
      <4> QED BY <2>1, <4>1, <4>3
    <3>2. CASE ~ClaimValid(d) BY <2>6, <2>8, <3>2 DEF Claim
    <3> QED BY <3>1, <3>2
  <2>9. ASSUME NEW r \in Runners, NEW d \in runner[r].claim, PlaceOrder(r, d)
        PROVE  billed'[s] = billed[s] /\ Claims(s)' = {}
    <3>1. d.sub # s BY <2>0
    <3>2. billed'[s] = billed[s] BY <2>9, <3>1 DEF PlaceOrder, SubscriptionTypeOK
    <3>3. \A q \in Runners : runner'[q].claim = runner[q].claim
      BY <2>9 DEF PlaceOrder, SubscriptionTypeOK, Run
    <3> QED BY <2>0, <3>2, <3>3 DEF Claims
  <2>10. ASSUME NEW r \in Runners, CheckoutFails(r) \/ RecordFails(r)
         PROVE  billed'[s] = billed[s] /\ Claims(s)' = {}
    <3>1. \A q \in Runners : runner'[q].claim = runner[q].claim
      BY <2>10 DEF CheckoutFails, RecordFails, SubscriptionTypeOK, Run
    <3>2. billed' = billed BY <2>10 DEF CheckoutFails, RecordFails
    <3> QED BY <2>0, <3>1, <3>2 DEF Claims
  <2>11. ASSUME NEW r \in Runners, NEW d \in runner[r].claim, RecordCycle(r, d) \/ Revert(r, d)
         PROVE  billed'[s] = billed[s] /\ Claims(s)' = {}
    BY <2>6, <2>11 DEF RecordCycle, Revert
  <2> QED BY <2>3, <2>4, <2>5, <2>7, <2>8, <2>9, <2>10, <2>11 DEF Next, Bills
<1> QED BY <1>1, SubscriptionTypeCorrect, PTL DEF Spec, InactiveIsNotBilled

-----------------------------------------------------------------------------
(* A run that is about to delete will create every steady cohort again. *)
ReadsSteady ==
    \A r \in Recomputes : recompute[r].at = "reset" => steady \subseteq recompute[r].todo

CohortInv == CohortTypeOK /\ ReadsSteady /\ SteadyCohortsKept

LEMMA CohortInitInv ==
    ASSUME CohortInit
    PROVE  CohortInv
<1>1. CohortTypeOK
  <2>1. Idle \in Recompute BY DEF Idle, Recompute
  <2>2. features \subseteq Keys BY CohortAssumption DEF CohortInit
  <2>3. age \in 0..Monthly BY CohortAssumption DEF CohortInit
  <2> QED BY <2>1, <2>2, <2>3 DEF CohortInit, CohortTypeOK
<1>2. ReadsSteady BY DEF CohortInit, Idle, ReadsSteady
<1>3. SteadyCohortsKept
  BY DEF CohortInit, SteadyCohortsKept, LastRunKeepsSteady, NeverLeftEmpty
<1> QED BY <1>1, <1>2, <1>3 DEF CohortInv

LEMMA DayKeeps ==
    ASSUME CohortInv, CohortDayPasses
    PROVE  CohortInv'
<1>1. CohortTypeOK' BY CohortAssumption DEF CohortInv, CohortDayPasses, CohortTypeOK, lastRun
<1>2. UNCHANGED <<cohorts, recompute, steady, losses, latest, spoilt>> BY DEF CohortDayPasses, lastRun
<1>3. (ReadsSteady /\ SteadyCohortsKept)'
  BY <1>2 DEF CohortInv, ReadsSteady, SteadyCohortsKept, LastRunKeepsSteady, NeverLeftEmpty, Creating
<1> QED BY <1>1, <1>3 DEF CohortInv

(* Less is steady when the features change. *)
LEMMA ShiftKeeps ==
    ASSUME CohortInv, NEW f \in SUBSET Keys, ShiftFeatures(f)
    PROVE  CohortInv'
<1>1. CohortTypeOK' BY DEF CohortInv, ShiftFeatures, CohortTypeOK, lastRun
<1>2. steady' \subseteq steady /\ UNCHANGED <<cohorts, recompute, losses, latest, spoilt>>
  BY DEF ShiftFeatures, lastRun
<1>3. ReadsSteady' BY <1>2 DEF CohortInv, ReadsSteady
<1>4. LastRunKeepsSteady'
  BY <1>2 DEF CohortInv, SteadyCohortsKept, LastRunKeepsSteady, Creating
<1>5. NeverLeftEmpty'
  <2> SUFFICES ASSUME losses = 0, cohorts = {}, steady' # {}
               PROVE  \E r \in Recomputes : recompute[r].at = "create" /\ steady' \subseteq recompute[r].todo
    BY <1>2 DEF NeverLeftEmpty
  <2>1. steady # {} BY <1>2
  <2>2. PICK r \in Recomputes : recompute[r].at = "create" /\ steady \subseteq recompute[r].todo
    BY <2>1 DEF CohortInv, SteadyCohortsKept, NeverLeftEmpty
  <2> QED BY <1>2, <2>2
<1> QED BY <1>1, <1>3, <1>4, <1>5 DEF CohortInv, SteadyCohortsKept

LEMMA ReadKeeps ==
    ASSUME CohortInv, NEW r \in Recomputes, ReadFeatures(r)
    PROVE  CohortInv'
<1> DEFINE reading == [at |-> "reset", todo |-> features]
<1>1. /\ recompute' = [recompute EXCEPT ![r] = reading] /\ recompute[r].at = "idle"
      /\ UNCHANGED <<features, cohorts, age, steady, losses, shifts, latest, spoilt>>
  BY DEF ReadFeatures, lastRun
<1>2. reading \in Recompute BY DEF CohortInv, CohortTypeOK, Recompute
<1>3. CohortTypeOK' BY <1>1, <1>2 DEF CohortInv, CohortTypeOK
<1>4. /\ recompute'[r] = reading
      /\ \A s \in Recomputes : s # r => recompute'[s] = recompute[s]
  BY <1>1 DEF CohortInv, CohortTypeOK
<1>5. \A s \in Recomputes : recompute[s].at = "create" => recompute'[s] = recompute[s]
  BY <1>1, <1>4
<1>6. ReadsSteady' BY <1>1, <1>4 DEF CohortInv, ReadsSteady, CohortTypeOK
<1>7. LastRunKeepsSteady'
  BY <1>1, <1>5 DEF CohortInv, SteadyCohortsKept, LastRunKeepsSteady, Creating
<1>8. NeverLeftEmpty' BY <1>1, <1>5 DEF CohortInv, SteadyCohortsKept, NeverLeftEmpty
<1> QED BY <1>3, <1>6, <1>7, <1>8 DEF CohortInv, SteadyCohortsKept

(* The cohorts are gone, and the run that deleted them has all of them to do. *)
LEMMA ResetKeeps ==
    ASSUME CohortInv, NEW r \in Recomputes, ResetCohorts(r)
    PROVE  CohortInv'
<1>1. /\ recompute' = [recompute EXCEPT ![r].at = "create"] /\ recompute[r].at = "reset"
      /\ cohorts' = {} /\ latest' = {r} /\ spoilt' = FALSE
      /\ UNCHANGED <<features, age, steady, losses, shifts>>
  BY DEF ResetCohorts
<1>2. recompute[r] \in Recompute BY DEF CohortInv, CohortTypeOK
<1>3. /\ recompute'[r].at = "create" /\ recompute'[r].todo = recompute[r].todo
      /\ recompute'[r] \in Recompute
      /\ \A s \in Recomputes : s # r => recompute'[s] = recompute[s]
  BY <1>1, <1>2 DEF CohortInv, CohortTypeOK, Recompute
<1>4. CohortTypeOK' BY <1>1, <1>3 DEF CohortInv, CohortTypeOK
<1>5. ReadsSteady' BY <1>1, <1>3 DEF CohortInv, ReadsSteady
<1>6. steady' \subseteq recompute'[r].todo BY <1>1, <1>3 DEF CohortInv, ReadsSteady
<1>7. LastRunKeepsSteady' BY <1>1, <1>3, <1>6 DEF LastRunKeepsSteady, Creating
<1>8. NeverLeftEmpty' BY <1>3, <1>6 DEF NeverLeftEmpty
<1> QED BY <1>4, <1>5, <1>7, <1>8 DEF CohortInv, SteadyCohortsKept

(* A cohort is created, whichever run's turn it is. *)
LEMMA NewCohortKeeps ==
    ASSUME CohortInv, NEW r \in Recomputes, NEW k \in Keys, CreateCohort(r, k), k \notin cohorts
    PROVE  CohortInv'
<1>1. /\ recompute[r].at = "create" /\ k \in recompute[r].todo
      /\ cohorts' = cohorts \cup {k}
      /\ recompute' = [recompute EXCEPT ![r].todo = recompute[r].todo \ {k}]
      /\ UNCHANGED <<features, age, steady, losses, shifts, latest, spoilt>>
  BY DEF CreateCohort, KeepsCreating, lastRun
<1>2. recompute[r] \in Recompute BY DEF CohortInv, CohortTypeOK
<1>3. /\ recompute'[r].at = "create" /\ recompute'[r].todo = recompute[r].todo \ {k}
      /\ recompute'[r] \in Recompute
      /\ \A s \in Recomputes : s # r => recompute'[s] = recompute[s]
  BY <1>1, <1>2 DEF CohortInv, CohortTypeOK, Recompute
<1>4. CohortTypeOK' BY <1>1, <1>3 DEF CohortInv, CohortTypeOK
<1>5. ReadsSteady' BY <1>1, <1>3 DEF CohortInv, ReadsSteady
<1>6. LastRunKeepsSteady'
  <2> SUFFICES ASSUME ~spoilt, NEW m \in steady \ (cohorts \cup {k})
               PROVE  \E s \in latest : s \in Recomputes /\ recompute'[s].at = "create" /\ m \in recompute'[s].todo
    BY <1>1 DEF LastRunKeepsSteady, Creating
  <2>1. PICK s \in latest : s \in Recomputes /\ recompute[s].at = "create" /\ m \in recompute[s].todo
    BY DEF CohortInv, SteadyCohortsKept, LastRunKeepsSteady, Creating
  <2> QED BY <1>3, <2>1
<1>7. NeverLeftEmpty' BY <1>1 DEF NeverLeftEmpty
<1> QED BY <1>4, <1>5, <1>6, <1>7 DEF CohortInv, SteadyCohortsKept

(* A run that ends by itself takes nothing with it but what it had to do. *)
LEMMA EndKeeps ==
    ASSUME CohortInv, NEW r \in Recomputes,
           recompute' = [recompute EXCEPT ![r] = Idle], latest' = latest \ {r},
           spoilt' \in BOOLEAN, spoilt => spoilt', r \in latest => spoilt' \/ recompute[r].todo = {},
           UNCHANGED <<cohorts, steady, features, shifts>>, age' \in 0..Monthly, losses' \in Nat,
           losses' = 0 => losses = 0 /\ (cohorts # {} \/ recompute[r].todo = {})
    PROVE  CohortInv'
<1>1. Idle \in Recompute BY DEF Idle, Recompute
<1>2. /\ recompute'[r].at = "idle"
      /\ \A s \in Recomputes : s # r => recompute'[s] = recompute[s]
  BY DEF CohortInv, CohortTypeOK, Idle
<1>3. CohortTypeOK' BY <1>1 DEF CohortInv, CohortTypeOK
<1>4. ReadsSteady' BY <1>2 DEF CohortInv, ReadsSteady
<1>5. LastRunKeepsSteady'
  <2> SUFFICES ASSUME ~spoilt', NEW m \in steady \ cohorts
               PROVE  \E s \in latest' : s \in Recomputes /\ recompute'[s].at = "create" /\ m \in recompute'[s].todo
    BY DEF LastRunKeepsSteady, Creating
  <2>1. PICK s \in latest : s \in Recomputes /\ recompute[s].at = "create" /\ m \in recompute[s].todo
    BY DEF CohortInv, SteadyCohortsKept, LastRunKeepsSteady, Creating
  <2>2. s # r BY <2>1
  <2> QED BY <1>2, <2>1, <2>2
<1>6. NeverLeftEmpty'
  <2> SUFFICES ASSUME losses' = 0, cohorts = {}, steady # {}
               PROVE  \E s \in Recomputes : recompute'[s].at = "create" /\ steady \subseteq recompute'[s].todo
    BY DEF NeverLeftEmpty
  <2>1. PICK s \in Recomputes : recompute[s].at = "create" /\ steady \subseteq recompute[s].todo
    BY DEF CohortInv, SteadyCohortsKept, NeverLeftEmpty
  <2>2. s # r BY <2>1
  <2> QED BY <1>2, <2>1, <2>2
<1> QED BY <1>3, <1>4, <1>5, <1>6 DEF CohortInv, SteadyCohortsKept

LEMMA MetCohortKeeps ==
    ASSUME CohortInv, NEW r \in Recomputes, NEW k \in Keys, CreateCohort(r, k), k \in cohorts
    PROVE  CohortInv'
<1>1. /\ recompute' = [recompute EXCEPT ![r] = Idle] /\ latest' = latest \ {r}
      /\ spoilt' = (spoilt \/ r \in latest) /\ UNCHANGED <<features, age, steady, losses, shifts>>
  BY DEF CreateCohort, GivesUp
<1>2. cohorts' = cohorts /\ cohorts # {} BY DEF CreateCohort
<1>3. age \in 0..Monthly /\ losses \in Nat /\ spoilt \in BOOLEAN BY DEF CohortInv, CohortTypeOK
<1> QED BY <1>1, <1>2, <1>3, EndKeeps

LEMMA StampKeeps ==
    ASSUME CohortInv, NEW r \in Recomputes, StampCohorts(r)
    PROVE  CohortInv'
<1>1. /\ recompute[r].todo = {} /\ recompute' = [recompute EXCEPT ![r] = Idle] /\ latest' = latest \ {r}
      /\ age' = 0 /\ UNCHANGED <<features, cohorts, steady, losses, shifts, spoilt>>
  BY DEF StampCohorts
<1>2. age' \in 0..Monthly /\ losses \in Nat /\ spoilt \in BOOLEAN
  BY <1>1, CohortAssumption DEF CohortInv, CohortTypeOK
<1> QED BY <1>1, <1>2, EndKeeps

LEMMA LoseKeeps ==
    ASSUME CohortInv, NEW r \in Recomputes, LoseRecompute(r)
    PROVE  CohortInv'
<1>1. /\ recompute' = [recompute EXCEPT ![r] = Idle] /\ latest' = latest \ {r}
      /\ spoilt' = (spoilt \/ r \in latest) /\ losses' = losses + 1
      /\ UNCHANGED <<features, cohorts, age, steady, shifts>>
  BY DEF LoseRecompute, GivesUp
<1>2. age \in 0..Monthly /\ losses \in Nat /\ spoilt \in BOOLEAN BY DEF CohortInv, CohortTypeOK
<1>3. losses' \in Nat /\ losses' # 0 BY <1>1, <1>2
<1> QED BY <1>1, <1>2, <1>3, EndKeeps

LEMMA CohortStep == CohortInv /\ [CohortNext]_cohortVars => CohortInv'
<1> SUFFICES ASSUME CohortInv, [CohortNext]_cohortVars PROVE CohortInv'
    OBVIOUS
<1>1. CASE CohortDayPasses BY <1>1, DayKeeps
<1>2. CASE CohortsDrift BY <1>2, ShiftKeeps DEF CohortsDrift
<1>3. ASSUME NEW r \in Recomputes, NEW visitors \in Traffic, StartsRecompute(r, visitors)
      PROVE  CohortInv'
  BY <1>3, ReadKeeps DEF StartsRecompute
<1>4. ASSUME NEW r \in Recomputes, Recomputing(r) PROVE CohortInv'
  <2>1. CASE ResetCohorts(r) BY <2>1, ResetKeeps
  <2>2. CASE StampCohorts(r) BY <2>2, StampKeeps
  <2>3. ASSUME NEW k \in Keys, CreateCohort(r, k) PROVE CohortInv'
    BY <2>3, NewCohortKeeps, MetCohortKeeps
  <2> QED BY <1>4, <2>1, <2>2, <2>3 DEF Recomputing
<1>5. ASSUME NEW r \in Recomputes, LoseRecompute(r) PROVE CohortInv' BY <1>5, LoseKeeps
<1>6. CASE UNCHANGED cohortVars
  BY <1>6 DEF CohortInv, CohortTypeOK, ReadsSteady, SteadyCohortsKept, LastRunKeepsSteady, NeverLeftEmpty,
              Creating, cohortVars, lastRun
<1> QED BY <1>1, <1>2, <1>3, <1>4, <1>5, <1>6 DEF CohortNext

LEMMA CohortInvariant == CohortSpec => []CohortInv
<1> QED BY CohortInitInv, CohortStep, PTL DEF CohortSpec

(* A store's cohorts and its runs keep their shape, whatever overlaps. *)
THEOREM CohortType == CohortSpec => []CohortTypeOK
<1>1. CohortInv => CohortTypeOK BY DEF CohortInv
<1> QED BY <1>1, CohortInvariant, PTL

(* However many recomputes overlap, in whatever order each creates its cohorts and
   wherever it gives up on one that another has created: the run that deleted the
   cohorts last keeps every cohort the features yield all the time unless it failed
   itself, and without a failing statement there is always a run with all of them
   to create where none is left (CohortService.recompute deletes and creates
   without a transaction). *)
THEOREM SteadyKept == CohortSpec => []SteadyCohortsKept
<1>1. CohortInv => SteadyCohortsKept BY DEF CohortInv
<1> QED BY <1>1, CohortInvariant, PTL
----------------------------------------------------------------------------
(* A job marks carts it found idle for long enough, *)
ListedIdle ==
    \A j \in Jobs : \A l \in job[j].rows : l.activity + AbandonAfter <= job[j].began

(* so an abandoned cart had been, unless a write slipped. *)
AbandonedWasIdle ==
    \A c \in Carts \ slipped :
       cart[c].status = "ABANDONED" => cart[c].activity + AbandonAfter <= cart[c].since

(* A job has carts to remind after it has marked, and one reminder to count. *)
JobsInOrder ==
    \A j \in Jobs :
       /\ job[j].at # "count" => job[j].sent = {}
       /\ job[j].at \in {"idle", "mark"} => job[j].todo = {}
       /\ job[j].todo \cap job[j].sent = {}
       /\ \A c, d \in job[j].sent : c = d

(* The jobs that have reminded cart c and not counted it, and those that will still
   do something about it. *)
Sent(c) == {j \in Jobs : c \in job[j].sent}
Reminding(c) == {j \in Jobs : c \in job[j].todo \cup job[j].sent}

(* A reminder has been counted, is about to be, or its job stopped. *)
RemindersCounted ==
    \A c \in Carts \ slipped : reminders[c] <= cart[c].steps + Cardinality(Sent(c)) + faults

(* A job that lists a cart sees a step left; every job that overlaps may count one. *)
StepsWithinPolicy ==
    \A c \in Carts : Reminding(c) # {} =>
       cart[c].steps + Cardinality(Reminding(c)) <= Len(StepDelays) + Cardinality(Jobs) - 1

RecoveryInv ==
    /\ CartTypeOK /\ PaidCartsStaySettled
    /\ ListedIdle /\ AbandonedWasIdle /\ JobsInOrder
    /\ RemindersCounted /\ StepsWithinPolicy

LEMMA CartInitInv ==
    ASSUME RecoveryInit
    PROVE  RecoveryInv
<1>1. 0 \in Minutes BY RecoveryAssumption DEF Minutes
<1>2. NoJob \in RecoveryJob BY <1>1 DEF NoJob, RecoveryJob
<1>3. CartTypeOK
  <2>1. cart \in [Carts -> CartRow] BY <1>1 DEF RecoveryInit, CartRow, CartStatus
  <2> QED BY <1>1, <1>2, <2>1 DEF RecoveryInit, CartTypeOK, Handling
<1>4. PaidCartsStaySettled BY DEF RecoveryInit, PaidCartsStaySettled
<1>5. ListedIdle /\ JobsInOrder BY DEF RecoveryInit, NoJob, ListedIdle, JobsInOrder
<1>6. AbandonedWasIdle BY DEF RecoveryInit, AbandonedWasIdle
<1>7. \A c \in Carts : Sent(c) = {} /\ Reminding(c) = {}
  BY DEF RecoveryInit, NoJob, Sent, Reminding
<1>8. RemindersCounted BY <1>7, FS_EmptySet DEF RecoveryInit, RemindersCounted
<1>9. StepsWithinPolicy BY <1>7 DEF StepsWithinPolicy
<1> QED BY <1>3, <1>4, <1>5, <1>6, <1>8, <1>9 DEF RecoveryInv

(* What the type says of a cart's row and of a job. *)
LEMMA CartRows ==
    ASSUME CartTypeOK
    PROVE  /\ \A c \in Carts : /\ cart[c] \in CartRow /\ cart[c].status \in CartStatus
                               /\ cart[c].activity \in Nat /\ cart[c].since \in Nat
                               /\ cart[c].activity \in Minutes /\ cart[c].since \in Minutes
                               /\ cart[c].steps \in Nat /\ reminders[c] \in Nat
           /\ \A j \in Jobs : /\ job[j] \in RecoveryJob /\ job[j].began \in Nat /\ job[j].began \in Minutes
                              /\ job[j].rows \subseteq Listed /\ job[j].todo \subseteq Carts
                              /\ job[j].sent \subseteq Carts
           /\ \A l \in Listed : l.c \in Carts /\ l.activity \in Nat
           /\ Minutes \subseteq Nat /\ minute \in Nat /\ faults \in Nat
  BY RecoveryAssumption DEF CartTypeOK, CartRow, RecoveryJob, Listed, Minutes

LEMMA JobSets ==
    \A c \in Carts : /\ IsFiniteSet(Sent(c)) /\ IsFiniteSet(Reminding(c))
                     /\ Cardinality(Sent(c)) \in Nat /\ Cardinality(Reminding(c)) \in Nat
                     /\ Cardinality(Sent(c)) <= Cardinality(Reminding(c))
                     /\ Cardinality(Reminding(c)) <= Cardinality(Jobs) /\ Cardinality(Jobs) \in Nat
<1> TAKE c \in Carts
<1>1. Sent(c) \subseteq Reminding(c) /\ Reminding(c) \subseteq Jobs BY DEF Sent, Reminding
<1>2. IsFiniteSet(Jobs) BY RecoveryAssumption
<1>3. IsFiniteSet(Reminding(c)) /\ Cardinality(Reminding(c)) <= Cardinality(Jobs)
  BY <1>1, <1>2, FS_Subset
<1>4. IsFiniteSet(Sent(c)) /\ Cardinality(Sent(c)) <= Cardinality(Reminding(c))
  BY <1>1, <1>3, FS_Subset
<1> QED BY <1>2, <1>3, <1>4, FS_CardinalityType

(* A step that writes no cart's row and moves no job: most of the shoppers'. *)
LEMMA QuietKeeps ==
    ASSUME RecoveryInv, CartTypeOK', UNCHANGED <<cart, paid, job, reminders, slipped>>, faults' >= faults
    PROVE  RecoveryInv'
<1>1. PaidCartsStaySettled' BY DEF RecoveryInv, PaidCartsStaySettled
<1>2. ListedIdle' /\ JobsInOrder' BY DEF RecoveryInv, ListedIdle, JobsInOrder
<1>3. AbandonedWasIdle' BY DEF RecoveryInv, AbandonedWasIdle
<1>4. \A c \in Carts : Sent(c)' = Sent(c) /\ Reminding(c)' = Reminding(c) BY DEF Sent, Reminding
<1>5. RemindersCounted'
  <2> SUFFICES ASSUME NEW c \in Carts, c \notin slipped
               PROVE  reminders[c] <= cart[c].steps + Cardinality(Sent(c)) + faults'
    BY <1>4 DEF RemindersCounted
  <2>1. reminders[c] <= cart[c].steps + Cardinality(Sent(c)) + faults
    BY DEF RecoveryInv, RemindersCounted
  <2>2. faults' \in Nat /\ faults \in Nat BY DEF RecoveryInv, CartTypeOK
  <2> QED BY <2>1, <2>2, JobSets, CartRows DEF RecoveryInv
<1>6. StepsWithinPolicy' BY <1>4 DEF RecoveryInv, StepsWithinPolicy
<1> QED BY <1>1, <1>2, <1>3, <1>5, <1>6 DEF RecoveryInv

LEMMA ItemsQuiet ==
    ASSUME RecoveryInv, NEW r \in Requests, NEW c \in Carts, NEW n \in Quantities,
           AddItem(r, c, n) \/ SetItemQuantity(r, c, n)
    PROVE  RecoveryInv'
<1>1. CartTypeOK BY DEF RecoveryInv
<1>2. UNCHANGED <<minute, cart, ordered, paid, optedOut, recovery, job, reminders, slipped, faults>>
  BY DEF AddItem, SetItemQuantity
<1>3. n \in Nat /\ LineCap \in Nat BY RecoveryAssumption
<1>4. PICK h \in Handling : request' = [request EXCEPT ![r] = h] /\ calls' = calls + 1
  <2>1. [at |-> "clamp", c |-> c] \in Handling /\ [at |-> "touch", c |-> c] \in Handling
    BY DEF Handling
  <2> QED BY <2>1 DEF AddItem, SetItemQuantity, Requested
<1>5. units' \in [Carts -> Nat] BY <1>1, <1>3 DEF AddItem, SetItemQuantity, CartTypeOK
<1>6. CartTypeOK' BY <1>1, <1>2, <1>4, <1>5 DEF CartTypeOK
<1> QED BY <1>1, <1>2, <1>6, QuietKeeps, CartRows

LEMMA CaptureQuiet ==
    ASSUME RecoveryInv, NEW r \in Requests, NEW c \in Carts, Capture(r, c)
    PROVE  RecoveryInv'
<1> DEFINE h == [at |-> "settle", c |-> c, saw |-> cart[c].status]
<1>1. CartTypeOK BY DEF RecoveryInv
<1>2. h \in Handling BY <1>1, CartRows DEF Handling
<1>3. /\ ordered' = ordered \ {c} /\ request' \in {request, [request EXCEPT ![r] = h]}
      /\ UNCHANGED <<minute, cart, units, paid, optedOut, recovery, job, reminders, slipped, calls, faults>>
  BY DEF Capture
<1>4. CartTypeOK' BY <1>1, <1>2, <1>3 DEF CartTypeOK
<1> QED BY <1>1, <1>3, <1>4, QuietKeeps, CartRows

LEMMA OthersQuiet ==
    ASSUME RecoveryInv,
           \/ PassMinute \/ SetRecoveryPolicy
           \/ \E c \in Carts : CheckOut(c) \/ Unsubscribe(c)
    PROVE  RecoveryInv'
<1>1. CartTypeOK /\ LastMinute \in Nat BY RecoveryAssumption DEF RecoveryInv
<1>2. UNCHANGED <<cart, paid, job, reminders, slipped, faults>>
  BY DEF PassMinute, SetRecoveryPolicy, CheckOut, Unsubscribe
<1>3. CASE PassMinute
  <2>1. minute' \in Minutes BY <1>1, <1>3 DEF PassMinute, CartTypeOK, Minutes
  <2>2. CartTypeOK' BY <1>1, <1>3, <2>1 DEF PassMinute, CartTypeOK
  <2> QED BY <1>2, <2>2, QuietKeeps, CartRows DEF RecoveryInv
<1>4. CASE SetRecoveryPolicy
  <2>1. CartTypeOK' BY <1>1, <1>4 DEF SetRecoveryPolicy, CartTypeOK
  <2> QED BY <1>2, <2>1, QuietKeeps, CartRows DEF RecoveryInv
<1>5. ASSUME NEW c \in Carts, CheckOut(c) \/ Unsubscribe(c) PROVE RecoveryInv'
  <2>1. CartTypeOK' BY <1>1, <1>5 DEF CheckOut, Unsubscribe, CartTypeOK
  <2> QED BY <1>2, <2>1, QuietKeeps, CartRows DEF RecoveryInv
<1> QED BY <1>3, <1>4, <1>5

LEMMA HandlersQuiet ==
    ASSUME RecoveryInv, NEW r \in Requests, ClampLine(r) \/ ReadCart(r) \/ RequestFails(r)
    PROVE  RecoveryInv'
<1>1. CartTypeOK /\ LineCap \in Nat BY RecoveryAssumption DEF RecoveryInv
<1>2. UNCHANGED <<cart, paid, job, reminders, slipped>> /\ faults' \in {faults, faults + 1}
  BY DEF ClampLine, ReadCart, RequestFails
<1>3. faults' >= faults BY <1>1, <1>2 DEF CartTypeOK
<1>4. request[r] \in {Free} \cup Handling BY <1>1 DEF CartTypeOK
<1>5. CASE ClampLine(r)
  <2>1. request[r].c \in Carts /\ [request[r] EXCEPT !.at = "touch"] \in Handling
    BY <1>4, <1>5 DEF ClampLine, Free, Handling
  <2>2. \A x \in Nat : Clamped(x) \in Nat BY <1>1 DEF Clamped
  <2>3. units' \in [Carts -> Nat] BY <1>1, <1>5, <2>1, <2>2 DEF ClampLine, CartTypeOK
  <2>4. CartTypeOK' BY <1>1, <1>5, <2>1, <2>3 DEF ClampLine, CartTypeOK
  <2> QED BY <1>2, <1>3, <2>4, QuietKeeps
<1>6. CASE ReadCart(r)
  <2> DEFINE h == [at |-> "wake", c |-> request[r].c, saw |-> cart[request[r].c].status]
  <2>1. request[r].c \in Carts BY <1>4, <1>6 DEF ReadCart, Free, Handling
  <2>2. h \in Handling BY <1>1, <2>1, CartRows DEF Handling
  <2>3. /\ request' = [request EXCEPT ![r] = h]
        /\ UNCHANGED <<minute, units, ordered, optedOut, recovery, calls, faults>>
    BY <1>6 DEF ReadCart
  <2>4. CartTypeOK' BY <1>1, <1>2, <2>2, <2>3 DEF CartTypeOK
  <2> QED BY <1>2, <1>3, <2>4, QuietKeeps
<1>7. CASE RequestFails(r)
  <2>1. CartTypeOK' BY <1>1, <1>7 DEF RequestFails, CartTypeOK
  <2> QED BY <1>2, <1>3, <2>1, QuietKeeps
<1> QED BY <1>5, <1>6, <1>7

(* A handler writes the status of its cart: the reminders and the jobs stay. *)
LEMMA StatusKeeps ==
    ASSUME RecoveryInv, CartTypeOK', NEW k \in Carts, UNCHANGED <<job, reminders, faults>>,
           \A c \in Carts : cart'[c].steps = cart[c].steps /\ cart'[c].since = cart[c].since,
           \A c \in Carts \ {k} : cart'[c] = cart[c],
           slipped \subseteq slipped', paid' \subseteq paid \cup {k},
           k \in paid' \ slipped' => cart'[k].status \in Settled,
           k \notin slipped' => cart'[k].status # "ABANDONED"
    PROVE  RecoveryInv'
<1>0. paid \subseteq Carts BY DEF RecoveryInv, CartTypeOK
<1>1. PaidCartsStaySettled' BY <1>0 DEF RecoveryInv, PaidCartsStaySettled
<1>2. ListedIdle' /\ JobsInOrder' BY DEF RecoveryInv, ListedIdle, JobsInOrder
<1>3. AbandonedWasIdle' BY DEF RecoveryInv, AbandonedWasIdle
<1>4. \A c \in Carts : Sent(c)' = Sent(c) /\ Reminding(c)' = Reminding(c) BY DEF Sent, Reminding
<1>5. RemindersCounted' BY <1>4 DEF RecoveryInv, RemindersCounted
<1>6. StepsWithinPolicy' BY <1>4 DEF RecoveryInv, StepsWithinPolicy
<1> QED BY <1>1, <1>2, <1>3, <1>5, <1>6 DEF RecoveryInv

LEMMA TouchKeeps ==
    ASSUME RecoveryInv, NEW r \in Requests, TouchCart(r)
    PROVE  RecoveryInv'
<1> DEFINE k == request[r].c
<1>1. CartTypeOK BY DEF RecoveryInv
<1>2. request[r] \in Handling /\ k \in Carts /\ request[r].saw \in CartStatus
  BY <1>1 DEF TouchCart, CartTypeOK, Free, Handling
<1>3. cart[k] \in CartRow /\ minute \in Minutes BY <1>1, <1>2, CartRows DEF CartTypeOK
<1>4. Woken(cart[k].status, request[r].saw) \in CartStatus BY <1>3 DEF Woken, CartRow, CartStatus
<1>5. /\ cart' = [cart EXCEPT ![k] = [cart[k] EXCEPT !.status = Woken(cart[k].status, request[r].saw),
                                                     !.activity = minute]]
      /\ slipped' = Slips(k, request[r].saw) /\ request' = [request EXCEPT ![r] = Free]
      /\ UNCHANGED <<minute, units, ordered, paid, optedOut, recovery, job, reminders, calls, faults>>
  BY <1>1, <1>2 DEF TouchCart, CartTypeOK
<1>6. /\ \A c \in Carts \ {k} : cart'[c] = cart[c]
      /\ cart'[k].status = Woken(cart[k].status, request[r].saw)
      /\ cart'[k].steps = cart[k].steps /\ cart'[k].since = cart[k].since
      /\ cart'[k] \in CartRow
  BY <1>1, <1>2, <1>3, <1>4, <1>5 DEF CartTypeOK, CartRow
<1>7. slipped \subseteq slipped' /\ slipped' \subseteq slipped \cup {k}
      /\ (k \notin slipped' => cart[k].status = request[r].saw /\ k \notin slipped)
  BY <1>5 DEF Slips
<1>8. CartTypeOK'
  <2>1. cart' \in [Carts -> CartRow] BY <1>1, <1>2, <1>5, <1>6 DEF CartTypeOK
  <2>2. slipped' \subseteq Carts BY <1>1, <1>2, <1>7 DEF CartTypeOK
  <2> QED BY <1>1, <1>5, <2>1, <2>2 DEF CartTypeOK
<1>9. k \notin slipped' => cart'[k].status # "ABANDONED"
  BY <1>6, <1>7 DEF Woken
<1>10. k \in paid' \ slipped' => cart'[k].status \in Settled
  BY <1>2, <1>5, <1>6, <1>7 DEF Woken, RecoveryInv, PaidCartsStaySettled, Settled
<1> QED BY <1>2, <1>5, <1>6, <1>7, <1>8, <1>9, <1>10, StatusKeeps

LEMMA SettleKeeps ==
    ASSUME RecoveryInv, NEW r \in Requests, SettleCart(r)
    PROVE  RecoveryInv'
<1> DEFINE k == request[r].c
<1>1. CartTypeOK BY DEF RecoveryInv
<1>2. request[r] \in Handling /\ k \in Carts /\ request[r].saw \in CartStatus
  BY <1>1 DEF SettleCart, CartTypeOK, Free, Handling
<1>3. cart[k] \in CartRow BY <1>1, <1>2, CartRows
<1>4. SettledAs(request[r].saw) \in Settled /\ SettledAs(request[r].saw) \in CartStatus
  BY DEF SettledAs, Settled, CartStatus
<1>5. /\ cart' = [cart EXCEPT ![k] = [cart[k] EXCEPT !.status = SettledAs(request[r].saw)]]
      /\ slipped' = Slips(k, request[r].saw) /\ paid' = paid \cup {k}
      /\ request' = [request EXCEPT ![r] = Free]
      /\ UNCHANGED <<minute, units, ordered, optedOut, recovery, job, reminders, calls, faults>>
  BY <1>1, <1>2 DEF SettleCart, CartTypeOK
<1>6. /\ \A c \in Carts \ {k} : cart'[c] = cart[c]
      /\ cart'[k].status = SettledAs(request[r].saw)
      /\ cart'[k].steps = cart[k].steps /\ cart'[k].since = cart[k].since
      /\ cart'[k] \in CartRow
  BY <1>1, <1>2, <1>3, <1>4, <1>5 DEF CartTypeOK, CartRow
<1>7. slipped \subseteq slipped' /\ slipped' \subseteq slipped \cup {k}
  BY <1>5 DEF Slips
<1>8. CartTypeOK'
  <2>1. cart' \in [Carts -> CartRow] BY <1>1, <1>2, <1>5, <1>6 DEF CartTypeOK
  <2>2. slipped' \subseteq Carts /\ paid' \subseteq Carts BY <1>1, <1>2, <1>5, <1>7 DEF CartTypeOK
  <2> QED BY <1>1, <1>5, <2>1, <2>2 DEF CartTypeOK
<1>9. cart'[k].status # "ABANDONED" BY <1>4, <1>6 DEF Settled
<1> QED BY <1>2, <1>4, <1>5, <1>6, <1>7, <1>8, <1>9, StatusKeeps

(* A job moves on: it alone may start or stop having a cart to remind or to count. *)
LEMMA JobMoves ==
    ASSUME CartTypeOK, NEW j \in Jobs, NEW x \in RecoveryJob, job' = [job EXCEPT ![j] = x]
    PROVE  /\ job' \in [Jobs -> RecoveryJob] /\ job'[j] = x
           /\ \A i \in Jobs \ {j} : job'[i] = job[i]
           /\ \A c \in Carts :
                 /\ Sent(c)' = (Sent(c) \ {j}) \cup (IF c \in x.sent THEN {j} ELSE {})
                 /\ Reminding(c)' = (Reminding(c) \ {j}) \cup (IF c \in x.todo \cup x.sent THEN {j} ELSE {})
<1>1. /\ job' \in [Jobs -> RecoveryJob] /\ job'[j] = x
      /\ \A i \in Jobs \ {j} : job'[i] = job[i]
  BY DEF CartTypeOK
<1>2. ASSUME NEW c \in Carts
      PROVE  /\ Sent(c)' = (Sent(c) \ {j}) \cup (IF c \in x.sent THEN {j} ELSE {})
             /\ Reminding(c)' = (Reminding(c) \ {j}) \cup (IF c \in x.todo \cup x.sent THEN {j} ELSE {})
  BY <1>1 DEF Sent, Reminding
<1> QED BY <1>1, <1>2

LEMMA RemindsOnMoves ==
    ASSUME CartTypeOK, NEW j \in Jobs, NEW todo \in SUBSET Carts, RemindsOn(j, todo)
    PROVE  \E x \in RecoveryJob :
              /\ job' = [job EXCEPT ![j] = x] /\ x.rows = {} /\ x.todo = todo /\ x.sent = {}
              /\ x.at \in {"idle", "remind"} /\ (x.at = "idle" => todo = {})
<1>1. 0 \in Minutes BY RecoveryAssumption DEF Minutes
<1>2. CASE todo = {}
  <2>1. NoJob \in RecoveryJob BY <1>1 DEF NoJob, RecoveryJob
  <2> QED BY <1>2, <2>1 DEF RemindsOn, NoJob
<1>3. CASE todo # {}
  <2> DEFINE x == [NoJob EXCEPT !.at = "remind", !.todo = todo]
  <2>1. x \in RecoveryJob /\ x.rows = {} /\ x.todo = todo /\ x.sent = {} /\ x.at = "remind"
    BY <1>1 DEF NoJob, RecoveryJob
  <2> QED BY <1>3, <2>1 DEF RemindsOn
<1> QED BY <1>2, <1>3

LEMMA StartKeeps ==
    ASSUME RecoveryInv, NEW j \in Jobs, StartRecovery(j)
    PROVE  RecoveryInv'
<1> DEFINE idle == {y \in Carts : /\ cart[y].status = "ACTIVE" /\ units[y] > 0
                                  /\ IsIdle(cart[y].activity, minute)}
           rows == {RowOf(c) : c \in idle}
           x == [NoJob EXCEPT !.at = "mark", !.began = minute, !.rows = rows]
<1>1. CartTypeOK BY DEF RecoveryInv
<1>2. /\ job' = [job EXCEPT ![j] = x] /\ job[j].at = "idle"
      /\ UNCHANGED <<minute, cart, units, ordered, paid, optedOut, recovery, request, reminders, slipped, calls, faults>>
  BY DEF StartRecovery
<1>3. rows \subseteq Listed BY <1>1, CartRows DEF RowOf, Listed
<1>4. minute \in Minutes BY <1>1 DEF CartTypeOK
<1>5. /\ x \in RecoveryJob /\ x.at = "mark" /\ x.began = minute /\ x.rows = rows
      /\ x.todo = {} /\ x.sent = {}
  BY <1>3, <1>4 DEF NoJob, RecoveryJob
<1> HIDE DEF x
<1>6. /\ job' \in [Jobs -> RecoveryJob] /\ job'[j] = x /\ \A i \in Jobs \ {j} : job'[i] = job[i]
  BY <1>1, <1>2, <1>5, JobMoves
<1>7. CartTypeOK' BY <1>1, <1>2, <1>6 DEF CartTypeOK
<1>8. job[j].todo = {} /\ job[j].sent = {} BY <1>2 DEF RecoveryInv, JobsInOrder
<1>9. \A c \in Carts : Sent(c)' = Sent(c) /\ Reminding(c)' = Reminding(c)
  BY <1>5, <1>6, <1>8 DEF Sent, Reminding
<1>10. ListedIdle'
  <2>1. \A l \in rows : l.activity + AbandonAfter <= minute
    BY <1>1, CartRows, RecoveryAssumption DEF RowOf, IsIdle
  <2> QED BY <1>5, <1>6, <2>1 DEF RecoveryInv, ListedIdle
<1>11. JobsInOrder' BY <1>5, <1>6 DEF RecoveryInv, JobsInOrder
<1>12. PaidCartsStaySettled' /\ AbandonedWasIdle'
  BY <1>2 DEF RecoveryInv, PaidCartsStaySettled, AbandonedWasIdle
<1>13. RemindersCounted' /\ StepsWithinPolicy'
  BY <1>2, <1>9 DEF RecoveryInv, RemindersCounted, StepsWithinPolicy
<1> QED BY <1>7, <1>10, <1>11, <1>12, <1>13 DEF RecoveryInv

(* A cart that is marked starts again with no reminder and no step. *)
LEMMA MarkKeeps ==
    ASSUME RecoveryInv, NEW j \in Jobs, NEW l \in job[j].rows, MarkAbandoned(j, l)
    PROVE  RecoveryInv'
<1> DEFINE k == l.c
           x == [job[j] EXCEPT !.rows = @ \ {l}]
           row == [cart[k] EXCEPT !.status = "ABANDONED", !.since = job[j].began, !.steps = 0]
<1>1. CartTypeOK BY DEF RecoveryInv
<1>2. l \in Listed /\ k \in Carts /\ job[j] \in RecoveryJob /\ job[j].began \in Minutes
      /\ cart[k] \in CartRow
  BY <1>1, CartRows
<1>3. /\ job' = [job EXCEPT ![j] = x] /\ cart' = [cart EXCEPT ![k] = row]
      /\ reminders' = IF cart[k].status = "ACTIVE" THEN [reminders EXCEPT ![k] = 0] ELSE reminders
      /\ slipped' = IF cart[k].status = "ACTIVE" /\ cart[k].activity = l.activity THEN slipped
                    ELSE slipped \cup {k}
      /\ UNCHANGED <<minute, units, ordered, paid, optedOut, recovery, request, calls, faults>>
  BY <1>1, <1>2 DEF MarkAbandoned, CartTypeOK
<1>4. /\ x \in RecoveryJob /\ x.rows = job[j].rows \ {l} /\ x.at = job[j].at /\ x.began = job[j].began
      /\ x.todo = job[j].todo /\ x.sent = job[j].sent
  BY <1>2 DEF RecoveryJob
<1>5. /\ row \in CartRow /\ row.status = "ABANDONED" /\ row.since = job[j].began /\ row.steps = 0
      /\ row.activity = cart[k].activity
  BY <1>2 DEF CartRow, CartStatus
<1> HIDE DEF x, row
<1>6. /\ job' \in [Jobs -> RecoveryJob] /\ job'[j] = x /\ \A i \in Jobs \ {j} : job'[i] = job[i]
  BY <1>1, <1>3, <1>4, JobMoves
<1>7. cart' \in [Carts -> CartRow] /\ cart'[k] = row /\ \A c \in Carts \ {k} : cart'[c] = cart[c]
  BY <1>1, <1>2, <1>3, <1>5 DEF CartTypeOK
<1>8. slipped \subseteq slipped' /\ slipped' \subseteq Carts
  BY <1>1, <1>2, <1>3 DEF CartTypeOK
<1>9. k \notin slipped' => cart[k].status = "ACTIVE" /\ cart[k].activity = l.activity /\ k \notin slipped
  BY <1>3
<1>10. /\ reminders' \in [Carts -> Nat] /\ \A c \in Carts \ {k} : reminders'[c] = reminders[c]
       /\ k \notin slipped' => reminders'[k] = 0
  BY <1>1, <1>2, <1>3, <1>9 DEF CartTypeOK
<1>11. CartTypeOK' BY <1>1, <1>3, <1>6, <1>7, <1>8, <1>10 DEF CartTypeOK
<1>12. \A c \in Carts : Sent(c)' = Sent(c) /\ Reminding(c)' = Reminding(c)
  BY <1>4, <1>6 DEF Sent, Reminding
<1>13. PaidCartsStaySettled'
  <2> SUFFICES ASSUME NEW c \in paid, c \notin slipped' PROVE cart'[c].status \in Settled
    BY <1>3 DEF PaidCartsStaySettled
  <2>1. c \in Carts /\ cart[c].status \in Settled
    BY <1>1, <1>8 DEF RecoveryInv, CartTypeOK, PaidCartsStaySettled
  <2>2. c # k BY <1>9, <2>1 DEF Settled
  <2> QED BY <1>7, <2>1, <2>2
<1>14. ListedIdle' BY <1>4, <1>6 DEF RecoveryInv, ListedIdle
<1>15. JobsInOrder' BY <1>4, <1>6 DEF RecoveryInv, JobsInOrder
<1>16. AbandonedWasIdle'
  <2>1. l.activity + AbandonAfter <= job[j].began BY DEF RecoveryInv, ListedIdle
  <2> QED BY <1>5, <1>7, <1>8, <1>9, <2>1 DEF RecoveryInv, AbandonedWasIdle
<1>17. RemindersCounted'
  <2> SUFFICES ASSUME NEW c \in Carts, c \notin slipped'
               PROVE  reminders'[c] <= cart'[c].steps + Cardinality(Sent(c)) + faults
    BY <1>3, <1>12 DEF RemindersCounted
  <2>1. CASE c = k BY <1>1, <1>5, <1>7, <1>10, <2>1, JobSets, CartRows
  <2>2. CASE c # k BY <1>7, <1>8, <1>10, <2>2 DEF RecoveryInv, RemindersCounted
  <2> QED BY <2>1, <2>2
<1>18. StepsWithinPolicy'
  <2> SUFFICES ASSUME NEW c \in Carts, Reminding(c) # {}
               PROVE  cart'[c].steps + Cardinality(Reminding(c)) <= Len(StepDelays) + Cardinality(Jobs) - 1
    BY <1>12 DEF StepsWithinPolicy
  <2>1. cart[c].steps + Cardinality(Reminding(c)) <= Len(StepDelays) + Cardinality(Jobs) - 1
    BY DEF RecoveryInv, StepsWithinPolicy
  <2>2. cart'[c].steps <= cart[c].steps /\ cart[c].steps \in Nat /\ cart'[c].steps \in Nat
    BY <1>1, <1>5, <1>7, CartRows
  <2>3. Len(StepDelays) \in Nat BY RecoveryAssumption
  <2> QED BY <2>1, <2>2, <2>3, JobSets
<1> QED BY <1>11, <1>13, <1>14, <1>15, <1>16, <1>17, <1>18 DEF RecoveryInv

(* What a job that marked has to remind of: no more steps than the policy's are taken. *)
LEMMA ListKeeps ==
    ASSUME RecoveryInv, NEW j \in Jobs, ListAbandoned(j)
    PROVE  RecoveryInv'
<1> DEFINE todo == {c \in Carts : cart[c].status = "ABANDONED" /\ StepDue(c, job[j].began)}
<1>1. CartTypeOK BY DEF RecoveryInv
<1>2. /\ RemindsOn(j, todo) /\ job[j].at = "mark"
      /\ UNCHANGED <<minute, cart, units, ordered, paid, optedOut, recovery, request, reminders, slipped, calls, faults>>
  BY DEF ListAbandoned
<1>3. \A c \in todo : cart[c].steps < Len(StepDelays) BY DEF StepDue, StepsLeft
<1> HIDE DEF todo
<1>4. todo \in SUBSET Carts BY DEF todo
<1>5. PICK x \in RecoveryJob :
         /\ job' = [job EXCEPT ![j] = x] /\ x.rows = {} /\ x.todo = todo /\ x.sent = {}
         /\ x.at \in {"idle", "remind"} /\ (x.at = "idle" => todo = {})
  BY <1>1, <1>2, <1>4, RemindsOnMoves
<1>6. /\ job' \in [Jobs -> RecoveryJob] /\ job'[j] = x /\ \A i \in Jobs \ {j} : job'[i] = job[i]
      /\ \A c \in Carts :
            /\ Sent(c)' = (Sent(c) \ {j}) \cup (IF c \in x.sent THEN {j} ELSE {})
            /\ Reminding(c)' = (Reminding(c) \ {j}) \cup (IF c \in x.todo \cup x.sent THEN {j} ELSE {})
  BY <1>1, <1>5, JobMoves
<1>7. CartTypeOK' BY <1>1, <1>2, <1>6 DEF CartTypeOK
<1>8. job[j].todo = {} /\ job[j].sent = {} BY <1>2 DEF RecoveryInv, JobsInOrder
<1>9. \A c \in Carts : j \notin Sent(c) /\ j \notin Reminding(c) BY <1>8 DEF Sent, Reminding
<1>10. \A c \in Carts : Sent(c)' = Sent(c) BY <1>5, <1>6, <1>9 DEF Sent
<1>11. ListedIdle' /\ JobsInOrder' BY <1>5, <1>6 DEF RecoveryInv, ListedIdle, JobsInOrder
<1>12. PaidCartsStaySettled' /\ AbandonedWasIdle'
  BY <1>2 DEF RecoveryInv, PaidCartsStaySettled, AbandonedWasIdle
<1>13. RemindersCounted' BY <1>2, <1>10 DEF RecoveryInv, RemindersCounted
<1>14. StepsWithinPolicy'
  <2> SUFFICES ASSUME NEW c \in Carts, Reminding(c)' # {}
               PROVE  cart[c].steps + Cardinality(Reminding(c)') <= Len(StepDelays) + Cardinality(Jobs) - 1
    BY <1>2 DEF StepsWithinPolicy
  <2>1. CASE c \in todo
    <3>1. Reminding(c)' \subseteq Jobs BY DEF Reminding
    <3>2. Cardinality(Reminding(c)') <= Cardinality(Jobs) /\ Cardinality(Reminding(c)') \in Nat
      BY <3>1, RecoveryAssumption, FS_Subset, FS_CardinalityType
    <3>3. cart[c].steps <= Len(StepDelays) - 1
      BY <1>1, <1>3, <2>1, CartRows, RecoveryAssumption
    <3> QED BY <1>1, <3>2, <3>3, CartRows, JobSets, RecoveryAssumption
  <2>2. CASE c \notin todo
    <3>1. Reminding(c)' = Reminding(c) BY <1>5, <1>6, <1>9, <2>2 DEF Reminding
    <3> QED BY <3>1 DEF RecoveryInv, StepsWithinPolicy
  <2> QED BY <2>1, <2>2
<1> QED BY <1>7, <1>11, <1>12, <1>13, <1>14 DEF RecoveryInv

LEMMA SendMoves ==
    ASSUME RecoveryInv, NEW j \in Jobs, NEW k \in Carts, SendReminder(j, k)
    PROVE  /\ job'[j].todo = job[j].todo \ {k} /\ job'[j].sent = {k} /\ job'[j].rows = job[j].rows
           /\ job'[j].at = "count" /\ job'[j].began = job[j].began
           /\ job' \in [Jobs -> RecoveryJob] /\ \A i \in Jobs \ {j} : job'[i] = job[i]
           /\ \A c \in Carts : Reminding(c)' = Reminding(c)
           /\ \A c \in Carts \ {k} : Sent(c)' = Sent(c)
           /\ j \notin Sent(k) /\ j \in Reminding(k) /\ Sent(k)' = Sent(k) \cup {j}
<1> DEFINE x == [job[j] EXCEPT !.at = "count", !.todo = @ \ {k}, !.sent = {k}]
<1>1. CartTypeOK BY DEF RecoveryInv
<1>2. job[j] \in RecoveryJob BY <1>1, CartRows
<1>3. job' = [job EXCEPT ![j] = x] /\ job[j].at = "remind" /\ k \in job[j].todo
  BY <1>1, <1>2 DEF SendReminder, CartTypeOK
<1>4. /\ x \in RecoveryJob /\ x.todo = job[j].todo \ {k} /\ x.sent = {k} /\ x.rows = job[j].rows
      /\ x.at = "count" /\ x.began = job[j].began
  BY <1>2 DEF RecoveryJob
<1> HIDE DEF x
<1>5. /\ job' \in [Jobs -> RecoveryJob] /\ job'[j] = x /\ \A i \in Jobs \ {j} : job'[i] = job[i]
      /\ \A c \in Carts :
            /\ Sent(c)' = (Sent(c) \ {j}) \cup (IF c \in x.sent THEN {j} ELSE {})
            /\ Reminding(c)' = (Reminding(c) \ {j}) \cup (IF c \in x.todo \cup x.sent THEN {j} ELSE {})
  BY <1>1, <1>3, <1>4, JobMoves
<1>6. job[j].sent = {} BY <1>3 DEF RecoveryInv, JobsInOrder
<1>7. \A c \in Carts : j \notin Sent(c) /\ (j \in Reminding(c) <=> c \in job[j].todo)
  BY <1>6 DEF Sent, Reminding
<1>8. \A c \in Carts : Reminding(c)' = Reminding(c) BY <1>3, <1>4, <1>5, <1>7 DEF Reminding
<1>9. \A c \in Carts \ {k} : Sent(c)' = Sent(c) BY <1>4, <1>5, <1>7 DEF Sent
<1>10. Sent(k)' = Sent(k) \cup {j} BY <1>4, <1>5, <1>7 DEF Sent
<1> QED BY <1>3, <1>4, <1>5, <1>7, <1>8, <1>9, <1>10

LEMMA SendKeeps ==
    ASSUME RecoveryInv, NEW j \in Jobs, NEW k \in Carts, SendReminder(j, k)
    PROVE  RecoveryInv'
<1>1. CartTypeOK BY DEF RecoveryInv
<1>2. /\ job'[j].todo = job[j].todo \ {k} /\ job'[j].sent = {k} /\ job'[j].rows = job[j].rows
      /\ job'[j].at = "count" /\ job'[j].began = job[j].began
      /\ job' \in [Jobs -> RecoveryJob] /\ \A i \in Jobs \ {j} : job'[i] = job[i]
      /\ \A c \in Carts : Reminding(c)' = Reminding(c)
      /\ \A c \in Carts \ {k} : Sent(c)' = Sent(c)
      /\ j \notin Sent(k) /\ j \in Reminding(k) /\ Sent(k)' = Sent(k) \cup {j}
  BY SendMoves
<1>3. UNCHANGED <<minute, cart, units, ordered, paid, optedOut, recovery, request, slipped, calls, faults>>
  BY DEF SendReminder
<1>4. /\ reminders' \in [Carts -> Nat] /\ \A c \in Carts \ {k} : reminders'[c] = reminders[c]
      /\ reminders'[k] <= reminders[k] + 1
  BY <1>1 DEF SendReminder, CartTypeOK
<1>5. CartTypeOK' BY <1>1, <1>2, <1>3, <1>4 DEF CartTypeOK
<1>6. PaidCartsStaySettled' /\ AbandonedWasIdle'
  BY <1>3 DEF RecoveryInv, PaidCartsStaySettled, AbandonedWasIdle
<1>7. ListedIdle' BY <1>2 DEF RecoveryInv, ListedIdle
<1>8. JobsInOrder' BY <1>2 DEF RecoveryInv, JobsInOrder
<1>9. StepsWithinPolicy' BY <1>2, <1>3 DEF RecoveryInv, StepsWithinPolicy
<1>10. RemindersCounted'
  <2> SUFFICES ASSUME NEW c \in Carts, c \notin slipped
               PROVE  reminders'[c] <= cart[c].steps + Cardinality(Sent(c)') + faults
    BY <1>3 DEF RemindersCounted
  <2>1. reminders[c] <= cart[c].steps + Cardinality(Sent(c)) + faults
    BY DEF RecoveryInv, RemindersCounted
  <2>2. CASE c # k BY <1>2, <1>4, <2>1, <2>2
  <2>3. CASE c = k
    <3>1. Cardinality(Sent(k)') = Cardinality(Sent(k)) + 1 BY <1>2, JobSets, FS_AddElement
    <3> QED BY <1>1, <1>4, <1>5, <2>1, <2>3, <3>1, CartRows, JobSets DEF CartTypeOK
  <2> QED BY <2>2, <2>3
<1> QED BY <1>5, <1>6, <1>7, <1>8, <1>9, <1>10 DEF RecoveryInv

LEMMA CountKeeps ==
    ASSUME RecoveryInv, NEW j \in Jobs, NEW k \in Carts, CountStep(j, k)
    PROVE  RecoveryInv'
<1>1. CartTypeOK BY DEF RecoveryInv
<1>2. /\ job[j] \in RecoveryJob /\ job[j].todo \in SUBSET Carts /\ job[j].sent \subseteq Carts
      /\ cart[k] \in CartRow /\ cart[k].steps \in Nat
  BY <1>1, CartRows
<1> DEFINE row == [cart[k] EXCEPT !.steps = cart[k].steps + 1]
<1>3. /\ cart' = [cart EXCEPT ![k] = row] /\ k \in job[j].sent
      /\ RemindsOn(j, job[j].todo)
      /\ UNCHANGED <<minute, units, ordered, paid, optedOut, recovery, request, reminders, slipped, calls, faults>>
  BY DEF CountStep, Counted
<1>4. /\ row \in CartRow /\ row.steps = cart[k].steps + 1 /\ row.status = cart[k].status
      /\ row.activity = cart[k].activity /\ row.since = cart[k].since
  BY <1>2 DEF CartRow
<1> HIDE DEF row
<1>5. cart' \in [Carts -> CartRow] /\ cart'[k] = row /\ \A c \in Carts \ {k} : cart'[c] = cart[c]
  BY <1>1, <1>3, <1>4 DEF CartTypeOK
<1>6. PICK x \in RecoveryJob :
         /\ job' = [job EXCEPT ![j] = x] /\ x.rows = {} /\ x.todo = job[j].todo /\ x.sent = {}
         /\ x.at \in {"idle", "remind"} /\ (x.at = "idle" => job[j].todo = {})
  BY <1>1, <1>2, <1>3, RemindsOnMoves
<1>7. /\ job' \in [Jobs -> RecoveryJob] /\ job'[j] = x /\ \A i \in Jobs \ {j} : job'[i] = job[i]
      /\ \A c \in Carts :
            /\ Sent(c)' = (Sent(c) \ {j}) \cup (IF c \in x.sent THEN {j} ELSE {})
            /\ Reminding(c)' = (Reminding(c) \ {j}) \cup (IF c \in x.todo \cup x.sent THEN {j} ELSE {})
  BY <1>1, <1>6, JobMoves
<1>8. CartTypeOK' BY <1>1, <1>3, <1>5, <1>7 DEF CartTypeOK
<1>9. job[j].at = "count" /\ job[j].todo \cap job[j].sent = {} BY <1>3 DEF CountStep, RecoveryInv, JobsInOrder
<1>10. \A c \in Carts \ {k} : Sent(c)' = Sent(c) /\ Reminding(c)' = Reminding(c)
  <2> TAKE c \in Carts \ {k}
  <2>1. c \notin job[j].sent BY <1>3 DEF RecoveryInv, JobsInOrder
  <2> QED BY <1>6, <1>7, <2>1 DEF Sent, Reminding
<1>11. /\ j \in Sent(k) /\ j \in Reminding(k)
       /\ Sent(k)' = Sent(k) \ {j} /\ Reminding(k)' = Reminding(k) \ {j}
  BY <1>3, <1>6, <1>7, <1>9 DEF Sent, Reminding
<1>12. PaidCartsStaySettled'
  <2>1. paid \subseteq Carts BY <1>1 DEF CartTypeOK
  <2> QED BY <1>3, <1>4, <1>5, <2>1 DEF RecoveryInv, PaidCartsStaySettled
<1>13. AbandonedWasIdle' BY <1>3, <1>4, <1>5 DEF RecoveryInv, AbandonedWasIdle
<1>14. ListedIdle' /\ JobsInOrder' BY <1>6, <1>7 DEF RecoveryInv, ListedIdle, JobsInOrder
<1>15. /\ Cardinality(Sent(k)') = Cardinality(Sent(k)) - 1
       /\ Cardinality(Reminding(k)') = Cardinality(Reminding(k)) - 1
  BY <1>11, JobSets, FS_RemoveElement
<1>16. RemindersCounted'
  <2> SUFFICES ASSUME NEW c \in Carts, c \notin slipped
               PROVE  reminders[c] <= cart'[c].steps + Cardinality(Sent(c)') + faults
    BY <1>3 DEF RemindersCounted
  <2>1. reminders[c] <= cart[c].steps + Cardinality(Sent(c)) + faults
    BY DEF RecoveryInv, RemindersCounted
  <2>2. CASE c = k BY <1>1, <1>4, <1>5, <1>15, <2>1, <2>2, JobSets, CartRows
  <2>3. CASE c # k BY <1>5, <1>10, <2>1, <2>3
  <2> QED BY <2>2, <2>3
<1>17. StepsWithinPolicy'
  <2> SUFFICES ASSUME NEW c \in Carts, Reminding(c)' # {}
               PROVE  cart'[c].steps + Cardinality(Reminding(c)') <= Len(StepDelays) + Cardinality(Jobs) - 1
    BY DEF StepsWithinPolicy
  <2>1. Reminding(c) # {} BY <1>10, <1>11
  <2>2. cart[c].steps + Cardinality(Reminding(c)) <= Len(StepDelays) + Cardinality(Jobs) - 1
    BY <2>1 DEF RecoveryInv, StepsWithinPolicy
  <2>3. CASE c = k
    <3>1. cart'[k].steps = cart[k].steps + 1 BY <1>4, <1>5
    <3>2. Len(StepDelays) \in Nat BY RecoveryAssumption
    <3> QED BY <1>2, <1>15, <2>2, <2>3, <3>1, <3>2, JobSets
  <2>4. CASE c # k BY <1>5, <1>10, <2>2, <2>4
  <2> QED BY <2>3, <2>4
<1> QED BY <1>8, <1>12, <1>13, <1>14, <1>16, <1>17 DEF RecoveryInv

(* A job that stops leaves a reminder uncounted at worst. *)
LEMMA StopKeeps ==
    ASSUME RecoveryInv, NEW j \in Jobs, RecoveryStops(j)
    PROVE  RecoveryInv'
<1>1. CartTypeOK /\ faults \in Nat BY DEF RecoveryInv, CartTypeOK
<1>2. /\ job' = [job EXCEPT ![j] = NoJob] /\ faults' = faults + 1
      /\ UNCHANGED <<minute, cart, units, ordered, paid, optedOut, recovery, request, reminders, slipped, calls>>
  BY DEF RecoveryStops
<1>3. NoJob \in RecoveryJob /\ NoJob.rows = {} /\ NoJob.todo = {} /\ NoJob.sent = {} /\ NoJob.at = "idle"
  BY RecoveryAssumption DEF NoJob, RecoveryJob, Minutes
<1>4. job' \in [Jobs -> RecoveryJob] /\ job'[j] = NoJob /\ \A i \in Jobs \ {j} : job'[i] = job[i]
  BY <1>1, <1>2, <1>3, JobMoves
<1>12. \A c \in Carts : Sent(c)' = Sent(c) \ {j} /\ Reminding(c)' = Reminding(c) \ {j}
  BY <1>3, <1>4 DEF Sent, Reminding
<1>5. CartTypeOK' BY <1>1, <1>2, <1>4 DEF CartTypeOK
<1>6. PaidCartsStaySettled' /\ AbandonedWasIdle'
  BY <1>2 DEF RecoveryInv, PaidCartsStaySettled, AbandonedWasIdle
<1>7. ListedIdle' /\ JobsInOrder' BY <1>3, <1>4 DEF RecoveryInv, ListedIdle, JobsInOrder
<1>8. \A c \in Carts : /\ Cardinality(Sent(c)') >= Cardinality(Sent(c)) - 1
                       /\ Cardinality(Reminding(c)') <= Cardinality(Reminding(c))
                       /\ Cardinality(Sent(c)') \in Nat /\ Cardinality(Reminding(c)') \in Nat
  <2> TAKE c \in Carts
  <2>1. /\ Cardinality(Sent(c)') = IF j \in Sent(c) THEN Cardinality(Sent(c)) - 1 ELSE Cardinality(Sent(c))
        /\ Cardinality(Reminding(c)') = IF j \in Reminding(c) THEN Cardinality(Reminding(c)) - 1
                                        ELSE Cardinality(Reminding(c))
        /\ IsFiniteSet(Sent(c)') /\ IsFiniteSet(Reminding(c)')
    BY <1>12, JobSets, FS_RemoveElement
  <2>2. Cardinality(Sent(c)') \in Nat /\ Cardinality(Reminding(c)') \in Nat
    BY <2>1, FS_CardinalityType
  <2> QED BY <2>1, <2>2, JobSets
<1>9. RemindersCounted'
  <2> SUFFICES ASSUME NEW c \in Carts, c \notin slipped
               PROVE  reminders[c] <= cart[c].steps + Cardinality(Sent(c)') + faults + 1
    BY <1>1, <1>2, <1>8, CartRows DEF RemindersCounted
  <2>1. reminders[c] <= cart[c].steps + Cardinality(Sent(c)) + faults
    BY DEF RecoveryInv, RemindersCounted
  <2> QED BY <1>1, <1>8, <2>1, CartRows, JobSets
<1>10. StepsWithinPolicy'
  <2> SUFFICES ASSUME NEW c \in Carts, Reminding(c)' # {}
               PROVE  cart[c].steps + Cardinality(Reminding(c)') <= Len(StepDelays) + Cardinality(Jobs) - 1
    BY <1>2 DEF StepsWithinPolicy
  <2>1. Reminding(c) # {} BY <1>12
  <2>2. cart[c].steps + Cardinality(Reminding(c)) <= Len(StepDelays) + Cardinality(Jobs) - 1
    BY <2>1 DEF RecoveryInv, StepsWithinPolicy
  <2> QED BY <1>1, <1>8, <2>2, CartRows, JobSets, RecoveryAssumption
<1> QED BY <1>5, <1>6, <1>7, <1>9, <1>10 DEF RecoveryInv

LEMMA RecoveryStepKeeps ==
    ASSUME RecoveryInv, [RecoveryNext]_recoveryVars
    PROVE  RecoveryInv'
<1>1. CASE PassMinute BY <1>1, OthersQuiet
<1>2. CASE ShopperSteps
  <2>1. ASSUME NEW r \in Requests, Handles(r) \/ RequestFails(r) PROVE RecoveryInv'
    BY <2>1, HandlersQuiet, TouchKeeps, SettleKeeps DEF Handles
  <2>2. ASSUME NEW r \in Requests, NEW c \in Carts, Capture(r, c) PROVE RecoveryInv'
    BY <2>2, CaptureQuiet
  <2>3. ASSUME NEW r \in Requests, NEW c \in Carts, NEW n \in Quantities,
               AddItem(r, c, n) \/ SetItemQuantity(r, c, n)
        PROVE  RecoveryInv'
    BY <2>3, ItemsQuiet
  <2>4. ASSUME \/ SetRecoveryPolicy
               \/ \E c \in Carts : CheckOut(c) \/ Unsubscribe(c)
        PROVE  RecoveryInv'
    BY <2>4, OthersQuiet
  <2> QED BY <1>2, <2>1, <2>2, <2>3, <2>4 DEF ShopperSteps
<1>3. ASSUME NEW j \in Jobs, StartRecovery(j) \/ RecoverySteps(j) \/ RecoveryStops(j)
      PROVE  RecoveryInv'
  BY <1>3, StartKeeps, ListKeeps, MarkKeeps, SendKeeps, CountKeeps, StopKeeps DEF RecoverySteps
<1>4. CASE UNCHANGED recoveryVars
  <2>1. UNCHANGED <<minute, cart, units, ordered, paid, optedOut, recovery, request, job,
                    reminders, slipped, calls, faults>>
    BY <1>4 DEF recoveryVars
  <2>2. CartTypeOK' BY <2>1 DEF RecoveryInv, CartTypeOK
  <2> QED BY <2>1, <2>2, QuietKeeps, CartRows DEF RecoveryInv
<1> QED BY <1>1, <1>2, <1>3, <1>4 DEF RecoveryNext

LEMMA RecoveryInvariant == RecoverySpec => []RecoveryInv
<1>1. RecoveryInit => RecoveryInv BY CartInitInv
<1>2. RecoveryInv /\ [RecoveryNext]_recoveryVars => RecoveryInv' BY RecoveryStepKeeps
<1> QED BY <1>1, <1>2, PTL DEF RecoverySpec

(* The type of the carts, their handlers and the recovery jobs. *)
THEOREM CartType == RecoverySpec => []CartTypeOK
<1>1. RecoveryInv => CartTypeOK BY DEF RecoveryInv
<1> QED BY <1>1, RecoveryInvariant, PTL

(* A cart whose captured payment has been attributed (CartService) stays settled,
   unless a handler or a job overwrote what it had not read. *)
THEOREM PaidStaysSettled == RecoverySpec => []PaidCartsStaySettled
<1>1. RecoveryInv => PaidCartsStaySettled BY DEF RecoveryInv
<1> QED BY <1>1, RecoveryInvariant, PTL

(* runRecoveryJobs reminds a customer only of a cart that had been idle for long
   enough, and no more often than the policy's steps, the other jobs and the
   stopped ones account for, whatever the number of jobs that overlap. *)
LEMMA ReminderWasDue ==
    ASSUME RecoveryInv, [RecoveryNext]_recoveryVars, NEW c \in Carts \ slipped,
           reminders'[c] > reminders[c]
    PROVE  /\ cart[c].status = "ABANDONED" => cart[c].activity + AbandonAfter <= cart[c].since
           /\ reminders'[c] <= Len(StepDelays) + Cardinality(Jobs) - 1 + faults'
<1>1. CartTypeOK BY DEF RecoveryInv
<1>2. cart[c].status = "ABANDONED" => cart[c].activity + AbandonAfter <= cart[c].since
  BY DEF RecoveryInv, AbandonedWasIdle
<1>3. reminders[c] \in Nat BY <1>1, CartRows
<1>4. reminders' # reminders BY <1>3
<1>5. PICK j \in Jobs : SendReminder(j, c)
  <2>1. ASSUME NEW j \in Jobs, NEW l \in job[j].rows, MarkAbandoned(j, l) PROVE FALSE
    <3>1. reminders' = reminders \/ reminders' = [reminders EXCEPT ![l.c] = 0]
      BY <2>1 DEF MarkAbandoned
    <3>2. reminders'[c] \in {reminders[c], 0} BY <1>1, <3>1 DEF CartTypeOK
    <3> QED BY <1>3, <3>2
  <2>2. ASSUME NEW j \in Jobs, NEW k \in Carts, k # c, SendReminder(j, k) PROVE FALSE
    <3>1. reminders'[c] = reminders[c] BY <1>1, <2>2 DEF SendReminder, CartTypeOK
    <3> QED BY <1>3, <3>1
  <2>3. ASSUME NEW j \in Jobs, NEW k \in Carts, CountStep(j, k) PROVE FALSE
    BY <1>4, <2>3 DEF CountStep
  <2>4. ASSUME NEW j \in Jobs, StartRecovery(j) \/ ListAbandoned(j) \/ RecoveryStops(j) PROVE FALSE
    BY <1>4, <2>4 DEF StartRecovery, ListAbandoned, RecoveryStops
  <2>5. ASSUME PassMinute \/ ShopperSteps PROVE FALSE
    BY <1>4, <2>5 DEF PassMinute, ShopperSteps, Handles, ClampLine, ReadCart, TouchCart, SettleCart,
       RequestFails, Capture, AddItem, SetItemQuantity, CheckOut, Unsubscribe, SetRecoveryPolicy
  <2>6. ~UNCHANGED recoveryVars BY <1>4 DEF recoveryVars
  <2> QED BY <2>1, <2>2, <2>3, <2>4, <2>5, <2>6 DEF RecoveryNext, RecoverySteps
<1>6. j \notin Sent(c) /\ j \in Reminding(c) BY <1>5, SendMoves
<1>7. reminders'[c] <= reminders[c] + 1 BY <1>1, <1>5 DEF SendReminder, CartTypeOK
<1>8. reminders[c] <= cart[c].steps + Cardinality(Sent(c)) + faults
  BY DEF RecoveryInv, RemindersCounted
<1>9. cart[c].steps + Cardinality(Reminding(c)) <= Len(StepDelays) + Cardinality(Jobs) - 1
  BY <1>6 DEF RecoveryInv, StepsWithinPolicy
<1>10. Cardinality(Sent(c)) + 1 <= Cardinality(Reminding(c))
  <2>1. Sent(c) \subseteq Reminding(c) \ {j} BY <1>6 DEF Sent, Reminding
  <2>2. IsFiniteSet(Reminding(c) \ {j}) /\ Cardinality(Reminding(c) \ {j}) = Cardinality(Reminding(c)) - 1
    BY <1>6, JobSets, FS_RemoveElement
  <2>3. Cardinality(Sent(c)) <= Cardinality(Reminding(c) \ {j}) BY <2>1, <2>2, FS_Subset
  <2> QED BY <2>2, <2>3, JobSets
<1>11. reminders'[c] \in Nat BY RecoveryStepKeeps, CartRows DEF RecoveryInv, CartTypeOK
<1>12. Len(StepDelays) \in Nat BY RecoveryAssumption
<1>13. /\ faults \in Nat /\ cart[c].steps \in Nat /\ Cardinality(Jobs) \in Nat
       /\ Cardinality(Sent(c)) \in Nat /\ Cardinality(Reminding(c)) \in Nat
  BY <1>1, CartRows, JobSets
<1>14. faults' = faults BY <1>5 DEF SendReminder
<1>15. reminders'[c] <= cart[c].steps + Cardinality(Reminding(c)) + faults
  BY <1>3, <1>7, <1>8, <1>10, <1>11, <1>13
<1>16. reminders'[c] <= Len(StepDelays) + Cardinality(Jobs) - 1 + faults'
  BY <1>9, <1>11, <1>12, <1>13, <1>14, <1>15
<1> QED BY <1>2, <1>16

(* The recovery job reminds of a cart only once it had been idle for long enough, and
   once for each step while it stays abandoned, up to overlapping and broken runs. *)
THEOREM RemindersDue == RecoverySpec => RemindersAreDue
<1> DEFINE Timely == \A c \in Carts \ slipped :
         (reminders'[c] > reminders[c] /\ c \notin slipped') =>
            /\ cart[c].status = "ABANDONED" => cart[c].activity + AbandonAfter <= cart[c].since
            /\ reminders'[c] <= Len(StepDelays) + Cardinality(Jobs) - 1 + faults'
<1>1. RecoveryInv /\ [RecoveryNext]_recoveryVars => [Timely]_recoveryVars
  <2> SUFFICES ASSUME RecoveryInv, [RecoveryNext]_recoveryVars PROVE Timely
    OBVIOUS
  <2> QED BY ReminderWasDue
<1> QED BY <1>1, RecoveryInvariant, PTL DEF RecoverySpec, RemindersAreDue
----------------------------------------------------------------------------
(* Where an execution of run() stands, whom it serves, and since when. *)
RunsInOrder ==
    \A r \in Runs :
       /\ run[r].began <= hour
       /\ run[r].at \notin {"deliver", "log"} => run[r].serves = {}
       /\ run[r].serves \cap run[r].consented = {}
       /\ \A c, d \in run[r].serves : c = d

(* The runs that have found room for a message to c and not logged it, those of them
   that have delivered it, and those that may still deliver one. *)
Serving(c) == {r \in Runs : run[r].at \in {"deliver", "log"} /\ c \in run[r].serves}
Unlogged(c) == {r \in Runs : run[r].at = "log" /\ c \in run[r].serves}
MayReach(c) == {r \in Runs : \/ c \in run[r].consented
                             \/ run[r].at = "deliver" /\ c \in run[r].serves}

Logged(c, limit) == Cardinality(LoggedSince(c, Since(limit, hour)))

(* The last run that found room saw one message less than the limit; the window has
   only moved on since. *)
RoomLeft ==
    \A c \in Customers, limit \in Limits : Serving(c) # {} =>
       Logged(c, limit) + Cardinality(Serving(c)) <= HighestOf(limit) + Cardinality(Runs) - 1

(* What was delivered today is logged, about to be, or its run stopped. *)
DeliveriesLogged ==
    \A c \in Customers : today[c] <= Logged(c, "day") + Cardinality(Unlogged(c)) + stops

(* Only the runs that had loaded a customer before it opted out may still reach it. *)
LoadedBefore ==
    \A c \in Customers :
       IF consent[c] = "withdrawn" THEN late[c] + Cardinality(MayReach(c)) <= Cardinality(Runs)
       ELSE late[c] = 0

(* The worker's run passes everybody over when it began in quiet hours. *)
ServesByDay ==
    run[Worker].at \in {"deliver", "log"} => ~InQuietWindow(run[Worker].began)

EngagementInv ==
    /\ EngagementTypeOK /\ RunsInOrder
    /\ RoomLeft /\ FatigueGuard /\ DeliveriesLogged /\ LoadedBefore /\ ServesByDay

(* Division with remainder, by any length of a day. *)
LEMMA Remainder ==
    ASSUME NEW d \in Nat \ {0}, NEW h \in Int
    PROVE  /\ h \div d \in Int /\ h % d \in Int /\ 0 <= h % d /\ h % d < d
           /\ h = d * (h \div d) + (h % d)
  OBVIOUS

LEMMA Multiples ==
    ASSUME NEW d \in Nat \ {0}, NEW k \in Int
    PROVE  /\ d * k \in Int
           /\ k >= 1 => d * k >= d
           /\ k >= 0 => d * k >= 0
  OBVIOUS

LEMMA RemainderUnique ==
    ASSUME NEW d \in Nat \ {0}, NEW k \in Int, NEW s \in 0..(d - 1)
    PROVE  (d * k + s) % d = s
<1> DEFINE h == d * k + s
           q == h \div d
<1>1. h \in Int /\ s \in Int OBVIOUS
<1>2. h = d * q + (h % d) /\ q \in Int /\ h % d \in Int /\ 0 <= h % d /\ h % d < d
  BY <1>1, Remainder
<1>3. d * (q - k) = s - (h % d) /\ d * (k - q) = (h % d) - s BY <1>1, <1>2
<1>4. q - k \in Int /\ k - q \in Int BY <1>2
<1>5. ~(q - k >= 1) /\ ~(k - q >= 1) BY <1>1, <1>2, <1>3, <1>4, Multiples
<1>6. q = k BY <1>2, <1>5
<1> QED BY <1>1, <1>2, <1>6

(* The start of an hour's day does not go back, and is the same all day. *)
LEMMA DayStarts ==
    ASSUME NEW d \in Nat \ {0}, NEW a \in Int, NEW b \in Int
    PROVE  /\ a <= b => a - (a % d) <= b - (b % d)
           /\ a \div d = b \div d => a - (a % d) = b - (b % d)
<1> DEFINE p == a \div d
           q == b \div d
<1>1. a = d * p + (a % d) /\ p \in Int /\ a % d \in Int /\ 0 <= a % d /\ a % d < d BY Remainder
<1>2. b = d * q + (b % d) /\ q \in Int /\ b % d \in Int /\ 0 <= b % d /\ b % d < d BY Remainder
<1>3. a - (a % d) = d * p /\ b - (b % d) = d * q BY <1>1, <1>2
<1>4. p <= q => d * p <= d * q
  <2>1. q - p \in Int /\ d * q = d * p + d * (q - p) BY <1>1, <1>2
  <2> QED BY <1>1, <1>2, <2>1, Multiples
<1>5. p > q => d * p >= d * q + d
  <2>1. p - q \in Int /\ d * p = d * q + d * (p - q) BY <1>1, <1>2
  <2> QED BY <1>1, <1>2, <2>1, Multiples
<1>6. a <= b => p <= q BY <1>1, <1>2, <1>5, Multiples
<1> QED BY <1>3, <1>4, <1>6

(* The two ways of saying that an hour is a quiet one agree. *)
LEMMA QuietIsNight ==
    ASSUME NEW h \in Hours
    PROVE  AtNight(h) <=> InQuietWindow(h)
<1> DEFINE m == h % Day
           q == h \div Day
<1>1. /\ Day \in Nat \ {0} /\ QuietFrom \in 0..(Day - 1) /\ QuietTo \in 0..(Day - 1) /\ h \in Int
  BY EngagementAssumption DEF Hours
<1>2. h = Day * q + m /\ q \in Int /\ m \in Int /\ 0 <= m /\ m < Day BY <1>1, Remainder
<1> HIDE DEF m, q
<1>3. (h + Day - QuietFrom) % Day = IF m >= QuietFrom THEN m - QuietFrom ELSE m - QuietFrom + Day
  <2>1. CASE m >= QuietFrom
    <3>1. h + Day - QuietFrom = Day * (q + 1) + (m - QuietFrom) BY <1>1, <1>2
    <3>2. m - QuietFrom \in 0..(Day - 1) BY <1>1, <1>2, <2>1
    <3> QED BY <1>1, <1>2, <2>1, <3>1, <3>2, RemainderUnique
  <2>2. CASE m < QuietFrom
    <3> DEFINE s == m - QuietFrom + Day
    <3>1. h + Day - QuietFrom = Day * q + s BY <1>1, <1>2
    <3>2. s \in 0..(Day - 1) BY <1>1, <1>2, <2>2
    <3>3. (Day * q + s) % Day = s
      <4> HIDE DEF s
      <4> QED BY <1>1, <1>2, <3>2, RemainderUnique
    <3> QED BY <1>1, <1>2, <2>2, <3>1, <3>3
  <2> QED BY <1>1, <1>2, <2>1, <2>2
<1>4. (QuietTo + Day - QuietFrom) % Day =
         IF QuietTo >= QuietFrom THEN QuietTo - QuietFrom ELSE QuietTo - QuietFrom + Day
  <2>1. CASE QuietTo >= QuietFrom
    <3>1. QuietTo + Day - QuietFrom = Day * 1 + (QuietTo - QuietFrom) BY <1>1
    <3>2. QuietTo - QuietFrom \in 0..(Day - 1) BY <1>1, <2>1
    <3> QED BY <1>1, <2>1, <3>1, <3>2, RemainderUnique
  <2>2. CASE QuietTo < QuietFrom
    <3> DEFINE s == QuietTo - QuietFrom + Day
    <3>1. QuietTo + Day - QuietFrom = s /\ s \in 0..(Day - 1) BY <1>1, <2>2
    <3>2. s % Day = s
      <4> HIDE DEF s
      <4>1. (Day * 0 + s) % Day = s BY <1>1, <3>1, RemainderUnique
      <4>2. Day * 0 + s = s BY <1>1, <3>1
      <4> QED BY <4>1, <4>2
    <3> QED BY <1>1, <2>2, <3>1, <3>2
  <2> QED BY <1>1, <2>1, <2>2
<1>5. AtNight(h) <=> (IF m >= QuietFrom THEN m - QuietFrom ELSE m - QuietFrom + Day)
                     < (IF QuietTo >= QuietFrom THEN QuietTo - QuietFrom ELSE QuietTo - QuietFrom + Day)
  BY <1>3, <1>4 DEF AtNight
<1>6. InQuietWindow(h) <=> IF QuietFrom > QuietTo THEN m >= QuietFrom \/ m < QuietTo
                           ELSE m >= QuietFrom /\ m < QuietTo
  BY DEF InQuietWindow, m
<1> QED BY <1>1, <1>2, <1>5, <1>6
----------------------------------------------------------------------------
(* The windows in which messages are counted move on with the clock, *)
LEMMA WindowsMove ==
    ASSUME NEW limit \in Limits, NEW a \in Hours, NEW b \in Hours
    PROVE  /\ Since(limit, a) \in Int /\ Since(limit, b) \in Int
           /\ a <= b => Since(limit, a) <= Since(limit, b)
<1>1. a \in Int /\ b \in Int /\ Day \in Nat \ {0} /\ Week \in Int /\ MinGap \in Int
  BY EngagementAssumption DEF Hours
<1>2. CASE limit = "week" BY <1>1, <1>2 DEF Since
<1>3. CASE limit = "day"
  <2>1. Since(limit, a) = a - (a % Day) /\ Since(limit, b) = b - (b % Day) BY <1>3 DEF Since
  <2>2. a % Day \in Int /\ b % Day \in Int BY <1>1, Remainder
  <2> QED BY <1>1, <2>1, <2>2, DayStarts
<1>4. CASE limit = "gap" BY <1>1, <1>4 DEF Since
<1> QED BY <1>2, <1>3, <1>4 DEF Limits

(* and a later window holds no more of them. *)
LEMMA LoggedSets ==
    ASSUME EngagementTypeOK, NEW c \in Customers, NEW from \in Int, NEW later \in Int, from <= later
    PROVE  /\ IsFiniteSet(LoggedSince(c, from)) /\ Cardinality(LoggedSince(c, from)) \in Nat
           /\ Cardinality(LoggedSince(c, later)) \in Nat
           /\ Cardinality(LoggedSince(c, later)) <= Cardinality(LoggedSince(c, from))
<1>1. messages \in Seq(Message) /\ Len(messages) \in Nat BY DEF EngagementTypeOK
<1>2. IsFiniteSet(1..Len(messages)) BY <1>1, FS_Interval
<1>3. LoggedSince(c, from) \subseteq 1..Len(messages) BY DEF LoggedSince
<1>4. IsFiniteSet(LoggedSince(c, from)) BY <1>2, <1>3, FS_Subset
<1>5. \A i \in 1..Len(messages) : messages[i].at \in Int
  <2>1. \A i \in 1..Len(messages) : messages[i] \in Message BY <1>1
  <2>2. \A x \in Message : x.at \in Int BY EngagementAssumption DEF Message, Hours
  <2> QED BY <2>1, <2>2
<1>6. LoggedSince(c, later) \subseteq LoggedSince(c, from) BY <1>5 DEF LoggedSince
<1>7. /\ IsFiniteSet(LoggedSince(c, later))
      /\ Cardinality(LoggedSince(c, later)) <= Cardinality(LoggedSince(c, from))
  BY <1>4, <1>6, FS_Subset
<1> QED BY <1>4, <1>7, FS_CardinalityType

LEMMA LoggedNat ==
    ASSUME EngagementTypeOK, NEW c \in Customers, NEW limit \in Limits
    PROVE  Logged(c, limit) \in Nat
<1>1. hour \in Hours BY DEF EngagementTypeOK
<1>2. Since(limit, hour) \in Int BY <1>1, WindowsMove
<1> QED BY <1>2, LoggedSets DEF Logged

LEMMA RunSets ==
    \A c \in Customers :
       /\ IsFiniteSet(Serving(c)) /\ IsFiniteSet(Unlogged(c)) /\ IsFiniteSet(MayReach(c))
       /\ Cardinality(Serving(c)) \in Nat /\ Cardinality(Unlogged(c)) \in Nat
       /\ Cardinality(MayReach(c)) \in Nat /\ Cardinality(Runs) \in Nat /\ Cardinality(Runs) >= 1
       /\ Cardinality(Serving(c)) <= Cardinality(Runs) /\ Cardinality(MayReach(c)) <= Cardinality(Runs)
       /\ Cardinality(Unlogged(c)) <= Cardinality(Serving(c))
<1> TAKE c \in Customers
<1>1. IsFiniteSet(Runs) /\ Runs # {} BY EngagementAssumption
<1>2. Serving(c) \subseteq Runs /\ Unlogged(c) \subseteq Serving(c) /\ MayReach(c) \subseteq Runs
  BY DEF Serving, Unlogged, MayReach
<1>3. Cardinality(Runs) \in Nat /\ Cardinality(Runs) # 0 BY <1>1, FS_CardinalityType, FS_EmptySet
<1>4. IsFiniteSet(Serving(c)) /\ Cardinality(Serving(c)) <= Cardinality(Runs) BY <1>1, <1>2, FS_Subset
<1>5. IsFiniteSet(MayReach(c)) /\ Cardinality(MayReach(c)) <= Cardinality(Runs) BY <1>1, <1>2, FS_Subset
<1>6. IsFiniteSet(Unlogged(c)) /\ Cardinality(Unlogged(c)) <= Cardinality(Serving(c)) BY <1>2, <1>4, FS_Subset
<1> QED BY <1>3, <1>4, <1>5, <1>6, FS_CardinalityType

LEMMA HighestNat ==
    \A limit \in Limits : HighestOf(limit) \in Nat
  BY EngagementAssumption DEF HighestOf, Limits
----------------------------------------------------------------------------
LEMMA EngagementInitInv ==
    ASSUME EngagementInit
    PROVE  EngagementInv
<1>1. 0 \in Hours BY EngagementAssumption DEF Hours
<1>2. NotRunning \in EngagementRun BY <1>1 DEF NotRunning, EngagementRun
<1>3. EngagementTypeOK
  <2>1. messages \in Seq(Message) BY DEF EngagementInit
  <2>2. policy \in [enabled : BOOLEAN, last : Hours \cup {NeverRun}] BY DEF EngagementInit
  <2>3. consent \in [Customers -> {"never", "given", "withdrawn"}] BY DEF EngagementInit
  <2> QED BY <1>1, <1>2, <2>1, <2>2, <2>3 DEF EngagementInit, EngagementTypeOK
<1>4. RunsInOrder /\ ServesByDay
  BY <1>1, EngagementAssumption DEF EngagementInit, NotRunning, RunsInOrder, ServesByDay
<1>5. \A c \in Customers : Serving(c) = {} BY DEF EngagementInit, NotRunning, Serving
<1>6. RoomLeft BY <1>5 DEF RoomLeft
<1>7. FatigueGuard
  <2> SUFFICES ASSUME NEW c \in Customers, NEW limit \in Limits
               PROVE  Logged(c, limit) <= HighestOf(limit) + Cardinality(Runs) - 1
    BY DEF FatigueGuard, Logged
  <2>1. LoggedSince(c, Since(limit, hour)) = {} BY DEF EngagementInit, LoggedSince
  <2> QED BY <2>1, FS_EmptySet, RunSets, HighestNat DEF Logged
<1>8. DeliveriesLogged
  <2> SUFFICES ASSUME NEW c \in Customers
               PROVE  today[c] <= Logged(c, "day") + Cardinality(Unlogged(c)) + stops
    BY DEF DeliveriesLogged
  <2>1. Logged(c, "day") \in Nat BY <1>3, LoggedNat DEF Limits
  <2> QED BY <2>1, RunSets DEF EngagementInit
<1>9. LoadedBefore BY DEF EngagementInit, LoadedBefore
<1> QED BY <1>3, <1>4, <1>6, <1>7, <1>8, <1>9 DEF EngagementInv

LEMMA RunRows ==
    ASSUME EngagementTypeOK, NEW r \in Runs
    PROVE  /\ run[r] \in EngagementRun /\ run[r].began \in Hours /\ run[r].todo \subseteq Customers
           /\ run[r].consented \subseteq Customers /\ run[r].serves \subseteq Customers
           /\ Hours \subseteq Nat /\ hour \in Hours /\ 0 \in Hours
  BY EngagementAssumption DEF EngagementTypeOK, EngagementRun, Hours

(* A run goes on to its next customer, or is over. *)
LEMMA EngageGoesOn ==
    ASSUME NEW r \in Runs, NEW began \in Hours, NEW consented \in SUBSET Customers,
           NEW todo \in SUBSET Customers
    PROVE  /\ Goes(r, began, consented, todo) \in EngagementRun
           /\ Goes(r, began, consented, todo).at \in {"next", "stamp", "idle"}
           /\ Goes(r, began, consented, todo).began \in {began, 0}
           /\ Goes(r, began, consented, todo).consented \subseteq consented
           /\ Goes(r, began, consented, todo).serves = {}
<1>1. 0 \in Hours BY EngagementAssumption DEF Hours
<1>2. CASE todo # {} BY <1>2 DEF Goes, EngagementRun
<1>3. CASE todo = {} BY <1>1, <1>3 DEF Goes, NotRunning, EngagementRun
<1> QED BY <1>2, <1>3

(* Run r becomes x: it alone joins or leaves those that serve a customer. *)
LEMMA RunMoves ==
    ASSUME EngagementTypeOK, NEW r \in Runs, NEW x \in EngagementRun, run' = [run EXCEPT ![r] = x]
    PROVE  /\ run' \in [Runs -> EngagementRun] /\ run'[r] = x
           /\ \A i \in Runs \ {r} : run'[i] = run[i]
           /\ \A c \in Customers :
                 /\ Serving(c)' = IF x.at \in {"deliver", "log"} /\ c \in x.serves
                                  THEN Serving(c) \cup {r} ELSE Serving(c) \ {r}
                 /\ Unlogged(c)' = IF x.at = "log" /\ c \in x.serves
                                   THEN Unlogged(c) \cup {r} ELSE Unlogged(c) \ {r}
                 /\ MayReach(c)' = IF c \in x.consented \/ (x.at = "deliver" /\ c \in x.serves)
                                   THEN MayReach(c) \cup {r} ELSE MayReach(c) \ {r}
<1>1. /\ run' \in [Runs -> EngagementRun] /\ run'[r] = x
      /\ \A i \in Runs \ {r} : run'[i] = run[i]
  BY DEF EngagementTypeOK
<1>2. ASSUME NEW c \in Customers
      PROVE  Serving(c)' = IF x.at \in {"deliver", "log"} /\ c \in x.serves
                           THEN Serving(c) \cup {r} ELSE Serving(c) \ {r}
  BY <1>1 DEF Serving
<1>3. ASSUME NEW c \in Customers
      PROVE  Unlogged(c)' = IF x.at = "log" /\ c \in x.serves
                            THEN Unlogged(c) \cup {r} ELSE Unlogged(c) \ {r}
  BY <1>1 DEF Unlogged
<1>4. ASSUME NEW c \in Customers
      PROVE  MayReach(c)' = IF c \in x.consented \/ (x.at = "deliver" /\ c \in x.serves)
                            THEN MayReach(c) \cup {r} ELSE MayReach(c) \ {r}
  BY <1>1 DEF MayReach
<1> QED BY <1>1, <1>2, <1>3, <1>4

(* Nothing of the log and the runs changes: the merchant's and the customers' steps. *)
LEMMA RunsStay ==
    ASSUME UNCHANGED <<run, messages, hour>>
    PROVE  \A c \in Customers :
              /\ Serving(c)' = Serving(c) /\ Unlogged(c)' = Unlogged(c) /\ MayReach(c)' = MayReach(c)
              /\ \A limit \in Limits : Logged(c, limit)' = Logged(c, limit)
  BY DEF Serving, Unlogged, MayReach, Logged, LoggedSince

LEMMA SettingsKeep ==
    ASSUME EngagementInv, EngagementTypeOK', UNCHANGED <<run, messages, hour, today, stops>>, LoadedBefore'
    PROVE  EngagementInv'
<1>1. RunsInOrder' /\ ServesByDay' BY DEF EngagementInv, RunsInOrder, ServesByDay
<1>2. RoomLeft' /\ DeliveriesLogged'
  <2>1. "day" \in Limits BY DEF Limits
  <2> QED BY <2>1, RunsStay DEF EngagementInv, RoomLeft, DeliveriesLogged
<1>3. FatigueGuard' BY DEF EngagementInv, FatigueGuard, LoggedSince
<1> QED BY <1>1, <1>2, <1>3 DEF EngagementInv

LEMMA ConsentKeeps ==
    ASSUME EngagementInv, NEW k \in Customers, NEW v \in {"given", "withdrawn"}, SetConsent(k, v)
    PROVE  EngagementInv'
<1>1. EngagementTypeOK BY DEF EngagementInv
<1>2. /\ consent' = [consent EXCEPT ![k] = v] /\ late' = [late EXCEPT ![k] = 0]
      /\ changes' = changes + 1 /\ UNCHANGED <<hour, policy, messages, run, today, stops>>
  BY DEF SetConsent
<1>3. EngagementTypeOK' BY <1>1, <1>2 DEF EngagementTypeOK
<1>4. LoadedBefore'
  <2> SUFFICES ASSUME NEW c \in Customers
               PROVE  IF consent'[c] = "withdrawn"
                      THEN late'[c] + Cardinality(MayReach(c)) <= Cardinality(Runs)
                      ELSE late'[c] = 0
    BY <1>2, RunsStay DEF LoadedBefore
  <2>1. CASE c = k
    <3>1. late'[c] = 0 BY <1>1, <1>2, <2>1 DEF EngagementTypeOK
    <3> QED BY <3>1, RunSets
  <2>2. CASE c # k BY <1>1, <1>2, <2>2 DEF EngagementInv, LoadedBefore, EngagementTypeOK
  <2> QED BY <2>1, <2>2
<1> QED BY <1>2, <1>3, <1>4, SettingsKeep

LEMMA PolicyKeeps ==
    ASSUME EngagementInv,
           \/ UNCHANGED engagementVars
           \/ \E b \in BOOLEAN : SetEngagementPolicy(b)
    PROVE  EngagementInv'
<1>1. EngagementTypeOK BY DEF EngagementInv
<1>2. UNCHANGED <<hour, consent, messages, run, today, late, stops, changes>>
  BY DEF engagementVars, SetEngagementPolicy
<1>3. policy' \in [enabled : BOOLEAN, last : Hours \cup {NeverRun}]
  BY <1>1 DEF engagementVars, SetEngagementPolicy, EngagementTypeOK
<1>4. EngagementTypeOK' BY <1>1, <1>2, <1>3 DEF EngagementTypeOK
<1>5. LoadedBefore' BY <1>2, RunsStay DEF EngagementInv, LoadedBefore
<1> QED BY <1>2, <1>4, <1>5, SettingsKeep

(* An hour passes: the windows move on, a new day starts from nothing. *)
LEMMA HourKeeps ==
    ASSUME EngagementInv, PassHour
    PROVE  EngagementInv'
<1>1. EngagementTypeOK /\ hour \in Hours BY DEF EngagementInv, EngagementTypeOK
<1>2. /\ hour' = hour + 1 /\ hour < LastHour
      /\ today' = IF DayOf(hour') = DayOf(hour) THEN today ELSE [c \in Customers |-> 0]
      /\ UNCHANGED <<consent, policy, messages, run, late, stops, changes>>
  BY DEF PassHour
<1>3. hour' \in Hours /\ hour <= hour' /\ Hours \subseteq Nat
  BY <1>1, <1>2, EngagementAssumption DEF Hours
<1>4. EngagementTypeOK' BY <1>1, <1>2, <1>3 DEF EngagementTypeOK
<1>5. RunsInOrder'
  <2>1. \A r \in Runs : run[r].began \in Nat BY <1>1, <1>3, RunRows
  <2>2. hour \in Nat /\ hour' \in Nat BY <1>1, <1>3
  <2> QED BY <1>2, <1>3, <2>1, <2>2 DEF EngagementInv, RunsInOrder
<1>6. ServesByDay' BY <1>2 DEF EngagementInv, ServesByDay
<1>7. \A c \in Customers : Serving(c)' = Serving(c) /\ Unlogged(c)' = Unlogged(c) /\ MayReach(c)' = MayReach(c)
  BY <1>2 DEF Serving, Unlogged, MayReach
<1>8. \A c \in Customers, limit \in Limits :
         /\ Logged(c, limit)' <= Logged(c, limit)
         /\ Logged(c, limit) \in Nat /\ Logged(c, limit)' \in Nat
  <2> TAKE c \in Customers, limit \in Limits
  <2>1. /\ Since(limit, hour) \in Int /\ Since(limit, hour') \in Int
        /\ Since(limit, hour) <= Since(limit, hour')
    BY <1>1, <1>3, WindowsMove
  <2>2. Logged(c, limit)' = Cardinality(LoggedSince(c, Since(limit, hour')))
    BY <1>2 DEF Logged, LoggedSince
  <2> QED BY <1>1, <2>1, <2>2, LoggedSets DEF Logged
<1>9. RoomLeft'
  <2> SUFFICES ASSUME NEW c \in Customers, NEW limit \in Limits, Serving(c) # {}
               PROVE  Logged(c, limit)' + Cardinality(Serving(c)) <= HighestOf(limit) + Cardinality(Runs) - 1
    BY <1>7 DEF RoomLeft, HighestOf
  <2>1. Logged(c, limit) + Cardinality(Serving(c)) <= HighestOf(limit) + Cardinality(Runs) - 1
    BY DEF EngagementInv, RoomLeft
  <2> QED BY <1>8, <2>1, RunSets, HighestNat
<1>10. FatigueGuard'
  <2> SUFFICES ASSUME NEW c \in Customers, NEW limit \in Limits
               PROVE  Logged(c, limit)' <= HighestOf(limit) + Cardinality(Runs) - 1
    BY DEF FatigueGuard, Logged, HighestOf
  <2>1. Logged(c, limit) <= HighestOf(limit) + Cardinality(Runs) - 1
    BY DEF EngagementInv, FatigueGuard, Logged
  <2> QED BY <1>8, <2>1, RunSets, HighestNat
<1>11. DeliveriesLogged'
  <2> SUFFICES ASSUME NEW c \in Customers
               PROVE  today'[c] <= Logged(c, "day")' + Cardinality(Unlogged(c)) + stops
    BY <1>2, <1>7 DEF DeliveriesLogged
  <2>1. "day" \in Limits /\ stops \in Nat BY <1>1 DEF Limits, EngagementTypeOK
  <2>2. CASE DayOf(hour') = DayOf(hour)
    <3>1. hour \in Int /\ hour' \in Int /\ Day \in Nat \ {0} BY <1>1, <1>3, EngagementAssumption
    <3>2. Since("day", hour') = Since("day", hour)
      BY <2>2, <3>1, DayStarts DEF Since, DayOf
    <3>3. Logged(c, "day")' = Logged(c, "day") BY <1>2, <3>2 DEF Logged, LoggedSince
    <3> QED BY <1>2, <2>2, <3>3 DEF EngagementInv, DeliveriesLogged
  <2>3. CASE DayOf(hour') # DayOf(hour)
    <3>1. today'[c] = 0 BY <1>2, <2>3
    <3> QED BY <1>8, <2>1, <3>1, RunSets
  <2> QED BY <2>2, <2>3
<1>12. LoadedBefore' BY <1>2, <1>7 DEF EngagementInv, LoadedBefore
<1> QED BY <1>4, <1>5, <1>6, <1>9, <1>10, <1>11, <1>12 DEF EngagementInv

(* What every step of a run leaves alone, and the order it keeps. *)
LEMMA RunStepOrder ==
    ASSUME EngagementInv, NEW r \in Runs, NEW x \in EngagementRun, run' = [run EXCEPT ![r] = x],
           UNCHANGED hour,
           x.began <= hour, x.at \notin {"deliver", "log"} => x.serves = {},
           x.serves \cap x.consented = {}, \A c, d \in x.serves : c = d,
           r = Worker /\ x.at \in {"deliver", "log"} => ~InQuietWindow(x.began)
    PROVE  RunsInOrder' /\ ServesByDay'
<1>1. run'[r] = x /\ \A i \in Runs \ {r} : run'[i] = run[i]
  BY RunMoves DEF EngagementInv
<1>2. RunsInOrder' BY <1>1 DEF EngagementInv, RunsInOrder
<1>3. ServesByDay' BY <1>1, EngagementAssumption DEF EngagementInv, ServesByDay
<1> QED BY <1>2, <1>3

(* A run that delivers to nobody now: it passes a customer over, goes on, ends or
   stops.  If it had delivered and not logged, it counts among those that stopped. *)
LEMMA PassesOver ==
    ASSUME EngagementInv, EngagementTypeOK', NEW r \in Runs, NEW x \in EngagementRun,
           run' = [run EXCEPT ![r] = x], UNCHANGED <<hour, consent, messages, today, late>>,
           x.at \notin {"deliver", "log"}, x.serves = {}, x.began <= hour,
           \A c \in x.consented : c \in run[r].consented \/ consent[c] # "withdrawn",
           stops' = stops \/ stops' = stops + 1,
           run[r].at = "log" => stops' = stops + 1
    PROVE  EngagementInv'
<1>1. EngagementTypeOK BY DEF EngagementInv
<1>2. RunsInOrder' /\ ServesByDay' BY RunStepOrder
<1>3. \A c \in Customers :
         /\ Serving(c)' = Serving(c) \ {r}
         /\ Unlogged(c)' = Unlogged(c) \ {r}
         /\ consent[c] = "withdrawn" => MayReach(c)' \subseteq MayReach(c)
  <2> TAKE c \in Customers
  <2>1. Serving(c)' = Serving(c) \ {r} /\ Unlogged(c)' = Unlogged(c) \ {r} BY <1>1, RunMoves
  <2>2. MayReach(c)' = IF c \in x.consented THEN MayReach(c) \cup {r} ELSE MayReach(c) \ {r}
    BY <1>1, RunMoves
  <2>3. c \in run[r].consented => r \in MayReach(c) BY DEF MayReach
  <2> QED BY <2>1, <2>2, <2>3
<1>4. \A c \in Customers :
         /\ Cardinality(Serving(c)') <= Cardinality(Serving(c))
         /\ Cardinality(Serving(c)') \in Nat /\ Cardinality(Unlogged(c)') \in Nat
         /\ Cardinality(Unlogged(c)') >= Cardinality(Unlogged(c)) - 1
         /\ run[r].at # "log" => Unlogged(c)' = Unlogged(c)
  <2> TAKE c \in Customers
  <2>1. /\ Cardinality(Serving(c)') <= Cardinality(Serving(c)) /\ IsFiniteSet(Serving(c)')
        /\ Cardinality(Unlogged(c)') >= Cardinality(Unlogged(c)) - 1 /\ IsFiniteSet(Unlogged(c)')
    <3>1. /\ Cardinality(Serving(c) \ {r}) = IF r \in Serving(c) THEN Cardinality(Serving(c)) - 1
                                              ELSE Cardinality(Serving(c))
          /\ Cardinality(Unlogged(c) \ {r}) = IF r \in Unlogged(c) THEN Cardinality(Unlogged(c)) - 1
                                               ELSE Cardinality(Unlogged(c))
          /\ IsFiniteSet(Serving(c) \ {r}) /\ IsFiniteSet(Unlogged(c) \ {r})
      BY RunSets, FS_RemoveElement
    <3>2. Serving(c)' = Serving(c) \ {r} /\ Unlogged(c)' = Unlogged(c) \ {r} BY <1>3
    <3>3. Cardinality(Serving(c)) \in Nat /\ Cardinality(Unlogged(c)) \in Nat BY RunSets
    <3> QED BY <3>1, <3>2, <3>3
  <2>2. run[r].at # "log" => r \notin Unlogged(c) BY DEF Unlogged
  <2> QED BY <1>3, <2>1, <2>2, FS_CardinalityType
<1>5. \A c \in Customers, limit \in Limits : Logged(c, limit)' = Logged(c, limit) /\ Logged(c, limit) \in Nat
  BY <1>1, LoggedNat DEF Logged, LoggedSince
<1>6. RoomLeft'
  <2> SUFFICES ASSUME NEW c \in Customers, NEW limit \in Limits, Serving(c)' # {}
               PROVE  Logged(c, limit) + Cardinality(Serving(c)') <= HighestOf(limit) + Cardinality(Runs) - 1
    BY <1>5 DEF RoomLeft, HighestOf
  <2>1. Serving(c) # {} BY <1>3
  <2>2. Logged(c, limit) + Cardinality(Serving(c)) <= HighestOf(limit) + Cardinality(Runs) - 1
    BY <2>1 DEF EngagementInv, RoomLeft
  <2> QED BY <1>4, <1>5, <2>2, RunSets, HighestNat
<1>7. FatigueGuard' BY DEF EngagementInv, FatigueGuard, LoggedSince
<1>8. DeliveriesLogged'
  <2> SUFFICES ASSUME NEW c \in Customers
               PROVE  today[c] <= Logged(c, "day") + Cardinality(Unlogged(c)') + stops'
    BY <1>5 DEF DeliveriesLogged, Limits
  <2>1. today[c] <= Logged(c, "day") + Cardinality(Unlogged(c)) + stops
    BY DEF EngagementInv, DeliveriesLogged
  <2>2. "day" \in Limits BY DEF Limits
  <2>3. Logged(c, "day") \in Nat /\ today[c] \in Nat /\ stops \in Nat
    BY <1>1, <1>5, <2>2 DEF EngagementTypeOK
  <2>4. CASE run[r].at = "log" BY <1>4, <2>1, <2>3, <2>4, RunSets
  <2>5. CASE run[r].at # "log"
    <3>1. Cardinality(Unlogged(c)') = Cardinality(Unlogged(c)) BY <1>4, <2>5
    <3> QED BY <2>1, <2>3, <3>1, RunSets
  <2> QED BY <2>4, <2>5
<1>9. LoadedBefore'
  <2> SUFFICES ASSUME NEW c \in Customers, consent[c] = "withdrawn"
               PROVE  late[c] + Cardinality(MayReach(c)') <= Cardinality(Runs)
    BY DEF EngagementInv, LoadedBefore
  <2>1. late[c] + Cardinality(MayReach(c)) <= Cardinality(Runs) BY DEF EngagementInv, LoadedBefore
  <2>2. /\ IsFiniteSet(MayReach(c)') /\ Cardinality(MayReach(c)') <= Cardinality(MayReach(c))
    BY <1>3, RunSets, FS_Subset
  <2>3. Cardinality(MayReach(c)') \in Nat /\ late[c] \in Nat
    BY <1>1, <2>2, FS_CardinalityType DEF EngagementTypeOK
  <2> QED BY <2>1, <2>2, <2>3, RunSets
<1> QED BY <1>2, <1>6, <1>7, <1>8, <1>9 DEF EngagementInv

LEMMA BeginKeeps ==
    ASSUME EngagementInv, NEW r \in Runs, NEW audience \in SUBSET Customers, BeginEngagement(r, audience)
    PROVE  EngagementInv'
<1> DEFINE willing == {c \in Customers : Reachable(c)}
           x == Goes(r, hour, willing, audience)
<1>1. EngagementTypeOK /\ hour \in Hours /\ 0 <= hour
  BY RunRows DEF EngagementInv, EngagementTypeOK, Hours
<1>2. /\ run' = [run EXCEPT ![r] = x] /\ run[r].at = "idle"
      /\ UNCHANGED <<hour, consent, policy, messages, today, late, stops, changes>>
  BY DEF BeginEngagement
<1>3. /\ x \in EngagementRun /\ x.at \in {"next", "stamp", "idle"} /\ x.began \in {hour, 0}
      /\ x.consented \subseteq willing /\ x.serves = {}
  BY <1>1, EngageGoesOn
<1>4. \A c \in x.consented : consent[c] # "withdrawn" BY <1>3 DEF Reachable
<1> HIDE DEF x
<1>5. x.began <= hour BY <1>1, <1>3 DEF Hours
<1>6. EngagementTypeOK'
  <2>1. run' \in [Runs -> EngagementRun] BY <1>1, <1>2, <1>3 DEF EngagementTypeOK
  <2> QED BY <1>1, <1>2, <2>1 DEF EngagementTypeOK
<1> QED BY <1>2, <1>3, <1>4, <1>5, <1>6, PassesOver

(* A run that goes on to its next customer, or ends. *)
LEMMA ContinuesOver ==
    ASSUME EngagementInv, NEW r \in Runs, NEW todo \in SUBSET Customers
    PROVE  /\ Continues(r, todo) \in EngagementRun
           /\ Continues(r, todo).at \in {"next", "stamp", "idle"}
           /\ Continues(r, todo).began <= hour /\ Continues(r, todo).serves = {}
           /\ Continues(r, todo).consented \subseteq run[r].consented
<1>1. EngagementTypeOK BY DEF EngagementInv
<1>2. /\ run[r].began \in Hours /\ run[r].consented \in SUBSET Customers
      /\ Hours \subseteq Nat /\ hour \in Hours
  BY <1>1, RunRows
<1>3. run[r].began <= hour BY DEF EngagementInv, RunsInOrder
<1> DEFINE x == Goes(r, run[r].began, run[r].consented, todo)
<1>4. /\ x \in EngagementRun /\ x.at \in {"next", "stamp", "idle"} /\ x.began \in {run[r].began, 0}
      /\ x.consented \subseteq run[r].consented /\ x.serves = {}
  BY <1>2, EngageGoesOn
<1>5. Continues(r, todo) = x BY DEF Continues
<1> HIDE DEF x
<1>6. x.began <= hour BY <1>2, <1>3, <1>4
<1> QED BY <1>4, <1>5, <1>6

LEMMA PassingKeeps ==
    ASSUME EngagementInv, NEW r \in Runs,
           NotDelivered(r) \/ StampRun(r) \/ RunThrows(r) \/ RunDies(r)
    PROVE  EngagementInv'
<1>1. EngagementTypeOK /\ stops \in Nat /\ run[r].todo \in SUBSET Customers /\ {} \in SUBSET Customers
  BY RunRows DEF EngagementInv, EngagementTypeOK
<1>2. UNCHANGED <<hour, consent, messages, today, late, changes>>
  BY DEF NotDelivered, StampRun, RunThrows, RunDies
<1>3. /\ stops' = stops \/ stops' = stops + 1
      /\ run[r].at = "log" => stops' = stops + 1
  BY DEF NotDelivered, StampRun, RunThrows, RunDies
<1>4. PICK x \in EngagementRun :
         /\ run' = [run EXCEPT ![r] = x] /\ x.at \in {"next", "stamp", "idle"}
         /\ x.began <= hour /\ x.serves = {} /\ x.consented \subseteq run[r].consented
  <2>1. CASE NotDelivered(r) BY <1>1, <2>1, ContinuesOver DEF NotDelivered
  <2>2. CASE RunThrows(r) BY <1>1, <2>2, ContinuesOver DEF RunThrows
  <2>3. CASE StampRun(r) \/ RunDies(r)
    <3>1. NotRunning \in EngagementRun /\ NotRunning.at = "idle" /\ NotRunning.began <= hour
          /\ NotRunning.serves = {} /\ NotRunning.consented = {}
      BY <1>1, RunRows DEF NotRunning, EngagementRun
    <3> QED BY <2>3, <3>1 DEF StampRun, RunDies
  <2> QED BY <2>1, <2>2, <2>3
<1>5. policy' \in [enabled : BOOLEAN, last : Hours \cup {NeverRun}]
  BY <1>1, RunRows DEF NotDelivered, StampRun, RunThrows, RunDies, EngagementTypeOK
<1>6. EngagementTypeOK'
  <2>1. run' \in [Runs -> EngagementRun] BY <1>1, <1>4 DEF EngagementTypeOK
  <2> QED BY <1>1, <1>2, <1>3, <1>5, <2>1 DEF EngagementTypeOK
<1> QED BY <1>2, <1>3, <1>4, <1>6, PassesOver

(* A run finds room for a message: its own count, taken over a window that began no
   later, is below the limit. *)
LEMMA ServeKeeps ==
    ASSUME EngagementInv, NEW r \in Runs, NEW k \in Customers, NEW t \in Temperatures,
           NEW reached \in BOOLEAN, Serve(r, k, t, reached)
    PROVE  EngagementInv'
<1> DEFINE quiet == r = Worker /\ InQuietWindow(run[r].began)
           sends == reached /\ k \in run[r].consented /\ ~quiet /\ WithinCaps(k, t, run[r].began)
           x == [run[r] EXCEPT !.at = "deliver", !.serves = {k}, !.todo = @ \ {k}, !.consented = @ \ {k}]
<1>1. EngagementTypeOK BY DEF EngagementInv
<1>2. /\ run[r] \in EngagementRun /\ run[r].began \in Hours /\ run[r].todo \subseteq Customers
      /\ run[r].consented \subseteq Customers /\ run[r].serves \subseteq Customers
      /\ Hours \subseteq Nat /\ hour \in Hours
  BY <1>1, RunRows
<1>3. /\ run' = [run EXCEPT ![r] = IF sends THEN x ELSE Continues(r, run[r].todo \ {k})]
      /\ run[r].at = "next"
      /\ UNCHANGED <<hour, consent, policy, messages, today, late, stops, changes>>
  BY DEF Serve
<1>4. CASE ~sends
  <2> DEFINE y == Continues(r, run[r].todo \ {k})
  <2>1. run[r].todo \ {k} \in SUBSET Customers BY <1>2
  <2>2. /\ y \in EngagementRun /\ y.at \in {"next", "stamp", "idle"} /\ y.began <= hour
        /\ y.serves = {} /\ y.consented \subseteq run[r].consented
    BY <2>1, ContinuesOver
  <2>3. run' = [run EXCEPT ![r] = y] BY <1>3, <1>4
  <2> HIDE DEF y
  <2>4. EngagementTypeOK'
    <3>1. run' \in [Runs -> EngagementRun] BY <1>1, <2>2, <2>3 DEF EngagementTypeOK
    <3> QED BY <1>1, <1>3, <3>1 DEF EngagementTypeOK
  <2> QED BY <1>3, <2>2, <2>3, <2>4, PassesOver
<1>5. CASE sends
  <2>1. /\ x \in EngagementRun /\ x.at = "deliver" /\ x.serves = {k} /\ x.began = run[r].began
        /\ x.consented = run[r].consented \ {k}
    BY <1>2 DEF EngagementRun
  <2>2. run' = [run EXCEPT ![r] = x] BY <1>3, <1>5
  <2> HIDE DEF x
  <2>3. EngagementTypeOK'
    <3>1. run' \in [Runs -> EngagementRun] BY <1>1, <2>1, <2>2 DEF EngagementTypeOK
    <3> QED BY <1>1, <1>3, <3>1 DEF EngagementTypeOK
  <2>4. RunsInOrder' /\ ServesByDay'
    <3>1. x.began <= hour BY <2>1 DEF EngagementInv, RunsInOrder
    <3> QED BY <1>3, <1>5, <2>1, <2>2, <3>1, RunStepOrder
  <2>5. \A c \in Customers :
           /\ Unlogged(c)' = Unlogged(c)
           /\ MayReach(c)' = MayReach(c)
           /\ c # k => Serving(c)' = Serving(c)
    <3> TAKE c \in Customers
    <3>1. r \notin Unlogged(c) /\ r \notin Serving(c) BY <1>3 DEF Unlogged, Serving
    <3>2. r \in MayReach(c) <=> c \in run[r].consented BY <1>3 DEF MayReach
    <3>3. /\ Serving(c)' = IF c = k THEN Serving(c) \cup {r} ELSE Serving(c) \ {r}
          /\ Unlogged(c)' = Unlogged(c) \ {r}
          /\ MayReach(c)' = IF c \in x.consented \/ c = k THEN MayReach(c) \cup {r} ELSE MayReach(c) \ {r}
      <4>1. /\ Serving(c)' = IF x.at \in {"deliver", "log"} /\ c \in x.serves
                             THEN Serving(c) \cup {r} ELSE Serving(c) \ {r}
            /\ Unlogged(c)' = IF x.at = "log" /\ c \in x.serves
                              THEN Unlogged(c) \cup {r} ELSE Unlogged(c) \ {r}
            /\ MayReach(c)' = IF c \in x.consented \/ (x.at = "deliver" /\ c \in x.serves)
                              THEN MayReach(c) \cup {r} ELSE MayReach(c) \ {r}
        BY <1>1, <2>1, <2>2, RunMoves
      <4> QED BY <2>1, <4>1
    <3>4. c \in x.consented \/ c = k <=> c \in run[r].consented BY <1>5, <2>1
    <3> QED BY <3>1, <3>2, <3>3, <3>4
  <2>6. \A c \in Customers, limit \in Limits : Logged(c, limit)' = Logged(c, limit) /\ Logged(c, limit) \in Nat
    BY <1>1, <1>3, LoggedNat DEF Logged, LoggedSince
  <2>7. \A limit \in Limits : Logged(k, limit) <= HighestOf(limit) - 1
    <3> TAKE limit \in Limits
    <3> DEFINE seen == Cardinality(LoggedSince(k, Since(limit, run[r].began)))
    <3>1. seen < Cap(limit, t) BY <1>5 DEF WithinCaps
    <3>2. Cap(limit, t) <= HighestOf(limit) /\ Cap(limit, t) \in Nat /\ HighestOf(limit) \in Nat
      BY EngagementAssumption DEF Cap, HighestOf, Limits
    <3>3. run[r].began <= hour BY DEF EngagementInv, RunsInOrder
    <3>4. /\ Since(limit, run[r].began) \in Int /\ Since(limit, hour) \in Int
          /\ Since(limit, run[r].began) <= Since(limit, hour)
      BY <1>2, <3>3, WindowsMove
    <3>5. Logged(k, limit) <= seen /\ seen \in Nat
      <4>1. /\ IsFiniteSet(LoggedSince(k, Since(limit, run[r].began))) /\ seen \in Nat
            /\ Cardinality(LoggedSince(k, Since(limit, hour))) <= seen
        BY <1>1, <3>4, LoggedSets
      <4> QED BY <4>1 DEF Logged
    <3> HIDE DEF seen
    <3> QED BY <2>6, <3>1, <3>2, <3>5
  <2>8. RoomLeft'
    <3> SUFFICES ASSUME NEW c \in Customers, NEW limit \in Limits, Serving(c)' # {}
                 PROVE  Logged(c, limit) + Cardinality(Serving(c)') <= HighestOf(limit) + Cardinality(Runs) - 1
      BY <2>6 DEF RoomLeft, HighestOf
    <3>1. CASE c = k
      <4>1. Serving(k)' \subseteq Runs BY DEF Serving
      <4>2. Cardinality(Serving(k)') <= Cardinality(Runs) /\ Cardinality(Serving(k)') \in Nat
        BY <4>1, EngagementAssumption, FS_Subset, FS_CardinalityType
      <4> QED BY <2>6, <2>7, <3>1, <4>2, RunSets, HighestNat
    <3>2. CASE c # k BY <2>5, <3>2 DEF EngagementInv, RoomLeft
    <3> QED BY <3>1, <3>2
  <2>9. FatigueGuard' BY <1>3 DEF EngagementInv, FatigueGuard, LoggedSince
  <2>10. DeliveriesLogged' BY <1>3, <2>5, <2>6 DEF EngagementInv, DeliveriesLogged, Limits
  <2>11. LoadedBefore' BY <1>3, <2>5 DEF EngagementInv, LoadedBefore
  <2> QED BY <2>3, <2>4, <2>8, <2>9, <2>10, <2>11 DEF EngagementInv
<1> QED BY <1>4, <1>5

(* A delivery: one more today, by a run that will log it. *)
LEMMA DeliverKeeps ==
    ASSUME EngagementInv, NEW r \in Runs, NEW k \in Customers, Deliver(r, k)
    PROVE  EngagementInv'
<1> DEFINE x == [run[r] EXCEPT !.at = "log"]
<1>1. EngagementTypeOK BY DEF EngagementInv
<1>2. /\ run[r] \in EngagementRun /\ run[r].began \in Hours BY <1>1, RunRows
<1>3. /\ run' = [run EXCEPT ![r] = x] /\ run[r].at = "deliver" /\ k \in run[r].serves
      /\ today' = [today EXCEPT ![k] = @ + 1]
      /\ late' = IF consent[k] = "withdrawn" THEN [late EXCEPT ![k] = @ + 1] ELSE late
      /\ UNCHANGED <<hour, consent, policy, messages, stops, changes>>
  BY <1>1 DEF Deliver, EngagementTypeOK
<1>4. /\ x \in EngagementRun /\ x.at = "log" /\ x.began = run[r].began /\ x.serves = run[r].serves
      /\ x.consented = run[r].consented
  BY <1>2 DEF EngagementRun
<1> HIDE DEF x
<1>5. /\ run[r].began <= hour /\ run[r].serves \cap run[r].consented = {}
      /\ \A c, d \in run[r].serves : c = d
  BY DEF EngagementInv, RunsInOrder
<1>6. EngagementTypeOK'
  <2>1. run' \in [Runs -> EngagementRun] BY <1>1, <1>3, <1>4 DEF EngagementTypeOK
  <2>2. today' \in [Customers -> Nat] /\ late' \in [Customers -> Nat]
    BY <1>1, <1>3 DEF EngagementTypeOK
  <2> QED BY <1>1, <1>3, <2>1, <2>2 DEF EngagementTypeOK
<1>7. RunsInOrder' /\ ServesByDay'
  <2>1. r = Worker => ~InQuietWindow(run[r].began) BY <1>3 DEF EngagementInv, ServesByDay
  <2> QED BY <1>3, <1>4, <1>5, <2>1, RunStepOrder
<1>8. \A c \in Customers :
         /\ Serving(c)' = Serving(c)
         /\ c # k => Unlogged(c)' = Unlogged(c) /\ MayReach(c)' = MayReach(c)
  <2> TAKE c \in Customers
  <2>1. /\ Serving(c)' = IF x.at \in {"deliver", "log"} /\ c \in x.serves
                         THEN Serving(c) \cup {r} ELSE Serving(c) \ {r}
        /\ Unlogged(c)' = IF x.at = "log" /\ c \in x.serves
                          THEN Unlogged(c) \cup {r} ELSE Unlogged(c) \ {r}
        /\ MayReach(c)' = IF c \in x.consented \/ (x.at = "deliver" /\ c \in x.serves)
                          THEN MayReach(c) \cup {r} ELSE MayReach(c) \ {r}
    BY <1>1, <1>3, <1>4, RunMoves
  <2>2. r \in Serving(c) <=> c \in run[r].serves BY <1>3 DEF Serving
  <2>3. r \notin Unlogged(c) BY <1>3 DEF Unlogged
  <2>4. r \in MayReach(c) <=> c \in run[r].consented \/ c \in run[r].serves BY <1>3 DEF MayReach
  <2>5. c # k => c \notin run[r].serves BY <1>3, <1>5
  <2> QED BY <1>4, <2>1, <2>2, <2>3, <2>4, <2>5
<1>9. /\ r \notin Unlogged(k) /\ Unlogged(k)' = Unlogged(k) \cup {r}
      /\ r \in MayReach(k) /\ MayReach(k)' = MayReach(k) \ {r}
  <2>1. /\ Unlogged(k)' = Unlogged(k) \cup {r} /\ MayReach(k)' = MayReach(k) \ {r}
    <3>1. k \notin x.consented /\ k \in x.serves BY <1>3, <1>4, <1>5
    <3> QED BY <1>1, <1>3, <1>4, <3>1, RunMoves
  <2>2. r \notin Unlogged(k) BY <1>3 DEF Unlogged
  <2>3. r \in MayReach(k) BY <1>3 DEF MayReach
  <2> QED BY <2>1, <2>2, <2>3
<1>10. /\ Cardinality(Unlogged(k)') = Cardinality(Unlogged(k)) + 1
       /\ Cardinality(MayReach(k)') = Cardinality(MayReach(k)) - 1
  <2>1. IsFiniteSet(Unlogged(k)) /\ IsFiniteSet(MayReach(k)) BY RunSets
  <2>2. Cardinality(Unlogged(k) \cup {r}) = Cardinality(Unlogged(k)) + 1
    BY <1>9, <2>1, FS_AddElement
  <2>3. Cardinality(MayReach(k) \ {r}) = Cardinality(MayReach(k)) - 1
    BY <1>9, <2>1, FS_RemoveElement
  <2> QED BY <1>9, <2>2, <2>3
<1>11. \A c \in Customers, limit \in Limits : Logged(c, limit)' = Logged(c, limit) /\ Logged(c, limit) \in Nat
  BY <1>1, <1>3, LoggedNat DEF Logged, LoggedSince
<1>12. RoomLeft' BY <1>8, <1>11 DEF EngagementInv, RoomLeft, HighestOf
<1>13. FatigueGuard' BY <1>3 DEF EngagementInv, FatigueGuard, LoggedSince
<1>14. DeliveriesLogged'
  <2> SUFFICES ASSUME NEW c \in Customers
               PROVE  today'[c] <= Logged(c, "day") + Cardinality(Unlogged(c)') + stops
    BY <1>3, <1>11 DEF DeliveriesLogged, Limits
  <2>1. today[c] <= Logged(c, "day") + Cardinality(Unlogged(c)) + stops
    BY DEF EngagementInv, DeliveriesLogged
  <2>2. "day" \in Limits /\ stops \in Nat /\ today[c] \in Nat BY <1>1 DEF Limits, EngagementTypeOK
  <2>3. CASE c = k
    <3>1. today'[k] = today[k] + 1 BY <1>1, <1>3 DEF EngagementTypeOK
    <3> QED BY <1>10, <1>11, <2>1, <2>2, <2>3, <3>1, RunSets
  <2>4. CASE c # k
    <3>1. today'[c] = today[c] BY <1>1, <1>3, <2>4 DEF EngagementTypeOK
    <3> QED BY <1>8, <2>1, <2>4, <3>1
  <2> QED BY <2>3, <2>4
<1>15. LoadedBefore'
  <2> SUFFICES ASSUME NEW c \in Customers
               PROVE  IF consent[c] = "withdrawn"
                      THEN late'[c] + Cardinality(MayReach(c)') <= Cardinality(Runs)
                      ELSE late'[c] = 0
    BY <1>3 DEF LoadedBefore
  <2>1. IF consent[c] = "withdrawn" THEN late[c] + Cardinality(MayReach(c)) <= Cardinality(Runs)
        ELSE late[c] = 0
    BY DEF EngagementInv, LoadedBefore
  <2>2. CASE c = k /\ consent[k] = "withdrawn"
    <3>1. late'[k] = late[k] + 1 /\ late[k] \in Nat BY <1>1, <1>3, <2>2 DEF EngagementTypeOK
    <3> QED BY <1>10, <2>1, <2>2, <3>1, RunSets
  <2>3. CASE c = k /\ consent[k] # "withdrawn" BY <1>3, <2>1, <2>3
  <2>4. CASE c # k
    <3>1. late'[c] = late[c] BY <1>1, <1>3, <2>4 DEF EngagementTypeOK
    <3> QED BY <1>8, <2>1, <2>4, <3>1
  <2> QED BY <2>2, <2>3, <2>4
<1> QED BY <1>6, <1>7, <1>12, <1>13, <1>14, <1>15 DEF EngagementInv

(* The message is logged: one more in the windows, one run less that has it to do. *)
LEMMA LogAdds ==
    ASSUME EngagementTypeOK, NEW k \in Customers, messages' = Append(messages, [to |-> k, at |-> hour]),
           hour' = hour, NEW c \in Customers, NEW limit \in Limits
    PROVE  /\ messages' \in Seq(Message)
           /\ Logged(c, limit)' <= Logged(c, limit) + (IF c = k THEN 1 ELSE 0)
           /\ Logged(c, limit)' >= Logged(c, limit)
           /\ limit = "day" => Logged(k, limit)' = Logged(k, limit) + 1
<1> DEFINE n == Len(messages)
           m == [to |-> k, at |-> hour]
           from == Since(limit, hour)
           old(d) == LoggedSince(d, from)
           new(d) == {i \in 1..Len(messages') : messages'[i].to = d /\ messages'[i].at >= from}
<1>1. messages \in Seq(Message) /\ n \in Nat /\ hour \in Hours /\ m \in Message
  BY DEF EngagementTypeOK, Message
<1>2. /\ messages' \in Seq(Message) /\ Len(messages') = n + 1 /\ messages'[n + 1] = m
      /\ \A i \in 1..n : messages'[i] = messages[i]
  BY <1>1
<1>3. \A d \in Customers : Logged(d, limit)' = Cardinality(new(d)) /\ Logged(d, limit) = Cardinality(old(d))
  BY DEF Logged, LoggedSince
<1>4. \A d \in Customers : new(d) = old(d) \cup (IF d = k /\ hour >= from THEN {n + 1} ELSE {})
  <2> TAKE d \in Customers
  <2>1. \A i : i \in new(d) <=> (i \in 1..(n + 1) /\ messages'[i].to = d /\ messages'[i].at >= from)
    BY <1>2
  <2>2. \A i : i \in old(d) <=> (i \in 1..n /\ messages[i].to = d /\ messages[i].at >= from)
    BY DEF LoggedSince
  <2>3. \A i : i \in 1..(n + 1) <=> (i \in 1..n \/ i = n + 1) BY <1>1
  <2>4. n + 1 \in new(d) <=> d = k /\ hour >= from BY <1>1, <1>2, <2>1
  <2>5. \A i \in 1..n : i \in new(d) <=> i \in old(d) BY <1>1, <1>2, <2>1, <2>2
  <2> HIDE DEF new, old
  <2> QED BY <1>1, <2>1, <2>2, <2>3, <2>4, <2>5
<1>5. \A d \in Customers : IsFiniteSet(old(d)) /\ Cardinality(old(d)) \in Nat /\ n + 1 \notin old(d)
  <2> TAKE d \in Customers
  <2>1. from \in Int BY <1>1, WindowsMove
  <2>2. from <= from BY <2>1
  <2>3. IsFiniteSet(old(d)) /\ Cardinality(old(d)) \in Nat BY <2>1, <2>2, LoggedSets
  <2>4. n + 1 \notin old(d) BY <1>1 DEF LoggedSince
  <2> QED BY <2>3, <2>4
<1>6. limit = "day" => hour >= from
  <2>1. Day \in Nat \ {0} /\ hour \in Nat BY <1>1, RunRows, EngagementAssumption DEF Hours
  <2>2. hour % Day \in Int /\ 0 <= hour % Day BY <2>1, Remainder
  <2> QED BY <2>1, <2>2 DEF Since
<1> HIDE DEF new, old, from, m
<1>7. \A d \in Customers : Cardinality(new(d)) = IF d = k /\ hour >= from THEN Cardinality(old(d)) + 1
                                                ELSE Cardinality(old(d))
  <2> TAKE d \in Customers
  <2>1. CASE d = k /\ hour >= from
    <3>1. new(d) = old(d) \cup {n + 1} BY <1>4, <2>1
    <3> QED BY <1>5, <2>1, <3>1, FS_AddElement
  <2>2. CASE ~(d = k /\ hour >= from)
    <3>1. new(d) = old(d) BY <1>4, <2>2
    <3> QED BY <2>2, <3>1
  <2> QED BY <2>1, <2>2
<1>8. Logged(c, limit)' <= Logged(c, limit) + (IF c = k THEN 1 ELSE 0) /\ Logged(c, limit)' >= Logged(c, limit)
  BY <1>3, <1>5, <1>7
<1>9. limit = "day" => Logged(k, limit)' = Logged(k, limit) + 1 BY <1>3, <1>6, <1>7
<1> QED BY <1>2, <1>8, <1>9

LEMMA LogKeeps ==
    ASSUME EngagementInv, NEW r \in Runs, NEW k \in Customers, LogMessage(r, k)
    PROVE  EngagementInv'
<1> DEFINE x == Continues(r, run[r].todo)
<1>1. EngagementTypeOK /\ run[r].todo \in SUBSET Customers BY RunRows DEF EngagementInv
<1>2. /\ run' = [run EXCEPT ![r] = x] /\ run[r].at = "log" /\ k \in run[r].serves
      /\ messages' = Append(messages, [to |-> k, at |-> hour])
      /\ UNCHANGED <<hour, consent, policy, today, late, stops, changes>>
  BY DEF LogMessage
<1>3. /\ x \in EngagementRun /\ x.at \in {"next", "stamp", "idle"}
      /\ x.began <= hour /\ x.serves = {} /\ x.consented \subseteq run[r].consented
  BY <1>1, ContinuesOver
<1> HIDE DEF x
<1>4. \A c \in Customers, limit \in Limits :
         /\ messages' \in Seq(Message)
         /\ Logged(c, limit)' <= Logged(c, limit) + (IF c = k THEN 1 ELSE 0)
         /\ Logged(c, limit)' >= Logged(c, limit)
         /\ limit = "day" => Logged(k, limit)' = Logged(k, limit) + 1
  BY <1>1, <1>2, LogAdds
<1>5. EngagementTypeOK'
  <2>1. run' \in [Runs -> EngagementRun] BY <1>1, <1>2, <1>3 DEF EngagementTypeOK
  <2>2. messages' \in Seq(Message) BY <1>4 DEF Limits
  <2> QED BY <1>1, <1>2, <2>1, <2>2 DEF EngagementTypeOK
<1>6. RunsInOrder' /\ ServesByDay' BY <1>2, <1>3, RunStepOrder
<1>7. \A c \in Customers :
         /\ Serving(c)' = Serving(c) \ {r} /\ Unlogged(c)' = Unlogged(c) \ {r}
         /\ MayReach(c)' \subseteq MayReach(c)
         /\ c # k => r \notin Serving(c) /\ r \notin Unlogged(c)
  <2> TAKE c \in Customers
  <2>1. Serving(c)' = Serving(c) \ {r} /\ Unlogged(c)' = Unlogged(c) \ {r} BY <1>1, <1>2, <1>3, RunMoves
  <2>2. MayReach(c)' = IF c \in x.consented THEN MayReach(c) \cup {r} ELSE MayReach(c) \ {r}
    BY <1>1, <1>2, <1>3, RunMoves
  <2>3. c \in run[r].consented => r \in MayReach(c) BY DEF MayReach
  <2>4. c # k => c \notin run[r].serves BY <1>2 DEF EngagementInv, RunsInOrder
  <2> QED BY <1>3, <2>1, <2>2, <2>3, <2>4 DEF Serving, Unlogged
<1>8. r \in Serving(k) /\ r \in Unlogged(k) BY <1>2 DEF Serving, Unlogged
<1>9. /\ Cardinality(Serving(k)') = Cardinality(Serving(k)) - 1
      /\ Cardinality(Unlogged(k)') = Cardinality(Unlogged(k)) - 1
  <2>1. IsFiniteSet(Serving(k)) /\ IsFiniteSet(Unlogged(k)) BY RunSets
  <2>2. Cardinality(Serving(k) \ {r}) = Cardinality(Serving(k)) - 1 BY <1>8, <2>1, FS_RemoveElement
  <2>3. Cardinality(Unlogged(k) \ {r}) = Cardinality(Unlogged(k)) - 1 BY <1>8, <2>1, FS_RemoveElement
  <2> QED BY <1>7, <2>2, <2>3
<1>10. \A c \in Customers, limit \in Limits : Logged(c, limit) \in Nat /\ Logged(c, limit)' \in Nat
  <2>1. \A c \in Customers, limit \in Limits : Logged(c, limit) \in Nat BY <1>1, LoggedNat
  <2>2. \A c \in Customers, limit \in Limits : Logged(c, limit)' \in Nat
    <3> TAKE c \in Customers, limit \in Limits
    <3>1. IsFiniteSet(LoggedSince(c, Since(limit, hour))') /\ Logged(c, limit)' \in Nat
      <4>1. messages' \in Seq(Message) BY <1>4
      <4>2. LoggedSince(c, Since(limit, hour))' \subseteq 1..Len(messages') /\ Len(messages') \in Nat
        BY <4>1 DEF LoggedSince
      <4>3. IsFiniteSet(1..Len(messages')) BY <4>2, FS_Interval
      <4>4. IsFiniteSet(LoggedSince(c, Since(limit, hour))') BY <4>2, <4>3, FS_Subset
      <4> QED BY <4>4, FS_CardinalityType DEF Logged
    <3> QED BY <3>1
  <2> QED BY <2>1, <2>2
<1>11. \A limit \in Limits :
          /\ Logged(k, limit) + Cardinality(Serving(k)) <= HighestOf(limit) + Cardinality(Runs) - 1
          /\ Logged(k, limit)' + Cardinality(Serving(k)') <= HighestOf(limit) + Cardinality(Runs) - 1
  <2> TAKE limit \in Limits
  <2>1. Logged(k, limit) + Cardinality(Serving(k)) <= HighestOf(limit) + Cardinality(Runs) - 1
    BY <1>8 DEF EngagementInv, RoomLeft
  <2>2. Logged(k, limit)' <= Logged(k, limit) + 1 BY <1>4
  <2> QED BY <1>9, <1>10, <2>1, <2>2, RunSets, HighestNat
<1>12. RoomLeft'
  <2> SUFFICES ASSUME NEW c \in Customers, NEW limit \in Limits, Serving(c)' # {}
               PROVE  Logged(c, limit)' + Cardinality(Serving(c)') <= HighestOf(limit) + Cardinality(Runs) - 1
    BY DEF RoomLeft, HighestOf
  <2>1. CASE c = k BY <1>11, <2>1
  <2>2. CASE c # k
    <3>1. Serving(c)' = Serving(c) /\ Serving(c) # {} BY <1>7, <2>2
    <3>2. Logged(c, limit)' = Logged(c, limit) BY <1>4, <1>10, <2>2
    <3> QED BY <3>1, <3>2 DEF EngagementInv, RoomLeft
  <2> QED BY <2>1, <2>2
<1>13. FatigueGuard'
  <2> SUFFICES ASSUME NEW c \in Customers, NEW limit \in Limits
               PROVE  Logged(c, limit)' <= HighestOf(limit) + Cardinality(Runs) - 1
    BY DEF FatigueGuard, Logged, HighestOf
  <2>1. CASE c = k
    <3>1. Cardinality(Serving(k)') \in Nat
      <4>1. IsFiniteSet(Serving(k)') BY <1>7, RunSets, FS_RemoveElement
      <4> QED BY <4>1, FS_CardinalityType
    <3> QED BY <1>10, <1>11, <2>1, <3>1, RunSets, HighestNat
  <2>2. CASE c # k
    <3>1. Logged(c, limit)' = Logged(c, limit) BY <1>4, <1>10, <2>2
    <3> QED BY <3>1 DEF EngagementInv, FatigueGuard, Logged
  <2> QED BY <2>1, <2>2
<1>14. DeliveriesLogged'
  <2> SUFFICES ASSUME NEW c \in Customers
               PROVE  today[c] <= Logged(c, "day")' + Cardinality(Unlogged(c)') + stops
    BY <1>2 DEF DeliveriesLogged
  <2>1. today[c] <= Logged(c, "day") + Cardinality(Unlogged(c)) + stops
    BY DEF EngagementInv, DeliveriesLogged
  <2>2. "day" \in Limits /\ stops \in Nat /\ today[c] \in Nat BY <1>1 DEF Limits, EngagementTypeOK
  <2>3. CASE c = k BY <1>4, <1>9, <1>10, <2>1, <2>2, <2>3, RunSets
  <2>4. CASE c # k
    <3>1. Unlogged(c)' = Unlogged(c) BY <1>7, <2>4
    <3>2. Logged(c, "day") \in Nat /\ Logged(c, "day")' \in Nat BY <1>10, <2>2
    <3>3. Logged(c, "day")' >= Logged(c, "day") BY <1>4, <2>2
    <3>4. Cardinality(Unlogged(c)) \in Nat /\ Cardinality(Unlogged(c)') = Cardinality(Unlogged(c))
      BY <3>1, RunSets
    <3> QED BY <2>1, <2>2, <3>2, <3>3, <3>4
  <2> QED BY <2>3, <2>4
<1>15. LoadedBefore'
  <2> SUFFICES ASSUME NEW c \in Customers, consent[c] = "withdrawn"
               PROVE  late[c] + Cardinality(MayReach(c)') <= Cardinality(Runs)
    BY <1>2 DEF EngagementInv, LoadedBefore
  <2>1. late[c] + Cardinality(MayReach(c)) <= Cardinality(Runs) BY DEF EngagementInv, LoadedBefore
  <2>2. /\ IsFiniteSet(MayReach(c)') /\ Cardinality(MayReach(c)') <= Cardinality(MayReach(c))
    BY <1>7, RunSets, FS_Subset
  <2>3. Cardinality(MayReach(c)') \in Nat /\ late[c] \in Nat
    BY <1>1, <2>2, FS_CardinalityType DEF EngagementTypeOK
  <2> QED BY <2>1, <2>2, <2>3, RunSets
<1> QED BY <1>5, <1>6, <1>12, <1>13, <1>14, <1>15 DEF EngagementInv

LEMMA EngagementStepKeeps ==
    ASSUME EngagementInv, [EngagementNext]_engagementVars
    PROVE  EngagementInv'
<1>1. CASE PassHour BY <1>1, HourKeeps
<1>2. CASE EngagementEnvironment BY <1>2, ConsentKeeps, PolicyKeeps DEF EngagementEnvironment
<1>3. ASSUME NEW r \in Runs, StartsEngagement(r) \/ Engages(r) \/ RunThrows(r) \/ RunDies(r)
      PROVE  EngagementInv'
  BY <1>3, BeginKeeps, PassingKeeps, ServeKeeps, DeliverKeeps, LogKeeps DEF StartsEngagement, Engages
<1>4. CASE UNCHANGED engagementVars BY <1>4, PolicyKeeps
<1> QED BY <1>1, <1>2, <1>3, <1>4 DEF EngagementNext

LEMMA EngagementInvariant == EngagementSpec => []EngagementInv
<1>1. EngagementInit => EngagementInv BY EngagementInitInv
<1>2. EngagementInv /\ [EngagementNext]_engagementVars => EngagementInv' BY EngagementStepKeeps
<1> QED BY <1>1, <1>2, PTL DEF EngagementSpec

(* The type of the engagement runs and of what they read and write. *)
THEOREM EngagementType == EngagementSpec => []EngagementTypeOK
<1>1. EngagementInv => EngagementTypeOK BY DEF EngagementInv
<1> QED BY <1>1, EngagementInvariant, PTL

(* EngagementService's limits, for any number of customers and of overlapping runs,
   any caps, gap, length of a day and quiet hours: no window holds more messages
   than the cap and one for each other run, no day more deliveries than that and one
   for each run that stopped, a customer who opts out hears at most once more from
   every run, and the worker's run sends nothing that began at night. *)
THEOREM WithinLimits == EngagementSpec => []MessagesWithinLimits
<1>1. EngagementInv => MessagesWithinLimits
  <2> SUFFICES ASSUME EngagementInv PROVE MessagesWithinLimits
    OBVIOUS
  <2>1. EngagementTypeOK /\ FatigueGuard BY DEF EngagementInv
  <2>2. DeliveriesPerDay
    <3> SUFFICES ASSUME NEW c \in Customers
                 PROVE  today[c] <= DailyCap + Cardinality(Runs) - 1 + stops
      BY DEF DeliveriesPerDay
    <3>1. today[c] <= Logged(c, "day") + Cardinality(Unlogged(c)) + stops
      BY DEF EngagementInv, DeliveriesLogged
    <3>2. "day" \in Limits /\ HighestOf("day") = DailyCap BY DEF Limits, HighestOf
    <3>3. /\ stops \in Nat /\ today[c] \in Nat /\ Logged(c, "day") \in Nat /\ DailyCap \in Nat
      BY <2>1, <3>2, LoggedNat, EngagementAssumption DEF EngagementTypeOK
    <3>4. Logged(c, "day") + Cardinality(Unlogged(c)) <= DailyCap + Cardinality(Runs) - 1
      <4>1. CASE Serving(c) = {}
        <5>1. Unlogged(c) = {} BY <4>1 DEF Serving, Unlogged
        <5>2. Cardinality(Unlogged(c)) = 0 BY <5>1, FS_EmptySet
        <5>3. Logged(c, "day") <= HighestOf("day") + Cardinality(Runs) - 1
          BY <2>1, <3>2 DEF FatigueGuard, Logged
        <5> QED BY <3>2, <3>3, <5>2, <5>3
      <4>2. CASE Serving(c) # {}
        <5>1. Logged(c, "day") + Cardinality(Serving(c)) <= HighestOf("day") + Cardinality(Runs) - 1
          BY <3>2, <4>2 DEF EngagementInv, RoomLeft
        <5> QED BY <3>2, <3>3, <5>1, RunSets
      <4> QED BY <4>1, <4>2
    <3> QED BY <3>1, <3>3, <3>4, RunSets
  <2>3. OptOutIsHeeded
    <3> SUFFICES ASSUME NEW c \in Customers PROVE late[c] <= Cardinality(Runs)
      BY DEF OptOutIsHeeded
    <3>1. IF consent[c] = "withdrawn" THEN late[c] + Cardinality(MayReach(c)) <= Cardinality(Runs)
          ELSE late[c] = 0
      BY DEF EngagementInv, LoadedBefore
    <3>2. late[c] \in Nat BY <2>1 DEF EngagementTypeOK
    <3> QED BY <3>1, <3>2, RunSets
  <2>4. QuietNights
    <3>1. run[Worker].began \in Hours BY <2>1, RunRows, EngagementAssumption
    <3> QED BY <3>1, QuietIsNight DEF EngagementInv, ServesByDay, QuietNights
  <2> QED BY <2>1, <2>2, <2>3, <2>4 DEF MessagesWithinLimits
<1> QED BY <1>1, EngagementInvariant, PTL
----------------------------------------------------------------------------
(* A scan has one row at most for a variant, and one alert at most to send. *)
ScansInOrder ==
    \A r \in Scans :
       /\ \A k, l \in scan[r].rows : k.v = l.v => k = l
       /\ \A k, l \in scan[r].alert : k = l
       /\ \A k \in scan[r].rows, l \in scan[r].alert : k.v # l.v
       /\ scan[r].at # "notify" => scan[r].alert = {}
       /\ scan[r].at = "idle" => scan[r].rows = {}

(* The scans that will record what variant v is rated, those that will record what it
   was rated before, and those that are about to alert. *)
Fresh(v) == {r \in Scans : \E l \in scan[r].rows : l.v = v /\ l.status = Rating(v)}
Stale(v) == {r \in Scans : \E l \in scan[r].rows : l.v = v /\ l.status # Rating(v)}
Telling(v) == {r \in Scans : \E l \in scan[r].alert : l.v = v}

(* Twice the alerts that k scans with an old rating can still cause: each sends its
   own, and then all the scans that have no old rating may correct what it recorded. *)
Corrections(k) == k * (2 * Cardinality(Scans) - k + 3)

(* Twice the alerts that may still be sent while the rating stays what it is. *)
AlertsLeft(v) ==
    2 * Cardinality(Telling(v)) + 2 * Cardinality(Fresh(v)) + Corrections(Cardinality(Stale(v)))
    + (IF Differs(v) THEN 2 * (Cardinality(Scans) - Cardinality(Stale(v)) - Cardinality(Fresh(v))) ELSE 0)

AlertsBounded ==
    \A v \in Variants :
       2 * alerted[v] + AlertsLeft(v) <= Cardinality(Scans) * (Cardinality(Scans) + 3)

(* Codes that the owner was told of, and no run recorded or will record. *)
Unrecorded == {c \in Codes : toldAge[c] < sentAge[c] /\ c \notin advice.told}

AdviceInOrder ==
    /\ advice.at # "record" => advice.told = {}
    /\ \A c, d \in advice.told : c = d

ReportsBounded == IsFiniteSet(Unrecorded) /\ early + Cardinality(Unrecorded) <= mishaps

AlertInv ==
    /\ AlertTypeOK /\ ScansInOrder /\ RecordedIsTold /\ AlertsBounded
    /\ AdviceInOrder /\ ReportsBounded

(* A finite set of scans in which one scan changes sides, *)
LEMMA OneMoves ==
    ASSUME NEW S, NEW T, NEW r, IsFiniteSet(S), T \ {r} = S \ {r}
    PROVE  /\ IsFiniteSet(T)
           /\ Cardinality(T) = Cardinality(S) - (IF r \in S THEN 1 ELSE 0) + (IF r \in T THEN 1 ELSE 0)
<1> DEFINE rest == S \ {r}
<1>1. IsFiniteSet(rest) /\ Cardinality(rest) = Cardinality(S) - (IF r \in S THEN 1 ELSE 0)
      /\ Cardinality(S) \in Nat
  BY FS_RemoveElement, FS_CardinalityType
<1>2. Cardinality(rest) \in Nat BY <1>1, FS_CardinalityType
<1>3. CASE r \in T
  <2>1. T = rest \cup {r} /\ r \notin rest BY <1>3
  <2>2. IsFiniteSet(rest \cup {r}) /\ Cardinality(rest \cup {r}) = Cardinality(rest) + 1
    <3> HIDE DEF rest
    <3> QED BY <1>1, <2>1, FS_AddElement
  <2> QED BY <1>1, <1>2, <1>3, <2>1, <2>2
<1>4. CASE r \notin T
  <2>1. T = rest BY <1>4
  <2> QED BY <1>1, <1>2, <1>4, <2>1
<1> QED BY <1>3, <1>4

(* and three sets of scans that exclude each other. *)
LEMMA Disjoint ==
    ASSUME NEW N, IsFiniteSet(N), NEW A \in SUBSET N, NEW B \in SUBSET N, NEW C \in SUBSET N,
           A \cap B = {}, A \cap C = {}, B \cap C = {}
    PROVE  /\ Cardinality(N) \in Nat /\ Cardinality(A) \in Nat /\ Cardinality(B) \in Nat
           /\ Cardinality(C) \in Nat
           /\ Cardinality(A) + Cardinality(B) + Cardinality(C) <= Cardinality(N)
<1>1. IsFiniteSet(A) /\ IsFiniteSet(B) /\ IsFiniteSet(C) BY FS_Subset
<1>2. Cardinality(A) \in Nat /\ Cardinality(B) \in Nat /\ Cardinality(C) \in Nat /\ Cardinality(N) \in Nat
  BY <1>1, FS_CardinalityType
<1>3. IsFiniteSet(A \cup B) /\ Cardinality(A \cup B) = Cardinality(A) + Cardinality(B) - Cardinality(A \cap B)
  BY <1>1, FS_Union
<1>4. Cardinality((A \cup B) \cup C)
        = Cardinality(A \cup B) + Cardinality(C) - Cardinality((A \cup B) \cap C)
  BY <1>1, <1>3, FS_Union
<1>5. (A \cup B) \cap C = {} OBVIOUS
<1>6. Cardinality((A \cup B) \cup C) <= Cardinality(N)
  <2>1. (A \cup B) \cup C \in SUBSET N OBVIOUS
  <2> QED BY <2>1, FS_Subset
<1>7. Cardinality((A \cup B) \cap C) = 0 /\ Cardinality(A \cap B) = 0 BY <1>5, FS_EmptySet
<1> QED BY <1>2, <1>3, <1>4, <1>6, <1>7

(* What the corrections come to. *)
LEMMA CorrectionsStep ==
    ASSUME NEW n \in Nat, NEW k \in 1..n
    PROVE  (k - 1) * (2 * n - (k - 1) + 3) = k * (2 * n - k + 3) - 2 * (n - k + 2)
  OBVIOUS

LEMMA CorrectionsMost ==
    ASSUME NEW n \in Nat, NEW k \in 0..n
    PROVE  k * (2 * n - k + 3) + 4 * (n - k) <= n * (n + 3)
<1> DEFINE m == n - k
<1>1. m \in Nat OBVIOUS
<1>2. m * m >= m
  <2>1. m = 0 \/ m >= 1 BY <1>1
  <2> QED BY <1>1, <2>1
<1>3. n * (n + 3) = k * (2 * n - k + 3) + 4 * (n - k) + (m * m - m) OBVIOUS
<1> QED BY <1>1, <1>2, <1>3

LEMMA CorrectionsType ==
    ASSUME NEW k \in Nat, k <= Cardinality(Scans), Cardinality(Scans) \in Nat
    PROVE  /\ Corrections(k) \in Int
           /\ Cardinality(Scans) * (Cardinality(Scans) + 3) \in Int
           /\ Corrections(k) + 4 * (Cardinality(Scans) - k) <= Cardinality(Scans) * (Cardinality(Scans) + 3)
           /\ k >= 1 => /\ Corrections(k - 1) = Corrections(k) - 2 * (Cardinality(Scans) - k + 2)
                        /\ Corrections(k - 1) \in Int
<1>1. Corrections(k) \in Int BY DEF Corrections
<1>2. Corrections(k) + 4 * (Cardinality(Scans) - k) <= Cardinality(Scans) * (Cardinality(Scans) + 3)
  BY CorrectionsMost DEF Corrections
<1>3. k >= 1 => Corrections(k - 1) = Corrections(k) - 2 * (Cardinality(Scans) - k + 2)
  BY CorrectionsStep DEF Corrections
<1>4. Cardinality(Scans) * (Cardinality(Scans) + 3) \in Int OBVIOUS
<1> QED BY <1>1, <1>2, <1>3, <1>4

LEMMA ScoreType == \A u, s : Score(u, s) \in Ratings BY DEF Score, Ratings

LEMMA ScansOfVariant ==
    ASSUME AlertTypeOK, ScansInOrder, NEW v \in Variants
    PROVE  /\ Fresh(v) \subseteq Scans /\ Stale(v) \subseteq Scans /\ Telling(v) \subseteq Scans
           /\ IsFiniteSet(Fresh(v)) /\ IsFiniteSet(Stale(v)) /\ IsFiniteSet(Telling(v))
           /\ Cardinality(Fresh(v)) \in Nat /\ Cardinality(Stale(v)) \in Nat
           /\ Cardinality(Telling(v)) \in Nat /\ Cardinality(Scans) \in Nat
           /\ Cardinality(Fresh(v)) + Cardinality(Stale(v)) + Cardinality(Telling(v)) <= Cardinality(Scans)
<1>1. Fresh(v) \subseteq Scans /\ Stale(v) \subseteq Scans /\ Telling(v) \subseteq Scans
  BY DEF Fresh, Stale, Telling
<1>2. Fresh(v) \cap Stale(v) = {} BY DEF ScansInOrder, Fresh, Stale
<1>3. Fresh(v) \cap Telling(v) = {} /\ Stale(v) \cap Telling(v) = {}
  BY DEF ScansInOrder, Fresh, Stale, Telling
<1>4. IsFiniteSet(Scans) BY AlertAssumption
<1>5. IsFiniteSet(Fresh(v)) /\ IsFiniteSet(Stale(v)) /\ IsFiniteSet(Telling(v))
  BY <1>1, <1>4, FS_Subset
<1>6. /\ Cardinality(Fresh(v)) \in Nat /\ Cardinality(Stale(v)) \in Nat
      /\ Cardinality(Telling(v)) \in Nat /\ Cardinality(Scans) \in Nat
      /\ Cardinality(Fresh(v)) + Cardinality(Stale(v)) + Cardinality(Telling(v)) <= Cardinality(Scans)
  BY <1>1, <1>2, <1>3, <1>4, Disjoint
<1> QED BY <1>1, <1>5, <1>6

LEMMA AlertInitInv ==
    ASSUME AlertInit
    PROVE  AlertInv
<1>1. PICK s \in Shelf : shelf = [v \in Variants |-> s] BY DEF AlertInit
<1>2. NoScan \in Scan /\ NoAdvice \in Advice BY DEF NoScan, Scan, NoAdvice, Advice
<1>3. DedupeHours \in 0..DedupeHours BY AlertAssumption
<1>4. AlertTypeOK BY <1>1, <1>2, <1>3 DEF AlertInit, AlertTypeOK
<1>5. ScansInOrder BY DEF AlertInit, ScansInOrder, NoScan
<1>6. RecordedIsTold BY DEF AlertInit, RecordedIsTold
<1>7. AlertsBounded
  <2> SUFFICES ASSUME NEW v \in Variants
               PROVE  2 * alerted[v] + AlertsLeft(v) <= Cardinality(Scans) * (Cardinality(Scans) + 3)
    BY DEF AlertsBounded
  <2>1. Fresh(v) = {} /\ Stale(v) = {} /\ Telling(v) = {}
    BY DEF AlertInit, NoScan, Fresh, Stale, Telling
  <2>2. Cardinality(Scans) \in Nat BY AlertAssumption, FS_CardinalityType
  <2>3. Cardinality(Fresh(v)) = 0 /\ Cardinality(Stale(v)) = 0 /\ Cardinality(Telling(v)) = 0
    BY <2>1, FS_EmptySet
  <2>4. /\ Corrections(0) \in Int
        /\ Cardinality(Scans) * (Cardinality(Scans) + 3) \in Int
        /\ Corrections(0) + 4 * (Cardinality(Scans) - 0) <= Cardinality(Scans) * (Cardinality(Scans) + 3)
    BY <2>2, CorrectionsType
  <2>5. alerted[v] = 0 BY DEF AlertInit
  <2> QED BY <2>2, <2>3, <2>4, <2>5 DEF AlertsLeft
<1>8. AdviceInOrder /\ Unrecorded = {}
  <2>1. AdviceInOrder BY DEF AlertInit, NoAdvice, AdviceInOrder
  <2>2. \A c \in Codes : toldAge[c] = sentAge[c] /\ sentAge[c] = DedupeHours BY DEF AlertInit
  <2>3. \A c \in Codes : ~(toldAge[c] < sentAge[c]) BY <2>2, AlertAssumption
  <2> QED BY <2>1, <2>3 DEF Unrecorded
<1>9. ReportsBounded BY <1>8, FS_EmptySet DEF AlertInit, ReportsBounded
<1> QED BY <1>4, <1>5, <1>6, <1>7, <1>8, <1>9 DEF AlertInv

(* A step of one scan: who else holds what stays the same. *)
LEMMA ScanEffects ==
    ASSUME AlertTypeOK, ScansInOrder, NEW r \in Scans, NEW rec \in Scan,
           scan' = [scan EXCEPT ![r] = rec], UNCHANGED shelf, NEW v \in Variants
    PROVE  /\ Rating(v)' = Rating(v)
           /\ r \in Fresh(v)' <=> \E l \in rec.rows : l.v = v /\ l.status = Rating(v)
           /\ r \in Stale(v)' <=> \E l \in rec.rows : l.v = v /\ l.status # Rating(v)
           /\ r \in Telling(v)' <=> \E l \in rec.alert : l.v = v
           /\ Cardinality(Fresh(v)') = Cardinality(Fresh(v)) - (IF r \in Fresh(v) THEN 1 ELSE 0)
                                       + (IF r \in Fresh(v)' THEN 1 ELSE 0)
           /\ Cardinality(Stale(v)') = Cardinality(Stale(v)) - (IF r \in Stale(v) THEN 1 ELSE 0)
                                       + (IF r \in Stale(v)' THEN 1 ELSE 0)
           /\ Cardinality(Telling(v)') = Cardinality(Telling(v)) - (IF r \in Telling(v) THEN 1 ELSE 0)
                                       + (IF r \in Telling(v)' THEN 1 ELSE 0)
<1>1. scan'[r] = rec /\ \A s \in Scans \ {r} : scan'[s] = scan[s] BY DEF AlertTypeOK
<1>2. Rating(v)' = Rating(v) BY DEF Rating
<1>3. /\ Fresh(v)' = {s \in Scans : \E l \in scan'[s].rows : l.v = v /\ l.status = Rating(v)}
      /\ Stale(v)' = {s \in Scans : \E l \in scan'[s].rows : l.v = v /\ l.status # Rating(v)}
      /\ Telling(v)' = {s \in Scans : \E l \in scan'[s].alert : l.v = v}
  BY <1>2 DEF Fresh, Stale, Telling
<1>4. /\ Fresh(v)' \ {r} = Fresh(v) \ {r}
      /\ Stale(v)' \ {r} = Stale(v) \ {r}
      /\ Telling(v)' \ {r} = Telling(v) \ {r}
  BY <1>1, <1>3 DEF Fresh, Stale, Telling
<1>5. IsFiniteSet(Fresh(v)) /\ IsFiniteSet(Stale(v)) /\ IsFiniteSet(Telling(v)) BY ScansOfVariant
<1>6. Cardinality(Fresh(v)') = Cardinality(Fresh(v)) - (IF r \in Fresh(v) THEN 1 ELSE 0)
                               + (IF r \in Fresh(v)' THEN 1 ELSE 0)
  BY <1>4, <1>5, OneMoves
<1>7. Cardinality(Stale(v)') = Cardinality(Stale(v)) - (IF r \in Stale(v) THEN 1 ELSE 0)
                               + (IF r \in Stale(v)' THEN 1 ELSE 0)
  BY <1>4, <1>5, OneMoves
<1>8. Cardinality(Telling(v)') = Cardinality(Telling(v)) - (IF r \in Telling(v) THEN 1 ELSE 0)
                               + (IF r \in Telling(v)' THEN 1 ELSE 0)
  BY <1>4, <1>5, OneMoves
<1> QED BY <1>1, <1>2, <1>3, <1>6, <1>7, <1>8

(* The alerts left, from the four numbers they depend on. *)
LEMMA AlertsLeftType ==
    ASSUME AlertTypeOK, ScansInOrder, NEW v \in Variants
    PROVE  /\ Corrections(Cardinality(Stale(v))) \in Int
           /\ Cardinality(Scans) * (Cardinality(Scans) + 3) \in Int
           /\ AlertsLeft(v) \in Int /\ alerted[v] \in Nat
           /\ Cardinality(Stale(v)) >= 1 =>
                /\ Corrections(Cardinality(Stale(v)) - 1)
                     = Corrections(Cardinality(Stale(v))) - 2 * (Cardinality(Scans) - Cardinality(Stale(v)) + 2)
<1>1. /\ Cardinality(Fresh(v)) \in Nat /\ Cardinality(Stale(v)) \in Nat
      /\ Cardinality(Telling(v)) \in Nat /\ Cardinality(Scans) \in Nat
      /\ Cardinality(Stale(v)) <= Cardinality(Scans)
  BY ScansOfVariant
<1>2. /\ Corrections(Cardinality(Stale(v))) \in Int
      /\ Cardinality(Scans) * (Cardinality(Scans) + 3) \in Int
      /\ Cardinality(Stale(v)) >= 1 =>
            Corrections(Cardinality(Stale(v)) - 1)
              = Corrections(Cardinality(Stale(v))) - 2 * (Cardinality(Scans) - Cardinality(Stale(v)) + 2)
  BY <1>1, CorrectionsType
<1>3. AlertsLeft(v) \in Int BY <1>1, <1>2 DEF AlertsLeft
<1> QED BY <1>2, <1>3 DEF AlertTypeOK

(* The stock alerts do not touch the advisor, nor it them. *)
LEMMA AdviceStays ==
    ASSUME AlertInv, UNCHANGED adviceVars, mishaps' \in Nat, mishaps' >= mishaps
    PROVE  AdviceInOrder' /\ ReportsBounded'
<1>1. Unrecorded' = Unrecorded /\ UNCHANGED <<advice, early>>
  BY DEF Unrecorded, adviceVars
<1>2. AdviceInOrder' BY <1>1 DEF AlertInv, AdviceInOrder
<1>3. Cardinality(Unrecorded) \in Nat BY FS_CardinalityType DEF AlertInv, ReportsBounded
<1>4. ReportsBounded' BY <1>1, <1>3 DEF AlertInv, ReportsBounded, AlertTypeOK
<1> QED BY <1>2, <1>4

LEMMA StockStays ==
    ASSUME AlertInv, UNCHANGED stockAlertVars, mishaps' \in Nat, mishaps' >= mishaps
    PROVE  ScansInOrder' /\ RecordedIsTold' /\ AlertsBounded'
<1>1. UNCHANGED <<shelf, lastStatus, scan, alerted, heard>> BY DEF stockAlertVars
<1>2. ScansInOrder' BY <1>1 DEF AlertInv, ScansInOrder
<1>3. RecordedIsTold'
  <2>1. mishaps' = 0 => mishaps = 0 BY DEF AlertInv, AlertTypeOK
  <2> QED BY <1>1, <2>1 DEF AlertInv, RecordedIsTold
<1>4. \A v \in Variants : AlertsLeft(v)' = AlertsLeft(v)
  BY <1>1 DEF AlertsLeft, Telling, Fresh, Stale, Corrections, Differs, Rating
<1>5. AlertsBounded' BY <1>1, <1>4 DEF AlertInv, AlertsBounded
<1> QED BY <1>2, <1>3, <1>5

(* What is on the shelf of a variant changes: if its rating does, the count of its
   alerts starts again, whatever the scans have read of it. *)
LEMMA MoveShelfKeeps ==
    ASSUME AlertInv, NEW v \in Variants, NEW s \in Shelf, MoveShelf(v, s)
    PROVE  AlertInv'
<1>1. /\ shelf' = [shelf EXCEPT ![v] = s]
      /\ alerted' = IF Score(s.units, s.sold) = Rating(v) THEN alerted ELSE [alerted EXCEPT ![v] = 0]
      /\ moves' = moves + 1
      /\ UNCHANGED <<lastStatus, scan, heard, adviceVars, mishaps>>
  BY DEF MoveShelf
<1>2. AlertTypeOK /\ ScansInOrder BY DEF AlertInv
<1>3. alerted' \in [Variants -> Nat] /\ shelf' \in [Variants -> Shelf] BY <1>1, <1>2 DEF AlertTypeOK
<1>4. AlertTypeOK' BY <1>1, <1>2, <1>3 DEF AlertTypeOK, adviceVars
<1>5. ScansInOrder' BY <1>1, <1>2 DEF ScansInOrder
<1>6. RecordedIsTold' BY <1>1 DEF AlertInv, RecordedIsTold
<1>7. AlertsBounded'
  <2> SUFFICES ASSUME NEW x \in Variants
               PROVE  2 * alerted'[x] + AlertsLeft(x)' <= Cardinality(Scans) * (Cardinality(Scans) + 3)
    BY DEF AlertsBounded
  <2>1. Rating(x)' = IF x = v THEN Score(s.units, s.sold) ELSE Rating(x)
    BY <1>1, <1>2 DEF Rating, AlertTypeOK
  <2>2. CASE Rating(x)' = Rating(x)
    <3>1. AlertsLeft(x)' = AlertsLeft(x)
      BY <1>1, <2>2 DEF AlertsLeft, Telling, Fresh, Stale, Corrections, Differs
    <3>2. alerted'[x] = alerted[x] BY <1>1, <1>2, <2>1, <2>2 DEF AlertTypeOK
    <3> QED BY <3>1, <3>2 DEF AlertInv, AlertsBounded
  <2>3. CASE Rating(x)' # Rating(x)
    <3>1. alerted'[x] = 0 BY <1>1, <1>2, <2>1, <2>3 DEF AlertTypeOK
    <3> DEFINE N == Scans
               F == Fresh(x)'
               S == Stale(x)'
               T == Telling(x)'
    <3>2. /\ F = {r \in Scans : \E l \in scan[r].rows : l.v = x /\ l.status = Rating(x)'}
          /\ S = {r \in Scans : \E l \in scan[r].rows : l.v = x /\ l.status # Rating(x)'}
          /\ T = {r \in Scans : \E l \in scan[r].alert : l.v = x}
      BY <1>1 DEF Fresh, Stale, Telling
    <3>3. F \in SUBSET N /\ S \in SUBSET N /\ T \in SUBSET N BY <3>2
    <3>4. F \cap S = {} /\ F \cap T = {} /\ S \cap T = {} BY <1>2, <3>2 DEF ScansInOrder
    <3>5. /\ AlertsLeft(x)' = 2 * Cardinality(T) + 2 * Cardinality(F) + Corrections(Cardinality(S))
             + (IF Differs(x)' THEN 2 * (Cardinality(N) - Cardinality(S) - Cardinality(F)) ELSE 0)
      BY DEF AlertsLeft, Corrections
    <3> HIDE DEF F, S, T
    <3>6. /\ Cardinality(N) \in Nat /\ Cardinality(F) \in Nat /\ Cardinality(S) \in Nat
          /\ Cardinality(T) \in Nat /\ Cardinality(F) + Cardinality(S) + Cardinality(T) <= Cardinality(N)
      BY <3>3, <3>4, AlertAssumption, Disjoint
    <3>7. /\ Corrections(Cardinality(S)) \in Int
          /\ Cardinality(Scans) * (Cardinality(Scans) + 3) \in Int
          /\ Corrections(Cardinality(S)) + 4 * (Cardinality(Scans) - Cardinality(S))
               <= Cardinality(Scans) * (Cardinality(Scans) + 3)
      BY <3>6, CorrectionsType
    <3>8. AlertsLeft(x)' <= Corrections(Cardinality(S)) + 4 * (Cardinality(Scans) - Cardinality(S))
      BY <3>5, <3>6, <3>7
    <3>9. AlertsLeft(x)' \in Int BY <3>5, <3>6, <3>7
    <3> QED BY <3>1, <3>6, <3>7, <3>8, <3>9
  <2> QED BY <2>2, <2>3
<1>8. AdviceInOrder' /\ ReportsBounded' BY <1>1, <1>2, AdviceStays DEF AlertTypeOK
<1> QED BY <1>4, <1>5, <1>6, <1>7, <1>8 DEF AlertInv

(* A scan reads the variants whose rating differs: that was already counted. *)
LEMMA TakeStockKeeps ==
    ASSUME AlertInv, NEW r \in Scans, TakeStock(r)
    PROVE  AlertInv'
<1> DEFINE rows == {[v |-> v, status |-> Rating(v)] : v \in {x \in Variants : Differs(x)}}
           rec == [at |-> "compare", rows |-> rows, alert |-> {}]
<1>1. /\ scan' = [scan EXCEPT ![r] = rec] /\ scan[r].at = "idle"
      /\ UNCHANGED <<shelf, lastStatus, alerted, heard, adviceVars, moves, mishaps>>
  BY DEF TakeStock
<1>2. AlertTypeOK /\ ScansInOrder BY DEF AlertInv
<1>3. \A v \in Variants : Rating(v) \in Ratings BY ScoreType DEF Rating
<1>4. rows \in SUBSET Rated BY <1>3 DEF Rated
<1>5. /\ \A l \in rows : l.v \in Variants /\ Differs(l.v) /\ l.status = Rating(l.v)
      /\ \A v \in Variants : Differs(v) => \E l \in rows : l.v = v /\ l.status = Rating(v)
      /\ \A k, l \in rows : k.v = l.v => k = l
  <2>1. \A l \in rows : \E v \in Variants : Differs(v) /\ l = [v |-> v, status |-> Rating(v)]
    OBVIOUS
  <2>2. \A v \in Variants : Differs(v) => [v |-> v, status |-> Rating(v)] \in rows
    OBVIOUS
  <2> HIDE DEF rows
  <2>3. ASSUME NEW l \in rows PROVE l.v \in Variants /\ Differs(l.v) /\ l = [v |-> l.v, status |-> Rating(l.v)]
    BY <2>1
  <2>4. \A v \in Variants : Differs(v) => \E l \in rows : l.v = v /\ l.status = Rating(v) BY <2>2
  <2>5. \A k, l \in rows : k.v = l.v => k = l BY <2>3
  <2> QED BY <2>3, <2>4, <2>5
<1> HIDE DEF rows
<1>6. rec \in Scan /\ rec.rows = rows /\ rec.alert = {} /\ rec.at = "compare" BY <1>4 DEF Scan
<1> HIDE DEF rec
<1>7. AlertTypeOK' BY <1>1, <1>2, <1>6 DEF AlertTypeOK, adviceVars
<1>8. scan'[r] = rec /\ \A s \in Scans \ {r} : scan'[s] = scan[s] BY <1>1, <1>2 DEF AlertTypeOK
<1>9. ScansInOrder'
  <2> SUFFICES ASSUME NEW s \in Scans
               PROVE  /\ \A k, l \in scan'[s].rows : k.v = l.v => k = l
                      /\ \A k, l \in scan'[s].alert : k = l
                      /\ \A k \in scan'[s].rows, l \in scan'[s].alert : k.v # l.v
                      /\ scan'[s].at # "notify" => scan'[s].alert = {}
                      /\ scan'[s].at = "idle" => scan'[s].rows = {}
    BY DEF ScansInOrder
  <2>1. CASE s = r BY <1>5, <1>6, <1>8, <2>1
  <2>2. CASE s # r
    <3>1. scan'[s] = scan[s] BY <1>8, <2>2
    <3> QED BY <1>2, <3>1 DEF ScansInOrder
  <2> QED BY <2>1, <2>2
<1>10. scan[r].rows = {} /\ scan[r].alert = {} BY <1>1, <1>2 DEF ScansInOrder
<1>11. RecordedIsTold' BY <1>1, <1>6, <1>8, <1>10 DEF AlertInv, RecordedIsTold
<1>12. AlertsBounded'
  <2> SUFFICES ASSUME NEW v \in Variants
               PROVE  2 * alerted'[v] + AlertsLeft(v)' <= Cardinality(Scans) * (Cardinality(Scans) + 3)
    BY DEF AlertsBounded
  <2>1. Differs(v)' <=> Differs(v) BY <1>1 DEF Differs, Rating
  <2>2. r \notin Fresh(v) /\ r \notin Stale(v) /\ r \notin Telling(v)
    BY <1>10 DEF Fresh, Stale, Telling
  <2>3. (r \in Fresh(v)' <=> Differs(v)) /\ r \notin Stale(v)' /\ r \notin Telling(v)'
    <3>1. UNCHANGED shelf BY <1>1
    <3>2. /\ r \in Fresh(v)' <=> \E l \in rec.rows : l.v = v /\ l.status = Rating(v)
          /\ r \in Stale(v)' <=> \E l \in rec.rows : l.v = v /\ l.status # Rating(v)
          /\ r \in Telling(v)' <=> \E l \in rec.alert : l.v = v
      BY <1>1, <1>2, <1>6, <3>1, ScanEffects
    <3> QED BY <1>5, <1>6, <3>2
  <2>4. /\ Cardinality(Fresh(v)') = Cardinality(Fresh(v)) + (IF Differs(v) THEN 1 ELSE 0)
        /\ Cardinality(Stale(v)') = Cardinality(Stale(v))
        /\ Cardinality(Telling(v)') = Cardinality(Telling(v))
    <3>1. Cardinality(Fresh(v)) \in Nat /\ Cardinality(Stale(v)) \in Nat /\ Cardinality(Telling(v)) \in Nat
      BY <1>2, ScansOfVariant
    <3>2. UNCHANGED shelf BY <1>1
    <3>3. /\ Cardinality(Fresh(v)') = Cardinality(Fresh(v)) - (IF r \in Fresh(v) THEN 1 ELSE 0)
                                      + (IF r \in Fresh(v)' THEN 1 ELSE 0)
          /\ Cardinality(Stale(v)') = Cardinality(Stale(v)) - (IF r \in Stale(v) THEN 1 ELSE 0)
                                      + (IF r \in Stale(v)' THEN 1 ELSE 0)
          /\ Cardinality(Telling(v)') = Cardinality(Telling(v)) - (IF r \in Telling(v) THEN 1 ELSE 0)
                                      + (IF r \in Telling(v)' THEN 1 ELSE 0)
      BY <1>1, <1>2, <1>6, <3>2, ScanEffects
    <3> QED BY <2>2, <2>3, <3>1, <3>3
  <2>5. AlertsLeft(v)' = AlertsLeft(v)
    <3>1. /\ AlertsLeft(v)' = 2 * Cardinality(Telling(v)') + 2 * Cardinality(Fresh(v)')
                + Corrections(Cardinality(Stale(v)'))
                + (IF Differs(v)' THEN 2 * (Cardinality(Scans) - Cardinality(Stale(v)') - Cardinality(Fresh(v)')) ELSE 0)
      BY DEF AlertsLeft, Corrections
    <3>2. /\ Cardinality(Fresh(v)) \in Nat /\ Cardinality(Stale(v)) \in Nat
          /\ Cardinality(Telling(v)) \in Nat /\ Cardinality(Scans) \in Nat
          /\ Corrections(Cardinality(Stale(v))) \in Int
      BY <1>2, ScansOfVariant, AlertsLeftType
    <3> QED BY <2>1, <2>4, <3>1, <3>2 DEF AlertsLeft
  <2> QED BY <1>1, <2>5 DEF AlertInv, AlertsBounded
<1>13. AdviceInOrder' /\ ReportsBounded' BY <1>1, <1>2, AdviceStays DEF AlertTypeOK
<1> QED BY <1>7, <1>9, <1>11, <1>12, <1>13 DEF AlertInv

(* A rating is recorded, and an alert about it is due: a row for what the variant is
   rated settles it, an old one opens it to the scans that hold nothing old. *)
LEMMA SaveRatingKeeps ==
    ASSUME AlertInv, NEW r \in Scans, NEW l \in scan[r].rows, SaveRating(r, l)
    PROVE  AlertInv'
<1> DEFINE left == scan[r].rows \ {l}
           rec == IF Alerting(l.status) THEN [at |-> "notify", rows |-> left, alert |-> {l}]
                  ELSE IF left = {} THEN NoScan ELSE [at |-> "compare", rows |-> left, alert |-> {}]
           n == Cardinality(Scans)
<1>1. AlertTypeOK /\ ScansInOrder BY DEF AlertInv
<1>2. /\ scan[r].rows \subseteq Rated /\ scan[r].alert = {}
      /\ l.v \in Variants /\ l.status \in Ratings
  BY <1>1 DEF SaveRating, ScansInOrder, AlertTypeOK, Scan, Rated
<1>3. /\ scan' = [scan EXCEPT ![r] = rec]
      /\ lastStatus' = [lastStatus EXCEPT ![l.v] = l.status]
      /\ heard' = IF l.status = "GREEN" THEN [heard EXCEPT ![l.v] = {}] ELSE heard
      /\ UNCHANGED <<shelf, alerted, adviceVars, moves, mishaps>>
  BY <1>1 DEF SaveRating, ScansOn, AlertTypeOK, Scan
<1>4. /\ rec \in Scan /\ rec.rows = left /\ rec.alert = (IF Alerting(l.status) THEN {l} ELSE {})
      /\ rec.at # "notify" => rec.alert = {}
      /\ rec.at = "idle" => rec.rows = {}
  BY <1>2 DEF Scan, NoScan
<1> HIDE DEF rec
<1>5. AlertTypeOK'
  <2>1. lastStatus' \in [Variants -> Ratings \cup {"NONE"}] BY <1>1, <1>2, <1>3 DEF AlertTypeOK
  <2>2. heard' \in [Variants -> SUBSET Ratings] BY <1>1, <1>2, <1>3 DEF AlertTypeOK
  <2> QED BY <1>1, <1>3, <1>4, <2>1, <2>2 DEF AlertTypeOK, adviceVars
<1>6. scan'[r] = rec /\ \A s \in Scans \ {r} : scan'[s] = scan[s] BY <1>1, <1>3 DEF AlertTypeOK
<1>7. \A k \in left : k \in scan[r].rows /\ k.v # l.v BY <1>1 DEF ScansInOrder
<1>8. ScansInOrder'
  <2> SUFFICES ASSUME NEW s \in Scans
               PROVE  /\ \A j, k \in scan'[s].rows : j.v = k.v => j = k
                      /\ \A j, k \in scan'[s].alert : j = k
                      /\ \A j \in scan'[s].rows, k \in scan'[s].alert : j.v # k.v
                      /\ scan'[s].at # "notify" => scan'[s].alert = {}
                      /\ scan'[s].at = "idle" => scan'[s].rows = {}
    BY DEF ScansInOrder
  <2>1. CASE s = r
    <3>1. \A j, k \in left : j.v = k.v => j = k BY <1>1 DEF ScansInOrder
    <3> QED BY <1>4, <1>6, <1>7, <2>1, <3>1
  <2>2. CASE s # r
    <3>1. scan'[s] = scan[s] BY <1>6, <2>2
    <3> QED BY <1>1, <3>1 DEF ScansInOrder
  <2> QED BY <2>1, <2>2
<1>9. RecordedIsTold'
  <2> SUFFICES ASSUME mishaps' = 0, NEW v \in Variants, lastStatus'[v] \in {"RED", "AMBER"}
               PROVE  \/ lastStatus'[v] \in heard'[v]
                      \/ \E s \in Scans : [v |-> v, status |-> lastStatus'[v]] \in scan'[s].alert
    BY DEF RecordedIsTold
  <2>1. CASE v = l.v
    <3>1. lastStatus'[v] = l.status BY <1>1, <1>2, <1>3, <2>1 DEF AlertTypeOK
    <3>2. Alerting(l.status) BY <3>1 DEF Alerting
    <3>3. l = [v |-> v, status |-> l.status] BY <1>2, <2>1 DEF Rated
    <3> QED BY <1>4, <1>6, <3>1, <3>2, <3>3
  <2>2. CASE v # l.v
    <3>1. lastStatus'[v] = lastStatus[v] /\ heard'[v] = heard[v] /\ mishaps = 0
      BY <1>1, <1>3, <2>2 DEF AlertTypeOK
    <3>2. \/ lastStatus[v] \in heard[v]
          \/ \E s \in Scans : [v |-> v, status |-> lastStatus[v]] \in scan[s].alert
      BY <3>1 DEF AlertInv, RecordedIsTold
    <3> QED BY <1>2, <1>6, <3>1, <3>2
  <2> QED BY <2>1, <2>2
<1>10. AlertsBounded'
  <2> SUFFICES ASSUME NEW v \in Variants
               PROVE  2 * alerted'[v] + AlertsLeft(v)' <= Cardinality(Scans) * (Cardinality(Scans) + 3)
    BY DEF AlertsBounded
  <2> DEFINE F == Cardinality(Fresh(v))
             S == Cardinality(Stale(v))
             T == Cardinality(Telling(v))
             F2 == Cardinality(Fresh(v)')
             S2 == Cardinality(Stale(v)')
             T2 == Cardinality(Telling(v)')
  <2>1. F \in Nat /\ S \in Nat /\ T \in Nat /\ n \in Nat /\ F + S + T <= n BY <1>1, ScansOfVariant
  <2>2. /\ Corrections(S) \in Int /\ n * (n + 3) \in Int /\ alerted[v] \in Nat
        /\ S >= 1 => Corrections(S - 1) = Corrections(S) - 2 * (n - S + 2)
    BY <1>1, AlertsLeftType
  <2>3. AlertsLeft(v)' = 2 * T2 + 2 * F2 + Corrections(S2) + (IF Differs(v)' THEN 2 * (n - S2 - F2) ELSE 0)
    BY DEF AlertsLeft, Corrections
  <2>4. 2 * alerted[v] + AlertsLeft(v) <= n * (n + 3) /\ alerted'[v] = alerted[v]
    BY <1>3 DEF AlertInv, AlertsBounded
  <2>5. AlertsLeft(v) = 2 * T + 2 * F + Corrections(S) + (IF Differs(v) THEN 2 * (n - S - F) ELSE 0)
    BY DEF AlertsLeft
  <2>6. /\ r \in Fresh(v)' <=> \E k \in left : k.v = v /\ k.status = Rating(v)
        /\ r \in Stale(v)' <=> \E k \in left : k.v = v /\ k.status # Rating(v)
        /\ r \in Telling(v)' <=> \E k \in rec.alert : k.v = v
    <3>1. UNCHANGED shelf BY <1>3
    <3>2. /\ r \in Fresh(v)' <=> \E k \in rec.rows : k.v = v /\ k.status = Rating(v)
          /\ r \in Stale(v)' <=> \E k \in rec.rows : k.v = v /\ k.status # Rating(v)
          /\ r \in Telling(v)' <=> \E k \in rec.alert : k.v = v
      BY <1>1, <1>3, <1>4, <3>1, ScanEffects
    <3> QED BY <1>4, <3>2
  <2>7. /\ F2 = F - (IF r \in Fresh(v) THEN 1 ELSE 0) + (IF r \in Fresh(v)' THEN 1 ELSE 0)
        /\ S2 = S - (IF r \in Stale(v) THEN 1 ELSE 0) + (IF r \in Stale(v)' THEN 1 ELSE 0)
        /\ T2 = T - (IF r \in Telling(v) THEN 1 ELSE 0) + (IF r \in Telling(v)' THEN 1 ELSE 0)
    <3>1. UNCHANGED shelf BY <1>3
    <3> QED BY <1>1, <1>3, <1>4, <3>1, ScanEffects
  <2>8. r \notin Telling(v) BY <1>2 DEF Telling
  <2>9. Differs(v)' <=> Rating(v) # lastStatus'[v] BY <1>3 DEF Differs, Rating
  <2>10. CASE v # l.v
    <3>1. (r \in Fresh(v)' <=> r \in Fresh(v)) /\ (r \in Stale(v)' <=> r \in Stale(v))
      BY <2>6, <2>10 DEF Fresh, Stale
    <3>2. r \notin Telling(v)' BY <1>4, <2>6, <2>10
    <3>3. F2 = F /\ S2 = S /\ T2 = T BY <2>1, <2>7, <2>8, <3>1, <3>2
    <3>4. Differs(v)' <=> Differs(v) BY <1>1, <1>3, <2>9, <2>10 DEF Differs, AlertTypeOK
    <3> HIDE DEF F, S, T, F2, S2, T2, n
    <3>5. AlertsLeft(v)' = AlertsLeft(v) BY <2>3, <2>5, <3>3, <3>4
    <3> QED BY <2>4, <3>5 DEF n
  <2>11. CASE v = l.v /\ l.status = Rating(v)
    <3>1. r \in Fresh(v) /\ r \notin Fresh(v)' BY <1>7, <2>6, <2>11 DEF Fresh
    <3>2. r \notin Stale(v) /\ r \notin Stale(v)' BY <1>1, <1>7, <2>6, <2>11 DEF Stale, ScansInOrder
    <3>3. F2 = F - 1 /\ S2 = S /\ T2 <= T + 1 /\ T2 \in Int BY <2>1, <2>7, <2>8, <3>1, <3>2
    <3>4. ~Differs(v)' BY <1>1, <1>2, <1>3, <2>9, <2>11 DEF AlertTypeOK
    <3> HIDE DEF F, S, T, F2, S2, T2, n
    <3>5. AlertsLeft(v)' <= AlertsLeft(v) /\ AlertsLeft(v)' \in Int /\ AlertsLeft(v) \in Int
      BY <2>1, <2>2, <2>3, <2>5, <3>3, <3>4
    <3> QED BY <2>2, <2>4, <3>5 DEF n
  <2>12. CASE v = l.v /\ l.status # Rating(v)
    <3>1. r \in Stale(v) /\ r \notin Stale(v)' BY <1>7, <2>6, <2>12 DEF Stale
    <3>2. r \notin Fresh(v) /\ r \notin Fresh(v)' BY <1>1, <1>7, <2>6, <2>12 DEF Fresh, ScansInOrder
    <3>3. F2 = F /\ S2 = S - 1 /\ T2 <= T + 1 /\ T2 \in Int BY <2>1, <2>7, <2>8, <3>1, <3>2
    <3>4. S >= 1
      <4>1. IsFiniteSet(Stale(v)) BY <1>1, ScansOfVariant
      <4>2. S # 0 BY <3>1, <4>1, FS_EmptySet
      <4> QED BY <2>1, <4>2
    <3> HIDE DEF F, S, T, F2, S2, T2, n
    <3>5. Corrections(S2) = Corrections(S) - 2 * (n - S + 2) BY <2>2, <3>3, <3>4
    <3>6. AlertsLeft(v)' <= AlertsLeft(v) /\ AlertsLeft(v)' \in Int /\ AlertsLeft(v) \in Int
      BY <2>1, <2>2, <2>3, <2>5, <3>3, <3>4, <3>5
    <3> QED BY <2>2, <2>4, <3>6 DEF n
  <2> QED BY <2>10, <2>11, <2>12
<1>11. AdviceInOrder' /\ ReportsBounded' BY <1>1, <1>3, AdviceStays DEF AlertTypeOK
<1> QED BY <1>5, <1>8, <1>9, <1>10, <1>11 DEF AlertInv

(* An alert is sent: what was due has been done. *)
LEMMA AlertOwnerKeeps ==
    ASSUME AlertInv, NEW r \in Scans, NEW l \in scan[r].alert, AlertOwner(r, l)
    PROVE  AlertInv'
<1> DEFINE rows == scan[r].rows
           rec == IF rows = {} THEN NoScan ELSE [at |-> "compare", rows |-> rows, alert |-> {}]
           n == Cardinality(Scans)
<1>1. AlertTypeOK /\ ScansInOrder BY DEF AlertInv
<1>2. rows \subseteq Rated /\ l \in Rated /\ l.v \in Variants /\ l.status \in Ratings
  BY <1>1 DEF AlertTypeOK, Scan, Rated
<1>3. /\ scan' = [scan EXCEPT ![r] = rec]
      /\ alerted' = [alerted EXCEPT ![l.v] = alerted[l.v] + 1]
      /\ heard' = [heard EXCEPT ![l.v] = heard[l.v] \cup {l.status}]
      /\ UNCHANGED <<shelf, lastStatus, adviceVars, moves, mishaps>>
  BY <1>1, <1>2 DEF AlertOwner, ScansOn, AlertTypeOK, Scan
<1>4. /\ rec \in Scan /\ rec.rows = rows /\ rec.alert = {}
      /\ rec.at = "idle" => rec.rows = {}
  BY <1>2 DEF Scan, NoScan
<1> HIDE DEF rec
<1>5. AlertTypeOK'
  <2>1. alerted[l.v] \in Nat /\ heard[l.v] \subseteq Ratings BY <1>1, <1>2 DEF AlertTypeOK
  <2>2. alerted' \in [Variants -> Nat] /\ heard' \in [Variants -> SUBSET Ratings]
    BY <1>1, <1>2, <1>3, <2>1 DEF AlertTypeOK
  <2> QED BY <1>1, <1>3, <1>4, <2>2 DEF AlertTypeOK, adviceVars
<1>6. scan'[r] = rec /\ \A s \in Scans \ {r} : scan'[s] = scan[s] BY <1>1, <1>3 DEF AlertTypeOK
<1>7. ScansInOrder'
  <2> SUFFICES ASSUME NEW s \in Scans
               PROVE  /\ \A j, k \in scan'[s].rows : j.v = k.v => j = k
                      /\ \A j, k \in scan'[s].alert : j = k
                      /\ \A j \in scan'[s].rows, k \in scan'[s].alert : j.v # k.v
                      /\ scan'[s].at # "notify" => scan'[s].alert = {}
                      /\ scan'[s].at = "idle" => scan'[s].rows = {}
    BY DEF ScansInOrder
  <2>1. CASE s = r
    <3>1. \A j, k \in rows : j.v = k.v => j = k BY <1>1 DEF ScansInOrder
    <3> QED BY <1>4, <1>6, <2>1, <3>1
  <2>2. CASE s # r
    <3>1. scan'[s] = scan[s] BY <1>6, <2>2
    <3> QED BY <1>1, <3>1 DEF ScansInOrder
  <2> QED BY <2>1, <2>2
<1>8. RecordedIsTold'
  <2> SUFFICES ASSUME mishaps' = 0, NEW v \in Variants, lastStatus'[v] \in {"RED", "AMBER"}
               PROVE  \/ lastStatus'[v] \in heard'[v]
                      \/ \E s \in Scans : [v |-> v, status |-> lastStatus'[v]] \in scan'[s].alert
    BY DEF RecordedIsTold
  <2>1. lastStatus'[v] = lastStatus[v] /\ heard[v] \subseteq heard'[v] /\ mishaps = 0
    BY <1>1, <1>3 DEF AlertTypeOK
  <2>2. CASE lastStatus[v] \in heard[v] BY <2>1, <2>2
  <2>3. ASSUME NEW s \in Scans, [v |-> v, status |-> lastStatus[v]] \in scan[s].alert
        PROVE  \/ lastStatus[v] \in heard'[v]
               \/ \E q \in Scans : [v |-> v, status |-> lastStatus[v]] \in scan'[q].alert
    <3>1. CASE s = r
      <4>1. l = [v |-> v, status |-> lastStatus[v]] BY <1>1, <2>3, <3>1 DEF ScansInOrder
      <4>2. l.v = v /\ l.status = lastStatus[v] BY <4>1
      <4> QED BY <1>1, <1>2, <1>3, <4>2 DEF AlertTypeOK
    <3>2. CASE s # r BY <1>6, <2>3, <3>2
    <3> QED BY <3>1, <3>2
  <2> QED BY <2>1, <2>2, <2>3 DEF AlertInv, RecordedIsTold
<1>9. AlertsBounded'
  <2> SUFFICES ASSUME NEW v \in Variants
               PROVE  2 * alerted'[v] + AlertsLeft(v)' <= Cardinality(Scans) * (Cardinality(Scans) + 3)
    BY DEF AlertsBounded
  <2> DEFINE F == Cardinality(Fresh(v))
             S == Cardinality(Stale(v))
             T == Cardinality(Telling(v))
             F2 == Cardinality(Fresh(v)')
             S2 == Cardinality(Stale(v)')
             T2 == Cardinality(Telling(v)')
  <2>1. F \in Nat /\ S \in Nat /\ T \in Nat /\ n \in Nat /\ F + S + T <= n BY <1>1, ScansOfVariant
  <2>2. Corrections(S) \in Int /\ n * (n + 3) \in Int /\ alerted[v] \in Nat BY <1>1, AlertsLeftType
  <2>3. AlertsLeft(v)' = 2 * T2 + 2 * F2 + Corrections(S2) + (IF Differs(v)' THEN 2 * (n - S2 - F2) ELSE 0)
    BY DEF AlertsLeft, Corrections
  <2>4. 2 * alerted[v] + AlertsLeft(v) <= n * (n + 3) BY DEF AlertInv, AlertsBounded
  <2>5. AlertsLeft(v) = 2 * T + 2 * F + Corrections(S) + (IF Differs(v) THEN 2 * (n - S - F) ELSE 0)
    BY DEF AlertsLeft
  <2>6. UNCHANGED shelf BY <1>3
  <2>7. /\ r \in Fresh(v)' <=> \E k \in rec.rows : k.v = v /\ k.status = Rating(v)
        /\ r \in Stale(v)' <=> \E k \in rec.rows : k.v = v /\ k.status # Rating(v)
        /\ r \in Telling(v)' <=> \E k \in rec.alert : k.v = v
    BY <1>1, <1>3, <1>4, <2>6, ScanEffects
  <2>8. (r \in Fresh(v)' <=> r \in Fresh(v)) /\ (r \in Stale(v)' <=> r \in Stale(v)) /\ r \notin Telling(v)'
    BY <1>4, <2>7 DEF Fresh, Stale
  <2>9. /\ F2 = F - (IF r \in Fresh(v) THEN 1 ELSE 0) + (IF r \in Fresh(v)' THEN 1 ELSE 0)
        /\ S2 = S - (IF r \in Stale(v) THEN 1 ELSE 0) + (IF r \in Stale(v)' THEN 1 ELSE 0)
        /\ T2 = T - (IF r \in Telling(v) THEN 1 ELSE 0) + (IF r \in Telling(v)' THEN 1 ELSE 0)
    BY <1>1, <1>3, <1>4, <2>6, ScanEffects
  <2>10. Differs(v)' <=> Differs(v) BY <1>3 DEF Differs, Rating
  <2>11. r \in Telling(v) <=> v = l.v
    <3>1. \A k \in scan[r].alert : k = l BY <1>1 DEF ScansInOrder
    <3> QED BY <3>1 DEF Telling
  <2>12. /\ F2 = F /\ S2 = S /\ T2 = T - (IF v = l.v THEN 1 ELSE 0)
         /\ alerted'[v] = alerted[v] + (IF v = l.v THEN 1 ELSE 0)
    <3>1. alerted'[v] = alerted[v] + (IF v = l.v THEN 1 ELSE 0)
      BY <1>1, <1>2, <1>3, <2>2 DEF AlertTypeOK
    <3> QED BY <2>1, <2>8, <2>9, <2>11, <3>1
  <2> HIDE DEF F, S, T, F2, S2, T2, n
  <2>13. 2 * alerted'[v] + AlertsLeft(v)' <= n * (n + 3)
    BY <2>1, <2>2, <2>3, <2>4, <2>5, <2>10, <2>12
  <2> QED BY <2>13 DEF n
<1>10. AdviceInOrder' /\ ReportsBounded' BY <1>1, <1>3, AdviceStays DEF AlertTypeOK
<1> QED BY <1>5, <1>7, <1>8, <1>9, <1>10 DEF AlertInv

(* A scan stops: what it held is not sent any more. *)
LEMMA ScanStopsKeeps ==
    ASSUME AlertInv, NEW r \in Scans, ScanStops(r)
    PROVE  AlertInv'
<1> DEFINE n == Cardinality(Scans)
<1>1. AlertTypeOK /\ ScansInOrder BY DEF AlertInv
<1>2. /\ scan' = [scan EXCEPT ![r] = NoScan] /\ mishaps' = mishaps + 1
      /\ UNCHANGED <<shelf, lastStatus, alerted, heard, adviceVars, moves>>
  BY DEF ScanStops
<1>3. NoScan \in Scan /\ NoScan.rows = {} /\ NoScan.alert = {} BY DEF Scan, NoScan
<1>4. AlertTypeOK' BY <1>1, <1>2, <1>3 DEF AlertTypeOK, adviceVars
<1>5. scan'[r] = NoScan /\ \A s \in Scans \ {r} : scan'[s] = scan[s] BY <1>1, <1>2 DEF AlertTypeOK
<1>6. ScansInOrder'
  <2> SUFFICES ASSUME NEW s \in Scans
               PROVE  /\ \A j, k \in scan'[s].rows : j.v = k.v => j = k
                      /\ \A j, k \in scan'[s].alert : j = k
                      /\ \A j \in scan'[s].rows, k \in scan'[s].alert : j.v # k.v
                      /\ scan'[s].at # "notify" => scan'[s].alert = {}
                      /\ scan'[s].at = "idle" => scan'[s].rows = {}
    BY DEF ScansInOrder
  <2>1. CASE s = r BY <1>3, <1>5, <2>1
  <2>2. CASE s # r
    <3>1. scan'[s] = scan[s] BY <1>5, <2>2
    <3> QED BY <1>1, <3>1 DEF ScansInOrder
  <2> QED BY <2>1, <2>2
<1>7. mishaps' # 0 BY <1>1, <1>2 DEF AlertTypeOK
<1>8. RecordedIsTold' BY <1>7 DEF RecordedIsTold
<1>9. AlertsBounded'
  <2> SUFFICES ASSUME NEW v \in Variants
               PROVE  2 * alerted'[v] + AlertsLeft(v)' <= Cardinality(Scans) * (Cardinality(Scans) + 3)
    BY DEF AlertsBounded
  <2> DEFINE F == Cardinality(Fresh(v))
             S == Cardinality(Stale(v))
             T == Cardinality(Telling(v))
             F2 == Cardinality(Fresh(v)')
             S2 == Cardinality(Stale(v)')
             T2 == Cardinality(Telling(v)')
  <2>1. F \in Nat /\ S \in Nat /\ T \in Nat /\ n \in Nat /\ F + S + T <= n BY <1>1, ScansOfVariant
  <2>2. /\ Corrections(S) \in Int /\ n * (n + 3) \in Int /\ alerted[v] \in Nat
        /\ S >= 1 => Corrections(S - 1) = Corrections(S) - 2 * (n - S + 2)
    BY <1>1, AlertsLeftType
  <2>3. AlertsLeft(v)' = 2 * T2 + 2 * F2 + Corrections(S2) + (IF Differs(v)' THEN 2 * (n - S2 - F2) ELSE 0)
    BY DEF AlertsLeft, Corrections
  <2>4. 2 * alerted[v] + AlertsLeft(v) <= n * (n + 3) /\ alerted'[v] = alerted[v]
    BY <1>2 DEF AlertInv, AlertsBounded
  <2>5. AlertsLeft(v) = 2 * T + 2 * F + Corrections(S) + (IF Differs(v) THEN 2 * (n - S - F) ELSE 0)
    BY DEF AlertsLeft
  <2>6. UNCHANGED shelf BY <1>2
  <2>7. /\ r \in Fresh(v)' <=> \E k \in NoScan.rows : k.v = v /\ k.status = Rating(v)
        /\ r \in Stale(v)' <=> \E k \in NoScan.rows : k.v = v /\ k.status # Rating(v)
        /\ r \in Telling(v)' <=> \E k \in NoScan.alert : k.v = v
    BY <1>1, <1>2, <1>3, <2>6, ScanEffects
  <2>8. r \notin Fresh(v)' /\ r \notin Stale(v)' /\ r \notin Telling(v)' BY <1>3, <2>7
  <2>9. /\ F2 = F - (IF r \in Fresh(v) THEN 1 ELSE 0) + (IF r \in Fresh(v)' THEN 1 ELSE 0)
        /\ S2 = S - (IF r \in Stale(v) THEN 1 ELSE 0) + (IF r \in Stale(v)' THEN 1 ELSE 0)
        /\ T2 = T - (IF r \in Telling(v) THEN 1 ELSE 0) + (IF r \in Telling(v)' THEN 1 ELSE 0)
    BY <1>1, <1>2, <1>3, <2>6, ScanEffects
  <2>10. Differs(v)' <=> Differs(v) BY <1>2 DEF Differs, Rating
  <2>11. /\ F2 = F \/ F2 = F - 1
         /\ T2 = T \/ T2 = T - 1
         /\ S2 = S \/ (S2 = S - 1 /\ S >= 1)
    <3>1. IsFiniteSet(Stale(v)) BY <1>1, ScansOfVariant
    <3>2. r \in Stale(v) => S # 0 BY <3>1, FS_EmptySet
    <3> QED BY <2>1, <2>8, <2>9, <3>2
  <2> HIDE DEF F, S, T, F2, S2, T2, n
  <2>12. Corrections(S2) <= Corrections(S) - 2 * (S - S2) /\ Corrections(S2) \in Int
    BY <2>1, <2>2, <2>11
  <2>13. AlertsLeft(v)' <= AlertsLeft(v) /\ AlertsLeft(v)' \in Int /\ AlertsLeft(v) \in Int
    BY <2>1, <2>2, <2>3, <2>5, <2>10, <2>11, <2>12
  <2> QED BY <2>2, <2>4, <2>13 DEF n
<1>10. AdviceInOrder' /\ ReportsBounded' BY <1>1, <1>2, AdviceStays DEF AlertTypeOK
<1> QED BY <1>4, <1>6, <1>8, <1>9, <1>10 DEF AlertInv

(* A set of codes that is contained in another has no more of them. *)
LEMMA FewerCodes ==
    ASSUME NEW S, NEW T, IsFiniteSet(S), T \subseteq S
    PROVE  IsFiniteSet(T) /\ Cardinality(T) \in Nat /\ Cardinality(S) \in Nat
           /\ Cardinality(T) <= Cardinality(S)
  BY FS_Subset, FS_CardinalityType

(* What a code was last told and recorded does not cross as hours pass. *)
LEMMA AdviceHourKeeps ==
    ASSUME AlertInv, HourPasses
    PROVE  AlertInv'
<1>1. AlertTypeOK BY DEF AlertInv
<1>2. /\ sentAge' = [c \in Codes |-> IF sentAge[c] < DedupeHours THEN sentAge[c] + 1 ELSE sentAge[c]]
      /\ toldAge' = [c \in Codes |-> IF toldAge[c] < DedupeHours THEN toldAge[c] + 1 ELSE toldAge[c]]
      /\ UNCHANGED <<stockAlertVars, findings, advice, early, mishaps>>
  BY DEF HourPasses
<1>3. \A c \in Codes : sentAge[c] \in 0..DedupeHours /\ toldAge[c] \in 0..DedupeHours
  BY <1>1 DEF AlertTypeOK
<1>4. AlertTypeOK' BY <1>1, <1>2, <1>3, AlertAssumption DEF AlertTypeOK, stockAlertVars
<1>5. Unrecorded' \subseteq Unrecorded
  <2>1. \A c \in Codes : toldAge'[c] < sentAge'[c] => toldAge[c] < sentAge[c]
    BY <1>2, <1>3, AlertAssumption
  <2> QED BY <1>2, <2>1 DEF Unrecorded
<1>6. ReportsBounded'
  <2>1. IsFiniteSet(Unrecorded') /\ Cardinality(Unrecorded') <= Cardinality(Unrecorded)
        /\ Cardinality(Unrecorded') \in Nat /\ Cardinality(Unrecorded) \in Nat
    BY <1>5, FewerCodes DEF AlertInv, ReportsBounded
  <2> QED BY <1>1, <1>2, <2>1 DEF AlertInv, ReportsBounded, AlertTypeOK
<1>7. AdviceInOrder' BY <1>2 DEF AlertInv, AdviceInOrder
<1>8. ScansInOrder' /\ RecordedIsTold' /\ AlertsBounded' BY <1>1, <1>2, StockStays DEF AlertTypeOK
<1> QED BY <1>4, <1>6, <1>7, <1>8 DEF AlertInv

(* Steps of the advisor that tell nobody. *)
LEMMA QuietAdviceKeeps ==
    ASSUME AlertInv, advice' \in Advice, findings' \subseteq Codes,
           advice'.told = advice.told, advice'.at # "record" => advice'.told = {},
           UNCHANGED <<stockAlertVars, sentAge, toldAge, early, mishaps>>
    PROVE  AlertInv'
<1>1. AlertTypeOK BY DEF AlertInv
<1>2. AlertTypeOK' BY <1>1 DEF AlertTypeOK, stockAlertVars
<1>3. AdviceInOrder' BY DEF AlertInv, AdviceInOrder
<1>4. Unrecorded' = Unrecorded BY DEF Unrecorded
<1>5. ReportsBounded' BY <1>4 DEF AlertInv, ReportsBounded
<1>6. ScansInOrder' /\ RecordedIsTold' /\ AlertsBounded' BY <1>1, StockStays DEF AlertTypeOK
<1> QED BY <1>2, <1>3, <1>5, <1>6 DEF AlertInv

LEMMA QuietAdvice ==
    ASSUME AlertInv
    PROVE  /\ Evaluate => AlertInv'
           /\ \A f \in SUBSET Codes : FindingsChange(f) => AlertInv'
           /\ \A c \in Codes : SkipCode(c) => AlertInv'
<1>1. AlertTypeOK /\ AdviceInOrder BY DEF AlertInv
<1>2. advice \in Advice /\ findings \subseteq Codes BY <1>1 DEF AlertTypeOK
<1>3. ASSUME Evaluate PROVE AlertInv'
  <2>1. /\ advice' = [at |-> "check", codes |-> findings, told |-> {}] /\ advice.at = "idle"
        /\ UNCHANGED <<stockAlertVars, findings, sentAge, toldAge, early, mishaps>>
    BY <1>3 DEF Evaluate
  <2>2. advice' \in Advice /\ advice'.told = {} BY <1>2, <2>1 DEF Advice
  <2>3. advice.told = {} BY <1>1, <2>1 DEF AdviceInOrder
  <2> QED BY <1>2, <2>1, <2>2, <2>3, QuietAdviceKeeps
<1>4. ASSUME NEW f \in SUBSET Codes, FindingsChange(f) PROVE AlertInv'
  <2>1. findings' = f /\ UNCHANGED <<stockAlertVars, advice, sentAge, toldAge, early, mishaps>>
    BY <1>4 DEF FindingsChange
  <2>2. advice' = advice BY <2>1
  <2> QED BY <1>1, <1>2, <2>1, <2>2, QuietAdviceKeeps DEF AdviceInOrder
<1>5. ASSUME NEW c \in Codes, SkipCode(c) PROVE AlertInv'
  <2>1. /\ advice' = (IF advice.codes \ {c} = {} THEN NoAdvice
                      ELSE [at |-> "check", codes |-> advice.codes \ {c}, told |-> {}])
        /\ advice.at = "check"
        /\ UNCHANGED <<stockAlertVars, findings, sentAge, toldAge, early, mishaps>>
    BY <1>5 DEF SkipCode, AdvisesOn
  <2>2. advice' \in Advice /\ advice'.told = {} BY <1>2, <2>1 DEF Advice, NoAdvice
  <2>3. advice.told = {} BY <1>1, <2>1 DEF AdviceInOrder
  <2> QED BY <1>2, <2>1, <2>2, <2>3, QuietAdviceKeeps
<1> QED BY <1>3, <1>4, <1>5

(* A report that comes early uses up a report nobody recorded. *)
LEMMA ReportKeeps ==
    ASSUME AlertInv, NEW c \in Codes, ReportCode(c)
    PROVE  AlertInv'
<1>1. AlertTypeOK /\ AdviceInOrder BY DEF AlertInv
<1>2. /\ advice.at = "check" /\ sentAge[c] >= DedupeHours
      /\ early' = IF toldAge[c] < DedupeHours THEN early + 1 ELSE early
      /\ toldAge' = [toldAge EXCEPT ![c] = 0]
      /\ advice' = [at |-> "record", codes |-> advice.codes \ {c}, told |-> {c}]
      /\ UNCHANGED <<stockAlertVars, findings, sentAge, mishaps>>
  BY DEF ReportCode, MayReport
<1>3. \A d \in Codes : sentAge[d] \in 0..DedupeHours /\ toldAge[d] \in 0..DedupeHours
  BY <1>1 DEF AlertTypeOK
<1>4. advice' \in Advice /\ advice'.told = {c} /\ advice'.at = "record"
  BY <1>1, <1>2 DEF AlertTypeOK, Advice
<1>5. toldAge' \in [Codes -> 0..DedupeHours] /\ early' \in Nat
  BY <1>1, <1>2, AlertAssumption DEF AlertTypeOK
<1>6. AlertTypeOK' BY <1>1, <1>2, <1>4, <1>5 DEF AlertTypeOK, stockAlertVars
<1>7. AdviceInOrder' BY <1>4 DEF AdviceInOrder
<1>8. advice.told = {} BY <1>1, <1>2 DEF AdviceInOrder
<1>9. Unrecorded' \subseteq Unrecorded \ {c}
  <2>1. \A d \in Codes \ {c} : toldAge'[d] = toldAge[d] BY <1>1, <1>2 DEF AlertTypeOK
  <2> QED BY <1>2, <1>4, <1>8, <2>1 DEF Unrecorded
<1>10. c \in Unrecorded <=> toldAge[c] < DedupeHours
  BY <1>2, <1>3, <1>8, AlertAssumption DEF Unrecorded
<1>11. ReportsBounded'
  <2>1. /\ IsFiniteSet(Unrecorded) /\ early + Cardinality(Unrecorded) <= mishaps
    BY DEF AlertInv, ReportsBounded
  <2>2. /\ IsFiniteSet(Unrecorded \ {c}) /\ Cardinality(Unrecorded) \in Nat
        /\ Cardinality(Unrecorded \ {c})
             = (IF c \in Unrecorded THEN Cardinality(Unrecorded) - 1 ELSE Cardinality(Unrecorded))
    BY <2>1, FS_RemoveElement, FS_CardinalityType
  <2>3. /\ IsFiniteSet(Unrecorded') /\ Cardinality(Unrecorded') \in Nat
        /\ Cardinality(Unrecorded') <= Cardinality(Unrecorded \ {c})
        /\ Cardinality(Unrecorded \ {c}) \in Nat
    BY <1>9, <2>2, FewerCodes
  <2>4. early' + Cardinality(Unrecorded') <= mishaps'
    BY <1>1, <1>2, <1>10, <2>1, <2>2, <2>3 DEF AlertTypeOK
  <2> QED BY <2>3, <2>4 DEF ReportsBounded
<1>12. ScansInOrder' /\ RecordedIsTold' /\ AlertsBounded' BY <1>1, <1>2, StockStays DEF AlertTypeOK
<1> QED BY <1>6, <1>7, <1>11, <1>12 DEF AlertInv

LEMMA RecordKeeps ==
    ASSUME AlertInv, NEW c \in Codes, RecordCode(c)
    PROVE  AlertInv'
<1>1. AlertTypeOK /\ AdviceInOrder BY DEF AlertInv
<1>2. /\ advice.at = "record" /\ c \in advice.told
      /\ sentAge' = [sentAge EXCEPT ![c] = 0]
      /\ advice' = (IF advice.codes = {} THEN NoAdvice
                    ELSE [at |-> "check", codes |-> advice.codes, told |-> {}])
      /\ UNCHANGED <<stockAlertVars, findings, toldAge, early, mishaps>>
  BY DEF RecordCode, AdvisesOn
<1>3. advice' \in Advice /\ advice'.told = {} BY <1>1, <1>2 DEF AlertTypeOK, Advice, NoAdvice
<1>4. sentAge' \in [Codes -> 0..DedupeHours] BY <1>1, <1>2, AlertAssumption DEF AlertTypeOK
<1>5. AlertTypeOK' BY <1>1, <1>2, <1>3, <1>4 DEF AlertTypeOK, stockAlertVars
<1>6. AdviceInOrder' BY <1>3 DEF AdviceInOrder
<1>7. Unrecorded' \subseteq Unrecorded
  <2> SUFFICES ASSUME NEW d \in Codes, toldAge'[d] < sentAge'[d] PROVE d \in Unrecorded
    BY DEF Unrecorded
  <2>1. d # c BY <1>1, <1>2 DEF AlertTypeOK
  <2>2. sentAge'[d] = sentAge[d] /\ toldAge'[d] = toldAge[d] BY <1>1, <1>2, <2>1 DEF AlertTypeOK
  <2>3. d \notin advice.told BY <1>1, <1>2, <2>1 DEF AdviceInOrder
  <2> QED BY <2>2, <2>3 DEF Unrecorded
<1>8. ReportsBounded'
  <2>1. IsFiniteSet(Unrecorded') /\ Cardinality(Unrecorded') <= Cardinality(Unrecorded)
        /\ Cardinality(Unrecorded') \in Nat /\ Cardinality(Unrecorded) \in Nat
    BY <1>7, FewerCodes DEF AlertInv, ReportsBounded
  <2> QED BY <1>1, <1>2, <2>1 DEF AlertInv, ReportsBounded, AlertTypeOK
<1>9. ScansInOrder' /\ RecordedIsTold' /\ AlertsBounded' BY <1>1, <1>2, StockStays DEF AlertTypeOK
<1> QED BY <1>5, <1>6, <1>8, <1>9 DEF AlertInv

(* A run that stops leaves one code at most told and unrecorded. *)
LEMMA AdviceStopsKeeps ==
    ASSUME AlertInv, AdviceStops
    PROVE  AlertInv'
<1>1. AlertTypeOK /\ AdviceInOrder BY DEF AlertInv
<1>2. /\ advice' = NoAdvice /\ mishaps' = mishaps + 1
      /\ UNCHANGED <<stockAlertVars, findings, sentAge, toldAge, early>>
  BY DEF AdviceStops
<1>3. NoAdvice \in Advice /\ NoAdvice.told = {} BY DEF NoAdvice, Advice
<1>4. AlertTypeOK' BY <1>1, <1>2, <1>3 DEF AlertTypeOK, stockAlertVars
<1>5. AdviceInOrder' BY <1>2, <1>3 DEF AdviceInOrder
<1>6. ReportsBounded'
  <2>1. PICK c : advice.told \subseteq {c} BY <1>1 DEF AdviceInOrder
  <2>2. Unrecorded' \subseteq Unrecorded \cup {c} BY <1>2, <2>1 DEF Unrecorded
  <2>3. IsFiniteSet(Unrecorded) /\ early + Cardinality(Unrecorded) <= mishaps
    BY DEF AlertInv, ReportsBounded
  <2>4. /\ IsFiniteSet(Unrecorded \cup {c}) /\ Cardinality(Unrecorded) \in Nat
        /\ Cardinality(Unrecorded \cup {c})
             = (IF c \in Unrecorded THEN Cardinality(Unrecorded) ELSE Cardinality(Unrecorded) + 1)
    BY <2>3, FS_AddElement, FS_CardinalityType
  <2>5. /\ IsFiniteSet(Unrecorded') /\ Cardinality(Unrecorded') \in Nat
        /\ Cardinality(Unrecorded') <= Cardinality(Unrecorded \cup {c})
    BY <2>2, <2>4, FewerCodes
  <2>6. early' + Cardinality(Unrecorded') <= mishaps'
    BY <1>1, <1>2, <2>3, <2>4, <2>5 DEF AlertTypeOK
  <2> QED BY <2>5, <2>6 DEF ReportsBounded
<1>7. ScansInOrder' /\ RecordedIsTold' /\ AlertsBounded' BY <1>1, <1>2, StockStays DEF AlertTypeOK
<1> QED BY <1>4, <1>5, <1>6, <1>7 DEF AlertInv

LEMMA AlertStep == AlertInv /\ [AlertNext]_alertVars => AlertInv'
<1> SUFFICES ASSUME AlertInv, [AlertNext]_alertVars PROVE AlertInv'
    OBVIOUS
<1>1. CASE ShelfMoves BY <1>1, MoveShelfKeeps DEF ShelfMoves
<1>2. CASE FindingsMove BY <1>2, AdviceHourKeeps, QuietAdvice DEF FindingsMove
<1>3. ASSUME NEW r \in Scans, TakeStock(r) \/ Scanning(r) \/ ScanStops(r) PROVE AlertInv'
  BY <1>3, TakeStockKeeps, SaveRatingKeeps, AlertOwnerKeeps, ScanStopsKeeps DEF Scanning
<1>4. CASE Evaluate \/ Advising \/ AdviceStops
  BY <1>4, QuietAdvice, ReportKeeps, RecordKeeps, AdviceStopsKeeps DEF Advising
<1>5. CASE UNCHANGED alertVars
  <2>1. UNCHANGED <<stockAlertVars, adviceVars, mishaps>> BY <1>5 DEF alertVars
  <2>2. AlertTypeOK' /\ mishaps' \in Nat /\ mishaps' >= mishaps
    BY <2>1 DEF AlertInv, AlertTypeOK, stockAlertVars, adviceVars
  <2> QED BY <2>1, <2>2, AdviceStays, StockStays DEF AlertInv
<1> QED BY <1>1, <1>2, <1>3, <1>4, <1>5 DEF AlertNext

LEMMA AlertInvariant == AlertSpec => []AlertInv
<1> QED BY AlertInitInv, AlertStep, PTL DEF AlertSpec

(* What the scorer makes of more units and fewer sales. *)
LEMMA CoverFollowsStock ==
    ASSUME NEW u \in Nat, NEW s \in Nat, NEW u2 \in Nat, NEW s2 \in Nat, u2 >= u, s2 <= s,
           NEW d \in Nat, CoverBelow(u2, s2, d)
    PROVE  CoverBelow(u, s, d)
<1>1. WindowDays \in Nat BY AlertAssumption
<1>2. u * WindowDays <= u2 * WindowDays
  <2>1. u2 * WindowDays = u * WindowDays + (u2 - u) * WindowDays /\ (u2 - u) * WindowDays \in Nat BY <1>1
  <2> QED BY <1>1, <2>1
<1>3. d * s2 <= d * s
  <2>1. d * s = d * s2 + d * (s - s2) /\ d * (s - s2) \in Nat OBVIOUS
  <2> QED BY <2>1
<1>4. u * WindowDays \in Nat /\ u2 * WindowDays \in Nat /\ d * s \in Nat /\ d * s2 \in Nat BY <1>1
<1> QED BY <1>2, <1>3, <1>4 DEF CoverBelow

LEMMA RatingFollows ==
    ASSUME AlertTypeOK
    PROVE  RatingFollowsStock
<1> SUFFICES ASSUME NEW v \in Variants, NEW s \in Shelf, s.units >= shelf[v].units, s.sold <= shelf[v].sold
             PROVE  Worse(Rating(v), Score(s.units, s.sold))
  BY DEF RatingFollowsStock
<1>1. shelf[v].units \in Nat /\ shelf[v].sold \in Nat /\ s.units \in Nat /\ s.sold \in Nat
  BY DEF AlertTypeOK, Shelf
<1>2. /\ ReorderPoint \in Nat /\ AmberDays \in Nat /\ GreenDays \in Nat BY AlertAssumption
<1>3. \A d \in Nat : CoverBelow(s.units, s.sold, d) => CoverBelow(shelf[v].units, shelf[v].sold, d)
  BY <1>1, CoverFollowsStock
<1> QED BY <1>1, <1>2, <1>3 DEF Rating, Score, Worse

(* Shelves, ratings, scans and the advisor's record keep their shape. *)
THEOREM AlertType == AlertSpec => []AlertTypeOK
<1>1. AlertInv => AlertTypeOK BY DEF AlertInv
<1> QED BY <1>1, AlertInvariant, PTL

(* However many scans of a store overlap (StockService.recomputeAndAlert) and wherever
   advisor runs stop: what is recorded has been told or is about to be, a rating that
   does not change is alerted a bounded number of times, the scorer follows the stock,
   and a code is repeated early once at most for each run that stopped. *)
THEOREM OwnerTold == AlertSpec => []OwnerIsTold
<1>1. AlertInv => AlertsPerChange
  <2> SUFFICES ASSUME AlertInv, NEW v \in Variants
               PROVE  2 * alerted[v] <= Cardinality(Scans) * (Cardinality(Scans) + 3)
    BY DEF AlertsPerChange
  <2> DEFINE n == Cardinality(Scans)
             k == Cardinality(Stale(v))
  <2>1. AlertTypeOK /\ ScansInOrder BY DEF AlertInv
  <2>2. /\ Cardinality(Fresh(v)) \in Nat /\ k \in Nat /\ Cardinality(Telling(v)) \in Nat /\ n \in Nat
        /\ Cardinality(Fresh(v)) + k + Cardinality(Telling(v)) <= n
    BY <2>1, ScansOfVariant
  <2>3. /\ Corrections(k) \in Int /\ n * (n + 3) \in Int /\ AlertsLeft(v) \in Int /\ alerted[v] \in Nat
    BY <2>1, AlertsLeftType
  <2>4. Corrections(k) >= 0
    <3>1. k * (2 * n - k + 3) \in Nat
      <4>1. 2 * n - k + 3 \in Nat BY <2>2
      <4> HIDE DEF n, k
      <4> QED BY <2>2, <4>1
    <3> QED BY <3>1 DEF Corrections
  <2>5. AlertsLeft(v) >= 0
    <3>1. AlertsLeft(v) = 2 * Cardinality(Telling(v)) + 2 * Cardinality(Fresh(v)) + Corrections(k)
                          + (IF Differs(v) THEN 2 * (n - k - Cardinality(Fresh(v))) ELSE 0)
      BY DEF AlertsLeft
    <3> QED BY <2>2, <2>3, <2>4, <3>1
  <2>6. 2 * alerted[v] + AlertsLeft(v) <= n * (n + 3) BY DEF AlertInv, AlertsBounded
  <2> QED BY <2>3, <2>5, <2>6
<1>2. AlertInv => DedupedPerCode
  <2> SUFFICES ASSUME AlertInv PROVE early <= mishaps
    BY DEF DedupedPerCode
  <2>1. Cardinality(Unrecorded) \in Nat BY FS_CardinalityType DEF AlertInv, ReportsBounded
  <2> QED BY <2>1 DEF AlertInv, ReportsBounded, AlertTypeOK
<1>3. AlertInv => OwnerIsTold BY <1>1, <1>2, RatingFollows DEF AlertInv, OwnerIsTold
<1> QED BY <1>3, AlertInvariant, PTL
----------------------------------------------------------------------------
(* A step of the worker and its surroundings is a step of the one job it watches, or
   leaves all of them alone. *)
LEMMA RecoveryIsWatched ==
    ASSUME RecoveryAround \/ RecoveryInTick \/ RecoveryBreaksOff
    PROVE  Unwatched \/ (RecoveryNext /\ UNCHANGED <<alertVars, cohortVars, vars, engagementVars>>)
<1>1. Worker \in Jobs BY WorkerAssumption
<1>2. NothingDue("recovery") => Unwatched BY DEF NothingDue
<1> QED BY <1>1, <1>2
       DEF RecoveryAround, RecoveryInTick, RecoveryBreaksOff, WatchRecovery, RecoveryNext

LEMMA AlertsAreWatched ==
    ASSUME AlertsAround \/ AlertsInTick \/ AlertsBreakOff
    PROVE  Unwatched \/ (AlertNext /\ UNCHANGED <<recoveryVars, cohortVars, vars, engagementVars>>)
<1>1. Worker \in Scans BY WorkerAssumption
<1>2. NothingDue("alerts") => Unwatched BY DEF NothingDue
<1> QED BY <1>1, <1>2 DEF AlertsAround, AlertsInTick, AlertsBreakOff, WatchAlerts, AlertNext

LEMMA AdviceIsWatched ==
    ASSUME AdviceAround \/ AdviceHour \/ AdviceInTick \/ AdviceBreaksOff
    PROVE  Unwatched \/ (AlertNext /\ UNCHANGED <<recoveryVars, cohortVars, vars, engagementVars>>)
<1>1. NothingDue("advisories") => Unwatched BY DEF NothingDue
<1>2. WatchAdvice /\ UNCHANGED alertVars => Unwatched BY DEF WatchAdvice, Unwatched
<1> QED BY <1>1, <1>2
       DEF AdviceAround, AdviceHour, AdviceInTick, AdviceBreaksOff, WatchAdvice, AlertNext, FindingsMove

LEMMA CohortsAreWatched ==
    ASSUME CohortsAround \/ CohortsInTick \/ CohortsBreakOff
    PROVE  Unwatched \/ (CohortNext /\ UNCHANGED <<recoveryVars, alertVars, vars, engagementVars>>)
<1>1. Worker = Scheduled /\ Worker \in Recomputes BY WorkerAssumption, CohortAssumption
<1>2. NothingDue("cohorts") => Unwatched BY DEF NothingDue
<1>3. \A r \in Recomputes \ {Worker} : ReadFeatures(r) => StartsRecompute(r, 0)
  BY <1>1 DEF StartsRecompute
<1>4. 0 \in Traffic BY DEF Traffic
<1> QED BY <1>1, <1>2, <1>3, <1>4
       DEF CohortsAround, CohortsInTick, CohortsBreakOff, WatchCohorts, CohortNext

LEMMA SubscriptionsAreWatched ==
    ASSUME SubscriptionsAround \/ SubscriptionsInTick \/ SubscriptionsBreakOff
    PROVE  Unwatched \/ (Next /\ UNCHANGED <<recoveryVars, alertVars, cohortVars, engagementVars>>)
<1>1. Worker \in Runners BY WorkerAssumption
<1>2. NothingDue("subscriptions") => Unwatched BY DEF NothingDue
<1>3. CASE SubscriptionsAround BY <1>3 DEF SubscriptionsAround, WatchSubscriptions, Next
<1>4. CASE SubscriptionsInTick /\ ~Unwatched
  <2>1. Bills(Worker) \/ CheckoutFails(Worker) \/ RecordFails(Worker)
    BY <1>2, <1>4 DEF SubscriptionsInTick, Bills
  <2> QED BY <1>1, <1>2, <1>4, <2>1 DEF SubscriptionsInTick, WatchSubscriptions, Next
<1>5. CASE SubscriptionsBreakOff BY <1>1, <1>5 DEF SubscriptionsBreakOff, WatchSubscriptions, Next
<1> QED BY <1>3, <1>4, <1>5

LEMMA EngagementIsWatched ==
    ASSUME EngagementAround \/ EngagementInTick \/ EngagementBreaksOff
    PROVE  Unwatched \/ (EngagementNext /\ UNCHANGED <<recoveryVars, alertVars, cohortVars, vars>>)
<1>1. Worker \in Runs BY WorkerAssumption, EngagementAssumption
<1>2. NothingDue("engagement") => Unwatched BY DEF NothingDue
<1> QED BY <1>1, <1>2
       DEF EngagementAround, EngagementInTick, EngagementBreaksOff, WatchEngagement, EngagementNext

LEMMA OneJobAtATime ==
    [WorkerNext]_workerVars =>
       \/ Unwatched
       \/ RecoveryNext /\ UNCHANGED <<alertVars, cohortVars, vars, engagementVars>>
       \/ AlertNext /\ UNCHANGED <<recoveryVars, cohortVars, vars, engagementVars>>
       \/ CohortNext /\ UNCHANGED <<recoveryVars, alertVars, vars, engagementVars>>
       \/ Next /\ UNCHANGED <<recoveryVars, alertVars, cohortVars, engagementVars>>
       \/ EngagementNext /\ UNCHANGED <<recoveryVars, alertVars, cohortVars, vars>>
<1>1. TickReaches \/ TickIsCutShort => Unwatched BY DEF TickReaches, TickIsCutShort
<1>2. UNCHANGED workerVars => Unwatched BY DEF workerVars, Unwatched
<1> QED BY <1>1, <1>2, RecoveryIsWatched, AlertsAreWatched, AdviceIsWatched, CohortsAreWatched,
       SubscriptionsAreWatched, EngagementIsWatched DEF WorkerNext, WorkerWorks, BreakOffs, Surroundings

(* Whatever the worker does with its jobs, each goes through a behaviour of its own
   specification. *)
LEMMA JobsAreThemselves ==
    /\ WorkerSpec => RecoverySpec
    /\ WorkerSpec => AlertSpec
    /\ WorkerSpec => CohortSpec
    /\ WorkerSpec => Spec
    /\ WorkerSpec => EngagementSpec
<1>1. WorkerInit => RecoveryInit /\ AlertInit /\ CohortInit /\ Init /\ EngagementInit
  BY DEF WorkerInit
<1>2. [WorkerNext]_workerVars =>
         /\ [RecoveryNext]_recoveryVars /\ [AlertNext]_alertVars /\ [CohortNext]_cohortVars
         /\ [Next]_vars /\ [EngagementNext]_engagementVars
  BY OneJobAtATime DEF Unwatched
<1> QED BY <1>1, <1>2, PTL DEF WorkerSpec, RecoverySpec, AlertSpec, CohortSpec, Spec, EngagementSpec

(* The tick's own variables. *)
TickInOrder ==
    /\ watched \in Watched /\ tick \in {"waiting", "reached", "running"}
    /\ sinceAdvisory \in 0..AdvisoryEvery /\ throws \in 0..MaxThrows

LEMMA TickOrderStep == TickInOrder /\ [WorkerNext]_workerVars => TickInOrder'
<1> SUFFICES ASSUME TickInOrder, [WorkerNext]_workerVars PROVE TickInOrder'
    OBVIOUS
<1>0. AdvisoryEvery \in Nat /\ MaxThrows \in Nat BY WorkerAssumption
<1> DEFINE Kept == watched' = watched
           Ticked == tick' \in {"waiting", "reached", "running"}
           Aged == sinceAdvisory' \in 0..AdvisoryEvery
           Thrown == throws' \in 0..MaxThrows
<1>1. \A b : Tick(b) => Ticked BY DEF Tick
<1>2. CASE TickReaches \/ TickIsCutShort
  BY <1>0, <1>2 DEF TickReaches, TickIsCutShort, TickInOrder
<1>3. CASE UNCHANGED tickVars BY <1>3 DEF tickVars, TickInOrder
<1>4. BreaksOff => Kept /\ Ticked /\ Aged BY <1>0 DEF BreaksOff, TickInOrder
<1>5. (RecoveryBreaksOff \/ AlertsBreakOff \/ CohortsBreakOff \/ SubscriptionsBreakOff
        \/ EngagementBreaksOff \/ AdviceBreaksOff) => BreaksOff /\ Thrown
  BY <1>0 DEF RecoveryBreaksOff, AlertsBreakOff, CohortsBreakOff, SubscriptionsBreakOff,
         EngagementBreaksOff, AdviceBreaksOff, TickInOrder
<1>6. (RecoveryInTick \/ AlertsInTick \/ CohortsInTick \/ SubscriptionsInTick \/ EngagementInTick
        \/ AdviceInTick) => Kept /\ Ticked /\ Aged /\ Thrown
  <2>1. \A j : NothingDue(j) => Kept /\ Ticked /\ Thrown
    BY <1>1 DEF NothingDue, Begins, TickInOrder
  <2>2. Begins \/ GoesThrough => Kept /\ Thrown BY DEF Begins, GoesThrough, TickInOrder
  <2>3. GoesThrough \/ UNCHANGED sinceAdvisory \/ sinceAdvisory' = 0 => Aged
    BY <1>0 DEF GoesThrough, TickInOrder
  <2> HIDE DEF Kept, Ticked, Aged, Thrown
  <2>5. RecoveryInTick => Kept /\ Ticked /\ Aged /\ Thrown BY <2>1, <2>2, <2>3, <1>1 DEF RecoveryInTick
  <2>6. AlertsInTick => Kept /\ Ticked /\ Aged /\ Thrown BY <2>1, <2>2, <2>3, <1>1 DEF AlertsInTick
  <2>7. CohortsInTick => Kept /\ Ticked /\ Aged /\ Thrown BY <2>1, <2>2, <2>3, <1>1 DEF CohortsInTick
  <2>8. SubscriptionsInTick => Kept /\ Ticked /\ Aged /\ Thrown
    BY <2>1, <2>2, <2>3, <1>1 DEF SubscriptionsInTick
  <2>9. EngagementInTick => Kept /\ Ticked /\ Aged /\ Thrown
    BY <2>1, <2>2, <2>3, <1>1 DEF EngagementInTick
  <2>10. AdviceInTick => Kept /\ Ticked /\ Aged /\ Thrown BY <2>1, <2>2, <2>3, <1>1 DEF AdviceInTick
  <2> QED BY <2>5, <2>6, <2>7, <2>8, <2>9, <2>10
<1>7. AdviceHour => TickInOrder' BY <1>0 DEF AdviceHour, TickInOrder
<1>8. (RecoveryAround \/ AlertsAround \/ CohortsAround \/ SubscriptionsAround \/ EngagementAround
        \/ AdviceAround \/ UNCHANGED workerVars) => UNCHANGED tickVars
  BY DEF RecoveryAround, AlertsAround, CohortsAround, SubscriptionsAround, EngagementAround,
         AdviceAround, workerVars
<1>9. Kept /\ Ticked /\ Aged /\ Thrown => TickInOrder' BY DEF TickInOrder
<1> HIDE DEF Kept, Ticked, Aged, Thrown
<1> QED BY <1>2, <1>3, <1>4, <1>5, <1>6, <1>7, <1>8, <1>9
       DEF WorkerNext, WorkerWorks, BreakOffs, Surroundings

(* The tick and all its jobs keep their shape, whatever throws or is restarted. *)
THEOREM TickType == WorkerSpec => []TickTypeOK
<1>1. WorkerInit => TickInOrder BY WorkerAssumption DEF WorkerInit, TickInOrder
<1>2. WorkerSpec => []TickInOrder BY <1>1, TickOrderStep, PTL DEF WorkerSpec
<1>3. TickInOrder /\ CartTypeOK /\ AlertTypeOK /\ CohortTypeOK /\ SubscriptionTypeOK /\ EngagementTypeOK
        => TickTypeOK
  BY DEF TickInOrder, TickTypeOK
<1> QED BY <1>2, <1>3, JobsAreThemselves, CartType, AlertType, CohortType, SubscriptionTypeCorrect,
       EngagementType, PTL

(* What the jobs promise they promise inside the worker's tick too, wherever it is cut
   short and however the merchant's own runs of them overlap. *)
THEOREM TickKeepsPromises ==
    WorkerSpec => /\ [](PaidCartsStaySettled /\ OwnerIsTold /\ SteadyCohortsKept /\ MessagesWithinLimits)
                  /\ RemindersAreDue
                  /\ InactiveIsNotBilled
<1>1. WorkerSpec => []PaidCartsStaySettled BY JobsAreThemselves, PaidStaysSettled, PTL
<1>2. WorkerSpec => []OwnerIsTold BY JobsAreThemselves, OwnerTold, PTL
<1>3. WorkerSpec => []SteadyCohortsKept BY JobsAreThemselves, SteadyKept, PTL
<1>4. WorkerSpec => []MessagesWithinLimits BY JobsAreThemselves, WithinLimits, PTL
<1>5. WorkerSpec => RemindersAreDue BY JobsAreThemselves, RemindersDue, PTL
<1>6. WorkerSpec => InactiveIsNotBilled BY JobsAreThemselves, InactiveNotBilled, PTL
<1> QED BY <1>1, <1>2, <1>3, <1>4, <1>5, <1>6, PTL
=============================================================================
