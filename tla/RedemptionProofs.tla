-------------------------- MODULE RedemptionProofs --------------------------
(***************************************************************************)
(* Theorems of Redemptions, for any handlers, customers, orders, prices    *)
(* and rates: types; that a limited code is never on more orders than its  *)
(* limit; that no points balance goes below zero; that an order's points   *)
(* were paid and buy their worth of discount; and that their worth reaches *)
(* the order while prices stand.                                           *)
(***************************************************************************)
EXTENDS Redemptions, Sums

TypeInv == RedemptionTypeOK

CouponRow == [exists : BOOLEAN, active : BOOLEAN, inWindow : BOOLEAN,
              limit : SUBSET Nat, count : Nat, gen : Nat]
----------------------------------------------------------------------------
(* Amounts. *)

LEMMA TimesNat == ASSUME NEW a \in Nat, NEW b \in Nat PROVE a * b \in Nat /\ (b = 0 => a * b = 0)
  OBVIOUS

LEMMA DivNat == ASSUME NEW a \in Nat, NEW b \in Nat \ {0} PROVE a \div b \in Nat
  OBVIOUS

LEMMA PointsForNat == ASSUME NEW n \in Nat, PointValue # 0 PROVE PointsFor(n) \in Nat
<1>1. PointValue \in Nat \ {0}
  BY RedemptionAssumption DEF RedemptionAssumption
<1>2. n \div PointValue \in Nat
  BY <1>1, DivNat
<1>. QED  BY <1>2 DEF PointsFor

LEMMA SmallerNat == ASSUME NEW a \in Nat, NEW b \in Nat PROVE Smaller(a, b) \in Nat /\ b - Smaller(a, b) \in Nat
  BY DEF Smaller

LEMMA AtLeastZeroNat == ASSUME NEW n \in Int PROVE AtLeastZero(n) \in Nat /\ AtLeastZero(n) >= n
  BY DEF AtLeastZero
----------------------------------------------------------------------------
(* What a handler is about follows from the step it stands at. *)
LEMMA AttemptAt ==
    ASSUME TypeInv, NEW h \in Handlers, proc[h].at \in CheckoutSteps
    PROVE  proc[h] \in Attempt
<1>1. proc[h] \in {Idle} \cup Attempt \cup Earning
  BY DEF TypeInv, RedemptionTypeOK
<1>. QED  BY <1>1 DEF Idle, Earning, CheckoutSteps

LEMMA EarningAt ==
    ASSUME TypeInv, NEW h \in Handlers, proc[h].at \in {"dup", "earn"}
    PROVE  proc[h] \in Earning
<1>1. proc[h] \in {Idle} \cup Attempt \cup Earning
  BY DEF TypeInv, RedemptionTypeOK
<1>. QED  BY <1>1 DEF Idle, Attempt, CheckoutSteps

LEMMA PointsEarnedNat ==
    ASSUME TypeInv, NEW o \in Orders PROVE PointsEarned(o) \in Nat
<1>1. order[o].total \in Nat
  BY DEF TypeInv, RedemptionTypeOK, Row
<1>2. Unit \in Nat \ {0} /\ EarnRate \in Nat
  BY RedemptionAssumption DEF RedemptionAssumption
<1>3. order[o].total \div Unit \in Nat
  BY <1>1, <1>2, DivNat
<1>. QED  BY <1>2, <1>3, TimesNat DEF PointsEarned

(* A posting that the balance covers keeps the account well typed. *)
LEMMA PostTyped ==
    ASSUME TypeInv, NEW c \in Customers, NEW points \in Int, Post(c, points)
    PROVE  account' \in [Customers -> [balance : Int, lifetime : Nat]]
<1>1. account[c] \in [balance : Int, lifetime : Nat]
  BY DEF TypeInv, RedemptionTypeOK
<1>2. account[c].balance + points \in Int /\ account[c].lifetime + AtLeastZero(points) \in Nat
  BY <1>1, AtLeastZeroNat
<1>. QED  BY <1>2 DEF Post, TypeInv, RedemptionTypeOK

LEMMA GoesTyped ==
    ASSUME TypeInv, NEW h \in Handlers, NEW r \in {Idle} \cup Attempt \cup Earning, Goes(h, r)
    PROVE  proc' \in [Handlers -> {Idle} \cup Attempt \cup Earning]
  BY DEF Goes, TypeInv, RedemptionTypeOK

LEMMA InitTyped == Init => TypeInv
<1>. SUFFICES ASSUME Init PROVE TypeInv
  OBVIOUS
<1>1. PICK c \in Customers :
         order = [o \in Orders |-> [placed |-> FALSE, c |-> c, code |-> 0, used |-> 0, value |-> 0,
                                    asked |-> 0, discount |-> 0, total |-> 0]]
  BY DEF Init
<1>2. order \in [Orders -> Row]
  BY <1>1 DEF Row
<1>3. coupon \in CouponRow
  BY DEF Init, CouponRow
<1>4. proc \in [Handlers -> {Idle} \cup Attempt \cup Earning]
  BY DEF Init
<1>5. account \in [Customers -> [balance : Int, lifetime : Nat]] /\ awarded \in [Customers -> Int]
  BY DEF Init
<1>6. earned \in [Orders -> Nat] /\ captures \in [Orders -> Nat]
  BY DEF Init
<1>. QED  BY <1>2, <1>3, <1>4, <1>5, <1>6 DEF TypeInv, RedemptionTypeOK, CouponRow

LEMMA CheckoutTyped ==
    ASSUME TypeInv, NEW h \in Handlers, Checkout(h) PROVE TypeInv'
<1>. USE RedemptionAssumption DEF RedemptionAssumption
<1>1. ASSUME NEW o \in Orders, NEW c \in Customers, NEW s \in Subtotals, NEW offer \in Offers,
             NEW want \in Wanted \cup {0}, NEW coded \in BOOLEAN,
             BeginCheckout(h, o, c, s, offer, want, coded)
      PROVE  TypeInv'
  <2>. DEFINE r == [at |-> IF coded THEN "validate" ELSE AfterCoupon(want),
                    o |-> o, c |-> c, subtotal |-> s, want |-> want, discount |-> offer,
                    code |-> 0, used |-> 0, value |-> 0]
  <2>1. r \in Attempt
    BY DEF Attempt, AfterCoupon, CheckoutSteps
  <2>2. Goes(h, r)
    BY <1>1 DEF BeginCheckout
  <2>. HIDE DEF r
  <2>. QED  BY <1>1, <2>1, <2>2, GoesTyped DEF BeginCheckout, TypeInv, RedemptionTypeOK
<1>2. CASE ValidateCode(h)
  <2>1. proc[h] \in Attempt
    BY <1>2, AttemptAt DEF ValidateCode, CheckoutSteps
  <2>2. [proc[h] EXCEPT !.at = "claim"] \in Attempt
    BY <2>1 DEF Attempt, CheckoutSteps
  <2>3. PICK r \in {Idle} \cup Attempt : Goes(h, r)
    BY <1>2, <2>2 DEF ValidateCode
  <2>4. proc' \in [Handlers -> {Idle} \cup Attempt \cup Earning]
    BY <2>3, GoesTyped
  <2>. QED  BY <1>2, <2>4 DEF ValidateCode, TypeInv, RedemptionTypeOK
<1>3. CASE ClaimSlot(h)
  <2>. DEFINE r == proc[h]
              off == Smaller(CouponValue, r.subtotal)
              x == [r EXCEPT !.at = AfterCoupon(r.want), !.code = coupon.gen, !.discount = r.discount + off]
  <2>1. r \in Attempt
    BY <1>3, AttemptAt DEF ClaimSlot, CheckoutSteps
  <2>2. off \in Nat
    <3>1. r.subtotal \in Nat
      BY <2>1 DEF Attempt
    <3>. QED  BY <3>1, SmallerNat
  <2>3. r.discount + off \in Nat /\ AfterCoupon(r.want) \in CheckoutSteps
    BY <2>1, <2>2 DEF Attempt, AfterCoupon, CheckoutSteps
  <2>4. coupon.gen \in Nat
    BY DEF TypeInv, RedemptionTypeOK
  <2>5. x \in Attempt
    BY <2>1, <2>3, <2>4 DEF Attempt
  <2>6. CASE coupon.active /\ SlotLeft
    <3>1. Goes(h, x) /\ coupon' = [coupon EXCEPT !.count = coupon.count + 1]
      BY <1>3, <2>6 DEF ClaimSlot
    <3>2. proc' \in [Handlers -> {Idle} \cup Attempt \cup Earning]
      BY <2>5, <3>1, GoesTyped
    <3>3. coupon \in CouponRow
      BY DEF TypeInv, RedemptionTypeOK, CouponRow
    <3>4. coupon' \in CouponRow
      BY <3>1, <3>3 DEF CouponRow
    <3>. QED  BY <1>3, <3>2, <3>4 DEF ClaimSlot, TypeInv, RedemptionTypeOK, CouponRow
  <2>7. CASE ~(coupon.active /\ SlotLeft)
    <3>1. Goes(h, Idle) /\ UNCHANGED coupon
      BY <1>3, <2>7 DEF ClaimSlot
    <3>2. proc' \in [Handlers -> {Idle} \cup Attempt \cup Earning]
      BY <3>1, GoesTyped
    <3>. QED  BY <1>3, <3>1, <3>2 DEF ClaimSlot, TypeInv, RedemptionTypeOK
  <2>. QED  BY <2>6, <2>7
<1>4. CASE CheckPoints(h)
  <2>. DEFINE r == proc[h]
              n == Remaining(r)
              worth == r.want * PointValue
              value == IF worth > n THEN n ELSE worth
              used == IF worth > n THEN PointsFor(n) ELSE r.want
              x == [r EXCEPT !.at = "spend", !.value = value, !.used = used]
  <2>1. r \in Attempt
    BY <1>4, AttemptAt DEF CheckPoints, CheckoutSteps
  <2>2. n \in Nat
    <3>0. r.subtotal \in Nat /\ r.discount \in Nat
      BY <2>1 DEF Attempt
    <3>1. r.subtotal - r.discount \in Int
      BY ONLY <3>0
    <3>. QED  BY <3>1, AtLeastZeroNat DEF Remaining
  <2>3. r.want \in Nat /\ worth \in Nat /\ (PointValue = 0 => worth = 0)
    BY <2>1, TimesNat DEF Attempt
  <2>4. value \in Nat
    BY <2>2, <2>3
  <2>5. used \in Nat
    <3>1. CASE worth > n
      <4>1. PointValue # 0
        BY <2>2, <2>3, <3>1
      <4>. QED  BY <2>2, <3>1, <4>1, PointsForNat
    <3>2. CASE ~(worth > n)
      BY <2>3, <3>2
    <3>. QED  BY <3>1, <3>2
  <2>. HIDE DEF value, used
  <2>6. x \in Attempt
    BY <2>1, <2>4, <2>5 DEF Attempt, CheckoutSteps
  <2>7. Goes(h, x) \/ Goes(h, Idle)
    BY <1>4 DEF CheckPoints, value, used
  <2>8. proc' \in [Handlers -> {Idle} \cup Attempt \cup Earning]
    BY <2>6, <2>7, GoesTyped
  <2>. QED  BY <1>4, <2>8 DEF CheckPoints, TypeInv, RedemptionTypeOK
<1>5. CASE SpendPoints(h)
  <2>. DEFINE r == proc[h]
              x == [r EXCEPT !.at = "pay", !.discount = r.discount + r.value]
  <2>1. r \in Attempt
    BY <1>5, AttemptAt DEF SpendPoints, CheckoutSteps
  <2>2. r.discount + r.value \in Nat /\ -r.used \in Int /\ r.c \in Customers
    BY <2>1 DEF Attempt
  <2>3. x \in Attempt
    BY <2>1, <2>2 DEF Attempt, CheckoutSteps
  <2>4. Goes(h, x) \/ Goes(h, Idle)
    BY <1>5 DEF SpendPoints, Refused
  <2>5. proc' \in [Handlers -> {Idle} \cup Attempt \cup Earning]
    BY <2>3, <2>4, GoesTyped
  <2>6. Post(r.c, -r.used) \/ UNCHANGED account
    BY <1>5 DEF SpendPoints
  <2>7. account' \in [Customers -> [balance : Int, lifetime : Nat]]
    BY <2>2, <2>6, PostTyped DEF TypeInv, RedemptionTypeOK
  <2>. QED  BY <1>5, <2>5, <2>7 DEF SpendPoints, TypeInv, RedemptionTypeOK
<1>6. CASE PlaceOrder(h)
  <2>1. proc[h] \in Attempt
    BY <1>6, AttemptAt DEF PlaceOrder, CheckoutSteps
  <2>2. PICK subtotal \in Repriced[proc[h].subtotal] :
           order' = [order EXCEPT ![proc[h].o] = Placed(proc[h], subtotal)]
    BY <1>6 DEF PlaceOrder
  <2>3. subtotal \in Nat /\ proc[h].discount \in Nat
    BY <2>1, <2>2 DEF Attempt
  <2>4. Placed(proc[h], subtotal) \in Row
    BY <2>1, <2>3, SmallerNat DEF Placed, Row, Attempt
  <2>5. order' \in [Orders -> Row]
    BY <2>2, <2>4 DEF TypeInv, RedemptionTypeOK
  <2>6. proc' \in [Handlers -> {Idle} \cup Attempt \cup Earning]
    BY <1>6, GoesTyped DEF PlaceOrder
  <2>. QED  BY <1>6, <2>5, <2>6 DEF PlaceOrder, TypeInv, RedemptionTypeOK
<1>7. CASE CheckoutFails(h)
  <2>1. proc' \in [Handlers -> {Idle} \cup Attempt \cup Earning]
    BY <1>7, GoesTyped DEF CheckoutFails
  <2>. QED  BY <1>7, <2>1 DEF CheckoutFails, TypeInv, RedemptionTypeOK
<1>. QED  BY <1>1, <1>2, <1>3, <1>4, <1>5, <1>6, <1>7 DEF Checkout

LEMMA NextTyped == TypeInv /\ [Next]_vars => TypeInv'
<1>. SUFFICES ASSUME TypeInv, [Next]_vars PROVE TypeInv'
  OBVIOUS
<1>. USE RedemptionAssumption DEF RedemptionAssumption
<1>0. coupon \in CouponRow
  BY DEF TypeInv, RedemptionTypeOK, CouponRow
<1>1. CASE \E limit \in Limits : CreateCoupon(limit)
  <2>1. PICK limit \in SUBSET Nat : CreateCoupon(limit)
    BY <1>1
  <2>2. coupon' = [exists |-> TRUE, active |-> TRUE, inWindow |-> coupon.inWindow,
                   limit |-> limit, count |-> 0, gen |-> coupon.gen + 1]
    BY <1>0, <2>1 DEF CreateCoupon, CouponRow
  <2>3. coupon' \in CouponRow
    BY <1>0, <2>2 DEF CouponRow
  <2>. QED  BY <2>1, <2>3 DEF CreateCoupon, TypeInv, RedemptionTypeOK, CouponRow
<1>2. CASE (\E active \in BOOLEAN : SetActive(active)) \/ RemoveCoupon \/ WindowPasses
  <2>1. coupon' \in CouponRow
    BY <1>0, <1>2 DEF SetActive, RemoveCoupon, WindowPasses, CouponRow
  <2>. QED  BY <1>2, <2>1 DEF SetActive, RemoveCoupon, WindowPasses, TypeInv, RedemptionTypeOK, CouponRow
<1>3. ASSUME NEW c \in Customers, NEW points \in Awards, Award(c, points) PROVE TypeInv'
  <2>1. points \in Int
    OBVIOUS
  <2>2. account' \in [Customers -> [balance : Int, lifetime : Nat]]
    BY <1>3, <2>1, PostTyped DEF Award
  <2>3. awarded' \in [Customers -> Int]
    <3>1. awarded[c] + points \in Int
      BY <2>1 DEF TypeInv, RedemptionTypeOK
    <3>2. awarded' = [awarded EXCEPT ![c] = awarded[c] + points]
      BY <1>3 DEF Award
    <3>. QED  BY <3>1, <3>2 DEF TypeInv, RedemptionTypeOK
  <2>. QED  BY <1>3, <2>2, <2>3 DEF Award, TypeInv, RedemptionTypeOK
<1>4. ASSUME NEW h \in Handlers, Checkout(h) PROVE TypeInv'
  BY <1>4, CheckoutTyped
<1>5. ASSUME NEW h \in Handlers, Capture(h) PROVE TypeInv'
  <2>1. ASSUME NEW o \in Orders, BeginEarn(h, o) PROVE TypeInv'
    <3>1. [at |-> "dup", o |-> o] \in Earning
      BY DEF Earning
    <3>2. proc' \in [Handlers -> {Idle} \cup Attempt \cup Earning]
      BY <2>1, <3>1, GoesTyped DEF BeginEarn
    <3>. QED  BY <2>1, <3>2 DEF BeginEarn, TypeInv, RedemptionTypeOK
  <2>2. CASE CheckDuplicate(h)
    <3>1. proc[h].o \in Orders
      BY <2>2, EarningAt DEF CheckDuplicate, Earning
    <3>2. [at |-> "earn", o |-> proc[h].o] \in Earning
      BY <3>1 DEF Earning
    <3>3. Goes(h, [at |-> "earn", o |-> proc[h].o]) \/ Goes(h, Idle)
      BY <2>2 DEF CheckDuplicate
    <3>4. proc' \in [Handlers -> {Idle} \cup Attempt \cup Earning]
      BY <3>2, <3>3, GoesTyped
    <3>. QED  BY <2>2, <3>4 DEF CheckDuplicate, TypeInv, RedemptionTypeOK
  <2>3. CASE PostEarned(h)
    <3>1. proc[h].o \in Orders
      BY <2>3, EarningAt DEF PostEarned, Earning
    <3>2. order[proc[h].o].c \in Customers /\ PointsEarned(proc[h].o) \in Int
      BY <3>1, PointsEarnedNat DEF TypeInv, RedemptionTypeOK, Row
    <3>3. account' \in [Customers -> [balance : Int, lifetime : Nat]]
      BY <2>3, <3>2, PostTyped DEF PostEarned
    <3>4. proc' \in [Handlers -> {Idle} \cup Attempt \cup Earning]
      BY <2>3, GoesTyped DEF PostEarned
    <3>. QED  BY <2>3, <3>1, <3>3, <3>4 DEF PostEarned, TypeInv, RedemptionTypeOK
  <2>. QED  BY <1>5, <2>1, <2>2, <2>3 DEF Capture
<1>6. CASE UNCHANGED vars
  BY <1>6 DEF vars, TypeInv, RedemptionTypeOK
<1>. QED  BY <1>1, <1>2, <1>3, <1>4, <1>5, <1>6 DEF Next, Merchant

(* The variables of checkouts, coupons and points keep their types; in
   particular no order total and no discount is ever negative. *)
THEOREM RedemptionTypeCorrect == Spec => []RedemptionTypeOK
  BY InitTyped, NextTyped, PTL DEF Spec, TypeInv
----------------------------------------------------------------------------
(* Points.  Only a posting changes a balance, and it is covered. *)

LEMMA PostCovered ==
    ASSUME TypeInv, NeverOverspent, NEW c \in Customers, NEW points \in Int,
           Covers(c, points), Post(c, points)
    PROVE  NeverOverspent'
<1>1. account[c].balance \in Int /\ account[c].balance >= 0
  BY DEF TypeInv, RedemptionTypeOK, NeverOverspent
<1>2. account[c].balance + points >= 0
  BY <1>1 DEF Covers
<1>3. \A d \in Customers : account'[d].balance = IF d = c THEN account[c].balance + points ELSE account[d].balance
  BY DEF Post, TypeInv, RedemptionTypeOK
<1>. QED  BY <1>2, <1>3 DEF NeverOverspent

LEMMA OverspentStep == TypeInv /\ NeverOverspent /\ [Next]_vars => NeverOverspent'
<1>. SUFFICES ASSUME TypeInv, NeverOverspent, [Next]_vars PROVE NeverOverspent'
  OBVIOUS
<1>1. CASE UNCHANGED account
  BY <1>1 DEF NeverOverspent
<1>2. ASSUME NEW c \in Customers, NEW points \in Awards, Award(c, points) PROVE NeverOverspent'
  <2>1. points \in Int
    BY RedemptionAssumption DEF RedemptionAssumption
  <2>. QED  BY <1>2, <2>1, PostCovered DEF Award
<1>3. ASSUME NEW h \in Handlers, SpendPoints(h) PROVE NeverOverspent'
  <2>1. proc[h] \in Attempt
    BY <1>3, AttemptAt DEF SpendPoints, CheckoutSteps
  <2>2. proc[h].c \in Customers /\ -proc[h].used \in Int
    BY <2>1 DEF Attempt
  <2>3. CASE Covers(proc[h].c, -proc[h].used)
    BY <1>3, <2>2, <2>3, PostCovered DEF SpendPoints
  <2>4. CASE ~Covers(proc[h].c, -proc[h].used)
    BY <1>1, <1>3, <2>4 DEF SpendPoints
  <2>. QED  BY <2>3, <2>4
<1>4. ASSUME NEW h \in Handlers, PostEarned(h) PROVE NeverOverspent'
  <2>1. proc[h].o \in Orders
    BY <1>4, EarningAt DEF PostEarned, Earning
  <2>2. order[proc[h].o].c \in Customers /\ PointsEarned(proc[h].o) \in Nat
    BY <2>1, PointsEarnedNat DEF TypeInv, RedemptionTypeOK, Row
  <2>3. Covers(order[proc[h].o].c, PointsEarned(proc[h].o))
    BY <2>2 DEF Covers
  <2>. QED  BY <1>4, <2>2, <2>3, PostCovered DEF PostEarned
<1>. QED
  BY <1>1, <1>2, <1>3, <1>4
     DEF Next, Merchant, Checkout, Capture, vars, CreateCoupon, SetActive, RemoveCoupon, WindowPasses,
         BeginCheckout, ValidateCode, ClaimSlot, CheckPoints, PlaceOrder, CheckoutFails, BeginEarn,
         CheckDuplicate

(* No points balance is ever negative, whatever number of checkouts and awards
   have read the same balance before they spend it. *)
THEOREM PointsNeverOverspent == Spec => []NeverOverspent
<1>1. Init => NeverOverspent
  BY DEF Init, NeverOverspent
<1>. QED  BY <1>1, InitTyped, NextTyped, OverspentStep, PTL DEF Spec
----------------------------------------------------------------------------
(* Coupons.  The count of the row covers the orders that carry the code, the
   limit covers the count, and no order or checkout carries a code that has not
   been created yet. *)
Slots(g) == Cardinality(Coded(g)) + Cardinality(Claiming(g))

CodesKnown ==
    /\ \A o \in Orders : order[o].placed => order[o].code <= coupon.gen
    /\ \A h \in Handlers : proc[h].at \in CheckoutSteps => proc[h].code <= coupon.gen
CountCovers == coupon.gen > 0 => Slots(coupon.gen) <= coupon.count
LimitCovers == \A n \in coupon.limit : coupon.count <= n

CouponInv == CodesKnown /\ CountCovers /\ LimitCovers

LEMMA SlotsNat ==
    ASSUME NEW g
    PROVE  /\ IsFiniteSet(Coded(g)) /\ IsFiniteSet(Claiming(g))
           /\ Cardinality(Coded(g)) \in Nat /\ Cardinality(Claiming(g)) \in Nat
<1>1. IsFiniteSet(Orders) /\ IsFiniteSet(Handlers)
  BY RedemptionAssumption DEF RedemptionAssumption
<1>2. Coded(g) \in SUBSET Orders /\ Claiming(g) \in SUBSET Handlers
  BY DEF Coded, Claiming
<1>3. IsFiniteSet(Coded(g)) /\ IsFiniteSet(Claiming(g))
  BY <1>1, <1>2, FS_Subset
<1>. QED  BY <1>3, FS_CardinalityType

(* Sets that lose or gain at most one element. *)
LEMMA GrowsByOne ==
    ASSUME NEW S, IsFiniteSet(S), NEW x, NEW T \in SUBSET (S \cup {x})
    PROVE  Cardinality(T) <= Cardinality(S) + 1
<1>0. Cardinality(S) \in Nat
  BY FS_CardinalityType
<1>1. IsFiniteSet(S \cup {x}) /\ Cardinality(S \cup {x}) \in {Cardinality(S), Cardinality(S) + 1}
  BY FS_AddElement
<1>2. Cardinality(T) <= Cardinality(S \cup {x}) /\ IsFiniteSet(T)
  BY <1>1, FS_Subset
<1>3. Cardinality(T) \in Nat
  BY <1>2, FS_CardinalityType
<1>. QED  BY <1>0, <1>1, <1>2, <1>3

LEMMA ShrinksByOne ==
    ASSUME NEW S, IsFiniteSet(S), NEW x \in S, NEW T \in SUBSET (S \ {x})
    PROVE  Cardinality(T) <= Cardinality(S) - 1
<1>1. IsFiniteSet(S \ {x}) /\ Cardinality(S \ {x}) = Cardinality(S) - 1
  BY FS_RemoveElement
<1>. QED  BY <1>1, FS_Subset
(* A handler that goes on with the code it has, or with none, takes no slot. *)
LEMMA SlotsKept ==
    ASSUME TypeInv, CouponInv, UNCHANGED coupon,
           NEW h \in Handlers,
           \A k \in Handlers \ {h} : proc'[k] = proc[k],
           proc'[h].at \in CheckoutSteps =>
              \/ proc'[h].code = 0
              \/ proc[h].at \in CheckoutSteps /\ proc'[h].code = proc[h].code,
           UNCHANGED order
    PROVE  CouponInv'
<1>1. CodesKnown'
  <2>1. coupon.gen \in Nat
    BY DEF TypeInv, RedemptionTypeOK
  <2>. QED  BY <2>1 DEF CouponInv, CodesKnown
<1>2. ASSUME coupon.gen > 0 PROVE Slots(coupon.gen)' <= coupon.count
  <2>. DEFINE g == coupon.gen
  <2>1. Coded(g)' = Coded(g)
    BY DEF Coded
  <2>2. Claiming(g)' \in SUBSET Claiming(g)
    BY <1>2 DEF Claiming
  <2>3. Cardinality(Claiming(g)') <= Cardinality(Claiming(g)) /\ Cardinality(Claiming(g)') \in Nat
    BY <2>2, SlotsNat, FS_Subset, FS_CardinalityType
  <2>4. Slots(g) <= coupon.count /\ coupon.count \in Nat
    BY <1>2 DEF CouponInv, CountCovers, TypeInv, RedemptionTypeOK
  <2>5. Cardinality(Coded(g)) \in Nat /\ Cardinality(Claiming(g)) \in Nat
    BY SlotsNat
  <2>6. Slots(g)' = Cardinality(Coded(g)) + Cardinality(Claiming(g)')
    BY <2>1 DEF Slots
  <2>. HIDE DEF g
  <2>. QED  BY <2>3, <2>4, <2>5, <2>6 DEF Slots, g
<1>3. CountCovers'
  BY <1>2 DEF CountCovers
<1>4. LimitCovers'
  BY DEF CouponInv, LimitCovers
<1>. QED  BY <1>1, <1>3, <1>4 DEF CouponInv

LEMMA GoesIs ==
    ASSUME TypeInv, NEW h \in Handlers, NEW r, Goes(h, r)
    PROVE  proc'[h] = r /\ \A k \in Handlers \ {h} : proc'[k] = proc[k]
  BY DEF Goes, TypeInv, RedemptionTypeOK

LEMMA ClaimKeepsLimit ==
    ASSUME TypeInv, CouponInv, NEW h \in Handlers, ClaimSlot(h), coupon.active, SlotLeft
    PROVE  CouponInv'
<1>. DEFINE r == proc[h]
            g == coupon.gen
            x == [r EXCEPT !.at = AfterCoupon(r.want), !.code = g,
                           !.discount = r.discount + Smaller(CouponValue, r.subtotal)]
<1>1. r \in Attempt
  BY AttemptAt DEF ClaimSlot, CheckoutSteps
<1>2. coupon \in CouponRow
  BY DEF TypeInv, RedemptionTypeOK, CouponRow
<1>3. coupon' = [coupon EXCEPT !.count = coupon.count + 1] /\ Goes(h, x) /\ UNCHANGED order
  BY DEF ClaimSlot
<1>4. /\ coupon'.gen = g /\ coupon'.count = coupon.count + 1 /\ coupon'.limit = coupon.limit
      /\ g \in Nat /\ coupon.count \in Nat /\ coupon.limit \in SUBSET Nat
  BY <1>2, <1>3 DEF CouponRow
<1>5. x.code = g
  BY <1>1 DEF Attempt
<1>. HIDE DEF x
<1>6. proc'[h].code = g /\ \A k \in Handlers \ {h} : proc'[k] = proc[k]
  BY <1>3, <1>5, GoesIs
<1>. HIDE DEF g
<1>7. CodesKnown'
  BY <1>3, <1>4, <1>6 DEF CouponInv, CodesKnown, g
<1>8. ASSUME g > 0 PROVE Cardinality(Coded(g)') + Cardinality(Claiming(g)') <= coupon.count + 1
  <2>1. Coded(g)' = Coded(g)
    BY <1>3, <1>4 DEF Coded, g
  <2>2. Claiming(g)' \in SUBSET (Claiming(g) \cup {h})
    BY <1>4, <1>6 DEF Claiming, g
  <2>3. Cardinality(Claiming(g)') <= Cardinality(Claiming(g)) + 1
    BY <2>2, SlotsNat, GrowsByOne
  <2>4. Claiming(g)' \in SUBSET Handlers /\ IsFiniteSet(Handlers)
    BY RedemptionAssumption DEF Claiming, RedemptionAssumption
  <2>5. Cardinality(Claiming(g)') \in Nat
    BY <2>4, FS_Subset, FS_CardinalityType
  <2>6. Cardinality(Coded(g)) + Cardinality(Claiming(g)) <= coupon.count
    BY <1>8 DEF CouponInv, CountCovers, Slots, g
  <2>7. Cardinality(Coded(g)) \in Nat /\ Cardinality(Claiming(g)) \in Nat
    BY SlotsNat
  <2>. QED  BY <1>4, <2>1, <2>3, <2>5, <2>6, <2>7
<1>9. CountCovers'
  BY <1>4, <1>8 DEF CountCovers, Slots, g
<1>10. LimitCovers'
  BY <1>4 DEF CouponInv, LimitCovers, SlotLeft
<1>. QED  BY <1>7, <1>9, <1>10 DEF CouponInv

LEMMA PlacingKeepsLimit ==
    ASSUME TypeInv, CouponInv, NEW h \in Handlers, PlaceOrder(h)
    PROVE  CouponInv'
<1>. DEFINE r == proc[h]
            g == coupon.gen
<1>1. r \in Attempt /\ r.at \in CheckoutSteps
  BY AttemptAt DEF PlaceOrder, CheckoutSteps
<1>2. PICK subtotal : order' = [order EXCEPT ![r.o] = Placed(r, subtotal)]
  BY DEF PlaceOrder
<1>3. Goes(h, Idle) /\ UNCHANGED coupon
  BY DEF PlaceOrder
<1>4. proc'[h] = Idle /\ \A k \in Handlers \ {h} : proc'[k] = proc[k]
  BY <1>3, GoesIs
<1>5. proc'[h].at \notin CheckoutSteps
  BY <1>4 DEF Idle, CheckoutSteps
<1>6. r.o \in Orders /\ r.code \in Nat
  BY <1>1 DEF Attempt
<1>7. /\ \A o \in Orders \ {r.o} : order'[o] = order[o]
      /\ order'[r.o].code = r.code
  BY <1>2, <1>6 DEF Placed, TypeInv, RedemptionTypeOK
<1>8. g \in Nat /\ coupon.count \in Nat
  BY DEF TypeInv, RedemptionTypeOK
<1>9. CodesKnown'
  BY <1>1, <1>3, <1>4, <1>5, <1>7 DEF CouponInv, CodesKnown
<1>. HIDE DEF g
<1>10. ASSUME g > 0 PROVE Cardinality(Coded(g)') + Cardinality(Claiming(g)') <= coupon.count
  <2>1. Cardinality(Coded(g)) \in Nat /\ Cardinality(Claiming(g)) \in Nat
    BY SlotsNat
  <2>2. Cardinality(Coded(g)) + Cardinality(Claiming(g)) <= coupon.count
    BY <1>10 DEF CouponInv, CountCovers, Slots, g
  <2>3. IsFiniteSet(Coded(g)) /\ IsFiniteSet(Claiming(g))
    BY SlotsNat
  <2>4. Coded(g)' \in SUBSET Orders /\ Claiming(g)' \in SUBSET Handlers
        /\ IsFiniteSet(Orders) /\ IsFiniteSet(Handlers)
    BY RedemptionAssumption DEF Coded, Claiming, RedemptionAssumption
  <2>5. Cardinality(Coded(g)') \in Nat /\ Cardinality(Claiming(g)') \in Nat
    BY <2>4, FS_Subset, FS_CardinalityType
  <2>6. CASE r.code = g
    <3>1. Coded(g)' \in SUBSET (Coded(g) \cup {r.o})
      BY <1>3, <1>7 DEF Coded, g
    <3>2. h \in Claiming(g) /\ Claiming(g)' \in SUBSET (Claiming(g) \ {h})
      BY <1>1, <1>3, <1>4, <1>5, <2>6 DEF Claiming, g
    <3>3. Cardinality(Coded(g)') <= Cardinality(Coded(g)) + 1
      BY <2>3, <3>1, GrowsByOne
    <3>4. Cardinality(Claiming(g)') <= Cardinality(Claiming(g)) - 1
      BY <2>3, <3>2, ShrinksByOne
    <3>. QED  BY <1>8, <2>1, <2>2, <2>5, <3>3, <3>4
  <2>7. CASE r.code # g
    <3>1. Coded(g)' \in SUBSET Coded(g) /\ Claiming(g)' \in SUBSET Claiming(g)
      BY <1>3, <1>4, <1>5, <1>7, <2>7 DEF Coded, Claiming, g
    <3>2. Cardinality(Coded(g)') <= Cardinality(Coded(g)) /\ Cardinality(Claiming(g)') <= Cardinality(Claiming(g))
      BY <2>3, <3>1, FS_Subset
    <3>. QED  BY <1>8, <2>1, <2>2, <2>5, <3>2
  <2>. QED  BY <2>6, <2>7
<1>11. CountCovers'
  BY <1>3, <1>10 DEF CountCovers, Slots, g
<1>12. LimitCovers'
  BY <1>3 DEF CouponInv, LimitCovers
<1>. QED  BY <1>9, <1>11, <1>12 DEF CouponInv

LEMMA CouponStep == TypeInv /\ CouponInv /\ [Next]_vars => CouponInv'
<1>. SUFFICES ASSUME TypeInv, CouponInv, [Next]_vars PROVE CouponInv'
  OBVIOUS
<1>0. coupon \in CouponRow
  BY DEF TypeInv, RedemptionTypeOK, CouponRow
<1>1. ASSUME NEW limit \in Limits, CreateCoupon(limit) PROVE CouponInv'
  <2>1. /\ coupon'.gen = coupon.gen + 1 /\ coupon'.count = 0 /\ coupon'.limit = limit
        /\ limit \in SUBSET Nat /\ coupon.gen \in Nat
    BY <1>0, <1>1, RedemptionAssumption DEF CreateCoupon, CouponRow, RedemptionAssumption
  <2>2. UNCHANGED <<order, proc>>
    BY <1>1 DEF CreateCoupon
  <2>3. \A h \in Handlers : proc[h].at \in CheckoutSteps => proc[h].code \in Nat
    BY AttemptAt DEF Attempt
  <2>4. \A o \in Orders : order[o].code \in Nat
    BY DEF TypeInv, RedemptionTypeOK, Row
  <2>5. CodesKnown'
    BY <2>1, <2>2, <2>3, <2>4 DEF CouponInv, CodesKnown
  <2>6. Coded(coupon.gen)' = {} /\ Claiming(coupon.gen)' = {}
    BY <2>1, <2>2, <2>3, <2>4 DEF Coded, Claiming, CouponInv, CodesKnown
  <2>7. Slots(coupon.gen)' = 0
    <3>1. Cardinality(Coded(coupon.gen)') = 0 /\ Cardinality(Claiming(coupon.gen)') = 0
      BY <2>6, FS_EmptySet
    <3>. QED  BY <3>1 DEF Slots
  <2>8. CountCovers'
    BY <2>1, <2>7 DEF CountCovers
  <2>9. LimitCovers'
    <3>1. \A n \in limit : n \in Nat /\ 0 <= n
      BY <2>1
    <3>2. coupon'.limit = limit /\ coupon'.count = 0
      BY <2>1
    <3>. QED  BY ONLY <3>1, <3>2 DEF LimitCovers
  <2>. QED  BY <2>5, <2>8, <2>9 DEF CouponInv
<1>2. CASE (\E active \in BOOLEAN : SetActive(active)) \/ RemoveCoupon \/ WindowPasses
  <2>1. UNCHANGED <<order, proc>>
    BY <1>2 DEF SetActive, RemoveCoupon, WindowPasses
  <2>2. coupon'.gen = coupon.gen /\ coupon'.count = coupon.count /\ coupon'.limit = coupon.limit
    BY <1>0, <1>2 DEF SetActive, RemoveCoupon, WindowPasses, CouponRow
  <2>4. Slots(coupon.gen)' = Slots(coupon.gen)
    BY <2>1, <2>2 DEF Slots, Coded, Claiming
  <2>5. CodesKnown' /\ CountCovers' /\ LimitCovers'
    BY <2>1, <2>2, <2>4 DEF CouponInv, CodesKnown, CountCovers, LimitCovers
  <2>. QED  BY <2>5 DEF CouponInv
<1>3. CASE UNCHANGED <<coupon, order, proc>>
  BY <1>3 DEF CouponInv, CodesKnown, CountCovers, LimitCovers, Slots, Coded, Claiming
<1>4. ASSUME NEW h \in Handlers, Checkout(h) PROVE CouponInv'
  <2>1. ASSUME NEW o \in Orders, NEW c \in Customers, NEW s \in Subtotals, NEW offer \in Offers,
               NEW want \in Wanted \cup {0}, NEW coded \in BOOLEAN,
               BeginCheckout(h, o, c, s, offer, want, coded)
        PROVE  CouponInv'
    <3>. DEFINE r == [at |-> IF coded THEN "validate" ELSE AfterCoupon(want),
                      o |-> o, c |-> c, subtotal |-> s, want |-> want, discount |-> offer,
                      code |-> 0, used |-> 0, value |-> 0]
    <3>1. Goes(h, r) /\ UNCHANGED <<coupon, order>>
      BY <2>1 DEF BeginCheckout
    <3>2. r.code = 0
      OBVIOUS
    <3>. HIDE DEF r
    <3>. QED  BY <3>1, <3>2, GoesIs, SlotsKept
  <2>2. CASE ClaimSlot(h) /\ coupon.active /\ SlotLeft
    BY <2>2, ClaimKeepsLimit
  <2>3. CASE PlaceOrder(h)
    BY <2>3, PlacingKeepsLimit
  <2>4. CASE \/ ValidateCode(h) \/ CheckPoints(h) \/ SpendPoints(h) \/ CheckoutFails(h)
             \/ ClaimSlot(h) /\ ~(coupon.active /\ SlotLeft)
    <3>1. UNCHANGED <<coupon, order>> /\ proc[h].at \in CheckoutSteps
      BY <2>4 DEF ValidateCode, CheckPoints, SpendPoints, CheckoutFails, ClaimSlot, CheckoutSteps
    <3>2. proc[h] \in Attempt
      BY <3>1, AttemptAt
    <3>3. PICK r : Goes(h, r) /\ (r = Idle \/ r.code = proc[h].code)
      <4>1. CASE ValidateCode(h)
        <5>1. [proc[h] EXCEPT !.at = "claim"].code = proc[h].code
          BY <3>2 DEF Attempt
        <5>. QED  BY <4>1, <5>1 DEF ValidateCode
      <4>2. CASE CheckPoints(h)
        <5>1. \A v, u : [proc[h] EXCEPT !.at = "spend", !.value = v, !.used = u].code = proc[h].code
          BY <3>2 DEF Attempt
        <5>2. \/ Goes(h, Idle)
              \/ \E v, u : Goes(h, [proc[h] EXCEPT !.at = "spend", !.value = v, !.used = u])
          BY <4>2 DEF CheckPoints
        <5>. QED  BY <5>1, <5>2
      <4>3. CASE SpendPoints(h)
        <5>1. \A d : [proc[h] EXCEPT !.at = "pay", !.discount = d].code = proc[h].code
          BY <3>2 DEF Attempt
        <5>2. \/ Goes(h, Idle)
              \/ \E d : Goes(h, [proc[h] EXCEPT !.at = "pay", !.discount = d])
          BY <4>3 DEF SpendPoints, Refused
        <5>. QED  BY <5>1, <5>2
      <4>4. CASE CheckoutFails(h) \/ (ClaimSlot(h) /\ ~(coupon.active /\ SlotLeft))
        BY <4>4 DEF CheckoutFails, ClaimSlot
      <4>. QED  BY <2>4, <4>1, <4>2, <4>3, <4>4
    <3>4. proc'[h].at \in CheckoutSteps => proc'[h].code = proc[h].code
      BY <3>3, GoesIs DEF Idle, CheckoutSteps
    <3>. QED  BY <3>1, <3>3, <3>4, GoesIs, SlotsKept
  <2>. QED  BY <1>4, <2>1, <2>2, <2>3, <2>4 DEF Checkout
<1>5. ASSUME NEW h \in Handlers, Capture(h) PROVE CouponInv'
  <2>1. UNCHANGED <<coupon, order>>
    BY <1>5 DEF Capture, BeginEarn, CheckDuplicate, PostEarned
  <2>2. PICK r : Goes(h, r) /\ r.at \notin CheckoutSteps
    <3>1. ASSUME NEW o \in Orders, BeginEarn(h, o) PROVE Goes(h, [at |-> "dup", o |-> o])
      BY <3>1 DEF BeginEarn
    <3>2. CASE CheckDuplicate(h) \/ PostEarned(h)
      <4>1. Goes(h, Idle) \/ Goes(h, [at |-> "earn", o |-> proc[h].o])
        BY <3>2 DEF CheckDuplicate, PostEarned
      <4>. QED  BY <4>1 DEF Idle, CheckoutSteps
    <3>3. \A o : [at |-> "dup", o |-> o].at \notin CheckoutSteps
      BY DEF CheckoutSteps
    <3>. QED  BY <1>5, <3>1, <3>2, <3>3 DEF Capture
  <2>. QED  BY <2>1, <2>2, GoesIs, SlotsKept
<1>6. ASSUME NEW c \in Customers, NEW points \in Awards, Award(c, points) PROVE CouponInv'
  BY <1>3, <1>6 DEF Award
<1>7. CASE UNCHANGED vars
  BY <1>3, <1>7 DEF vars
<1>. QED  BY <1>1, <1>2, <1>4, <1>5, <1>6, <1>7 DEF Next, Merchant

LEMMA CouponInvLimits == TypeInv /\ CouponInv => OrdersWithinLimit
<1>. SUFFICES ASSUME TypeInv, CouponInv, NEW n \in coupon.limit, coupon.gen > 0
              PROVE  Slots(coupon.gen) <= n
  BY DEF OrdersWithinLimit, Slots
<1>1. Slots(coupon.gen) <= coupon.count /\ coupon.count <= n
  BY DEF CouponInv, CountCovers, LimitCovers
<1>2. n \in Nat /\ coupon.count \in Nat
  BY DEF TypeInv, RedemptionTypeOK
<1>3. Slots(coupon.gen) \in Nat
  BY SlotsNat DEF Slots
<1>. QED  BY <1>1, <1>2, <1>3

(* A limited code is never on more orders than its limit, for any number of
   concurrent checkouts, although each checks the limit on a read first. *)
THEOREM CouponWithinLimit == Spec => []OrdersWithinLimit
<1>1. Init => CouponInv
  <2>. SUFFICES ASSUME Init PROVE CouponInv
    OBVIOUS
  <2>1. coupon.gen = 0 /\ coupon.limit = {}
    BY DEF Init
  <2>2. \A o \in Orders : order[o].code = 0
    BY DEF Init
  <2>3. \A h \in Handlers : proc[h].at \notin CheckoutSteps
    BY DEF Init, Idle, CheckoutSteps
  <2>. QED  BY <2>1, <2>2, <2>3 DEF CouponInv, CodesKnown, CountCovers, LimitCovers
<1>. QED  BY <1>1, InitTyped, NextTyped, CouponStep, CouponInvLimits, PTL DEF Spec
----------------------------------------------------------------------------
(* Points at what they are worth. *)
(* What a checkout knows of the points it takes: none before they are priced, what
   they are worth and that it fits what is left of the cart. *)
Worth(used, value) ==
    used > 0 /\ PointValue > 0 => value <= used * PointValue /\ (used - 1) * PointValue < value

Priced(r, rows) ==
    /\ ~rows[r.o].placed
    /\ r.at \in {"validate", "claim", "points"} => r.used = 0 /\ r.value = 0
    /\ Worth(r.used, r.value)
    /\ r.at = "spend" /\ r.value > 0 => r.discount + r.value <= r.subtotal
    /\ r.at = "pay" /\ r.value > 0 => r.discount <= r.subtotal

Known(r, rows) ==
    /\ r.at \in CheckoutSteps => Priced(r, rows)
    /\ r.at \in {"dup", "earn"} => rows[r.o].placed

OwnOrders ==
    \A g, h \in Handlers :
       g # h /\ proc[g].at \in CheckoutSteps /\ proc[h].at \in CheckoutSteps => proc[g].o # proc[h].o

PointsInv ==
    /\ \A h \in Handlers : Known(proc[h], order)
    /\ OwnOrders
    /\ \A o \in Orders : ~order[o].placed => earned[o] = 0
    /\ PointsWellSpent /\ PointsArePaid

LEMMA DivMod ==
    ASSUME NEW n \in Nat, NEW d \in Nat \ {0}
    PROVE  n = (n \div d) * d + (n % d) /\ n % d \in 0..(d - 1) /\ n \div d \in Nat
<1>1. n = (n \div d) * d + (n % d)
  BY SMTT(30)
<1>2. n % d \in 0..(d - 1)
  OBVIOUS
<1>. QED  BY <1>1, <1>2, DivNat

(* Points rounded up are worth what remains, and one fewer would not be. *)
LEMMA PointsForWorth ==
    ASSUME NEW n \in Nat, PointValue > 0
    PROVE  PointsFor(n) \in Nat /\ n <= PointsFor(n) * PointValue /\ (PointsFor(n) > 0 => (PointsFor(n) - 1) * PointValue < n)
<1>. DEFINE d == PointValue
            k == n \div d
            m == n % d
<1>1. d \in Nat \ {0}
  BY RedemptionAssumption
<1>2. n = k * d + m /\ m \in Nat /\ m < d /\ k \in Nat
  BY <1>1, DivMod
<1>3. PointsFor(n) = IF m = 0 THEN k ELSE k + 1
  BY DEF PointsFor
<1>. HIDE DEF k, m, d
<1>4. (k + 1) * d = k * d + d /\ (k - 1) * d = k * d - d /\ k * d \in Nat
  BY <1>1, <1>2
<1>5. CASE m = 0
  BY <1>1, <1>2, <1>3, <1>4, <1>5 DEF d
<1>6. CASE m # 0
  <2>1. PointsFor(n) = k + 1 /\ PointsFor(n) - 1 = k
    BY <1>2, <1>3, <1>6
  <2>. QED  BY <1>1, <1>2, <1>4, <1>6, <2>1 DEF d
<1>. QED  BY <1>5, <1>6

LEMMA ExactWorth ==
    ASSUME NEW n \in Nat
    PROVE  Worth(n, n * PointValue)
<1>1. PointValue \in Nat
  BY RedemptionAssumption
<1>2. (n - 1) * PointValue = n * PointValue - PointValue /\ n * PointValue \in Nat
  BY <1>1
<1>. QED  BY <1>1, <1>2 DEF Worth
----------------------------------------------------------------------------
(* The sums of the ledger, as one term changes. *)
LEMMA Terms ==
    ASSUME TypeInv
    PROVE  /\ \A o \in Orders : \A c : TookOf(order[o], c) \in Int /\ GainOf(o, c) \in Int
           /\ \A h \in Handlers : \A c : TakenBy(proc[h], c) \in Int
<1>1. \A h \in Handlers : proc[h].at = "pay" => proc[h].used \in Int
  BY AttemptAt DEF Attempt, CheckoutSteps
<1>2. ASSUME NEW o \in Orders PROVE earned[o] * PointsEarned(o) \in Int /\ order[o].used \in Int
  <2>1. earned[o] \in Nat /\ PointsEarned(o) \in Nat
    BY PointsEarnedNat DEF TypeInv, RedemptionTypeOK
  <2>2. order[o].used \in Int
    BY DEF TypeInv, RedemptionTypeOK, Row
  <2>. QED  BY <2>1, <2>2, TimesNat
<1>. QED  BY <1>1, <1>2 DEF TookOf, GainOf, TakenBy

LEMMA SpentIs ==
    ASSUME TypeInv, NEW c
    PROVE  /\ SumFunctionOnSet([o \in Orders |-> TookOf(order[o], c)], Orders) \in Int
           /\ SumFunctionOnSet([h \in Handlers |-> TakenBy(proc[h], c)], Handlers) \in Int
           /\ Gained(c) \in Int
<1>. DEFINE f == [o \in Orders |-> TookOf(order[o], c)]
            g == [h \in Handlers |-> TakenBy(proc[h], c)]
            e == [o \in Orders |-> GainOf(o, c)]
<1>1. (\A o \in Orders : f[o] \in Int) /\ (\A h \in Handlers : g[h] \in Int) /\ (\A o \in Orders : e[o] \in Int)
  BY Terms
<1>2. IsFiniteSet(Orders) /\ IsFiniteSet(Handlers)
  BY RedemptionAssumption
<1>3. Gained(c) = SumFunctionOnSet(e, Orders)
  BY DEF Gained
<1>. HIDE DEF f, g, e
<1>4. SumFunctionOnSet(f, Orders) \in Int /\ SumFunctionOnSet(g, Handlers) \in Int /\ SumFunctionOnSet(e, Orders) \in Int
  BY <1>1, <1>2, SumInt
<1>. QED  BY <1>3, <1>4 DEF f, g

LEMMA TakenGoes ==
    ASSUME TypeInv, TypeInv', NEW h \in Handlers, NEW q, Goes(h, q), NEW c
    PROVE  /\ SumFunctionOnSet([k \in Handlers |-> TakenBy(proc'[k], c)], Handlers)
                = SumFunctionOnSet([k \in Handlers |-> TakenBy(proc[k], c)], Handlers) - TakenBy(proc[h], c) + TakenBy(q, c)
           /\ TakenBy(proc[h], c) \in Int /\ TakenBy(q, c) \in Int
<1>. DEFINE f == [k \in Handlers |-> TakenBy(proc[k], c)]
            g == [k \in Handlers |-> TakenBy(proc'[k], c)]
<1>1. proc'[h] = q /\ \A k \in Handlers \ {h} : proc'[k] = proc[k]
  BY GoesIs
<1>2. \A k \in Handlers : f[k] \in Int
  BY Terms
<1>3. \A k \in Handlers : g[k] \in Int
  <2>1. ASSUME NEW k \in Handlers PROVE TakenBy(proc'[k], c) \in Int
    <3>1. proc'[k] \in {Idle} \cup Attempt \cup Earning
      BY DEF TypeInv, RedemptionTypeOK
    <3>2. proc'[k].at = "pay" => proc'[k].used \in Nat
      BY <3>1 DEF Idle, Attempt, Earning
    <3>. QED  BY <3>2 DEF TakenBy
  <2>. QED  BY <2>1
<1>4. \A k \in Handlers \ {h} : f[k] = g[k]
  BY <1>1
<1>5. IsFiniteSet(Handlers)
  BY RedemptionAssumption
<1>6. f[h] = TakenBy(proc[h], c) /\ g[h] = TakenBy(q, c)
  BY <1>1
<1>. HIDE DEF f, g
<1>7. SumFunctionOnSet(g, Handlers) = SumFunctionOnSet(f, Handlers) - f[h] + g[h]
  <2>1. \A k \in Handlers : f[k] \in Int /\ g[k] \in Int
    BY <1>2, <1>3
  <2>2. h \in Handlers
    OBVIOUS
  <2>. QED  BY ONLY <1>4, <1>5, <2>1, <2>2, SumChange
<1>. QED  BY <1>2, <1>3, <1>6, <1>7 DEF f, g

(* A sum over the orders, as one order changes. *)
LEMMA OrdersChange ==
    ASSUME NEW f, NEW g, NEW o \in Orders,
           \A x \in Orders : f[x] \in Int /\ g[x] \in Int, \A x \in Orders \ {o} : f[x] = g[x]
    PROVE  SumFunctionOnSet(g, Orders) = SumFunctionOnSet(f, Orders) - f[o] + g[o]
<1>1. IsFiniteSet(Orders)
  BY RedemptionAssumption
<1>. QED  BY <1>1, SumChange

(* What an order's earnings brought the customer. *)
GainFrom(row, n, c) == IF row.placed /\ row.c = c THEN n * ((row.total \div Unit) * EarnRate) ELSE 0

(* The ledger of one customer, as a handler goes on and an order changes. *)
LEMMA PaidSteps ==
    ASSUME TypeInv, TypeInv', PointsArePaid, NEW h \in Handlers, NEW q, Goes(h, q), awarded' = awarded,
           NEW o \in Orders, \A x \in Orders \ {o} : order'[x] = order[x] /\ earned'[x] = earned[x],
           \A c \in Customers :
              account'[c].balance + TakenBy(q, c) + TookOf(order'[o], c) - GainFrom(order'[o], earned'[o], c)
                <= account[c].balance + TakenBy(proc[h], c) + TookOf(order[o], c) - GainFrom(order[o], earned[o], c)
    PROVE  PointsArePaid'
<1>. SUFFICES ASSUME NEW c \in Customers PROVE (account[c].balance <= awarded[c] + Gained(c) - Spent(c))'
  BY DEF PointsArePaid
<1>. DEFINE f == [x \in Orders |-> TookOf(order[x], c)]
            f2 == [x \in Orders |-> TookOf(order'[x], c)]
            g == [x \in Orders |-> GainOf(x, c)]
            g2 == [x \in Orders |-> GainFrom(order'[x], earned'[x], c)]
            t == SumFunctionOnSet([k \in Handlers |-> TakenBy(proc[k], c)], Handlers)
            t2 == SumFunctionOnSet([k \in Handlers |-> TakenBy(proc'[k], c)], Handlers)
<1>1. \A x \in Orders : f[x] \in Int /\ g[x] \in Int
  BY Terms
<1>2. \A x \in Orders : f2[x] \in Int /\ g2[x] \in Int
  <2>1. ASSUME NEW x \in Orders PROVE f2[x] \in Int /\ g2[x] \in Int
    <3>1. order'[x] \in Row /\ earned'[x] \in Nat
      BY DEF TypeInv, RedemptionTypeOK
    <3>2. Unit \in Nat \ {0} /\ EarnRate \in Nat
      BY RedemptionAssumption
    <3>3. order'[x].total \in Nat /\ order'[x].used \in Nat
      BY <3>1 DEF Row
    <3>4. order'[x].total \div Unit \in Nat
      BY <3>2, <3>3, DivNat
    <3>5. (order'[x].total \div Unit) * EarnRate \in Nat
      BY <3>2, <3>4, TimesNat
    <3>6. earned'[x] * ((order'[x].total \div Unit) * EarnRate) \in Nat
      BY <3>1, <3>5, TimesNat
    <3>. QED  BY <3>3, <3>6 DEF TookOf, GainFrom
  <2>. QED  BY <2>1
<1>3. \A x \in Orders \ {o} : f[x] = f2[x] /\ g[x] = g2[x]
  BY DEF GainOf, GainFrom, PointsEarned
<1>4. IsFiniteSet(Orders)
  BY RedemptionAssumption
<1>5. f[o] = TookOf(order[o], c) /\ f2[o] = TookOf(order'[o], c) /\ g[o] = GainFrom(order[o], earned[o], c)
      /\ g2[o] = GainFrom(order'[o], earned'[o], c)
  BY DEF GainOf, GainFrom, PointsEarned
<1>6. /\ Spent(c) = SumFunctionOnSet(f, Orders) + t /\ Gained(c) = SumFunctionOnSet(g, Orders)
      /\ Spent(c)' = SumFunctionOnSet(f2, Orders) + t2 /\ Gained(c)' = SumFunctionOnSet(g2, Orders)
  BY DEF Spent, Gained, TookOf, TakenBy, GainOf, GainFrom, PointsEarned
<1>7. t2 = t - TakenBy(proc[h], c) + TakenBy(q, c) /\ TakenBy(proc[h], c) \in Int /\ TakenBy(q, c) \in Int
  BY TakenGoes
<1>8. t \in Int
  BY SpentIs
<1>. HIDE DEF f, f2, g, g2, t, t2
<1>9. /\ SumFunctionOnSet(f2, Orders) = SumFunctionOnSet(f, Orders) - f[o] + f2[o]
      /\ SumFunctionOnSet(g2, Orders) = SumFunctionOnSet(g, Orders) - g[o] + g2[o]
      /\ SumFunctionOnSet(f, Orders) \in Int /\ SumFunctionOnSet(g, Orders) \in Int
  <2>1. SumFunctionOnSet(f2, Orders) = SumFunctionOnSet(f, Orders) - f[o] + f2[o]
    <3>1. \A x \in Orders : f[x] \in Int /\ f2[x] \in Int
      BY <1>1, <1>2
    <3>2. \A x \in Orders \ {o} : f[x] = f2[x]
      BY <1>3
    <3>. QED  BY <3>1, <3>2, OrdersChange
  <2>2. SumFunctionOnSet(g2, Orders) = SumFunctionOnSet(g, Orders) - g[o] + g2[o]
    <3>1. \A x \in Orders : g[x] \in Int /\ g2[x] \in Int
      BY <1>1, <1>2
    <3>2. \A x \in Orders \ {o} : g[x] = g2[x]
      BY <1>3
    <3>. QED  BY <3>1, <3>2, OrdersChange
  <2>3. SumFunctionOnSet(f, Orders) \in Int /\ SumFunctionOnSet(g, Orders) \in Int
    BY <1>1, <1>4, SumInt
  <2>. QED  BY <2>1, <2>2, <2>3
<1>10. account[c].balance \in Int /\ account'[c].balance \in Int /\ awarded[c] \in Int
  BY DEF TypeInv, RedemptionTypeOK
<1>11. account[c].balance <= awarded[c] + Gained(c) - Spent(c)
  BY DEF PointsArePaid
<1>12. account'[c].balance + TakenBy(q, c) + TookOf(order'[o], c) - GainFrom(order'[o], earned'[o], c)
                <= account[c].balance + TakenBy(proc[h], c) + TookOf(order[o], c) - GainFrom(order[o], earned[o], c)
  OBVIOUS
<1>. DEFINE sf == SumFunctionOnSet(f, Orders)
            sg == SumFunctionOnSet(g, Orders)
            a == account[c].balance
            b == account'[c].balance
            w == awarded[c]
            th == TakenBy(proc[h], c)
            tq == TakenBy(q, c)
            u == f[o]
            v == f2[o]
            y == g[o]
            z == g2[o]
<1>13. /\ sf \in Int /\ sg \in Int /\ a \in Int /\ b \in Int /\ w \in Int /\ th \in Int /\ tq \in Int /\ t \in Int
       /\ u \in Int /\ v \in Int /\ y \in Int /\ z \in Int
  BY <1>1, <1>2, <1>7, <1>8, <1>9, <1>10
<1>14. /\ a <= w + sg - (sf + t) /\ b + tq + v - z <= a + th + u - y
       /\ Gained(c)' = sg - y + z /\ Spent(c)' = (sf - u + v) + (t - th + tq)
  BY <1>5, <1>6, <1>7, <1>9, <1>11, <1>12
<1>. HIDE DEF sf, sg, a, b, w, th, tq, u, v, y, z
<1>15. b <= w + (sg - y + z) - ((sf - u + v) + (t - th + tq))
  BY <1>13, <1>14
<1>. QED  BY <1>14, <1>15 DEF b, w
----------------------------------------------------------------------------
LEMMA AttemptOf ==
    ASSUME TypeInv, NEW h \in Handlers, proc[h].at \in CheckoutSteps
    PROVE  /\ proc[h] \in Attempt /\ proc[h].o \in Orders /\ proc[h].c \in Customers /\ proc[h].used \in Nat
           /\ proc[h].value \in Nat /\ proc[h].discount \in Nat /\ proc[h].subtotal \in Nat /\ proc[h].want \in Nat
  BY AttemptAt, RedemptionAssumption DEF Attempt

(* A handler goes on, no order and no earning is written. *)
LEMMA PointsGo ==
    ASSUME TypeInv, TypeInv', PointsInv, NEW h \in Handlers, NEW q, Goes(h, q), NEW o \in Orders,
           order' = order, earned' = earned, awarded' = awarded, Known(q, order),
           q.at \in CheckoutSteps => \A g \in Handlers \ {h} : proc[g].at \in CheckoutSteps => proc[g].o # q.o,
           \A c \in Customers : account'[c].balance + TakenBy(q, c) <= account[c].balance + TakenBy(proc[h], c)
    PROVE  PointsInv'
<1>1. proc'[h] = q /\ \A g \in Handlers \ {h} : proc'[g] = proc[g]
  BY GoesIs
<1>2. \A g \in Handlers : Known(proc'[g], order)
  BY <1>1 DEF PointsInv
<1>3. OwnOrders'
  BY <1>1 DEF OwnOrders, PointsInv
<1>4. PointsArePaid'
  <2>1. \A x \in Orders \ {o} : order'[x] = order[x] /\ earned'[x] = earned[x]
    OBVIOUS
  <2>2. ASSUME NEW c \in Customers
        PROVE  account'[c].balance + TakenBy(q, c) + TookOf(order'[o], c) - GainFrom(order'[o], earned'[o], c)
                <= account[c].balance + TakenBy(proc[h], c) + TookOf(order[o], c) - GainFrom(order[o], earned[o], c)
    <3>1. order'[o] = order[o] /\ earned'[o] = earned[o]
      OBVIOUS
    <3>2. TookOf(order[o], c) \in Int /\ GainFrom(order[o], earned[o], c) \in Int
      BY Terms DEF GainOf, GainFrom, PointsEarned
    <3>3. TakenBy(q, c) \in Int /\ TakenBy(proc[h], c) \in Int
      BY TakenGoes
    <3>4. account'[c].balance \in Int /\ account[c].balance \in Int
      BY DEF TypeInv, RedemptionTypeOK
    <3>5. account'[c].balance + TakenBy(q, c) <= account[c].balance + TakenBy(proc[h], c)
      OBVIOUS
    <3>. QED  BY <3>1, <3>2, <3>3, <3>4, <3>5
  <2>3. PointsArePaid
    BY DEF PointsInv
  <2>. QED  BY <2>1, <2>2, <2>3, PaidSteps
<1>5. \A g \in Handlers : Known(proc[g], order)'
  BY <1>2 DEF Known, Priced, Worth
<1>6. PointsWellSpent' /\ \A x \in Orders : (~order[x].placed => earned[x] = 0)'
  BY DEF PointsInv, PointsWellSpent
<1>. QED  BY <1>3, <1>4, <1>5, <1>6 DEF PointsInv

(* A step that leaves points alone. *)
LEMMA PointsCalm ==
    ASSUME TypeInv, TypeInv', PointsInv, NEW h \in Handlers, NEW q, Goes(h, q), NEW o \in Orders,
           order' = order, earned' = earned, awarded' = awarded, account' = account, Known(q, order),
           q.at \in CheckoutSteps => \A g \in Handlers \ {h} : proc[g].at \in CheckoutSteps => proc[g].o # q.o,
           q.at = "pay" => q.used = 0
    PROVE  PointsInv'
<1>1. ASSUME NEW c \in Customers PROVE account'[c].balance + TakenBy(q, c) <= account[c].balance + TakenBy(proc[h], c)
  <2>1. TakenBy(q, c) = 0 /\ TakenBy(proc[h], c) \in Nat
    BY AttemptOf DEF TakenBy, CheckoutSteps
  <2>2. account'[c].balance = account[c].balance /\ account[c].balance \in Int
    BY DEF TypeInv, RedemptionTypeOK
  <2>. QED  BY <2>1, <2>2
<1>. QED  BY <1>1, PointsGo

LEMMA IdleKnown == Known(Idle, order) /\ Idle.at \notin CheckoutSteps /\ Idle.at # "pay"
  BY DEF Idle, Known, CheckoutSteps

LEMMA PlacingKeepsPoints ==
    ASSUME TypeInv, TypeInv', PointsInv, NEW h \in Handlers, PlaceOrder(h)
    PROVE  PointsInv'
<1>. DEFINE r == proc[h]
            o == r.o
<1>1. /\ r.at = "pay" /\ r.at \in CheckoutSteps /\ Goes(h, Idle) /\ account' = account /\ awarded' = awarded /\ earned' = earned
  BY DEF PlaceOrder, CheckoutSteps
<1>2. r \in Attempt /\ o \in Orders /\ r.used \in Nat
  BY <1>1, AttemptOf
<1>3. PICK s \in Repriced[r.subtotal] : order' = [order EXCEPT ![o] = Placed(r, s)]
  BY DEF PlaceOrder
<1>. DEFINE row == Placed(r, s)
<1>4. row.placed /\ row.c = r.c /\ row.used = r.used /\ row.value = r.value
  BY DEF Placed
<1>5. order'[o] = row /\ \A x \in Orders : x # o => order'[x] = order[x]
  BY <1>2, <1>3 DEF TypeInv, RedemptionTypeOK
<1>6. Priced(r, order) /\ ~order[o].placed /\ earned[o] = 0
  BY <1>1, <1>2 DEF PointsInv, Known, Priced
<1>7. proc'[h] = Idle /\ \A g \in Handlers \ {h} : proc'[g] = proc[g]
  BY <1>1, GoesIs
<1>8. PointsArePaid'
  <2>1. ASSUME NEW c \in Customers
        PROVE  account'[c].balance + TakenBy(Idle, c) + TookOf(order'[o], c) - GainFrom(order'[o], earned'[o], c)
                <= account[c].balance + TakenBy(r, c) + TookOf(order[o], c) - GainFrom(order[o], earned[o], c)
    <3>1. TookOf(order'[o], c) = TakenBy(r, c) /\ TakenBy(Idle, c) = 0 /\ TookOf(order[o], c) = 0
         /\ GainFrom(order[o], earned[o], c) = 0
      BY <1>1, <1>4, <1>5, <1>6, IdleKnown DEF TookOf, TakenBy, GainFrom
    <3>2. GainFrom(order'[o], earned'[o], c) = 0
      <4>1. order'[o].total \in Nat
        BY <1>2 DEF TypeInv, RedemptionTypeOK, Row
      <4>2. Unit \in Nat \ {0} /\ EarnRate \in Nat
        BY RedemptionAssumption
      <4>3. order'[o].total \div Unit \in Nat
        BY <4>1, <4>2, DivNat
      <4>4. (order'[o].total \div Unit) * EarnRate \in Nat
        BY <4>2, <4>3, TimesNat
      <4>5. earned'[o] = 0
        BY <1>1, <1>6
      <4>6. earned'[o] * ((order'[o].total \div Unit) * EarnRate) = 0
        BY <4>4, <4>5
      <4>. QED  BY <4>6 DEF GainFrom
    <3>3. TakenBy(r, c) \in Nat /\ account[c].balance \in Int
      BY <1>2 DEF TakenBy, TypeInv, RedemptionTypeOK
    <3>4. account'[c].balance = account[c].balance
      BY <1>1
    <3>. HIDE DEF r, o
    <3>. QED  BY <3>1, <3>2, <3>3, <3>4
  <2>2. \A x \in Orders \ {o} : order'[x] = order[x] /\ earned'[x] = earned[x]
    BY <1>1, <1>5
  <2>3. PointsArePaid
    BY DEF PointsInv
  <2>4. o \in Orders /\ Goes(h, Idle) /\ awarded' = awarded
    BY <1>1, <1>2
  <2>5. ASSUME NEW c \in Customers
        PROVE  account'[c].balance + TakenBy(Idle, c) + TookOf(order'[o], c) - GainFrom(order'[o], earned'[o], c)
                <= account[c].balance + TakenBy(proc[h], c) + TookOf(order[o], c) - GainFrom(order[o], earned[o], c)
    BY <2>1
  <2>. HIDE DEF o, r
  <2>. QED  BY <2>2, <2>3, <2>4, <2>5, PaidSteps
<1>9. PointsWellSpent'
  <2>1. Worth(row.used, row.value)
    BY <1>4, <1>6 DEF Priced
  <2>2. \A x \in Orders : order'[x].placed => Worth(order'[x].used, order'[x].value)
    BY <1>5, <2>1 DEF PointsInv, PointsWellSpent, Worth
  <2>. QED  BY <2>2 DEF PointsWellSpent, Worth
<1>10. \A x \in Orders : ~order'[x].placed => earned'[x] = 0
  BY <1>1, <1>4, <1>5 DEF PointsInv
<1>11. ASSUME NEW g \in Handlers PROVE Known(proc[g], order)'
  <2>1. CASE g = h
    <3>1. Known(Idle, order')
      BY IdleKnown DEF Known, Idle
    <3>. QED  BY <1>7, <2>1, <3>1 DEF Known, Priced, Worth
  <2>2. CASE g # h
    <3>1. proc'[g] = proc[g] /\ Known(proc[g], order)
      BY <1>7, <2>2 DEF PointsInv
    <3>2. proc[g].at \in CheckoutSteps => proc[g].o # o /\ proc[g].o \in Orders
      BY <1>1, <2>2, AttemptOf DEF PointsInv, OwnOrders
    <3>3. proc[g].at \in {"dup", "earn"} => proc[g].o \in Orders
      BY EarningAt DEF Earning
    <3>4. Known(proc[g], order')
      BY <1>4, <1>5, <3>1, <3>2, <3>3 DEF Known, Priced
    <3>. QED  BY <3>1, <3>4 DEF Known, Priced, Worth
  <2>. QED  BY <2>1, <2>2
<1>12. OwnOrders'
  <2>1. \A g \in Handlers : proc'[g].at \in CheckoutSteps => proc'[g] = proc[g]
    BY <1>7, IdleKnown
  <2>2. OwnOrders
    BY DEF PointsInv
  <2>. QED  BY <2>1, <2>2 DEF OwnOrders
<1>. QED  BY <1>8, <1>9, <1>10, <1>11, <1>12 DEF PointsInv

LEMMA CheckoutKeepsPoints ==
    ASSUME TypeInv, TypeInv', PointsInv, NEW h \in Handlers, Checkout(h)
    PROVE  PointsInv'
<1>. DEFINE r == proc[h]
<1>a. ASSUME r.at \in CheckoutSteps
      PROVE  /\ r \in Attempt /\ r.o \in Orders /\ r.c \in Customers /\ r.used \in Nat /\ r.value \in Nat
             /\ r.discount \in Nat /\ r.subtotal \in Nat /\ r.want \in Nat /\ Priced(r, order)
             /\ \A g \in Handlers \ {h} : proc[g].at \in CheckoutSteps => proc[g].o # r.o
  BY <1>a, AttemptOf DEF PointsInv, Known, OwnOrders
<1>1. ASSUME NEW o \in Orders, NEW c \in Customers, NEW s \in Subtotals, NEW offer \in Offers,
             NEW want \in Wanted \cup {0}, NEW coded \in BOOLEAN, BeginCheckout(h, o, c, s, offer, want, coded)
      PROVE  PointsInv'
  <2>. DEFINE q == [at |-> IF coded THEN "validate" ELSE AfterCoupon(want),
                    o |-> o, c |-> c, subtotal |-> s, want |-> want, discount |-> offer,
                    code |-> 0, used |-> 0, value |-> 0]
  <2>1. /\ Goes(h, q) /\ order' = order /\ earned' = earned /\ awarded' = awarded /\ account' = account
        /\ ~order[o].placed /\ \A g \in Handlers : proc[g] # Idle => proc[g].o # o
    BY <1>1 DEF BeginCheckout
  <2>2. q.at \in {"validate", "points", "pay"} /\ q.o = o /\ q.used = 0 /\ q.value = 0
    BY DEF AfterCoupon
  <2>. HIDE DEF q
  <2>3. Known(q, order)
    BY <2>1, <2>2 DEF Known, Priced, Worth
  <2>4. \A g \in Handlers \ {h} : proc[g].at \in CheckoutSteps => proc[g].o # q.o
    BY <2>1, <2>2, IdleKnown
  <2>. QED  BY <2>1, <2>2, <2>3, <2>4, PointsCalm
<1>2. ASSUME NEW q, Goes(h, q), order' = order, earned' = earned, awarded' = awarded, account' = account,
             r.at \in CheckoutSteps, r.at # "pay", q = Idle \/ (q.at \in CheckoutSteps /\ q.o = r.o /\ Priced(q, order)),
             q.at = "pay" => q.used = 0
      PROVE  PointsInv'
  <2>1. Known(q, order)
    BY <1>2, IdleKnown DEF Known, CheckoutSteps
  <2>2. q.at \in CheckoutSteps => \A g \in Handlers \ {h} : proc[g].at \in CheckoutSteps => proc[g].o # q.o
    BY <1>2, <1>a, IdleKnown
  <2>3. r.o \in Orders
    BY <1>2, <1>a
  <2>. QED  BY <1>2, <2>1, <2>2, <2>3, PointsCalm
<1>3. ASSUME ValidateCode(h) PROVE PointsInv'
  <2>. DEFINE q == [r EXCEPT !.at = "claim"]
  <2>1. /\ Goes(h, q) \/ Goes(h, Idle)
        /\ order' = order /\ earned' = earned /\ awarded' = awarded /\ account' = account
        /\ r.at = "validate" /\ r.at \in CheckoutSteps
    BY <1>3 DEF ValidateCode, CheckoutSteps
  <2>2. q.at = "claim" /\ q.o = r.o /\ q.used = r.used /\ q.value = r.value
    BY <1>a, <2>1 DEF Attempt
  <2>3. q.at \in CheckoutSteps /\ q.at # "pay" /\ Idle.at # "pay" /\ r.at # "pay"
    BY <2>1, <2>2, IdleKnown DEF CheckoutSteps
  <2>4. Priced(q, order)
    BY <1>a, <2>1, <2>2 DEF Priced
  <2>. HIDE DEF q, r
  <2>. QED  BY <1>2, <2>1, <2>2, <2>3, <2>4
<1>4. ASSUME ClaimSlot(h) PROVE PointsInv'
  <2>. DEFINE q == [r EXCEPT !.at = AfterCoupon(r.want), !.code = coupon.gen,
                                 !.discount = @ + Smaller(CouponValue, r.subtotal)]
  <2>1. /\ Goes(h, q) \/ Goes(h, Idle)
        /\ order' = order /\ earned' = earned /\ awarded' = awarded /\ account' = account
        /\ r.at = "claim" /\ r.at \in CheckoutSteps
    BY <1>4 DEF ClaimSlot, CheckoutSteps
  <2>2. q.at \in {"points", "pay"} /\ q.o = r.o /\ q.used = r.used /\ q.value = r.value
    BY <1>a, <2>1 DEF Attempt, AfterCoupon
  <2>3. r.used = 0 /\ r.value = 0 /\ ~order[r.o].placed
    BY <1>a, <2>1 DEF Priced
  <2>. HIDE DEF q
  <2>4. Priced(q, order) /\ q.at \in CheckoutSteps /\ q.used = 0
    BY <2>2, <2>3 DEF Priced, Worth, CheckoutSteps
  <2>5. r.at # "pay"
    BY <2>1
  <2>. QED  BY <1>2, <2>1, <2>2, <2>4, <2>5, IdleKnown
<1>5. ASSUME CheckPoints(h) PROVE PointsInv'
  <2>. DEFINE remaining == Remaining(r)
              capped == r.want * PointValue > remaining
              v == IF capped THEN remaining ELSE r.want * PointValue
              u == IF capped THEN PointsFor(remaining) ELSE r.want
              q == [r EXCEPT !.at = "spend", !.value = v, !.used = u]
  <2>1. /\ Goes(h, q) \/ Goes(h, Idle)
        /\ order' = order /\ earned' = earned /\ awarded' = awarded /\ account' = account
        /\ r.at = "points" /\ r.at \in CheckoutSteps
    BY <1>5 DEF CheckPoints, CheckoutSteps
  <2>2. q.at = "spend" /\ q.o = r.o /\ q.used = u /\ q.value = v /\ q.discount = r.discount /\ q.subtotal = r.subtotal
    BY <1>a, <2>1 DEF Attempt
  <2>3. /\ ~order[r.o].placed /\ r.discount \in Nat /\ r.subtotal \in Nat /\ r.want \in Nat
        /\ PointValue \in Nat
    BY <1>a, <2>1, RedemptionAssumption DEF Priced
  <2>4. remaining = (IF r.subtotal - r.discount < 0 THEN 0 ELSE r.subtotal - r.discount) /\ remaining \in Nat
    BY <2>3 DEF Remaining, AtLeastZero
  <2>5. r.want * PointValue \in Nat
    BY <2>3, TimesNat
  <2>6. v <= remaining /\ v \in Nat
    BY <2>4, <2>5
  <2>7. Worth(u, v)
    <3>1. CASE capped
      <4>1. PointValue > 0 => remaining <= PointsFor(remaining) * PointValue
                              /\ (PointsFor(remaining) > 0 => (PointsFor(remaining) - 1) * PointValue < remaining)
        BY <2>4, PointsForWorth
      <4>2. u = PointsFor(remaining) /\ v = remaining
        BY <3>1
      <4>. HIDE DEF u, v, remaining, capped
      <4>. QED  BY <4>1, <4>2 DEF Worth
    <3>2. CASE ~capped
      BY <2>3, <3>2, ExactWorth
    <3>. QED  BY <3>1, <3>2
  <2>8. v > 0 => r.discount + v <= r.subtotal
    BY <2>3, <2>4, <2>6
  <2>. HIDE DEF q, u, v
  <2>9. Priced(q, order) /\ q.at \in CheckoutSteps /\ q.at # "pay"
    BY <2>2, <2>3, <2>7, <2>8 DEF Priced, CheckoutSteps
  <2>10. r.at # "pay"
    BY <2>1
  <2>. HIDE DEF r
  <2>. QED  BY <1>2, <2>1, <2>2, <2>9, <2>10, IdleKnown
<1>6. ASSUME SpendPoints(h) PROVE PointsInv'
  <2>. DEFINE q == [r EXCEPT !.at = "pay", !.discount = @ + r.value]
  <2>1. /\ order' = order /\ earned' = earned /\ awarded' = awarded
        /\ r.at = "spend" /\ r.at \in CheckoutSteps /\ r.at # "pay"
        /\ (Goes(h, q) /\ Post(r.c, -r.used)) \/ (Goes(h, Idle) /\ account' = account)
    BY <1>6 DEF SpendPoints, Refused, CheckoutSteps
  <2>2. CASE Goes(h, Idle) /\ account' = account
    BY <1>2, <2>1, <2>2, IdleKnown
  <2>3. CASE Goes(h, q) /\ Post(r.c, -r.used)
    <3>1. /\ q.at = "pay" /\ q.o = r.o /\ q.c = r.c /\ q.used = r.used /\ q.value = r.value
          /\ q.discount = r.discount + r.value /\ q.subtotal = r.subtotal
      BY <1>a, <2>1 DEF Attempt
    <3>2. \A c \in Customers : account'[c].balance = IF c = r.c THEN account[c].balance + (-r.used) ELSE account[c].balance
      BY <2>3 DEF Post, TypeInv, RedemptionTypeOK
    <3>3. Goes(h, q)
      BY <2>3
    <3>. HIDE DEF q
    <3>4. Priced(q, order) /\ q.at \in CheckoutSteps
      BY <1>a, <2>1, <3>1 DEF Priced, CheckoutSteps
    <3>5. Known(q, order)
      BY <3>1, <3>4 DEF Known
    <3>6. ASSUME NEW c \in Customers PROVE account'[c].balance + TakenBy(q, c) <= account[c].balance + TakenBy(r, c)
      <4>1. TakenBy(r, c) = 0 /\ TakenBy(q, c) = IF c = r.c THEN r.used ELSE 0
        BY <2>1, <3>1 DEF TakenBy
      <4>2. r.used \in Nat /\ account[c].balance \in Int
        BY <1>a, <2>1 DEF TypeInv, RedemptionTypeOK
      <4>3. account'[c].balance = IF c = r.c THEN account[c].balance + (-r.used) ELSE account[c].balance
        BY <3>2
      <4>. HIDE DEF r
      <4>. QED  BY <4>1, <4>2, <4>3
    <3>7. r.o \in Orders /\ \A g \in Handlers \ {h} : proc[g].at \in CheckoutSteps => proc[g].o # q.o
      BY <1>a, <2>1, <3>1
    <3>. QED  BY <2>1, <3>3, <3>5, <3>6, <3>7, PointsGo
  <2>. QED  BY <2>1, <2>2, <2>3
<1>7. ASSUME CheckoutFails(h) PROVE PointsInv'
  <2>1. /\ order' = order /\ earned' = earned /\ awarded' = awarded /\ account' = account
        /\ r.at = "pay" /\ r.at \in CheckoutSteps /\ Goes(h, Idle)
    BY <1>7 DEF CheckoutFails, CheckoutSteps
  <2>2. r.o \in Orders
    BY <1>a, <2>1
  <2>. QED  BY <2>1, <2>2, IdleKnown, PointsCalm
<1>. QED  BY <1>1, <1>3, <1>4, <1>5, <1>6, <1>7, PlacingKeepsPoints DEF Checkout
----------------------------------------------------------------------------
(* Earning. *)
LEMMA CaptureKeepsPoints ==
    ASSUME TypeInv, TypeInv', PointsInv, NEW h \in Handlers, Capture(h)
    PROVE  PointsInv'
<1>1. ASSUME NEW o \in Orders, BeginEarn(h, o) PROVE PointsInv'
  <2>. DEFINE q == [at |-> "dup", o |-> o]
  <2>1. Goes(h, q) /\ order' = order /\ earned' = earned /\ awarded' = awarded /\ account' = account /\ order[o].placed
    BY <1>1 DEF BeginEarn
  <2>2. q.at = "dup" /\ q.o = o
    OBVIOUS
  <2>. HIDE DEF q
  <2>3. Known(q, order) /\ q.at \notin CheckoutSteps /\ q.at # "pay"
    BY <2>1, <2>2 DEF Known, CheckoutSteps
  <2>. QED  BY <2>1, <2>3, PointsCalm
<1>2. ASSUME CheckDuplicate(h) PROVE PointsInv'
  <2>. DEFINE o == proc[h].o
              q == [at |-> "earn", o |-> o]
  <2>1. /\ Goes(h, q) \/ Goes(h, Idle)
        /\ order' = order /\ earned' = earned /\ awarded' = awarded /\ account' = account /\ proc[h].at = "dup"
    BY <1>2 DEF CheckDuplicate
  <2>2. o \in Orders /\ order[o].placed
    BY <2>1, EarningAt DEF Earning, PointsInv, Known
  <2>3. q.at = "earn" /\ q.o = o
    OBVIOUS
  <2>. HIDE DEF q
  <2>4. Known(q, order) /\ q.at \notin CheckoutSteps /\ q.at # "pay"
    BY <2>2, <2>3 DEF Known, CheckoutSteps
  <2>. HIDE DEF o
  <2>. QED  BY <2>1, <2>2, <2>4, IdleKnown, PointsCalm
<1>3. ASSUME PostEarned(h) PROVE PointsInv'
  <2>. DEFINE o == proc[h].o
              n == PointsEarned(o)
  <2>1. /\ order' = order /\ awarded' = awarded /\ Goes(h, Idle) /\ proc[h].at = "earn"
        /\ Post(order[o].c, n) /\ earned' = [earned EXCEPT ![o] = @ + 1]
    BY <1>3 DEF PostEarned
  <2>2. o \in Orders /\ order[o].placed /\ order[o].c \in Customers
    BY <2>1, EarningAt DEF Earning, PointsInv, Known, TypeInv, RedemptionTypeOK, Row
  <2>3. n \in Nat /\ earned[o] \in Nat /\ n = (order[o].total \div Unit) * EarnRate
    BY <2>2, PointsEarnedNat DEF PointsEarned, TypeInv, RedemptionTypeOK
  <2>. HIDE DEF n
  <2>4. \A c \in Customers : account'[c].balance = IF c = order[o].c THEN account[c].balance + n ELSE account[c].balance
    BY <2>1 DEF Post, TypeInv, RedemptionTypeOK
  <2>5. earned'[o] = earned[o] + 1 /\ \A x \in Orders \ {o} : earned'[x] = earned[x]
    BY <2>1, <2>2 DEF TypeInv, RedemptionTypeOK
  <2>6. PointsArePaid'
    <3>1. ASSUME NEW c \in Customers
          PROVE  account'[c].balance + TakenBy(Idle, c) + TookOf(order'[o], c) - GainFrom(order'[o], earned'[o], c)
                  <= account[c].balance + TakenBy(proc[h], c) + TookOf(order[o], c) - GainFrom(order[o], earned[o], c)
      <4>1. TakenBy(Idle, c) = 0 /\ TakenBy(proc[h], c) = 0
        BY <2>1, IdleKnown DEF TakenBy
      <4>2. TookOf(order'[o], c) = TookOf(order[o], c) /\ TookOf(order[o], c) \in Int
        BY <2>1, <2>2, Terms
      <4>3. GainFrom(order[o], earned[o], c) = IF c = order[o].c THEN earned[o] * n ELSE 0
        BY <2>2, <2>3 DEF GainFrom
      <4>4. GainFrom(order'[o], earned'[o], c) = IF c = order[o].c THEN (earned[o] + 1) * n ELSE 0
        BY <2>1, <2>2, <2>3, <2>5 DEF GainFrom
      <4>5. (earned[o] + 1) * n = earned[o] * n + n /\ earned[o] * n \in Nat
        BY <2>3, TimesNat
      <4>6. account[c].balance \in Int
        BY DEF TypeInv, RedemptionTypeOK
      <4>7. account'[c].balance = IF c = order[o].c THEN account[c].balance + n ELSE account[c].balance
        BY <2>4
      <4>8. CASE c = order[o].c
        BY <2>3, <4>1, <4>2, <4>3, <4>4, <4>5, <4>6, <4>7, <4>8
      <4>9. CASE c # order[o].c
        BY <2>3, <4>1, <4>2, <4>3, <4>4, <4>6, <4>7, <4>9
      <4>. QED  BY <4>8, <4>9
    <3>2. \A x \in Orders \ {o} : order'[x] = order[x] /\ earned'[x] = earned[x]
      BY <2>1, <2>5
    <3>3. PointsArePaid
      BY DEF PointsInv
    <3>. HIDE DEF o
    <3>. QED  BY <2>1, <2>2, <3>1, <3>2, <3>3, PaidSteps
  <2>7. proc'[h] = Idle /\ \A g \in Handlers \ {h} : proc'[g] = proc[g]
    BY <2>1, GoesIs
  <2>8. \A g \in Handlers : Known(proc'[g], order)
    BY <2>7, IdleKnown DEF PointsInv
  <2>9. \A g \in Handlers : Known(proc[g], order)'
    BY <2>1, <2>8 DEF Known, Priced, Worth
  <2>10. OwnOrders'
    BY <2>7, IdleKnown DEF OwnOrders, PointsInv
  <2>11. PointsWellSpent' /\ \A x \in Orders : (~order[x].placed => earned[x] = 0)'
    BY <2>1, <2>2, <2>5 DEF PointsInv, PointsWellSpent
  <2>. QED  BY <2>6, <2>9, <2>10, <2>11 DEF PointsInv
<1>. QED  BY <1>1, <1>2, <1>3 DEF Capture

(* What a merchant awards is in the balance and in the awards alike. *)
LEMMA AwardKeepsPoints ==
    ASSUME TypeInv, TypeInv', PointsInv, NEW c \in Customers, NEW points \in Awards, Award(c, points)
    PROVE  PointsInv'
<1>1. /\ order' = order /\ earned' = earned /\ proc' = proc /\ points \in Int
      /\ Post(c, points) /\ awarded' = [awarded EXCEPT ![c] = @ + points]
  BY RedemptionAssumption DEF Award
<1>2. \A d \in Customers : /\ account'[d].balance = IF d = c THEN account[d].balance + points ELSE account[d].balance
                           /\ awarded'[d] = IF d = c THEN awarded[d] + points ELSE awarded[d]
  BY <1>1 DEF Post, TypeInv, RedemptionTypeOK
<1>3. \A d : Spent(d)' = Spent(d) /\ Gained(d)' = Gained(d)
  BY <1>1 DEF Spent, Gained, GainOf, PointsEarned
<1>4. PointsArePaid'
  <2>1. ASSUME NEW d \in Customers PROVE account'[d].balance <= awarded'[d] + Gained(d) - Spent(d)
    <3>1. account[d].balance \in Int /\ awarded[d] \in Int
      BY DEF TypeInv, RedemptionTypeOK
    <3>2. Gained(d) \in Int /\ Spent(d) \in Int
      BY SpentIs DEF Spent
    <3>3. account[d].balance <= awarded[d] + Gained(d) - Spent(d)
      BY DEF PointsInv, PointsArePaid
    <3>. QED  BY <1>1, <1>2, <3>1, <3>2, <3>3
  <2>. QED  BY <1>3, <2>1 DEF PointsArePaid
<1>. QED  BY <1>1, <1>4 DEF PointsInv, Known, Priced, Worth, OwnOrders, PointsWellSpent

LEMMA PointsStep == TypeInv /\ TypeInv' /\ PointsInv /\ [Next]_vars => PointsInv'
<1>. SUFFICES ASSUME TypeInv, TypeInv', PointsInv, [Next]_vars PROVE PointsInv'
  OBVIOUS
<1>1. ASSUME UNCHANGED <<account, awarded, earned, order, proc>> PROVE PointsInv'
  BY <1>1 DEF PointsInv, Known, Priced, Worth, OwnOrders, PointsWellSpent, PointsArePaid, Spent, Gained, GainOf, PointsEarned
<1>2. CASE \/ \E limit \in Limits : CreateCoupon(limit)
           \/ \E active \in BOOLEAN : SetActive(active)
           \/ RemoveCoupon \/ WindowPasses \/ UNCHANGED vars
  BY <1>1, <1>2 DEF CreateCoupon, SetActive, RemoveCoupon, WindowPasses, vars
<1>. QED  BY <1>2, AwardKeepsPoints, CheckoutKeepsPoints, CaptureKeepsPoints DEF Next, Merchant

LEMMA PointsInit == Init => PointsInv
<1>. SUFFICES ASSUME Init PROVE PointsInv
  OBVIOUS
<1>1. (\A o \in Orders : ~order[o].placed /\ earned[o] = 0) /\ (\A h \in Handlers : proc[h] = Idle)
  BY DEF Init
<1>2. ASSUME NEW c \in Customers PROVE account[c].balance <= awarded[c] + Gained(c) - Spent(c)
  <2>. DEFINE f == [o \in Orders |-> TookOf(order[o], c)]
              g == [h \in Handlers |-> TakenBy(proc[h], c)]
              e == [o \in Orders |-> GainOf(o, c)]
  <2>1. (\A o \in Orders : f[o] = 0) /\ (\A h \in Handlers : g[h] = 0) /\ (\A o \in Orders : e[o] = 0)
    BY <1>1, IdleKnown DEF TookOf, TakenBy, GainOf
  <2>2. IsFiniteSet(Orders) /\ IsFiniteSet(Handlers)
    BY RedemptionAssumption
  <2>3. Spent(c) = SumFunctionOnSet(f, Orders) + SumFunctionOnSet(g, Handlers) /\ Gained(c) = SumFunctionOnSet(e, Orders)
    BY DEF Spent, Gained
  <2>. HIDE DEF f, g, e
  <2>4. SumFunctionOnSet(f, Orders) = 0 /\ SumFunctionOnSet(g, Handlers) = 0 /\ SumFunctionOnSet(e, Orders) = 0
    BY <2>1, <2>2, SumZero
  <2>5. account[c].balance = 0 /\ awarded[c] = 0
    BY DEF Init
  <2>. QED  BY <2>3, <2>4, <2>5
<1>3. \A h \in Handlers : Known(proc[h], order)
  BY <1>1, IdleKnown
<1>4. OwnOrders
  BY <1>1, IdleKnown DEF OwnOrders
<1>5. PointsWellSpent
  BY <1>1 DEF PointsWellSpent
<1>. QED  BY <1>1, <1>2, <1>3, <1>4, <1>5 DEF PointsInv, PointsArePaid

(* No order carries points its customer did not pay, and what an order took is
   worth its part of the discount, for any handlers, orders, prices and rates. *)
THEOREM PointsPaidFor == Spec => [](PointsArePaid /\ PointsWellSpent)
<1>1. PointsInv => PointsArePaid /\ PointsWellSpent
  BY DEF PointsInv
<1>. QED  BY <1>1, InitTyped, NextTyped, PointsInit, PointsStep, PTL DEF Spec
----------------------------------------------------------------------------
(* The discount asked of the payment is the one it gives, unless the prices moved
   between the cart and the order: then the payment clamps it. *)
PricesStand == \A s \in Subtotals : Repriced[s] = {s}

LEMMA ReachStep ==
    ASSUME PricesStand, TypeInv, PointsInv, PointsReachOrder, [Next]_vars
    PROVE  PointsReachOrder'
<1>1. CASE UNCHANGED order
  BY <1>1 DEF PointsReachOrder
<1>2. ASSUME NEW h \in Handlers, PlaceOrder(h) PROVE PointsReachOrder'
  <2>. DEFINE r == proc[h]
              o == r.o
  <2>1. r.at = "pay" /\ r.at \in CheckoutSteps
    BY <1>2 DEF PlaceOrder, CheckoutSteps
  <2>2. r \in Attempt /\ o \in Orders /\ r.discount \in Nat /\ r.subtotal \in Subtotals /\ r.subtotal \in Nat
    BY <2>1, AttemptOf DEF Attempt
  <2>3. r.value > 0 => r.discount <= r.subtotal
    BY <2>1 DEF PointsInv, Known, Priced
  <2>4. order' = [order EXCEPT ![o] = Placed(r, r.subtotal)]
    <3>1. PICK s \in Repriced[r.subtotal] : order' = [order EXCEPT ![o] = Placed(r, s)]
      BY <1>2 DEF PlaceOrder
    <3>2. Repriced[r.subtotal] = {r.subtotal}
      BY <2>2 DEF PricesStand
    <3>. QED  BY <3>1, <3>2
  <2>5. r.value > 0 => Placed(r, r.subtotal).discount = r.discount
    BY <2>2, <2>3 DEF Placed, Smaller
  <2>6. Placed(r, r.subtotal).value = r.value /\ Placed(r, r.subtotal).asked = r.discount
    BY DEF Placed
  <2>7. order'[o] = Placed(r, r.subtotal) /\ \A x \in Orders \ {o} : order'[x] = order[x]
    BY <2>2, <2>4 DEF TypeInv, RedemptionTypeOK
  <2>. HIDE DEF r, o
  <2>. QED  BY <2>5, <2>6, <2>7 DEF PointsReachOrder
<1>3. \A h \in Handlers : PlaceOrder(h) \/ ~PlaceOrder(h)
  OBVIOUS
<1>. QED
  BY <1>1, <1>2 DEF Next, Merchant, Checkout, Capture, vars, CreateCoupon, SetActive, RemoveCoupon, WindowPasses, Award,
     BeginCheckout, ValidateCode, ClaimSlot, CheckPoints, SpendPoints, CheckoutFails, BeginEarn, CheckDuplicate, PostEarned

(* Points are paid, buy their worth of discount and bring it to the order, when an
   order costs what its cart did. *)
THEOREM PointsKeepTheirValue == ASSUME PricesStand PROVE Spec => []PointsCarryTheirValue
<1>1. Init => PointsReachOrder
  BY DEF Init, PointsReachOrder
<1>2. TypeInv /\ PointsInv /\ PointsReachOrder /\ [Next]_vars => PointsReachOrder'
  BY ReachStep
<1>3. PointsInv /\ PointsReachOrder => PointsCarryTheirValue
  BY DEF PointsInv, PointsCarryTheirValue
<1>. QED  BY <1>1, <1>2, <1>3, InitTyped, NextTyped, PointsInit, PointsStep, PTL DEF Spec
============================================================================
