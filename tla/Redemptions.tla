---------------------------- MODULE Redemptions ----------------------------
(***************************************************************************)
(* What a checkout gives away: a coupon's redemption slots                 *)
(* (DiscountService) and a customer's loyalty points (LoyaltyService),     *)
(* both claimed by CartService.checkoutCart before the order exists, and   *)
(* the points a paid order earns.  Checkouts and captures run              *)
(* concurrently; every database statement is an action.  Amounts are       *)
(* minor units; one coupon, one loyalty program.                           *)
(***************************************************************************)
EXTENDS Integers, FiniteSets, Functions

CONSTANTS
    Handlers,     \* request and webhook handlers of the API servers
    Customers, Orders,
    Subtotals,    \* what a cart may add up to at the prices it has stored
    Repriced,     \* Repriced[s]: what the same lines may cost at today's prices
    Offers,       \* bundle savings a cart may qualify for
    CouponValue,  \* Discount.value of the fixed-amount coupon
    Limits,       \* maxRedemptions a coupon may be created with: {n}, or {} for none
    PointValue,   \* redeemValueMinorPerPoint
    MinRedeem,    \* minRedeemPoints
    EarnRate,     \* pointsPerCurrencyUnit
    Unit,         \* minor units in a currency unit (100)
    Wanted,       \* redeemPoints a buyer may ask for
    Awards,       \* signed amounts a merchant may award
    Ops,          \* "decline": checkouts may fail after their claims
    MaxPoints,    \* bound: lifetime points up to which a merchant awards
    MaxClaims,    \* bound: claims of one coupon
    MaxCoupons,   \* bound: coupons created under the code
    MaxCaptures   \* bound: captures of one order

ASSUME RedemptionAssumption ==
    /\ IsFiniteSet(Handlers) /\ IsFiniteSet(Orders)
    /\ Subtotals \subseteq Nat /\ Offers \subseteq Nat
    /\ Repriced \in [Subtotals -> SUBSET Nat]
    /\ CouponValue \in Nat \ {0}
    /\ Limits \subseteq SUBSET Nat
    /\ PointValue \in Nat /\ MinRedeem \in Nat
    /\ EarnRate \in Nat /\ Unit \in Nat \ {0}
    /\ Wanted \subseteq Nat
    /\ Awards \subseteq Int
    /\ Ops \subseteq {"decline"}
    /\ MaxPoints \in Nat /\ MaxClaims \in Nat /\ MaxCoupons \in Nat /\ MaxCaptures \in Nat

VARIABLES
    coupon,       \* the Discount row of the code, gen counts the rows there have been
    account,      \* per customer: the LoyaltyAccount row
    awarded,      \* per customer: the points awarded by hand, summed up
    earned,       \* per order: its EARN rows
    order,        \* per order: its row
    captures,     \* per order: the captures that ran their side effects
    proc          \* per handler: where it stands

vars == <<coupon, account, awarded, earned, order, captures, proc>>

Smaller(a, b) == IF a <= b THEN a ELSE b
Signed(n) == n
AtLeastZero(n) == IF n < 0 THEN 0 ELSE n
Idle == [at |-> "idle"]

(* A checkout: its cart, what it asks for, and what it has claimed so far. *)
CheckoutSteps == {"validate", "claim", "points", "spend", "pay"}
Attempt == [at : CheckoutSteps,
            o : Orders, c : Customers, subtotal : Subtotals, want : Nat,
            code : Nat, discount : Nat, used : Nat, value : Nat]
Earning == [at : {"dup", "earn"}, o : Orders]

(* An order remembers the coupon it carries (0: none), the points it took and
   what they were worth, the discount asked of the payment and the one given. *)
Row == [placed : BOOLEAN, c : Customers, code : Nat, used : Nat, value : Nat,
        asked : Nat, discount : Nat, total : Nat]

RedemptionTypeOK ==
    /\ coupon \in [exists : BOOLEAN, active : BOOLEAN, inWindow : BOOLEAN,
                   limit : SUBSET Nat, count : Nat, gen : Nat]
    /\ account \in [Customers -> [balance : Int, lifetime : Nat]]
    /\ awarded \in [Customers -> Int]
    /\ earned \in [Orders -> Nat]
    /\ order \in [Orders -> Row]
    /\ captures \in [Orders -> Nat]
    /\ proc \in [Handlers -> {Idle} \cup Attempt \cup Earning]

Init ==
    /\ coupon = [exists |-> FALSE, active |-> FALSE, inWindow |-> TRUE, limit |-> {},
                 count |-> 0, gen |-> 0]
    /\ account = [c \in Customers |-> [balance |-> 0, lifetime |-> 0]]
    /\ awarded = [c \in Customers |-> 0]
    /\ earned = [o \in Orders |-> 0]
    /\ \E c \in Customers :
          order = [o \in Orders |-> [placed |-> FALSE, c |-> c, code |-> 0, used |-> 0, value |-> 0,
                                     asked |-> 0, discount |-> 0, total |-> 0]]
    /\ captures = [o \in Orders |-> 0]
    /\ proc = [h \in Handlers |-> Idle]

Goes(h, r) == proc' = [proc EXCEPT ![h] = r]
----------------------------------------------------------------------------
(* DiscountService: the merchant's operations, and the validity window. *)

CreateCoupon(limit) ==
    /\ ~coupon.exists /\ coupon.gen < MaxCoupons
    /\ coupon' = [coupon EXCEPT !.exists = TRUE, !.active = TRUE, !.limit = limit,
                                !.count = 0, !.gen = @ + 1]
    /\ UNCHANGED <<account, awarded, earned, order, captures, proc>>

SetActive(active) ==
    /\ coupon.exists
    /\ coupon' = [coupon EXCEPT !.active = active]
    /\ UNCHANGED <<account, awarded, earned, order, captures, proc>>

RemoveCoupon ==
    /\ coupon.exists
    /\ coupon' = [coupon EXCEPT !.exists = FALSE, !.active = FALSE]
    /\ UNCHANGED <<account, awarded, earned, order, captures, proc>>

WindowPasses ==
    /\ coupon.exists
    /\ coupon' = [coupon EXCEPT !.inWindow = ~@]
    /\ UNCHANGED <<account, awarded, earned, order, captures, proc>>

SlotAlways == TRUE
SlotLeft == \A n \in coupon.limit : coupon.count < n
----------------------------------------------------------------------------
(* CartService.checkoutCart. *)

(* What the checkout does next: the code, then the points, then the order. *)
AfterCoupon(want) == IF want > 0 THEN "points" ELSE "pay"

BeginCheckout(h, o, c, s, offer, want, coded) ==
    /\ proc[h] = Idle
    /\ ~order[o].placed /\ \A g \in Handlers : proc[g] # Idle => proc[g].o # o
    /\ Goes(h, [at |-> IF coded THEN "validate" ELSE AfterCoupon(want),
                o |-> o, c |-> c, subtotal |-> s, want |-> want, discount |-> offer,
                code |-> 0, used |-> 0, value |-> 0])
    /\ UNCHANGED <<coupon, account, awarded, earned, order, captures>>

(* validate(): a read; the checkout throws unless the code is usable. *)
ValidateCode(h) ==
    /\ proc[h].at = "validate"
    /\ Goes(h, IF coupon.active /\ coupon.inWindow /\ \A n \in coupon.limit : coupon.count < n
                  /\ proc[h].subtotal > 0
               THEN [proc[h] EXCEPT !.at = "claim"] ELSE Idle)
    /\ UNCHANGED <<coupon, account, awarded, earned, order, captures>>

(* redeem(): the conditional increment; the window is not asked again. *)
ClaimSlot(h) ==
    LET r == proc[h] IN
    /\ r.at = "claim"
    /\ IF coupon.active /\ SlotLeft
       THEN /\ coupon.count < MaxClaims
            /\ coupon' = [coupon EXCEPT !.count = @ + 1]
            /\ Goes(h, [r EXCEPT !.at = AfterCoupon(r.want), !.code = coupon.gen,
                                 !.discount = @ + Smaller(CouponValue, r.subtotal)])
       ELSE Goes(h, Idle) /\ UNCHANGED coupon
    /\ UNCHANGED <<account, awarded, earned, order, captures>>

(* loyalty.redeem up to post(): the cap on the value and the points it takes;
   ceil(remaining / PointValue) is the least n with n * PointValue >= remaining. *)
PointsFor(remaining) ==
    IF remaining % PointValue = 0 THEN remaining \div PointValue ELSE remaining \div PointValue + 1

Remaining(r) == AtLeastZero(r.subtotal - r.discount)

CheckPoints(h) ==
    LET r == proc[h]
        remaining == Remaining(r)
        capped == r.want * PointValue > remaining
    IN  /\ r.at = "points"
        /\ Goes(h, IF r.want >= MinRedeem /\ account[r.c].balance >= r.want
                   THEN [r EXCEPT !.at = "spend",
                           !.value = IF capped THEN remaining ELSE r.want * PointValue,
                           !.used = IF capped THEN PointsFor(remaining) ELSE r.want]
                   ELSE Idle)
        /\ UNCHANGED <<coupon, account, awarded, earned, order, captures>>

(* post(): the balance, the lifetime total and the ledger row in one transaction. *)
CoversAlways(c, points) == TRUE
Covers(c, points) == points < 0 => account[c].balance >= -points

Post(c, points) ==
    account' = [account EXCEPT ![c] = [balance |-> @.balance + points,
                                       lifetime |-> @.lifetime + AtLeastZero(points)]]

RefusalIgnored(r) == [r EXCEPT !.at = "pay", !.discount = @ + r.value]
Refused(r) == Idle

SpendPoints(h) ==
    LET r == proc[h] IN
    /\ r.at = "spend"
    /\ IF Covers(r.c, -r.used)
       THEN /\ Post(r.c, -r.used)
            /\ Goes(h, [r EXCEPT !.at = "pay", !.discount = @ + r.value])
       ELSE Goes(h, Refused(r)) /\ UNCHANGED account
    /\ UNCHANGED <<coupon, awarded, earned, order, captures>>

(* payments.checkout prices the lines again and clamps the discount. *)
Placed(r, subtotal) ==
    LET discount == Smaller(r.discount, subtotal)
    IN  [placed |-> TRUE, c |-> r.c, code |-> r.code, used |-> r.used, value |-> r.value,
         asked |-> r.discount, discount |-> discount, total |-> subtotal - discount]

PlaceOrder(h) ==
    LET r == proc[h] IN
    /\ r.at = "pay"
    /\ \E subtotal \in Repriced[r.subtotal] : order' = [order EXCEPT ![r.o] = Placed(r, subtotal)]
    /\ Goes(h, Idle)
    /\ UNCHANGED <<coupon, account, awarded, earned, captures>>

(* It throws (no stock, no provider): nothing of the checkout is undone. *)
CheckoutFails(h) ==
    /\ "decline" \in Ops /\ proc[h].at = "pay"
    /\ Goes(h, Idle)
    /\ UNCHANGED <<coupon, account, awarded, earned, order, captures>>
----------------------------------------------------------------------------
(* LoyaltyService.earnForOrder and award. *)

BeginEarn(h, o) ==
    /\ proc[h] = Idle /\ order[o].placed
    /\ captures[o] < MaxCaptures /\ captures' = [captures EXCEPT ![o] = @ + 1]
    /\ Goes(h, [at |-> "dup", o |-> o])
    /\ UNCHANGED <<coupon, account, awarded, earned, order>>

NeverEarned(o) == TRUE
NotEarned(o) == earned[o] = 0
PointsEarned(o) == (order[o].total \div Unit) * EarnRate

CheckDuplicate(h) ==
    LET o == proc[h].o IN
    /\ proc[h].at = "dup"
    /\ Goes(h, IF NotEarned(o) /\ PointsEarned(o) > 0 THEN [at |-> "earn", o |-> o] ELSE Idle)
    /\ UNCHANGED <<coupon, account, awarded, earned, order, captures>>

PostEarned(h) ==
    LET o == proc[h].o IN
    /\ proc[h].at = "earn"
    /\ Post(order[o].c, PointsEarned(o))
    /\ earned' = [earned EXCEPT ![o] = @ + 1]
    /\ Goes(h, Idle)
    /\ UNCHANGED <<coupon, awarded, order, captures>>

Award(c, points) ==
    /\ points # 0 /\ Covers(c, points)
    /\ account[c].lifetime + points <= MaxPoints
    /\ Post(c, points)
    /\ awarded' = [awarded EXCEPT ![c] = @ + points]
    /\ UNCHANGED <<coupon, earned, order, captures, proc>>
----------------------------------------------------------------------------
Merchant ==
    \/ \E limit \in Limits : CreateCoupon(limit)
    \/ \E active \in BOOLEAN : SetActive(active)
    \/ RemoveCoupon \/ WindowPasses
    \/ \E c \in Customers, points \in Awards : Award(c, points)

Checkout(h) ==
    \/ \E o \in Orders, c \in Customers, s \in Subtotals, offer \in Offers, want \in Wanted \cup {0} :
          \E coded \in BOOLEAN : BeginCheckout(h, o, c, s, offer, want, coded)
    \/ ValidateCode(h) \/ ClaimSlot(h) \/ CheckPoints(h) \/ SpendPoints(h)
    \/ PlaceOrder(h) \/ CheckoutFails(h)

Capture(h) == \/ \E o \in Orders : BeginEarn(h, o)
              \/ CheckDuplicate(h) \/ PostEarned(h)

Next == Merchant \/ \E h \in Handlers : Checkout(h) \/ Capture(h)

Spec == Init /\ [][Next]_vars
----------------------------------------------------------------------------
Coded(g) == {o \in Orders : order[o].placed /\ order[o].code = g}
Claiming(g) == {h \in Handlers : proc[h].at \in CheckoutSteps /\ proc[h].code = g}

(* A limited code is never on more orders than its limit, counting those about
   to be placed, although every checkout validates it before it claims a slot
   (redeem(): "can never push redeemedCount past maxRedemptions"). *)
OrdersWithinLimit ==
    \A n \in coupon.limit :
       coupon.gen > 0 => Cardinality(Coded(coupon.gen)) + Cardinality(Claiming(coupon.gen)) <= n

(* Points are never spent twice: no balance goes below zero, whatever checkouts
   and awards have read the same balance ("a concurrent spend cannot
   double-spend"). *)
NeverOverspent == \A c \in Customers : account[c].balance >= 0

(* What an order took in points is worth its part of the discount, and no point
   was taken beyond it ("only the points actually needed are deducted"). *)
PointsWellSpent ==
    \A o \in Orders :
       LET row == order[o]
       IN  row.placed /\ row.used > 0 /\ PointValue > 0 =>
              /\ row.value <= row.used * PointValue
              /\ (row.used - 1) * PointValue < row.value

(* The points' worth reaches the order: the payment does not clamp it away
   (redeem(): "a redemption never exceeds the order"). *)
PointsReachOrder ==
    \A o \in Orders : order[o].placed /\ order[o].value > 0 => order[o].discount = order[o].asked

(* No order carries points its customer did not pay: a balance is at most what
   was awarded, plus what the customer's orders earned, less what they took,
   counting the points of checkouts about to place theirs ("A signed ledger is
   the source of truth").  It is less when a checkout failed after taking them. *)
TookOf(row, c) == IF row.placed /\ row.c = c THEN row.used ELSE 0
TakenBy(r, c) == IF r.at = "pay" /\ r.c = c THEN r.used ELSE 0
Spent(c) ==
    SumFunctionOnSet([o \in Orders |-> TookOf(order[o], c)], Orders)
    + SumFunctionOnSet([h \in Handlers |-> TakenBy(proc[h], c)], Handlers)
GainOf(o, c) == IF order[o].placed /\ order[o].c = c THEN earned[o] * PointsEarned(o) ELSE 0
Gained(c) == SumFunctionOnSet([o \in Orders |-> GainOf(o, c)], Orders)
PointsArePaid ==
    \A c \in Customers : account[c].balance <= awarded[c] + Gained(c) - Spent(c)

(* Points are paid, buy their worth of discount, neither more nor less, and bring
   it to the order. *)
PointsCarryTheirValue == PointsArePaid /\ PointsWellSpent /\ PointsReachOrder
============================================================================
