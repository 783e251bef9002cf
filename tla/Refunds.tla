------------------------------ MODULE Refunds ------------------------------
(***************************************************************************)
(* The money and the goods of a paid order on their way back: refunds      *)
(* (PaymentService.refund), returns (ReturnService), credit notes          *)
(* (InvoiceService.generateCreditNote) and the units put back into stock.  *)
(* Handlers run concurrently; every database statement and every call of   *)
(* the payment provider is an action.  An order has one line.              *)
(***************************************************************************)
EXTENDS Integers, FiniteSets, Functions

CONSTANTS
    Handlers,     \* request handlers of the API servers
    Orders,       \* paid orders
    Returns,      \* return rows that may be created
    Quantity,     \* units of an order's line
    Paid,         \* charged for the line, discount and tax included
    Shipping,     \* charged for shipping
    Fee,          \* restockingFeePercent
    Amounts,      \* amountMinor a merchant may pass to a return's refund
    Ops,          \* what an instance lets happen besides the handlers' work
    MaxSent,      \* bound: no refund begins once this much was sent back
    MaxRestocked  \* bound: no cancellation begins once so many units are back

AllOps == {"decline", "fault", "crash", "elsewhere"}

ASSUME RefundAssumption ==
    /\ IsFiniteSet(Handlers) /\ IsFiniteSet(Returns)
    /\ Quantity \in Nat \ {0} /\ Paid \in Nat /\ Shipping \in Nat
    /\ Fee \in 0..100
    /\ Amounts \subseteq Nat
    /\ Ops \subseteq AllOps
    /\ MaxSent \in Nat /\ MaxRestocked \in Nat

VARIABLES
    order,        \* per order: its status
    payment,      \* per order: the status and refundedMinor of its Payment row
    return,       \* per return: its row
    invoiced,     \* per order: whether its invoice was issued at capture
    credited,     \* per order: what its credit notes amount to
    noted,        \* the returns that have a credit note
    sentBack,     \* per order: what the provider was asked to pay back
    restocked,    \* per order: units put back into stock
    proc,         \* per handler: where it stands
    reopened      \* history, per order: the closed statuses a shipment wrote over,
                  \* since its status was last written elsewhere

money == <<order, payment, sentBack>>
goods == <<return, restocked>>
notes == <<invoiced, credited, noted, reopened>>
vars == <<money, goods, notes, proc>>

Total == Paid + Shipping
OrderStatus == {"PAID", "FULFILLED", "CANCELLED", "REFUNDED"}
PaymentStatus == {"AUTHORIZED", "CAPTURED", "FAILED", "PARTIALLY_REFUNDED", "REFUNDED"}
Closed == {"CANCELLED", "REFUNDED"}
ReturnStatus == {"REQUESTED", "APPROVED", "REJECTED", "RECEIVED", "REFUNDED", "CANCELLED"}

Transitions ==
    [s \in ReturnStatus \cup {"NONE"} |->
       CASE s = "REQUESTED" -> {"APPROVED", "REJECTED", "CANCELLED"}
         [] s = "APPROVED" -> {"RECEIVED", "REFUNDED", "CANCELLED"}
         [] s = "RECEIVED" -> {"REFUNDED", "CANCELLED"}
         [] OTHER -> {}]

ReturnRow == [status : ReturnStatus \cup {"NONE"}, o : Orders, quantity : 0..Quantity,
              damaged : BOOLEAN, refund : Nat]

(* A handler at work: creating a return, moving it on, refunding it, or
   cancelling an order for its buyer. *)
Idle == [at |-> "idle"]
Creating == [at : {"create"}, r : Returns, row : ReturnRow]
Moving == [at : {"move", "restock"}, r : Returns, o : Orders, to : ReturnStatus]
Checking == [at : {"check"}, o : Orders, for : SUBSET Returns, amount : SUBSET Nat, read : {0}]
Paying == [at : {"ask", "record", "flip", "close", "note"}, o : Orders, for : SUBSET Returns,
           amount : SUBSET (1..Total), read : 0..Total]
Cancelling == [at : {"cancel", "restore"}, o : Orders]
Work == {Idle} \cup Creating \cup Moving \cup Checking \cup Paying \cup Cancelling

RefundTypeOK ==
    /\ order \in [Orders -> OrderStatus]
    /\ payment \in [Orders -> [status : PaymentStatus, refunded : Nat]]
    /\ return \in [Returns -> ReturnRow]
    /\ invoiced \in [Orders -> BOOLEAN] /\ credited \in [Orders -> Nat] /\ noted \in SUBSET Returns
    /\ sentBack \in [Orders -> Nat] /\ restocked \in [Orders -> Nat]
    /\ proc \in [Handlers -> Work]
    /\ reopened \in [Orders -> SUBSET Closed]

Init ==
    /\ order = [o \in Orders |-> "PAID"]
    /\ payment = [o \in Orders |-> [status |-> "CAPTURED", refunded |-> 0]]
    /\ \E o \in Orders :
          return = [r \in Returns |-> [status |-> "NONE", o |-> o, quantity |-> 0,
                                       damaged |-> FALSE, refund |-> 0]]
    /\ invoiced \in [Orders -> BOOLEAN]
    /\ credited = [o \in Orders |-> 0] /\ noted = {}
    /\ sentBack = [o \in Orders |-> 0] /\ restocked = [o \in Orders |-> 0]
    /\ proc = [h \in Handlers |-> Idle]
    /\ reopened = [o \in Orders |-> {}]

Goes(h, p) == proc' = [proc EXCEPT ![h] = p]

(* Math.round of a quotient of natural numbers. *)
Rounded(a, b) == (2 * a + b) \div (2 * b)
----------------------------------------------------------------------------
(* ReturnService.request: the share of what was paid, and the shipping when
   everything is returned. *)
RefundFor(q) == Rounded(Paid * q, Quantity) + IF q = Quantity THEN Shipping ELSE 0

BeginRequest(h, r, o, q, damaged, status) ==
    /\ proc[h] = Idle
    /\ return[r].status = "NONE" /\ \A g \in Handlers : proc[g].at = "create" => proc[g].r # r
    /\ order[o] \in {"PAID", "FULFILLED"}
    /\ Goes(h, [at |-> "create", r |-> r,
                row |-> [status |-> status, o |-> o, quantity |-> q, damaged |-> damaged,
                         refund |-> RefundFor(q)]])
    /\ UNCHANGED <<money, goods, notes>>

CreateReturn(h) ==
    /\ proc[h].at = "create"
    /\ return' = [return EXCEPT ![proc[h].r] = proc[h].row]
    /\ Goes(h, Idle)
    /\ UNCHANGED <<money, restocked, notes>>

(* approve, reject, markReceived, cancel: the transition is checked on a read,
   the row is written by id. *)
MayBecome(r, to) == to \in Transitions[return[r].status]

BeginMove(h, r, to) ==
    /\ proc[h] = Idle /\ MayBecome(r, to) /\ to # "REFUNDED"
    /\ Goes(h, [at |-> "move", r |-> r, o |-> return[r].o, to |-> to])
    /\ UNCHANGED <<money, goods, notes>>

WriteMove(h) ==
    LET p == proc[h] IN
    /\ p.at = "move"
    /\ return' = [return EXCEPT ![p.r].status = p.to]
    /\ Goes(h, IF p.to = "RECEIVED" THEN [p EXCEPT !.at = "restock"] ELSE Idle)
    /\ UNCHANGED <<money, restocked, notes>>

(* StockService.restoreReturn skips damaged goods. *)
SoundUnits(row) == IF row.damaged THEN 0 ELSE row.quantity

RestockReturn(h) ==
    LET row == return[proc[h].r] IN
    /\ proc[h].at = "restock"
    /\ restocked' = [restocked EXCEPT ![row.o] = @ + SoundUnits(row)]
    /\ Goes(h, Idle)
    /\ UNCHANGED <<money, return, notes>>
----------------------------------------------------------------------------
(* ReturnService.refund and cancelOrderByCustomer, up to payments.refund. *)

(* The merchant's amount, or the return's less the restocking fee. *)
NetOf(r) ==
    LET net == Rounded(return[r].refund * (100 - Fee), 100)
    IN  IF net = 0 THEN 1 ELSE net

Pays(o, for, amount) == [at |-> "check", o |-> o, for |-> for, amount |-> amount, read |-> 0]

BeginRefund(h, r, amount) ==
    /\ proc[h] = Idle /\ MayBecome(r, "REFUNDED")
    /\ sentBack[return[r].o] < MaxSent
    /\ Goes(h, Pays(return[r].o, {r}, {amount}))
    /\ UNCHANGED <<money, goods, notes>>

Refundable(o) == payment[o].status \in {"CAPTURED", "PARTIALLY_REFUNDED"}

BeginCancel(h, o) ==
    /\ proc[h] = Idle /\ order[o] = "PAID"
    /\ sentBack[o] < MaxSent /\ restocked[o] < MaxRestocked
    /\ Goes(h, IF Refundable(o) THEN Pays(o, {}, {}) ELSE [at |-> "cancel", o |-> o])
    /\ UNCHANGED <<money, goods, notes>>
----------------------------------------------------------------------------
(* PaymentService.refund. *)

(* The amount asked for, or all that remains. *)
Uncapped(o) == Total
Remaining(o) == Total - payment[o].refunded

CheckRefund(h) ==
    LET p == proc[h]
        amounts == (IF p.amount = {} THEN {Remaining(p.o)} ELSE p.amount) \cap 1..Remaining(p.o)
    IN  /\ p.at = "check"
        /\ Goes(h, IF Refundable(p.o) /\ amounts # {}
                   THEN [at |-> "ask", o |-> p.o, for |-> p.for, amount |-> amounts,
                         read |-> payment[p.o].refunded]
                   ELSE Idle)
        /\ UNCHANGED <<money, goods, notes>>

AskProvider(h, a) ==
    LET p == proc[h] IN
    /\ p.at = "ask" /\ a \in p.amount
    /\ sentBack' = [sentBack EXCEPT ![p.o] = @ + a]
    /\ Goes(h, [p EXCEPT !.at = "record"])
    /\ UNCHANGED <<order, payment, goods, notes>>

(* Its error ends the request. *)
FailureIgnored(p) == [p EXCEPT !.at = "record"]
Failed(p) == Idle

ProviderFails(h) ==
    /\ "decline" \in Ops /\ proc[h].at = "ask"
    /\ Goes(h, Failed(proc[h]))
    /\ UNCHANGED <<money, goods, notes>>

(* A return is closed first and then credited, a cancellation only credited. *)
AfterRefund(p) == [p EXCEPT !.at = IF p.for = {} THEN "note" ELSE "close"]

IsFull(n) == n >= Total

RecordRefund(h, a) ==
    LET p == proc[h]
        refunded == p.read + a
    IN  /\ p.at = "record" /\ a \in p.amount
        /\ payment' = [payment EXCEPT ![p.o] =
                         [status |-> IF IsFull(refunded) THEN "REFUNDED" ELSE "PARTIALLY_REFUNDED",
                          refunded |-> refunded]]
        /\ Goes(h, IF IsFull(refunded) THEN [p EXCEPT !.at = "flip"] ELSE AfterRefund(p))
        /\ UNCHANGED <<order, sentBack, goods, notes>>

FlipOrder(h) ==
    /\ proc[h].at = "flip"
    /\ order' = [order EXCEPT ![proc[h].o] = "REFUNDED"]
    /\ Goes(h, AfterRefund(proc[h]))
    /\ UNCHANGED <<payment, sentBack, goods, notes>>
----------------------------------------------------------------------------
(* The rest of ReturnService.refund and of cancelOrderByCustomer. *)

CloseReturn(h, r, a) ==
    LET p == proc[h] IN
    /\ p.at = "close" /\ r \in p.for /\ a \in p.amount
    /\ return' = [return EXCEPT ![r].status = "REFUNDED", ![r].refund = a]
    /\ Goes(h, [p EXCEPT !.at = "note"])
    /\ UNCHANGED <<money, restocked, notes>>

AfterNote(p) == IF p.for = {} THEN [at |-> "cancel", o |-> p.o] ELSE Idle

(* generateCreditNote: at most one for a return, none without an invoice. *)
NoteOfOrder(p) == invoiced[p.o] /\ credited[p.o] = 0
NoteMissing(p) == invoiced[p.o] /\ p.for \cap noted = {}

WriteNote(h, a) ==
    LET p == proc[h] IN
    /\ p.at = "note" /\ a \in p.amount
    /\ IF NoteMissing(p)
       THEN credited' = [credited EXCEPT ![p.o] = @ + a] /\ noted' = noted \cup p.for
       ELSE UNCHANGED <<credited, noted>>
    /\ Goes(h, AfterNote(p))
    /\ UNCHANGED <<money, goods, invoiced, reopened>>

CancelOrder(h) ==
    LET p == proc[h] IN
    /\ p.at = "cancel"
    /\ order' = [order EXCEPT ![p.o] = "CANCELLED"]
    /\ Goes(h, [p EXCEPT !.at = "restore"])
    /\ UNCHANGED <<payment, sentBack, goods, notes>>

(* StockService.restoreOrder puts every unit of the order back. *)
RestoreOrder(h) ==
    /\ proc[h].at = "restore"
    /\ restocked' = [restocked EXCEPT ![proc[h].o] = @ + Quantity]
    /\ Goes(h, Idle)
    /\ UNCHANGED <<money, return, notes>>

(* A stock call or a credit note that fails is swallowed. *)
BestEffortFails(h) ==
    LET p == proc[h] IN
    /\ "fault" \in Ops /\ p.at \in {"restock", "restore", "note"}
    /\ Goes(h, IF p.at = "note" THEN AfterNote(p) ELSE Idle)
    /\ UNCHANGED <<money, goods, notes>>

Crash(h) ==
    /\ "crash" \in Ops /\ proc[h] # Idle
    /\ Goes(h, Idle)
    /\ UNCHANGED <<money, goods, notes>>
----------------------------------------------------------------------------
(* What other components write.  A new shipment and a DELIVERED webhook write
   FULFILLED by id, whatever the status is by then (a merchant's change from PAID
   to FULFILLED is one case of it); "elsewhere" stands for every other status write
   of the merchant and of the webhooks, on stale reads too. *)
Fulfil(o) ==
    /\ order' = [order EXCEPT ![o] = "FULFILLED"]
    /\ reopened' = [reopened EXCEPT ![o] = @ \cup ({order[o]} \cap Closed)]
    /\ UNCHANGED <<payment, sentBack, goods, invoiced, credited, noted, proc>>

OrderWritten(o, s) ==
    /\ "elsewhere" \in Ops
    /\ order' = [order EXCEPT ![o] = s]
    /\ reopened' = [reopened EXCEPT ![o] = {}]
    /\ UNCHANGED <<payment, sentBack, goods, invoiced, credited, noted, proc>>

PaymentWritten(o, s) ==
    /\ "elsewhere" \in Ops
    /\ payment' = [payment EXCEPT ![o].status = s]
    /\ UNCHANGED <<order, sentBack, goods, notes, proc>>

Elsewhere(o) ==
    \/ Fulfil(o)
    \/ \E s \in OrderStatus : OrderWritten(o, s)
    \/ \E s \in PaymentStatus \ {"PARTIALLY_REFUNDED"} : PaymentWritten(o, s)

ReturnSteps(h) ==
    \/ \E r \in Returns, o \in Orders, q \in 1..Quantity, damaged \in BOOLEAN :
          \E status \in {"REQUESTED", "APPROVED"} : BeginRequest(h, r, o, q, damaged, status)
    \/ \E r \in Returns, to \in ReturnStatus : BeginMove(h, r, to)
    \/ CreateReturn(h) \/ WriteMove(h) \/ RestockReturn(h)
    \/ \E r \in Returns : \E amount \in Amounts \cup {NetOf(r)} : BeginRefund(h, r, amount)

RefundSteps(h) ==
    \/ CheckRefund(h) \/ ProviderFails(h) \/ FlipOrder(h)
    \/ /\ proc[h].at \in {"ask", "record", "close", "note"}
       /\ \E a \in proc[h].amount :
             \/ AskProvider(h, a) \/ RecordRefund(h, a) \/ WriteNote(h, a)
             \/ \E r \in proc[h].for : CloseReturn(h, r, a)

CancelSteps(h) ==
    \/ \E o \in Orders : BeginCancel(h, o)
    \/ CancelOrder(h) \/ RestoreOrder(h)

Next ==
    \/ \E o \in Orders : Elsewhere(o)
    \/ \E h \in Handlers :
          ReturnSteps(h) \/ RefundSteps(h) \/ CancelSteps(h) \/ BestEffortFails(h) \/ Crash(h)

Spec == Init /\ [][Next]_vars
----------------------------------------------------------------------------
(* What is recorded as refunded never exceeds the order, however many handlers
   refund it at once. *)
RefundedWithinTotal == \A o \in Orders : payment[o].refunded <= Total

(* Nothing is recorded as refunded that the provider was not asked to pay. *)
RecordedWasSent == \A o \in Orders : payment[o].refunded <= sentBack[o]

(* The provider is never asked to pay back more than the order's value ("Cap
   total refunds at the order value across multiple partial refunds"). *)
SentWithinTotal == \A o \in Orders : sentBack[o] <= Total

AtRest(o) == \A h \in Handlers : proc[h].at \in {"idle", "create"} \/ proc[h].o # o

(* When an order's handlers are done, an order refunded in full was closed ("a
   full refund flips the order + payment to REFUNDED"), and only a shipment that
   was created or delivered after that has taken it out of that status. *)
WasClosed(status, over) == status \in Closed \/ (status = "FULFILLED" /\ over # {})
FullRefundCloses ==
    \A o \in Orders :
       AtRest(o) /\ payment[o].refunded = Total => WasClosed(order[o], reopened[o])

(* When an invoiced order's handlers are done, its credit notes amount to what
   was paid back. *)
EveryRefundCredited ==
    \A o \in Orders : AtRest(o) /\ invoiced[o] => credited[o] = sentBack[o]

(* No more is credited than was paid back, whatever fails. *)
CreditedWasSent == \A o \in Orders : credited[o] <= sentBack[o]

(* What the returns marked refunded say was paid, the provider was asked to pay. *)
RefundedBy(o) ==
    SumFunctionOnSet([r \in Returns |-> IF return[r].o = o /\ return[r].status = "REFUNDED"
                                        THEN return[r].refund ELSE 0], Returns)
RefundedReturnsSent == \A o \in Orders : RefundedBy(o) <= sentBack[o]

(* Neither the returns nor the credit notes claim money that was not paid back. *)
ClaimsWereSent == RefundedReturnsSent /\ CreditedWasSent

(* What a refund has to bring about is done when the order's handlers are. *)
RefundsAreFinished == FullRefundCloses /\ EveryRefundCredited

(* Units come back with a cancellation, whatever a shipment made of the order since,
   or with the sound goods of a return that was received ("Returned items are back
   in the warehouse", "damaged goods aren't resaleable"). *)
CameBack(o, row) == row.o = o /\ row.status \in {"RECEIVED", "REFUNDED", "CANCELLED"}
UnitsBack(o) ==
    SumFunctionOnSet([r \in Returns |-> IF CameBack(o, return[r]) THEN SoundUnits(return[r]) ELSE 0], Returns)
WasCancelled(status, over) == "CANCELLED" \in {status} \cup over
RestockedIsBack ==
    \A o \in Orders :
       restocked[o] <= UnitsBack(o) + IF WasCancelled(order[o], reopened[o]) THEN Quantity ELSE 0

(* Both halves of a request that ended: the money's books and the goods'. *)
MoneyAndGoodsSettle == RefundsAreFinished /\ RestockedIsBack
============================================================================
