--------------------------- MODULE OrderLifecycle ---------------------------
(***************************************************************************)
(* An order from checkout to its end, and the stock it holds, sells and    *)
(* gives back.  The handlers of PaymentService, OrderService,              *)
(* ReturnService.cancelOrderByCustomer, ShippingService and the worker's   *)
(* expiry job run concurrently over one database; every database statement *)
(* that commits on its own is an action, so all their interleavings are    *)
(* behaviours.  What a handler remembers between statements is in proc.    *)
(***************************************************************************)
EXTENDS StockLedger

CONSTANTS
    Handlers,     \* request handlers of the API servers
    Workers,      \* worker processes (apps/worker)
    Ops,          \* the operations an instance lets happen besides checkout
    NoOrder,      \* the order of an idle process
    MaxHooks,     \* bound: payment and carrier webhook calls per order
    MaxRequests   \* bound: merchant, buyer and stock requests in all

AllOps == {"AUTHORIZED", "CAPTURED", "FAILED", "REFUNDED", "update", "cancel",
           "expire", "ship", "stock", "crash", "fault"}

ASSUME LifecycleAssumption ==
    /\ Handlers \cap Workers = {}
    /\ IsFiniteSet(Handlers) /\ IsFiniteSet(Workers)
    /\ NoOrder \notin Orders
    /\ Ops \subseteq AllOps
    /\ MaxHooks \in Nat /\ MaxRequests \in Nat

VARIABLES
    order,        \* Order.status, "NONE" before checkout commits
    payment,      \* Payment.status
    ref,          \* Payment.providerRef is stored
    shipped,      \* the order has a Shipment row
    aged,         \* the holds of the order are older than the expiry TTL
    sent,         \* the events the payment provider has sent for the order
    stale,        \* per worker: the orders its expiry job has listed and not visited
    proc,         \* per process: where its handler stands
    booked,       \* per order and variant: its SALE and CANCEL movements
    captures,     \* times a webhook moved the order to PAID
    hooks,        \* webhook calls received, up to MaxHooks
    requests      \* requests received, up to MaxRequests

flowVars == <<order, payment, ref, shipped, aged, sent, stale, proc, booked,
              captures, hooks, requests>>
vars == <<stockVars, flowVars>>

Procs == Handlers \cup Workers
OrderStatus == {"PENDING", "PAID", "FULFILLED", "CANCELLED", "REFUNDED"}
PaymentStatus == {"PENDING", "AUTHORIZED", "CAPTURED", "FAILED", "REFUNDED"}
Events == {"AUTHORIZED", "CAPTURED", "FAILED", "REFUNDED"}

Steps == {"idle", "place", "ref", "flip", "close", "closing", "sale", "selling",
          "set", "restore", "restoring", "refund", "refundPayment", "refundOrder", "ship"}

(* A handler at a step: the operation and its order, the status it read, the
   status it will write, the rows or lines left, the stock policy it read. *)
Handler(at, op, o, was, to) ==
    [at |-> at, op |-> op, o |-> o, was |-> was, to |-> to,
     todo |-> {}, neg |-> FALSE, track |-> FALSE]

Idle == Handler("idle", "none", NoOrder, "NONE", "NONE")

ProcType == [at : Steps, op : {"none", "checkout", "webhook"} \cup AllOps,
             o : Orders \cup {NoOrder},
             to : OrderStatus \cup {"NONE"}, was : OrderStatus \cup {"NONE"},
             todo : SUBSET Variants, neg : BOOLEAN, track : BOOLEAN]

LifecycleTypeOK ==
    /\ StockTypeOK
    /\ order \in [Orders -> OrderStatus \cup {"NONE"}]
    /\ payment \in [Orders -> PaymentStatus \cup {"NONE"}]
    /\ ref \in [Orders -> BOOLEAN]
    /\ shipped \in [Orders -> BOOLEAN]
    /\ aged \in [Orders -> BOOLEAN]
    /\ sent \in [Orders -> SUBSET Events]
    /\ stale \in [Workers -> SUBSET Orders]
    /\ proc \in [Procs -> ProcType]
    /\ booked \in [Orders -> [Variants -> [sales : Nat, cancels : Nat]]]
    /\ captures \in [Orders -> Nat]
    /\ hooks \in [Orders -> Nat]
    /\ requests \in Nat

Init ==
    /\ StockInit
    /\ order = [o \in Orders |-> "NONE"]
    /\ payment = [o \in Orders |-> "NONE"]
    /\ ref = [o \in Orders |-> FALSE]
    /\ shipped = [o \in Orders |-> FALSE]
    /\ aged = [o \in Orders |-> FALSE]
    /\ sent = [o \in Orders |-> {}]
    /\ stale = [w \in Workers |-> {}]
    /\ proc = [p \in Procs |-> Idle]
    /\ booked = [o \in Orders |-> [v \in Variants |-> [sales |-> 0, cancels |-> 0]]]
    /\ captures = [o \in Orders |-> 0]
    /\ hooks = [o \in Orders |-> 0]
    /\ requests = 0

Goes(p, r) == proc' = [proc EXCEPT ![p] = r]
Finishes(p) == Goes(p, Idle)

(* One more merchant, buyer or stock request: a bound of the instances. *)
Request == requests < MaxRequests /\ requests' = requests + 1
----------------------------------------------------------------------------
(* PaymentService.checkout. *)

(* Until the order is committed the handler has only read the stock policy. *)
BeginCheckout(h, o) ==
    /\ proc[h] = Idle
    /\ order[o] = "NONE" /\ \A p \in Procs : proc[p].o # o
    /\ Goes(h, [Handler("place", "checkout", o, "NONE", "NONE") EXCEPT
                  !.neg = policy.backorder, !.track = policy.track])
    /\ UNCHANGED <<stockVars, order, payment, ref, shipped, aged, sent, stale, booked,
                   captures, hooks, requests>>

(* The transaction: the order, its pending payment and its holds, or nothing. *)
PlaceOrder(h) ==
    LET r == proc[h] IN
    /\ r.at = "place"
    /\ order' = [order EXCEPT ![r.o] = "PENDING"]
    /\ payment' = [payment EXCEPT ![r.o] = "PENDING"]
    /\ IF r.track THEN Reserve(r.o, r.neg) ELSE UNCHANGED stockVars
    /\ Goes(h, [r EXCEPT !.at = "ref"])
    /\ UNCHANGED <<ref, shipped, aged, sent, stale, booked, captures, hooks, requests>>

(* A line that cannot be held: the whole transaction rolls back. *)
RejectOrder(h) ==
    /\ proc[h].at = "place" /\ proc[h].track
    /\ ~CanHold(proc[h].o, proc[h].neg)
    /\ Finishes(h)
    /\ UNCHANGED <<stockVars, order, payment, ref, shipped, aged, sent, stale, booked,
                   captures, hooks, requests>>

(* adapter.createOrder has answered: keep the provider's reference. *)
StoreRef(h) ==
    /\ proc[h].at = "ref"
    /\ ref' = [ref EXCEPT ![proc[h].o] = TRUE]
    /\ Finishes(h)
    /\ UNCHANGED <<stockVars, order, payment, shipped, aged, sent, stale, booked, captures,
                   hooks, requests>>
----------------------------------------------------------------------------
(* Payment webhooks. *)

(* The provider (external): the buyer may try and fail, then pay; a refund is
   made after the capture.  An event once sent may be delivered any number of
   times, late, and in any order. *)
ProviderSends(o, e) ==
    /\ e \in Ops /\ e \notin sent[o] /\ ref[o]
    /\ e \in {"AUTHORIZED", "FAILED"} => "CAPTURED" \notin sent[o]
    /\ e = "REFUNDED" => "CAPTURED" \in sent[o]
    /\ sent' = [sent EXCEPT ![o] = @ \cup {e}]
    /\ UNCHANGED <<stockVars, order, payment, ref, shipped, aged, stale, proc, booked,
                   captures, hooks, requests>>

(* applyPaymentStatus: what a payment event makes of the order. *)
OrderStatusAsSent(e) == e

OrderStatusOf(e) ==
    CASE e = "CAPTURED" -> "PAID" [] e = "REFUNDED" -> "REFUNDED"
      [] e = "FAILED" -> "CANCELLED" [] OTHER -> "NONE"

(* handleWebhook up to the first write of applyPaymentStatus, which takes the
   event's status unconditionally. *)
HandleWebhook(h, o, e) ==
    /\ proc[h] = Idle /\ e \in sent[o]
    /\ hooks[o] < MaxHooks /\ hooks' = [hooks EXCEPT ![o] = @ + 1]
    /\ payment' = [payment EXCEPT ![o] = e]
    /\ Goes(h, IF OrderStatusOf(e) = "NONE" THEN Idle
               ELSE Handler("flip", "webhook", o, "NONE", OrderStatusOf(e)))
    /\ UNCHANGED <<stockVars, order, ref, shipped, aged, sent, stale, booked, captures, requests>>

(* The where clause of the run-once updateMany. *)
FlipAlways(status, to) == TRUE

FlipAllowed(status, to) ==
    CASE to = "PAID" -> status \notin {"PAID", "FULFILLED"}
      [] to = "CANCELLED" -> status \notin {"PAID", "FULFILLED", "CANCELLED"}
      [] OTHER -> status # "REFUNDED"

(* The winner goes on to the side effects; a REFUNDED event has none. *)
FlipOrder(h) ==
    LET r == proc[h] IN
    /\ r.at = "flip" /\ FlipAllowed(order[r.o], r.to)
    /\ order' = [order EXCEPT ![r.o] = r.to]
    /\ captures' = IF r.to = "PAID" THEN [captures EXCEPT ![r.o] = @ + 1] ELSE captures
    /\ Goes(h, IF r.to = "REFUNDED" THEN Idle ELSE [r EXCEPT !.at = "close"])
    /\ UNCHANGED <<stockVars, payment, ref, shipped, aged, sent, stale, booked, hooks, requests>>

(* count !== 1: somebody else made the transition, and its side effects. *)
CountIgnored(r) == [r EXCEPT !.at = "close"]
CountChecked(r) == Idle

FlipRefused(h) ==
    /\ proc[h].at = "flip" /\ ~FlipAllowed(order[proc[h].o], proc[h].to)
    /\ Goes(h, CountChecked(proc[h]))
    /\ UNCHANGED <<stockVars, order, payment, ref, shipped, aged, sent, stale, booked,
                   captures, hooks, requests>>
----------------------------------------------------------------------------
(* Stock side effects, shared by the handlers. *)

Capturing(r) == r.op = "webhook" /\ r.to = "PAID"

(* What follows closeReservations in the handler that called it. *)
AfterClosingNoSale(r) ==
    IF r.op = "expire" THEN [r EXCEPT !.at = "set", !.todo = {}] ELSE Idle

AfterClosing(r) ==
    CASE Capturing(r)      -> [r EXCEPT !.at = "sale", !.todo = {}]
      [] r.op = "expire"   -> [r EXCEPT !.at = "set", !.todo = {}]
      [] OTHER             -> Idle

(* closeReservations: list the active rows, then close them one by one. *)
ListHolds(p) ==
    LET r == proc[p]
        rows == ActiveLines(r.o)
    IN  /\ r.at = "close"
        /\ Goes(p, IF rows = {} THEN AfterClosing(r)
                   ELSE [r EXCEPT !.at = "closing", !.todo = rows])
        /\ UNCHANGED <<stockVars, order, payment, ref, shipped, aged, sent, stale, booked,
                       captures, hooks, requests>>

CloseHold(p, v) ==
    LET r == proc[p]
        rest == r.todo \ {v}
    IN  /\ r.at = "closing" /\ v \in r.todo
        /\ CloseRow(r.o, v, IF Capturing(r) THEN "CONSUMED" ELSE "RELEASED")
        /\ Goes(p, IF rest = {} THEN AfterClosing(r) ELSE [r EXCEPT !.todo = rest])
        /\ UNCHANGED <<order, payment, ref, shipped, aged, sent, stale, booked, captures,
                       hooks, requests>>

(* applyOrderSale: read the policy, then one movement per line. *)
ReadSalePolicy(p) ==
    LET r == proc[p] IN
    /\ r.at = "sale"
    /\ Goes(p, IF policy.track /\ Lines(r.o) # {}
               THEN [r EXCEPT !.at = "selling", !.todo = Lines(r.o), !.neg = policy.backorder]
               ELSE Idle)
    /\ UNCHANGED <<stockVars, order, payment, ref, shipped, aged, sent, stale, booked,
                   captures, hooks, requests>>

SellLineUnlogged(p, v) ==
    LET r == proc[p]
        rest == r.todo \ {v}
    IN  /\ r.at = "selling" /\ v \in r.todo
        /\ inventory' = [inventory EXCEPT ![v] = @ - Qty[r.o][v]]
        /\ booked' = [booked EXCEPT ![r.o][v].sales = @ + 1]
        /\ Goes(p, IF rest = {} THEN Idle ELSE [r EXCEPT !.todo = rest])
        /\ UNCHANGED <<reserved, hold, ledger, policy, order, payment, ref, shipped, aged,
                       sent, stale, captures, hooks, requests>>

SellLine(p, v) ==
    LET r == proc[p]
        rest == r.todo \ {v}
    IN  /\ r.at = "selling" /\ v \in r.todo
        /\ Move(v, -Qty[r.o][v], r.neg)
        /\ booked' = [booked EXCEPT ![r.o][v].sales = @ + 1]
        /\ Goes(p, IF rest = {} THEN Idle ELSE [r EXCEPT !.todo = rest])
        /\ UNCHANGED <<order, payment, ref, shipped, aged, sent, stale, captures, hooks, requests>>

(* restoreOrder: put every line back. *)
ReadRestorePolicy(p) ==
    LET r == proc[p] IN
    /\ r.at = "restore"
    /\ Goes(p, IF policy.track /\ Lines(r.o) # {}
               THEN [r EXCEPT !.at = "restoring", !.todo = Lines(r.o)]
               ELSE Idle)
    /\ UNCHANGED <<stockVars, order, payment, ref, shipped, aged, sent, stale, booked,
                   captures, hooks, requests>>

PutBack(p, v) ==
    LET r == proc[p]
        rest == r.todo \ {v}
    IN  /\ r.at = "restoring" /\ v \in r.todo
        /\ Move(v, Qty[r.o][v], TRUE)
        /\ booked' = [booked EXCEPT ![r.o][v].cancels = @ + 1]
        /\ Goes(p, IF rest = {} THEN Idle ELSE [r EXCEPT !.todo = rest])
        /\ UNCHANGED <<order, payment, ref, shipped, aged, sent, stale, captures, hooks, requests>>
----------------------------------------------------------------------------
(* Handlers that decide on a status they read and then write the order
   unconditionally: merchant, buyer, carrier and the expiry job. *)

(* What follows the write.  `was` is the status the handler read: a paid order
   had its stock sold, a pending one only held. *)
Reversing(r) ==
    \/ r.op = "cancel"
    \/ r.op = "update" /\ r.to \in {"CANCELLED", "REFUNDED"} /\ r.was # r.to

AfterWritingKeepsHold(r) ==
    IF Reversing(r) /\ r.was \in {"PAID", "FULFILLED"} THEN [r EXCEPT !.at = "restore"] ELSE Idle

AfterWriting(r) ==
    CASE Reversing(r) /\ r.was \in {"PAID", "FULFILLED"} -> [r EXCEPT !.at = "restore"]
      [] Reversing(r) /\ r.was = "PENDING"               -> [r EXCEPT !.at = "close"]
      [] OTHER                                           -> Idle

WriteStatus(p) ==
    LET r == proc[p] IN
    /\ r.at = "set"
    /\ order' = [order EXCEPT ![r.o] = r.to]
    /\ Goes(p, AfterWriting(r))
    /\ UNCHANGED <<stockVars, payment, ref, shipped, aged, sent, stale, booked, captures,
                   hooks, requests>>

(* OrderService.updateStatus: the merchant's state machine, checked on a read. *)
OrderTransitions ==
    [PENDING   |-> {"PAID", "CANCELLED"},
     PAID      |-> {"FULFILLED", "CANCELLED", "REFUNDED"},
     FULFILLED |-> {"REFUNDED", "CANCELLED"},
     CANCELLED |-> {},
     REFUNDED  |-> {}]

BeginUpdate(h, o, s) ==
    /\ "update" \in Ops /\ Request
    /\ proc[h] = Idle /\ order[o] # "NONE"
    /\ s = order[o] \/ s \in OrderTransitions[order[o]]
    /\ Goes(h, Handler("set", "update", o, order[o], s))
    /\ UNCHANGED <<stockVars, order, payment, ref, shipped, aged, sent, stale, booked,
                   captures, hooks>>

(* ReturnService.cancelOrderByCustomer, up to the refund of a paid order.  A store's
   policy may allow it after a shipment was booked. *)
BeginCancel(h, o) ==
    /\ "cancel" \in Ops /\ Request
    /\ proc[h] = Idle /\ order[o] \in {"PENDING", "PAID"}
    /\ Goes(h, Handler(IF order[o] = "PAID" /\ payment[o] = "CAPTURED" THEN "refund" ELSE "set",
                       "cancel", o, order[o], "CANCELLED"))
    /\ UNCHANGED <<stockVars, order, payment, ref, shipped, aged, sent, stale, booked,
                   captures, hooks>>

(* PaymentService.refund of the whole order: read again, call the provider,
   record the payment, then the order.  Refused: the cancellation fails. *)
CallRefund(h) ==
    LET r == proc[h] IN
    /\ r.at = "refund"
    /\ Goes(h, IF payment[r.o] = "CAPTURED" THEN [r EXCEPT !.at = "refundPayment"] ELSE Idle)
    /\ UNCHANGED <<stockVars, order, payment, ref, shipped, aged, sent, stale, booked,
                   captures, hooks, requests>>

RecordRefund(h) ==
    LET r == proc[h] IN
    /\ \/ /\ r.at = "refundPayment"
          /\ payment' = [payment EXCEPT ![r.o] = "REFUNDED"]
          /\ Goes(h, [r EXCEPT !.at = "refundOrder"])
          /\ UNCHANGED order
       \/ /\ r.at = "refundOrder"
          /\ order' = [order EXCEPT ![r.o] = "REFUNDED"]
          /\ Goes(h, [r EXCEPT !.at = "set"])
          /\ UNCHANGED payment
    /\ UNCHANGED <<stockVars, ref, shipped, aged, sent, stale, booked, captures, hooks, requests>>

(* ShippingService: a shipment may be booked for any order that has none, and
   both booking and delivery mark the order fulfilled. *)
BeginShipment(h, o) ==
    /\ "ship" \in Ops /\ Request
    /\ proc[h] = Idle /\ order[o] # "NONE" /\ ~shipped[o]
    /\ Goes(h, Handler("ship", "ship", o, "NONE", "FULFILLED"))
    /\ UNCHANGED <<stockVars, order, payment, ref, shipped, aged, sent, stale, booked,
                   captures, hooks>>

(* The carrier has answered: Shipment.orderId is unique, a second row fails. *)
CreateShipment(h) ==
    LET r == proc[h] IN
    /\ r.at = "ship"
    /\ shipped' = [shipped EXCEPT ![r.o] = TRUE]
    /\ Goes(h, IF shipped[r.o] THEN Idle ELSE [r EXCEPT !.at = "set"])
    /\ UNCHANGED <<stockVars, order, payment, ref, aged, sent, stale, booked, captures, hooks, requests>>

Delivered(h, o) ==
    /\ shipped[o] /\ proc[h] = Idle
    /\ hooks[o] < MaxHooks /\ hooks' = [hooks EXCEPT ![o] = @ + 1]
    /\ Goes(h, Handler("set", "ship", o, "NONE", "FULFILLED"))
    /\ UNCHANGED <<stockVars, order, payment, ref, shipped, aged, sent, stale, booked,
                   captures, requests>>
----------------------------------------------------------------------------
(* The worker's expiry job, StockService.releaseExpiredReservations. *)

HoldsAge(o) ==
    /\ "expire" \in Ops /\ order[o] # "NONE" /\ ~aged[o]
    /\ aged' = [aged EXCEPT ![o] = TRUE]
    /\ UNCHANGED <<stockVars, order, payment, ref, shipped, sent, stale, proc, booked,
                   captures, hooks, requests>>

ScanStale(w) ==
    /\ proc[w] = Idle /\ stale[w] = {}
    /\ stale' = [stale EXCEPT ![w] = {o \in Orders : aged[o] /\ ActiveLines(o) # {}}]
    /\ UNCHANGED <<stockVars, order, payment, ref, shipped, aged, sent, proc, booked,
                   captures, hooks, requests>>

(* Visit one listed order; it is skipped unless it is still pending. *)
VisitSettled(status) == status # "PENDING"
VisitPending(status) == status = "PENDING"

VisitStale(w, o) ==
    /\ proc[w] = Idle /\ o \in stale[w]
    /\ stale' = [stale EXCEPT ![w] = @ \ {o}]
    /\ Goes(w, IF VisitPending(order[o])
               THEN Handler("close", "expire", o, "PENDING", "CANCELLED")
               ELSE Idle)
    /\ UNCHANGED <<stockVars, order, payment, ref, shipped, aged, sent, booked, captures,
                   hooks, requests>>
----------------------------------------------------------------------------
(* Merchant stock corrections, and failures. *)

CorrectStock ==
    /\ "stock" \in Ops /\ Request /\ Corrections
    /\ UNCHANGED <<order, payment, ref, shipped, aged, sent, stale, proc, booked, captures, hooks>>

(* The list of a worker that stops half way is lost with it. *)
DropList(p) == stale' = [w \in Workers |-> IF w = p THEN {} ELSE stale[w]]

(* A process dies between two statements; its handler is never resumed. *)
Crash(p) ==
    /\ "crash" \in Ops /\ proc[p] # Idle
    /\ Finishes(p) /\ DropList(p)
    /\ UNCHANGED <<stockVars, order, payment, ref, shipped, aged, sent, booked, captures,
                   hooks, requests>>

(* A stock call of a handler fails; .catch(() => undefined) hides it and the
   handler goes on with what follows the call.  The expiry job has no catch: its
   tick ends. *)
StockCallFails(p) ==
    LET r == proc[p] IN
    /\ "fault" \in Ops
    /\ r.at \in {"close", "closing", "sale", "selling", "restore", "restoring"}
    /\ Goes(p, IF Capturing(r) /\ r.at \in {"close", "closing"} THEN AfterClosing(r) ELSE Idle)
    /\ DropList(p)
    /\ UNCHANGED <<stockVars, order, payment, ref, shipped, aged, sent, booked, captures,
                   hooks, requests>>
----------------------------------------------------------------------------
(* The statements a process still has to make once its request has begun. *)
Proceeds(p) ==
    \/ PlaceOrder(p) \/ RejectOrder(p) \/ StoreRef(p)
    \/ FlipOrder(p) \/ FlipRefused(p)
    \/ ListHolds(p) \/ \E v \in Variants : CloseHold(p, v)
    \/ ReadSalePolicy(p) \/ \E v \in Variants : SellLine(p, v)
    \/ ReadRestorePolicy(p) \/ \E v \in Variants : PutBack(p, v)
    \/ WriteStatus(p) \/ CallRefund(p) \/ RecordRefund(p) \/ CreateShipment(p)

Begins(h) ==
    \E o \in Orders :
       \/ BeginCheckout(h, o)
       \/ \E e \in Events : HandleWebhook(h, o, e)
       \/ \E s \in OrderStatus : BeginUpdate(h, o, s)
       \/ BeginCancel(h, o) \/ BeginShipment(h, o) \/ Delivered(h, o)

Expires(w) == ScanStale(w) \/ \E o \in Orders : VisitStale(w, o)

Next ==
    \/ \E h \in Handlers : Begins(h)
    \/ \E w \in Workers : Expires(w)
    \/ \E p \in Procs : Proceeds(p) \/ Crash(p) \/ StockCallFails(p)
    \/ \E o \in Orders : HoldsAge(o) \/ \E e \in Events : ProviderSends(o, e)
    \/ CorrectStock

Spec == Init /\ [][Next]_vars

(* A server finishes the requests it has begun, the worker keeps ticking, and
   a day passes; buyers, merchants and providers owe nothing. *)
Fairness ==
    /\ \A p \in Procs : WF_vars(Proceeds(p))
    /\ \A w \in Workers : WF_vars(Expires(w))
    /\ \A o \in Orders : WF_vars(HoldsAge(o))

FairSpec == Spec /\ Fairness
----------------------------------------------------------------------------
(* No handler stands between two statements about o. *)
Quiet(o) == \A p \in Procs : proc[p].o # o

(* An order's stock is sold at most once for each time a webhook moved it to
   PAID, whatever duplicates, retries, crashes and swallowed failures happen
   (applyPaymentStatus: "only the webhook that actually transitions the order
   runs the side-effects"). *)
SoldAtMostOncePerCapture ==
    \A o \in Orders, v \in Variants : booked[o][v].sales <= captures[o]

(* Once the handlers have finished, every capture has sold every line exactly
   once, also when the expiry job, a late failure or the buyer interfered. *)
EveryCaptureSells ==
    \A o \in Orders : Quiet(o) =>
       \A v \in Lines(o) : booked[o][v].sales = captures[o]

(* The holds of an order end with its pending status: once it is paid, cancelled
   or refunded and no handler is still at work on it, none of its reservations
   is active (releaseExpiredReservations skips an order that is not PENDING
   because "captured/cancelled paths already handled it"). *)
NoHoldLeak ==
    \A o \in Orders :
       (order[o] \notin {"NONE", "PENDING"} /\ Quiet(o)) => ActiveLines(o) = {}

(* A redelivered CAPTURED cannot consume an order's stock twice ("Duplicate/
   concurrent CAPTURED webhooks can't double-consume stock or points"). *)
NeverDoubleConsumed ==
    \A o \in Orders, v \in Variants : booked[o][v].sales - booked[o][v].cancels <= 1

(* Abandoned checkouts do not "tie up stock forever": every hold is freed or
   consumed in the end, the worker and the servers being alive. *)
HoldsAreFreed ==
    \A o \in Orders : (ActiveLines(o) # {}) ~> (ActiveLines(o) = {})
============================================================================
