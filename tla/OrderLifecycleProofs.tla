------------------------ MODULE OrderLifecycleProofs ------------------------
(***************************************************************************)
(* Theorems of OrderLifecycle, for any number of orders, variants, request *)
(* handlers and workers, and any set of enabled operations: types and what *)
(* the handlers know, the stock specification, how often stock is sold,    *)
(* that no hold outlives its order, and that the held units are counted.   *)
(***************************************************************************)
EXTENDS OrderLifecycle, StockLedgerProofs, FiniteSetTheorems

(* The stock part of a step: one transaction on the stock tables, or none. *)
LEMMA MoveTyped ==
    ASSUME StockTypeOK, NEW v \in Variants, NEW delta \in Int, NEW neg \in BOOLEAN,
           Move(v, delta, neg)
    PROVE  StockTypeOK' /\ inventory'[v] \in Int
<1>1. inventory[v] + delta \in Int
  BY DEF StockTypeOK
<1>2. Clamp(inventory[v] + delta, neg) \in Int
  BY <1>1 DEF Clamp
<1>. DEFINE balance == Clamp(inventory[v] + delta, neg)
<1>3. /\ inventory' = [inventory EXCEPT ![v] = balance]
      /\ ledger' = [ledger EXCEPT ![v] = [net |-> @.net + (balance - inventory[v]), last |-> balance]]
      /\ UNCHANGED <<reserved, hold, policy>>
  BY DEF Move, MoveTo, AppliedDelta
<1>4. inventory' \in [Variants -> Int]
  BY <1>2, <1>3 DEF StockTypeOK
<1>5. [net |-> ledger[v].net + (balance - inventory[v]), last |-> balance] \in [net : Int, last : Int]
  BY <1>2 DEF StockTypeOK
<1>6. ledger' \in [Variants -> [net : Int, last : Int]]
  BY <1>3, <1>5 DEF StockTypeOK
<1>. QED  BY <1>3, <1>4, <1>6 DEF StockTypeOK

LEMMA CorrectionsTyped == StockTypeOK /\ Corrections => StockTypeOK'
<1>1. StockTypeOK /\ [StockNext]_stockVars => StockTypeOK'
  BY StockNextTyped
<1>. QED  BY <1>1 DEF StockNext

LEMMA CloseRowTyped ==
    ASSUME StockTypeOK, NEW o \in Orders, NEW v \in Variants,
           NEW status \in {"CONSUMED", "RELEASED"}, CloseRow(o, v, status)
    PROVE  StockTypeOK'
<1>1. reserved[v] - Qty[o][v] \in Int
  BY StockAssumption DEF StockTypeOK
<1>2. [hold[o] EXCEPT ![v] = status] \in [Variants -> HoldStatus]
  BY DEF StockTypeOK, HoldStatus
<1>. QED  BY <1>1, <1>2 DEF CloseRow, StockTypeOK

LEMMA ReserveTyped ==
    ASSUME StockTypeOK, NEW o \in Orders, NEW backorder, Reserve(o, backorder)
    PROVE  StockTypeOK'
<1>1. \A v \in Variants : reserved[v] + Qty[o][v] \in Int
  BY StockAssumption DEF StockTypeOK
<1>2. [v \in Variants |-> IF v \in Lines(o) THEN "ACTIVE" ELSE "NONE"] \in [Variants -> HoldStatus]
  BY DEF HoldStatus
<1>. QED  BY <1>1, <1>2 DEF Reserve, StockTypeOK
----------------------------------------------------------------------------
(* A process that is not idle works on an order. *)
Busy(r) == r = Idle \/ (r.at # "idle" /\ r.o \in Orders)
TypeInv == LifecycleTypeOK /\ \A p \in Procs : Busy(proc[p])

LEMMA HandlerTyped ==
    ASSUME NEW at \in Steps, NEW op \in {"none", "checkout", "webhook"} \cup AllOps, NEW o \in Orders,
           NEW was \in OrderStatus \cup {"NONE"}, NEW to \in OrderStatus \cup {"NONE"}, at # "idle"
    PROVE  Handler(at, op, o, was, to) \in ProcType /\ Busy(Handler(at, op, o, was, to))
  BY DEF Handler, ProcType, Busy

LEMMA IdleTyped == Idle \in ProcType /\ Busy(Idle)
  BY DEF Idle, Handler, ProcType, Steps, Busy

(* A process moves on: only its own record changes. *)
LEMMA GoesTyped ==
    ASSUME TypeInv, NEW p \in Procs, NEW r \in ProcType, Busy(r), Goes(p, r)
    PROVE  proc' \in [Procs -> ProcType] /\ \A q \in Procs : Busy(proc'[q])
  BY DEF TypeInv, LifecycleTypeOK, Goes

(* A handler under way: what it holds and what it can move on to. *)
LEMMA Underway ==
    ASSUME TypeInv, NEW p \in Procs, proc[p].at # "idle"
    PROVE  /\ proc[p] \in ProcType /\ proc[p].o \in Orders /\ proc[p].todo \subseteq Variants
           /\ proc[p].neg \in BOOLEAN /\ proc[p].to \in OrderStatus \cup {"NONE"}
           /\ \A at \in Steps \ {"idle"} : LET r == [proc[p] EXCEPT !.at = at] IN
                 r \in ProcType /\ Busy(r)
           /\ \A todo \in SUBSET Variants : LET r == [proc[p] EXCEPT !.todo = todo] IN
                 r \in ProcType /\ Busy(r)
           /\ \A at \in Steps \ {"idle"}, todo \in SUBSET Variants :
                 LET r == [proc[p] EXCEPT !.at = at, !.todo = todo] IN r \in ProcType /\ Busy(r)
           /\ \A at \in Steps \ {"idle"}, todo \in SUBSET Variants, neg \in BOOLEAN :
                 LET r == [proc[p] EXCEPT !.at = at, !.todo = todo, !.neg = neg] IN
                 r \in ProcType /\ Busy(r)
<1>1. proc[p] \in ProcType /\ Busy(proc[p])
  BY DEF TypeInv, LifecycleTypeOK
<1>2. proc[p] # Idle
  BY DEF Idle, Handler
<1>3. proc[p].o \in Orders
  BY <1>1, <1>2 DEF Busy
<1>4. ASSUME NEW at \in Steps, at # "idle", NEW todo \in SUBSET Variants, NEW neg \in BOOLEAN
      PROVE  LET r == [proc[p] EXCEPT !.at = at, !.todo = todo, !.neg = neg] IN
             r \in ProcType /\ Busy(r)
  BY <1>1, <1>3, <1>4 DEF ProcType, Busy
<1>5. ASSUME NEW at \in Steps, at # "idle"
      PROVE  LET r == [proc[p] EXCEPT !.at = at] IN r \in ProcType /\ Busy(r)
  BY <1>1, <1>3, <1>5 DEF ProcType, Busy
<1>6. ASSUME NEW todo \in SUBSET Variants
      PROVE  LET r == [proc[p] EXCEPT !.todo = todo] IN r \in ProcType /\ Busy(r)
  BY <1>1, <1>3, <1>6 DEF ProcType, Busy
<1>7. ASSUME NEW at \in Steps, at # "idle", NEW todo \in SUBSET Variants
      PROVE  LET r == [proc[p] EXCEPT !.at = at, !.todo = todo] IN r \in ProcType /\ Busy(r)
  BY <1>1, <1>3, <1>7 DEF ProcType, Busy
<1>8. /\ proc[p].todo \subseteq Variants /\ proc[p].neg \in BOOLEAN
      /\ proc[p].to \in OrderStatus \cup {"NONE"}
  BY <1>1 DEF ProcType
<1>. QED  BY <1>1, <1>3, <1>4, <1>5, <1>6, <1>7, <1>8

(* What follows a stock call or a status write is again a handler's record. *)
LEMMA AfterTyped ==
    ASSUME TypeInv, NEW p \in Procs, proc[p].at # "idle"
    PROVE  /\ AfterClosing(proc[p]) \in ProcType /\ Busy(AfterClosing(proc[p]))
           /\ AfterWriting(proc[p]) \in ProcType /\ Busy(AfterWriting(proc[p]))
<1>1. AfterClosing(proc[p]) \in {Idle, [proc[p] EXCEPT !.at = "sale", !.todo = {}],
                                 [proc[p] EXCEPT !.at = "set", !.todo = {}]}
  BY DEF AfterClosing
<1>2. AfterWriting(proc[p]) \in {Idle, [proc[p] EXCEPT !.at = "restore"],
                                 [proc[p] EXCEPT !.at = "close"]}
  BY DEF AfterWriting
<1>3. \A at \in {"sale", "set", "restore", "close"} : at \in Steps \ {"idle"}
  BY DEF Steps
<1>4. {} \in SUBSET Variants
  OBVIOUS
<1>5. \A at \in {"sale", "set"} : LET r == [proc[p] EXCEPT !.at = at, !.todo = {}] IN
         r \in ProcType /\ Busy(r)
  BY <1>3, <1>4, Underway
<1>6. \A at \in {"restore", "close"} : LET r == [proc[p] EXCEPT !.at = at] IN
         r \in ProcType /\ Busy(r)
  BY <1>3, Underway
<1>. QED  BY <1>1, <1>2, <1>5, <1>6, IdleTyped
----------------------------------------------------------------------------
(* Types are kept, one step per action.  Most actions change the record of one
   process and one or two tables beside it. *)
LEMMA TypeStep == TypeInv /\ [Next]_vars => TypeInv'
<1>. SUFFICES ASSUME TypeInv, [Next]_vars PROVE TypeInv'
  OBVIOUS
<1>. USE DEF TypeInv
<1>0. CASE UNCHANGED vars
  BY <1>0 DEF vars, stockVars, flowVars, LifecycleTypeOK, StockTypeOK
<1>1. ASSUME NEW h \in Handlers, NEW o \in Orders, BeginCheckout(h, o) PROVE TypeInv'
  <2>1. h \in Procs /\ Handler("place", "checkout", o, "NONE", "NONE") \in ProcType
        /\ policy.backorder \in BOOLEAN /\ policy.track \in BOOLEAN
    BY HandlerTyped DEF Procs, Steps, LifecycleTypeOK, StockTypeOK
  <2>. DEFINE r == [Handler("place", "checkout", o, "NONE", "NONE") EXCEPT
                      !.neg = policy.backorder, !.track = policy.track]
  <2>2. r \in ProcType /\ r.at = "place" /\ r.o = o
    BY <2>1 DEF Handler, ProcType
  <2>3. Busy(r)
    BY <2>2 DEF Busy
  <2>4. Goes(h, r)
    BY <1>1 DEF BeginCheckout
  <2>. QED  BY <1>1, <2>1, <2>2, <2>3, <2>4, GoesTyped
            DEF BeginCheckout, stockVars, LifecycleTypeOK, StockTypeOK
<1>2. ASSUME NEW p \in Procs, PlaceOrder(p) PROVE TypeInv'
  <2>1. proc[p].at # "idle"
    BY <1>2 DEF PlaceOrder
  <2>2. proc[p].o \in Orders /\ [proc[p] EXCEPT !.at = "ref"] \in ProcType
        /\ Busy([proc[p] EXCEPT !.at = "ref"])
    BY <2>1, Underway DEF Steps
  <2>3. StockTypeOK'
    <3>1. CASE proc[p].track
      BY <1>2, <3>1, <2>2, ReserveTyped DEF PlaceOrder, LifecycleTypeOK
    <3>2. CASE ~proc[p].track
      BY <1>2, <3>2 DEF PlaceOrder, LifecycleTypeOK, stockVars, StockTypeOK
    <3>. QED  BY <3>1, <3>2
  <2>4. order' \in [Orders -> OrderStatus \cup {"NONE"}] /\ payment' \in [Orders -> PaymentStatus \cup {"NONE"}]
    BY <1>2 DEF PlaceOrder, LifecycleTypeOK, OrderStatus, PaymentStatus
  <2>. QED  BY <1>2, <2>2, <2>3, <2>4, GoesTyped DEF PlaceOrder, LifecycleTypeOK
<1>3. ASSUME NEW p \in Procs, RejectOrder(p) PROVE TypeInv'
  BY <1>3, IdleTyped, GoesTyped DEF RejectOrder, Finishes, stockVars, LifecycleTypeOK, StockTypeOK
<1>4. ASSUME NEW p \in Procs, StoreRef(p) PROVE TypeInv'
  BY <1>4, IdleTyped, GoesTyped DEF StoreRef, Finishes, stockVars, LifecycleTypeOK, StockTypeOK
<1>5. ASSUME NEW o \in Orders, NEW e \in Events, ProviderSends(o, e) PROVE TypeInv'
  BY <1>5 DEF ProviderSends, stockVars, LifecycleTypeOK, StockTypeOK
<1>6. ASSUME NEW h \in Handlers, NEW o \in Orders, NEW e \in Events, HandleWebhook(h, o, e) PROVE TypeInv'
  <2>1. h \in Procs /\ OrderStatusOf(e) \in OrderStatus \cup {"NONE"}
    BY DEF Procs, OrderStatusOf, OrderStatus
  <2>. DEFINE r == IF OrderStatusOf(e) = "NONE" THEN Idle
                   ELSE Handler("flip", "webhook", o, "NONE", OrderStatusOf(e))
  <2>2. r \in ProcType /\ Busy(r)
    BY <2>1, IdleTyped, HandlerTyped DEF Steps
  <2>3. Goes(h, r)
    BY <1>6 DEF HandleWebhook
  <2>4. payment' \in [Orders -> PaymentStatus \cup {"NONE"}] /\ hooks' \in [Orders -> Nat]
    BY <1>6 DEF HandleWebhook, LifecycleTypeOK, Events, PaymentStatus
  <2>. QED  BY <1>6, <2>1, <2>2, <2>3, <2>4, GoesTyped
            DEF HandleWebhook, stockVars, LifecycleTypeOK, StockTypeOK
<1>7. ASSUME NEW p \in Procs, FlipOrder(p) PROVE TypeInv'
  <2>1. proc[p].at # "idle"
    BY <1>7 DEF FlipOrder
  <2>. DEFINE r == IF proc[p].to = "REFUNDED" THEN Idle ELSE [proc[p] EXCEPT !.at = "close"]
  <2>2. r \in ProcType /\ Busy(r)
    BY <2>1, Underway, IdleTyped DEF Steps
  <2>3. Goes(p, r)
    BY <1>7 DEF FlipOrder
  <2>4. order' \in [Orders -> OrderStatus \cup {"NONE"}]
    BY <1>7, <2>1, Underway DEF FlipOrder, LifecycleTypeOK
  <2>5. captures' \in [Orders -> Nat]
    <3>1. proc[p].o \in Orders
      BY <2>1, Underway
    <3>2. captures[proc[p].o] + 1 \in Nat
      BY <3>1 DEF LifecycleTypeOK
    <3>3. captures' \in {captures, [captures EXCEPT ![proc[p].o] = captures[proc[p].o] + 1]}
      BY <1>7 DEF FlipOrder
    <3>. QED  BY <3>1, <3>2, <3>3 DEF LifecycleTypeOK
  <2>. QED  BY <1>7, <2>2, <2>3, <2>4, <2>5, GoesTyped
            DEF FlipOrder, stockVars, LifecycleTypeOK, StockTypeOK
<1>8. ASSUME NEW p \in Procs, FlipRefused(p) PROVE TypeInv'
  BY <1>8, IdleTyped, GoesTyped DEF FlipRefused, CountChecked, stockVars, LifecycleTypeOK, StockTypeOK
<1>9. ASSUME NEW p \in Procs, ListHolds(p) PROVE TypeInv'
  <2>1. proc[p].at # "idle"
    BY <1>9 DEF ListHolds
  <2>. DEFINE rows == ActiveLines(proc[p].o)
              r == IF rows = {} THEN AfterClosing(proc[p])
                   ELSE [proc[p] EXCEPT !.at = "closing", !.todo = rows]
  <2>2. rows \in SUBSET Variants
    BY DEF ActiveLines
  <2>3. r \in ProcType /\ Busy(r)
    BY <2>1, <2>2, Underway, AfterTyped DEF Steps
  <2>4. Goes(p, r)
    BY <1>9 DEF ListHolds
  <2>. QED  BY <1>9, <2>3, <2>4, GoesTyped DEF ListHolds, stockVars, LifecycleTypeOK, StockTypeOK
<1>10. ASSUME NEW p \in Procs, NEW v \in Variants, CloseHold(p, v) PROVE TypeInv'
  <2>1. proc[p].at # "idle"
    BY <1>10 DEF CloseHold
  <2>. DEFINE rest == proc[p].todo \ {v}
              r == IF rest = {} THEN AfterClosing(proc[p]) ELSE [proc[p] EXCEPT !.todo = rest]
  <2>2. rest \in SUBSET Variants
    BY <2>1, Underway
  <2>3. r \in ProcType /\ Busy(r)
    BY <2>1, <2>2, Underway, AfterTyped
  <2>4. Goes(p, r)
    BY <1>10 DEF CloseHold
  <2>5. StockTypeOK'
    BY <1>10, <2>1, Underway, CloseRowTyped DEF CloseHold, LifecycleTypeOK
  <2>. QED  BY <1>10, <2>3, <2>4, <2>5, GoesTyped DEF CloseHold, LifecycleTypeOK
<1>11. ASSUME NEW p \in Procs, ReadSalePolicy(p) PROVE TypeInv'
  <2>1. proc[p].at # "idle"
    BY <1>11 DEF ReadSalePolicy
  <2>. DEFINE r == IF policy.track /\ Lines(proc[p].o) # {}
                   THEN [proc[p] EXCEPT !.at = "selling", !.todo = Lines(proc[p].o), !.neg = policy.backorder]
                   ELSE Idle
  <2>2. Lines(proc[p].o) \in SUBSET Variants /\ policy.backorder \in BOOLEAN
    BY DEF Lines, LifecycleTypeOK, StockTypeOK
  <2>3. r \in ProcType /\ Busy(r)
    BY <2>1, <2>2, Underway, IdleTyped DEF Steps
  <2>4. Goes(p, r)
    BY <1>11 DEF ReadSalePolicy
  <2>. QED  BY <1>11, <2>3, <2>4, GoesTyped DEF ReadSalePolicy, stockVars, LifecycleTypeOK, StockTypeOK
<1>12. ASSUME NEW p \in Procs, NEW v \in Variants, SellLine(p, v) PROVE TypeInv'
  <2>1. proc[p].at # "idle"
    BY <1>12 DEF SellLine
  <2>. DEFINE rest == proc[p].todo \ {v}
              o == proc[p].o
              r == IF rest = {} THEN Idle ELSE [proc[p] EXCEPT !.todo = rest]
  <2>2. r \in ProcType /\ Busy(r) /\ o \in Orders /\ proc[p].neg \in BOOLEAN
    BY <2>1, Underway, IdleTyped
  <2>3. Goes(p, r) /\ Move(v, -Qty[o][v], proc[p].neg)
    BY <1>12 DEF SellLine
  <2>4. -Qty[o][v] \in Int
    BY <2>2, StockAssumption
  <2>5. StockTypeOK'
    BY <2>2, <2>3, <2>4, MoveTyped DEF LifecycleTypeOK
  <2>6. booked' \in [Orders -> [Variants -> [sales : Nat, cancels : Nat]]]
    <3>. DEFINE b == [booked[o][v] EXCEPT !.sales = @ + 1]
    <3>1. booked[o] \in [Variants -> [sales : Nat, cancels : Nat]]
          /\ booked[o][v] \in [sales : Nat, cancels : Nat]
      BY <2>2 DEF LifecycleTypeOK
    <3>2. b \in [sales : Nat, cancels : Nat]
      BY <3>1
    <3>3. booked' = [booked EXCEPT ![o] = [booked[o] EXCEPT ![v] = b]]
      BY <1>12 DEF SellLine
    <3>4. [booked[o] EXCEPT ![v] = b] \in [Variants -> [sales : Nat, cancels : Nat]]
      BY <3>1, <3>2
    <3>. QED  BY <3>3, <3>4 DEF LifecycleTypeOK
  <2>. QED  BY <1>12, <2>2, <2>3, <2>5, <2>6, GoesTyped DEF SellLine, LifecycleTypeOK
<1>13. ASSUME NEW p \in Procs, ReadRestorePolicy(p) PROVE TypeInv'
  <2>1. proc[p].at # "idle"
    BY <1>13 DEF ReadRestorePolicy
  <2>. DEFINE r == IF policy.track /\ Lines(proc[p].o) # {}
                   THEN [proc[p] EXCEPT !.at = "restoring", !.todo = Lines(proc[p].o)]
                   ELSE Idle
  <2>2. Lines(proc[p].o) \in SUBSET Variants
    BY DEF Lines
  <2>3. r \in ProcType /\ Busy(r)
    BY <2>1, <2>2, Underway, IdleTyped DEF Steps
  <2>4. Goes(p, r)
    BY <1>13 DEF ReadRestorePolicy
  <2>. QED  BY <1>13, <2>3, <2>4, GoesTyped DEF ReadRestorePolicy, stockVars, LifecycleTypeOK, StockTypeOK
<1>14. ASSUME NEW p \in Procs, NEW v \in Variants, PutBack(p, v) PROVE TypeInv'
  <2>1. proc[p].at # "idle"
    BY <1>14 DEF PutBack
  <2>. DEFINE rest == proc[p].todo \ {v}
              o == proc[p].o
              r == IF rest = {} THEN Idle ELSE [proc[p] EXCEPT !.todo = rest]
  <2>2. r \in ProcType /\ Busy(r) /\ o \in Orders
    BY <2>1, Underway, IdleTyped
  <2>3. Goes(p, r) /\ Move(v, Qty[o][v], TRUE)
    BY <1>14 DEF PutBack
  <2>4. StockTypeOK'
    <3>1. Qty[o][v] \in Int /\ TRUE \in BOOLEAN
      BY <2>2, StockAssumption
    <3>. QED  BY <2>3, <3>1, MoveTyped DEF LifecycleTypeOK
  <2>5. booked' \in [Orders -> [Variants -> [sales : Nat, cancels : Nat]]]
    <3>. DEFINE b == [booked[o][v] EXCEPT !.cancels = @ + 1]
    <3>1. booked[o] \in [Variants -> [sales : Nat, cancels : Nat]]
          /\ booked[o][v] \in [sales : Nat, cancels : Nat]
      BY <2>2 DEF LifecycleTypeOK
    <3>2. b \in [sales : Nat, cancels : Nat]
      BY <3>1
    <3>3. booked' = [booked EXCEPT ![o] = [booked[o] EXCEPT ![v] = b]]
      BY <1>14 DEF PutBack
    <3>4. [booked[o] EXCEPT ![v] = b] \in [Variants -> [sales : Nat, cancels : Nat]]
      BY <3>1, <3>2
    <3>. QED  BY <3>3, <3>4 DEF LifecycleTypeOK
  <2>. QED  BY <1>14, <2>2, <2>3, <2>4, <2>5, GoesTyped DEF PutBack, LifecycleTypeOK
<1>15. ASSUME NEW p \in Procs, WriteStatus(p) PROVE TypeInv'
  <2>1. proc[p].at # "idle" /\ Goes(p, AfterWriting(proc[p]))
    BY <1>15 DEF WriteStatus
  <2>2. order' \in [Orders -> OrderStatus \cup {"NONE"}]
    BY <1>15, <2>1, Underway DEF WriteStatus, LifecycleTypeOK
  <2>. QED  BY <1>15, <2>1, <2>2, AfterTyped, GoesTyped
            DEF WriteStatus, stockVars, LifecycleTypeOK, StockTypeOK
<1>16. ASSUME NEW h \in Handlers, NEW o \in Orders, NEW s \in OrderStatus, BeginUpdate(h, o, s) PROVE TypeInv'
  <2>1. h \in Procs /\ order[o] \in OrderStatus \cup {"NONE"} /\ requests' \in Nat
    BY <1>16 DEF Procs, BeginUpdate, Request, LifecycleTypeOK
  <2>2. Goes(h, Handler("set", "update", o, order[o], s))
    BY <1>16 DEF BeginUpdate
  <2>. QED  BY <1>16, <2>1, <2>2, HandlerTyped, GoesTyped
            DEF BeginUpdate, stockVars, LifecycleTypeOK, StockTypeOK, Steps, AllOps
<1>17. ASSUME NEW h \in Handlers, NEW o \in Orders, BeginCancel(h, o) PROVE TypeInv'
  <2>. DEFINE at == IF order[o] = "PAID" /\ payment[o] = "CAPTURED" THEN "refund" ELSE "set"
  <2>1. h \in Procs /\ order[o] \in OrderStatus \cup {"NONE"} /\ requests' \in Nat
        /\ at \in Steps /\ at # "idle"
    BY <1>17 DEF Procs, BeginCancel, Request, LifecycleTypeOK, Steps
  <2>2. Goes(h, Handler(at, "cancel", o, order[o], "CANCELLED"))
    BY <1>17 DEF BeginCancel
  <2>3. Handler(at, "cancel", o, order[o], "CANCELLED") \in ProcType
        /\ Busy(Handler(at, "cancel", o, order[o], "CANCELLED"))
    BY <2>1, HandlerTyped DEF OrderStatus, AllOps
  <2>. QED  BY <1>17, <2>1, <2>2, <2>3, GoesTyped
            DEF BeginCancel, stockVars, LifecycleTypeOK, StockTypeOK
<1>18. ASSUME NEW p \in Procs, CallRefund(p) PROVE TypeInv'
  <2>1. proc[p].at # "idle"
    BY <1>18 DEF CallRefund
  <2>. DEFINE r == IF payment[proc[p].o] = "CAPTURED" THEN [proc[p] EXCEPT !.at = "refundPayment"] ELSE Idle
  <2>2. r \in ProcType /\ Busy(r)
    BY <2>1, Underway, IdleTyped DEF Steps
  <2>3. Goes(p, r)
    BY <1>18 DEF CallRefund
  <2>. QED  BY <1>18, <2>2, <2>3, GoesTyped DEF CallRefund, stockVars, LifecycleTypeOK, StockTypeOK
<1>19. ASSUME NEW p \in Procs, RecordRefund(p) PROVE TypeInv'
  <2>1. proc[p].at # "idle"
    BY <1>19 DEF RecordRefund
  <2>2. \A at \in {"refundOrder", "set"} : LET r == [proc[p] EXCEPT !.at = at] IN
           r \in ProcType /\ Busy(r)
    BY <2>1, Underway DEF Steps
  <2>3. order' \in [Orders -> OrderStatus \cup {"NONE"}] /\ payment' \in [Orders -> PaymentStatus \cup {"NONE"}]
    BY <1>19 DEF RecordRefund, LifecycleTypeOK, OrderStatus, PaymentStatus
  <2>4. Goes(p, [proc[p] EXCEPT !.at = "refundOrder"]) \/ Goes(p, [proc[p] EXCEPT !.at = "set"])
    BY <1>19 DEF RecordRefund
  <2>. QED  BY <1>19, <2>2, <2>3, <2>4, GoesTyped
            DEF RecordRefund, stockVars, LifecycleTypeOK, StockTypeOK
<1>20. ASSUME NEW h \in Handlers, NEW o \in Orders, BeginShipment(h, o) PROVE TypeInv'
  <2>1. h \in Procs /\ requests' \in Nat /\ Goes(h, Handler("ship", "ship", o, "NONE", "FULFILLED"))
    BY <1>20 DEF Procs, BeginShipment, Request, LifecycleTypeOK
  <2>. QED  BY <1>20, <2>1, HandlerTyped, GoesTyped
            DEF BeginShipment, stockVars, LifecycleTypeOK, StockTypeOK, Steps, AllOps, OrderStatus
<1>21. ASSUME NEW p \in Procs, CreateShipment(p) PROVE TypeInv'
  <2>1. proc[p].at # "idle"
    BY <1>21 DEF CreateShipment
  <2>. DEFINE r == IF shipped[proc[p].o] THEN Idle ELSE [proc[p] EXCEPT !.at = "set"]
  <2>2. r \in ProcType /\ Busy(r)
    BY <2>1, Underway, IdleTyped DEF Steps
  <2>3. Goes(p, r)
    BY <1>21 DEF CreateShipment
  <2>. QED  BY <1>21, <2>2, <2>3, GoesTyped DEF CreateShipment, stockVars, LifecycleTypeOK, StockTypeOK
<1>22. ASSUME NEW h \in Handlers, NEW o \in Orders, Delivered(h, o) PROVE TypeInv'
  <2>1. h \in Procs /\ hooks' \in [Orders -> Nat] /\ Goes(h, Handler("set", "ship", o, "NONE", "FULFILLED"))
    BY <1>22 DEF Procs, Delivered, LifecycleTypeOK
  <2>. QED  BY <1>22, <2>1, HandlerTyped, GoesTyped
            DEF Delivered, stockVars, LifecycleTypeOK, StockTypeOK, Steps, AllOps, OrderStatus
<1>23. ASSUME NEW o \in Orders, HoldsAge(o) PROVE TypeInv'
  BY <1>23 DEF HoldsAge, stockVars, LifecycleTypeOK, StockTypeOK
<1>24. ASSUME NEW w \in Workers, ScanStale(w) PROVE TypeInv'
  BY <1>24 DEF ScanStale, stockVars, LifecycleTypeOK, StockTypeOK
<1>25. ASSUME NEW w \in Workers, NEW o \in Orders, VisitStale(w, o) PROVE TypeInv'
  <2>. DEFINE r == IF VisitPending(order[o]) THEN Handler("close", "expire", o, "PENDING", "CANCELLED") ELSE Idle
  <2>1. w \in Procs /\ r \in ProcType /\ Busy(r)
    BY IdleTyped, HandlerTyped DEF Procs, Steps, AllOps, OrderStatus
  <2>2. Goes(w, r)
    BY <1>25 DEF VisitStale
  <2>3. stale' \in [Workers -> SUBSET Orders]
    BY <1>25 DEF VisitStale, LifecycleTypeOK
  <2>. QED  BY <1>25, <2>1, <2>3, GoesTyped DEF VisitStale, stockVars, LifecycleTypeOK, StockTypeOK
<1>26. CASE CorrectStock
  <2>1. StockTypeOK'
    BY <1>26, CorrectionsTyped DEF CorrectStock, LifecycleTypeOK
  <2>2. requests' \in Nat
    BY <1>26 DEF CorrectStock, Request, LifecycleTypeOK
  <2>. QED  BY <1>26, <2>1, <2>2 DEF CorrectStock, LifecycleTypeOK
<1>27. ASSUME NEW p \in Procs, Crash(p) PROVE TypeInv'
  <2>1. stale' \in [Workers -> SUBSET Orders]
    BY <1>27 DEF Crash, DropList, LifecycleTypeOK
  <2>. QED  BY <1>27, <2>1, IdleTyped, GoesTyped DEF Crash, Finishes, stockVars, LifecycleTypeOK, StockTypeOK
<1>28. ASSUME NEW p \in Procs, StockCallFails(p) PROVE TypeInv'
  <2>1. proc[p].at # "idle"
    BY <1>28 DEF StockCallFails
  <2>. DEFINE r == IF Capturing(proc[p]) /\ proc[p].at \in {"close", "closing"} THEN AfterClosing(proc[p]) ELSE Idle
  <2>2. r \in ProcType /\ Busy(r)
    BY <2>1, AfterTyped, IdleTyped
  <2>3. Goes(p, r)
    BY <1>28 DEF StockCallFails
  <2>4. stale' \in [Workers -> SUBSET Orders]
    BY <1>28 DEF StockCallFails, DropList, LifecycleTypeOK
  <2>. QED  BY <1>28, <2>2, <2>3, <2>4, GoesTyped DEF StockCallFails, stockVars, LifecycleTypeOK, StockTypeOK
<1>. QED  BY <1>0, <1>1, <1>2, <1>3, <1>4, <1>5, <1>6, <1>7, <1>8, <1>9, <1>10, <1>11, <1>12, <1>13,
             <1>14, <1>15, <1>16, <1>17, <1>18, <1>19, <1>20, <1>21, <1>22, <1>23, <1>24, <1>25, <1>26,
             <1>27, <1>28 DEF Next, Begins, Expires, Proceeds

----------------------------------------------------------------------------
(* What a handler knows.  An order exists once its checkout has committed; the
   rows a handler lists exist; a policy it read allowing backorders was given. *)
Knows(r, orders, holds, ever) ==
    /\ r.at = "place" => orders[r.o] = "NONE"
    /\ r.at \notin {"idle", "place"} => orders[r.o] # "NONE"
    /\ r.at \notin {"idle", "place", "ref"} => r.to \in OrderStatus
    /\ r.at = "closing" => \A v \in r.todo : holds[r.o][v] # "NONE"
    /\ r.at \in {"selling", "restoring"} => r.todo \subseteq Lines(r.o)
    /\ r.neg = TRUE => ever = TRUE

PlacesAlone == \A p, q \in Procs : (p # q /\ proc[p].at = "place") => proc[q].o # proc[p].o

TablesAgree ==
    /\ \A o \in Orders : order[o] = "NONE" => NoRows(o) /\ ~ref[o] /\ ~shipped[o]
    /\ \A o \in Orders : sent[o] # {} => ref[o]
    /\ policy.backorder = TRUE => policy.everBackorder = TRUE

Known ==
    /\ \A p \in Procs : Knows(proc[p], order, hold, policy.everBackorder)
    /\ PlacesAlone
    /\ TablesAgree

(* No order appears or disappears, no reservation row is created. *)
SameRows ==
    /\ \A o \in Orders : order'[o] = "NONE" <=> order[o] = "NONE"
    /\ \A o \in Orders, v \in Variants : hold'[o][v] = "NONE" <=> hold[o][v] = "NONE"
    /\ policy.everBackorder = TRUE => policy'.everBackorder = TRUE

LEMMA IdleKnows == \A orders, holds, ever : Knows(Idle, orders, holds, ever)
  BY DEF Idle, Handler, Knows

LEMMA KnowsFrame ==
    ASSUME TypeInv, NEW p \in Procs, Knows(proc[p], order, hold, policy.everBackorder), SameRows
    PROVE  Knows(proc[p], order', hold', policy'.everBackorder)
<1>1. CASE proc[p] = Idle
  BY <1>1, IdleKnows
<1>2. CASE proc[p] # Idle
  <2>1. proc[p].o \in Orders /\ proc[p].todo \subseteq Variants
    BY <1>2 DEF TypeInv, Busy, LifecycleTypeOK, ProcType
  <2>. QED  BY <2>1 DEF Knows, SameRows
<1>. QED  BY <1>1, <1>2

(* A process that goes on with an existing order, or finishes. *)
LEMMA KnownGoes ==
    ASSUME TypeInv, Known, NEW p \in Procs, NEW r, Goes(p, r), SameRows,
           r.at # "place", r = Idle \/ (r.o \in Orders /\ order[r.o] # "NONE"),
           Knows(r, order', hold', policy'.everBackorder)
    PROVE  /\ \A q \in Procs : Knows(proc'[q], order', hold', policy'.everBackorder)
           /\ PlacesAlone'
<1>1. \A q \in Procs : proc'[q] = IF q = p THEN r ELSE proc[q]
  BY DEF Goes, TypeInv, LifecycleTypeOK
<1>2. \A q \in Procs : Knows(proc'[q], order', hold', policy'.everBackorder)
  BY <1>1, KnowsFrame DEF Known
<1>3. ASSUME NEW q1 \in Procs, NEW q2 \in Procs, q1 # q2, proc'[q1].at = "place"
      PROVE  proc'[q2].o # proc'[q1].o
  <2>1. q1 # p /\ proc'[q1] = proc[q1] /\ proc[q1].at = "place"
    BY <1>1, <1>3
  <2>2. proc[q1].o \in Orders /\ order[proc[q1].o] = "NONE"
    <3>1. proc[q1] # Idle
      BY <2>1 DEF Idle, Handler
    <3>. QED  BY <2>1, <3>1 DEF TypeInv, Busy, Known, Knows
  <2>3. CASE q2 = p /\ r = Idle
    BY <1>1, <2>1, <2>2, <2>3, LifecycleAssumption DEF Idle, Handler
  <2>4. CASE q2 = p /\ r # Idle
    BY <1>1, <2>1, <2>2, <2>4
  <2>5. CASE q2 # p
    BY <1>1, <1>3, <2>1, <2>5 DEF Known, PlacesAlone
  <2>. QED  BY <2>3, <2>4, <2>5
<1>. QED  BY <1>2, <1>3 DEF PlacesAlone

(* A step that leaves every handler where it is. *)
LEMMA KnownStays ==
    ASSUME TypeInv, Known, SameRows, UNCHANGED proc
    PROVE  /\ \A q \in Procs : Knows(proc'[q], order', hold', policy'.everBackorder)
           /\ PlacesAlone'
  BY KnowsFrame DEF Known, PlacesAlone

(* A handler past its checkout transaction has an order in the tables. *)
LEMMA UnderwayKnows ==
    ASSUME TypeInv, Known, NEW p \in Procs, proc[p].at \notin {"idle", "place"}
    PROVE  /\ proc[p].o \in Orders /\ order[proc[p].o] # "NONE"
           /\ proc[p].at # "ref" => proc[p].to \in OrderStatus
           /\ proc[p].neg = TRUE => policy.everBackorder = TRUE
           /\ proc[p] \in ProcType
  BY Underway DEF Known, Knows

(* The order tables' part of Known follows when no row is created. *)
LEMMA TablesFrame ==
    ASSUME TypeInv, Known, SameRows, UNCHANGED <<ref, shipped, sent, policy>>
    PROVE  TablesAgree'
  BY DEF Known, TablesAgree, SameRows, NoRows

(* What a handler of an existing order knows after a step that creates no row. *)
LEMMA ExistingKnows ==
    ASSUME NEW r, NEW o \in Orders, order[o] # "NONE", SameRows,
           r = Idle \/ (/\ r.o = o /\ r.at \notin {"idle", "place"} /\ r.to \in OrderStatus
                        /\ r.neg = TRUE => policy.everBackorder = TRUE
                        /\ r.at = "closing" => \A w \in r.todo : hold[o][w] # "NONE" /\ w \in Variants
                        /\ r.at \in {"selling", "restoring"} => r.todo \subseteq Lines(o))
    PROVE  Knows(r, order', hold', policy'.everBackorder)
<1>1. CASE r = Idle
  BY <1>1, IdleKnows
<1>2. CASE r # Idle
  BY <1>2 DEF Knows, SameRows
<1>. QED  BY <1>1, <1>2

LEMMA KnownStep == TypeInv /\ Known /\ [Next]_vars => Known'
<1>. SUFFICES ASSUME TypeInv, Known, [Next]_vars PROVE Known'
  OBVIOUS
<1>. DEFINE Handlers2 == /\ \A q \in Procs : Knows(proc'[q], order', hold', policy'.everBackorder)
                         /\ PlacesAlone'
<1>0. CASE UNCHANGED vars
  <2>1. SameRows /\ UNCHANGED proc
    BY <1>0 DEF vars, flowVars, stockVars, SameRows
  <2>2. TablesAgree'
    BY <1>0, <2>1, TablesFrame DEF vars, flowVars, stockVars
  <2>. QED  BY <2>1, <2>2, KnownStays DEF Known
<1>1. ASSUME NEW h \in Handlers, NEW o \in Orders, BeginCheckout(h, o) PROVE Known'
  <2>. DEFINE r == [Handler("place", "checkout", o, "NONE", "NONE") EXCEPT
                      !.neg = policy.backorder, !.track = policy.track]
  <2>1. h \in Procs /\ Goes(h, r) /\ order[o] = "NONE" /\ \A q \in Procs : proc[q].o # o
    BY <1>1 DEF BeginCheckout, Procs
  <2>2. r.at = "place" /\ r.o = o /\ r.neg = policy.backorder
    BY DEF Handler
  <2>3. SameRows
    BY <1>1 DEF BeginCheckout, stockVars, SameRows
  <2>4. \A q \in Procs : proc'[q] = IF q = h THEN r ELSE proc[q]
    BY <2>1 DEF Goes, TypeInv, LifecycleTypeOK
  <2>5. Knows(r, order', hold', policy'.everBackorder)
    <3>1. r.neg = TRUE => policy'.everBackorder = TRUE
      BY <1>1, <2>2 DEF BeginCheckout, stockVars, Known, TablesAgree
    <3>2. order'[r.o] = "NONE"
      BY <1>1, <2>1, <2>2 DEF BeginCheckout
    <3>. QED  BY <2>2, <3>1, <3>2 DEF Knows
  <2>6. \A q \in Procs : Knows(proc'[q], order', hold', policy'.everBackorder)
    BY <2>3, <2>4, <2>5, KnowsFrame DEF Known
  <2>7. PlacesAlone'
    <3>1. \A q \in Procs : q # h => proc'[q].o # o /\ proc'[q] = proc[q]
      BY <2>1, <2>4
    <3>2. proc'[h].o = o
      BY <2>1, <2>2, <2>4
    <3>. QED  BY <3>1, <3>2 DEF Known, PlacesAlone
  <2>8. TablesAgree'
    BY <1>1, <2>3, TablesFrame DEF BeginCheckout, stockVars
  <2>. QED  BY <2>6, <2>7, <2>8 DEF Known
<1>2. ASSUME NEW p \in Procs, PlaceOrder(p) PROVE Known'
  <2>. DEFINE o == proc[p].o
              r == [proc[p] EXCEPT !.at = "ref"]
  <2>1. proc[p].at = "place" /\ Goes(p, r)
    BY <1>2 DEF PlaceOrder
  <2>2. o \in Orders /\ proc[p] \in ProcType /\ order[o] = "NONE"
        /\ (proc[p].neg = TRUE => policy.everBackorder = TRUE)
    BY <2>1, Underway DEF Known, Knows
  <2>3. r.at = "ref" /\ r.o = o /\ r.neg = proc[p].neg
    BY <2>2 DEF ProcType
  <2>4. \A q \in Procs : proc'[q] = IF q = p THEN r ELSE proc[q]
    BY <2>1 DEF Goes, TypeInv, LifecycleTypeOK
  <2>5. order' = [order EXCEPT ![o] = "PENDING"]
    BY <1>2 DEF PlaceOrder
  <2>6. policy' = policy /\ \A u \in Orders : u # o => hold'[u] = hold[u]
    BY <1>2, <2>2 DEF PlaceOrder, Reserve, stockVars, TypeInv, LifecycleTypeOK, StockTypeOK
  <2>7. \A q \in Procs : q # p => proc[q].o # o
    BY <2>1 DEF Known, PlacesAlone
  <2>8. ASSUME NEW q \in Procs PROVE Knows(proc'[q], order', hold', policy'.everBackorder)
    <3>1. CASE q = p
      <4>1. order'[o] # "NONE"
        BY <2>2, <2>5 DEF TypeInv, LifecycleTypeOK
      <4>. QED  BY <3>1, <4>1, <2>2, <2>3, <2>4, <2>6 DEF Knows
    <3>2. CASE q # p /\ proc[q] = Idle
      BY <2>4, <3>2, IdleKnows
    <3>3. CASE q # p /\ proc[q] # Idle
      <4>1. proc[q].o \in Orders /\ proc[q].o # o
        BY <2>7, <3>3 DEF TypeInv, Busy
      <4>2. order'[proc[q].o] = order[proc[q].o] /\ hold'[proc[q].o] = hold[proc[q].o]
        BY <2>5, <2>6, <4>1 DEF TypeInv, LifecycleTypeOK
      <4>3. Knows(proc[q], order, hold, policy.everBackorder)
        BY DEF Known
      <4>. QED  BY <2>4, <2>6, <3>3, <4>2, <4>3 DEF Knows
    <3>. QED  BY <3>1, <3>2, <3>3
  <2>9. PlacesAlone'
    <3>1. ASSUME NEW q1 \in Procs, NEW q2 \in Procs, q1 # q2, proc'[q1].at = "place"
          PROVE  proc'[q2].o # proc'[q1].o
      <4>1. q1 # p /\ proc'[q1] = proc[q1] /\ proc'[q2].o = proc[q2].o
        BY <2>3, <2>4, <3>1
      <4>. QED  BY <3>1, <4>1 DEF Known, PlacesAlone
    <3>. QED  BY <3>1 DEF PlacesAlone
  <2>10. TablesAgree'
    <3>1. ASSUME NEW u \in Orders, order'[u] = "NONE" PROVE NoRows(u)' /\ ~ref'[u] /\ ~shipped'[u]
      <4>1. u # o /\ order[u] = "NONE"
        BY <2>2, <2>5, <3>1 DEF TypeInv, LifecycleTypeOK
      <4>. QED  BY <1>2, <2>6, <4>1 DEF PlaceOrder, Known, TablesAgree, NoRows
    <3>. QED  BY <1>2, <2>6, <3>1 DEF PlaceOrder, Known, TablesAgree
  <2>. QED  BY <2>8, <2>9, <2>10 DEF Known
<1>3. ASSUME NEW p \in Procs, RejectOrder(p) PROVE Known'
  <2>1. Goes(p, Idle) /\ SameRows
    BY <1>3 DEF RejectOrder, Finishes, stockVars, SameRows
  <2>2. Handlers2
    BY <2>1, IdleKnows, KnownGoes DEF Idle, Handler
  <2>3. TablesAgree'
    BY <1>3, <2>1, TablesFrame DEF RejectOrder, stockVars
  <2>. QED  BY <2>2, <2>3 DEF Known
<1>4. ASSUME NEW p \in Procs, StoreRef(p) PROVE Known'
  <2>1. Goes(p, Idle) /\ SameRows
    BY <1>4 DEF StoreRef, Finishes, stockVars, SameRows
  <2>2. Handlers2
    BY <2>1, IdleKnows, KnownGoes DEF Idle, Handler
  <2>3. proc[p].o \in Orders /\ order[proc[p].o] # "NONE"
    BY <1>4, UnderwayKnows DEF StoreRef
  <2>4. TablesAgree'
    BY <1>4, <2>3 DEF StoreRef, stockVars, Known, TablesAgree, NoRows, TypeInv, LifecycleTypeOK
  <2>. QED  BY <2>2, <2>4 DEF Known
<1>5. ASSUME NEW o \in Orders, NEW e \in Events, ProviderSends(o, e) PROVE Known'
  <2>1. SameRows /\ UNCHANGED proc
    BY <1>5 DEF ProviderSends, stockVars, SameRows
  <2>2. TablesAgree'
    BY <1>5 DEF ProviderSends, stockVars, Known, TablesAgree, NoRows, TypeInv, LifecycleTypeOK
  <2>. QED  BY <2>1, <2>2, KnownStays DEF Known
<1>6. ASSUME NEW h \in Handlers, NEW o \in Orders, NEW e \in Events, HandleWebhook(h, o, e) PROVE Known'
  <2>. DEFINE r == IF OrderStatusOf(e) = "NONE" THEN Idle ELSE Handler("flip", "webhook", o, "NONE", OrderStatusOf(e))
  <2>1. h \in Procs /\ Goes(h, r) /\ SameRows
    BY <1>6 DEF HandleWebhook, Procs, stockVars, SameRows
  <2>2. order[o] # "NONE"
    BY <1>6 DEF HandleWebhook, Known, TablesAgree
  <2>3. r = Idle \/ (r.o = o /\ r.at \notin {"idle", "place", "closing", "selling", "restoring"}
                    /\ r.to \in OrderStatus /\ r.neg = FALSE)
    BY <1>6 DEF OrderStatusOf, Handler, OrderStatus
  <2>4. Knows(r, order', hold', policy'.everBackorder)
    BY <2>1, <2>2, <2>3, ExistingKnows
  <2>5. Handlers2
    BY <2>1, <2>2, <2>3, <2>4, KnownGoes DEF Idle, Handler
  <2>6. TablesAgree'
    BY <1>6, <2>1, TablesFrame DEF HandleWebhook, stockVars
  <2>. QED  BY <2>5, <2>6 DEF Known
<1>7. ASSUME NEW p \in Procs, FlipOrder(p) PROVE Known'
  <2>. DEFINE o == proc[p].o
              r == IF proc[p].to = "REFUNDED" THEN Idle ELSE [proc[p] EXCEPT !.at = "close"]
  <2>1. proc[p].at \notin {"idle", "place"} /\ Goes(p, r)
    BY <1>7 DEF FlipOrder
  <2>. /\ o \in Orders /\ order[o] # "NONE" /\ proc[p] \in ProcType
       /\ proc[p].at # "ref" => proc[p].to \in OrderStatus
       /\ proc[p].neg = TRUE => policy.everBackorder = TRUE
    BY <2>1, UnderwayKnows
  <2>2. SameRows
    BY <1>7 DEF FlipOrder, stockVars, SameRows, OrderStatus, TypeInv, LifecycleTypeOK
  <2>3. r = Idle \/ (r.o = o /\ r.at \notin {"idle", "place"} /\ r.to \in OrderStatus
                    /\ (r.neg = TRUE => policy.everBackorder = TRUE)
                    /\ (r.at = "closing" => \A w \in r.todo : hold[o][w] # "NONE" /\ w \in Variants)
                    /\ (r.at \in {"selling", "restoring"} => r.todo \subseteq Lines(o)))
    BY <1>7 DEF FlipOrder, ProcType
  <2>4. Knows(r, order', hold', policy'.everBackorder)
    BY <2>2, <2>3, ExistingKnows
  <2>5. Handlers2
    BY <2>1, <2>2, <2>3, <2>4, KnownGoes DEF Idle, Handler
  <2>6. TablesAgree'
    BY <1>7, <2>2, TablesFrame DEF FlipOrder, stockVars
  <2>. QED  BY <2>5, <2>6 DEF Known
<1>8. ASSUME NEW p \in Procs, FlipRefused(p) PROVE Known'
  <2>1. Goes(p, Idle) /\ SameRows
    BY <1>8 DEF FlipRefused, Finishes, stockVars, SameRows, CountChecked
  <2>2. Handlers2
    BY <2>1, IdleKnows, KnownGoes DEF Idle, Handler
  <2>3. TablesAgree'
    BY <1>8, <2>1, TablesFrame DEF FlipRefused, stockVars
  <2>. QED  BY <2>2, <2>3 DEF Known
<1>9. ASSUME NEW p \in Procs, ListHolds(p) PROVE Known'
  <2>. DEFINE o == proc[p].o
              r == IF ActiveLines(proc[p].o) = {} THEN AfterClosing(proc[p])
                   ELSE [proc[p] EXCEPT !.at = "closing", !.todo = ActiveLines(proc[p].o)]
  <2>1. proc[p].at \notin {"idle", "place"} /\ Goes(p, r)
    BY <1>9 DEF ListHolds
  <2>. /\ o \in Orders /\ order[o] # "NONE" /\ proc[p] \in ProcType
       /\ proc[p].at # "ref" => proc[p].to \in OrderStatus
       /\ proc[p].neg = TRUE => policy.everBackorder = TRUE
    BY <2>1, UnderwayKnows
  <2>2. SameRows
    BY <1>9 DEF ListHolds, stockVars, SameRows
  <2>3. r = Idle \/ (r.o = o /\ r.at \notin {"idle", "place"} /\ r.to \in OrderStatus
                    /\ (r.neg = TRUE => policy.everBackorder = TRUE)
                    /\ (r.at = "closing" => \A w \in r.todo : hold[o][w] # "NONE" /\ w \in Variants)
                    /\ (r.at \in {"selling", "restoring"} => r.todo \subseteq Lines(o)))
    <3>1. CASE ActiveLines(o) = {}
      BY <1>9, <3>1 DEF ListHolds, AfterClosing, ProcType
    <3>2. CASE ActiveLines(o) # {}
      <4>1. r.at = "closing" /\ r.todo = ActiveLines(o) /\ r.o = o /\ r.to = proc[p].to /\ r.neg = proc[p].neg
        BY <3>2 DEF ProcType
      <4>2. \A v \in ActiveLines(o) : hold[o][v] # "NONE" /\ v \in Variants
        BY DEF ActiveLines
      <4>. QED  BY <1>9, <4>1, <4>2 DEF ListHolds
    <3>. QED  BY <3>1, <3>2
  <2>4. Knows(r, order', hold', policy'.everBackorder)
    BY <2>2, <2>3, ExistingKnows
  <2>5. Handlers2
    BY <2>1, <2>2, <2>3, <2>4, KnownGoes DEF Idle, Handler
  <2>6. TablesAgree'
    BY <1>9, <2>2, TablesFrame DEF ListHolds, stockVars
  <2>. QED  BY <2>5, <2>6 DEF Known
<1>10. ASSUME NEW p \in Procs, NEW v \in Variants, CloseHold(p, v) PROVE Known'
  <2>. DEFINE o == proc[p].o
              r == IF proc[p].todo \ {v} = {} THEN AfterClosing(proc[p])
                   ELSE [proc[p] EXCEPT !.todo = proc[p].todo \ {v}]
  <2>1. proc[p].at \notin {"idle", "place"} /\ Goes(p, r)
    BY <1>10 DEF CloseHold
  <2>. /\ o \in Orders /\ order[o] # "NONE" /\ proc[p] \in ProcType
       /\ proc[p].at # "ref" => proc[p].to \in OrderStatus
       /\ proc[p].neg = TRUE => policy.everBackorder = TRUE
    BY <2>1, UnderwayKnows
  <2>2. SameRows
    <3>1. hold[o][v] # "NONE"
      BY <1>10 DEF CloseHold, Known, Knows
    <3>2. PICK status \in {"CONSUMED", "RELEASED"} : CloseRow(o, v, status)
      BY <1>10 DEF CloseHold
    <3>3. \A u \in Orders, w \in Variants : hold'[u][w] = IF u = o /\ w = v THEN status ELSE hold[u][w]
      BY <3>2 DEF CloseRow, TypeInv, LifecycleTypeOK, StockTypeOK
    <3>. QED  BY <1>10, <3>1, <3>2, <3>3 DEF CloseHold, CloseRow, SameRows
  <2>3. r = Idle \/ (r.o = o /\ r.at \notin {"idle", "place"} /\ r.to \in OrderStatus
                    /\ (r.neg = TRUE => policy.everBackorder = TRUE)
                    /\ (r.at = "closing" => \A w \in r.todo : hold[o][w] # "NONE" /\ w \in Variants)
                    /\ (r.at \in {"selling", "restoring"} => r.todo \subseteq Lines(o)))
    <3>1. CASE proc[p].todo \ {v} = {}
      BY <1>10, <3>1 DEF CloseHold, AfterClosing, ProcType
    <3>2. CASE proc[p].todo \ {v} # {}
      <4>1. r.at = "closing" /\ r.todo = proc[p].todo \ {v} /\ r.o = o /\ r.to = proc[p].to /\ r.neg = proc[p].neg
        BY <1>10, <3>2 DEF CloseHold, ProcType
      <4>2. \A w \in proc[p].todo : hold[o][w] # "NONE" /\ w \in Variants
        BY <1>10 DEF CloseHold, Known, Knows, ProcType
      <4>. QED  BY <1>10, <4>1, <4>2 DEF CloseHold
    <3>. QED  BY <3>1, <3>2
  <2>4. Knows(r, order', hold', policy'.everBackorder)
    BY <2>2, <2>3, ExistingKnows
  <2>5. Handlers2
    BY <2>1, <2>2, <2>3, <2>4, KnownGoes DEF Idle, Handler
  <2>6. TablesAgree'
    <3>1. UNCHANGED <<ref, shipped, sent, policy>>
      BY <1>10 DEF CloseHold, CloseRow
    <3>. QED  BY <2>2, <3>1, TablesFrame
  <2>. QED  BY <2>5, <2>6 DEF Known
<1>11. ASSUME NEW p \in Procs, ReadSalePolicy(p) PROVE Known'
  <2>. DEFINE o == proc[p].o
              r == IF policy.track /\ Lines(proc[p].o) # {}
                   THEN [proc[p] EXCEPT !.at = "selling", !.todo = Lines(proc[p].o), !.neg = policy.backorder]
                   ELSE Idle
  <2>1. proc[p].at \notin {"idle", "place"} /\ Goes(p, r)
    BY <1>11 DEF ReadSalePolicy
  <2>. /\ o \in Orders /\ order[o] # "NONE" /\ proc[p] \in ProcType
       /\ proc[p].at # "ref" => proc[p].to \in OrderStatus
       /\ proc[p].neg = TRUE => policy.everBackorder = TRUE
    BY <2>1, UnderwayKnows
  <2>2. SameRows
    BY <1>11 DEF ReadSalePolicy, stockVars, SameRows
  <2>3. r = Idle \/ (r.o = o /\ r.at \notin {"idle", "place"} /\ r.to \in OrderStatus
                    /\ (r.neg = TRUE => policy.everBackorder = TRUE)
                    /\ (r.at = "closing" => \A w \in r.todo : hold[o][w] # "NONE" /\ w \in Variants)
                    /\ (r.at \in {"selling", "restoring"} => r.todo \subseteq Lines(o)))
    <3>1. policy.backorder = TRUE => policy.everBackorder = TRUE
      BY DEF Known, TablesAgree
    <3>. QED  BY <1>11, <3>1 DEF ReadSalePolicy, ProcType
  <2>4. Knows(r, order', hold', policy'.everBackorder)
    BY <2>2, <2>3, ExistingKnows
  <2>5. Handlers2
    BY <2>1, <2>2, <2>3, <2>4, KnownGoes DEF Idle, Handler
  <2>6. TablesAgree'
    BY <1>11, <2>2, TablesFrame DEF ReadSalePolicy, stockVars
  <2>. QED  BY <2>5, <2>6 DEF Known
<1>12. ASSUME NEW p \in Procs, NEW v \in Variants, SellLine(p, v) PROVE Known'
  <2>. DEFINE o == proc[p].o
              r == IF proc[p].todo \ {v} = {} THEN Idle ELSE [proc[p] EXCEPT !.todo = proc[p].todo \ {v}]
  <2>1. proc[p].at \notin {"idle", "place"} /\ Goes(p, r)
    BY <1>12 DEF SellLine
  <2>. /\ o \in Orders /\ order[o] # "NONE" /\ proc[p] \in ProcType
       /\ proc[p].at # "ref" => proc[p].to \in OrderStatus
       /\ proc[p].neg = TRUE => policy.everBackorder = TRUE
    BY <2>1, UnderwayKnows
  <2>2. SameRows
    BY <1>12 DEF SellLine, Move, MoveTo, SameRows
  <2>3. r = Idle \/ (r.o = o /\ r.at \notin {"idle", "place"} /\ r.to \in OrderStatus
                    /\ (r.neg = TRUE => policy.everBackorder = TRUE)
                    /\ (r.at = "closing" => \A w \in r.todo : hold[o][w] # "NONE" /\ w \in Variants)
                    /\ (r.at \in {"selling", "restoring"} => r.todo \subseteq Lines(o)))
    <3>1. proc[p].todo \subseteq Lines(o)
      BY <1>12 DEF SellLine, Known, Knows
    <3>2. proc[p].at = "selling"
      BY <1>12 DEF SellLine
    <3>. QED  BY <3>1, <3>2 DEF ProcType
  <2>4. Knows(r, order', hold', policy'.everBackorder)
    BY <2>2, <2>3, ExistingKnows
  <2>5. Handlers2
    BY <2>1, <2>2, <2>3, <2>4, KnownGoes DEF Idle, Handler
  <2>6. TablesAgree'
    <3>1. UNCHANGED <<ref, shipped, sent, policy>>
      BY <1>12 DEF SellLine, Move, MoveTo
    <3>. QED  BY <2>2, <3>1, TablesFrame
  <2>. QED  BY <2>5, <2>6 DEF Known
<1>13. ASSUME NEW p \in Procs, ReadRestorePolicy(p) PROVE Known'
  <2>. DEFINE o == proc[p].o
              r == IF policy.track /\ Lines(proc[p].o) # {}
                   THEN [proc[p] EXCEPT !.at = "restoring", !.todo = Lines(proc[p].o)]
                   ELSE Idle
  <2>1. proc[p].at \notin {"idle", "place"} /\ Goes(p, r)
    BY <1>13 DEF ReadRestorePolicy
  <2>. /\ o \in Orders /\ order[o] # "NONE" /\ proc[p] \in ProcType
       /\ proc[p].at # "ref" => proc[p].to \in OrderStatus
       /\ proc[p].neg = TRUE => policy.everBackorder = TRUE
    BY <2>1, UnderwayKnows
  <2>2. SameRows
    BY <1>13 DEF ReadRestorePolicy, stockVars, SameRows
  <2>3. r = Idle \/ (r.o = o /\ r.at \notin {"idle", "place"} /\ r.to \in OrderStatus
                    /\ (r.neg = TRUE => policy.everBackorder = TRUE)
                    /\ (r.at = "closing" => \A w \in r.todo : hold[o][w] # "NONE" /\ w \in Variants)
                    /\ (r.at \in {"selling", "restoring"} => r.todo \subseteq Lines(o)))
    BY <1>13 DEF ReadRestorePolicy, ProcType
  <2>4. Knows(r, order', hold', policy'.everBackorder)
    BY <2>2, <2>3, ExistingKnows
  <2>5. Handlers2
    BY <2>1, <2>2, <2>3, <2>4, KnownGoes DEF Idle, Handler
  <2>6. TablesAgree'
    BY <1>13, <2>2, TablesFrame DEF ReadRestorePolicy, stockVars
  <2>. QED  BY <2>5, <2>6 DEF Known
<1>14. ASSUME NEW p \in Procs, NEW v \in Variants, PutBack(p, v) PROVE Known'
  <2>. DEFINE o == proc[p].o
              r == IF proc[p].todo \ {v} = {} THEN Idle ELSE [proc[p] EXCEPT !.todo = proc[p].todo \ {v}]
  <2>1. proc[p].at \notin {"idle", "place"} /\ Goes(p, r)
    BY <1>14 DEF PutBack
  <2>. /\ o \in Orders /\ order[o] # "NONE" /\ proc[p] \in ProcType
       /\ proc[p].at # "ref" => proc[p].to \in OrderStatus
       /\ proc[p].neg = TRUE => policy.everBackorder = TRUE
    BY <2>1, UnderwayKnows
  <2>2. SameRows
    BY <1>14 DEF PutBack, Move, MoveTo, SameRows
  <2>3. r = Idle \/ (r.o = o /\ r.at \notin {"idle", "place"} /\ r.to \in OrderStatus
                    /\ (r.neg = TRUE => policy.everBackorder = TRUE)
                    /\ (r.at = "closing" => \A w \in r.todo : hold[o][w] # "NONE" /\ w \in Variants)
                    /\ (r.at \in {"selling", "restoring"} => r.todo \subseteq Lines(o)))
    <3>1. proc[p].todo \subseteq Lines(o)
      BY <1>14 DEF PutBack, Known, Knows
    <3>2. proc[p].at = "restoring"
      BY <1>14 DEF PutBack
    <3>. QED  BY <3>1, <3>2 DEF ProcType
  <2>4. Knows(r, order', hold', policy'.everBackorder)
    BY <2>2, <2>3, ExistingKnows
  <2>5. Handlers2
    BY <2>1, <2>2, <2>3, <2>4, KnownGoes DEF Idle, Handler
  <2>6. TablesAgree'
    <3>1. UNCHANGED <<ref, shipped, sent, policy>>
      BY <1>14 DEF PutBack, Move, MoveTo
    <3>. QED  BY <2>2, <3>1, TablesFrame
  <2>. QED  BY <2>5, <2>6 DEF Known
<1>15. ASSUME NEW p \in Procs, WriteStatus(p) PROVE Known'
  <2>. DEFINE o == proc[p].o
              r == AfterWriting(proc[p])
  <2>1. proc[p].at \notin {"idle", "place"} /\ Goes(p, r)
    BY <1>15 DEF WriteStatus
  <2>. /\ o \in Orders /\ order[o] # "NONE" /\ proc[p] \in ProcType
       /\ proc[p].at # "ref" => proc[p].to \in OrderStatus
       /\ proc[p].neg = TRUE => policy.everBackorder = TRUE
    BY <2>1, UnderwayKnows
  <2>2. SameRows
    BY <1>15 DEF WriteStatus, stockVars, SameRows, OrderStatus, TypeInv, LifecycleTypeOK
  <2>3. r = Idle \/ (r.o = o /\ r.at \notin {"idle", "place"} /\ r.to \in OrderStatus
                    /\ (r.neg = TRUE => policy.everBackorder = TRUE)
                    /\ (r.at = "closing" => \A w \in r.todo : hold[o][w] # "NONE" /\ w \in Variants)
                    /\ (r.at \in {"selling", "restoring"} => r.todo \subseteq Lines(o)))
    BY <1>15 DEF WriteStatus, AfterWriting, ProcType
  <2>4. Knows(r, order', hold', policy'.everBackorder)
    BY <2>2, <2>3, ExistingKnows
  <2>5. Handlers2
    BY <2>1, <2>2, <2>3, <2>4, KnownGoes DEF Idle, Handler
  <2>6. TablesAgree'
    BY <1>15, <2>2, TablesFrame DEF WriteStatus, stockVars
  <2>. QED  BY <2>5, <2>6 DEF Known
<1>16. ASSUME NEW h \in Handlers, NEW o \in Orders, NEW s \in OrderStatus, BeginUpdate(h, o, s) PROVE Known'
  <2>. DEFINE r == Handler("set", "update", o, order[o], s)
  <2>1. h \in Procs /\ Goes(h, r) /\ SameRows
    BY <1>16 DEF BeginUpdate, Procs, stockVars, SameRows
  <2>2. order[o] # "NONE"
    BY <1>16 DEF BeginUpdate
  <2>3. r = Idle \/ (r.o = o /\ r.at \notin {"idle", "place", "closing", "selling", "restoring"}
                    /\ r.to \in OrderStatus /\ r.neg = FALSE)
    BY <1>16 DEF Handler
  <2>4. Knows(r, order', hold', policy'.everBackorder)
    BY <2>1, <2>2, <2>3, ExistingKnows
  <2>5. Handlers2
    BY <2>1, <2>2, <2>3, <2>4, KnownGoes DEF Idle, Handler
  <2>6. TablesAgree'
    BY <1>16, <2>1, TablesFrame DEF BeginUpdate, stockVars
  <2>. QED  BY <2>5, <2>6 DEF Known
<1>17. ASSUME NEW h \in Handlers, NEW o \in Orders, BeginCancel(h, o) PROVE Known'
  <2>. DEFINE r == Handler(IF order[o] = "PAID" /\ payment[o] = "CAPTURED" THEN "refund" ELSE "set",
                           "cancel", o, order[o], "CANCELLED")
  <2>1. h \in Procs /\ Goes(h, r) /\ SameRows
    BY <1>17 DEF BeginCancel, Procs, stockVars, SameRows
  <2>2. order[o] # "NONE"
    BY <1>17 DEF BeginCancel
  <2>3. r = Idle \/ (r.o = o /\ r.at \notin {"idle", "place", "closing", "selling", "restoring"}
                    /\ r.to \in OrderStatus /\ r.neg = FALSE)
    BY <1>17 DEF Handler, OrderStatus
  <2>4. Knows(r, order', hold', policy'.everBackorder)
    BY <2>1, <2>2, <2>3, ExistingKnows
  <2>5. Handlers2
    BY <2>1, <2>2, <2>3, <2>4, KnownGoes DEF Idle, Handler
  <2>6. TablesAgree'
    BY <1>17, <2>1, TablesFrame DEF BeginCancel, stockVars
  <2>. QED  BY <2>5, <2>6 DEF Known
<1>18. ASSUME NEW p \in Procs, CallRefund(p) PROVE Known'
  <2>. DEFINE o == proc[p].o
              r == IF payment[proc[p].o] = "CAPTURED" THEN [proc[p] EXCEPT !.at = "refundPayment"] ELSE Idle
  <2>1. proc[p].at \notin {"idle", "place"} /\ Goes(p, r)
    BY <1>18 DEF CallRefund
  <2>. /\ o \in Orders /\ order[o] # "NONE" /\ proc[p] \in ProcType
       /\ proc[p].at # "ref" => proc[p].to \in OrderStatus
       /\ proc[p].neg = TRUE => policy.everBackorder = TRUE
    BY <2>1, UnderwayKnows
  <2>2. SameRows
    BY <1>18 DEF CallRefund, stockVars, SameRows
  <2>3. r = Idle \/ (r.o = o /\ r.at \notin {"idle", "place"} /\ r.to \in OrderStatus
                    /\ (r.neg = TRUE => policy.everBackorder = TRUE)
                    /\ (r.at = "closing" => \A w \in r.todo : hold[o][w] # "NONE" /\ w \in Variants)
                    /\ (r.at \in {"selling", "restoring"} => r.todo \subseteq Lines(o)))
    BY <1>18 DEF CallRefund, ProcType
  <2>4. Knows(r, order', hold', policy'.everBackorder)
    BY <2>2, <2>3, ExistingKnows
  <2>5. Handlers2
    BY <2>1, <2>2, <2>3, <2>4, KnownGoes DEF Idle, Handler
  <2>6. TablesAgree'
    BY <1>18, <2>2, TablesFrame DEF CallRefund, stockVars
  <2>. QED  BY <2>5, <2>6 DEF Known
<1>19. ASSUME NEW p \in Procs, RecordRefund(p) PROVE Known'
  <2>. DEFINE o == proc[p].o
  <2>1. proc[p].at \notin {"idle", "place", "ref"}
    BY <1>19 DEF RecordRefund
  <2>2. /\ o \in Orders /\ order[o] # "NONE" /\ proc[p] \in ProcType /\ proc[p].to \in OrderStatus
        /\ proc[p].neg = TRUE => policy.everBackorder = TRUE
    BY <2>1, UnderwayKnows
  <2>3. SameRows
    BY <1>19, <2>2 DEF RecordRefund, stockVars, SameRows, TypeInv, LifecycleTypeOK
  <2>4. ASSUME NEW at \in {"refundOrder", "set"}, Goes(p, [proc[p] EXCEPT !.at = at]) PROVE Handlers2
    <3>. DEFINE r == [proc[p] EXCEPT !.at = at]
    <3>1. r.o = o /\ r.at = at /\ r.to = proc[p].to /\ r.neg = proc[p].neg
      BY <2>2 DEF ProcType
    <3>2. Knows(r, order', hold', policy'.everBackorder)
      BY <2>2, <2>3, <3>1 DEF Knows, SameRows
    <3>. QED  BY <2>2, <2>3, <2>4, <3>1, <3>2, KnownGoes
  <2>5. Handlers2
    BY <1>19, <2>4 DEF RecordRefund
  <2>6. TablesAgree'
    BY <1>19, <2>3, TablesFrame DEF RecordRefund, stockVars
  <2>. QED  BY <2>5, <2>6 DEF Known
<1>20. ASSUME NEW h \in Handlers, NEW o \in Orders, BeginShipment(h, o) PROVE Known'
  <2>. DEFINE r == Handler("ship", "ship", o, "NONE", "FULFILLED")
  <2>1. h \in Procs /\ Goes(h, r) /\ SameRows
    BY <1>20 DEF BeginShipment, Procs, stockVars, SameRows
  <2>2. order[o] # "NONE"
    BY <1>20 DEF BeginShipment
  <2>3. r = Idle \/ (r.o = o /\ r.at \notin {"idle", "place", "closing", "selling", "restoring"}
                    /\ r.to \in OrderStatus /\ r.neg = FALSE)
    BY <1>20 DEF Handler, OrderStatus
  <2>4. Knows(r, order', hold', policy'.everBackorder)
    BY <2>1, <2>2, <2>3, ExistingKnows
  <2>5. Handlers2
    BY <2>1, <2>2, <2>3, <2>4, KnownGoes DEF Idle, Handler
  <2>6. TablesAgree'
    BY <1>20, <2>1, TablesFrame DEF BeginShipment, stockVars
  <2>. QED  BY <2>5, <2>6 DEF Known
<1>21. ASSUME NEW p \in Procs, CreateShipment(p) PROVE Known'
  <2>. DEFINE o == proc[p].o
              r == IF shipped[proc[p].o] THEN Idle ELSE [proc[p] EXCEPT !.at = "set"]
  <2>1. proc[p].at \notin {"idle", "place"} /\ Goes(p, r)
    BY <1>21 DEF CreateShipment
  <2>. /\ o \in Orders /\ order[o] # "NONE" /\ proc[p] \in ProcType
       /\ proc[p].at # "ref" => proc[p].to \in OrderStatus
       /\ proc[p].neg = TRUE => policy.everBackorder = TRUE
    BY <2>1, UnderwayKnows
  <2>2. SameRows
    BY <1>21 DEF CreateShipment, stockVars, SameRows
  <2>3. r = Idle \/ (r.o = o /\ r.at \notin {"idle", "place"} /\ r.to \in OrderStatus
                    /\ (r.neg = TRUE => policy.everBackorder = TRUE)
                    /\ (r.at = "closing" => \A w \in r.todo : hold[o][w] # "NONE" /\ w \in Variants)
                    /\ (r.at \in {"selling", "restoring"} => r.todo \subseteq Lines(o)))
    BY <1>21 DEF CreateShipment, ProcType
  <2>4. Knows(r, order', hold', policy'.everBackorder)
    BY <2>2, <2>3, ExistingKnows
  <2>5. Handlers2
    BY <2>1, <2>2, <2>3, <2>4, KnownGoes DEF Idle, Handler
  <2>6. TablesAgree'
    BY <1>21 DEF CreateShipment, stockVars, Known, TablesAgree, NoRows, TypeInv, LifecycleTypeOK
  <2>. QED  BY <2>5, <2>6 DEF Known
<1>22. ASSUME NEW h \in Handlers, NEW o \in Orders, Delivered(h, o) PROVE Known'
  <2>. DEFINE r == Handler("set", "ship", o, "NONE", "FULFILLED")
  <2>1. h \in Procs /\ Goes(h, r) /\ SameRows
    BY <1>22 DEF Delivered, Procs, stockVars, SameRows
  <2>2. order[o] # "NONE"
    BY <1>22 DEF Delivered, Known, TablesAgree
  <2>3. r = Idle \/ (r.o = o /\ r.at \notin {"idle", "place", "closing", "selling", "restoring"}
                    /\ r.to \in OrderStatus /\ r.neg = FALSE)
    BY <1>22 DEF Handler, OrderStatus
  <2>4. Knows(r, order', hold', policy'.everBackorder)
    BY <2>1, <2>2, <2>3, ExistingKnows
  <2>5. Handlers2
    BY <2>1, <2>2, <2>3, <2>4, KnownGoes DEF Idle, Handler
  <2>6. TablesAgree'
    BY <1>22, <2>1, TablesFrame DEF Delivered, stockVars
  <2>. QED  BY <2>5, <2>6 DEF Known
<1>23. ASSUME NEW o \in Orders, HoldsAge(o) PROVE Known'
  <2>1. SameRows /\ UNCHANGED proc
    BY <1>23 DEF HoldsAge, stockVars, SameRows
  <2>2. TablesAgree'
    BY <1>23, <2>1, TablesFrame DEF HoldsAge, stockVars
  <2>. QED  BY <2>1, <2>2, KnownStays DEF Known
<1>24. ASSUME NEW w \in Workers, ScanStale(w) PROVE Known'
  <2>1. SameRows /\ UNCHANGED proc
    BY <1>24 DEF ScanStale, stockVars, SameRows
  <2>2. TablesAgree'
    BY <1>24, <2>1, TablesFrame DEF ScanStale, stockVars
  <2>. QED  BY <2>1, <2>2, KnownStays DEF Known
<1>25. ASSUME NEW w \in Workers, NEW o \in Orders, VisitStale(w, o) PROVE Known'
  <2>. DEFINE r == IF VisitPending(order[o]) THEN Handler("close", "expire", o, "PENDING", "CANCELLED") ELSE Idle
  <2>1. w \in Procs /\ Goes(w, r) /\ SameRows
    BY <1>25 DEF VisitStale, Procs, stockVars, SameRows
  <2>3. r = Idle \/ (order[o] # "NONE" /\ r.o = o /\ r.at \notin {"idle", "place", "closing", "selling", "restoring"}
                    /\ r.to \in OrderStatus /\ r.neg = FALSE)
    BY <1>25 DEF VisitPending, Handler, OrderStatus
  <2>4. Knows(r, order', hold', policy'.everBackorder)
    <3>1. CASE r = Idle
      BY <3>1, IdleKnows
    <3>2. CASE r # Idle
      BY <2>1, <2>3, <3>2, ExistingKnows
    <3>. QED  BY <3>1, <3>2
  <2>5. Handlers2
    BY <2>1, <2>3, <2>4, KnownGoes DEF Idle, Handler
  <2>6. TablesAgree'
    BY <1>25, <2>1, TablesFrame DEF VisitStale, stockVars
  <2>. QED  BY <2>5, <2>6 DEF Known
<1>26. CASE CorrectStock
  <2>1. CASE UNCHANGED policy
    <3>1. SameRows /\ UNCHANGED <<proc, ref, shipped, sent, policy>>
      BY <1>26, <2>1 DEF CorrectStock, Corrections, Adjust, SetInventory, Receive, Move, MoveTo, SetPolicy, SameRows
    <3>. QED  BY <3>1, TablesFrame, KnownStays DEF Known
  <2>2. ASSUME NEW track \in BOOLEAN, NEW backorder \in BOOLEAN, SetPolicy(track, backorder) PROVE Known'
    <3>1. UNCHANGED <<proc, ref, shipped, sent, order, hold>>
      BY <1>26, <2>2 DEF CorrectStock, SetPolicy
    <3>2. policy'.backorder = backorder /\ policy'.everBackorder = (policy.everBackorder \/ backorder)
      BY <2>2 DEF SetPolicy
    <3>3. policy.everBackorder \in BOOLEAN
      BY DEF TypeInv, LifecycleTypeOK, StockTypeOK
    <3>4. SameRows
      BY <3>1, <3>2, <3>3 DEF SameRows
    <3>5. TablesAgree'
      BY <3>1, <3>2, <3>3 DEF Known, TablesAgree, NoRows
    <3>. QED  BY <3>1, <3>4, <3>5, KnownStays DEF Known
  <2>. QED  BY <1>26, <2>1, <2>2 DEF CorrectStock, Corrections, Adjust, SetInventory, Receive, Move, MoveTo
<1>27. ASSUME NEW p \in Procs, Crash(p) PROVE Known'
  <2>1. Goes(p, Idle) /\ SameRows
    BY <1>27 DEF Crash, Finishes, stockVars, SameRows
  <2>2. Handlers2
    BY <2>1, IdleKnows, KnownGoes DEF Idle, Handler
  <2>3. TablesAgree'
    BY <1>27, <2>1, TablesFrame DEF Crash, stockVars
  <2>. QED  BY <2>2, <2>3 DEF Known
<1>28. ASSUME NEW p \in Procs, StockCallFails(p) PROVE Known'
  <2>. DEFINE o == proc[p].o
              r == IF Capturing(proc[p]) /\ proc[p].at \in {"close", "closing"} THEN AfterClosing(proc[p]) ELSE Idle
  <2>1. proc[p].at \notin {"idle", "place"} /\ Goes(p, r)
    BY <1>28 DEF StockCallFails
  <2>. /\ o \in Orders /\ order[o] # "NONE" /\ proc[p] \in ProcType
       /\ proc[p].at # "ref" => proc[p].to \in OrderStatus
       /\ proc[p].neg = TRUE => policy.everBackorder = TRUE
    BY <2>1, UnderwayKnows
  <2>2. SameRows
    BY <1>28 DEF StockCallFails, stockVars, SameRows
  <2>3. r = Idle \/ (r.o = o /\ r.at \notin {"idle", "place"} /\ r.to \in OrderStatus
                    /\ (r.neg = TRUE => policy.everBackorder = TRUE)
                    /\ (r.at = "closing" => \A w \in r.todo : hold[o][w] # "NONE" /\ w \in Variants)
                    /\ (r.at \in {"selling", "restoring"} => r.todo \subseteq Lines(o)))
    BY <1>28 DEF StockCallFails, AfterClosing, ProcType
  <2>4. Knows(r, order', hold', policy'.everBackorder)
    BY <2>2, <2>3, ExistingKnows
  <2>5. Handlers2
    BY <2>1, <2>2, <2>3, <2>4, KnownGoes DEF Idle, Handler
  <2>6. TablesAgree'
    BY <1>28, <2>2, TablesFrame DEF StockCallFails, stockVars
  <2>. QED  BY <2>5, <2>6 DEF Known
<1>. QED  BY <1>0, <1>1, <1>2, <1>3, <1>4, <1>5, <1>6, <1>7, <1>8, <1>9, <1>10, <1>11, <1>12, <1>13,
             <1>14, <1>15, <1>16, <1>17, <1>18, <1>19, <1>20, <1>21, <1>22, <1>23, <1>24, <1>25, <1>26,
             <1>27, <1>28 DEF Next, Begins, Expires, Proceeds

(* Both invariants hold of every behaviour. *)
LEMMA KnownInit == Init => Known
<1>. SUFFICES ASSUME Init PROVE Known
  OBVIOUS
<1>1. \A p \in Procs : proc[p] = Idle
  BY DEF Init
<1>2. PlacesAlone
  BY <1>1 DEF PlacesAlone, Idle, Handler
<1>3. TablesAgree
  BY DEF Init, StockInit, TablesAgree, NoRows
<1>. QED  BY <1>1, <1>2, <1>3, IdleKnows DEF Known

LEMMA TypeInit == Init => TypeInv
<1>. SUFFICES ASSUME Init PROVE TypeInv
  OBVIOUS
<1>1. StockTypeOK
  BY StockInitTyped DEF Init
<1>. QED  BY <1>1, IdleTyped DEF Init, TypeInv, LifecycleTypeOK

(* Type correctness of the lifecycle: the tables and every handler's record. *)
THEOREM TypeCorrect == Spec => []LifecycleTypeOK
<1>1. TypeInv => LifecycleTypeOK
  BY DEF TypeInv
<1>. QED  BY <1>1, TypeInit, TypeStep, PTL DEF Spec

(* What the handlers know is true in every reachable state. *)
THEOREM KnownCorrect == Spec => [](TypeInv /\ Known)
  BY TypeInit, KnownInit, TypeStep, KnownStep, PTL DEF Spec
----------------------------------------------------------------------------
(* Every step of the lifecycle is a transaction of StockLedger, or leaves the
   stock tables alone: no handler, whatever it interleaves with, crashes or
   has swallowed, writes them in a way of its own. *)
LEMMA StockStepOf == TypeInv /\ Known /\ [Next]_vars => [StockNext]_stockVars
<1>. SUFFICES ASSUME TypeInv, Known, [Next]_vars PROVE StockNext \/ UNCHANGED stockVars
  OBVIOUS
<1>0. CASE UNCHANGED vars
  BY <1>0 DEF vars
<1>1. ASSUME NEW p \in Procs, PlaceOrder(p) PROVE StockNext \/ UNCHANGED stockVars
  <2>1. CASE ~proc[p].track
    BY <1>1, <2>1 DEF PlaceOrder
  <2>2. CASE proc[p].track
    <3>1. proc[p].o \in Orders /\ proc[p].neg \in BOOLEAN /\ order[proc[p].o] = "NONE"
          /\ (proc[p].neg = TRUE => policy.everBackorder = TRUE)
      BY <1>1, Underway DEF PlaceOrder, Known, Knows
    <3>2. NoRows(proc[p].o) /\ Reserve(proc[p].o, proc[p].neg)
      BY <1>1, <2>2, <3>1 DEF PlaceOrder, Known, TablesAgree
    <3>3. proc[p].neg \in {policy.everBackorder, FALSE}
      BY <3>1
    <3>. QED  BY <3>1, <3>2, <3>3 DEF StockNext
  <2>. QED  BY <2>1, <2>2
<1>2. ASSUME NEW p \in Procs, NEW v \in Variants, CloseHold(p, v) PROVE StockNext
  <2>1. proc[p].o \in Orders /\ hold[proc[p].o][v] # "NONE"
    BY <1>2, Underway DEF CloseHold, Known, Knows
  <2>2. PICK status \in {"CONSUMED", "RELEASED"} : CloseRow(proc[p].o, v, status)
    BY <1>2 DEF CloseHold
  <2>. QED  BY <2>1, <2>2 DEF StockNext
<1>3. ASSUME NEW p \in Procs, NEW v \in Variants, SellLine(p, v) PROVE StockNext
  <2>1. proc[p].o \in Orders /\ proc[p].neg \in BOOLEAN /\ v \in Lines(proc[p].o)
        /\ (proc[p].neg = TRUE => policy.everBackorder = TRUE)
    BY <1>3, Underway DEF SellLine, Known, Knows
  <2>2. Move(v, -Qty[proc[p].o][v], proc[p].neg) /\ proc[p].neg \in ReadableBackorder
    BY <1>3, <2>1 DEF SellLine, ReadableBackorder
  <2>3. SaleLine(proc[p].o, v)
    BY <2>2 DEF SaleLine
  <2>. QED  BY <2>1, <2>3 DEF StockNext
<1>4. ASSUME NEW p \in Procs, NEW v \in Variants, PutBack(p, v) PROVE StockNext
  <2>1. proc[p].o \in Orders /\ v \in Lines(proc[p].o)
    BY <1>4, Underway DEF PutBack, Known, Knows
  <2>2. RestoreLine(proc[p].o, v)
    BY <1>4 DEF PutBack, RestoreLine
  <2>. QED  BY <2>1, <2>2 DEF StockNext
<1>5. CASE CorrectStock
  BY <1>5 DEF CorrectStock, StockNext
<1>6. ASSUME NEW h \in Handlers, Begins(h) PROVE UNCHANGED stockVars
  BY <1>6 DEF Begins, BeginCheckout, HandleWebhook, BeginUpdate, BeginCancel, BeginShipment, Delivered
<1>7. ASSUME NEW w \in Workers, Expires(w) PROVE UNCHANGED stockVars
  BY <1>7 DEF Expires, ScanStale, VisitStale
<1>8. ASSUME NEW p \in Procs,
             \/ RejectOrder(p) \/ StoreRef(p) \/ FlipOrder(p) \/ FlipRefused(p) \/ ListHolds(p)
             \/ ReadSalePolicy(p) \/ ReadRestorePolicy(p) \/ WriteStatus(p) \/ CallRefund(p)
             \/ RecordRefund(p) \/ CreateShipment(p) \/ Crash(p) \/ StockCallFails(p)
      PROVE  UNCHANGED stockVars
  BY <1>8 DEF RejectOrder, StoreRef, FlipOrder, FlipRefused, ListHolds, ReadSalePolicy, ReadRestorePolicy,
              WriteStatus, CallRefund, RecordRefund, CreateShipment, Crash, StockCallFails
<1>9. ASSUME NEW o \in Orders, HoldsAge(o) \/ \E e \in Events : ProviderSends(o, e)
      PROVE  UNCHANGED stockVars
  BY <1>9 DEF HoldsAge, ProviderSends
<1>. QED  BY <1>0, <1>1, <1>2, <1>3, <1>4, <1>5, <1>6, <1>7, <1>8, <1>9 DEF Next, Proceeds

(* The lifecycle implements the stock specification. *)
THEOREM ImplementsStock == Spec => StockSpec
<1>1. Init => StockInit
  BY DEF Init
<1>. QED  BY <1>1, KnownCorrect, StockStepOf, PTL DEF Spec, StockSpec

(* So what StockLedger guarantees holds of the handlers together: the ledger
   explains the stock, and without backorders it is never negative. *)
THEOREM LifecycleLedger == Spec => [](LedgerExplainsStock /\ NeverNegativeWithoutBackorder)
  BY ImplementsStock, LedgerCorrect, NeverNegative, PTL

(* Whatever happens, `reserved` never exceeds what the active reservations hold. *)
THEOREM NeverOverstated == Spec => []ReservedNeverOverstated
  BY ImplementsStock, ReservedWithinHeld, PTL
----------------------------------------------------------------------------
(* How often an order's stock is sold. *)

(* The handlers that still owe order o the sale of line v. *)
Sells(r, o, v) ==
    /\ r.o = o
    /\ \/ Capturing(r) /\ r.at \in {"close", "closing"}
       \/ r.at = "sale"
       \/ r.at = "selling" /\ v \in r.todo

Selling(o, v) == {p \in Procs : Sells(proc[p], o, v)}

(* Nothing makes a handler give up the sale of a line it owes. *)
CalmOps == Ops \cap {"crash", "fault", "stock"} = {}
FlipsAreWebhooks == \A p \in Procs : proc[p].at = "flip" => proc[p].op = "webhook"
Calm(o, v) == CalmOps /\ policy.track = TRUE /\ FlipsAreWebhooks /\ v \in Lines(o)

(* What one step does to the sales of a line: nothing (a handler may give up,
   but not when all is calm), one more capture and one more handler that owes
   the sale, or one handler less and one sale more. *)
Keeps(o, v) ==
    /\ booked'[o][v].sales = booked[o][v].sales /\ captures'[o] = captures[o]
    /\ Selling(o, v)' \subseteq Selling(o, v)
    /\ Calm(o, v) => Selling(o, v) \subseteq Selling(o, v)'
Captures(o, v) ==
    /\ booked'[o][v].sales = booked[o][v].sales /\ captures'[o] = captures[o] + 1
    /\ \E p \in Procs : /\ p \notin Selling(o, v)
                        /\ Selling(o, v)' \subseteq Selling(o, v) \cup {p}
                        /\ Calm(o, v) => Selling(o, v) \cup {p} \subseteq Selling(o, v)'
Sale(o, v) ==
    /\ booked'[o][v].sales = booked[o][v].sales + 1 /\ captures'[o] = captures[o]
    /\ \E p \in Selling(o, v) : Selling(o, v)' = Selling(o, v) \ {p}

Effect(o, v) == Keeps(o, v) \/ Captures(o, v) \/ Sale(o, v)

(* A process moves on: it alone joins or leaves the sellers of a line. *)
LEMMA SellingGoes ==
    ASSUME TypeInv, NEW p \in Procs, NEW r, Goes(p, r), NEW o \in Orders, NEW v \in Variants
    PROVE  /\ Selling(o, v)' = (Selling(o, v) \ {p}) \cup (IF Sells(r, o, v) THEN {p} ELSE {})
           /\ p \in Selling(o, v) <=> Sells(proc[p], o, v)
<1>1. \A q \in Procs : proc'[q] = IF q = p THEN r ELSE proc[q]
  BY DEF Goes, TypeInv, LifecycleTypeOK
<1>2. \A q \in Procs : q \in Selling(o, v)' <=> Sells(proc'[q], o, v)
  BY DEF Selling, Sells, Capturing
<1>3. \A q \in Procs : q \in Selling(o, v) <=> Sells(proc[q], o, v)
  BY DEF Selling
<1>4. Selling(o, v)' \subseteq Procs /\ Selling(o, v) \subseteq Procs
  BY DEF Selling
<1>. QED  BY <1>1, <1>2, <1>3, <1>4

(* Nothing is booked, and the handler owes what it owed before. *)
LEMMA GoesKeeps ==
    ASSUME TypeInv, NEW p \in Procs, NEW r, Goes(p, r), NEW o \in Orders, NEW v \in Variants,
           UNCHANGED <<booked, captures>>,
           Sells(r, o, v) => Sells(proc[p], o, v),
           Calm(o, v) => (Sells(proc[p], o, v) => Sells(r, o, v))
    PROVE  Effect(o, v)
  BY SellingGoes DEF Keeps, Effect

LEMMA StaysKeeps ==
    ASSUME UNCHANGED <<proc, booked, captures>>, NEW o \in Orders, NEW v \in Variants
    PROVE  Effect(o, v)
  BY DEF Effect, Keeps, Selling, Sells, Capturing

(* Steps that neither start nor end the sale of a line. *)
Unsold == Steps \ {"close", "closing", "sale", "selling"}

LEMMA UnsoldKeeps ==
    ASSUME TypeInv, NEW p \in Procs, NEW r, Goes(p, r), NEW o \in Orders, NEW v \in Variants,
           UNCHANGED <<booked, captures>>, proc[p].at \in Unsold,
           r.at \in Unsold \/ (r.at = "close" /\ ~Capturing(r))
    PROVE  Effect(o, v)
<1>1. ~Sells(r, o, v) /\ ~Sells(proc[p], o, v)
  BY DEF Sells, Unsold
<1>. QED  BY <1>1, GoesKeeps

LEMMA IdleUnsold == Idle.at \in Unsold
  BY DEF Idle, Handler, Unsold, Steps

LEMMA IdleSellsNothing == \A o \in Orders, v \in Variants : ~Sells(Idle, o, v)
  BY LifecycleAssumption DEF Idle, Handler, Sells

(* Closing the holds is followed by the sale, for a capture and for no other. *)
LEMMA AfterClosingSells ==
    ASSUME NEW r \in ProcType, r.at \in {"close", "closing"}, NEW o \in Orders, NEW v \in Variants
    PROVE  Sells(AfterClosing(r), o, v) <=> Sells(r, o, v)
<1>1. CASE Capturing(r)
  <2>1. AfterClosing(r).at = "sale" /\ AfterClosing(r).o = r.o
    BY <1>1 DEF AfterClosing, Capturing, ProcType
  <2>. QED  BY <1>1, <2>1 DEF Sells
<1>2. CASE ~Capturing(r)
  <2>1. ~Sells(r, o, v)
    BY <1>2 DEF Sells
  <2>2. AfterClosing(r) = Idle \/ AfterClosing(r).at = "set"
    BY <1>2 DEF AfterClosing, ProcType
  <2>3. ~Sells(AfterClosing(r), o, v)
    BY <2>2, IdleSellsNothing DEF Sells
  <2>. QED  BY <2>1, <2>3
<1>. QED  BY <1>1, <1>2

LEMMA SaleEffect ==
    ASSUME TypeInv, Known, [Next]_vars, NEW o \in Orders, NEW v \in Variants
    PROVE  Effect(o, v)
<1>0. CASE UNCHANGED vars
  BY <1>0, StaysKeeps DEF vars, flowVars
<1>1. ASSUME NEW h \in Handlers, NEW u \in Orders, BeginCheckout(h, u) PROVE Effect(o, v)
  <2>. DEFINE r == [Handler("place", "checkout", u, "NONE", "NONE") EXCEPT
                      !.neg = policy.backorder, !.track = policy.track]
  <2>1. h \in Procs /\ proc[h] = Idle /\ Goes(h, r) /\ UNCHANGED <<booked, captures>>
    BY <1>1 DEF BeginCheckout, Procs
  <2>2. r.at \in Unsold \/ (r.at = "close" /\ ~Capturing(r))
    BY IdleUnsold DEF Handler, Unsold, Steps, Capturing
  <2>. QED  BY <2>1, <2>2, IdleUnsold, UnsoldKeeps
<1>2. ASSUME NEW h \in Handlers, NEW u \in Orders, NEW e \in Events, HandleWebhook(h, u, e) PROVE Effect(o, v)
  <2>. DEFINE r == IF OrderStatusOf(e) = "NONE" THEN Idle ELSE Handler("flip", "webhook", u, "NONE", OrderStatusOf(e))
  <2>1. h \in Procs /\ proc[h] = Idle /\ Goes(h, r) /\ UNCHANGED <<booked, captures>>
    BY <1>2 DEF HandleWebhook, Procs
  <2>2. r.at \in Unsold \/ (r.at = "close" /\ ~Capturing(r))
    BY IdleUnsold DEF Handler, Unsold, Steps, Capturing
  <2>. QED  BY <2>1, <2>2, IdleUnsold, UnsoldKeeps
<1>3. ASSUME NEW h \in Handlers, NEW u \in Orders, NEW to \in OrderStatus, BeginUpdate(h, u, to) PROVE Effect(o, v)
  <2>. DEFINE r == Handler("set", "update", u, order[u], to)
  <2>1. h \in Procs /\ proc[h] = Idle /\ Goes(h, r) /\ UNCHANGED <<booked, captures>>
    BY <1>3 DEF BeginUpdate, Procs
  <2>2. r.at \in Unsold \/ (r.at = "close" /\ ~Capturing(r))
    BY IdleUnsold DEF Handler, Unsold, Steps, Capturing
  <2>. QED  BY <2>1, <2>2, IdleUnsold, UnsoldKeeps
<1>4. ASSUME NEW h \in Handlers, NEW u \in Orders, BeginCancel(h, u) PROVE Effect(o, v)
  <2>. DEFINE r == Handler(IF order[u] = "PAID" /\ payment[u] = "CAPTURED" THEN "refund" ELSE "set",
                           "cancel", u, order[u], "CANCELLED")
  <2>1. h \in Procs /\ proc[h] = Idle /\ Goes(h, r) /\ UNCHANGED <<booked, captures>>
    BY <1>4 DEF BeginCancel, Procs
  <2>2. r.at \in Unsold \/ (r.at = "close" /\ ~Capturing(r))
    BY IdleUnsold DEF Handler, Unsold, Steps, Capturing
  <2>. QED  BY <2>1, <2>2, IdleUnsold, UnsoldKeeps
<1>5. ASSUME NEW h \in Handlers, NEW u \in Orders, BeginShipment(h, u) PROVE Effect(o, v)
  <2>. DEFINE r == Handler("ship", "ship", u, "NONE", "FULFILLED")
  <2>1. h \in Procs /\ proc[h] = Idle /\ Goes(h, r) /\ UNCHANGED <<booked, captures>>
    BY <1>5 DEF BeginShipment, Procs
  <2>2. r.at \in Unsold \/ (r.at = "close" /\ ~Capturing(r))
    BY IdleUnsold DEF Handler, Unsold, Steps, Capturing
  <2>. QED  BY <2>1, <2>2, IdleUnsold, UnsoldKeeps
<1>6. ASSUME NEW h \in Handlers, NEW u \in Orders, Delivered(h, u) PROVE Effect(o, v)
  <2>. DEFINE r == Handler("set", "ship", u, "NONE", "FULFILLED")
  <2>1. h \in Procs /\ proc[h] = Idle /\ Goes(h, r) /\ UNCHANGED <<booked, captures>>
    BY <1>6 DEF Delivered, Procs
  <2>2. r.at \in Unsold \/ (r.at = "close" /\ ~Capturing(r))
    BY IdleUnsold DEF Handler, Unsold, Steps, Capturing
  <2>. QED  BY <2>1, <2>2, IdleUnsold, UnsoldKeeps
<1>7. ASSUME NEW w \in Workers, NEW u \in Orders, VisitStale(w, u) PROVE Effect(o, v)
  <2>. DEFINE r == IF VisitPending(order[u]) THEN Handler("close", "expire", u, "PENDING", "CANCELLED") ELSE Idle
  <2>1. w \in Procs /\ proc[w] = Idle /\ Goes(w, r) /\ UNCHANGED <<booked, captures>>
    BY <1>7 DEF VisitStale, Procs
  <2>2. r.at \in Unsold \/ (r.at = "close" /\ ~Capturing(r))
    BY IdleUnsold DEF Handler, Unsold, Steps, Capturing
  <2>. QED  BY <2>1, <2>2, IdleUnsold, UnsoldKeeps
<1>8. ASSUME NEW p \in Procs, PlaceOrder(p) PROVE Effect(o, v)
  <2>. DEFINE r == [proc[p] EXCEPT !.at = "ref"]
  <2>1. Goes(p, r) /\ UNCHANGED <<booked, captures>> /\ proc[p].at \in Unsold /\ proc[p] \in ProcType
    BY <1>8 DEF PlaceOrder, Finishes, CountChecked, Unsold, Steps, TypeInv, LifecycleTypeOK
  <2>2. r.at \in Unsold \/ (r.at = "close" /\ ~Capturing(r))
    BY <1>8, <2>1, IdleUnsold DEF ProcType, Unsold, Steps, Capturing
  <2>. QED  BY <2>1, <2>2, UnsoldKeeps
<1>9. ASSUME NEW p \in Procs, RejectOrder(p) PROVE Effect(o, v)
  <2>. DEFINE r == Idle
  <2>1. Goes(p, r) /\ UNCHANGED <<booked, captures>> /\ proc[p].at \in Unsold /\ proc[p] \in ProcType
    BY <1>9 DEF RejectOrder, Finishes, CountChecked, Unsold, Steps, TypeInv, LifecycleTypeOK
  <2>2. r.at \in Unsold \/ (r.at = "close" /\ ~Capturing(r))
    BY <1>9, <2>1, IdleUnsold DEF ProcType, Unsold, Steps, Capturing
  <2>. QED  BY <2>1, <2>2, UnsoldKeeps
<1>10. ASSUME NEW p \in Procs, StoreRef(p) PROVE Effect(o, v)
  <2>. DEFINE r == Idle
  <2>1. Goes(p, r) /\ UNCHANGED <<booked, captures>> /\ proc[p].at \in Unsold /\ proc[p] \in ProcType
    BY <1>10 DEF StoreRef, Finishes, CountChecked, Unsold, Steps, TypeInv, LifecycleTypeOK
  <2>2. r.at \in Unsold \/ (r.at = "close" /\ ~Capturing(r))
    BY <1>10, <2>1, IdleUnsold DEF ProcType, Unsold, Steps, Capturing
  <2>. QED  BY <2>1, <2>2, UnsoldKeeps
<1>11. ASSUME NEW p \in Procs, FlipRefused(p) PROVE Effect(o, v)
  <2>. DEFINE r == Idle
  <2>1. Goes(p, r) /\ UNCHANGED <<booked, captures>> /\ proc[p].at \in Unsold /\ proc[p] \in ProcType
    BY <1>11 DEF FlipRefused, Finishes, CountChecked, Unsold, Steps, TypeInv, LifecycleTypeOK
  <2>2. r.at \in Unsold \/ (r.at = "close" /\ ~Capturing(r))
    BY <1>11, <2>1, IdleUnsold DEF ProcType, Unsold, Steps, Capturing
  <2>. QED  BY <2>1, <2>2, UnsoldKeeps
<1>12. ASSUME NEW p \in Procs, ReadRestorePolicy(p) PROVE Effect(o, v)
  <2>. DEFINE r == IF policy.track /\ Lines(proc[p].o) # {}
                   THEN [proc[p] EXCEPT !.at = "restoring", !.todo = Lines(proc[p].o)] ELSE Idle
  <2>1. Goes(p, r) /\ UNCHANGED <<booked, captures>> /\ proc[p].at \in Unsold /\ proc[p] \in ProcType
    BY <1>12 DEF ReadRestorePolicy, Finishes, CountChecked, Unsold, Steps, TypeInv, LifecycleTypeOK
  <2>2. r.at \in Unsold \/ (r.at = "close" /\ ~Capturing(r))
    BY <1>12, <2>1, IdleUnsold DEF ProcType, Unsold, Steps, Capturing
  <2>. QED  BY <2>1, <2>2, UnsoldKeeps
<1>13. ASSUME NEW p \in Procs, WriteStatus(p) PROVE Effect(o, v)
  <2>. DEFINE r == AfterWriting(proc[p])
  <2>1. Goes(p, r) /\ UNCHANGED <<booked, captures>> /\ proc[p].at \in Unsold /\ proc[p] \in ProcType
    BY <1>13 DEF WriteStatus, Finishes, CountChecked, Unsold, Steps, TypeInv, LifecycleTypeOK
  <2>2. r.at \in Unsold \/ (r.at = "close" /\ ~Capturing(r))
    BY <1>13, <2>1, IdleUnsold DEF ProcType, Unsold, Steps, Capturing, AfterWriting, Reversing
  <2>. QED  BY <2>1, <2>2, UnsoldKeeps
<1>14. ASSUME NEW p \in Procs, CallRefund(p) PROVE Effect(o, v)
  <2>. DEFINE r == IF payment[proc[p].o] = "CAPTURED" THEN [proc[p] EXCEPT !.at = "refundPayment"] ELSE Idle
  <2>1. Goes(p, r) /\ UNCHANGED <<booked, captures>> /\ proc[p].at \in Unsold /\ proc[p] \in ProcType
    BY <1>14 DEF CallRefund, Finishes, CountChecked, Unsold, Steps, TypeInv, LifecycleTypeOK
  <2>2. r.at \in Unsold \/ (r.at = "close" /\ ~Capturing(r))
    BY <1>14, <2>1, IdleUnsold DEF ProcType, Unsold, Steps, Capturing
  <2>. QED  BY <2>1, <2>2, UnsoldKeeps
<1>15. ASSUME NEW p \in Procs, CreateShipment(p) PROVE Effect(o, v)
  <2>. DEFINE r == IF shipped[proc[p].o] THEN Idle ELSE [proc[p] EXCEPT !.at = "set"]
  <2>1. Goes(p, r) /\ UNCHANGED <<booked, captures>> /\ proc[p].at \in Unsold /\ proc[p] \in ProcType
    BY <1>15 DEF CreateShipment, Finishes, CountChecked, Unsold, Steps, TypeInv, LifecycleTypeOK
  <2>2. r.at \in Unsold \/ (r.at = "close" /\ ~Capturing(r))
    BY <1>15, <2>1, IdleUnsold DEF ProcType, Unsold, Steps, Capturing
  <2>. QED  BY <2>1, <2>2, UnsoldKeeps
<1>16. ASSUME NEW p \in Procs, RecordRefund(p) PROVE Effect(o, v)
  <2>1. PICK at \in {"refundOrder", "set"} : Goes(p, [proc[p] EXCEPT !.at = at])
    BY <1>16 DEF RecordRefund
  <2>2. UNCHANGED <<booked, captures>> /\ proc[p].at \in Unsold /\ proc[p] \in ProcType
    BY <1>16 DEF RecordRefund, Unsold, Steps, TypeInv, LifecycleTypeOK
  <2>3. [proc[p] EXCEPT !.at = at].at \in Unsold
    BY <2>2 DEF ProcType, Unsold, Steps
  <2>. QED  BY <2>1, <2>2, <2>3, UnsoldKeeps
<1>17. ASSUME NEW p \in Procs, NEW w \in Variants, PutBack(p, w) PROVE Effect(o, v)
  <2>. DEFINE r == IF proc[p].todo \ {w} = {} THEN Idle ELSE [proc[p] EXCEPT !.todo = proc[p].todo \ {w}]
  <2>1. Goes(p, r) /\ UNCHANGED captures /\ proc[p].at = "restoring" /\ proc[p] \in ProcType
    BY <1>17 DEF PutBack, TypeInv, LifecycleTypeOK
  <2>2. booked'[o][v].sales = booked[o][v].sales
    <3>1. booked' = [booked EXCEPT ![proc[p].o][w].cancels = @ + 1]
      BY <1>17 DEF PutBack
    <3>. QED  BY <3>1 DEF TypeInv, LifecycleTypeOK
  <2>3. r.at \in {"idle", "restoring"}
    BY <2>1 DEF ProcType, Idle, Handler
  <2>4. ~Sells(r, o, v) /\ ~Sells(proc[p], o, v)
    BY <2>1, <2>3 DEF Sells
  <2>. QED  BY <2>1, <2>2, <2>4, SellingGoes DEF Effect, Keeps
<1>18. ASSUME NEW p \in Procs, FlipOrder(p) PROVE Effect(o, v)
  <2>. DEFINE r == IF proc[p].to = "REFUNDED" THEN Idle ELSE [proc[p] EXCEPT !.at = "close"]
  <2>1. Goes(p, r) /\ UNCHANGED booked /\ proc[p].at = "flip" /\ proc[p] \in ProcType
        /\ captures' = IF proc[p].to = "PAID" THEN [captures EXCEPT ![proc[p].o] = @ + 1] ELSE captures
    BY <1>18 DEF FlipOrder, TypeInv, LifecycleTypeOK
  <2>2. ~Sells(proc[p], o, v)
    BY <2>1 DEF Sells
  <2>3. CASE proc[p].to = "PAID" /\ proc[p].o = o
    <3>1. r.at = "close" /\ r.o = o /\ r.to = "PAID" /\ r.op = proc[p].op
      BY <2>1, <2>3 DEF ProcType
    <3>2. Calm(o, v) => Sells(r, o, v)
      BY <2>1, <3>1 DEF Calm, FlipsAreWebhooks, Sells, Capturing
    <3>3. p \notin Selling(o, v) /\ Selling(o, v)' \subseteq Selling(o, v) \cup {p}
          /\ (Sells(r, o, v) => Selling(o, v)' = Selling(o, v) \cup {p})
      BY <2>1, <2>2, SellingGoes
    <3>4. captures'[o] = captures[o] + 1
      BY <2>1, <2>3 DEF TypeInv, LifecycleTypeOK
    <3>. QED  BY <2>1, <3>2, <3>3, <3>4 DEF Effect, Captures
  <2>4. CASE ~(proc[p].to = "PAID" /\ proc[p].o = o)
    <3>1. captures'[o] = captures[o]
      BY <2>1, <2>4 DEF TypeInv, LifecycleTypeOK
    <3>2. ~Sells(r, o, v)
      BY <2>1, <2>4, LifecycleAssumption DEF Sells, Capturing, ProcType, Idle, Handler
    <3>. QED  BY <2>1, <2>2, <3>1, <3>2, SellingGoes DEF Effect, Keeps
  <2>. QED  BY <2>3, <2>4
<1>19. ASSUME NEW p \in Procs, ListHolds(p) PROVE Effect(o, v)
  <2>. DEFINE r == IF ActiveLines(proc[p].o) = {} THEN AfterClosing(proc[p])
                   ELSE [proc[p] EXCEPT !.at = "closing", !.todo = ActiveLines(proc[p].o)]
  <2>1. Goes(p, r) /\ UNCHANGED <<booked, captures>> /\ proc[p].at = "close" /\ proc[p] \in ProcType
    BY <1>19 DEF ListHolds, TypeInv, LifecycleTypeOK
  <2>2. CASE ActiveLines(proc[p].o) = {}
    BY <2>1, <2>2, AfterClosingSells, GoesKeeps
  <2>3. CASE ActiveLines(proc[p].o) # {}
    <3>1. Sells(r, o, v) <=> Sells(proc[p], o, v)
      BY <2>1, <2>3 DEF Sells, Capturing, ProcType
    <3>. QED  BY <2>1, <3>1, GoesKeeps
  <2>. QED  BY <2>2, <2>3
<1>20. ASSUME NEW p \in Procs, NEW w \in Variants, CloseHold(p, w) PROVE Effect(o, v)
  <2>. DEFINE r == IF proc[p].todo \ {w} = {} THEN AfterClosing(proc[p])
                   ELSE [proc[p] EXCEPT !.todo = proc[p].todo \ {w}]
  <2>1. Goes(p, r) /\ UNCHANGED <<booked, captures>> /\ proc[p].at = "closing" /\ proc[p] \in ProcType
    BY <1>20 DEF CloseHold, TypeInv, LifecycleTypeOK
  <2>2. CASE proc[p].todo \ {w} = {}
    BY <2>1, <2>2, AfterClosingSells, GoesKeeps
  <2>3. CASE proc[p].todo \ {w} # {}
    <3>1. Sells(r, o, v) <=> Sells(proc[p], o, v)
      BY <2>1, <2>3 DEF Sells, Capturing, ProcType
    <3>. QED  BY <2>1, <3>1, GoesKeeps
  <2>. QED  BY <2>2, <2>3
<1>21. ASSUME NEW p \in Procs, ReadSalePolicy(p) PROVE Effect(o, v)
  <2>. DEFINE r == IF policy.track /\ Lines(proc[p].o) # {}
                   THEN [proc[p] EXCEPT !.at = "selling", !.todo = Lines(proc[p].o), !.neg = policy.backorder]
                   ELSE Idle
  <2>1. Goes(p, r) /\ UNCHANGED <<booked, captures>> /\ proc[p].at = "sale" /\ proc[p] \in ProcType
    BY <1>21 DEF ReadSalePolicy, TypeInv, LifecycleTypeOK
  <2>2. Sells(r, o, v) => Sells(proc[p], o, v)
    BY <2>1, LifecycleAssumption DEF Sells, Capturing, ProcType, Idle, Handler
  <2>3. ASSUME Calm(o, v), Sells(proc[p], o, v) PROVE Sells(r, o, v)
    <3>1. proc[p].o = o /\ policy.track = TRUE /\ v \in Lines(o)
      BY <2>3 DEF Calm, Sells
    <3>2. r.at = "selling" /\ r.todo = Lines(o) /\ r.o = o
      BY <2>1, <3>1 DEF ProcType
    <3>. QED  BY <3>1, <3>2 DEF Sells
  <2>. QED  BY <2>1, <2>2, <2>3, GoesKeeps
<1>22. ASSUME NEW p \in Procs, NEW w \in Variants, SellLine(p, w) PROVE Effect(o, v)
  <2>. DEFINE r == IF proc[p].todo \ {w} = {} THEN Idle ELSE [proc[p] EXCEPT !.todo = proc[p].todo \ {w}]
  <2>1. Goes(p, r) /\ UNCHANGED captures /\ proc[p].at = "selling" /\ proc[p] \in ProcType /\ w \in proc[p].todo
    BY <1>22 DEF SellLine, TypeInv, LifecycleTypeOK
  <2>2. booked' = [booked EXCEPT ![proc[p].o][w].sales = @ + 1]
    BY <1>22 DEF SellLine
  <2>3. CASE proc[p].o = o /\ w = v
    <3>1. booked'[o][v].sales = booked[o][v].sales + 1
      BY <2>2, <2>3 DEF TypeInv, LifecycleTypeOK
    <3>2. Sells(proc[p], o, v)
      BY <2>1, <2>3 DEF Sells
    <3>3. ~Sells(r, o, v)
      BY <2>1, <2>3, LifecycleAssumption DEF Sells, ProcType, Idle, Handler
    <3>. QED  BY <2>1, <3>1, <3>2, <3>3, SellingGoes DEF Effect, Sale
  <2>4. CASE ~(proc[p].o = o /\ w = v)
    <3>1. booked'[o][v].sales = booked[o][v].sales
      BY <2>2, <2>4 DEF TypeInv, LifecycleTypeOK
    <3>2. CASE proc[p].o # o
      <4>1. ~Sells(proc[p], o, v) /\ ~Sells(r, o, v)
        BY <2>1, <3>2, LifecycleAssumption DEF Sells, ProcType, Idle, Handler
      <4>. QED  BY <2>1, <3>1, <4>1, SellingGoes DEF Effect, Keeps
    <3>3. CASE proc[p].o = o /\ w # v
      <4>1. proc[p].todo \ {w} = {} => v \notin proc[p].todo
        BY <3>3
      <4>2. Sells(r, o, v) <=> Sells(proc[p], o, v)
        BY <2>1, <3>3, <4>1, LifecycleAssumption DEF Sells, ProcType, Idle, Handler
      <4>. QED  BY <2>1, <3>1, <4>2, SellingGoes DEF Effect, Keeps
    <3>. QED  BY <2>4, <3>2, <3>3
  <2>. QED  BY <2>3, <2>4
<1>23. ASSUME NEW u \in Orders, HoldsAge(u) \/ \E e \in Events : ProviderSends(u, e) PROVE Effect(o, v)
  BY <1>23, StaysKeeps DEF HoldsAge, ProviderSends
<1>24. ASSUME NEW w \in Workers, ScanStale(w) PROVE Effect(o, v)
  BY <1>24, StaysKeeps DEF ScanStale
<1>25. CASE CorrectStock
  BY <1>25, StaysKeeps DEF CorrectStock
<1>26. ASSUME NEW p \in Procs, Crash(p) PROVE Effect(o, v)
  <2>1. Goes(p, Idle) /\ UNCHANGED <<booked, captures>> /\ ~Calm(o, v)
    BY <1>26 DEF Crash, Finishes, Calm, CalmOps
  <2>. QED  BY <2>1, IdleSellsNothing, GoesKeeps
<1>27. ASSUME NEW p \in Procs, StockCallFails(p) PROVE Effect(o, v)
  <2>. DEFINE r == IF Capturing(proc[p]) /\ proc[p].at \in {"close", "closing"}
                   THEN AfterClosing(proc[p]) ELSE Idle
  <2>1. Goes(p, r) /\ UNCHANGED <<booked, captures>> /\ ~Calm(o, v) /\ proc[p] \in ProcType
    BY <1>27 DEF StockCallFails, Calm, CalmOps, TypeInv, LifecycleTypeOK
  <2>2. Sells(r, o, v) => Sells(proc[p], o, v)
    BY <2>1, AfterClosingSells, IdleSellsNothing
  <2>. QED  BY <2>1, <2>2, GoesKeeps
<1>. QED  BY <1>0, <1>1, <1>2, <1>3, <1>4, <1>5, <1>6, <1>7, <1>8, <1>9, <1>10, <1>11, <1>12, <1>13,
             <1>14, <1>15, <1>16, <1>17, <1>18, <1>19, <1>20, <1>21, <1>22, <1>23, <1>24, <1>25, <1>26,
             <1>27 DEF Next, Begins, Expires, Proceeds
----------------------------------------------------------------------------
(* The sales booked and the sales owed never exceed the captures. *)
SalesCounted == \A o \in Orders, v \in Variants :
                   booked[o][v].sales + Cardinality(Selling(o, v)) <= captures[o]
SalesExact == \A o \in Orders, v \in Variants :
                 v \in Lines(o) => booked[o][v].sales + Cardinality(Selling(o, v)) = captures[o]

LEMMA SellingFinite == \A o \in Orders, v \in Variants : IsFiniteSet(Selling(o, v))
<1>1. IsFiniteSet(Procs)
  BY LifecycleAssumption, FS_Union DEF Procs
<1>2. \A o \in Orders, v \in Variants : Selling(o, v) \in SUBSET Procs
  BY DEF Selling
<1>. QED  BY <1>1, <1>2, FS_Subset

LEMMA NoSellers == Init => \A o \in Orders, v \in Variants : Cardinality(Selling(o, v)) = 0
<1>. SUFFICES ASSUME Init, NEW o \in Orders, NEW v \in Variants PROVE Cardinality(Selling(o, v)) = 0
  OBVIOUS
<1>1. \A p \in Procs : ~Sells(proc[p], o, v)
  BY IdleSellsNothing DEF Init
<1>2. Selling(o, v) = {}
  BY <1>1 DEF Selling
<1>. QED  BY <1>2, FS_EmptySet

(* The arithmetic of one step. *)
LEMMA CountStep ==
    ASSUME TypeInv, Known, [Next]_vars, TypeInv', NEW o \in Orders, NEW v \in Variants
    PROVE  LET owed  == booked[o][v].sales + Cardinality(Selling(o, v))
               owed2 == booked'[o][v].sales + Cardinality(Selling(o, v)')
           IN  /\ owed <= captures[o] => owed2 <= captures'[o]
               /\ Calm(o, v) /\ owed = captures[o] => owed2 = captures'[o]
<1>. DEFINE S == Selling(o, v)
            T == Selling(o, v)'
<1>1. IsFiniteSet(S) /\ Cardinality(S) \in Nat
  BY SellingFinite, FS_CardinalityType
<1>2. booked[o][v].sales \in Nat /\ captures[o] \in Nat
  BY DEF TypeInv, LifecycleTypeOK
<1>3. CASE Keeps(o, v)
  <2>1. IsFiniteSet(T) /\ Cardinality(T) <= Cardinality(S) /\ Cardinality(T) \in Nat
    BY <1>1, <1>3, FS_Subset, FS_CardinalityType DEF Keeps
  <2>2. Calm(o, v) => T = S
    BY <1>3 DEF Keeps
  <2>. HIDE DEF S, T
  <2>3. booked'[o][v].sales = booked[o][v].sales /\ captures'[o] = captures[o]
    BY <1>3 DEF Keeps
  <2>. QED  BY <1>1, <1>2, <2>1, <2>2, <2>3 DEF S, T
<1>4. CASE Captures(o, v)
  <2>1. PICK p \in Procs : /\ p \notin S /\ T \subseteq S \cup {p}
                           /\ Calm(o, v) => S \cup {p} \subseteq T
    BY <1>4 DEF Captures
  <2>2. IsFiniteSet(S \cup {p}) /\ Cardinality(S \cup {p}) = Cardinality(S) + 1
    BY <1>1, <2>1, FS_AddElement
  <2>3. IsFiniteSet(T) /\ Cardinality(T) <= Cardinality(S) + 1 /\ Cardinality(T) \in Nat
    BY <2>1, <2>2, FS_Subset, FS_CardinalityType
  <2>4. Calm(o, v) => T = S \cup {p}
    BY <2>1
  <2>5. booked'[o][v].sales = booked[o][v].sales /\ captures'[o] = captures[o] + 1
    BY <1>4 DEF Captures
  <2>6. Calm(o, v) => Cardinality(T) = Cardinality(S) + 1
    BY <2>2, <2>4
  <2>. HIDE DEF S, T
  <2>. QED  BY <1>1, <1>2, <2>3, <2>5, <2>6 DEF S, T
<1>5. CASE Sale(o, v)
  <2>1. PICK p \in S : T = S \ {p}
    BY <1>5 DEF Sale
  <2>2. Cardinality(T) = Cardinality(S) - 1
    BY <1>1, <2>1, FS_RemoveElement
  <2>3. booked'[o][v].sales = booked[o][v].sales + 1 /\ captures'[o] = captures[o]
    BY <1>5 DEF Sale
  <2>. HIDE DEF S, T
  <2>. QED  BY <1>1, <1>2, <2>2, <2>3 DEF S, T
<1>. QED  BY <1>3, <1>4, <1>5, SaleEffect DEF Effect

LEMMA SalesCountedStep == TypeInv /\ Known /\ SalesCounted /\ [Next]_vars /\ TypeInv' => SalesCounted'
<1>. SUFFICES ASSUME TypeInv, Known, SalesCounted, [Next]_vars, TypeInv', NEW o \in Orders, NEW v \in Variants
              PROVE  booked'[o][v].sales + Cardinality(Selling(o, v)') <= captures'[o]
  BY DEF SalesCounted
<1>1. booked[o][v].sales + Cardinality(Selling(o, v)) <= captures[o]
  BY DEF SalesCounted
<1>. QED  BY <1>1, CountStep

LEMMA SalesCountedInit == Init => SalesCounted
  BY NoSellers DEF Init, SalesCounted

(* An order's stock is sold at most once per capture, whatever duplicates,
   retries, crashes and swallowed failures happen. *)
THEOREM SoldOnce == Spec => []SoldAtMostOncePerCapture
<1>1. TypeInv /\ SalesCounted => SoldAtMostOncePerCapture
  <2>. SUFFICES ASSUME TypeInv, SalesCounted, NEW o \in Orders, NEW v \in Variants
                PROVE  booked[o][v].sales <= captures[o]
    BY DEF SoldAtMostOncePerCapture
  <2>1. booked[o][v].sales + Cardinality(Selling(o, v)) <= captures[o]
    BY DEF SalesCounted
  <2>2. booked[o][v].sales \in Nat /\ captures[o] \in Nat /\ Cardinality(Selling(o, v)) \in Nat
    BY SellingFinite, FS_CardinalityType DEF TypeInv, LifecycleTypeOK
  <2>. QED  BY <2>1, <2>2
<1>. QED  BY <1>1, SalesCountedInit, SalesCountedStep, KnownCorrect, PTL DEF Spec
----------------------------------------------------------------------------
(* Without crashes, failing stock calls and policy changes nothing is given up:
   the stock policy stays as it was, and only webhooks flip an order. *)
Undisturbed == policy.track = TRUE /\ FlipsAreWebhooks

LEMMA FlipsFrame ==
    ASSUME TypeInv, FlipsAreWebhooks, NEW p \in Procs, NEW r, Goes(p, r), r.at # "flip" \/ r.op = "webhook"
    PROVE  FlipsAreWebhooks'
  BY DEF FlipsAreWebhooks, Goes, TypeInv, LifecycleTypeOK

(* The steps that leave the stock tables alone, or change one of them. *)
LEMMA QuietStep ==
    ASSUME [Next]_vars
    PROVE  \/ UNCHANGED stockVars
           \/ \E p \in Procs : PlaceOrder(p)
           \/ \E p \in Procs, v \in Variants : CloseHold(p, v) \/ SellLine(p, v) \/ PutBack(p, v)
           \/ CorrectStock /\ "stock" \in Ops
<1>0. CASE UNCHANGED vars
  BY <1>0 DEF vars
<1>1. CASE CorrectStock
  BY <1>1 DEF CorrectStock
<1>2. ASSUME NEW h \in Handlers, Begins(h) PROVE UNCHANGED stockVars
  BY <1>2 DEF Begins, BeginCheckout, HandleWebhook, BeginUpdate, BeginCancel, BeginShipment, Delivered
<1>3. ASSUME NEW w \in Workers, Expires(w) PROVE UNCHANGED stockVars
  BY <1>3 DEF Expires, ScanStale, VisitStale
<1>4. ASSUME NEW p \in Procs,
             \/ RejectOrder(p) \/ StoreRef(p) \/ FlipOrder(p) \/ FlipRefused(p) \/ ListHolds(p)
             \/ ReadSalePolicy(p) \/ ReadRestorePolicy(p) \/ WriteStatus(p) \/ CallRefund(p)
             \/ RecordRefund(p) \/ CreateShipment(p) \/ Crash(p) \/ StockCallFails(p)
      PROVE  UNCHANGED stockVars
  BY <1>4 DEF RejectOrder, StoreRef, FlipOrder, FlipRefused, ListHolds, ReadSalePolicy, ReadRestorePolicy,
              WriteStatus, CallRefund, RecordRefund, CreateShipment, Crash, StockCallFails
<1>5. ASSUME NEW o \in Orders, HoldsAge(o) \/ \E e \in Events : ProviderSends(o, e)
      PROVE  UNCHANGED stockVars
  BY <1>5 DEF HoldsAge, ProviderSends
<1>. QED  BY <1>0, <1>1, <1>2, <1>3, <1>4, <1>5 DEF Next, Proceeds

LEMMA IdleNoFlip == Idle.at # "flip"
  BY DEF Idle, Handler

(* No handler that proceeds goes back to the flip of its order. *)
LEMMA ProceedsNoFlip ==
    ASSUME TypeInv, NEW p \in Procs, Proceeds(p) \/ Crash(p) \/ StockCallFails(p)
    PROVE  \E r : Goes(p, r) /\ r.at # "flip"
<1>. DEFINE Ok == \E r : Goes(p, r) /\ r.at # "flip"
<1>0. proc[p] \in ProcType
  BY DEF TypeInv, LifecycleTypeOK
<1>1. ASSUME RejectOrder(p) \/ StoreRef(p) \/ FlipRefused(p) \/ Crash(p) PROVE Ok
  BY <1>1, IdleNoFlip DEF RejectOrder, StoreRef, FlipRefused, CountChecked, Crash, Finishes
<1>2. \A at \in Steps : [proc[p] EXCEPT !.at = at].at = at
  BY <1>0 DEF ProcType
<1>3. ASSUME PlaceOrder(p) \/ RecordRefund(p) PROVE Ok
  <2>1. \E at \in {"ref", "refundOrder", "set"} : Goes(p, [proc[p] EXCEPT !.at = at])
    BY <1>3 DEF PlaceOrder, RecordRefund
  <2>. QED  BY <1>2, <2>1 DEF Steps
<1>4. ASSUME FlipOrder(p) \/ CallRefund(p) \/ CreateShipment(p) \/ WriteStatus(p) PROVE Ok
  <2>1. CASE Goes(p, Idle)
    BY <2>1, IdleNoFlip
  <2>2. ASSUME NEW at \in {"close", "refundPayment", "set", "restore"}, Goes(p, [proc[p] EXCEPT !.at = at])
        PROVE  Ok
    <3>1. at \in Steps /\ at # "flip"
      BY DEF Steps
    <3>2. [proc[p] EXCEPT !.at = at].at # "flip"
      BY <1>2, <3>1
    <3>. QED  BY <2>2, <3>2
  <2>3. Goes(p, Idle) \/ \E at \in {"close", "refundPayment", "set", "restore"} : Goes(p, [proc[p] EXCEPT !.at = at])
    BY <1>4 DEF FlipOrder, CallRefund, CreateShipment, WriteStatus, AfterWriting
  <2>. QED  BY <2>1, <2>2, <2>3
<1>5. AfterClosing(proc[p]).at # "flip"
  BY <1>0, IdleNoFlip DEF AfterClosing, ProcType
<1>6. ASSUME ListHolds(p) PROVE Ok
  <2>1. [proc[p] EXCEPT !.at = "closing", !.todo = ActiveLines(proc[p].o)].at = "closing"
    BY <1>0 DEF ProcType
  <2>. QED  BY <1>5, <1>6, <2>1 DEF ListHolds
<1>7. ASSUME NEW v \in Variants, CloseHold(p, v) PROVE Ok
  <2>1. [proc[p] EXCEPT !.todo = proc[p].todo \ {v}].at = "closing"
    BY <1>0, <1>7 DEF CloseHold, ProcType
  <2>. QED  BY <1>5, <1>7, <2>1 DEF CloseHold
<1>8. ASSUME NEW v \in Variants, SellLine(p, v) \/ PutBack(p, v) PROVE Ok
  <2>1. [proc[p] EXCEPT !.todo = proc[p].todo \ {v}].at # "flip"
    BY <1>0, <1>8 DEF SellLine, PutBack, ProcType
  <2>. QED  BY <1>8, <2>1, IdleNoFlip DEF SellLine, PutBack
<1>9. ASSUME ReadSalePolicy(p) \/ ReadRestorePolicy(p) PROVE Ok
  <2>1. [proc[p] EXCEPT !.at = "selling", !.todo = Lines(proc[p].o), !.neg = policy.backorder].at = "selling"
    BY <1>0 DEF ProcType
  <2>2. [proc[p] EXCEPT !.at = "restoring", !.todo = Lines(proc[p].o)].at = "restoring"
    BY <1>0 DEF ProcType
  <2>. QED  BY <1>9, <2>1, <2>2, IdleNoFlip DEF ReadSalePolicy, ReadRestorePolicy
<1>10. ASSUME StockCallFails(p) PROVE Ok
  BY <1>5, <1>10, IdleNoFlip DEF StockCallFails
<1>. QED  BY <1>1, <1>3, <1>4, <1>6, <1>7, <1>8, <1>9, <1>10 DEF Proceeds

LEMMA UndisturbedStep ==
    CalmOps /\ TypeInv /\ Undisturbed /\ [Next]_vars => Undisturbed'
<1>. SUFFICES ASSUME CalmOps, TypeInv, policy.track = TRUE, FlipsAreWebhooks, [Next]_vars
              PROVE  policy'.track = TRUE /\ FlipsAreWebhooks'
  BY DEF Undisturbed
<1>0. CASE UNCHANGED vars
  BY <1>0 DEF vars, flowVars, stockVars, FlipsAreWebhooks
<1>1. policy' = policy
  <2>1. CASE UNCHANGED stockVars
    BY <2>1 DEF stockVars
  <2>2. ASSUME NEW p \in Procs, PlaceOrder(p) PROVE policy' = policy
    BY <2>2 DEF PlaceOrder, Reserve, stockVars
  <2>3. ASSUME NEW p \in Procs, NEW v \in Variants, CloseHold(p, v) \/ SellLine(p, v) \/ PutBack(p, v)
        PROVE  policy' = policy
    BY <2>3 DEF CloseHold, CloseRow, SellLine, PutBack, Move, MoveTo
  <2>. QED  BY <1>0, <2>1, <2>2, <2>3, QuietStep DEF vars, CalmOps
<1>2. ASSUME NEW h \in Handlers, Begins(h) PROVE FlipsAreWebhooks'
  <2>1. h \in Procs
    BY DEF Procs
  <2>2. ASSUME NEW r, Goes(h, r), r.at # "flip" \/ r.op = "webhook" PROVE FlipsAreWebhooks'
    BY <2>1, <2>2, FlipsFrame
  <2>3. PICK o \in Orders :
           \/ BeginCheckout(h, o) \/ BeginCancel(h, o) \/ BeginShipment(h, o) \/ Delivered(h, o)
           \/ \E s \in OrderStatus : BeginUpdate(h, o, s)
           \/ \E e \in Events : HandleWebhook(h, o, e)
    BY <1>2 DEF Begins
  <2>4. CASE BeginCheckout(h, o)
    <3>. DEFINE r == [Handler("place", "checkout", o, "NONE", "NONE") EXCEPT
                        !.neg = policy.backorder, !.track = policy.track]
    <3>1. r.at # "flip"
      BY DEF Handler
    <3>2. Goes(h, r)
      BY <2>4 DEF BeginCheckout
    <3>. QED  BY <2>2, <3>1, <3>2
  <2>5. CASE BeginCancel(h, o)
    <3>. DEFINE r == Handler(IF order[o] = "PAID" /\ payment[o] = "CAPTURED" THEN "refund" ELSE "set",
                             "cancel", o, order[o], "CANCELLED")
    <3>1. r.at # "flip"
      BY DEF Handler
    <3>2. Goes(h, r)
      BY <2>5 DEF BeginCancel
    <3>. QED  BY <2>2, <3>1, <3>2
  <2>6. CASE BeginShipment(h, o)
    <3>1. Handler("ship", "ship", o, "NONE", "FULFILLED").at # "flip"
      BY DEF Handler
    <3>2. Goes(h, Handler("ship", "ship", o, "NONE", "FULFILLED"))
      BY <2>6 DEF BeginShipment
    <3>. QED  BY <2>2, <3>1, <3>2
  <2>7. CASE Delivered(h, o)
    <3>1. Handler("set", "ship", o, "NONE", "FULFILLED").at # "flip"
      BY DEF Handler
    <3>2. Goes(h, Handler("set", "ship", o, "NONE", "FULFILLED"))
      BY <2>7 DEF Delivered
    <3>. QED  BY <2>2, <3>1, <3>2
  <2>8. ASSUME NEW s \in OrderStatus, BeginUpdate(h, o, s) PROVE FlipsAreWebhooks'
    <3>1. Handler("set", "update", o, order[o], s).at # "flip"
      BY DEF Handler
    <3>2. Goes(h, Handler("set", "update", o, order[o], s))
      BY <2>8 DEF BeginUpdate
    <3>. QED  BY <2>2, <3>1, <3>2
  <2>9. ASSUME NEW e \in Events, HandleWebhook(h, o, e) PROVE FlipsAreWebhooks'
    <3>1. Handler("flip", "webhook", o, "NONE", OrderStatusOf(e)).op = "webhook"
      BY DEF Handler
    <3>2. Goes(h, Idle) \/ Goes(h, Handler("flip", "webhook", o, "NONE", OrderStatusOf(e)))
      BY <2>9 DEF HandleWebhook
    <3>. QED  BY <2>2, <3>1, <3>2, IdleNoFlip
  <2>. QED  BY <2>3, <2>4, <2>5, <2>6, <2>7, <2>8, <2>9
<1>3. ASSUME NEW w \in Workers, Expires(w) PROVE FlipsAreWebhooks'
  <2>1. w \in Procs
    BY DEF Procs
  <2>2. CASE ScanStale(w)
    BY <2>2 DEF ScanStale, FlipsAreWebhooks
  <2>3. CASE \E o \in Orders : VisitStale(w, o)
    <3>1. PICK r : Goes(w, r) /\ r.at # "flip"
      BY <2>3, IdleNoFlip DEF VisitStale, Handler
    <3>. QED  BY <2>1, <3>1, FlipsFrame
  <2>. QED  BY <1>3, <2>2, <2>3 DEF Expires
<1>4. ASSUME NEW p \in Procs, Proceeds(p) \/ Crash(p) \/ StockCallFails(p) PROVE FlipsAreWebhooks'
  <2>1. PICK r : Goes(p, r) /\ r.at # "flip"
    BY <1>4, ProceedsNoFlip
  <2>. QED  BY <2>1, FlipsFrame
<1>5. ASSUME NEW o \in Orders, HoldsAge(o) \/ \E e \in Events : ProviderSends(o, e) PROVE FlipsAreWebhooks'
  BY <1>5 DEF HoldsAge, ProviderSends, FlipsAreWebhooks
<1>6. CASE CorrectStock
  BY <1>6 DEF CorrectStock, CalmOps
<1>. QED  BY <1>0, <1>1, <1>2, <1>3, <1>4, <1>5, <1>6 DEF Next

LEMMA SalesExactStep ==
    CalmOps /\ TypeInv /\ Known /\ Undisturbed /\ SalesExact /\ [Next]_vars /\ TypeInv' => SalesExact'
<1>. SUFFICES ASSUME CalmOps, TypeInv, Known, Undisturbed, SalesExact, [Next]_vars, TypeInv',
                     NEW o \in Orders, NEW v \in Variants, v \in Lines(o)
              PROVE  booked'[o][v].sales + Cardinality(Selling(o, v)') = captures'[o]
  BY DEF SalesExact, Lines
<1>1. booked[o][v].sales + Cardinality(Selling(o, v)) = captures[o]
  BY DEF SalesExact
<1>2. Calm(o, v)
  BY DEF Calm, Undisturbed
<1>. QED  BY <1>1, <1>2, CountStep

(* Every capture sells every line of its order exactly once, whatever webhooks,
   cancellations, merchant updates and expiry jobs race with it, as long as no
   process dies, no stock call fails and the stock policy stays. *)
THEOREM CapturesSell ==
    ASSUME Ops \cap {"crash", "fault", "stock"} = {}
    PROVE  Spec => []EveryCaptureSells
<1>0. CalmOps
  BY DEF CalmOps
<1>1. Init => Undisturbed /\ SalesExact
  <2>. SUFFICES ASSUME Init PROVE Undisturbed /\ SalesExact
    OBVIOUS
  <2>1. Undisturbed
    BY IdleNoFlip DEF Init, StockInit, Undisturbed, FlipsAreWebhooks
  <2>2. SalesExact
    BY NoSellers DEF Init, SalesExact
  <2>. QED  BY <2>1, <2>2
<1>2. TypeInv /\ Known /\ Undisturbed /\ SalesExact /\ [Next]_vars /\ TypeInv' => Undisturbed' /\ SalesExact'
  BY <1>0, UndisturbedStep, SalesExactStep
<1>3. TypeInv /\ SalesExact => EveryCaptureSells
  <2>. SUFFICES ASSUME TypeInv, SalesExact, NEW o \in Orders, Quiet(o), NEW v \in Lines(o)
                PROVE  booked[o][v].sales = captures[o]
    BY DEF EveryCaptureSells
  <2>1. v \in Variants
    BY DEF Lines
  <2>2. Selling(o, v) = {}
    BY DEF Quiet, Selling, Sells
  <2>3. booked[o][v].sales + Cardinality(Selling(o, v)) = captures[o] /\ booked[o][v].sales \in Nat
    BY <2>1 DEF SalesExact, TypeInv, LifecycleTypeOK
  <2>. QED  BY <2>2, <2>3, FS_EmptySet
<1>. QED  BY <1>1, <1>2, <1>3, KnownCorrect, PTL DEF Spec
----------------------------------------------------------------------------
(* The holds of a settled order, one that is no longer pending, that are still
   active have a handler at work on closing them.  This needs what the handlers know:
   who cancels a paid order, who lists the holds, who has closed them all. *)
Settled(orders, o) == orders[o] \notin {"NONE", "PENDING"}
ActiveIn(holds, o) == {v \in Variants : holds[o][v] = "ACTIVE"}
ClosesFor(r, o) == r.o = o /\ r.at \in {"close", "closing"}

Attended ==
    \A o \in Orders : (Settled(order, o) /\ ActiveIn(hold, o) # {}) => \E p \in Procs : ClosesFor(proc[p], o)

Regular(r, orders, holds) ==
    /\ r.op \notin {"update", "ship"} /\ r.at # "ship"
    /\ r.at = "flip" => r.to \in {"PAID", "CANCELLED"}
    /\ r.at = "set" => r.op \in {"cancel", "expire"}
    /\ r.op \in {"cancel", "expire"} => r.to = "CANCELLED"
    /\ r.at \in {"refund", "refundPayment", "refundOrder"} => r.op = "cancel" /\ r.was = "PAID"
    /\ r.op = "cancel" => r.was = "PENDING" \/ (r.was = "PAID" /\ Settled(orders, r.o))
    /\ r.at = "closing" => ActiveIn(holds, r.o) \subseteq r.todo
    /\ (r.at = "set" /\ r.op = "expire") => ActiveIn(holds, r.o) = {}

AllRegular == \A p \in Procs : Regular(proc[p], order, hold)
NoShipments == \A o \in Orders : ~shipped[o] /\ "REFUNDED" \notin sent[o]

LeakInv == Attended /\ AllRegular /\ NoShipments

(* No merchant updates, shipments or refunds at the provider, and no handler dies
   or has a stock call fail. *)
LeakOps == Ops \cap {"REFUNDED", "update", "ship", "crash", "fault"} = {}

LEMMA IdleRegular == \A orders, holds : Regular(Idle, orders, holds)
  BY DEF Idle, Handler, Regular

(* A handler knows what it knew when orders stay settled and its holds close. *)
LEMMA RegularFrame ==
    ASSUME TypeInv, NEW q \in Procs, Regular(proc[q], order, hold),
           \A o \in Orders : Settled(order, o) => Settled(order', o),
           proc[q] # Idle => ActiveIn(hold', proc[q].o) \subseteq ActiveIn(hold, proc[q].o)
    PROVE  Regular(proc[q], order', hold')
<1>1. CASE proc[q] = Idle
  BY <1>1, IdleRegular
<1>2. CASE proc[q] # Idle
  <2>1. proc[q].o \in Orders
    BY <1>2 DEF TypeInv, Busy
  <2>. QED  BY <1>2, <2>1 DEF Regular
<1>. QED  BY <1>1, <1>2

(* A process goes from one step to another; the other processes see at most their
   orders settle and their holds close. *)
LEMMA LeakGoes ==
    ASSUME TypeInv, LeakInv, NEW p \in Procs, NEW r, Goes(p, r), Regular(r, order', hold'),
           UNCHANGED <<shipped, sent>>,
           \A o \in Orders : Settled(order, o) => Settled(order', o),
           \A q \in Procs : (q # p /\ proc[q] # Idle) => ActiveIn(hold', proc[q].o) \subseteq ActiveIn(hold, proc[q].o),
           \A o \in Orders : (Settled(order', o) /\ ActiveIn(hold', o) # {}) =>
               \/ ClosesFor(r, o)
               \/ Settled(order, o) /\ ActiveIn(hold, o) # {} /\ ~ClosesFor(proc[p], o)
    PROVE  LeakInv'
<1>1. \A q \in Procs : proc'[q] = IF q = p THEN r ELSE proc[q]
  BY DEF Goes, TypeInv, LifecycleTypeOK
<1>2. AllRegular'
  <2>. SUFFICES ASSUME NEW q \in Procs PROVE Regular(proc'[q], order', hold')
    BY DEF AllRegular
  <2>1. CASE q = p
    BY <1>1, <2>1
  <2>2. CASE q # p
    <3>1. proc'[q] = proc[q] /\ Regular(proc[q], order, hold)
      BY <1>1, <2>2 DEF LeakInv, AllRegular
    <3>2. Regular(proc[q], order', hold')
      BY <2>2, <3>1, RegularFrame
    <3>. QED  BY <3>1, <3>2
  <2>. QED  BY <2>1, <2>2
<1>3. Attended'
  <2>. SUFFICES ASSUME NEW o \in Orders, Settled(order', o), ActiveIn(hold', o) # {}
                PROVE  \E q \in Procs : ClosesFor(proc'[q], o)
    BY DEF Attended
  <2>1. CASE ClosesFor(r, o)
    BY <1>1, <2>1
  <2>2. CASE Settled(order, o) /\ ActiveIn(hold, o) # {} /\ ~ClosesFor(proc[p], o)
    <3>1. PICK q \in Procs : ClosesFor(proc[q], o)
      BY <2>2 DEF LeakInv, Attended
    <3>. QED  BY <1>1, <2>2, <3>1
  <2>. QED  BY <2>1, <2>2
<1>4. NoShipments'
  BY DEF LeakInv, NoShipments
<1>. QED  BY <1>2, <1>3, <1>4 DEF LeakInv

(* The tables of orders and holds stand still. *)
LEMMA LeakStill ==
    ASSUME TypeInv, LeakInv, NEW p \in Procs, NEW r, Goes(p, r), Regular(r, order, hold),
           UNCHANGED <<order, hold, shipped, sent>>,
           \A o \in Orders : ClosesFor(proc[p], o) => ClosesFor(r, o) \/ ActiveIn(hold, o) = {}
    PROVE  LeakInv'
<1>1. order' = order /\ hold' = hold /\ UNCHANGED <<shipped, sent>>
  OBVIOUS
<1>2. \A o \in Orders : (Settled(order', o) /\ ActiveIn(hold', o) # {}) =>
               \/ ClosesFor(r, o)
               \/ Settled(order, o) /\ ActiveIn(hold, o) # {} /\ ~ClosesFor(proc[p], o)
  BY <1>1
<1>. QED  BY <1>1, <1>2, LeakGoes

(* Nothing that matters changes. *)
LEMMA LeakStays ==
    ASSUME LeakInv, UNCHANGED <<proc, order, hold, shipped>>,
           \A o \in Orders : "REFUNDED" \in sent'[o] => "REFUNDED" \in sent[o]
    PROVE  LeakInv'
  BY DEF LeakInv, Attended, AllRegular, NoShipments

(* A handler that goes on with what it is about. *)
LEMMA GoesOn ==
    ASSUME TypeInv, NEW p \in Procs, proc[p].at # "idle"
    PROVE  /\ proc[p] # Idle /\ proc[p].o \in Orders
           /\ \A at \in Steps : LET r == [proc[p] EXCEPT !.at = at] IN
                 /\ r.at = at /\ r.op = proc[p].op /\ r.o = proc[p].o /\ r.to = proc[p].to /\ r.was = proc[p].was
                 /\ r.todo = proc[p].todo
           /\ \A todo : LET r == [proc[p] EXCEPT !.todo = todo] IN
                 /\ r.at = proc[p].at /\ r.op = proc[p].op /\ r.o = proc[p].o /\ r.to = proc[p].to
                 /\ r.was = proc[p].was /\ r.todo = todo
           /\ \A at \in Steps : \A todo : LET r == [proc[p] EXCEPT !.at = at, !.todo = todo] IN
                 /\ r.at = at /\ r.op = proc[p].op /\ r.o = proc[p].o /\ r.to = proc[p].to
                 /\ r.was = proc[p].was /\ r.todo = todo
           /\ \A at \in Steps : \A todo, neg : LET r == [proc[p] EXCEPT !.at = at, !.todo = todo, !.neg = neg] IN
                 /\ r.at = at /\ r.op = proc[p].op /\ r.o = proc[p].o /\ r.to = proc[p].to
                 /\ r.was = proc[p].was /\ r.todo = todo
<1>1. proc[p] \in ProcType /\ proc[p] # Idle /\ proc[p].o \in Orders
  BY DEF TypeInv, LifecycleTypeOK, Busy, Idle, Handler
<1>. QED  BY <1>1 DEF ProcType

(* The steps that begin a request. *)
LEMMA LeakBegins ==
    ASSUME LeakOps, TypeInv, LeakInv, NEW h \in Handlers, Begins(h)
    PROVE  LeakInv'
<1>0. h \in Procs
  BY DEF Procs
<1>1. PICK o \in Orders :
         \/ BeginCheckout(h, o) \/ BeginCancel(h, o) \/ BeginShipment(h, o) \/ Delivered(h, o)
         \/ \E s \in OrderStatus : BeginUpdate(h, o, s)
         \/ \E e \in Events : HandleWebhook(h, o, e)
  BY DEF Begins
<1>2. proc[h] = Idle /\ UNCHANGED <<order, hold, shipped, sent>>
  BY <1>1 DEF BeginCheckout, HandleWebhook, BeginUpdate, BeginCancel, BeginShipment, Delivered, stockVars
<1>3. \A u \in Orders : ~ClosesFor(proc[h], u)
  BY <1>2 DEF ClosesFor, Idle, Handler
<1>4. ASSUME NEW r, Goes(h, r), Regular(r, order, hold) PROVE LeakInv'
  BY <1>0, <1>2, <1>3, <1>4, LeakStill
<1>5. CASE BeginCheckout(h, o)
  <2>. DEFINE r == [Handler("place", "checkout", o, "NONE", "NONE") EXCEPT
                      !.neg = policy.backorder, !.track = policy.track]
  <2>1. Regular(r, order, hold)
    BY DEF Handler, Regular
  <2>. QED  BY <1>4, <1>5, <2>1 DEF BeginCheckout
<1>6. CASE BeginCancel(h, o)
  <2>. DEFINE r == Handler(IF order[o] = "PAID" /\ payment[o] = "CAPTURED" THEN "refund" ELSE "set",
                           "cancel", o, order[o], "CANCELLED")
  <2>1. Regular(r, order, hold)
    BY <1>6 DEF BeginCancel, Handler, Regular, Settled
  <2>. QED  BY <1>4, <1>6, <2>1 DEF BeginCancel
<1>7. CASE BeginShipment(h, o) \/ Delivered(h, o)
  BY <1>7 DEF BeginShipment, Delivered, LeakOps, LeakInv, NoShipments
<1>8. CASE \E s \in OrderStatus : BeginUpdate(h, o, s)
  BY <1>8 DEF BeginUpdate, LeakOps
<1>9. ASSUME NEW e \in Events, HandleWebhook(h, o, e) PROVE LeakInv'
  <2>. DEFINE r == Handler("flip", "webhook", o, "NONE", OrderStatusOf(e))
  <2>1. CASE OrderStatusOf(e) = "NONE"
    BY <1>4, <1>9, <2>1, IdleRegular DEF HandleWebhook
  <2>2. CASE OrderStatusOf(e) # "NONE"
    <3>1. e # "REFUNDED"
      BY <1>9 DEF HandleWebhook, LeakInv, NoShipments
    <3>2. OrderStatusOf(e) \in {"PAID", "CANCELLED"}
      BY <2>2, <3>1 DEF OrderStatusOf, Events
    <3>3. Regular(r, order, hold)
      BY <3>2 DEF Handler, Regular
    <3>. QED  BY <1>4, <1>9, <2>2, <3>3 DEF HandleWebhook
  <2>. QED  BY <2>1, <2>2
<1>. QED  BY <1>1, <1>5, <1>6, <1>7, <1>8, <1>9

(* The steps of a request under way. *)
LEMMA LeakProceeds ==
    ASSUME LeakOps, TypeInv, Known, LeakInv, NEW p \in Procs, Proceeds(p)
    PROVE  LeakInv'
<1>. DEFINE r == proc[p]
<1>0. Regular(proc[p], order, hold) /\ Knows(proc[p], order, hold, policy.everBackorder)
  BY DEF LeakInv, AllRegular, Known
<1>1. ASSUME NEW s, Goes(p, s), UNCHANGED <<order, hold, shipped, sent>>, Regular(s, order, hold),
             \A o \in Orders : ClosesFor(proc[p], o) => ClosesFor(s, o) \/ ActiveIn(hold, o) = {}
      PROVE  LeakInv'
  BY <1>1, LeakStill
<1>2. CASE RejectOrder(p) \/ StoreRef(p) \/ FlipRefused(p)
  <2>1. Goes(p, Idle) /\ UNCHANGED <<order, hold, shipped, sent>> /\ proc[p].at \notin {"close", "closing"}
    BY <1>2 DEF RejectOrder, StoreRef, FlipRefused, CountChecked, Finishes, stockVars
  <2>. QED  BY <1>1, <2>1, IdleRegular DEF ClosesFor
<1>3. CASE PlaceOrder(p)
  <2>1. proc[p].at = "place" /\ order[r.o] = "NONE"
    BY <1>0, <1>3 DEF PlaceOrder, Knows
  <2>2. proc[p].o \in Orders
    BY <2>1, GoesOn
  <2>. DEFINE s == [r EXCEPT !.at = "ref"]
  <2>3. s.at = "ref" /\ s.op = r.op /\ s.o = r.o /\ s.to = r.to /\ s.was = r.was
    BY <2>1, GoesOn DEF Steps
  <2>4. Goes(p, s) /\ order' = [order EXCEPT ![r.o] = "PENDING"] /\ UNCHANGED <<shipped, sent>>
    BY <1>3 DEF PlaceOrder
  <2>5. \A o \in Orders : o # r.o => order'[o] = order[o]
    BY <2>4 DEF TypeInv, LifecycleTypeOK
  <2>6. order'[r.o] = "PENDING"
    BY <2>2, <2>4 DEF TypeInv, LifecycleTypeOK
  <2>7. \A o \in Orders : Settled(order', o) <=> Settled(order, o)
    BY <2>1, <2>5, <2>6 DEF Settled
  <2>8. \A o \in Orders : o # r.o => ActiveIn(hold', o) = ActiveIn(hold, o)
    BY <1>3, <2>2 DEF PlaceOrder, Reserve, stockVars, ActiveIn, TypeInv, LifecycleTypeOK, StockTypeOK
  <2>9. Regular(s, order', hold')
    <3>1. r.op = "cancel" => r.was = "PENDING"
      BY <1>0, <2>1 DEF Regular, Settled
    <3>. QED  BY <1>0, <2>1, <2>3, <3>1 DEF Regular
  <2>10. \A q \in Procs : (q # p /\ proc[q] # Idle) => ActiveIn(hold', proc[q].o) \subseteq ActiveIn(hold, proc[q].o)
    <3>. SUFFICES ASSUME NEW q \in Procs, q # p, proc[q] # Idle
                  PROVE  ActiveIn(hold', proc[q].o) \subseteq ActiveIn(hold, proc[q].o)
      OBVIOUS
    <3>1. proc[q].o \in Orders /\ proc[q].o # r.o
      BY <2>1 DEF TypeInv, Busy, Known, PlacesAlone
    <3>. QED  BY <2>8, <3>1
  <2>11. \A o \in Orders : (Settled(order', o) /\ ActiveIn(hold', o) # {}) =>
               \/ ClosesFor(s, o)
               \/ Settled(order, o) /\ ActiveIn(hold, o) # {} /\ ~ClosesFor(proc[p], o)
    <3>. SUFFICES ASSUME NEW o \in Orders, Settled(order', o), ActiveIn(hold', o) # {}
                  PROVE  Settled(order, o) /\ ActiveIn(hold, o) # {} /\ ~ClosesFor(proc[p], o)
      OBVIOUS
    <3>1. Settled(order, o) /\ o # r.o
      BY <2>1, <2>7 DEF Settled
    <3>. QED  BY <2>8, <3>1 DEF ClosesFor
  <2>. HIDE DEF s, r
  <2>. QED  BY <2>4, <2>7, <2>9, <2>10, <2>11, LeakGoes
<1>4. CASE FlipOrder(p)
  <2>1. proc[p].at = "flip" /\ r.to \in {"PAID", "CANCELLED"}
    BY <1>0, <1>4 DEF FlipOrder, Regular
  <2>2. proc[p].o \in Orders
    BY <2>1, GoesOn
  <2>. DEFINE s == [r EXCEPT !.at = "close"]
  <2>3. s.at = "close" /\ s.op = r.op /\ s.o = r.o /\ s.to = r.to /\ s.was = r.was
    BY <2>1, GoesOn DEF Steps
  <2>4. Goes(p, s) /\ order' = [order EXCEPT ![r.o] = r.to] /\ UNCHANGED <<hold, shipped, sent>>
    BY <1>4, <2>1 DEF FlipOrder, stockVars
  <2>5. \A o \in Orders : order'[o] = IF o = r.o THEN r.to ELSE order[o]
    BY <2>4 DEF TypeInv, LifecycleTypeOK
  <2>6. \A o \in Orders : Settled(order, o) => Settled(order', o)
    BY <2>1, <2>5 DEF Settled
  <2>7. Regular(s, order', hold')
    <3>1. r.op = "cancel" => r.was = "PENDING" \/ (r.was = "PAID" /\ Settled(order', r.o))
      BY <1>0, <2>2, <2>6 DEF Regular
    <3>. QED  BY <1>0, <2>1, <2>3, <3>1 DEF Regular
  <2>8. \A o \in Orders : (Settled(order', o) /\ ActiveIn(hold', o) # {}) =>
               \/ ClosesFor(s, o)
               \/ Settled(order, o) /\ ActiveIn(hold, o) # {} /\ ~ClosesFor(proc[p], o)
    <3>. SUFFICES ASSUME NEW o \in Orders, Settled(order', o), ActiveIn(hold', o) # {}
                  PROVE  ClosesFor(s, o) \/ (Settled(order, o) /\ ActiveIn(hold, o) # {} /\ ~ClosesFor(proc[p], o))
      OBVIOUS
    <3>1. CASE o = r.o
      BY <2>3, <3>1 DEF ClosesFor
    <3>2. CASE o # r.o
      BY <2>4, <2>5, <3>2 DEF ClosesFor, Settled
    <3>. QED  BY <3>1, <3>2
  <2>9. hold' = hold
    BY <2>4
  <2>. HIDE DEF s, r
  <2>. QED  BY <2>4, <2>6, <2>7, <2>8, <2>9, LeakGoes
<1>5. CASE ListHolds(p)
  <2>1. proc[p].at = "close" /\ UNCHANGED <<order, hold, shipped, sent>> /\ proc[p].o \in Orders
    BY <1>5, GoesOn DEF ListHolds, stockVars
  <2>2. CASE ActiveLines(r.o) = {}
    <3>1. Goes(p, AfterClosing(r)) /\ ActiveIn(hold, r.o) = {}
      BY <1>5, <2>2 DEF ListHolds, ActiveLines, ActiveIn
    <3>2. Regular(AfterClosing(r), order, hold)
      <4>1. CASE AfterClosing(r) = Idle
        BY <4>1, IdleRegular
      <4>2. CASE AfterClosing(r) = [r EXCEPT !.at = "sale", !.todo = {}]
        <5>1. /\ AfterClosing(r).at = "sale" /\ AfterClosing(r).op = r.op /\ AfterClosing(r).o = r.o
              /\ AfterClosing(r).to = r.to /\ AfterClosing(r).was = r.was
          BY <2>1, <4>2, GoesOn DEF Steps
        <5>. QED  BY <1>0, <5>1 DEF Regular
      <4>3. CASE AfterClosing(r) = [r EXCEPT !.at = "set", !.todo = {}] /\ r.op = "expire"
        <5>1. /\ AfterClosing(r).at = "set" /\ AfterClosing(r).op = r.op /\ AfterClosing(r).o = r.o
              /\ AfterClosing(r).to = r.to /\ AfterClosing(r).was = r.was
          BY <2>1, <4>3, GoesOn DEF Steps
        <5>. QED  BY <1>0, <3>1, <4>3, <5>1 DEF Regular
      <4>. QED  BY <4>1, <4>2, <4>3 DEF AfterClosing
    <3>. QED  BY <1>1, <2>1, <3>1, <3>2 DEF ClosesFor
  <2>3. CASE ActiveLines(r.o) # {}
    <3>. DEFINE s == [r EXCEPT !.at = "closing", !.todo = ActiveLines(r.o)]
    <3>1. /\ s.at = "closing" /\ s.op = r.op /\ s.o = r.o /\ s.to = r.to /\ s.was = r.was
          /\ s.todo = ActiveLines(r.o)
      BY <2>1, GoesOn DEF Steps
    <3>2. Regular(s, order, hold)
      BY <1>0, <3>1 DEF Regular, ActiveLines, ActiveIn
    <3>3. Goes(p, s)
      BY <1>5, <2>3 DEF ListHolds
    <3>. QED  BY <1>1, <2>1, <3>1, <3>2, <3>3 DEF ClosesFor
  <2>. QED  BY <2>2, <2>3
<1>6. ASSUME NEW v \in Variants, CloseHold(p, v) PROVE LeakInv'
  <2>. DEFINE rest == r.todo \ {v}
              s == IF rest = {} THEN AfterClosing(r) ELSE [r EXCEPT !.todo = rest]
  <2>1. /\ proc[p].at = "closing" /\ v \in r.todo /\ UNCHANGED <<order, shipped, sent>> /\ Goes(p, s)
        /\ proc[p].o \in Orders
    BY <1>6, GoesOn DEF CloseHold
  <2>2. \A o \in Orders, u \in Variants :
           hold'[o][u] = IF o = r.o /\ u = v THEN (IF Capturing(r) THEN "CONSUMED" ELSE "RELEASED") ELSE hold[o][u]
    BY <1>6 DEF CloseHold, CloseRow, TypeInv, LifecycleTypeOK, StockTypeOK
  <2>3. \A o \in Orders : ActiveIn(hold', o) = IF o = r.o THEN ActiveIn(hold, o) \ {v} ELSE ActiveIn(hold, o)
    BY <2>2 DEF ActiveIn
  <2>4. ActiveIn(hold', r.o) \subseteq rest
    BY <1>0, <2>1, <2>3 DEF Regular
  <2>5. Regular(s, order, hold') /\ (rest # {} => ClosesFor(s, r.o))
    <3>1. CASE rest # {}
      <4>1. s.at = "closing" /\ s.op = r.op /\ s.o = r.o /\ s.to = r.to /\ s.was = r.was /\ s.todo = rest
        BY <2>1, <3>1, GoesOn
      <4>. QED  BY <1>0, <2>1, <2>4, <4>1 DEF Regular, ClosesFor
    <3>2. CASE rest = {} /\ AfterClosing(r) = Idle
      BY <3>2, IdleRegular
    <3>3. CASE rest = {} /\ AfterClosing(r) = [r EXCEPT !.at = "sale", !.todo = {}]
      <4>1. s.at = "sale" /\ s.op = r.op /\ s.o = r.o /\ s.to = r.to /\ s.was = r.was
        BY <2>1, <3>3, GoesOn DEF Steps
      <4>. QED  BY <1>0, <3>3, <4>1 DEF Regular
    <3>4. CASE rest = {} /\ AfterClosing(r) = [r EXCEPT !.at = "set", !.todo = {}] /\ r.op = "expire"
      <4>1. s.at = "set" /\ s.op = r.op /\ s.o = r.o /\ s.to = r.to /\ s.was = r.was
        BY <2>1, <3>4, GoesOn DEF Steps
      <4>. QED  BY <1>0, <2>4, <3>4, <4>1 DEF Regular
    <3>. QED  BY <3>1, <3>2, <3>3, <3>4 DEF AfterClosing
  <2>6. \A q \in Procs : (q # p /\ proc[q] # Idle) => ActiveIn(hold', proc[q].o) \subseteq ActiveIn(hold, proc[q].o)
    BY <2>3 DEF TypeInv, Busy
  <2>7. \A o \in Orders : (Settled(order', o) /\ ActiveIn(hold', o) # {}) =>
               \/ ClosesFor(s, o)
               \/ Settled(order, o) /\ ActiveIn(hold, o) # {} /\ ~ClosesFor(proc[p], o)
    <3>. SUFFICES ASSUME NEW o \in Orders, Settled(order', o), ActiveIn(hold', o) # {}
                  PROVE  ClosesFor(s, o) \/ (Settled(order, o) /\ ActiveIn(hold, o) # {} /\ ~ClosesFor(proc[p], o))
      OBVIOUS
    <3>1. CASE o = r.o
      BY <2>4, <2>5, <3>1
    <3>2. CASE o # r.o
      BY <2>1, <2>3, <3>2 DEF ClosesFor, Settled
    <3>. QED  BY <3>1, <3>2
  <2>8. order' = order
    BY <2>1
  <2>. HIDE DEF s, r
  <2>. QED  BY <2>1, <2>5, <2>6, <2>7, <2>8, LeakGoes
<1>7. CASE ReadSalePolicy(p)
  <2>1. proc[p].at = "sale" /\ UNCHANGED <<order, hold, shipped, sent>>
    BY <1>7 DEF ReadSalePolicy, stockVars
  <2>. DEFINE s == [r EXCEPT !.at = "selling", !.todo = Lines(r.o), !.neg = policy.backorder]
  <2>2. s.at = "selling" /\ s.op = r.op /\ s.o = r.o /\ s.to = r.to /\ s.was = r.was
    BY <2>1, GoesOn DEF Steps
  <2>3. Regular(s, order, hold)
    BY <1>0, <2>2 DEF Regular
  <2>4. Goes(p, s) \/ Goes(p, Idle)
    BY <1>7 DEF ReadSalePolicy
  <2>. QED  BY <1>1, <2>1, <2>3, <2>4, IdleRegular DEF ClosesFor
<1>8. CASE ReadRestorePolicy(p)
  <2>1. proc[p].at = "restore" /\ UNCHANGED <<order, hold, shipped, sent>>
    BY <1>8 DEF ReadRestorePolicy, stockVars
  <2>. DEFINE s == [r EXCEPT !.at = "restoring", !.todo = Lines(r.o)]
  <2>2. s.at = "restoring" /\ s.op = r.op /\ s.o = r.o /\ s.to = r.to /\ s.was = r.was
    BY <2>1, GoesOn DEF Steps
  <2>3. Regular(s, order, hold)
    BY <1>0, <2>2 DEF Regular
  <2>4. Goes(p, s) \/ Goes(p, Idle)
    BY <1>8 DEF ReadRestorePolicy
  <2>. QED  BY <1>1, <2>1, <2>3, <2>4, IdleRegular DEF ClosesFor
<1>9. ASSUME NEW v \in Variants, SellLine(p, v) \/ PutBack(p, v) PROVE LeakInv'
  <2>1. proc[p].at \in {"selling", "restoring"} /\ UNCHANGED <<order, hold, shipped, sent>>
    BY <1>9 DEF SellLine, PutBack, Move, MoveTo
  <2>. DEFINE s == [r EXCEPT !.todo = r.todo \ {v}]
  <2>2. s.at = r.at /\ s.op = r.op /\ s.o = r.o /\ s.to = r.to /\ s.was = r.was
    BY <2>1, GoesOn
  <2>3. Regular(s, order, hold)
    BY <1>0, <2>1, <2>2 DEF Regular
  <2>4. Goes(p, s) \/ Goes(p, Idle)
    BY <1>9 DEF SellLine, PutBack
  <2>. QED  BY <1>1, <2>1, <2>3, <2>4, IdleRegular DEF ClosesFor
<1>10. CASE WriteStatus(p)
  <2>1. /\ proc[p].at = "set" /\ r.op \in {"cancel", "expire"} /\ proc[p].o \in Orders /\ r.to \in OrderStatus
        /\ order' = [order EXCEPT ![r.o] = r.to] /\ Goes(p, AfterWriting(r)) /\ UNCHANGED <<hold, shipped, sent>>
    BY <1>0, <1>10, GoesOn DEF WriteStatus, Regular, Knows, stockVars
  <2>. DEFINE s == AfterWriting(r)
  <2>2. \A o \in Orders : order'[o] = IF o = r.o THEN r.to ELSE order[o]
    BY <2>1 DEF TypeInv, LifecycleTypeOK
  <2>3. r.to = "CANCELLED"
    BY <1>0, <2>1 DEF Regular
  <2>4. \A o \in Orders : Settled(order, o) => Settled(order', o)
    BY <2>2, <2>3 DEF Settled
  <2>5. Regular(s, order', hold') /\ (r.op = "cancel" /\ r.was = "PENDING" => ClosesFor(s, r.o))
    <3>1. r.op = "cancel" => r.was = "PENDING" \/ (r.was = "PAID" /\ Settled(order', r.o))
      BY <1>0, <2>1, <2>4 DEF Regular
    <3>2. CASE s = Idle /\ ~(r.op = "cancel" /\ r.was = "PENDING")
      BY <3>2, IdleRegular
    <3>3. CASE s = [r EXCEPT !.at = "restore"] /\ ~(r.op = "cancel" /\ r.was = "PENDING")
      <4>1. s.at = "restore" /\ s.op = r.op /\ s.o = r.o /\ s.to = r.to /\ s.was = r.was
        BY <2>1, <3>3, GoesOn DEF Steps
      <4>. HIDE DEF s
      <4>. QED  BY <1>0, <3>1, <3>3, <4>1 DEF Regular
    <3>4. CASE s = [r EXCEPT !.at = "close"]
      <4>1. s.at = "close" /\ s.op = r.op /\ s.o = r.o /\ s.to = r.to /\ s.was = r.was
        BY <2>1, <3>4, GoesOn DEF Steps
      <4>. HIDE DEF s
      <4>. QED  BY <1>0, <3>1, <4>1 DEF Regular, ClosesFor
    <3>. QED  BY <3>2, <3>3, <3>4 DEF AfterWriting, Reversing
  <2>6. \A o \in Orders : (Settled(order', o) /\ ActiveIn(hold', o) # {}) =>
               \/ ClosesFor(s, o)
               \/ Settled(order, o) /\ ActiveIn(hold, o) # {} /\ ~ClosesFor(proc[p], o)
    <3>. SUFFICES ASSUME NEW o \in Orders, Settled(order', o), ActiveIn(hold', o) # {}
                  PROVE  ClosesFor(s, o) \/ (Settled(order, o) /\ ActiveIn(hold, o) # {} /\ ~ClosesFor(proc[p], o))
      OBVIOUS
    <3>0. ActiveIn(hold, o) # {}
      BY <2>1
    <3>1. CASE o # r.o
      BY <2>1, <2>2, <3>0, <3>1 DEF ClosesFor, Settled
    <3>2. CASE o = r.o /\ r.op = "expire"
      BY <1>0, <2>1, <3>0, <3>2 DEF Regular
    <3>3. CASE o = r.o /\ r.op = "cancel"
      <4>1. r.was = "PENDING" \/ Settled(order, r.o)
        BY <1>0, <3>3 DEF Regular
      <4>. QED  BY <2>1, <2>5, <3>0, <3>3, <4>1 DEF ClosesFor
    <3>. QED  BY <2>1, <3>1, <3>2, <3>3
  <2>7. hold' = hold
    BY <2>1
  <2>. HIDE DEF s, r
  <2>. QED  BY <2>1, <2>4, <2>5, <2>6, <2>7, LeakGoes DEF s
<1>11. CASE CallRefund(p)
  <2>1. proc[p].at = "refund" /\ UNCHANGED <<order, hold, shipped, sent>>
    BY <1>11 DEF CallRefund, stockVars
  <2>. DEFINE s == [r EXCEPT !.at = "refundPayment"]
  <2>2. s.at = "refundPayment" /\ s.op = r.op /\ s.o = r.o /\ s.to = r.to /\ s.was = r.was
    BY <2>1, GoesOn DEF Steps
  <2>3. Regular(s, order, hold)
    BY <1>0, <2>1, <2>2 DEF Regular
  <2>4. Goes(p, s) \/ Goes(p, Idle)
    BY <1>11 DEF CallRefund
  <2>. QED  BY <1>1, <2>1, <2>3, <2>4, IdleRegular DEF ClosesFor
<1>12. CASE RecordRefund(p) /\ proc[p].at = "refundPayment"
  <2>. DEFINE s == [r EXCEPT !.at = "refundOrder"]
  <2>1. UNCHANGED <<order, hold, shipped, sent>> /\ Goes(p, s)
    BY <1>12 DEF RecordRefund, stockVars
  <2>2. s.at = "refundOrder" /\ s.op = r.op /\ s.o = r.o /\ s.to = r.to /\ s.was = r.was
    BY <1>12, GoesOn DEF Steps
  <2>3. Regular(s, order, hold)
    BY <1>0, <1>12, <2>2 DEF Regular
  <2>. QED  BY <1>1, <1>12, <2>1, <2>3 DEF ClosesFor
<1>13. CASE RecordRefund(p) /\ proc[p].at = "refundOrder"
  <2>. DEFINE s == [r EXCEPT !.at = "set"]
  <2>1. /\ order' = [order EXCEPT ![r.o] = "REFUNDED"] /\ UNCHANGED <<hold, shipped, sent>> /\ Goes(p, s)
        /\ proc[p].o \in Orders
    BY <1>13, GoesOn DEF RecordRefund, stockVars
  <2>2. s.at = "set" /\ s.op = r.op /\ s.o = r.o /\ s.to = r.to /\ s.was = r.was
    BY <1>13, GoesOn DEF Steps
  <2>3. \A o \in Orders : order'[o] = IF o = r.o THEN "REFUNDED" ELSE order[o]
    BY <2>1 DEF TypeInv, LifecycleTypeOK
  <2>4. Settled(order, r.o)
    BY <1>0, <1>13 DEF Regular
  <2>5. \A o \in Orders : Settled(order', o) <=> Settled(order, o)
    BY <2>3, <2>4 DEF Settled
  <2>6. Regular(s, order', hold')
    <3>1. Settled(order', r.o)
      BY <2>1, <2>4, <2>5
    <3>. QED  BY <1>0, <1>13, <2>2, <3>1 DEF Regular
  <2>7. hold' = hold /\ \A o \in Orders : ~ClosesFor(proc[p], o)
    BY <1>13, <2>1 DEF ClosesFor
  <2>. HIDE DEF s, r
  <2>. QED  BY <2>1, <2>5, <2>6, <2>7, LeakGoes
<1>14. CASE CreateShipment(p)
  BY <1>0, <1>14 DEF CreateShipment, Regular
<1>. QED  BY <1>2, <1>3, <1>4, <1>5, <1>6, <1>7, <1>8, <1>9, <1>10, <1>11, <1>12, <1>13, <1>14 DEF Proceeds, RecordRefund

LEMMA LeakStep == LeakOps /\ TypeInv /\ Known /\ LeakInv /\ [Next]_vars => LeakInv'
<1>. SUFFICES ASSUME LeakOps, TypeInv, Known, LeakInv, [Next]_vars PROVE LeakInv'
  OBVIOUS
<1>0. CASE UNCHANGED vars
  BY <1>0, LeakStays DEF vars, flowVars, stockVars
<1>1. ASSUME NEW h \in Handlers, Begins(h) PROVE LeakInv'
  BY <1>1, LeakBegins
<1>2. ASSUME NEW w \in Workers, ScanStale(w) PROVE LeakInv'
  BY <1>2, LeakStays DEF ScanStale, stockVars
<1>3. ASSUME NEW w \in Workers, NEW o \in Orders, VisitStale(w, o) PROVE LeakInv'
  <2>. DEFINE s == Handler("close", "expire", o, "PENDING", "CANCELLED")
  <2>1. w \in Procs /\ proc[w] = Idle /\ UNCHANGED <<order, hold, shipped, sent>> /\ (Goes(w, s) \/ Goes(w, Idle))
    BY <1>3 DEF VisitStale, Procs, stockVars
  <2>2. Regular(s, order, hold)
    BY DEF Handler, Regular
  <2>3. \A u \in Orders : ~ClosesFor(proc[w], u)
    BY <2>1 DEF ClosesFor, Idle, Handler
  <2>. HIDE DEF s
  <2>. QED  BY <2>1, <2>2, <2>3, IdleRegular, LeakStill
<1>4. ASSUME NEW p \in Procs, Proceeds(p) PROVE LeakInv'
  BY <1>4, LeakProceeds
<1>5. ASSUME NEW p \in Procs, Crash(p) \/ StockCallFails(p) PROVE LeakInv'
  BY <1>5 DEF Crash, StockCallFails, LeakOps
<1>6. ASSUME NEW o \in Orders, HoldsAge(o) PROVE LeakInv'
  BY <1>6, LeakStays DEF HoldsAge, stockVars
<1>7. ASSUME NEW o \in Orders, NEW e \in Events, ProviderSends(o, e) PROVE LeakInv'
  <2>1. e # "REFUNDED" /\ UNCHANGED <<proc, order, hold, shipped>> /\ sent' = [sent EXCEPT ![o] = @ \cup {e}]
    BY <1>7 DEF ProviderSends, LeakOps, stockVars
  <2>2. \A u \in Orders : "REFUNDED" \in sent'[u] => "REFUNDED" \in sent[u]
    BY <2>1 DEF TypeInv, LifecycleTypeOK
  <2>. QED  BY <2>1, <2>2, LeakStays
<1>8. CASE CorrectStock
  <2>1. UNCHANGED <<proc, order, hold, shipped, sent>>
    BY <1>8 DEF CorrectStock, Corrections, Adjust, SetInventory, Receive, Move, MoveTo, SetPolicy
  <2>. QED  BY <2>1, LeakStays
<1>. QED  BY <1>0, <1>1, <1>2, <1>3, <1>4, <1>5, <1>6, <1>7, <1>8 DEF Next, Expires

(* The holds of an order end with its pending status, whatever captures, failures,
   cancellations and expiry jobs race for it, as long as no merchant update,
   shipment or refund at the provider settles it by another way, no handler dies
   and no stock call fails (LeakOps). *)
THEOREM NoHoldLeaks ==
    ASSUME Ops \cap {"REFUNDED", "update", "ship", "crash", "fault"} = {}
    PROVE  Spec => []NoHoldLeak
<1>0. LeakOps
  BY DEF LeakOps
<1>1. Init => LeakInv
  <2>. SUFFICES ASSUME Init PROVE LeakInv
    OBVIOUS
  <2>1. \A p \in Procs : proc[p] = Idle
    BY DEF Init
  <2>2. \A o \in Orders : ~Settled(order, o) /\ ~shipped[o] /\ sent[o] = {}
    BY DEF Init, Settled
  <2>. QED  BY <2>1, <2>2, IdleRegular DEF LeakInv, Attended, AllRegular, NoShipments
<1>2. LeakInv => NoHoldLeak
  <2>. SUFFICES ASSUME LeakInv, NEW o \in Orders, order[o] \notin {"NONE", "PENDING"}, Quiet(o), ActiveLines(o) # {}
                PROVE  FALSE
    BY DEF NoHoldLeak
  <2>1. PICK p \in Procs : ClosesFor(proc[p], o)
    BY DEF LeakInv, Attended, Settled, ActiveLines, ActiveIn
  <2>. QED  BY <2>1 DEF Quiet, ClosesFor
<1>3. TypeInv /\ Known /\ LeakInv /\ [Next]_vars => LeakInv'
  BY <1>0, LeakStep
<1>. QED  BY <1>1, <1>2, <1>3, KnownCorrect, PTL DEF Spec
----------------------------------------------------------------------------
(* `reserved` is what the active reservations hold while no two handlers close the
   holds of one order: each then closes rows that are active. *)
Closing(r) == r.at = "closing"
OneCloser == \A p, q \in Procs : (p # q /\ Closing(proc[p]) /\ Closing(proc[q])) => proc[p].o # proc[q].o
ClosesActive == \A p \in Procs : Closing(proc[p]) => proc[p].todo \subseteq ActiveLines(proc[p].o)

(* How a process comes to stand at the closing of rows. *)
Stands(q) == proc'[q] = proc[q]
Lists(q) == proc'[q].todo = ActiveLines(proc'[q].o) /\ hold' = hold
ClosesOneRow(q) == \E v \in Variants : CloseHold(q, v) /\ proc'[q].o = proc[q].o /\ proc'[q].todo = proc[q].todo \ {v}

LEMMA BeginsNoClosing ==
    ASSUME NEW h \in Handlers, Begins(h)
    PROVE  \E r : Goes(h, r) /\ r.at # "closing"
<1>. DEFINE Ok == \E r : Goes(h, r) /\ r.at # "closing"
<1>0. Idle.at # "closing"
  BY DEF Idle, Handler
<1>1. \A at \in Steps : \A op, o, was, to : Handler(at, op, o, was, to).at = at
  BY DEF Handler
<1>2. PICK o \in Orders :
         \/ BeginCheckout(h, o) \/ BeginCancel(h, o) \/ BeginShipment(h, o) \/ Delivered(h, o)
         \/ \E s \in OrderStatus : BeginUpdate(h, o, s)
         \/ \E e \in Events : HandleWebhook(h, o, e)
  BY DEF Begins
<1>3. CASE BeginCheckout(h, o)
  <2>1. [Handler("place", "checkout", o, "NONE", "NONE") EXCEPT
           !.neg = policy.backorder, !.track = policy.track].at = "place"
    BY DEF Handler
  <2>. QED  BY <1>3, <2>1 DEF BeginCheckout
<1>4. CASE BeginCancel(h, o) \/ BeginShipment(h, o) \/ Delivered(h, o) \/ \E s \in OrderStatus : BeginUpdate(h, o, s)
  <2>1. \E at \in {"refund", "set", "ship"} : \E op, was, to : Goes(h, Handler(at, op, o, was, to))
    BY <1>4 DEF BeginCancel, BeginShipment, Delivered, BeginUpdate
  <2>. QED  BY <1>1, <2>1 DEF Steps
<1>5. CASE \E e \in Events : HandleWebhook(h, o, e)
  <2>1. Goes(h, Idle) \/ \E to : Goes(h, Handler("flip", "webhook", o, "NONE", to))
    BY <1>5 DEF HandleWebhook
  <2>. QED  BY <1>0, <1>1, <2>1 DEF Steps
<1>. QED  BY <1>2, <1>3, <1>4, <1>5

LEMMA ProceedsClosing ==
    ASSUME TypeInv, NEW p \in Procs, Proceeds(p) \/ Crash(p) \/ StockCallFails(p)
    PROVE  \/ \E r : Goes(p, r) /\ r.at # "closing"
           \/ Lists(p) \/ ClosesOneRow(p)
<1>. DEFINE Ok == \E r : Goes(p, r) /\ r.at # "closing"
<1>0. proc[p] \in ProcType /\ \A r : Goes(p, r) => proc'[p] = r
  BY DEF TypeInv, LifecycleTypeOK, Goes
<1>1. Idle.at # "closing"
  BY DEF Idle, Handler
<1>2. ASSUME RejectOrder(p) \/ StoreRef(p) \/ FlipRefused(p) \/ Crash(p) PROVE Ok
  BY <1>1, <1>2 DEF RejectOrder, StoreRef, FlipRefused, CountChecked, Crash, Finishes
<1>3. \A at \in Steps : [proc[p] EXCEPT !.at = at].at = at
  BY <1>0 DEF ProcType
<1>4. ASSUME \/ PlaceOrder(p) \/ RecordRefund(p) \/ FlipOrder(p) \/ CallRefund(p) \/ CreateShipment(p)
             \/ WriteStatus(p)
      PROVE  Ok
  <2>1. Goes(p, Idle) \/ \E at \in {"ref", "refundOrder", "set", "close", "refundPayment", "restore"} :
                           Goes(p, [proc[p] EXCEPT !.at = at])
    BY <1>4 DEF PlaceOrder, RecordRefund, FlipOrder, CallRefund, CreateShipment, WriteStatus, AfterWriting
  <2>2. CASE Goes(p, Idle)
    BY <1>1, <2>2
  <2>3. ASSUME NEW at \in {"ref", "refundOrder", "set", "close", "refundPayment", "restore"},
               Goes(p, [proc[p] EXCEPT !.at = at])
        PROVE  Ok
    <3>1. at \in Steps /\ at # "closing"
      BY DEF Steps
    <3>2. [proc[p] EXCEPT !.at = at].at # "closing"
      BY <1>3, <3>1
    <3>. QED  BY <2>3, <3>2
  <2>. QED  BY <2>1, <2>2, <2>3
<1>5. AfterClosing(proc[p]).at # "closing"
  BY <1>0, <1>1 DEF AfterClosing, ProcType
<1>6. ASSUME ListHolds(p) PROVE Ok \/ Lists(p)
  <2>. DEFINE r == [proc[p] EXCEPT !.at = "closing", !.todo = ActiveLines(proc[p].o)]
  <2>1. r.o = proc[p].o /\ r.todo = ActiveLines(proc[p].o)
    BY <1>0 DEF ProcType
  <2>2. Goes(p, AfterClosing(proc[p])) \/ Goes(p, r)
    BY <1>6 DEF ListHolds
  <2>3. hold' = hold
    BY <1>6 DEF ListHolds, stockVars
  <2>. HIDE DEF r
  <2>4. CASE Goes(p, r)
    <3>1. proc'[p] = r
      BY <1>0, <2>4
    <3>. QED  BY <2>1, <2>3, <3>1 DEF Lists
  <2>. QED  BY <1>5, <2>2, <2>4
<1>7. ASSUME NEW v \in Variants, CloseHold(p, v) PROVE Ok \/ ClosesOneRow(p)
  <2>. DEFINE r == [proc[p] EXCEPT !.todo = proc[p].todo \ {v}]
  <2>1. r.o = proc[p].o /\ r.todo = proc[p].todo \ {v}
    BY <1>0 DEF ProcType
  <2>2. Goes(p, AfterClosing(proc[p])) \/ Goes(p, r)
    BY <1>7 DEF CloseHold
  <2>. HIDE DEF r
  <2>3. CASE Goes(p, r)
    <3>1. proc'[p] = r
      BY <1>0, <2>3
    <3>. QED  BY <1>7, <2>1, <3>1 DEF ClosesOneRow
  <2>. QED  BY <1>5, <2>2, <2>3
<1>8. ASSUME NEW v \in Variants, SellLine(p, v) \/ PutBack(p, v) PROVE Ok
  <2>1. [proc[p] EXCEPT !.todo = proc[p].todo \ {v}].at # "closing"
    BY <1>0, <1>8 DEF SellLine, PutBack, ProcType
  <2>. QED  BY <1>1, <1>8, <2>1 DEF SellLine, PutBack
<1>9. ASSUME ReadSalePolicy(p) \/ ReadRestorePolicy(p) PROVE Ok
  <2>1. [proc[p] EXCEPT !.at = "selling", !.todo = Lines(proc[p].o), !.neg = policy.backorder].at = "selling"
    BY <1>0 DEF ProcType
  <2>2. [proc[p] EXCEPT !.at = "restoring", !.todo = Lines(proc[p].o)].at = "restoring"
    BY <1>0 DEF ProcType
  <2>. QED  BY <1>1, <1>9, <2>1, <2>2 DEF ReadSalePolicy, ReadRestorePolicy
<1>10. ASSUME StockCallFails(p) PROVE Ok
  BY <1>1, <1>5, <1>10 DEF StockCallFails
<1>. QED  BY <1>2, <1>4, <1>6, <1>7, <1>8, <1>9, <1>10 DEF Proceeds

LEMMA ComesToClosing ==
    ASSUME TypeInv, [Next]_vars, NEW q \in Procs, Closing(proc'[q])
    PROVE  Stands(q) \/ Lists(q) \/ ClosesOneRow(q)
<1>0. \A p \in Procs : \A r : Goes(p, r) => proc'[p] = r /\ \A u \in Procs : u # p => proc'[u] = proc[u]
  BY DEF TypeInv, LifecycleTypeOK, Goes
<1>1. ASSUME NEW p \in Procs, NEW r, Goes(p, r), r.at # "closing" PROVE Stands(q)
  <2>1. proc'[p] = r /\ \A u \in Procs : u # p => proc'[u] = proc[u]
    BY <1>0, <1>1
  <2>. QED  BY <1>1, <2>1 DEF Closing, Stands
<1>2. CASE UNCHANGED vars
  BY <1>2 DEF vars, flowVars, Stands
<1>3. ASSUME NEW h \in Handlers, Begins(h) PROVE Stands(q)
  BY <1>1, <1>3, BeginsNoClosing DEF Procs
<1>4. ASSUME NEW w \in Workers, Expires(w) PROVE Stands(q)
  <2>1. CASE ScanStale(w)
    BY <2>1 DEF ScanStale, Stands
  <2>2. ASSUME NEW o \in Orders, VisitStale(w, o) PROVE Stands(q)
    <3>1. \E r : Goes(w, r) /\ r.at # "closing"
      BY <2>2 DEF VisitStale, Handler, Idle
    <3>. QED  BY <1>1, <3>1 DEF Procs
  <2>. QED  BY <1>4, <2>1, <2>2 DEF Expires
<1>5. ASSUME NEW p \in Procs, Proceeds(p) \/ Crash(p) \/ StockCallFails(p)
      PROVE  Stands(q) \/ Lists(q) \/ ClosesOneRow(q)
  <2>1. CASE \E r : Goes(p, r) /\ r.at # "closing"
    BY <1>1, <2>1
  <2>2. CASE q = p
    BY <1>5, <2>1, <2>2, ProceedsClosing
  <2>3. CASE q # p
    <3>1. \E r : Goes(p, r)
      BY <1>5 DEF Proceeds, Crash, StockCallFails, PlaceOrder, RejectOrder, StoreRef, FlipOrder, FlipRefused,
                  ListHolds, CloseHold, ReadSalePolicy, SellLine, ReadRestorePolicy, PutBack, WriteStatus,
                  CallRefund, RecordRefund, CreateShipment, Finishes
    <3>. QED  BY <1>0, <2>3, <3>1 DEF Stands
  <2>. QED  BY <2>2, <2>3
<1>6. ASSUME NEW o \in Orders, HoldsAge(o) \/ \E e \in Events : ProviderSends(o, e) PROVE Stands(q)
  BY <1>6 DEF HoldsAge, ProviderSends, Stands
<1>7. CASE CorrectStock
  BY <1>7 DEF CorrectStock, Stands
<1>. QED  BY <1>2, <1>3, <1>4, <1>5, <1>6, <1>7 DEF Next

(* The one step of a closing handler that another can disturb. *)
LEMMA ClosesActiveStep ==
    ASSUME TypeInv, Known, OneCloser, ClosesActive, [Next]_vars
    PROVE  ClosesActive'
<1>. SUFFICES ASSUME NEW q \in Procs, Closing(proc'[q]), NEW v, v \in proc'[q].todo
              PROVE  v \in Variants /\ hold'[proc'[q].o][v] = "ACTIVE"
  <2>1. \A p \in Procs : ActiveLines(proc[p].o)' = {v \in Variants : hold'[proc'[p].o][v] = "ACTIVE"}
    BY DEF ActiveLines
  <2>2. \A p \in Procs : Closing(proc[p])' <=> Closing(proc'[p])
    BY DEF Closing
  <2>. QED  BY <2>1, <2>2 DEF ClosesActive
<1>1. CASE Lists(q)
  <2>1. v \in Variants /\ hold[proc'[q].o][v] = "ACTIVE" /\ hold' = hold
    BY <1>1 DEF Lists, ActiveLines
  <2>. QED  BY <2>1
<1>2. CASE Stands(q) \/ ClosesOneRow(q)
  <2>1. /\ Closing(proc[q]) /\ proc'[q].o = proc[q].o /\ proc[q].o \in Orders /\ v \in proc[q].todo
        /\ (Stands(q) \/ CloseHold(q, v) \/ \E w \in Variants : CloseHold(q, w) /\ v # w)
    <3>1. Closing(proc[q]) /\ proc'[q].o = proc[q].o /\ v \in proc[q].todo
      BY <1>2 DEF Stands, ClosesOneRow, CloseHold, Closing
    <3>. QED  BY <1>2, <3>1, GoesOn DEF Closing, ClosesOneRow
  <2>2. v \in Variants /\ hold[proc[q].o][v] = "ACTIVE"
    BY <2>1 DEF ClosesActive, ActiveLines
  <2>3. hold'[proc[q].o][v] = "ACTIVE"
    <3>1. CASE UNCHANGED stockVars
      BY <2>2, <3>1 DEF stockVars
    <3>2. ASSUME NEW p \in Procs, PlaceOrder(p) PROVE hold'[proc[q].o][v] = "ACTIVE"
      <4>1. order[proc[p].o] = "NONE" /\ order[proc[q].o] # "NONE" /\ proc[p].o \in Orders
        BY <2>1, <3>2, GoesOn DEF PlaceOrder, Known, Knows, Closing
      <4>2. \A o \in Orders : o # proc[p].o => hold'[o] = hold[o]
        BY <3>2, <4>1 DEF PlaceOrder, Reserve, stockVars, TypeInv, LifecycleTypeOK, StockTypeOK
      <4>. QED  BY <2>1, <2>2, <4>1, <4>2
    <3>3. ASSUME NEW p \in Procs, NEW w \in Variants, CloseHold(p, w) PROVE hold'[proc[q].o][v] = "ACTIVE"
      <4>1. Closing(proc[p]) /\ proc[p].o \in Orders /\ w \in proc[p].todo
        BY <3>3, GoesOn DEF CloseHold, Closing
      <4>2. proc[p].o = proc[q].o => p = q
        BY <2>1, <4>1 DEF OneCloser
      <4>3. \A o \in Orders, u \in Variants :
              (o # proc[p].o \/ u # w) => hold'[o][u] = hold[o][u]
        BY <3>3, <4>1 DEF CloseHold, CloseRow, TypeInv, LifecycleTypeOK, StockTypeOK
      <4>4. CASE p # q
        BY <2>1, <2>2, <4>2, <4>3, <4>4
      <4>5. CASE p = q
        <5>1. proc'[q].todo = proc[q].todo \ {w}
          <6>1. Goes(q, AfterClosing(proc[q])) \/ Goes(q, [proc[q] EXCEPT !.todo = proc[q].todo \ {w}])
            BY <3>3, <4>5 DEF CloseHold
          <6>2. proc[q] \in ProcType /\ \A r : Goes(q, r) => proc'[q] = r
            BY DEF TypeInv, LifecycleTypeOK, Goes
          <6>3. AfterClosing(proc[q]).at # "closing"
            BY <6>2 DEF AfterClosing, Idle, Handler, ProcType
          <6>4. [proc[q] EXCEPT !.todo = proc[q].todo \ {w}].todo = proc[q].todo \ {w}
            BY <6>2 DEF ProcType
          <6>. QED  BY <6>1, <6>2, <6>3, <6>4 DEF Closing
        <5>2. v # w
          BY <5>1
        <5>. QED  BY <2>1, <2>2, <4>3, <5>2
      <4>. QED  BY <4>4, <4>5
    <3>4. ASSUME NEW p \in Procs, NEW w \in Variants, SellLine(p, w) \/ PutBack(p, w)
          PROVE  hold'[proc[q].o][v] = "ACTIVE"
      BY <2>2, <3>4 DEF SellLine, PutBack, Move, MoveTo
    <3>5. CASE CorrectStock
      <4>1. hold' = hold
        BY <3>5 DEF CorrectStock, Corrections, Adjust, SetInventory, Receive, SetPolicy, Move, MoveTo
      <4>. QED  BY <2>2, <4>1
    <3>. QED  BY <3>1, <3>2, <3>3, <3>4, <3>5, QuietStep
  <2>. QED  BY <2>1, <2>2, <2>3
<1>. QED  BY <1>1, <1>2, ComesToClosing

(* So every closed row gives back the units it held. *)
LEMMA ReservedExactStep ==
    ASSUME TypeInv, Known, ClosesActive, ReservedExact, [Next]_vars
    PROVE  ReservedExact'
<1>. SUFFICES ASSUME NEW v \in Variants PROVE reserved'[v] = HeldUnits(v)'
  BY DEF ReservedExact
<1>0. /\ reserved[v] = HeldUnits(v) /\ HeldUnits(v) \in Nat /\ \A o \in Orders : Qty[o][v] \in Nat
      /\ StockTypeOK
  BY HeldNat, StockAssumption DEF ReservedExact, TypeInv, LifecycleTypeOK
<1>1. CASE hold' = hold /\ reserved' = reserved
  <2>1. Holders(v)' = Holders(v)
    BY <1>1 DEF Holders
  <2>. QED  BY <1>0, <1>1, <2>1, HeldStays
<1>2. ASSUME NEW p \in Procs, PlaceOrder(p) PROVE reserved'[v] = HeldUnits(v)'
  <2>1. CASE ~proc[p].track
    BY <1>1, <1>2, <2>1 DEF PlaceOrder, stockVars
  <2>2. CASE proc[p].track
    <3>1. proc[p].o \in Orders /\ order[proc[p].o] = "NONE" /\ Reserve(proc[p].o, proc[p].neg)
      BY <1>2, <2>2, GoesOn DEF PlaceOrder, Known, Knows
    <3>2. NoRows(proc[p].o)
      BY <3>1 DEF Known, TablesAgree
    <3>3. HeldUnits(v)' = HeldUnits(v) + Qty[proc[p].o][v] /\ reserved'[v] = reserved[v] + Qty[proc[p].o][v]
      BY <1>0, <3>1, <3>2, ReserveHolds
    <3>. QED  BY <1>0, <3>3
  <2>. QED  BY <2>1, <2>2
<1>3. ASSUME NEW p \in Procs, NEW w \in Variants, CloseHold(p, w) PROVE reserved'[v] = HeldUnits(v)'
  <2>1. proc[p].o \in Orders /\ hold[proc[p].o][w] = "ACTIVE"
    BY <1>3, GoesOn DEF CloseHold, ClosesActive, Closing, ActiveLines
  <2>2. PICK status \in {"CONSUMED", "RELEASED"} : CloseRow(proc[p].o, w, status)
    BY <1>3 DEF CloseHold
  <2>. DEFINE o == proc[p].o
  <2>3. IF w # v THEN HeldUnits(v)' = HeldUnits(v) /\ reserved'[v] = reserved[v]
        ELSE /\ HeldUnits(v)' = HeldUnits(v) - (IF hold[o][v] = "ACTIVE" THEN Qty[o][v] ELSE 0)
             /\ reserved'[v] = reserved[v] - Qty[o][v]
    BY <1>0, <2>1, <2>2, CloseHolds
  <2>. QED  BY <1>0, <2>1, <2>3
<1>4. ASSUME NEW p \in Procs, NEW w \in Variants, SellLine(p, w) \/ PutBack(p, w)
      PROVE  hold' = hold /\ reserved' = reserved
  BY <1>4 DEF SellLine, PutBack, Move, MoveTo
<1>5. ASSUME CorrectStock PROVE hold' = hold /\ reserved' = reserved
  BY <1>5 DEF CorrectStock, Corrections, Adjust, SetInventory, Receive, SetPolicy, Move, MoveTo
<1>6. ASSUME UNCHANGED stockVars PROVE hold' = hold /\ reserved' = reserved
  BY <1>6 DEF stockVars
<1>. QED  BY <1>1, <1>2, <1>3, <1>4, <1>5, <1>6, QuietStep

LEMMA ExactInit == Init => ClosesActive /\ ReservedExact
<1>. SUFFICES ASSUME Init PROVE ClosesActive /\ ReservedExact
  OBVIOUS
<1>1. ClosesActive
  BY DEF Init, ClosesActive, Closing, Idle, Handler
<1>2. ReservedExact
  BY NothingHeld DEF Init, ReservedExact
<1>. QED  BY <1>1, <1>2

(* In every behaviour in which no two handlers close the holds of one order at the
   same time, `reserved` is exactly what the active reservations hold. *)
THEOREM ReservedIsHeld == Spec /\ []OneCloser => []ReservedExact
  BY ExactInit, ClosesActiveStep, ReservedExactStep, KnownCorrect, PTL DEF Spec
----------------------------------------------------------------------------
(* Where only captures settle orders, one handler at a time closes the holds of an
   order: the webhook that moved it to PAID, which happens once. *)
CaptureOps == Ops \subseteq {"AUTHORIZED", "CAPTURED", "stock", "crash", "fault"}
ClosesRows(r) == r.at \in {"close", "closing"}

Capturer(r, orders) ==
    /\ r.at \in {"idle", "place", "ref", "flip", "close", "closing", "sale", "selling"}
    /\ (r.at = "flip" \/ ClosesRows(r)) => r.op = "webhook" /\ r.to = "PAID"
    /\ ClosesRows(r) => orders[r.o] = "PAID"

CapturesAlone == \A p, q \in Procs : (p # q /\ ClosesRows(proc[p]) /\ ClosesRows(proc[q])) => proc[p].o # proc[q].o

OnlyCaptures ==
    /\ \A o \in Orders : ~aged[o] /\ ~shipped[o] /\ sent[o] \subseteq {"AUTHORIZED", "CAPTURED"}
    /\ \A w \in Workers : stale[w] = {}

CaptureInv == (\A p \in Procs : Capturer(proc[p], order)) /\ CapturesAlone /\ OnlyCaptures

LEMMA IdleCapturer == Idle.at = "idle" /\ \A orders : Capturer(Idle, orders)
  BY DEF Idle, Handler, Capturer, ClosesRows

(* Orders stay paid, and only a handler that has just made its order paid, or was
   closing its rows already, closes rows. *)
LEMMA CaptureGoes ==
    ASSUME TypeInv, CaptureInv, NEW p \in Procs, NEW r, Goes(p, r), Capturer(r, order'), OnlyCaptures',
           \A o \in Orders : order[o] = "PAID" => order'[o] = "PAID",
           ClosesRows(r) => \/ ClosesRows(proc[p]) /\ r.o = proc[p].o
                            \/ order[r.o] # "PAID"
    PROVE  CaptureInv'
<1>1. \A q \in Procs : proc'[q] = IF q = p THEN r ELSE proc[q]
  BY DEF Goes, TypeInv, LifecycleTypeOK
<1>2. ASSUME NEW q \in Procs PROVE Capturer(proc'[q], order')
  <2>1. CASE q = p
    BY <1>1, <2>1
  <2>2. CASE q # p
    <3>1. proc'[q] = proc[q] /\ Capturer(proc[q], order)
      BY <1>1, <2>2 DEF CaptureInv
    <3>2. ClosesRows(proc[q]) => proc[q].o \in Orders
      BY GoesOn DEF ClosesRows
    <3>. QED  BY <3>1, <3>2 DEF Capturer
  <2>. QED  BY <2>1, <2>2
<1>3. CapturesAlone'
  <2>1. ASSUME NEW q \in Procs, q # p, ClosesRows(r), ClosesRows(proc[q]) PROVE r.o # proc[q].o
    <3>1. order[proc[q].o] = "PAID"
      BY <2>1 DEF CaptureInv, Capturer
    <3>2. CASE ClosesRows(proc[p]) /\ r.o = proc[p].o
      BY <2>1, <3>2 DEF CaptureInv, CapturesAlone
    <3>3. CASE order[r.o] # "PAID"
      BY <3>1, <3>3
    <3>. QED  BY <2>1, <3>2, <3>3
  <2>2. ASSUME NEW q \in Procs, NEW u \in Procs, q # u, ClosesRows(proc'[q]), ClosesRows(proc'[u])
        PROVE  proc'[q].o # proc'[u].o
    <3>1. CASE q = p
      BY <1>1, <2>1, <2>2, <3>1
    <3>2. CASE u = p
      BY <1>1, <2>1, <2>2, <3>2
    <3>3. CASE q # p /\ u # p
      BY <1>1, <2>2, <3>3 DEF CaptureInv, CapturesAlone
    <3>. QED  BY <3>1, <3>2, <3>3
  <2>3. \A q \in Procs : ClosesRows(proc[q])' <=> ClosesRows(proc'[q])
    BY DEF ClosesRows
  <2>. QED  BY <2>2, <2>3 DEF CapturesAlone
<1>. QED  BY <1>2, <1>3 DEF CaptureInv, Capturer, ClosesRows

(* The orders stand still. *)
LEMMA CaptureStill ==
    ASSUME TypeInv, CaptureInv, NEW p \in Procs, NEW r, Goes(p, r), Capturer(r, order),
           UNCHANGED <<order, aged, shipped, sent>>, stale' = stale \/ DropList(p),
           ClosesRows(r) => ClosesRows(proc[p]) /\ r.o = proc[p].o
    PROVE  CaptureInv'
<1>1. order' = order /\ aged' = aged /\ shipped' = shipped /\ sent' = sent
  OBVIOUS
<1>2. OnlyCaptures'
  BY <1>1 DEF CaptureInv, OnlyCaptures, DropList
<1>. QED  BY <1>1, <1>2, CaptureGoes

LEMMA CaptureBegins ==
    ASSUME CaptureOps, TypeInv, CaptureInv, NEW h \in Handlers, Begins(h)
    PROVE  CaptureInv'
<1>0. h \in Procs
  BY DEF Procs
<1>1. PICK o \in Orders :
         \/ BeginCheckout(h, o) \/ BeginCancel(h, o) \/ BeginShipment(h, o) \/ Delivered(h, o)
         \/ \E s \in OrderStatus : BeginUpdate(h, o, s)
         \/ \E e \in Events : HandleWebhook(h, o, e)
  BY DEF Begins
<1>2. UNCHANGED <<order, aged, shipped, sent, stale>>
  BY <1>1 DEF BeginCheckout, HandleWebhook, BeginUpdate, BeginCancel, BeginShipment, Delivered
<1>3. ASSUME NEW r, Goes(h, r), Capturer(r, order), ~ClosesRows(r) PROVE CaptureInv'
  BY <1>0, <1>2, <1>3, CaptureStill
<1>4. CASE BeginCheckout(h, o)
  <2>. DEFINE r == [Handler("place", "checkout", o, "NONE", "NONE") EXCEPT
                      !.neg = policy.backorder, !.track = policy.track]
  <2>1. Capturer(r, order) /\ ~ClosesRows(r) /\ Goes(h, r)
    BY <1>4 DEF BeginCheckout, Handler, Capturer, ClosesRows
  <2>. HIDE DEF r
  <2>. QED  BY <1>3, <2>1
<1>5. CASE BeginCancel(h, o) \/ BeginShipment(h, o) \/ Delivered(h, o) \/ \E s \in OrderStatus : BeginUpdate(h, o, s)
  BY <1>5 DEF BeginCancel, BeginShipment, Delivered, BeginUpdate, CaptureOps, CaptureInv, OnlyCaptures
<1>6. ASSUME NEW e \in Events, HandleWebhook(h, o, e) PROVE CaptureInv'
  <2>. DEFINE r == Handler("flip", "webhook", o, "NONE", OrderStatusOf(e))
  <2>1. e \in {"AUTHORIZED", "CAPTURED"}
    BY <1>6 DEF HandleWebhook, CaptureInv, OnlyCaptures
  <2>2. OrderStatusOf(e) \in {"PAID", "NONE"}
    BY <2>1 DEF OrderStatusOf
  <2>3. Goes(h, Idle) \/ (Goes(h, r) /\ OrderStatusOf(e) = "PAID")
    BY <1>6, <2>2 DEF HandleWebhook
  <2>4. OrderStatusOf(e) = "PAID" => Capturer(r, order) /\ ~ClosesRows(r)
    BY DEF Handler, Capturer, ClosesRows
  <2>. HIDE DEF r
  <2>. QED  BY <1>3, <2>3, <2>4, IdleCapturer DEF ClosesRows
<1>. QED  BY <1>1, <1>4, <1>5, <1>6

LEMMA CaptureProceeds ==
    ASSUME TypeInv, Known, CaptureInv, NEW p \in Procs, Proceeds(p) \/ Crash(p) \/ StockCallFails(p)
    PROVE  CaptureInv'
<1>. DEFINE r == proc[p]
<1>0. Capturer(r, order) /\ OnlyCaptures
  BY DEF CaptureInv
<1>1. ASSUME NEW s, Goes(p, s), Capturer(s, order), UNCHANGED <<order, aged, shipped, sent>>,
             stale' = stale \/ DropList(p), ClosesRows(s) => ClosesRows(r) /\ s.o = r.o
      PROVE  CaptureInv'
  BY <1>1, CaptureStill
<1>2. ASSUME RejectOrder(p) \/ StoreRef(p) \/ FlipRefused(p) \/ Crash(p) PROVE CaptureInv'
  <2>1. Goes(p, Idle) /\ UNCHANGED <<order, aged, shipped, sent>> /\ (stale' = stale \/ DropList(p))
    BY <1>2 DEF RejectOrder, StoreRef, FlipRefused, CountChecked, Crash, Finishes
  <2>. QED  BY <1>1, <2>1, IdleCapturer DEF ClosesRows
<1>3. CASE PlaceOrder(p)
  <2>. DEFINE s == [r EXCEPT !.at = "ref"]
  <2>1. r.at = "place" /\ r.o \in Orders /\ order[r.o] = "NONE"
    BY <1>3, GoesOn DEF PlaceOrder, Known, Knows
  <2>2. s.at = "ref"
    BY <2>1, GoesOn DEF Steps
  <2>3. Capturer(s, order') /\ ~ClosesRows(s)
    BY <2>2 DEF Capturer, ClosesRows
  <2>4. Goes(p, s) /\ order' = [order EXCEPT ![r.o] = "PENDING"] /\ UNCHANGED <<aged, shipped, sent, stale>>
    BY <1>3 DEF PlaceOrder
  <2>5. \A o \in Orders : order[o] = "PAID" => order'[o] = "PAID"
    BY <2>1, <2>4 DEF TypeInv, LifecycleTypeOK
  <2>6. OnlyCaptures'
    BY <1>0, <2>4 DEF OnlyCaptures
  <2>. HIDE DEF s, r
  <2>. QED  BY <2>3, <2>4, <2>5, <2>6, CaptureGoes
<1>4. CASE FlipOrder(p)
  <2>. DEFINE s == [r EXCEPT !.at = "close"]
  <2>1. r.at = "flip" /\ r.o \in Orders /\ r.op = "webhook" /\ r.to = "PAID"
    BY <1>0, <1>4, GoesOn DEF FlipOrder, Capturer
  <2>2. s.at = "close" /\ s.op = "webhook" /\ s.to = "PAID" /\ s.o = r.o
    BY <2>1, GoesOn DEF Steps
  <2>3. order[r.o] # "PAID" /\ Goes(p, s) /\ order' = [order EXCEPT ![r.o] = "PAID"]
        /\ UNCHANGED <<aged, shipped, sent, stale>>
    BY <1>4, <2>1 DEF FlipOrder, FlipAllowed
  <2>4. \A o \in Orders : order'[o] = IF o = r.o THEN "PAID" ELSE order[o]
    BY <2>3 DEF TypeInv, LifecycleTypeOK
  <2>5. Capturer(s, order')
    BY <2>1, <2>2, <2>4 DEF Capturer
  <2>6. OnlyCaptures'
    BY <1>0, <2>3 DEF OnlyCaptures
  <2>. HIDE DEF s, r
  <2>. QED  BY <2>2, <2>3, <2>4, <2>5, <2>6, CaptureGoes
<1>5. ASSUME r.at \in {"close", "closing"}
      PROVE  AfterClosing(r).at \in {"idle", "sale"} /\ Capturer(AfterClosing(r), order) /\ ~ClosesRows(AfterClosing(r))
  <2>1. r.op = "webhook" /\ r.to = "PAID"
    BY <1>0, <1>5 DEF Capturer, ClosesRows
  <2>2. AfterClosing(r) = [r EXCEPT !.at = "sale", !.todo = {}]
    BY <2>1 DEF AfterClosing, Capturing
  <2>3. AfterClosing(r).at = "sale"
    BY <1>5, <2>2, GoesOn DEF Steps
  <2>. QED  BY <2>3 DEF Capturer, ClosesRows
<1>6. CASE ListHolds(p)
  <2>. DEFINE s == [r EXCEPT !.at = "closing", !.todo = ActiveLines(r.o)]
  <2>1. r.at = "close" /\ (Goes(p, AfterClosing(r)) \/ Goes(p, s)) /\ UNCHANGED <<order, aged, shipped, sent, stale>>
    BY <1>6 DEF ListHolds
  <2>2. s.at = "closing" /\ s.op = r.op /\ s.to = r.to /\ s.o = r.o
    BY <2>1, GoesOn DEF Steps
  <2>3. Capturer(s, order) /\ ClosesRows(r)
    BY <1>0, <2>1, <2>2 DEF Capturer, ClosesRows
  <2>. HIDE DEF s, r
  <2>. QED  BY <1>1, <1>5, <2>1, <2>2, <2>3
<1>7. ASSUME NEW v \in Variants, CloseHold(p, v) PROVE CaptureInv'
  <2>. DEFINE s == [r EXCEPT !.todo = r.todo \ {v}]
  <2>1. r.at = "closing" /\ (Goes(p, AfterClosing(r)) \/ Goes(p, s)) /\ UNCHANGED <<order, aged, shipped, sent, stale>>
    BY <1>7 DEF CloseHold
  <2>2. s.at = "closing" /\ s.op = r.op /\ s.to = r.to /\ s.o = r.o
    BY <2>1, GoesOn
  <2>3. Capturer(s, order) /\ ClosesRows(r)
    BY <1>0, <2>1, <2>2 DEF Capturer, ClosesRows
  <2>. HIDE DEF s, r
  <2>. QED  BY <1>1, <1>5, <2>1, <2>2, <2>3
<1>8. CASE ReadSalePolicy(p)
  <2>. DEFINE s == [r EXCEPT !.at = "selling", !.todo = Lines(r.o), !.neg = policy.backorder]
  <2>1. r.at = "sale" /\ (Goes(p, Idle) \/ Goes(p, s)) /\ UNCHANGED <<order, aged, shipped, sent, stale>>
    BY <1>8 DEF ReadSalePolicy
  <2>2. s.at = "selling"
    BY <2>1, GoesOn DEF Steps
  <2>3. Capturer(s, order) /\ ~ClosesRows(s) /\ ~ClosesRows(Idle)
    BY <2>2, IdleCapturer DEF Capturer, ClosesRows
  <2>. HIDE DEF s, r
  <2>. QED  BY <1>1, <2>1, <2>3, IdleCapturer
<1>9. ASSUME NEW v \in Variants, SellLine(p, v) PROVE CaptureInv'
  <2>. DEFINE s == [r EXCEPT !.todo = r.todo \ {v}]
  <2>1. r.at = "selling" /\ (Goes(p, Idle) \/ Goes(p, s)) /\ UNCHANGED <<order, aged, shipped, sent, stale>>
    BY <1>9 DEF SellLine
  <2>2. s.at = "selling"
    BY <2>1, GoesOn
  <2>3. Capturer(s, order) /\ ~ClosesRows(s) /\ ~ClosesRows(Idle)
    BY <2>2, IdleCapturer DEF Capturer, ClosesRows
  <2>. HIDE DEF s, r
  <2>. QED  BY <1>1, <2>1, <2>3, IdleCapturer
<1>10. ASSUME \/ ReadRestorePolicy(p) \/ \E v \in Variants : PutBack(p, v)
              \/ WriteStatus(p) \/ CallRefund(p) \/ RecordRefund(p) \/ CreateShipment(p)
       PROVE  FALSE
  BY <1>0, <1>10 DEF Capturer, ReadRestorePolicy, PutBack, WriteStatus, CallRefund, RecordRefund, CreateShipment
<1>11. CASE StockCallFails(p)
  <2>1. /\ Goes(p, Idle) \/ (Goes(p, AfterClosing(r)) /\ r.at \in {"close", "closing"})
        /\ UNCHANGED <<order, aged, shipped, sent>> /\ DropList(p)
    BY <1>11 DEF StockCallFails
  <2>2. ~ClosesRows(Idle)
    BY IdleCapturer DEF ClosesRows
  <2>. HIDE DEF r
  <2>. QED  BY <1>1, <1>5, <2>1, <2>2, IdleCapturer
<1>. QED  BY <1>2, <1>3, <1>4, <1>6, <1>7, <1>8, <1>9, <1>10, <1>11 DEF Proceeds

LEMMA CaptureStep == CaptureOps /\ TypeInv /\ Known /\ CaptureInv /\ [Next]_vars => CaptureInv'
<1>. SUFFICES ASSUME CaptureOps, TypeInv, Known, CaptureInv, [Next]_vars PROVE CaptureInv'
  OBVIOUS
<1>0. ASSUME UNCHANGED <<proc, order>>, OnlyCaptures' PROVE CaptureInv'
  BY <1>0 DEF CaptureInv, CapturesAlone
<1>1. CASE UNCHANGED vars
  BY <1>0, <1>1 DEF vars, flowVars, CaptureInv, OnlyCaptures
<1>2. ASSUME NEW h \in Handlers, Begins(h) PROVE CaptureInv'
  BY <1>2, CaptureBegins
<1>3. ASSUME NEW w \in Workers, Expires(w) PROVE CaptureInv'
  <2>1. \A o \in Orders : ~VisitStale(w, o)
    BY DEF VisitStale, CaptureInv, OnlyCaptures
  <2>2. ScanStale(w)
    BY <1>3, <2>1 DEF Expires
  <2>3. OnlyCaptures'
    BY <2>2 DEF ScanStale, CaptureInv, OnlyCaptures, TypeInv, LifecycleTypeOK
  <2>. QED  BY <1>0, <2>2, <2>3 DEF ScanStale
<1>4. ASSUME NEW p \in Procs, Proceeds(p) \/ Crash(p) \/ StockCallFails(p) PROVE CaptureInv'
  BY <1>4, CaptureProceeds
<1>5. ASSUME NEW o \in Orders, HoldsAge(o) PROVE CaptureInv'
  BY <1>5 DEF HoldsAge, CaptureOps
<1>6. ASSUME NEW o \in Orders, NEW e \in Events, ProviderSends(o, e) PROVE CaptureInv'
  <2>1. e \in {"AUTHORIZED", "CAPTURED"}
    BY <1>6 DEF ProviderSends, CaptureOps, Events
  <2>2. OnlyCaptures'
    BY <1>6, <2>1 DEF ProviderSends, CaptureInv, OnlyCaptures, TypeInv, LifecycleTypeOK
  <2>. QED  BY <1>0, <1>6, <2>2 DEF ProviderSends
<1>7. CASE CorrectStock
  <2>1. OnlyCaptures'
    BY <1>7 DEF CorrectStock, CaptureInv, OnlyCaptures
  <2>. QED  BY <1>0, <1>7, <2>1 DEF CorrectStock
<1>. QED  BY <1>1, <1>2, <1>3, <1>4, <1>5, <1>6, <1>7 DEF Next

(* Units are counted right where only captures settle orders, whatever else is
   bought and corrected, and whoever dies or has a stock call swallowed. *)
THEOREM UnitsCounted ==
    ASSUME Ops \subseteq {"AUTHORIZED", "CAPTURED", "stock", "crash", "fault"}
    PROVE  Spec => []UnitsAreCounted
<1>0. CaptureOps
  BY DEF CaptureOps
<1>1. Init => CaptureInv
  BY IdleCapturer DEF Init, CaptureInv, CapturesAlone, OnlyCaptures, ClosesRows
<1>2. CaptureInv => OneCloser
  BY DEF CaptureInv, CapturesAlone, OneCloser, Closing, ClosesRows
<1>3. Spec => []OneCloser
  BY <1>0, <1>1, <1>2, CaptureStep, KnownCorrect, PTL DEF Spec
<1>4. (LedgerExplainsStock /\ NeverNegativeWithoutBackorder) /\ ReservedExact => UnitsAreCounted
  BY DEF UnitsAreCounted
<1>. QED  BY <1>3, <1>4, ReservedIsHeld, LifecycleLedger, PTL
============================================================================
