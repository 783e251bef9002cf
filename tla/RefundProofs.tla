---------------------------- MODULE RefundProofs ----------------------------
(***************************************************************************)
(* Theorems of Refunds, for any number of handlers, orders and returns and *)
(* any amounts: the tables keep their types; what is recorded as refunded  *)
(* is within the order's value and was sent, and so is what returns and    *)
(* credit notes claim, however handlers overlap, fail and die.  When       *)
(* requests do not overlap, no more is sent back than the order's value,   *)
(* and what a refund has to bring about is done when its request ends.     *)
(***************************************************************************)
EXTENDS Refunds, Sums

TypeInv == RefundTypeOK

PaySteps == {"ask", "record", "flip", "close", "note"}

(* Where a handler stands tells what it carries. *)
LEMMA StepTells ==
    ASSUME NEW p \in Work
    PROVE  /\ p.at = "idle" => p = Idle
           /\ p.at = "create" => p \in Creating
           /\ p.at \in {"move", "restock"} => p \in Moving
           /\ p.at = "check" => p \in Checking
           /\ p.at \in PaySteps => p \in Paying
           /\ p.at \in {"cancel", "restore"} => p \in Cancelling
  BY DEF Work, Idle, Creating, Moving, Checking, Paying, Cancelling, PaySteps

LEMMA PayingMoves ==
    ASSUME NEW p \in Paying, NEW s \in PaySteps
    PROVE  [p EXCEPT !.at = s] \in Paying
  BY DEF Paying, PaySteps

LEMMA RowMoves ==
    ASSUME NEW row \in ReturnRow, NEW s \in ReturnStatus
    PROVE  [row EXCEPT !.status = s] \in ReturnRow
  BY DEF ReturnRow

(* Rounding a quotient of natural numbers gives one. *)
LEMMA RoundedNat ==
    ASSUME NEW a \in Nat, NEW b \in Nat \ {0}
    PROVE  Rounded(a, b) \in Nat
  BY DEF Rounded

LEMMA TotalNat == Total \in Nat
  BY RefundAssumption DEF RefundAssumption, Total

LEMMA RefundForNat ==
    ASSUME NEW q \in Nat
    PROVE  RefundFor(q) \in Nat
  <1>1. Paid * q \in Nat
    BY RefundAssumption DEF RefundAssumption
  <1>2. Rounded(Paid * q, Quantity) \in Nat
    BY <1>1, RoundedNat, RefundAssumption DEF RefundAssumption
  <1>. QED  BY <1>2, RefundAssumption DEF RefundAssumption, RefundFor

LEMMA NetNat ==
    ASSUME TypeInv, NEW r \in Returns
    PROVE  NetOf(r) \in Nat
  <1>1. return[r].refund \in Nat
    BY DEF TypeInv, RefundTypeOK, ReturnRow
  <1>2. return[r].refund * (100 - Fee) \in Nat
    <2>1. 100 - Fee \in Nat
      BY RefundAssumption DEF RefundAssumption
    <2>. QED  BY <1>1, <2>1
  <1>3. Rounded(return[r].refund * (100 - Fee), 100) \in Nat
    BY <1>2, RoundedNat
  <1>. QED  BY <1>3 DEF NetOf

LEMMA GoesKeepsType ==
    ASSUME TypeInv, NEW h \in Handlers, NEW p \in Work, Goes(h, p)
    PROVE  proc' \in [Handlers -> Work]
  BY DEF TypeInv, RefundTypeOK, Goes

(* What a statement of a refund leaves behind keeps the handler's type. *)
LEMMA AfterRefundTyped ==
    ASSUME NEW p \in Paying
    PROVE  AfterRefund(p) \in Paying
  BY PayingMoves DEF AfterRefund, PaySteps

LEMMA AfterNoteTyped ==
    ASSUME NEW p \in Paying
    PROVE  AfterNote(p) \in Work
  BY DEF AfterNote, Paying, Work, Cancelling
----------------------------------------------------------------------------

LEMMA WorkAt ==
    ASSUME TypeInv, NEW h \in Handlers
    PROVE  proc[h] \in Work
  BY DEF TypeInv, RefundTypeOK

LEMMA InitTyped == Init => TypeInv
<1>. SUFFICES ASSUME Init PROVE TypeInv
  OBVIOUS
<1>1. PICK o \in Orders :
         return = [r \in Returns |-> [status |-> "NONE", o |-> o, quantity |-> 0,
                                      damaged |-> FALSE, refund |-> 0]]
  BY DEF Init
<1>2. return \in [Returns -> ReturnRow]
  BY <1>1, RefundAssumption DEF RefundAssumption, ReturnRow
<1>3. proc \in [Handlers -> Work]
  BY DEF Init, Work
<1>4. payment \in [Orders -> [status : PaymentStatus, refunded : Nat]]
  BY DEF Init, PaymentStatus
<1>. QED  BY <1>2, <1>3, <1>4 DEF Init, TypeInv, RefundTypeOK, OrderStatus

(* The steps of returns. *)
LEMMA ReturnTyped ==
    ASSUME TypeInv, NEW h \in Handlers, ReturnSteps(h)
    PROVE  TypeInv'
<1>. USE DEF money, goods, notes
<1>0. proc[h] \in Work
  BY WorkAt
<1>1. ASSUME NEW r \in Returns, NEW o \in Orders, NEW q \in 1..Quantity, NEW damaged \in BOOLEAN,
             NEW status \in {"REQUESTED", "APPROVED"}, BeginRequest(h, r, o, q, damaged, status)
      PROVE  TypeInv'
  <2>. DEFINE row == [status |-> status, o |-> o, quantity |-> q, damaged |-> damaged,
                      refund |-> RefundFor(q)]
  <2>1. q \in Nat /\ q \in 0..Quantity
    BY RefundAssumption DEF RefundAssumption
  <2>2. RefundFor(q) \in Nat
    BY <2>1, RefundForNat
  <2>3. row \in ReturnRow
    BY <2>1, <2>2 DEF ReturnRow, ReturnStatus
  <2>. HIDE DEF row
  <2>4. [at |-> "create", r |-> r, row |-> row] \in Work
    BY <2>3 DEF Work, Creating
  <2>5. Goes(h, [at |-> "create", r |-> r, row |-> row])
    BY <1>1 DEF BeginRequest, row
  <2>6. proc' \in [Handlers -> Work]
    BY <2>4, <2>5, GoesKeepsType
  <2>. QED  BY <1>1, <2>6 DEF BeginRequest, TypeInv, RefundTypeOK
<1>2. ASSUME NEW r \in Returns, NEW to \in ReturnStatus, BeginMove(h, r, to)
      PROVE  TypeInv'
  <2>1. return[r].o \in Orders
    BY DEF TypeInv, RefundTypeOK, ReturnRow
  <2>2. [at |-> "move", r |-> r, o |-> return[r].o, to |-> to] \in Work
    BY <2>1 DEF Work, Moving
  <2>3. proc' \in [Handlers -> Work]
    BY <1>2, <2>2, GoesKeepsType DEF BeginMove
  <2>. QED  BY <1>2, <2>3 DEF BeginMove, TypeInv, RefundTypeOK
<1>3. ASSUME CreateReturn(h) PROVE TypeInv'
  <2>1. proc[h] \in Creating
    BY <1>0, <1>3, StepTells DEF CreateReturn
  <2>2. proc[h].r \in Returns /\ proc[h].row \in ReturnRow
    BY <2>1 DEF Creating
  <2>3. return' \in [Returns -> ReturnRow]
    BY <1>3, <2>2 DEF CreateReturn, TypeInv, RefundTypeOK
  <2>4. proc' \in [Handlers -> Work]
    BY <1>3, GoesKeepsType DEF CreateReturn, Work
  <2>. QED  BY <1>3, <2>3, <2>4 DEF CreateReturn, TypeInv, RefundTypeOK
<1>4. ASSUME WriteMove(h) PROVE TypeInv'
  <2>1. proc[h] \in Moving
    BY <1>0, <1>4, StepTells DEF WriteMove
  <2>2. proc[h].r \in Returns /\ proc[h].to \in ReturnStatus
    BY <2>1 DEF Moving
  <2>3. [return[proc[h].r] EXCEPT !.status = proc[h].to] \in ReturnRow
    BY <2>2, RowMoves DEF TypeInv, RefundTypeOK
  <2>4. return' = [return EXCEPT ![proc[h].r] = [return[proc[h].r] EXCEPT !.status = proc[h].to]]
    BY <1>4 DEF WriteMove
  <2>5. return' \in [Returns -> ReturnRow]
    BY <2>2, <2>3, <2>4 DEF TypeInv, RefundTypeOK
  <2>6. [proc[h] EXCEPT !.at = "restock"] \in Work /\ Idle \in Work
    BY <2>1 DEF Moving, Work
  <2>7. proc' \in [Handlers -> Work]
    BY <1>4, <2>6, GoesKeepsType DEF WriteMove
  <2>. QED  BY <1>4, <2>5, <2>7 DEF WriteMove, TypeInv, RefundTypeOK
<1>5. ASSUME RestockReturn(h) PROVE TypeInv'
  <2>1. proc[h] \in Moving
    BY <1>0, <1>5, StepTells DEF RestockReturn
  <2>2. return[proc[h].r] \in ReturnRow
    BY <2>1 DEF Moving, TypeInv, RefundTypeOK
  <2>3. SoundUnits(return[proc[h].r]) \in Nat /\ return[proc[h].r].o \in Orders
    BY <2>2, RefundAssumption DEF RefundAssumption, ReturnRow, SoundUnits
  <2>4. restocked' \in [Orders -> Nat]
    BY <1>5, <2>3 DEF RestockReturn, TypeInv, RefundTypeOK
  <2>5. proc' \in [Handlers -> Work]
    BY <1>5, GoesKeepsType DEF RestockReturn, Work
  <2>. QED  BY <1>5, <2>4, <2>5 DEF RestockReturn, TypeInv, RefundTypeOK
<1>6. ASSUME NEW r \in Returns, NEW amount \in Amounts \cup {NetOf(r)}, BeginRefund(h, r, amount)
      PROVE  TypeInv'
  <2>1. return[r].o \in Orders
    BY DEF TypeInv, RefundTypeOK, ReturnRow
  <2>2. amount \in Nat
    BY NetNat, RefundAssumption DEF RefundAssumption
  <2>3. Pays(return[r].o, {r}, {amount}) \in Work
    BY <2>1, <2>2 DEF Pays, Checking, Work
  <2>4. proc' \in [Handlers -> Work]
    BY <1>6, <2>3, GoesKeepsType DEF BeginRefund
  <2>. QED  BY <1>6, <2>4 DEF BeginRefund, TypeInv, RefundTypeOK
<1>. QED  BY <1>1, <1>2, <1>3, <1>4, <1>5, <1>6 DEF ReturnSteps

(* The steps of PaymentService.refund and of what follows a return's refund. *)
LEMMA RefundTyped ==
    ASSUME TypeInv, NEW h \in Handlers, RefundSteps(h)
    PROVE  TypeInv'
<1>. USE DEF money, goods, notes
<1>0. proc[h] \in Work
  BY WorkAt
<1>p. ASSUME proc[h].at \in PaySteps
      PROVE  /\ proc[h] \in Paying /\ proc[h].o \in Orders
             /\ proc[h].for \in SUBSET Returns /\ proc[h].amount \in SUBSET (1..Total)
             /\ proc[h].read \in 0..Total
  <2>1. proc[h] \in Paying
    BY <1>0, <1>p, StepTells
  <2>. QED  BY <2>1 DEF Paying
<1>w. \A p \in Paying : p \in Work
  BY DEF Work
<1>1. ASSUME CheckRefund(h) PROVE TypeInv'
  <2>. DEFINE p == proc[h]
              amounts == (IF p.amount = {} THEN {Remaining(p.o)} ELSE p.amount) \cap 1..Remaining(p.o)
  <2>1. p \in Checking
    BY <1>0, <1>1, StepTells DEF CheckRefund
  <2>2. p.o \in Orders /\ p.for \in SUBSET Returns
    BY <2>1 DEF Checking
  <2>3. payment[p.o].refunded \in Nat
    BY <2>2 DEF TypeInv, RefundTypeOK
  <2>4. CASE Refundable(p.o) /\ amounts # {}
    <3>1. Remaining(p.o) \in Int /\ Remaining(p.o) <= Total /\ Remaining(p.o) >= 1
      BY <2>3, <2>4, TotalNat DEF Remaining
    <3>2. amounts \in SUBSET (1..Total)
      BY <3>1, TotalNat
    <3>3. payment[p.o].refunded \in 0..Total
      BY <2>3, <3>1, TotalNat DEF Remaining
    <3>4. [at |-> "ask", o |-> p.o, for |-> p.for, amount |-> amounts,
           read |-> payment[p.o].refunded] \in Paying
      BY <2>2, <3>2, <3>3 DEF Paying
    <3>5. Goes(h, [at |-> "ask", o |-> p.o, for |-> p.for, amount |-> amounts,
                   read |-> payment[p.o].refunded])
      BY <1>1, <2>4 DEF CheckRefund
    <3>6. proc' \in [Handlers -> Work]
      BY <1>w, <3>4, <3>5, GoesKeepsType
    <3>. QED  BY <1>1, <3>6 DEF CheckRefund, TypeInv, RefundTypeOK
  <2>5. CASE ~(Refundable(p.o) /\ amounts # {})
    <3>1. Goes(h, Idle)
      BY <1>1, <2>5 DEF CheckRefund
    <3>2. proc' \in [Handlers -> Work]
      BY <3>1, GoesKeepsType DEF Work
    <3>. QED  BY <1>1, <3>2 DEF CheckRefund, TypeInv, RefundTypeOK
  <2>. QED  BY <2>4, <2>5
<1>2. ASSUME ProviderFails(h) PROVE TypeInv'
  <2>1. proc' \in [Handlers -> Work]
    BY <1>2, GoesKeepsType DEF ProviderFails, Failed, Work
  <2>. QED  BY <1>2, <2>1 DEF ProviderFails, TypeInv, RefundTypeOK
<1>3. ASSUME FlipOrder(h) PROVE TypeInv'
  <2>1. proc[h] \in Paying /\ proc[h].o \in Orders
    BY <1>3, <1>p DEF FlipOrder, PaySteps
  <2>2. proc' \in [Handlers -> Work]
    BY <1>3, <1>w, <2>1, AfterRefundTyped, GoesKeepsType DEF FlipOrder
  <2>3. order' \in [Orders -> OrderStatus]
    BY <1>3, <2>1 DEF FlipOrder, OrderStatus, TypeInv, RefundTypeOK
  <2>. QED  BY <1>3, <2>2, <2>3 DEF FlipOrder, TypeInv, RefundTypeOK
<1>4. ASSUME NEW a \in proc[h].amount, AskProvider(h, a) PROVE TypeInv'
  <2>1. proc[h] \in Paying /\ proc[h].o \in Orders /\ a \in Nat
    BY <1>4, <1>p, TotalNat DEF AskProvider, PaySteps
  <2>2. [proc[h] EXCEPT !.at = "record"] \in Paying
    BY <2>1, PayingMoves DEF PaySteps
  <2>3. proc' \in [Handlers -> Work]
    BY <1>4, <1>w, <2>2, GoesKeepsType DEF AskProvider
  <2>4. sentBack' \in [Orders -> Nat]
    BY <1>4, <2>1 DEF AskProvider, TypeInv, RefundTypeOK
  <2>. QED  BY <1>4, <2>3, <2>4 DEF AskProvider, TypeInv, RefundTypeOK
<1>5. ASSUME NEW a \in proc[h].amount, RecordRefund(h, a) PROVE TypeInv'
  <2>1. proc[h] \in Paying /\ proc[h].o \in Orders /\ a \in Nat /\ proc[h].read \in Nat
    BY <1>5, <1>p, TotalNat DEF RecordRefund, PaySteps
  <2>2. proc[h].read + a \in Nat
    BY <2>1
  <2>3. [proc[h] EXCEPT !.at = "flip"] \in Paying /\ AfterRefund(proc[h]) \in Paying
    BY <2>1, PayingMoves, AfterRefundTyped DEF PaySteps
  <2>4. proc' \in [Handlers -> Work]
    BY <1>5, <1>w, <2>3, GoesKeepsType DEF RecordRefund
  <2>5. payment' \in [Orders -> [status : PaymentStatus, refunded : Nat]]
    BY <1>5, <2>1, <2>2 DEF RecordRefund, PaymentStatus, TypeInv, RefundTypeOK
  <2>. QED  BY <1>5, <2>4, <2>5 DEF RecordRefund, TypeInv, RefundTypeOK
<1>6. ASSUME NEW a \in proc[h].amount, WriteNote(h, a) PROVE TypeInv'
  <2>1. proc[h] \in Paying /\ proc[h].o \in Orders /\ a \in Nat /\ proc[h].for \in SUBSET Returns
    BY <1>6, <1>p, TotalNat DEF WriteNote, PaySteps
  <2>2. proc' \in [Handlers -> Work]
    BY <1>6, <2>1, AfterNoteTyped, GoesKeepsType DEF WriteNote
  <2>3. credited' \in [Orders -> Nat]
    <3>1. credited' = credited \/ credited' = [credited EXCEPT ![proc[h].o] = @ + a]
      BY <1>6 DEF WriteNote
    <3>. QED  BY <2>1, <3>1 DEF TypeInv, RefundTypeOK
  <2>4. noted' \in SUBSET Returns
    BY <1>6, <2>1 DEF WriteNote, TypeInv, RefundTypeOK
  <2>. QED  BY <1>6, <2>2, <2>3, <2>4 DEF WriteNote, TypeInv, RefundTypeOK
<1>7. ASSUME NEW a \in proc[h].amount, NEW r \in proc[h].for, CloseReturn(h, r, a) PROVE TypeInv'
  <2>1. proc[h] \in Paying /\ r \in Returns /\ a \in Nat
    BY <1>7, <1>p, TotalNat DEF CloseReturn, PaySteps
  <2>2. [proc[h] EXCEPT !.at = "note"] \in Paying
    BY <2>1, PayingMoves DEF PaySteps
  <2>3. proc' \in [Handlers -> Work]
    BY <1>7, <1>w, <2>2, GoesKeepsType DEF CloseReturn
  <2>4. [return[r] EXCEPT !.status = "REFUNDED", !.refund = a] \in ReturnRow
    BY <2>1 DEF ReturnRow, ReturnStatus, TypeInv, RefundTypeOK
  <2>5. return' = [return EXCEPT ![r] = [return[r] EXCEPT !.status = "REFUNDED", !.refund = a]]
    BY <1>7, <2>1 DEF CloseReturn, TypeInv, RefundTypeOK
  <2>6. return' \in [Returns -> ReturnRow]
    BY <2>1, <2>4, <2>5 DEF TypeInv, RefundTypeOK
  <2>. QED  BY <1>7, <2>3, <2>6 DEF CloseReturn, TypeInv, RefundTypeOK
<1>. QED  BY <1>1, <1>2, <1>3, <1>4, <1>5, <1>6, <1>7 DEF RefundSteps

(* Cancellations, failures and what other components write. *)
LEMMA OtherTyped ==
    ASSUME TypeInv,
           \/ \E h \in Handlers : CancelSteps(h) \/ BestEffortFails(h) \/ Crash(h)
           \/ \E o \in Orders : Elsewhere(o)
    PROVE  TypeInv'
<1>. USE DEF money, goods, notes
<1>1. ASSUME NEW h \in Handlers, NEW o \in Orders, BeginCancel(h, o) PROVE TypeInv'
  <2>1. Pays(o, {}, {}) \in Work /\ [at |-> "cancel", o |-> o] \in Work
    BY DEF Pays, Checking, Cancelling, Work
  <2>2. proc' \in [Handlers -> Work]
    BY <1>1, <2>1, GoesKeepsType DEF BeginCancel
  <2>. QED  BY <1>1, <2>2 DEF BeginCancel, TypeInv, RefundTypeOK
<1>2. ASSUME NEW h \in Handlers, CancelOrder(h) PROVE TypeInv'
  <2>1. proc[h] \in Cancelling
    BY <1>2, WorkAt, StepTells DEF CancelOrder
  <2>2. [proc[h] EXCEPT !.at = "restore"] \in Work /\ proc[h].o \in Orders
    BY <2>1 DEF Cancelling, Work
  <2>3. proc' \in [Handlers -> Work]
    BY <1>2, <2>2, GoesKeepsType DEF CancelOrder
  <2>4. order' \in [Orders -> OrderStatus]
    BY <1>2, <2>2 DEF CancelOrder, OrderStatus, TypeInv, RefundTypeOK
  <2>. QED  BY <1>2, <2>3, <2>4 DEF CancelOrder, TypeInv, RefundTypeOK
<1>3. ASSUME NEW h \in Handlers, RestoreOrder(h) PROVE TypeInv'
  <2>1. proc[h] \in Cancelling
    BY <1>3, WorkAt, StepTells DEF RestoreOrder
  <2>2. restocked' \in [Orders -> Nat]
    BY <1>3, <2>1, RefundAssumption DEF RefundAssumption, RestoreOrder, Cancelling, TypeInv, RefundTypeOK
  <2>3. proc' \in [Handlers -> Work]
    BY <1>3, GoesKeepsType DEF RestoreOrder, Work
  <2>. QED  BY <1>3, <2>2, <2>3 DEF RestoreOrder, TypeInv, RefundTypeOK
<1>4. ASSUME NEW h \in Handlers, BestEffortFails(h) PROVE TypeInv'
  <2>1. proc[h].at = "note" => proc[h] \in Paying
    BY WorkAt, StepTells DEF PaySteps
  <2>2. proc[h].at = "note" => AfterNote(proc[h]) \in Work
    BY <2>1, AfterNoteTyped
  <2>3. proc' \in [Handlers -> Work]
    BY <1>4, <2>2, GoesKeepsType DEF BestEffortFails, Work
  <2>. QED  BY <1>4, <2>3 DEF BestEffortFails, TypeInv, RefundTypeOK
<1>5. ASSUME NEW h \in Handlers, Crash(h) PROVE TypeInv'
  <2>1. proc' \in [Handlers -> Work]
    BY <1>5, GoesKeepsType DEF Crash, Work
  <2>. QED  BY <1>5, <2>1 DEF Crash, TypeInv, RefundTypeOK
<1>6. ASSUME NEW o \in Orders, Elsewhere(o) PROVE TypeInv'
  <2>1. CASE Fulfil(o)
    BY <2>1 DEF Fulfil, OrderStatus, Closed, TypeInv, RefundTypeOK
  <2>2. ASSUME NEW s \in OrderStatus, OrderWritten(o, s) PROVE TypeInv'
    BY <2>2 DEF OrderWritten, TypeInv, RefundTypeOK
  <2>3. ASSUME NEW s \in PaymentStatus, PaymentWritten(o, s) PROVE TypeInv'
    BY <2>3 DEF PaymentWritten, TypeInv, RefundTypeOK
  <2>. QED  BY <1>6, <2>1, <2>2, <2>3 DEF Elsewhere
<1>. QED  BY <1>1, <1>2, <1>3, <1>4, <1>5, <1>6 DEF CancelSteps

LEMMA NextTyped == TypeInv /\ [Next]_vars => TypeInv'
<1>. SUFFICES ASSUME TypeInv, [Next]_vars PROVE TypeInv'
  OBVIOUS
<1>1. CASE UNCHANGED vars
  BY <1>1 DEF vars, money, goods, notes, TypeInv, RefundTypeOK
<1>2. CASE Next
  BY <1>2, ReturnTyped, RefundTyped, OtherTyped DEF Next
<1>. QED  BY <1>1, <1>2

(* Orders, payments, returns, credit notes and handlers keep their types. *)
THEOREM RefundTypeCorrect == Spec => []RefundTypeOK
<1>1. Init => TypeInv
  BY InitTyped
<1>2. TypeInv /\ [Next]_vars => TypeInv'
  BY NextTyped
<1>3. TypeInv => RefundTypeOK
  BY DEF TypeInv
<1>. QED  BY <1>1, <1>2, <1>3, PTL DEF Spec
----------------------------------------------------------------------------
(* The books of refunds.  A handler that has checked a refund carries one
   amount; what it read and that amount stay within the order's value, and
   what it is about to record the provider has been asked to pay. *)

Checked == {"ask", "record"}
OneAmount(p) == \A a, b \in p.amount : a = b

CarriesOne(h) == proc[h].at \in Checked \cup {"check"} => OneAmount(proc[h])
StaysWithin(h) == proc[h].at \in Checked => \A a \in proc[h].amount : proc[h].read + a <= Total
ReadWasSent(h) == proc[h].at = "ask" => proc[h].read <= sentBack[proc[h].o]
AskedWasSent(h) ==
    proc[h].at = "record" => \A a \in proc[h].amount : proc[h].read + a <= sentBack[proc[h].o]

Books == /\ RefundedWithinTotal /\ RecordedWasSent
         /\ \A h \in Handlers : CarriesOne(h) /\ StaysWithin(h) /\ ReadWasSent(h) /\ AskedWasSent(h)

(* A step that moves no money and starts at most a check of one amount. *)
Starts(h) == proc'[h].at = "check" /\ OneAmount(proc'[h])
Leaves(h) == proc'[h].at \notin Checked \cup {"check"}
MoneyStays == \A o \in Orders : payment'[o].refunded = payment[o].refunded /\ sentBack'[o] = sentBack[o]
Calm == MoneyStays /\ \A h \in Handlers : proc'[h] = proc[h] \/ Starts(h) \/ Leaves(h)

LEMMA CalmKeepsBooks ==
    ASSUME TypeInv, Books, Calm
    PROVE  Books'
<1>1. RefundedWithinTotal' /\ RecordedWasSent'
  BY DEF Books, Calm, MoneyStays, RefundedWithinTotal, RecordedWasSent
<1>2. ASSUME NEW h \in Handlers
      PROVE  (CarriesOne(h) /\ StaysWithin(h) /\ ReadWasSent(h) /\ AskedWasSent(h))'
  <2>1. CASE Starts(h) \/ Leaves(h)
    BY <2>1 DEF Starts, Leaves, CarriesOne, OneAmount, StaysWithin, ReadWasSent, AskedWasSent, Checked
  <2>2. CASE proc'[h] = proc[h]
    <3>1. CASE proc[h].at \in Checked
      <4>1. proc[h] \in Paying
        BY <3>1, WorkAt, StepTells DEF Checked, PaySteps
      <4>2. proc[h].o \in Orders
        BY <4>1 DEF Paying
      <4>3. sentBack'[proc[h].o] = sentBack[proc[h].o]
        BY <4>2 DEF Calm, MoneyStays
      <4>. QED  BY <2>2, <4>3 DEF Books, CarriesOne, OneAmount, StaysWithin, ReadWasSent, AskedWasSent, Checked
    <3>2. CASE proc[h].at \notin Checked
      BY <2>2, <3>2 DEF Books, CarriesOne, OneAmount, StaysWithin, ReadWasSent, AskedWasSent, Checked
    <3>. QED  BY <3>1, <3>2
  <2>. QED  BY <2>1, <2>2 DEF Calm
<1>. QED  BY <1>1, <1>2 DEF Books

LEMMA GoesElsewhere ==
    ASSUME TypeInv, NEW h \in Handlers, NEW p, Goes(h, p)
    PROVE  proc'[h] = p /\ \A g \in Handlers : g # h => proc'[g] = proc[g]
  BY DEF Goes, TypeInv, RefundTypeOK

(* A handler goes on with something that is not a checked refund. *)
LEMMA CalmStep ==
    ASSUME TypeInv, MoneyStays, NEW h \in Handlers, NEW p, Goes(h, p),
           \/ p.at \notin Checked \cup {"check"}
           \/ p.at = "check" /\ OneAmount(p)
    PROVE  Calm
<1>1. Starts(h) \/ Leaves(h)
  BY GoesElsewhere DEF Starts, Leaves, OneAmount
<1>. QED  BY <1>1, GoesElsewhere DEF Calm

LEMMA ReturnsAreCalm ==
    ASSUME TypeInv, NEW h \in Handlers, ReturnSteps(h)
    PROVE  Calm
<1>1. ASSUME money' = money PROVE MoneyStays
  BY <1>1 DEF money, MoneyStays
<1>2. ASSUME NEW r \in Returns, NEW o \in Orders, NEW q \in 1..Quantity, NEW damaged \in BOOLEAN,
             NEW status \in {"REQUESTED", "APPROVED"}, BeginRequest(h, r, o, q, damaged, status)
      PROVE  Calm
  BY <1>1, <1>2, CalmStep DEF BeginRequest, Checked
<1>3. ASSUME NEW r \in Returns, NEW to \in ReturnStatus, BeginMove(h, r, to) PROVE Calm
  BY <1>1, <1>3, CalmStep DEF BeginMove, Checked
<1>4. ASSUME CreateReturn(h) PROVE Calm
  BY <1>1, <1>4, CalmStep DEF CreateReturn, Idle, Checked
<1>5. ASSUME WriteMove(h) PROVE Calm
  <2>1. proc[h] \in Moving
    BY <1>5, WorkAt, StepTells DEF WriteMove
  <2>2. [proc[h] EXCEPT !.at = "restock"].at = "restock"
    BY <2>1 DEF Moving
  <2>. QED  BY <1>1, <1>5, <2>2, CalmStep DEF WriteMove, Idle, Checked
<1>6. ASSUME RestockReturn(h) PROVE Calm
  BY <1>1, <1>6, CalmStep DEF RestockReturn, Idle, Checked
<1>7. ASSUME NEW r \in Returns, NEW amount, BeginRefund(h, r, amount) PROVE Calm
  <2>1. Goes(h, Pays(return[r].o, {r}, {amount})) /\ money' = money
    BY <1>7 DEF BeginRefund
  <2>2. Pays(return[r].o, {r}, {amount}).at = "check" /\ OneAmount(Pays(return[r].o, {r}, {amount}))
    BY DEF Pays, OneAmount
  <2>. QED  BY <1>1, <2>1, <2>2, CalmStep
<1>. QED  BY <1>2, <1>3, <1>4, <1>5, <1>6, <1>7 DEF ReturnSteps

LEMMA OthersAreCalm ==
    ASSUME TypeInv,
           \/ \E h \in Handlers : CancelSteps(h) \/ BestEffortFails(h) \/ Crash(h)
           \/ \E o \in Orders : Elsewhere(o)
    PROVE  Calm
<1>1. ASSUME payment' = payment, sentBack' = sentBack PROVE MoneyStays
  BY <1>1 DEF MoneyStays
<1>2. ASSUME NEW h \in Handlers, NEW o \in Orders, BeginCancel(h, o) PROVE Calm
  <2>1. Pays(o, {}, {}).at = "check" /\ OneAmount(Pays(o, {}, {}))
    BY DEF Pays, OneAmount
  <2>. QED  BY <1>1, <1>2, <2>1, CalmStep DEF BeginCancel, money, Checked
<1>3. ASSUME NEW h \in Handlers, CancelOrder(h) PROVE Calm
  <2>1. proc[h] \in Cancelling
    BY <1>3, WorkAt, StepTells DEF CancelOrder
  <2>2. [proc[h] EXCEPT !.at = "restore"].at = "restore"
    BY <2>1 DEF Cancelling
  <2>. QED  BY <1>1, <1>3, <2>2, CalmStep DEF CancelOrder, Checked
<1>4. ASSUME NEW h \in Handlers, RestoreOrder(h) PROVE Calm
  BY <1>1, <1>4, CalmStep DEF RestoreOrder, money, Idle, Checked
<1>5. ASSUME NEW h \in Handlers, BestEffortFails(h) PROVE Calm
  BY <1>1, <1>5, CalmStep DEF BestEffortFails, AfterNote, money, Idle, Checked
<1>6. ASSUME NEW h \in Handlers, Crash(h) PROVE Calm
  BY <1>1, <1>6, CalmStep DEF Crash, money, Idle, Checked
<1>7. ASSUME NEW o \in Orders, Elsewhere(o) PROVE Calm
  <2>1. CASE Fulfil(o)
    BY <1>1, <2>1 DEF Fulfil, Calm
  <2>2. ASSUME NEW s \in OrderStatus, OrderWritten(o, s) PROVE Calm
    BY <1>1, <2>2 DEF OrderWritten, Calm
  <2>3. ASSUME NEW s \in PaymentStatus, PaymentWritten(o, s) PROVE Calm
    BY <2>3 DEF PaymentWritten, Calm, MoneyStays, TypeInv, RefundTypeOK
  <2>. QED  BY <1>7, <2>1, <2>2, <2>3 DEF Elsewhere
<1>. QED  BY <1>2, <1>3, <1>4, <1>5, <1>6, <1>7 DEF CancelSteps

(* The steps of a refund that move money or check it. *)
LEMMA RefundsKeepBooks ==
    ASSUME TypeInv, Books, NEW h \in Handlers, RefundSteps(h)
    PROVE  Books'
<1>p. ASSUME proc[h].at \in PaySteps
      PROVE  /\ proc[h] \in Paying /\ proc[h].o \in Orders
             /\ proc[h].amount \in SUBSET (1..Total) /\ proc[h].read \in 0..Total
  <2>1. proc[h] \in Paying
    BY <1>p, WorkAt, StepTells
  <2>. QED  BY <2>1 DEF Paying
<1>t. Total \in Nat /\ \A o \in Orders : payment[o].refunded \in Nat /\ sentBack[o] \in Nat
  BY TotalNat DEF TypeInv, RefundTypeOK
<1>1. ASSUME CheckRefund(h) PROVE Books'
  <2>. DEFINE p == proc[h]
              amounts == (IF p.amount = {} THEN {Remaining(p.o)} ELSE p.amount) \cap 1..Remaining(p.o)
              q == [at |-> "ask", o |-> p.o, for |-> p.for, amount |-> amounts,
                    read |-> payment[p.o].refunded]
  <2>m. payment' = payment /\ sentBack' = sentBack
    BY <1>1 DEF CheckRefund, money
  <2>1. CASE ~(Refundable(p.o) /\ amounts # {})
    <3>1. Goes(h, Idle)
      BY <1>1, <2>1 DEF CheckRefund
    <3>2. Calm
      BY <2>m, <3>1, CalmStep DEF MoneyStays, Idle, Checked
    <3>. QED  BY <3>2, CalmKeepsBooks
  <2>2. CASE Refundable(p.o) /\ amounts # {}
    <3>1. p \in Checking /\ p.at = "check"
      BY <1>1, WorkAt, StepTells DEF CheckRefund
    <3>2. p.o \in Orders
      BY <3>1 DEF Checking
    <3>3. OneAmount(p)
      BY <3>1 DEF Books, CarriesOne
    <3>4. \A a, b \in amounts : a = b
      BY <3>3 DEF OneAmount
    <3>5. \A a \in amounts : a \in Nat /\ payment[p.o].refunded + a <= Total
      BY <1>t, <3>2 DEF Remaining
    <3>6. payment[p.o].refunded <= sentBack[p.o]
      BY <3>2 DEF Books, RecordedWasSent
    <3>7. Goes(h, q)
      BY <1>1, <2>2 DEF CheckRefund
    <3>8. /\ q.at = "ask" /\ q.o = p.o /\ q.amount = amounts /\ q.read = payment[p.o].refunded
      OBVIOUS
    <3>9. proc'[h] = q /\ \A g \in Handlers : g # h => proc'[g] = proc[g]
      BY <3>7, GoesElsewhere
    <3>. HIDE DEF q, amounts
    <3>10. (CarriesOne(h) /\ StaysWithin(h) /\ ReadWasSent(h) /\ AskedWasSent(h))'
      BY <2>m, <3>4, <3>5, <3>6, <3>8, <3>9
         DEF CarriesOne, OneAmount, StaysWithin, ReadWasSent, AskedWasSent, Checked
    <3>11. \A g \in Handlers : g # h =>
              (CarriesOne(g) /\ StaysWithin(g) /\ ReadWasSent(g) /\ AskedWasSent(g))'
      BY <2>m, <3>9 DEF Books, CarriesOne, OneAmount, StaysWithin, ReadWasSent, AskedWasSent
    <3>12. (RefundedWithinTotal /\ RecordedWasSent)'
      BY <2>m DEF Books, RefundedWithinTotal, RecordedWasSent
    <3>. QED  BY <3>10, <3>11, <3>12 DEF Books
  <2>. QED  BY <2>1, <2>2
<1>2. ASSUME ProviderFails(h) PROVE Books'
  <2>1. Calm
    BY <1>2, CalmStep DEF ProviderFails, Failed, money, MoneyStays, Idle, Checked
  <2>. QED  BY <2>1, CalmKeepsBooks
<1>3. ASSUME NEW q \in Paying, q.at \in PaySteps \ Checked, MoneyStays, Goes(h, q) PROVE Books'
  <2>1. Calm
    BY <1>3, CalmStep DEF PaySteps, Checked
  <2>. QED  BY <2>1, CalmKeepsBooks
<1>4. ASSUME FlipOrder(h) PROVE Books'
  <2>1. AfterRefund(proc[h]) \in Paying /\ AfterRefund(proc[h]).at \in PaySteps \ Checked
    BY <1>4, <1>p, AfterRefundTyped DEF FlipOrder, AfterRefund, Paying, PaySteps, Checked
  <2>. QED  BY <1>3, <1>4, <2>1 DEF FlipOrder, MoneyStays
<1>5. ASSUME NEW a \in proc[h].amount, NEW r \in proc[h].for, CloseReturn(h, r, a) PROVE Books'
  <2>1. [proc[h] EXCEPT !.at = "note"] \in Paying
    BY <1>5, <1>p, PayingMoves DEF CloseReturn, PaySteps
  <2>2. [proc[h] EXCEPT !.at = "note"].at = "note"
    BY <1>5, <1>p DEF CloseReturn, PaySteps, Paying
  <2>. QED  BY <1>3, <1>5, <2>1, <2>2 DEF CloseReturn, money, MoneyStays, PaySteps, Checked
<1>6. ASSUME NEW a \in proc[h].amount, WriteNote(h, a) PROVE Books'
  <2>1. AfterNote(proc[h]).at \notin Checked \cup {"check"}
    BY DEF AfterNote, Idle, Checked
  <2>2. Calm
    BY <1>6, <2>1, CalmStep DEF WriteNote, money, MoneyStays
  <2>. QED  BY <2>2, CalmKeepsBooks
<1>7. ASSUME NEW a \in proc[h].amount, AskProvider(h, a) PROVE Books'
  <2>. DEFINE p == proc[h]
              q == [p EXCEPT !.at = "record"]
  <2>1. p \in Paying /\ p.at = "ask" /\ p.o \in Orders /\ a \in Nat /\ p.read \in Nat
    BY <1>7, <1>p, <1>t DEF AskProvider, PaySteps
  <2>2. q.at = "record" /\ q.o = p.o /\ q.amount = p.amount /\ q.read = p.read
    BY <2>1 DEF Paying
  <2>3. proc'[h] = q /\ \A g \in Handlers : g # h => proc'[g] = proc[g]
    BY <1>7, GoesElsewhere DEF AskProvider
  <2>4. /\ payment' = payment
        /\ sentBack'[p.o] = sentBack[p.o] + a
        /\ \A o \in Orders : sentBack'[o] >= sentBack[o] /\ sentBack'[o] \in Nat
    BY <1>7, <1>t, <2>1 DEF AskProvider, TypeInv, RefundTypeOK
  <2>5. (RefundedWithinTotal /\ RecordedWasSent)'
    BY <1>t, <2>4 DEF Books, RefundedWithinTotal, RecordedWasSent
  <2>6. OneAmount(p) /\ (\A b \in p.amount : p.read + b <= Total) /\ p.read <= sentBack[p.o]
    BY <2>1 DEF Books, CarriesOne, StaysWithin, ReadWasSent, Checked
  <2>7. \A b \in p.amount : b = a
    BY <2>6 DEF OneAmount
  <2>8. p.read + a <= sentBack'[p.o]
    BY <1>t, <2>1, <2>4, <2>6
  <2>. HIDE DEF q
  <2>9. (CarriesOne(h) /\ StaysWithin(h) /\ ReadWasSent(h) /\ AskedWasSent(h))'
    BY <2>2, <2>3, <2>6, <2>7, <2>8
       DEF CarriesOne, OneAmount, StaysWithin, ReadWasSent, AskedWasSent, Checked
  <2>10. ASSUME NEW g \in Handlers, g # h
         PROVE  (CarriesOne(g) /\ StaysWithin(g) /\ ReadWasSent(g) /\ AskedWasSent(g))'
    <3>1. proc'[g] = proc[g]
      BY <2>3, <2>10
    <3>2. CarriesOne(g) /\ StaysWithin(g) /\ ReadWasSent(g) /\ AskedWasSent(g)
      BY DEF Books
    <3>3. CASE proc[g].at \in Checked
      <4>1. proc[g] \in Paying
        BY <3>3, WorkAt, StepTells DEF Checked, PaySteps
      <4>2. proc[g].o \in Orders /\ proc[g].read \in Nat /\ proc[g].amount \in SUBSET Nat
        BY <4>1, <1>t DEF Paying
      <4>3. sentBack'[proc[g].o] >= sentBack[proc[g].o] /\ sentBack[proc[g].o] \in Nat
             /\ sentBack'[proc[g].o] \in Nat
        BY <1>t, <2>4, <4>2
      <4>. QED  BY <3>1, <3>2, <4>2, <4>3
                DEF CarriesOne, OneAmount, StaysWithin, ReadWasSent, AskedWasSent
    <3>4. CASE proc[g].at \notin Checked
      BY <3>1, <3>2, <3>4 DEF CarriesOne, OneAmount, StaysWithin, ReadWasSent, AskedWasSent, Checked
    <3>. QED  BY <3>3, <3>4
  <2>. QED  BY <2>5, <2>9, <2>10 DEF Books
<1>8. ASSUME NEW a \in proc[h].amount, RecordRefund(h, a) PROVE Books'
  <2>. DEFINE p == proc[h]
  <2>1. p \in Paying /\ p.at = "record" /\ p.o \in Orders /\ a \in Nat /\ p.read \in Nat
    BY <1>8, <1>p, <1>t DEF RecordRefund, PaySteps
  <2>2. p.read + a <= Total /\ p.read + a <= sentBack[p.o]
    BY <2>1 DEF Books, StaysWithin, AskedWasSent, Checked
  <2>3. /\ sentBack' = sentBack /\ payment'[p.o].refunded = p.read + a
        /\ \A o \in Orders : o # p.o => payment'[o] = payment[o]
    BY <1>8, <2>1 DEF RecordRefund, TypeInv, RefundTypeOK
  <2>4. (RefundedWithinTotal /\ RecordedWasSent)'
    BY <2>2, <2>3 DEF Books, RefundedWithinTotal, RecordedWasSent
  <2>5. PICK q : Goes(h, q) /\ q.at \in {"flip", "close", "note"}
    <3>1. /\ [p EXCEPT !.at = "flip"].at = "flip"
          /\ AfterRefund(p).at \in {"close", "note"}
      BY <2>1 DEF Paying, AfterRefund
    <3>. QED  BY <1>8, <3>1 DEF RecordRefund
  <2>6. proc'[h] = q /\ \A g \in Handlers : g # h => proc'[g] = proc[g]
    BY <2>5, GoesElsewhere
  <2>7. (CarriesOne(h) /\ StaysWithin(h) /\ ReadWasSent(h) /\ AskedWasSent(h))'
    BY <2>5, <2>6 DEF CarriesOne, StaysWithin, ReadWasSent, AskedWasSent, Checked
  <2>8. \A g \in Handlers : g # h =>
           (CarriesOne(g) /\ StaysWithin(g) /\ ReadWasSent(g) /\ AskedWasSent(g))'
    BY <2>3, <2>6 DEF Books, CarriesOne, OneAmount, StaysWithin, ReadWasSent, AskedWasSent
  <2>. QED  BY <2>4, <2>7, <2>8 DEF Books
<1>. QED  BY <1>1, <1>2, <1>4, <1>5, <1>6, <1>7, <1>8 DEF RefundSteps

LEMMA NextKeepsBooks == TypeInv /\ Books /\ [Next]_vars => Books'
<1>. SUFFICES ASSUME TypeInv, Books, [Next]_vars PROVE Books'
  OBVIOUS
<1>1. CASE UNCHANGED vars
  <2>1. Calm
    BY <1>1 DEF vars, money, goods, notes, Calm, MoneyStays
  <2>. QED  BY <2>1, CalmKeepsBooks
<1>2. CASE Next
  BY <1>2, ReturnsAreCalm, OthersAreCalm, CalmKeepsBooks, RefundsKeepBooks DEF Next
<1>. QED  BY <1>1, <1>2

LEMMA InitBooks == Init => Books
  BY TotalNat DEF Init, Idle, Books, RefundedWithinTotal, RecordedWasSent, CarriesOne, StaysWithin,
     ReadWasSent, AskedWasSent, Checked

(* However many handlers refund an order at once, and whatever fails, no more
   than its value is recorded as refunded. *)
THEOREM RecordedWithinTotal == Spec => []RefundedWithinTotal
<1>1. Init => TypeInv /\ Books
  BY InitTyped, InitBooks
<1>2. TypeInv /\ Books /\ [Next]_vars => (TypeInv /\ Books)'
  BY NextTyped, NextKeepsBooks
<1>3. Books => RefundedWithinTotal
  BY DEF Books
<1>. QED  BY <1>1, <1>2, <1>3, PTL DEF Spec

(* Nothing is recorded as refunded that the provider was not asked to pay. *)
THEOREM RecordedIsSent == Spec => []RecordedWasSent
<1>1. Init => TypeInv /\ Books
  BY InitTyped, InitBooks
<1>2. TypeInv /\ Books /\ [Next]_vars => (TypeInv /\ Books)'
  BY NextTyped, NextKeepsBooks
<1>3. Books => RecordedWasSent
  BY DEF Books
<1>. QED  BY <1>1, <1>2, <1>3, PTL DEF Spec
----------------------------------------------------------------------------
(* One handler at a time, and none that dies: what was sent back is what is
   recorded, except between the provider's answer and the write that follows. *)

OneAtATime == (\A g, h \in Handlers : g = h) /\ "crash" \notin Ops

Settled(o) == sentBack[o] = payment[o].refunded
Recording(h, o) == proc[h].at = "record" /\ proc[h].o = o
ReadIsCurrent(h) == proc[h].at = "ask" => proc[h].read = payment[proc[h].o].refunded
AskedIsSent(h) ==
    proc[h].at = "record" => \E a \in proc[h].amount : sentBack[proc[h].o] = proc[h].read + a

Ledger == /\ \A o \in Orders : Settled(o) \/ \E h \in Handlers : Recording(h, o)
          /\ \A h \in Handlers : ReadIsCurrent(h) /\ AskedIsSent(h)

(* A calm step by anyone but a handler that is about to record or to ask. *)
Undisturbed == \A h \in Handlers : proc[h].at = "record" => proc'[h] = proc[h]

LEMMA CalmKeepsLedger ==
    ASSUME TypeInv, Ledger, Calm, Undisturbed
    PROVE  Ledger'
<1>0. ASSUME NEW h \in Handlers, proc[h].at \in Checked
      PROVE  proc[h].o \in Orders
  <2>1. proc[h] \in Paying
    BY <1>0, WorkAt, StepTells DEF Checked, PaySteps
  <2>. QED  BY <2>1 DEF Paying
<1>1. ASSUME NEW o \in Orders
      PROVE  (Settled(o) \/ \E h \in Handlers : Recording(h, o))'
  <2>1. CASE Settled(o)
    BY <2>1 DEF Settled, Calm, MoneyStays
  <2>2. ASSUME NEW h \in Handlers, Recording(h, o)
        PROVE  Recording(h, o)'
    BY <2>2 DEF Recording, Undisturbed
  <2>. QED  BY <2>1, <2>2 DEF Ledger
<1>2. ASSUME NEW h \in Handlers PROVE ReadIsCurrent(h)'
  <2>1. CASE proc'[h].at = "ask"
    <3>1. proc'[h] = proc[h]
      BY <2>1 DEF Calm, Starts, Leaves, Checked
    <3>2. proc[h].o \in Orders
      BY <1>0, <2>1, <3>1 DEF Checked
    <3>. QED  BY <3>1, <3>2 DEF Ledger, ReadIsCurrent, Calm, MoneyStays
  <2>. QED  BY <2>1 DEF ReadIsCurrent
<1>3. ASSUME NEW h \in Handlers PROVE AskedIsSent(h)'
  <2>1. CASE proc'[h].at = "record"
    <3>1. proc'[h] = proc[h]
      BY <2>1 DEF Calm, Starts, Leaves, Checked
    <3>2. proc[h].o \in Orders
      BY <1>0, <2>1, <3>1 DEF Checked
    <3>3. sentBack'[proc[h].o] = sentBack[proc[h].o]
      BY <3>2 DEF Calm, MoneyStays
    <3>. QED  BY <3>1, <3>3 DEF Ledger, AskedIsSent
  <2>. QED  BY <2>1 DEF AskedIsSent
<1>. QED  BY <1>1, <1>2, <1>3 DEF Ledger

(* A handler that is not recording leaves those that are alone. *)
LEMMA GoesUndisturbed ==
    ASSUME TypeInv, NEW h \in Handlers, NEW p, Goes(h, p), proc[h].at # "record"
    PROVE  Undisturbed
  BY GoesElsewhere DEF Undisturbed

LEMMA ReturnsUndisturbed ==
    ASSUME TypeInv, NEW h \in Handlers, ReturnSteps(h)
    PROVE  Undisturbed
<1>. USE DEF Idle
<1>1. ASSUME NEW r \in Returns, NEW o \in Orders, NEW q \in 1..Quantity, NEW damaged \in BOOLEAN,
             NEW status \in {"REQUESTED", "APPROVED"}, BeginRequest(h, r, o, q, damaged, status)
      PROVE  Undisturbed
  BY <1>1, GoesUndisturbed DEF BeginRequest
<1>2. ASSUME NEW r \in Returns, NEW to \in ReturnStatus, BeginMove(h, r, to) PROVE Undisturbed
  BY <1>2, GoesUndisturbed DEF BeginMove
<1>3. ASSUME CreateReturn(h) PROVE Undisturbed
  BY <1>3, GoesUndisturbed DEF CreateReturn
<1>4. ASSUME WriteMove(h) PROVE Undisturbed
  BY <1>4, GoesUndisturbed DEF WriteMove
<1>5. ASSUME RestockReturn(h) PROVE Undisturbed
  BY <1>5, GoesUndisturbed DEF RestockReturn
<1>6. ASSUME NEW r \in Returns, NEW amount, BeginRefund(h, r, amount) PROVE Undisturbed
  BY <1>6, GoesUndisturbed DEF BeginRefund
<1>. QED  BY <1>1, <1>2, <1>3, <1>4, <1>5, <1>6 DEF ReturnSteps

LEMMA OthersUndisturbed ==
    ASSUME TypeInv, OneAtATime,
           \/ \E h \in Handlers : CancelSteps(h) \/ BestEffortFails(h) \/ Crash(h)
           \/ \E o \in Orders : Elsewhere(o)
    PROVE  Undisturbed
<1>1. ASSUME NEW h \in Handlers, NEW o \in Orders, BeginCancel(h, o) PROVE Undisturbed
  BY <1>1, GoesUndisturbed DEF BeginCancel, Idle
<1>2. ASSUME NEW h \in Handlers, CancelOrder(h) PROVE Undisturbed
  BY <1>2, GoesUndisturbed DEF CancelOrder
<1>3. ASSUME NEW h \in Handlers, RestoreOrder(h) PROVE Undisturbed
  BY <1>3, GoesUndisturbed DEF RestoreOrder
<1>4. ASSUME NEW h \in Handlers, BestEffortFails(h) PROVE Undisturbed
  <2>1. proc[h].at # "record"
    BY <1>4 DEF BestEffortFails
  <2>2. PICK p : Goes(h, p)
    BY <1>4 DEF BestEffortFails
  <2>. QED  BY <2>1, <2>2, GoesUndisturbed
<1>5. \A h \in Handlers : ~Crash(h)
  BY DEF OneAtATime, Crash
<1>6. ASSUME NEW o \in Orders, Elsewhere(o) PROVE Undisturbed
  BY <1>6 DEF Elsewhere, Fulfil, OrderWritten, PaymentWritten, Undisturbed
<1>. QED  BY <1>1, <1>2, <1>3, <1>4, <1>5, <1>6 DEF CancelSteps

LEMMA RefundsKeepLedger ==
    ASSUME TypeInv, OneAtATime, Books, Ledger, NEW h \in Handlers, RefundSteps(h)
    PROVE  Ledger'
<1>p. ASSUME proc[h].at \in PaySteps
      PROVE  /\ proc[h] \in Paying /\ proc[h].o \in Orders
             /\ proc[h].amount \in SUBSET Nat /\ proc[h].read \in Nat
  <2>1. proc[h] \in Paying
    BY <1>p, WorkAt, StepTells
  <2>. QED  BY <2>1, TotalNat DEF Paying
<1>t. \A o \in Orders : payment[o].refunded \in Nat /\ sentBack[o] \in Nat
  BY DEF TypeInv, RefundTypeOK
<1>o. \A g \in Handlers : g = h
  BY DEF OneAtATime
<1>1. ASSUME NEW p, Goes(h, p), p.at \notin Checked \cup {"check"}, MoneyStays, proc[h].at # "record"
      PROVE  Ledger'
  BY <1>1, CalmStep, GoesUndisturbed, CalmKeepsLedger
<1>2. ASSUME CheckRefund(h) PROVE Ledger'
  <2>m. payment' = payment /\ sentBack' = sentBack /\ proc[h].at = "check"
    BY <1>2 DEF CheckRefund, money
  <2>1. ASSUME Goes(h, Idle) PROVE Ledger'
    BY <1>1, <2>m, <2>1 DEF MoneyStays, Idle, Checked
  <2>2. ASSUME NEW q, Goes(h, q), q.at = "ask", q.o = proc[h].o,
               q.read = payment[proc[h].o].refunded
        PROVE  Ledger'
    <3>1. proc'[h] = q
      BY <2>2, GoesElsewhere
    <3>2. \A o \in Orders : Settled(o)
      BY <1>o, <2>m DEF Ledger, Recording
    <3>3. \A o \in Orders : Settled(o)'
      BY <2>m, <3>2 DEF Settled
    <3>4. ReadIsCurrent(h)' /\ AskedIsSent(h)'
      BY <2>m, <2>2, <3>1 DEF ReadIsCurrent, AskedIsSent
    <3>. QED  BY <1>o, <3>3, <3>4 DEF Ledger
  <2>3. \/ Goes(h, Idle)
        \/ \E q : Goes(h, q) /\ q.at = "ask" /\ q.o = proc[h].o /\ q.read = payment[proc[h].o].refunded
    <3>. DEFINE q(A) == [at |-> "ask", o |-> proc[h].o, for |-> proc[h].for, amount |-> A,
                         read |-> payment[proc[h].o].refunded]
    <3>1. \A A : q(A).at = "ask" /\ q(A).o = proc[h].o /\ q(A).read = payment[proc[h].o].refunded
      OBVIOUS
    <3>2. Goes(h, Idle) \/ \E A : Goes(h, q(A))
      BY <1>2 DEF CheckRefund
    <3>. QED  BY <3>1, <3>2
  <2>. QED  BY <2>1, <2>2, <2>3
<1>3. ASSUME ProviderFails(h) PROVE Ledger'
  BY <1>1, <1>3 DEF ProviderFails, Failed, money, MoneyStays, Idle, Checked
<1>4. ASSUME FlipOrder(h) PROVE Ledger'
  <2>1. AfterRefund(proc[h]).at \in {"close", "note"}
    BY <1>4, <1>p DEF FlipOrder, AfterRefund, Paying, PaySteps
  <2>. QED  BY <1>1, <1>4, <2>1 DEF FlipOrder, MoneyStays, Checked
<1>5. ASSUME NEW a \in proc[h].amount, NEW r \in proc[h].for, CloseReturn(h, r, a) PROVE Ledger'
  <2>1. [proc[h] EXCEPT !.at = "note"].at = "note"
    BY <1>5, <1>p DEF CloseReturn, PaySteps, Paying
  <2>. QED  BY <1>1, <1>5, <2>1 DEF CloseReturn, money, MoneyStays, Checked
<1>6. ASSUME NEW a \in proc[h].amount, WriteNote(h, a) PROVE Ledger'
  <2>1. AfterNote(proc[h]).at \notin Checked \cup {"check"}
    BY DEF AfterNote, Idle, Checked
  <2>. QED  BY <1>1, <1>6, <2>1 DEF WriteNote, money, MoneyStays
<1>7. ASSUME NEW a \in proc[h].amount, AskProvider(h, a) PROVE Ledger'
  <2>. DEFINE q == [proc[h] EXCEPT !.at = "record"]
  <2>1. proc[h] \in Paying /\ proc[h].at = "ask" /\ proc[h].o \in Orders
    BY <1>7, <1>p DEF AskProvider, PaySteps
  <2>2. q.at = "record" /\ q.o = proc[h].o /\ q.amount = proc[h].amount /\ q.read = proc[h].read
    BY <2>1 DEF Paying
  <2>3. proc'[h] = q
    BY <1>7, GoesElsewhere DEF AskProvider
  <2>4. \A o \in Orders : Settled(o)
    BY <1>o, <2>1 DEF Ledger, Recording
  <2>5. proc[h].read = sentBack[proc[h].o]
    BY <2>1, <2>4 DEF Ledger, ReadIsCurrent, Settled
  <2>6. /\ payment' = payment /\ sentBack'[proc[h].o] = proc[h].read + a
        /\ \A o \in Orders : o # proc[h].o => sentBack'[o] = sentBack[o]
    BY <1>7, <2>1, <2>5 DEF AskProvider, TypeInv, RefundTypeOK
  <2>. HIDE DEF q
  <2>7. \A o \in Orders : (Settled(o) \/ Recording(h, o))'
    BY <2>2, <2>3, <2>4, <2>6 DEF Settled, Recording
  <2>8. ReadIsCurrent(h)' /\ AskedIsSent(h)'
    BY <1>7, <2>2, <2>3, <2>6 DEF ReadIsCurrent, AskedIsSent
  <2>. QED  BY <1>o, <2>7, <2>8 DEF Ledger
<1>8. ASSUME NEW a \in proc[h].amount, RecordRefund(h, a) PROVE Ledger'
  <2>1. proc[h] \in Paying /\ proc[h].at = "record" /\ proc[h].o \in Orders
    BY <1>8, <1>p DEF RecordRefund, PaySteps
  <2>2. sentBack[proc[h].o] = proc[h].read + a
    <3>1. \A b \in proc[h].amount : b = a
      BY <2>1 DEF Books, CarriesOne, OneAmount, Checked
    <3>. QED  BY <2>1, <3>1 DEF Ledger, AskedIsSent
  <2>3. /\ sentBack' = sentBack /\ payment'[proc[h].o].refunded = proc[h].read + a
        /\ \A o \in Orders : o # proc[h].o => payment'[o] = payment[o]
    BY <1>8, <2>1 DEF RecordRefund, TypeInv, RefundTypeOK
  <2>4. \A o \in Orders : o # proc[h].o => Settled(o)
    BY <1>o DEF Ledger, Recording
  <2>5. \A o \in Orders : Settled(o)'
    BY <2>2, <2>3, <2>4 DEF Settled
  <2>6. PICK q : Goes(h, q) /\ q.at \in {"flip", "close", "note"}
    <3>1. /\ [proc[h] EXCEPT !.at = "flip"].at = "flip"
          /\ AfterRefund(proc[h]).at \in {"close", "note"}
      BY <2>1 DEF Paying, AfterRefund
    <3>. QED  BY <1>8, <3>1 DEF RecordRefund
  <2>7. ReadIsCurrent(h)' /\ AskedIsSent(h)'
    BY <2>6, GoesElsewhere DEF ReadIsCurrent, AskedIsSent
  <2>. QED  BY <1>o, <2>5, <2>7 DEF Ledger
<1>. QED  BY <1>2, <1>3, <1>4, <1>5, <1>6, <1>7, <1>8 DEF RefundSteps

LEMMA NextKeepsLedger == OneAtATime /\ TypeInv /\ Books /\ Ledger /\ [Next]_vars => Ledger'
<1>. SUFFICES ASSUME OneAtATime, TypeInv, Books, Ledger, [Next]_vars PROVE Ledger'
  OBVIOUS
<1>1. CASE UNCHANGED vars
  <2>1. Calm /\ Undisturbed
    BY <1>1 DEF vars, money, goods, notes, Calm, MoneyStays, Undisturbed
  <2>. QED  BY <2>1, CalmKeepsLedger
<1>2. CASE Next
  BY <1>2, ReturnsAreCalm, ReturnsUndisturbed, OthersAreCalm, OthersUndisturbed, CalmKeepsLedger,
     RefundsKeepLedger DEF Next
<1>. QED  BY <1>1, <1>2

LEMMA LedgerWithin == TypeInv /\ Books /\ Ledger => SentWithinTotal
<1>. SUFFICES ASSUME TypeInv, Books, Ledger, NEW o \in Orders PROVE sentBack[o] <= Total
  BY DEF SentWithinTotal
<1>1. CASE Settled(o)
  BY <1>1 DEF Settled, Books, RefundedWithinTotal
<1>2. ASSUME NEW h \in Handlers, Recording(h, o) PROVE sentBack[o] <= Total
  BY <1>2 DEF Ledger, AskedIsSent, Recording, Books, StaysWithin, Checked
<1>. QED  BY <1>1, <1>2 DEF Ledger

(* As long as requests do not overlap and none dies half way, the provider is
   never asked to pay back more than the order's value, whatever returns and
   cancellations follow each other, provider failures and webhooks included. *)
THEOREM SentBackCapped ==
    ASSUME OneAtATime
    PROVE  Spec => []SentWithinTotal
<1>1. Init => TypeInv /\ Books /\ Ledger
  <2>1. ASSUME Init PROVE Ledger
    <3>1. \A o \in Orders : Settled(o)
      BY <2>1 DEF Init, Settled
    <3>2. \A h \in Handlers : proc[h].at = "idle"
      BY <2>1 DEF Init, Idle
    <3>. QED  BY <3>1, <3>2 DEF Ledger, ReadIsCurrent, AskedIsSent
  <2>. QED  BY <2>1, InitTyped, InitBooks
<1>2. TypeInv /\ Books /\ Ledger /\ [Next]_vars => (TypeInv /\ Books /\ Ledger)'
  BY NextTyped, NextKeepsBooks, NextKeepsLedger
<1>3. TypeInv /\ Books /\ Ledger => SentWithinTotal
  BY LedgerWithin
<1>. QED  BY <1>1, <1>2, <1>3, PTL DEF Spec
----------------------------------------------------------------------------
(* What returns and credit notes claim.  A handler the provider has answered owes a
   claim of its one amount until it has closed its return and written its note; a
   return row keeps its order once it exists. *)
Carried(p) == CHOOSE a \in p.amount : TRUE
Unnoted == {"record", "flip", "close", "note"}
Unclosed == {"record", "flip", "close"}
Share(p, o, T) == IF p.at \in T /\ p.o = o THEN Carried(p) ELSE 0
Owed(o, T) == SumFunctionOnSet([h \in Handlers |-> Share(proc[h], o, T)], Handlers)

Single(p) == p.at \in PaySteps => p.amount # {} /\ OneAmount(p)

RowKnown(p, rows) ==
    /\ p.at = "create" => rows[p.r].status = "NONE" /\ p.row.status \in {"REQUESTED", "APPROVED"}
    /\ p.at \in {"move", "restock"} => rows[p.r].status # "NONE" /\ p.to # "REFUNDED"
    /\ p.at \in PaySteps \cup {"check"} => \A r \in p.for : rows[r].status # "NONE" /\ rows[r].o = p.o

CreatesAlone ==
    \A g, h \in Handlers : (g # h /\ proc[g].at = "create" /\ proc[h].at = "create") => proc[g].r # proc[h].r

Claims ==
    /\ \A h \in Handlers : Single(proc[h]) /\ RowKnown(proc[h], return)
    /\ CreatesAlone
    /\ \A o \in Orders : credited[o] + Owed(o, Unnoted) <= sentBack[o]
    /\ \A o \in Orders : RefundedBy(o) + Owed(o, Unclosed) <= sentBack[o]

LEMMA CarriedIs ==
    ASSUME NEW p \in Work, Single(p), p.at \in PaySteps
    PROVE  Carried(p) \in p.amount /\ Carried(p) \in Nat /\ \A a \in p.amount : a = Carried(p)
<1>1. p.amount # {} /\ p.amount \subseteq 1..Total
  BY StepTells DEF Single, Paying
<1>2. Carried(p) \in p.amount
  BY <1>1 DEF Carried
<1>. QED  BY <1>1, <1>2, TotalNat DEF Single, OneAmount

LEMMA ShareNat ==
    ASSUME NEW p \in Work, Single(p), NEW o, NEW T \in {Unnoted, Unclosed}
    PROVE  Share(p, o, T) \in Nat
  BY CarriedIs DEF Share, Unnoted, Unclosed, PaySteps

LEMMA ShareNone ==
    ASSUME NEW p, p.at \notin Unnoted, NEW o, NEW T \in {Unnoted, Unclosed}
    PROVE  Share(p, o, T) = 0
  BY DEF Share, Unnoted, Unclosed

LEMMA OwedNat ==
    ASSUME TypeInv, \A g \in Handlers : Single(proc[g]), NEW o, NEW T \in {Unnoted, Unclosed}
    PROVE  Owed(o, T) \in Nat
<1>. DEFINE f == [g \in Handlers |-> Share(proc[g], o, T)]
<1>1. \A g \in Handlers : f[g] \in Nat
  BY WorkAt, ShareNat
<1>2. IsFiniteSet(Handlers)
  BY RefundAssumption
<1>. HIDE DEF f
<1>3. SumFunctionOnSet(f, Handlers) \in Nat
  BY <1>1, <1>2, SumNat
<1>. QED  BY <1>3 DEF Owed, f

(* One handler goes on: its share changes, the others' do not. *)
LEMMA OwedGoes ==
    ASSUME TypeInv, \A g \in Handlers : Single(proc[g]),
           NEW h \in Handlers, NEW q, Goes(h, q), NEW o, NEW T \in {Unnoted, Unclosed}, Share(q, o, T) \in Nat
    PROVE  Owed(o, T)' = Owed(o, T) - Share(proc[h], o, T) + Share(q, o, T)
<1>. DEFINE f == [g \in Handlers |-> Share(proc[g], o, T)]
            e == [g \in Handlers |-> Share(proc'[g], o, T)]
<1>1. proc'[h] = q /\ \A g \in Handlers : g # h => proc'[g] = proc[g]
  BY GoesElsewhere
<1>2. \A g \in Handlers : f[g] \in Int
  <2>1. \A g \in Handlers : Share(proc[g], o, T) \in Nat
    BY WorkAt, ShareNat
  <2>. QED  BY <2>1
<1>3. f[h] = Share(proc[h], o, T) /\ e[h] = Share(q, o, T)
  BY <1>1
<1>4. \A g \in Handlers \ {h} : f[g] = e[g]
  BY <1>1
<1>5. \A g \in Handlers : e[g] \in Int
  <2>. SUFFICES ASSUME NEW g \in Handlers PROVE e[g] \in Int
    OBVIOUS
  <2>. HIDE DEF e, f
  <2>. QED  BY <1>2, <1>3, <1>4
<1>6. IsFiniteSet(Handlers)
  BY RefundAssumption
<1>7. Owed(o, T) = SumFunctionOnSet(f, Handlers) /\ Owed(o, T)' = SumFunctionOnSet(e, Handlers)
  BY DEF Owed, Share
<1>. HIDE DEF e, f
<1>8. SumFunctionOnSet(e, Handlers) = SumFunctionOnSet(f, Handlers) - f[h] + e[h]
  BY <1>2, <1>4, <1>5, <1>6, SumChange
<1>. QED  BY <1>3, <1>7, <1>8

(* What the returns claim, as one row changes. *)
Claimed(row, o) == IF row.o = o /\ row.status = "REFUNDED" THEN row.refund ELSE 0

LEMMA RefundedByNat ==
    ASSUME TypeInv, NEW o
    PROVE  RefundedBy(o) \in Nat
<1>. DEFINE f == [r \in Returns |-> IF return[r].o = o /\ return[r].status = "REFUNDED" THEN return[r].refund ELSE 0]
<1>1. \A r \in Returns : f[r] \in Nat
  BY DEF TypeInv, RefundTypeOK, ReturnRow
<1>2. IsFiniteSet(Returns)
  BY RefundAssumption
<1>. HIDE DEF f
<1>3. SumFunctionOnSet(f, Returns) \in Nat
  BY <1>1, <1>2, SumNat
<1>. QED  BY <1>3 DEF RefundedBy, f

LEMMA RefundedByChange ==
    ASSUME TypeInv, TypeInv', NEW r \in Returns, \A s \in Returns : s # r => return'[s] = return[s], NEW o
    PROVE  RefundedBy(o)' = RefundedBy(o) - Claimed(return[r], o) + Claimed(return'[r], o)
<1>. DEFINE f == [s \in Returns |-> IF return[s].o = o /\ return[s].status = "REFUNDED" THEN return[s].refund ELSE 0]
            e == [s \in Returns |-> IF return'[s].o = o /\ return'[s].status = "REFUNDED" THEN return'[s].refund ELSE 0]
<1>1. \A s \in Returns : f[s] \in Int /\ e[s] \in Int
  <2>1. \A s \in Returns : return[s].refund \in Int /\ return'[s].refund \in Int
    BY DEF TypeInv, RefundTypeOK, ReturnRow
  <2>. QED  BY <2>1
<1>2. f[r] = Claimed(return[r], o) /\ e[r] = Claimed(return'[r], o)
  BY DEF Claimed
<1>3. \A s \in Returns \ {r} : f[s] = e[s]
  OBVIOUS
<1>4. IsFiniteSet(Returns)
  BY RefundAssumption
<1>5. RefundedBy(o) = SumFunctionOnSet(f, Returns) /\ RefundedBy(o)' = SumFunctionOnSet(e, Returns)
  BY DEF RefundedBy
<1>. HIDE DEF e, f
<1>6. SumFunctionOnSet(e, Returns) = SumFunctionOnSet(f, Returns) - f[r] + e[r]
  BY <1>1, <1>3, <1>4, SumChange
<1>. QED  BY <1>2, <1>5, <1>6

LEMMA ClaimedNat ==
    ASSUME NEW row \in ReturnRow, NEW o
    PROVE  Claimed(row, o) \in Nat
  BY DEF ReturnRow, Claimed

(* The rows as a step of h leaves them: a row keeps its order once it exists, and
   only h's own creation makes one exist. *)
RowsKept(h) ==
    \A r \in Returns :
       /\ return[r].status # "NONE" => return'[r].status # "NONE" /\ return'[r].o = return[r].o
       /\ (return[r].status = "NONE" /\ ~(proc[h].at = "create" /\ proc[h].r = r)) => return'[r].status = "NONE"

LEMMA ClaimsGo ==
    ASSUME TypeInv, TypeInv', Claims, NEW h \in Handlers, NEW q, Goes(h, q), Single(q), RowKnown(q, return'),
           RowsKept(h),
           q.at = "create" => \A g \in Handlers : proc[g].at = "create" => proc[g].r # q.r,
           \A o \in Orders : credited'[o] + Share(q, o, Unnoted) - sentBack'[o]
                               <= credited[o] + Share(proc[h], o, Unnoted) - sentBack[o],
           \A o \in Orders : RefundedBy(o)' + Share(q, o, Unclosed) - sentBack'[o]
                               <= RefundedBy(o) + Share(proc[h], o, Unclosed) - sentBack[o]
    PROVE  Claims'
<1>1. proc'[h] = q /\ \A g \in Handlers : g # h => proc'[g] = proc[g]
  BY GoesElsewhere
<1>2. \A g \in Handlers : proc[g] \in Work /\ Single(proc[g]) /\ RowKnown(proc[g], return)
  BY WorkAt DEF Claims
<1>3. ASSUME NEW g \in Handlers PROVE Single(proc'[g]) /\ RowKnown(proc'[g], return')
  <2>1. CASE g = h
    BY <1>1, <2>1
  <2>2. CASE g # h
    <3>1. proc'[g] = proc[g] /\ proc[g] \in Work /\ RowKnown(proc[g], return) /\ Single(proc[g])
      BY <1>1, <1>2, <2>2
    <3>2. proc[g].at = "create" => return'[proc[g].r].status = "NONE"
      <4>1. proc[g].at = "create" => proc[g].r \in Returns /\ ~(proc[h].at = "create" /\ proc[h].r = proc[g].r)
        BY <2>2, <3>1, StepTells DEF Creating, Claims, CreatesAlone
      <4>. QED  BY <3>1, <4>1 DEF RowsKept, RowKnown
    <3>3. proc[g].at \in {"move", "restock"} => proc[g].r \in Returns
      BY <3>1, StepTells DEF Moving
    <3>4. proc[g].at \in PaySteps \cup {"check"} => proc[g].for \subseteq Returns
      BY <3>1, StepTells DEF Paying, Checking
    <3>5. RowKnown(proc[g], return')
      BY <3>1, <3>2, <3>3, <3>4 DEF RowsKept, RowKnown
    <3>. QED  BY <3>1, <3>5
  <2>. QED  BY <2>1, <2>2
<1>4. CreatesAlone'
  BY <1>1 DEF Claims, CreatesAlone
<1>5. q \in Work
  BY <1>1, WorkAt DEF TypeInv, RefundTypeOK
<1>6. ASSUME NEW o \in Orders
      PROVE  credited'[o] + Owed(o, Unnoted)' <= sentBack'[o] /\ RefundedBy(o)' + Owed(o, Unclosed)' <= sentBack'[o]
  <2>1. /\ Owed(o, Unnoted)' = Owed(o, Unnoted) - Share(proc[h], o, Unnoted) + Share(q, o, Unnoted)
        /\ Owed(o, Unclosed)' = Owed(o, Unclosed) - Share(proc[h], o, Unclosed) + Share(q, o, Unclosed)
    BY <1>2, <1>5, OwedGoes, ShareNat
  <2>2. /\ Owed(o, Unnoted) \in Nat /\ Owed(o, Unclosed) \in Nat
        /\ Share(q, o, Unnoted) \in Nat /\ Share(q, o, Unclosed) \in Nat
        /\ Share(proc[h], o, Unnoted) \in Nat /\ Share(proc[h], o, Unclosed) \in Nat
    BY <1>2, <1>5, OwedNat, ShareNat
  <2>3. /\ credited[o] \in Nat /\ credited'[o] \in Nat /\ sentBack[o] \in Nat /\ sentBack'[o] \in Nat
    BY DEF TypeInv, RefundTypeOK
  <2>4. RefundedBy(o) \in Nat /\ RefundedBy(o)' \in Nat
    <3>. DEFINE e == [s \in Returns |-> IF return'[s].o = o /\ return'[s].status = "REFUNDED" THEN return'[s].refund ELSE 0]
    <3>1. \A s \in Returns : e[s] \in Nat
      BY DEF TypeInv, RefundTypeOK, ReturnRow
    <3>2. IsFiniteSet(Returns)
      BY RefundAssumption
    <3>3. RefundedBy(o)' = SumFunctionOnSet(e, Returns)
      BY DEF RefundedBy
    <3>. HIDE DEF e
    <3>. QED  BY <3>1, <3>2, <3>3, SumNat, RefundedByNat
  <2>5. credited[o] + Owed(o, Unnoted) <= sentBack[o] /\ RefundedBy(o) + Owed(o, Unclosed) <= sentBack[o]
    BY DEF Claims
  <2>6. credited'[o] + Share(q, o, Unnoted) - sentBack'[o] <= credited[o] + Share(proc[h], o, Unnoted) - sentBack[o]
    OBVIOUS
  <2>7. RefundedBy(o)' + Share(q, o, Unclosed) - sentBack'[o] <= RefundedBy(o) + Share(proc[h], o, Unclosed) - sentBack[o]
    OBVIOUS
  <2>8. credited'[o] + Owed(o, Unnoted)' <= sentBack'[o]
    BY <2>1, <2>2, <2>3, <2>5, <2>6
  <2>9. RefundedBy(o)' + Owed(o, Unclosed)' <= sentBack'[o]
    BY <2>1, <2>2, <2>3, <2>4, <2>5, <2>7
  <2>. QED  BY <2>8, <2>9
<1>7. \A o \in Orders : (credited[o] + Owed(o, Unnoted) <= sentBack[o])' /\ (RefundedBy(o) + Owed(o, Unclosed) <= sentBack[o])'
  BY <1>6
<1>8. \A g \in Handlers : Single(proc[g])' /\ RowKnown(proc[g], return)'
  BY <1>3 DEF Single, OneAmount, RowKnown
<1>. QED  BY <1>4, <1>7, <1>8 DEF Claims

(* A step that leaves the books and the rows alone, of a handler that has nothing to
   claim, or as much as before. *)
LEMMA ClaimsCalm ==
    ASSUME TypeInv, TypeInv', Claims, NEW h \in Handlers, NEW q, Goes(h, q), Single(q), RowKnown(q, return),
           credited' = credited, sentBack' = sentBack, return' = return,
           q.at = "create" => \A g \in Handlers : proc[g].at = "create" => proc[g].r # q.r,
           q.at \notin Unnoted \/ (q.o = proc[h].o /\ q.amount = proc[h].amount /\ proc[h].at \in Unclosed)
    PROVE  Claims'
<1>1. RowsKept(h)
  BY DEF RowsKept
<1>2. \A o : RefundedBy(o)' = RefundedBy(o)
  BY DEF RefundedBy
<1>3. q \in Work /\ proc[h] \in Work /\ Single(proc[h])
  <2>1. proc'[h] = q
    BY GoesElsewhere
  <2>. QED  BY <2>1, WorkAt DEF TypeInv, RefundTypeOK, Claims
<1>4. ASSUME NEW o, NEW T \in {Unnoted, Unclosed}
      PROVE  Share(q, o, T) <= Share(proc[h], o, T)
  <2>1. Share(q, o, T) \in Nat /\ Share(proc[h], o, T) \in Nat
    BY <1>3, ShareNat
  <2>2. CASE q.at \notin Unnoted
    BY <2>1, <2>2, ShareNone
  <2>3. CASE q.o = proc[h].o /\ q.amount = proc[h].amount /\ proc[h].at \in Unclosed
    <3>1. proc[h].at \in T
      BY <2>3 DEF Unnoted, Unclosed
    <3>2. Share(q, o, T) \in {Share(proc[h], o, T), 0}
      BY <2>3, <3>1 DEF Share, Carried
    <3>. QED  BY <2>1, <3>2
  <2>. QED  BY <2>2, <2>3
<1>5. ASSUME NEW o \in Orders
      PROVE  /\ credited'[o] + Share(q, o, Unnoted) - sentBack'[o] <= credited[o] + Share(proc[h], o, Unnoted) - sentBack[o]
             /\ RefundedBy(o)' + Share(q, o, Unclosed) - sentBack'[o] <= RefundedBy(o) + Share(proc[h], o, Unclosed) - sentBack[o]
  <2>1. /\ Share(q, o, Unnoted) \in Nat /\ Share(q, o, Unclosed) \in Nat
        /\ Share(proc[h], o, Unnoted) \in Nat /\ Share(proc[h], o, Unclosed) \in Nat
    BY <1>3, ShareNat
  <2>2. Share(q, o, Unnoted) <= Share(proc[h], o, Unnoted) /\ Share(q, o, Unclosed) <= Share(proc[h], o, Unclosed)
    BY <1>4
  <2>3. credited[o] \in Nat /\ sentBack[o] \in Nat /\ RefundedBy(o) \in Nat
    BY RefundedByNat DEF TypeInv, RefundTypeOK
  <2>4. credited'[o] = credited[o] /\ sentBack'[o] = sentBack[o] /\ RefundedBy(o)' = RefundedBy(o)
    BY <1>2
  <2>. QED  BY <2>1, <2>2, <2>3, <2>4
<1>. QED  BY <1>1, <1>5, ClaimsGo

LEMMA IdleClaims == Single(Idle) /\ \A rows : RowKnown(Idle, rows)
  BY DEF Idle, Single, RowKnown, PaySteps

(* One row is written, by a handler with nothing to claim before or after. *)
LEMMA ClaimsRow ==
    ASSUME TypeInv, TypeInv', Claims, NEW h \in Handlers, NEW q, Goes(h, q), Single(q), RowKnown(q, return'),
           credited' = credited, sentBack' = sentBack, NEW r \in Returns, NEW row, return' = [return EXCEPT ![r] = row],
           row.status \notin {"NONE", "REFUNDED"},
           (return[r].status # "NONE" /\ row.o = return[r].o) \/ (proc[h].at = "create" /\ proc[h].r = r /\ return[r].status = "NONE"),
           q.at \notin Unnoted \cup {"create"}, proc[h].at \notin Unnoted
    PROVE  Claims'
<1>1. return'[r] = row /\ \A s \in Returns : s # r => return'[s] = return[s]
  BY DEF TypeInv, RefundTypeOK
<1>2. RowsKept(h)
  BY <1>1 DEF RowsKept
<1>3. ASSUME NEW o \in Orders
      PROVE  /\ credited'[o] + Share(q, o, Unnoted) - sentBack'[o] <= credited[o] + Share(proc[h], o, Unnoted) - sentBack[o]
             /\ RefundedBy(o)' + Share(q, o, Unclosed) - sentBack'[o] <= RefundedBy(o) + Share(proc[h], o, Unclosed) - sentBack[o]
  <2>1. /\ Share(q, o, Unnoted) = 0 /\ Share(q, o, Unclosed) = 0
        /\ Share(proc[h], o, Unnoted) = 0 /\ Share(proc[h], o, Unclosed) = 0
    BY ShareNone
  <2>2. RefundedBy(o)' = RefundedBy(o) - Claimed(return[r], o) + Claimed(return'[r], o)
    BY <1>1, RefundedByChange
  <2>3. Claimed(return'[r], o) = 0 /\ Claimed(return[r], o) \in Nat
    BY <1>1, ClaimedNat DEF Claimed, TypeInv, RefundTypeOK
  <2>4. credited[o] \in Nat /\ sentBack[o] \in Nat /\ RefundedBy(o) \in Nat
    BY RefundedByNat DEF TypeInv, RefundTypeOK
  <2>5. credited'[o] = credited[o] /\ sentBack'[o] = sentBack[o]
    OBVIOUS
  <2>. QED  BY <2>1, <2>2, <2>3, <2>4, <2>5
<1>. QED  BY <1>2, <1>3, ClaimsGo

LEMMA ReturnsKeepClaims ==
    ASSUME TypeInv, TypeInv', Claims, NEW h \in Handlers, ReturnSteps(h)
    PROVE  Claims'
<1>0. proc[h] \in Work /\ Single(proc[h]) /\ RowKnown(proc[h], return)
  BY WorkAt DEF Claims
<1>1. ASSUME NEW q, Goes(h, q), UNCHANGED <<money, goods, notes>>, Single(q), RowKnown(q, return),
             q.at \notin Unnoted, q.at = "create" => \A g \in Handlers : proc[g].at = "create" => proc[g].r # q.r
      PROVE  Claims'
  <2>1. credited' = credited /\ sentBack' = sentBack /\ return' = return
    BY <1>1 DEF money, goods, notes
  <2>. QED  BY <1>1, <2>1, ClaimsCalm
<1>2. ASSUME NEW r \in Returns, NEW o \in Orders, NEW n \in 1..Quantity, NEW damaged \in BOOLEAN,
             NEW status \in {"REQUESTED", "APPROVED"}, BeginRequest(h, r, o, n, damaged, status)
      PROVE  Claims'
  <2>. DEFINE row == [status |-> status, o |-> o, quantity |-> n, damaged |-> damaged, refund |-> RefundFor(n)]
              q == [at |-> "create", r |-> r, row |-> row]
  <2>1. q.at = "create" /\ q.r = r /\ q.row.status = status /\ Goes(h, q)
    BY <1>2 DEF BeginRequest
  <2>. HIDE DEF q
  <2>2. Single(q) /\ RowKnown(q, return) /\ q.at \notin Unnoted
    BY <1>2, <2>1 DEF BeginRequest, Single, RowKnown, PaySteps, Unnoted
  <2>3. \A g \in Handlers : proc[g].at = "create" => proc[g].r # q.r
    BY <1>2, <2>1 DEF BeginRequest
  <2>4. UNCHANGED <<money, goods, notes>>
    BY <1>2 DEF BeginRequest
  <2>. QED  BY <1>1, <2>1, <2>2, <2>3, <2>4
<1>3. ASSUME NEW r \in Returns, NEW to \in ReturnStatus, BeginMove(h, r, to) PROVE Claims'
  <2>. DEFINE q == [at |-> "move", r |-> r, o |-> return[r].o, to |-> to]
  <2>1. q.at = "move" /\ q.r = r /\ q.to = to /\ Goes(h, q) /\ to # "REFUNDED"
    BY <1>3 DEF BeginMove
  <2>. HIDE DEF q
  <2>2. return[r].status # "NONE"
    BY <1>3 DEF BeginMove, MayBecome, Transitions
  <2>3. Single(q) /\ RowKnown(q, return) /\ q.at \notin Unnoted
    BY <2>1, <2>2 DEF Single, RowKnown, PaySteps, Unnoted
  <2>. QED  BY <1>1, <1>3, <2>1, <2>3 DEF BeginMove
<1>4. ASSUME CreateReturn(h) PROVE Claims'
  <2>1. proc[h] \in Creating /\ proc[h].at = "create" /\ proc[h].r \in Returns
    BY <1>0, <1>4, StepTells DEF CreateReturn, Creating
  <2>2. return[proc[h].r].status = "NONE" /\ proc[h].row.status \in {"REQUESTED", "APPROVED"}
    BY <1>0, <2>1 DEF RowKnown
  <2>3. /\ return' = [return EXCEPT ![proc[h].r] = proc[h].row] /\ Goes(h, Idle)
        /\ credited' = credited /\ sentBack' = sentBack
    BY <1>4 DEF CreateReturn, money, notes
  <2>4. Idle.at \notin Unnoted \cup {"create"} /\ proc[h].at \notin Unnoted
    BY <2>1 DEF Idle, Unnoted
  <2>. QED  BY <2>1, <2>2, <2>3, <2>4, IdleClaims, ClaimsRow
<1>5. ASSUME WriteMove(h) PROVE Claims'
  <2>. DEFINE r == proc[h].r
              row == [return[r] EXCEPT !.status = proc[h].to]
              q == [proc[h] EXCEPT !.at = "restock"]
  <2>1. proc[h] \in Moving /\ proc[h].at = "move" /\ r \in Returns /\ proc[h].to \in ReturnStatus
    BY <1>0, <1>5, StepTells DEF WriteMove, Moving
  <2>2. return[r].status # "NONE" /\ proc[h].to # "REFUNDED" /\ return[r] \in ReturnRow
    BY <1>0, <2>1 DEF RowKnown, TypeInv, RefundTypeOK
  <2>3. row.status = proc[h].to /\ row.o = return[r].o /\ proc[h].to # "NONE"
    BY <2>1, <2>2 DEF ReturnRow, ReturnStatus
  <2>4. return' = [return EXCEPT ![r] = row] /\ credited' = credited /\ sentBack' = sentBack
        /\ (Goes(h, Idle) \/ Goes(h, q))
    BY <1>5, <2>1 DEF WriteMove, money, notes
  <2>5. return'[r] = row
    BY <2>1, <2>4 DEF TypeInv, RefundTypeOK
  <2>6. q.at = "restock" /\ q.r = r /\ q.to = proc[h].to
    BY <2>1 DEF Moving
  <2>. HIDE DEF q, row, r
  <2>7. Single(q) /\ RowKnown(q, return') /\ q.at \notin Unnoted \cup {"create"}
    BY <2>1, <2>2, <2>3, <2>5, <2>6 DEF Single, RowKnown, PaySteps, Unnoted
  <2>8. Idle.at \notin Unnoted \cup {"create"} /\ proc[h].at \notin Unnoted
    BY <2>1 DEF Idle, Unnoted
  <2>. QED  BY <2>1, <2>2, <2>3, <2>4, <2>7, <2>8, IdleClaims, ClaimsRow
<1>6. ASSUME RestockReturn(h) PROVE Claims'
  <2>1. Goes(h, Idle) /\ credited' = credited /\ sentBack' = sentBack /\ return' = return
    BY <1>6 DEF RestockReturn, money, notes
  <2>2. Idle.at \notin Unnoted /\ Idle.at # "create"
    BY DEF Idle, Unnoted
  <2>. QED  BY <2>1, <2>2, IdleClaims, ClaimsCalm
<1>7. ASSUME NEW r \in Returns, NEW amount, BeginRefund(h, r, amount) PROVE Claims'
  <2>. DEFINE q == Pays(return[r].o, {r}, {amount})
  <2>1. q.at = "check" /\ q.o = return[r].o /\ q.for = {r} /\ Goes(h, q)
    BY <1>7 DEF BeginRefund, Pays
  <2>. HIDE DEF q
  <2>2. return[r].status # "NONE"
    BY <1>7 DEF BeginRefund, MayBecome, Transitions
  <2>3. Single(q) /\ RowKnown(q, return) /\ q.at \notin Unnoted
    BY <2>1, <2>2 DEF Single, RowKnown, PaySteps, Unnoted
  <2>. QED  BY <1>1, <1>7, <2>1, <2>3 DEF BeginRefund
<1>. QED  BY <1>2, <1>3, <1>4, <1>5, <1>6, <1>7 DEF ReturnSteps
----------------------------------------------------------------------------
(* A handler goes on with a refund it is about. *)
LEMMA PayingGoes ==
    ASSUME NEW p \in Work, p.at \in PaySteps, NEW s \in PaySteps
    PROVE  LET q == [p EXCEPT !.at = s] IN
           /\ q.at = s /\ q.o = p.o /\ q.for = p.for /\ q.amount = p.amount /\ q.read = p.read
           /\ p \in Paying /\ p.o \in Orders
  BY StepTells DEF Paying

LEMMA RefundsKeepClaims ==
    ASSUME TypeInv, TypeInv', Books, Claims, NEW h \in Handlers, RefundSteps(h)
    PROVE  Claims'
<1>0. proc[h] \in Work /\ Single(proc[h]) /\ RowKnown(proc[h], return)
  BY WorkAt DEF Claims
<1>t. \A o \in Orders : /\ credited[o] \in Nat /\ sentBack[o] \in Nat /\ RefundedBy(o) \in Nat
                        /\ credited'[o] \in Nat /\ sentBack'[o] \in Nat
  BY RefundedByNat DEF TypeInv, RefundTypeOK
<1>i. Single(Idle) /\ RowKnown(Idle, return) /\ Idle.at \notin Unnoted /\ Idle.at # "create"
  BY IdleClaims DEF Idle, Unnoted
(* It goes on to a step with the same refund in hand. *)
<1>g. ASSUME proc[h].at \in PaySteps, NEW s \in PaySteps
      PROVE  LET q == [proc[h] EXCEPT !.at = s] IN
             /\ q.at = s /\ q.o = proc[h].o /\ q.for = proc[h].for /\ q.amount = proc[h].amount
             /\ Single(q) /\ RowKnown(q, return) /\ proc[h] \in Paying /\ proc[h].o \in Orders
  <2>. DEFINE q == [proc[h] EXCEPT !.at = s]
  <2>1. q.at = s /\ q.o = proc[h].o /\ q.for = proc[h].for /\ q.amount = proc[h].amount
        /\ proc[h] \in Paying /\ proc[h].o \in Orders
    BY <1>0, <1>g, PayingGoes
  <2>. HIDE DEF q
  <2>2. Single(q)
    BY <1>0, <1>g, <2>1 DEF Single, OneAmount
  <2>3. RowKnown(q, return)
    BY <1>0, <1>g, <2>1 DEF RowKnown, PaySteps
  <2>. QED  BY <2>1, <2>2, <2>3 DEF q
<1>1. ASSUME CheckRefund(h) PROVE Claims'
  <2>. DEFINE p == proc[h]
              amounts == (IF p.amount = {} THEN {Remaining(p.o)} ELSE p.amount) \cap 1..Remaining(p.o)
              q == [at |-> "ask", o |-> p.o, for |-> p.for, amount |-> amounts, read |-> payment[p.o].refunded]
  <2>1. /\ credited' = credited /\ sentBack' = sentBack /\ return' = return /\ p.at = "check"
        /\ (Goes(h, Idle) \/ (Goes(h, q) /\ amounts # {}))
    BY <1>1 DEF CheckRefund, money, goods, notes
  <2>2. CASE Goes(h, Idle)
    BY <1>i, <2>1, <2>2, ClaimsCalm
  <2>3. CASE Goes(h, q) /\ amounts # {}
    <3>1. \A a, b \in amounts : a = b
      <4>1. CASE p.amount = {}
        BY <4>1
      <4>2. CASE p.amount # {}
        BY <2>1, <4>2 DEF Books, CarriesOne, OneAmount
      <4>. QED  BY <4>1, <4>2
    <3>2. q.at = "ask" /\ q.o = p.o /\ q.for = p.for /\ q.amount = amounts
      OBVIOUS
    <3>3. Goes(h, q) /\ amounts # {}
      BY <2>3
    <3>. HIDE DEF q, amounts
    <3>4. Single(q)
      BY <3>1, <3>2, <3>3 DEF Single, OneAmount
    <3>5. RowKnown(q, return) /\ q.at \notin Unnoted
      BY <1>0, <2>1, <3>2 DEF RowKnown, PaySteps, Unnoted
    <3>. QED  BY <2>1, <3>2, <3>3, <3>4, <3>5, ClaimsCalm
  <2>. QED  BY <2>1, <2>2, <2>3
<1>2. ASSUME ProviderFails(h) PROVE Claims'
  <2>1. Goes(h, Idle) /\ credited' = credited /\ sentBack' = sentBack /\ return' = return
    BY <1>2 DEF ProviderFails, Failed, money, goods, notes
  <2>. QED  BY <1>i, <2>1, ClaimsCalm
<1>3. ASSUME NEW s \in {"flip", "close", "note"}, Goes(h, [proc[h] EXCEPT !.at = s]),
             proc[h].at \in {"record", "flip"}, credited' = credited, sentBack' = sentBack, return' = return
      PROVE  Claims'
  <2>. DEFINE q == [proc[h] EXCEPT !.at = s]
  <2>1. proc[h].at \in PaySteps /\ s \in PaySteps /\ s # "create" /\ proc[h].at \in Unclosed
    BY <1>3 DEF PaySteps, Unclosed
  <2>2. q.at = s /\ q.o = proc[h].o /\ q.amount = proc[h].amount /\ Single(q) /\ RowKnown(q, return)
    BY <1>g, <2>1
  <2>3. Goes(h, q)
    BY <1>3
  <2>. HIDE DEF q
  <2>. QED  BY <1>3, <2>1, <2>2, <2>3, ClaimsCalm
<1>4. ASSUME FlipOrder(h) PROVE Claims'
  BY <1>3, <1>4 DEF FlipOrder, AfterRefund, goods, notes
<1>5. ASSUME NEW a \in proc[h].amount, RecordRefund(h, a) PROVE Claims'
  BY <1>3, <1>5 DEF RecordRefund, AfterRefund, goods, notes
<1>6. ASSUME NEW a \in proc[h].amount, AskProvider(h, a) PROVE Claims'
  <2>. DEFINE q == [proc[h] EXCEPT !.at = "record"]
  <2>1. proc[h].at = "ask" /\ proc[h].at \in PaySteps /\ "record" \in PaySteps
    BY <1>6 DEF AskProvider, PaySteps
  <2>2. /\ q.at = "record" /\ q.o = proc[h].o /\ q.amount = proc[h].amount
        /\ Single(q) /\ RowKnown(q, return) /\ proc[h].o \in Orders
    BY <1>g, <2>1
  <2>3. Goes(h, q) /\ credited' = credited /\ return' = return /\ sentBack' = [sentBack EXCEPT ![proc[h].o] = @ + a]
    BY <1>6 DEF AskProvider, goods, notes
  <2>4. a = Carried(proc[h]) /\ Carried(q) = Carried(proc[h]) /\ a \in Nat
    BY <1>0, <2>1, <2>2, CarriedIs DEF Carried
  <2>5. \A o \in Orders : sentBack'[o] = IF o = proc[h].o THEN sentBack[o] + a ELSE sentBack[o]
    BY <2>2, <2>3 DEF TypeInv, RefundTypeOK
  <2>. HIDE DEF q
  <2>6. \A o, T : T \in {Unnoted, Unclosed} => Share(proc[h], o, T) = 0 /\ Share(q, o, T) = IF o = proc[h].o THEN a ELSE 0
    BY <2>1, <2>2, <2>4 DEF Share, Unnoted, Unclosed
  <2>7. \A o : RefundedBy(o)' = RefundedBy(o)
    BY <2>3 DEF RefundedBy
  <2>8. ASSUME NEW o \in Orders
        PROVE  /\ credited'[o] + Share(q, o, Unnoted) - sentBack'[o] <= credited[o] + Share(proc[h], o, Unnoted) - sentBack[o]
               /\ RefundedBy(o)' + Share(q, o, Unclosed) - sentBack'[o] <= RefundedBy(o) + Share(proc[h], o, Unclosed) - sentBack[o]
    <3>1. /\ Share(proc[h], o, Unnoted) = 0 /\ Share(q, o, Unnoted) = IF o = proc[h].o THEN a ELSE 0
          /\ Share(proc[h], o, Unclosed) = 0 /\ Share(q, o, Unclosed) = IF o = proc[h].o THEN a ELSE 0
      BY <2>6
    <3>2. sentBack'[o] = IF o = proc[h].o THEN sentBack[o] + a ELSE sentBack[o]
      BY <2>5
    <3>3. credited'[o] = credited[o] /\ RefundedBy(o)' = RefundedBy(o)
      BY <2>3, <2>7
    <3>4. credited[o] \in Nat /\ sentBack[o] \in Nat /\ RefundedBy(o) \in Nat /\ a \in Nat
      BY <1>t, <2>4
    <3>. QED  BY <3>1, <3>2, <3>3, <3>4
  <2>9. RowsKept(h)
    BY <2>3 DEF RowsKept
  <2>10. RowKnown(q, return') /\ q.at # "create"
    BY <2>2, <2>3
  <2>. QED  BY <2>2, <2>3, <2>8, <2>9, <2>10, ClaimsGo
<1>7. ASSUME NEW a \in proc[h].amount, NEW r \in proc[h].for, CloseReturn(h, r, a) PROVE Claims'
  <2>. DEFINE q == [proc[h] EXCEPT !.at = "note"]
              p == proc[h]
              row == [return[r] EXCEPT !.status = "REFUNDED", !.refund = a]
  <2>1. p.at = "close" /\ p.at \in PaySteps /\ "note" \in PaySteps
    BY <1>7 DEF CloseReturn, PaySteps
  <2>2. /\ q.at = "note" /\ q.o = p.o /\ q.for = p.for /\ q.amount = p.amount
        /\ Single(q) /\ RowKnown(q, return) /\ p.o \in Orders /\ p \in Paying
    BY <1>g, <2>1
  <2>3. Goes(h, q) /\ credited' = credited /\ sentBack' = sentBack
        /\ return' = [return EXCEPT ![r].status = "REFUNDED", ![r].refund = a]
    BY <1>7 DEF CloseReturn, money, notes
  <2>4. a = Carried(p) /\ Carried(q) = Carried(p) /\ a \in Nat
    BY <1>0, <2>1, <2>2, CarriedIs DEF Carried
  <2>5. r \in Returns /\ return[r] \in ReturnRow /\ return[r].o = p.o /\ return[r].status # "NONE"
    BY <1>0, <2>1, <2>2 DEF Paying, RowKnown, TypeInv, RefundTypeOK
  <2>6. return'[r] = row /\ \A s \in Returns : s # r => return'[s] = return[s]
    BY <2>3, <2>5 DEF TypeInv, RefundTypeOK
  <2>7. row.status = "REFUNDED" /\ row.refund = a /\ row.o = p.o
    BY <2>5 DEF ReturnRow
  <2>. HIDE DEF q, row, p
  <2>8. /\ \A o : Share(p, o, Unnoted) = IF o = p.o THEN a ELSE 0
        /\ \A o : Share(q, o, Unnoted) = IF o = p.o THEN a ELSE 0
        /\ \A o : Share(p, o, Unclosed) = IF o = p.o THEN a ELSE 0
        /\ \A o : Share(q, o, Unclosed) = 0
    BY <2>1, <2>2, <2>4 DEF Share, Unnoted, Unclosed
  <2>9. ASSUME NEW o \in Orders
        PROVE  /\ credited'[o] + Share(q, o, Unnoted) - sentBack'[o] <= credited[o] + Share(p, o, Unnoted) - sentBack[o]
               /\ RefundedBy(o)' + Share(q, o, Unclosed) - sentBack'[o] <= RefundedBy(o) + Share(p, o, Unclosed) - sentBack[o]
    <3>1. RefundedBy(o)' = RefundedBy(o) - Claimed(return[r], o) + Claimed(return'[r], o)
      BY <2>5, <2>6, RefundedByChange
    <3>2. Claimed(return'[r], o) = IF o = p.o THEN a ELSE 0
      BY <2>6, <2>7 DEF Claimed
    <3>3. Claimed(return[r], o) \in Nat
      BY <2>5, ClaimedNat
    <3>4. credited[o] \in Nat /\ sentBack[o] \in Nat /\ RefundedBy(o) \in Nat /\ a \in Nat
      BY <1>t, <2>4
    <3>5. credited'[o] = credited[o] /\ sentBack'[o] = sentBack[o]
      BY <2>3
    <3>6. /\ Share(p, o, Unnoted) = Share(q, o, Unnoted) /\ Share(q, o, Unnoted) = IF o = p.o THEN a ELSE 0
          /\ Share(p, o, Unclosed) = IF o = p.o THEN a ELSE 0
          /\ Share(q, o, Unclosed) = 0
      BY <2>8
    <3>. QED  BY <3>1, <3>2, <3>3, <3>4, <3>5, <3>6
  <2>10. RowsKept(h)
    BY <2>5, <2>6, <2>7 DEF RowsKept
  <2>11. RowKnown(q, return') /\ q.at # "create"
    BY <2>2, <2>5, <2>6, <2>7 DEF RowKnown, Paying
  <2>. QED  BY <2>2, <2>3, <2>9, <2>10, <2>11, ClaimsGo DEF p
<1>8. ASSUME NEW a \in proc[h].amount, WriteNote(h, a) PROVE Claims'
  <2>. DEFINE p == proc[h]
              q == AfterNote(p)
  <2>1. p.at = "note" /\ p.at \in PaySteps
    BY <1>8 DEF WriteNote, PaySteps
  <2>2. /\ Goes(h, q) /\ return' = return /\ sentBack' = sentBack
        /\ \/ credited' = [credited EXCEPT ![p.o] = @ + a]
           \/ credited' = credited
    BY <1>8 DEF WriteNote, money, goods
  <2>3. q.at \notin Unnoted /\ q.at # "create" /\ Single(q) /\ RowKnown(q, return)
    BY <1>i DEF AfterNote, Unnoted, Single, RowKnown, PaySteps
  <2>4. a = Carried(p) /\ a \in Nat /\ p.o \in Orders
    BY <1>0, <1>g, <2>1, CarriedIs
  <2>. HIDE DEF q, p
  <2>5. /\ \A o : Share(p, o, Unnoted) = IF o = p.o THEN a ELSE 0
        /\ \A o : Share(p, o, Unclosed) = 0
        /\ \A o : Share(q, o, Unnoted) = 0 /\ Share(q, o, Unclosed) = 0
    BY <2>1, <2>3, <2>4, ShareNone DEF Share, Unnoted, Unclosed
  <2>6. \A o \in Orders : credited'[o] = credited[o] \/ (o = p.o /\ credited'[o] = credited[o] + a)
    BY <2>2, <2>4 DEF TypeInv, RefundTypeOK
  <2>7. \A o : RefundedBy(o)' = RefundedBy(o)
    BY <2>2 DEF RefundedBy
  <2>8. ASSUME NEW o \in Orders
        PROVE  /\ credited'[o] + Share(q, o, Unnoted) - sentBack'[o] <= credited[o] + Share(p, o, Unnoted) - sentBack[o]
               /\ RefundedBy(o)' + Share(q, o, Unclosed) - sentBack'[o] <= RefundedBy(o) + Share(p, o, Unclosed) - sentBack[o]
    <3>1. credited'[o] = credited[o] \/ (o = p.o /\ credited'[o] = credited[o] + a)
      BY <2>6
    <3>2. credited[o] \in Nat /\ sentBack[o] \in Nat /\ RefundedBy(o) \in Nat /\ a \in Nat
      BY <1>t, <2>4
    <3>3. RefundedBy(o)' = RefundedBy(o) /\ sentBack'[o] = sentBack[o]
      BY <2>2, <2>7
    <3>4. /\ Share(p, o, Unnoted) = (IF o = p.o THEN a ELSE 0) /\ Share(p, o, Unclosed) = 0
          /\ Share(q, o, Unnoted) = 0 /\ Share(q, o, Unclosed) = 0
      BY <2>5
    <3>. QED  BY <3>1, <3>2, <3>3, <3>4
  <2>9. RowsKept(h)
    BY <2>2 DEF RowsKept
  <2>10. RowKnown(q, return')
    BY <2>2, <2>3
  <2>. QED  BY <2>2, <2>3, <2>8, <2>9, <2>10, ClaimsGo DEF p
<1>. QED  BY <1>1, <1>2, <1>4, <1>5, <1>6, <1>7, <1>8 DEF RefundSteps

LEMMA OthersKeepClaims ==
    ASSUME TypeInv, TypeInv', Claims,
           \/ \E h \in Handlers : CancelSteps(h) \/ BestEffortFails(h) \/ Crash(h)
           \/ \E o \in Orders : Elsewhere(o)
    PROVE  Claims'
<1>i. Single(Idle) /\ RowKnown(Idle, return) /\ Idle.at \notin Unnoted /\ Idle.at # "create"
  BY IdleClaims DEF Idle, Unnoted
<1>1. ASSUME NEW h \in Handlers, NEW q, Goes(h, q), credited' = credited, sentBack' = sentBack, return' = return,
             q.at \in {"idle", "cancel", "restore"} \/ (q.at = "check" /\ q.for = {})
      PROVE  Claims'
  <2>1. Single(q) /\ RowKnown(q, return) /\ q.at \notin Unnoted /\ q.at # "create"
    BY <1>1 DEF Single, RowKnown, PaySteps, Unnoted
  <2>. QED  BY <1>1, <2>1, ClaimsCalm
<1>2. ASSUME NEW h \in Handlers, NEW o \in Orders, BeginCancel(h, o) PROVE Claims'
  <2>1. Pays(o, {}, {}).at = "check" /\ Pays(o, {}, {}).for = {}
    BY DEF Pays
  <2>. QED  BY <1>1, <1>2, <2>1 DEF BeginCancel, money, goods, notes
<1>3. ASSUME NEW h \in Handlers, CancelOrder(h) PROVE Claims'
  <2>1. proc[h] \in Cancelling
    BY <1>3, WorkAt, StepTells DEF CancelOrder
  <2>2. [proc[h] EXCEPT !.at = "restore"].at = "restore"
    BY <2>1 DEF Cancelling
  <2>. QED  BY <1>1, <1>3, <2>2 DEF CancelOrder, goods, notes
<1>4. ASSUME NEW h \in Handlers, RestoreOrder(h) PROVE Claims'
  BY <1>1, <1>4 DEF RestoreOrder, money, notes, Idle
<1>5. ASSUME NEW h \in Handlers, BestEffortFails(h) PROVE Claims'
  BY <1>1, <1>5 DEF BestEffortFails, AfterNote, money, goods, notes, Idle
<1>6. ASSUME NEW h \in Handlers, Crash(h) PROVE Claims'
  BY <1>1, <1>6 DEF Crash, money, goods, notes, Idle
<1>7. ASSUME NEW o \in Orders, Elsewhere(o) PROVE Claims'
  <2>1. UNCHANGED <<proc, return, credited, sentBack>>
    BY <1>7 DEF Elsewhere, Fulfil, OrderWritten, PaymentWritten, goods, notes
  <2>. QED  BY <2>1 DEF Claims, Single, OneAmount, RowKnown, CreatesAlone, Owed, RefundedBy, Share
<1>. QED  BY <1>2, <1>3, <1>4, <1>5, <1>6, <1>7 DEF CancelSteps

LEMMA NextKeepsClaims == TypeInv /\ TypeInv' /\ Books /\ Claims /\ [Next]_vars => Claims'
<1>. SUFFICES ASSUME TypeInv, TypeInv', Books, Claims, [Next]_vars PROVE Claims'
  OBVIOUS
<1>1. CASE UNCHANGED vars
  <2>1. UNCHANGED <<proc, return, credited, sentBack>>
    BY <1>1 DEF vars, money, goods, notes
  <2>. QED  BY <2>1 DEF Claims, Single, OneAmount, RowKnown, CreatesAlone, Owed, RefundedBy, Share
<1>2. CASE Next
  BY <1>2, ReturnsKeepClaims, RefundsKeepClaims, OthersKeepClaims DEF Next
<1>. QED  BY <1>1, <1>2

LEMMA InitClaims == Init => Claims
<1>. SUFFICES ASSUME Init PROVE Claims
  OBVIOUS
<1>1. \A h \in Handlers : proc[h] = Idle
  BY DEF Init
<1>3. ASSUME NEW o \in Orders, NEW T \in {Unnoted, Unclosed} PROVE Owed(o, T) = 0
  <2>. DEFINE f == [h \in Handlers |-> Share(proc[h], o, T)]
  <2>1. \A h \in Handlers : f[h] = 0
    BY <1>1, ShareNone DEF Idle, Unnoted
  <2>2. IsFiniteSet(Handlers)
    BY RefundAssumption
  <2>. HIDE DEF f
  <2>3. SumFunctionOnSet(f, Handlers) = 0
    BY <2>1, <2>2, SumZero
  <2>. QED  BY <2>3 DEF Owed, f
<1>4. ASSUME NEW o \in Orders PROVE RefundedBy(o) = 0
  <2>. DEFINE f == [r \in Returns |-> IF return[r].o = o /\ return[r].status = "REFUNDED" THEN return[r].refund ELSE 0]
  <2>1. \A r \in Returns : f[r] = 0
    BY DEF Init
  <2>2. IsFiniteSet(Returns)
    BY RefundAssumption
  <2>. HIDE DEF f
  <2>3. SumFunctionOnSet(f, Returns) = 0
    BY <2>1, <2>2, SumZero
  <2>. QED  BY <2>3 DEF RefundedBy, f
<1>5. \A h \in Handlers : Single(proc[h]) /\ RowKnown(proc[h], return)
  BY <1>1, IdleClaims
<1>6. CreatesAlone
  BY <1>1 DEF CreatesAlone, Idle
<1>7. \A o \in Orders : credited[o] = 0 /\ sentBack[o] = 0
  BY DEF Init
<1>. QED  BY <1>3, <1>4, <1>5, <1>6, <1>7 DEF Claims

(* However many handlers refund at once, whoever dies or fails and whatever other
   components write, the returns marked refunded and the credit notes claim no money
   that the provider was not asked to pay back. *)
THEOREM ClaimsAreSent == Spec => []ClaimsWereSent
<1>1. Init => TypeInv /\ Books /\ Claims
  BY InitTyped, InitBooks, InitClaims
<1>2. TypeInv /\ Books /\ Claims /\ [Next]_vars => (TypeInv /\ Books /\ Claims)'
  BY NextTyped, NextKeepsBooks, NextKeepsClaims
<1>3. TypeInv /\ Claims => ClaimsWereSent
  <2>. SUFFICES ASSUME TypeInv, Claims, NEW o \in Orders PROVE RefundedBy(o) <= sentBack[o] /\ credited[o] <= sentBack[o]
    BY DEF ClaimsWereSent, RefundedReturnsSent, CreditedWasSent
  <2>1. \A g \in Handlers : Single(proc[g])
    BY DEF Claims
  <2>2. Owed(o, Unnoted) \in Nat /\ Owed(o, Unclosed) \in Nat
    BY <2>1, OwedNat
  <2>3. credited[o] \in Nat /\ sentBack[o] \in Nat /\ RefundedBy(o) \in Nat
    BY RefundedByNat DEF TypeInv, RefundTypeOK
  <2>4. credited[o] + Owed(o, Unnoted) <= sentBack[o] /\ RefundedBy(o) + Owed(o, Unclosed) <= sentBack[o]
    BY DEF Claims
  <2>. QED  BY <2>2, <2>3, <2>4
<1>. QED  BY <1>1, <1>2, <1>3, PTL DEF Spec
----------------------------------------------------------------------------
(* One handler at a time, none that dies, no failing stock call and no status written
   elsewhere: what a handler knows about its return, its order and the refund. *)
Alone == OneAtATime /\ Ops \cap {"fault", "elsewhere"} = {} /\ Total > 0

Orderly(p, rows, done, orders, pays, over) ==
    /\ p.at = "move" => p.to \in Transitions[rows[p.r].status]
    /\ p.at \in PaySteps \cup {"check"} => \A r, s \in p.for : r = s
    /\ p.at \in {"check", "ask", "record", "flip", "close"} =>
          \A r \in p.for : rows[r].status \in {"APPROVED", "RECEIVED"}
    /\ p.at = "note" => \A r \in p.for : rows[r].status = "REFUNDED" /\ r \notin done
    /\ p.at \in PaySteps \cup {"cancel"} => ~WasCancelled(orders[p.o], over[p.o])
    /\ (p.at = "check" /\ p.for = {}) => ~WasCancelled(orders[p.o], over[p.o]) /\ p.amount = {}
    /\ (p.at \in {"ask", "record"} /\ p.for = {}) => \A a \in p.amount : p.read + a >= Total
    /\ (p.at = "cancel" \/ (p.at \in {"flip", "note"} /\ p.for = {})) =>
          pays[p.o].status \notin {"CAPTURED", "PARTIALLY_REFUNDED"}

(* Units a handler is about to put back, units that are back by the rows. *)
PutsBack(p, rows, o) ==
    IF p.at = "restock" /\ rows[p.r].o = o THEN SoundUnits(rows[p.r])
    ELSE IF p.at = "restore" /\ p.o = o THEN Quantity ELSE 0
ToPutBack(o) == SumFunctionOnSet([h \in Handlers |-> PutsBack(proc[h], return, o)], Handlers)
Back(row, o) == IF CameBack(o, row) THEN SoundUnits(row) ELSE 0
Gone(status, over) == IF WasCancelled(status, over) THEN Quantity ELSE 0
ClosedOrClosing(o) ==
    \/ WasClosed(order[o], reopened[o])
    \/ \E h \in Handlers : proc[h].at = "flip" /\ proc[h].o = o

Settling ==
    /\ \A h \in Handlers : Orderly(proc[h], return, noted, order, payment, reopened)
    /\ \A r \in noted : return[r].status = "REFUNDED"
    /\ \A o \in Orders : invoiced[o] => credited[o] + Owed(o, Unnoted) = sentBack[o]
    /\ \A o \in Orders : payment[o].refunded = Total => ClosedOrClosing(o)
    /\ \A o \in Orders : WasCancelled(order[o], reopened[o]) => payment[o].status \notin {"CAPTURED", "PARTIALLY_REFUNDED"}
    /\ \A o \in Orders : restocked[o] + ToPutBack(o) <= UnitsBack(o) + Gone(order[o], reopened[o])

LEMMA SoundNat ==
    ASSUME NEW row \in ReturnRow
    PROVE  SoundUnits(row) \in Nat
  BY RefundAssumption DEF ReturnRow, SoundUnits

LEMMA PutsBackNat ==
    ASSUME TypeInv, NEW p \in Work, NEW o
    PROVE  PutsBack(p, return, o) \in Nat
<1>1. p.at = "restock" => SoundUnits(return[p.r]) \in Nat
  BY StepTells, SoundNat DEF Moving, TypeInv, RefundTypeOK
<1>. QED  BY <1>1, RefundAssumption DEF PutsBack

LEMMA ToPutBackGoes ==
    ASSUME OneAtATime, TypeInv, TypeInv', NEW h \in Handlers, NEW o
    PROVE  /\ ToPutBack(o) = PutsBack(proc[h], return, o) /\ ToPutBack(o)' = PutsBack(proc'[h], return', o)
           /\ ToPutBack(o) \in Nat /\ ToPutBack(o)' \in Nat
<1>. DEFINE f == [g \in Handlers |-> PutsBack(proc[g], return, o)]
            e == [g \in Handlers |-> PutsBack(proc'[g], return', o)]
<1>1. Handlers = {h}
  BY DEF OneAtATime
<1>2. IsFiniteSet(Handlers) /\ h \notin {} /\ Handlers = {} \cup {h}
  BY <1>1, RefundAssumption
<1>3. f[h] = PutsBack(proc[h], return, o) /\ e[h] = PutsBack(proc'[h], return', o)
  OBVIOUS
<1>4. PutsBack(proc[h], return, o) \in Nat
  BY WorkAt, PutsBackNat
<1>5. PutsBack(proc'[h], return', o) \in Nat
  <2>1. proc'[h] \in Work /\ return' \in [Returns -> ReturnRow]
    BY DEF TypeInv, RefundTypeOK
  <2>2. proc'[h].at = "restock" => SoundUnits(return'[proc'[h].r]) \in Nat
    BY <2>1, StepTells, SoundNat DEF Moving
  <2>. QED  BY <2>2, RefundAssumption DEF PutsBack
<1>6. ToPutBack(o) = SumFunctionOnSet(f, Handlers) /\ ToPutBack(o)' = SumFunctionOnSet(e, Handlers)
  BY DEF ToPutBack, PutsBack, SoundUnits
<1>. HIDE DEF e, f
<1>7. IsFiniteSet({})
  BY FS_EmptySet
<1>8. SumFunctionOnSet(f, Handlers) = f[h] + SumFunctionOnSet(f, {})
  <2>1. \A x \in {} \cup {h} : f[x] \in Int
    BY <1>3, <1>4
  <2>. QED  BY <1>2, <1>7, <2>1, SumWith
<1>9. SumFunctionOnSet(e, Handlers) = e[h] + SumFunctionOnSet(e, {})
  <2>1. \A x \in {} \cup {h} : e[x] \in Int
    BY <1>3, <1>5
  <2>. QED  BY <1>2, <1>7, <2>1, SumWith
<1>10. SumFunctionOnSet(f, {}) = 0 /\ SumFunctionOnSet(e, {}) = 0
  BY SumEmpty
<1>. QED  BY <1>3, <1>4, <1>5, <1>6, <1>8, <1>9, <1>10

LEMMA UnitsBackNat ==
    ASSUME TypeInv, NEW o
    PROVE  UnitsBack(o) \in Nat
<1>. DEFINE f == [r \in Returns |-> IF CameBack(o, return[r]) THEN SoundUnits(return[r]) ELSE 0]
<1>1. \A r \in Returns : f[r] \in Nat
  BY SoundNat DEF TypeInv, RefundTypeOK
<1>2. IsFiniteSet(Returns)
  BY RefundAssumption
<1>. HIDE DEF f
<1>3. SumFunctionOnSet(f, Returns) \in Nat
  BY <1>1, <1>2, SumNat
<1>. QED  BY <1>3 DEF UnitsBack, f

LEMMA UnitsBackChange ==
    ASSUME TypeInv, TypeInv', NEW r \in Returns, \A s \in Returns : s # r => return'[s] = return[s], NEW o
    PROVE  UnitsBack(o)' = UnitsBack(o) - Back(return[r], o) + Back(return'[r], o)
<1>. DEFINE f == [s \in Returns |-> IF CameBack(o, return[s]) THEN SoundUnits(return[s]) ELSE 0]
            e == [s \in Returns |-> IF CameBack(o, return'[s]) THEN SoundUnits(return'[s]) ELSE 0]
<1>1. \A s \in Returns : f[s] \in Int /\ e[s] \in Int
  <2>1. \A s \in Returns : SoundUnits(return[s]) \in Int /\ SoundUnits(return'[s]) \in Int
    BY SoundNat DEF TypeInv, RefundTypeOK
  <2>. QED  BY <2>1
<1>2. f[r] = Back(return[r], o) /\ e[r] = Back(return'[r], o)
  BY DEF Back
<1>3. \A s \in Returns \ {r} : f[s] = e[s]
  OBVIOUS
<1>4. IsFiniteSet(Returns)
  BY RefundAssumption
<1>5. UnitsBack(o) = SumFunctionOnSet(f, Returns) /\ UnitsBack(o)' = SumFunctionOnSet(e, Returns)
  BY DEF UnitsBack, CameBack, SoundUnits
<1>. HIDE DEF e, f
<1>6. SumFunctionOnSet(e, Returns) = SumFunctionOnSet(f, Returns) - f[r] + e[r]
  BY <1>1, <1>3, <1>4, SumChange
<1>. QED  BY <1>2, <1>5, <1>6

LEMMA StillOwed ==
    ASSUME NEW c \in Int, NEW d \in Int, NEW s \in Int, NEW t \in Int, NEW w \in Int, NEW x \in Int, NEW y \in Int,
           c + w = s, d + y - t = c + x - s
    PROVE  d + (w - x + y) = t
  OBVIOUS

(* The one handler goes on. *)
LEMMA SettlingGo ==
    ASSUME OneAtATime, TypeInv, TypeInv', Claims, Settling, NEW h \in Handlers, NEW q, Goes(h, q),
           Single(q), Orderly(q, return', noted', order', payment', reopened'), invoiced' = invoiced, reopened' = reopened,
           \A r \in noted' : return'[r].status = "REFUNDED",
           \A o \in Orders : invoiced[o] => credited'[o] + Share(q, o, Unnoted) - sentBack'[o]
                                              = credited[o] + Share(proc[h], o, Unnoted) - sentBack[o],
           \A o \in Orders : payment'[o].refunded = Total =>
                                WasClosed(order'[o], reopened'[o]) \/ (q.at = "flip" /\ q.o = o),
           \A o \in Orders : WasCancelled(order'[o], reopened'[o]) => payment'[o].status \notin {"CAPTURED", "PARTIALLY_REFUNDED"},
           \A o \in Orders : restocked'[o] + PutsBack(q, return', o) - UnitsBack(o)' - Gone(order'[o], reopened'[o])
                               <= restocked[o] + PutsBack(proc[h], return, o) - UnitsBack(o) - Gone(order[o], reopened[o])
    PROVE  Settling'
<1>1. proc'[h] = q /\ \A g \in Handlers : g = h
  BY GoesElsewhere DEF OneAtATime
<1>2. \A g \in Handlers : Orderly(proc'[g], return', noted', order', payment', reopened')
  BY <1>1
<1>3. q \in Work /\ proc[h] \in Work /\ \A g \in Handlers : Single(proc[g])
  BY <1>1, WorkAt DEF TypeInv, RefundTypeOK, Claims
<1>4. ASSUME NEW o \in Orders, invoiced[o] PROVE credited'[o] + Owed(o, Unnoted)' = sentBack'[o]
  <2>1. Share(q, o, Unnoted) \in Nat /\ Share(proc[h], o, Unnoted) \in Nat
    BY <1>3, ShareNat
  <2>2. Owed(o, Unnoted)' = Owed(o, Unnoted) - Share(proc[h], o, Unnoted) + Share(q, o, Unnoted)
    BY <1>3, <2>1, OwedGoes
  <2>3. Owed(o, Unnoted) \in Nat
    BY <1>3, OwedNat
  <2>4. credited[o] \in Nat /\ credited'[o] \in Nat /\ sentBack[o] \in Nat /\ sentBack'[o] \in Nat
    BY DEF TypeInv, RefundTypeOK
  <2>5. credited[o] + Owed(o, Unnoted) = sentBack[o]
    BY <1>4 DEF Settling
  <2>6. credited'[o] + Share(q, o, Unnoted) - sentBack'[o] = credited[o] + Share(proc[h], o, Unnoted) - sentBack[o]
    BY <1>4
  <2>. DEFINE c == credited[o]
              d == credited'[o]
              s == sentBack[o]
              t == sentBack'[o]
              w == Owed(o, Unnoted)
              x == Share(proc[h], o, Unnoted)
              y == Share(q, o, Unnoted)
  <2>7. c \in Int /\ d \in Int /\ s \in Int /\ t \in Int /\ w \in Int /\ x \in Int /\ y \in Int
    BY <2>1, <2>3, <2>4
  <2>8. c + w = s /\ d + y - t = c + x - s /\ Owed(o, Unnoted)' = w - x + y
    BY <2>2, <2>5, <2>6
  <2>. HIDE DEF c, d, s, t, w, x, y
  <2>9. d + (w - x + y) = t
    BY <2>7, <2>8, StillOwed
  <2>. QED  BY <2>8, <2>9 DEF d, t
<1>5. ASSUME NEW o \in Orders PROVE restocked'[o] + ToPutBack(o)' <= UnitsBack(o)' + Gone(order'[o], reopened'[o])
  <2>1. /\ ToPutBack(o) = PutsBack(proc[h], return, o) /\ ToPutBack(o)' = PutsBack(q, return', o)
        /\ ToPutBack(o) \in Nat /\ ToPutBack(o)' \in Nat
    BY <1>1, ToPutBackGoes
  <2>2. /\ restocked[o] \in Nat /\ restocked'[o] \in Nat /\ Gone(order[o], reopened[o]) \in Nat /\ Gone(order'[o], reopened'[o]) \in Nat
        /\ UnitsBack(o) \in Nat
    BY UnitsBackNat, RefundAssumption DEF TypeInv, RefundTypeOK, Gone, WasCancelled
  <2>3. UnitsBack(o)' \in Nat
    <3>. DEFINE e == [s \in Returns |-> IF CameBack(o, return'[s]) THEN SoundUnits(return'[s]) ELSE 0]
    <3>1. \A s \in Returns : e[s] \in Nat
      BY SoundNat DEF TypeInv, RefundTypeOK
    <3>2. IsFiniteSet(Returns)
      BY RefundAssumption
    <3>3. UnitsBack(o)' = SumFunctionOnSet(e, Returns)
      BY DEF UnitsBack, CameBack, SoundUnits
    <3>. HIDE DEF e
    <3>. QED  BY <3>1, <3>2, <3>3, SumNat
  <2>4. restocked[o] + ToPutBack(o) <= UnitsBack(o) + Gone(order[o], reopened[o])
    BY DEF Settling
  <2>5. restocked'[o] + PutsBack(q, return', o) - UnitsBack(o)' - Gone(order'[o], reopened'[o])
          <= restocked[o] + PutsBack(proc[h], return, o) - UnitsBack(o) - Gone(order[o], reopened[o])
    OBVIOUS
  <2>. QED  BY <2>1, <2>2, <2>3, <2>4, <2>5
<1>6. ASSUME NEW o \in Orders, payment'[o].refunded = Total PROVE ClosedOrClosing(o)'
  BY <1>1, <1>6 DEF ClosedOrClosing
<1>7. \A o \in Orders : (restocked[o] + ToPutBack(o) <= UnitsBack(o) + Gone(order[o], reopened[o]))'
  BY <1>5 DEF Gone
<1>8. \A g \in Handlers : Orderly(proc[g], return, noted, order, payment, reopened)'
  BY <1>2 DEF Orderly
<1>9. \A o \in Orders : (invoiced[o] => credited[o] + Owed(o, Unnoted) = sentBack[o])'
  BY <1>4
<1>. QED  BY <1>6, <1>7, <1>8, <1>9 DEF Settling

(* A handler that moves nothing. *)
LEMMA SettlingCalm ==
    ASSUME OneAtATime, TypeInv, TypeInv', Claims, Settling, NEW h \in Handlers, NEW q, Goes(h, q),
           Single(q), Orderly(q, return, noted, order, payment, reopened), UNCHANGED <<money, goods, notes>>,
           q.at \notin Unnoted \cup {"restock", "restore"}, proc[h].at \notin Unnoted \cup {"restock", "restore"}
    PROVE  Settling'
<1>1. /\ order' = order /\ payment' = payment /\ sentBack' = sentBack /\ return' = return /\ restocked' = restocked
      /\ invoiced' = invoiced /\ credited' = credited /\ noted' = noted /\ reopened' = reopened
  BY DEF money, goods, notes
<1>2. \A o : /\ Share(q, o, Unnoted) = 0 /\ Share(proc[h], o, Unnoted) = 0
             /\ PutsBack(q, return', o) = 0 /\ PutsBack(proc[h], return, o) = 0
  BY ShareNone DEF PutsBack
<1>3. \A o : UnitsBack(o)' = UnitsBack(o)
  BY <1>1 DEF UnitsBack, CameBack, SoundUnits
<1>4. ASSUME NEW o \in Orders
      PROVE  /\ invoiced[o] => credited'[o] + Share(q, o, Unnoted) - sentBack'[o]
                                              = credited[o] + Share(proc[h], o, Unnoted) - sentBack[o]
             /\ restocked'[o] + PutsBack(q, return', o) - UnitsBack(o)' - Gone(order'[o], reopened'[o])
                               <= restocked[o] + PutsBack(proc[h], return, o) - UnitsBack(o) - Gone(order[o], reopened[o])
  <2>1. credited[o] \in Nat /\ sentBack[o] \in Nat /\ restocked[o] \in Nat /\ UnitsBack(o) \in Nat /\ Gone(order[o], reopened[o]) \in Nat
    BY UnitsBackNat, RefundAssumption DEF TypeInv, RefundTypeOK, Gone, WasCancelled
  <2>2. /\ Share(q, o, Unnoted) = 0 /\ Share(proc[h], o, Unnoted) = 0
        /\ PutsBack(q, return', o) = 0 /\ PutsBack(proc[h], return, o) = 0
        /\ UnitsBack(o)' = UnitsBack(o)
    BY <1>2, <1>3
  <2>. QED  BY <1>1, <2>1, <2>2
<1>5. ASSUME NEW o \in Orders, payment'[o].refunded = Total PROVE WasClosed(order'[o], reopened'[o])
  <2>1. ClosedOrClosing(o)
    BY <1>1, <1>5 DEF Settling
  <2>2. proc[h].at # "flip" /\ \A g \in Handlers : g = h
    BY DEF Unnoted, OneAtATime
  <2>. QED  BY <1>1, <2>1, <2>2 DEF ClosedOrClosing
<1>. QED  BY <1>1, <1>4, <1>5, SettlingGo DEF Settling
----------------------------------------------------------------------------
LEMMA IdleOrderly == \A rows, done, orders, pays, over : Orderly(Idle, rows, done, orders, pays, over)
  BY DEF Idle, Orderly, PaySteps

(* Only a closed order was reopened: no status is written back to PAID. *)
Fresh == \A o \in Orders : order[o] = "PAID" => reopened[o] = {}

LEMMA NextKeepsFresh == TypeInv /\ Fresh /\ [Next]_vars => Fresh'
<1>. SUFFICES ASSUME TypeInv, Fresh, [Next]_vars PROVE Fresh'
  OBVIOUS
<1>. USE DEF TypeInv, RefundTypeOK, Fresh, money, notes
<1>1. ASSUME order' = order, reopened' = reopened PROVE Fresh'
  BY <1>1
<1>2. CASE UNCHANGED vars
  BY <1>1, <1>2 DEF vars
<1>3. ASSUME NEW h \in Handlers, ReturnSteps(h) \/ BestEffortFails(h) \/ Crash(h) PROVE Fresh'
  BY <1>1, <1>3 DEF ReturnSteps, BeginRequest, BeginMove, CreateReturn, WriteMove, RestockReturn, BeginRefund,
                    BestEffortFails, Crash
<1>4. ASSUME NEW h \in Handlers, RefundSteps(h) PROVE Fresh'
  <2>1. CASE FlipOrder(h)
    BY <2>1 DEF FlipOrder
  <2>2. CASE ~FlipOrder(h)
    BY <1>1, <1>4, <2>2 DEF RefundSteps, CheckRefund, ProviderFails, AskProvider, RecordRefund, WriteNote, CloseReturn
  <2>. QED  BY <2>1, <2>2
<1>5. ASSUME NEW h \in Handlers, CancelSteps(h) PROVE Fresh'
  <2>1. CASE CancelOrder(h)
    BY <2>1 DEF CancelOrder
  <2>2. CASE ~CancelOrder(h)
    BY <1>1, <1>5, <2>2 DEF CancelSteps, BeginCancel, RestoreOrder
  <2>. QED  BY <2>1, <2>2
<1>6. ASSUME NEW o \in Orders, Elsewhere(o) PROVE Fresh'
  BY <1>6 DEF Elsewhere, Fulfil, OrderWritten, PaymentWritten
<1>. QED  BY <1>2, <1>3, <1>4, <1>5, <1>6 DEF Next

(* What the arithmetic of a step needs to know of one order. *)
LEMMA OrderNat ==
    ASSUME TypeInv, NEW o \in Orders
    PROVE  /\ credited[o] \in Nat /\ sentBack[o] \in Nat /\ restocked[o] \in Nat /\ UnitsBack(o) \in Nat
           /\ Gone(order[o], reopened[o]) \in Nat /\ payment[o].refunded \in Nat
  BY UnitsBackNat, RefundAssumption DEF TypeInv, RefundTypeOK, Gone, WasCancelled

(* No order is refunded in full and open while its one handler does something else. *)
LEMMA StaysClosed ==
    ASSUME OneAtATime, Settling, NEW h \in Handlers, NEW o \in Orders, payment[o].refunded = Total,
           proc[h].at # "flip" \/ proc[h].o # o
    PROVE  WasClosed(order[o], reopened[o])
  BY DEF Settling, ClosedOrClosing, OneAtATime

(* A step that writes one return row, of a handler with nothing to claim. *)
LEMMA SettlingRow ==
    ASSUME OneAtATime, TypeInv, TypeInv', Claims, Settling, NEW h \in Handlers, NEW q, Goes(h, q),
           Single(q), Orderly(q, return', noted, order, payment, reopened), UNCHANGED <<money, restocked, notes>>,
           NEW r \in Returns, NEW row, return' = [return EXCEPT ![r] = row], r \notin noted,
           \A o : Share(q, o, Unnoted) = Share(proc[h], o, Unnoted),
           \A o : PutsBack(proc[h], return, o) = 0 /\ Back(return[r], o) + PutsBack(q, return', o) <= Back(row, o),
           proc[h].at # "flip"
    PROVE  Settling'
<1>1. /\ order' = order /\ payment' = payment /\ sentBack' = sentBack /\ restocked' = restocked
      /\ invoiced' = invoiced /\ credited' = credited /\ noted' = noted /\ reopened' = reopened
  BY DEF money, notes
<1>2. return'[r] = row /\ \A s \in Returns : s # r => return'[s] = return[s]
  BY DEF TypeInv, RefundTypeOK
<1>3. q \in Work /\ proc[h] \in Work /\ Single(proc[h])
  <2>1. proc'[h] = q
    BY GoesElsewhere
  <2>. QED  BY <2>1, WorkAt DEF TypeInv, RefundTypeOK, Claims
<1>4. ASSUME NEW o \in Orders
      PROVE  /\ credited'[o] + Share(q, o, Unnoted) - sentBack'[o] = credited[o] + Share(proc[h], o, Unnoted) - sentBack[o]
             /\ restocked'[o] + PutsBack(q, return', o) - UnitsBack(o)' - Gone(order'[o], reopened'[o])
                               <= restocked[o] + PutsBack(proc[h], return, o) - UnitsBack(o) - Gone(order[o], reopened[o])
  <2>1. UnitsBack(o)' = UnitsBack(o) - Back(return[r], o) + Back(return'[r], o)
    BY <1>2, UnitsBackChange
  <2>2. Back(return[r], o) \in Nat /\ Back(row, o) \in Nat
    BY <1>2, SoundNat DEF Back, TypeInv, RefundTypeOK
  <2>3. PutsBack(q, return', o) \in Nat
    <3>1. q.at = "restock" => SoundUnits(return'[q.r]) \in Nat
      BY <1>3, StepTells, SoundNat DEF Moving, TypeInv, RefundTypeOK
    <3>. QED  BY <3>1, RefundAssumption DEF PutsBack
  <2>4. PutsBack(proc[h], return, o) = 0 /\ Back(return[r], o) + PutsBack(q, return', o) <= Back(row, o)
    OBVIOUS
  <2>5. /\ credited[o] \in Nat /\ sentBack[o] \in Nat /\ restocked[o] \in Nat /\ UnitsBack(o) \in Nat
        /\ Gone(order[o], reopened[o]) \in Nat
    BY OrderNat
  <2>6. restocked[o] + PutsBack(q, return', o) - (UnitsBack(o) - Back(return[r], o) + Back(row, o)) - Gone(order[o], reopened[o])
          <= restocked[o] + PutsBack(proc[h], return, o) - UnitsBack(o) - Gone(order[o], reopened[o])
    BY <2>2, <2>3, <2>4, <2>5
  <2>7. restocked'[o] + PutsBack(q, return', o) - UnitsBack(o)' - Gone(order'[o], reopened'[o])
          <= restocked[o] + PutsBack(proc[h], return, o) - UnitsBack(o) - Gone(order[o], reopened[o])
    BY <1>1, <1>2, <2>1, <2>6
  <2>. QED  BY <1>1, <2>7
<1>5. \A s \in noted : return'[s].status = "REFUNDED"
  BY <1>2 DEF Settling, TypeInv, RefundTypeOK
<1>6. \A o \in Orders : payment'[o].refunded = Total => WasClosed(order'[o], reopened'[o])
  BY <1>1, StaysClosed
<1>7. \A o \in Orders : WasCancelled(order'[o], reopened'[o]) => payment'[o].status \notin {"CAPTURED", "PARTIALLY_REFUNDED"}
  BY <1>1 DEF Settling
<1>8. Orderly(q, return', noted', order', payment', reopened')
  BY <1>1
<1>. QED  BY <1>1, <1>4, <1>5, <1>6, <1>7, <1>8, SettlingGo

LEMMA ReturnsKeepSettling ==
    ASSUME Alone, TypeInv, TypeInv', Claims, Settling, NEW h \in Handlers, ReturnSteps(h)
    PROVE  Settling'
<1>0. proc[h] \in Work /\ Single(proc[h]) /\ RowKnown(proc[h], return) /\ Orderly(proc[h], return, noted, order, payment, reopened)
  BY WorkAt DEF Claims, Settling
<1>i. Single(Idle) /\ Orderly(Idle, return', noted, order, payment, reopened) /\ Idle.at = "idle" /\ OneAtATime
  BY IdleClaims, IdleOrderly DEF Idle, Alone
<1>1. ASSUME NEW q, Goes(h, q), UNCHANGED <<money, goods, notes>>, proc[h] = Idle,
             q.at \in {"create", "move", "check"}, Orderly(q, return, noted, order, payment, reopened)
      PROVE  Settling'
  <2>1. Single(q) /\ q.at \notin Unnoted \cup {"restock", "restore"} /\ proc[h].at \notin Unnoted \cup {"restock", "restore"}
    BY <1>1 DEF Single, PaySteps, Unnoted, Idle
  <2>. QED  BY <1>1, <1>i, <2>1, SettlingCalm
<1>2. ASSUME NEW r \in Returns, NEW o \in Orders, NEW n \in 1..Quantity, NEW damaged \in BOOLEAN,
             NEW status \in {"REQUESTED", "APPROVED"}, BeginRequest(h, r, o, n, damaged, status)
      PROVE  Settling'
  <2>. DEFINE q == [at |-> "create", r |-> r,
                    row |-> [status |-> status, o |-> o, quantity |-> n, damaged |-> damaged, refund |-> RefundFor(n)]]
  <2>1. q.at = "create" /\ Goes(h, q) /\ UNCHANGED <<money, goods, notes>> /\ proc[h] = Idle
    BY <1>2 DEF BeginRequest
  <2>. HIDE DEF q
  <2>2. Orderly(q, return, noted, order, payment, reopened)
    BY <2>1 DEF Orderly, PaySteps
  <2>. QED  BY <1>1, <2>1, <2>2
<1>3. ASSUME NEW r \in Returns, NEW to \in ReturnStatus, BeginMove(h, r, to) PROVE Settling'
  <2>. DEFINE q == [at |-> "move", r |-> r, o |-> return[r].o, to |-> to]
  <2>1. q.at = "move" /\ q.r = r /\ q.to = to /\ Goes(h, q) /\ to \in Transitions[return[r].status]
        /\ UNCHANGED <<money, goods, notes>> /\ proc[h] = Idle
    BY <1>3 DEF BeginMove, MayBecome
  <2>. HIDE DEF q
  <2>2. Orderly(q, return, noted, order, payment, reopened)
    BY <2>1 DEF Orderly, PaySteps
  <2>. QED  BY <1>1, <2>1, <2>2
<1>4. ASSUME CreateReturn(h) PROVE Settling'
  <2>1. proc[h] \in Creating /\ proc[h].at = "create" /\ proc[h].r \in Returns
    BY <1>0, <1>4, StepTells DEF CreateReturn, Creating
  <2>2. return[proc[h].r].status = "NONE" /\ proc[h].row.status \in {"REQUESTED", "APPROVED"}
    BY <1>0, <2>1 DEF RowKnown
  <2>3. /\ return' = [return EXCEPT ![proc[h].r] = proc[h].row] /\ Goes(h, Idle)
        /\ UNCHANGED <<money, restocked, notes>>
    BY <1>4 DEF CreateReturn
  <2>4. proc[h].r \notin noted
    BY <2>2 DEF Settling
  <2>5. \A o : Share(Idle, o, Unnoted) = 0 /\ Share(proc[h], o, Unnoted) = 0
    BY <1>i, <2>1, ShareNone DEF Unnoted
  <2>6. \A o : /\ PutsBack(proc[h], return, o) = 0 /\ PutsBack(Idle, return', o) = 0
               /\ Back(return[proc[h].r], o) = 0 /\ Back(proc[h].row, o) = 0
    BY <1>i, <2>1, <2>2 DEF PutsBack, Back, CameBack
  <2>7. \A o : Share(Idle, o, Unnoted) = Share(proc[h], o, Unnoted)
    BY <2>5
  <2>8. \A o : PutsBack(proc[h], return, o) = 0
               /\ Back(return[proc[h].r], o) + PutsBack(Idle, return', o) <= Back(proc[h].row, o)
    BY <2>6
  <2>9. proc[h].at # "flip"
    BY <2>1
  <2>. DEFINE r == proc[h].r
              row == proc[h].row
              q == Idle
  <2>10. /\ Goes(h, q) /\ Single(q) /\ Orderly(q, return', noted, order, payment, reopened) /\ r \in Returns
         /\ return' = [return EXCEPT ![r] = row] /\ r \notin noted
    BY <1>i, <2>1, <2>3, <2>4
  <2>11. UNCHANGED <<money, restocked, notes>>
    BY <2>3
  <2>12. /\ \A o : Share(q, o, Unnoted) = Share(proc[h], o, Unnoted)
         /\ \A o : PutsBack(proc[h], return, o) = 0 /\ Back(return[r], o) + PutsBack(q, return', o) <= Back(row, o)
    BY <2>7, <2>8
  <2>. HIDE DEF r, row, q
  <2>. QED  BY <1>i, <2>9, <2>10, <2>11, <2>12, SettlingRow
<1>5. ASSUME WriteMove(h) PROVE Settling'
  <2>. DEFINE r == proc[h].r
              row == [return[r] EXCEPT !.status = proc[h].to]
              q == IF proc[h].to = "RECEIVED" THEN [proc[h] EXCEPT !.at = "restock"] ELSE Idle
  <2>1. proc[h] \in Moving /\ proc[h].at = "move" /\ r \in Returns /\ proc[h].to \in ReturnStatus
    BY <1>0, <1>5, StepTells DEF WriteMove, Moving
  <2>2. return[r] \in ReturnRow /\ proc[h].to \in Transitions[return[r].status]
    BY <1>0, <2>1 DEF Orderly, TypeInv, RefundTypeOK
  <2>3. row.status = proc[h].to /\ row.o = return[r].o /\ SoundUnits(row) = SoundUnits(return[r])
    BY <2>1, <2>2 DEF ReturnRow, SoundUnits
  <2>4. return' = [return EXCEPT ![r] = row] /\ Goes(h, q) /\ UNCHANGED <<money, restocked, notes>>
    BY <1>5, <2>1 DEF WriteMove
  <2>5. return'[r] = row
    BY <2>1, <2>4 DEF TypeInv, RefundTypeOK
  <2>6. \/ q = Idle
        \/ proc[h].to = "RECEIVED" /\ q.at = "restock" /\ q.r = r
    BY <2>1 DEF Moving
  <2>7. /\ return[r].status \in {"REQUESTED", "APPROVED", "RECEIVED"}
        /\ return[r].status = "RECEIVED" => proc[h].to \in {"REFUNDED", "CANCELLED"}
    BY <2>2 DEF Transitions, ReturnRow
  <2>. HIDE DEF q, row, r
  <2>8. r \notin noted
    BY <2>7 DEF Settling
  <2>9. Single(q) /\ Orderly(q, return', noted, order, payment, reopened)
    BY <1>i, <2>6 DEF Single, Orderly, PaySteps
  <2>10. \A o : Share(q, o, Unnoted) = 0 /\ Share(proc[h], o, Unnoted) = 0
    BY <1>i, <2>1, <2>6, ShareNone DEF Unnoted
  <2>11. \A o : Share(q, o, Unnoted) = Share(proc[h], o, Unnoted)
    BY <2>10
  <2>12. SoundUnits(return[r]) \in Nat
    BY <2>2, SoundNat
  <2>13. ASSUME NEW o
         PROVE PutsBack(proc[h], return, o) = 0 /\ Back(return[r], o) + PutsBack(q, return', o) <= Back(row, o)
    <3>1. PutsBack(proc[h], return, o) = 0
      BY <2>1 DEF PutsBack
    <3>2. CASE q = Idle
      <4>1. PutsBack(q, return', o) = 0
        BY <1>i, <3>2 DEF PutsBack
      <4>2. CASE CameBack(o, return[r])
        <5>1. CameBack(o, row)
          BY <2>3, <2>7, <4>2 DEF CameBack
        <5>. QED  BY <2>3, <2>12, <3>1, <4>1, <4>2, <5>1 DEF Back
      <4>3. CASE ~CameBack(o, return[r])
        BY <2>3, <2>12, <3>1, <4>1, <4>3 DEF Back
      <4>. QED  BY <4>2, <4>3
    <3>3. CASE proc[h].to = "RECEIVED" /\ q.at = "restock" /\ q.r = r
      <4>1. ~CameBack(o, return[r])
        BY <2>7, <3>3 DEF CameBack
      <4>2. CameBack(o, row) <=> row.o = o
        BY <2>3, <3>3 DEF CameBack
      <4>3. PutsBack(q, return', o) = IF row.o = o THEN SoundUnits(row) ELSE 0
        BY <2>5, <3>3 DEF PutsBack
      <4>. QED  BY <2>3, <2>12, <3>1, <4>1, <4>2, <4>3 DEF Back
    <3>. QED  BY <2>6, <3>2, <3>3
  <2>14. proc[h].at # "flip" /\ r \in Returns
    BY <2>1
  <2>. QED  BY <1>i, <2>4, <2>8, <2>9, <2>11, <2>13, <2>14, SettlingRow
<1>6. ASSUME RestockReturn(h) PROVE Settling'
  <2>. DEFINE row == return[proc[h].r]
  <2>1. proc[h] \in Moving /\ proc[h].at = "restock" /\ row \in ReturnRow
    BY <1>0, <1>6, StepTells DEF RestockReturn, Moving, TypeInv, RefundTypeOK
  <2>2. /\ Goes(h, Idle) /\ restocked' = [restocked EXCEPT ![row.o] = @ + SoundUnits(row)]
        /\ UNCHANGED <<money, return, notes>>
    BY <1>6 DEF RestockReturn
  <2>3. /\ order' = order /\ payment' = payment /\ sentBack' = sentBack /\ return' = return
        /\ invoiced' = invoiced /\ credited' = credited /\ noted' = noted /\ reopened' = reopened
    BY <2>2 DEF money, notes
  <2>4. SoundUnits(row) \in Nat
    BY <2>1, SoundNat
  <2>. HIDE DEF row
  <2>5. \A o : Share(Idle, o, Unnoted) = 0 /\ Share(proc[h], o, Unnoted) = 0
    BY <1>i, <2>1, ShareNone DEF Unnoted
  <2>6. \A o \in Orders : restocked'[o] = IF row.o = o THEN restocked[o] + SoundUnits(row) ELSE restocked[o]
    BY <2>2 DEF TypeInv, RefundTypeOK
  <2>7. \A o : PutsBack(Idle, return', o) = 0 /\ PutsBack(proc[h], return, o) = IF row.o = o THEN SoundUnits(row) ELSE 0
    BY <1>i, <2>1 DEF PutsBack, row
  <2>8. \A o : UnitsBack(o)' = UnitsBack(o)
    BY <2>3 DEF UnitsBack, CameBack, SoundUnits
  <2>9. ASSUME NEW o \in Orders
        PROVE  /\ credited'[o] + Share(Idle, o, Unnoted) - sentBack'[o] = credited[o] + Share(proc[h], o, Unnoted) - sentBack[o]
               /\ restocked'[o] + PutsBack(Idle, return', o) - UnitsBack(o)' - Gone(order'[o], reopened'[o])
                               <= restocked[o] + PutsBack(proc[h], return, o) - UnitsBack(o) - Gone(order[o], reopened[o])
    <3>1. /\ credited[o] \in Nat /\ sentBack[o] \in Nat /\ restocked[o] \in Nat /\ UnitsBack(o) \in Nat
          /\ Gone(order[o], reopened[o]) \in Nat
      BY OrderNat
    <3>2. /\ Share(Idle, o, Unnoted) = 0 /\ Share(proc[h], o, Unnoted) = 0
          /\ PutsBack(Idle, return', o) = 0 /\ PutsBack(proc[h], return, o) = IF row.o = o THEN SoundUnits(row) ELSE 0
          /\ restocked'[o] = IF row.o = o THEN restocked[o] + SoundUnits(row) ELSE restocked[o]
          /\ UnitsBack(o)' = UnitsBack(o)
      BY <2>5, <2>6, <2>7, <2>8
    <3>. QED  BY <2>3, <2>4, <3>1, <3>2
  <2>10. \A o \in Orders : payment'[o].refunded = Total => WasClosed(order'[o], reopened'[o])
    BY <1>i, <2>1, <2>3, StaysClosed
  <2>11. \A o \in Orders : WasCancelled(order'[o], reopened'[o]) => payment'[o].status \notin {"CAPTURED", "PARTIALLY_REFUNDED"}
    BY <2>3 DEF Settling
  <2>12. Orderly(Idle, return', noted', order', payment', reopened') /\ \A s \in noted' : return'[s].status = "REFUNDED"
    BY <1>i, <2>3 DEF Settling
  <2>. QED  BY <1>i, <2>2, <2>3, <2>9, <2>10, <2>11, <2>12, SettlingGo
<1>7. ASSUME NEW r \in Returns, NEW amount, BeginRefund(h, r, amount) PROVE Settling'
  <2>. DEFINE q == Pays(return[r].o, {r}, {amount})
  <2>1. q.at = "check" /\ q.o = return[r].o /\ q.for = {r} /\ Goes(h, q)
        /\ UNCHANGED <<money, goods, notes>> /\ proc[h] = Idle
    BY <1>7 DEF BeginRefund, Pays
  <2>. HIDE DEF q
  <2>2. return[r].status \in {"APPROVED", "RECEIVED"}
    BY <1>7 DEF BeginRefund, MayBecome, Transitions, TypeInv, RefundTypeOK, ReturnRow
  <2>3. Orderly(q, return, noted, order, payment, reopened)
    BY <2>1, <2>2 DEF Orderly, PaySteps
  <2>. QED  BY <1>1, <2>1, <2>3
<1>. QED  BY <1>2, <1>3, <1>4, <1>5, <1>6, <1>7 DEF ReturnSteps
----------------------------------------------------------------------------
LEMMA RefundsKeepSettling ==
    ASSUME Alone, TypeInv, TypeInv', Books, Claims, Settling, NEW h \in Handlers, RefundSteps(h)
    PROVE  Settling'
<1>. DEFINE p == proc[h]
<1>0. p \in Work /\ Single(p) /\ RowKnown(p, return) /\ Orderly(p, return, noted, order, payment, reopened)
  BY WorkAt DEF Claims, Settling
<1>i. Single(Idle) /\ Orderly(Idle, return, noted, order, payment, reopened) /\ Idle.at = "idle" /\ OneAtATime
  BY IdleClaims, IdleOrderly DEF Idle, Alone
(* It goes on to a step with the same refund in hand. *)
<1>g. ASSUME p.at \in PaySteps, NEW s \in PaySteps
      PROVE  LET q == [p EXCEPT !.at = s] IN
             /\ q.at = s /\ q.o = p.o /\ q.for = p.for /\ q.amount = p.amount /\ q.read = p.read
             /\ Single(q) /\ p \in Paying /\ p.o \in Orders /\ Carried(q) = Carried(p)
  <2>. DEFINE q == [p EXCEPT !.at = s]
  <2>1. q.at = s /\ q.o = p.o /\ q.for = p.for /\ q.amount = p.amount /\ q.read = p.read
        /\ p \in Paying /\ p.o \in Orders
    BY <1>0, <1>g, PayingGoes
  <2>. HIDE DEF q
  <2>2. Single(q)
    BY <1>0, <1>g, <2>1 DEF Single, OneAmount
  <2>. QED  BY <2>1, <2>2 DEF q, Carried
<1>n. \A o, q, rows : q.at \notin {"restock", "restore"} => PutsBack(q, rows, o) = 0
  BY DEF PutsBack
(* The books of the goods and the claims of a step that only goes on with a refund. *)
<1>b. ASSUME NEW q, Goes(h, q), q.at \in {"flip", "close", "note"}, q.o = p.o, q.amount = p.amount, p.at \in {"record", "flip"},
             Single(q), Orderly(q, return, noted, order', payment', reopened'), UNCHANGED <<sentBack, goods, notes>>,
             order' = order \/ (order' = [order EXCEPT ![p.o] = "REFUNDED"] /\ ~WasCancelled(order[p.o], reopened[p.o])),
             \A o \in Orders : payment'[o].refunded = Total =>
                                WasClosed(order'[o], reopened'[o]) \/ (q.at = "flip" /\ q.o = o),
             \A o \in Orders : WasCancelled(order'[o], reopened'[o]) => payment'[o].status \notin {"CAPTURED", "PARTIALLY_REFUNDED"}
      PROVE  Settling'
  <2>1. /\ sentBack' = sentBack /\ return' = return /\ restocked' = restocked
        /\ invoiced' = invoiced /\ credited' = credited /\ noted' = noted /\ reopened' = reopened
    BY <1>b DEF goods, notes
  <2>2. \A o : Share(q, o, Unnoted) = Share(p, o, Unnoted)
    BY <1>b DEF Share, Carried, Unnoted
  <2>3. \A o : PutsBack(q, return', o) = 0 /\ PutsBack(p, return, o) = 0
    BY <1>b, <1>n
  <2>4. \A o : UnitsBack(o)' = UnitsBack(o)
    BY <2>1 DEF UnitsBack, CameBack, SoundUnits
  <2>5. \A o \in Orders : Gone(order'[o], reopened'[o]) = Gone(order[o], reopened[o])
    BY <1>b, <2>1 DEF Gone, WasCancelled, TypeInv, RefundTypeOK
  <2>6. q \in Work
    <3>1. proc'[h] = q
      BY <1>b, GoesElsewhere
    <3>. QED  BY <3>1 DEF TypeInv, RefundTypeOK
  <2>7. ASSUME NEW o \in Orders
        PROVE  /\ credited'[o] + Share(q, o, Unnoted) - sentBack'[o] = credited[o] + Share(p, o, Unnoted) - sentBack[o]
               /\ restocked'[o] + PutsBack(q, return', o) - UnitsBack(o)' - Gone(order'[o], reopened'[o])
                               <= restocked[o] + PutsBack(p, return, o) - UnitsBack(o) - Gone(order[o], reopened[o])
    <3>1. restocked[o] \in Nat /\ UnitsBack(o) \in Nat /\ Gone(order[o], reopened[o]) \in Nat
      BY OrderNat
    <3>2. PutsBack(q, return', o) = 0 /\ PutsBack(p, return, o) = 0 /\ UnitsBack(o)' = UnitsBack(o)
          /\ Gone(order'[o], reopened'[o]) = Gone(order[o], reopened[o])
      BY <2>3, <2>4, <2>5
    <3>3. credited'[o] + Share(q, o, Unnoted) - sentBack'[o] = credited[o] + Share(p, o, Unnoted) - sentBack[o]
      BY <2>1, <2>2
    <3>. QED  BY <2>1, <3>1, <3>2, <3>3
  <2>8. Orderly(q, return', noted', order', payment', reopened') /\ \A s \in noted' : return'[s].status = "REFUNDED"
    BY <1>b, <2>1 DEF Settling
  <2>. QED  BY <1>b, <1>i, <2>1, <2>7, <2>8, SettlingGo
<1>1. ASSUME CheckRefund(h) PROVE Settling'
  <2>. DEFINE amounts == (IF p.amount = {} THEN {Remaining(p.o)} ELSE p.amount) \cap 1..Remaining(p.o)
              q == [at |-> "ask", o |-> p.o, for |-> p.for, amount |-> amounts, read |-> payment[p.o].refunded]
  <2>1. /\ UNCHANGED <<money, goods, notes>> /\ p.at = "check"
        /\ (Goes(h, Idle) \/ (Goes(h, q) /\ amounts # {} /\ Refundable(p.o)))
    BY <1>1 DEF CheckRefund
  <2>2. p.at \notin Unnoted \cup {"restock", "restore"} /\ Idle.at \notin Unnoted \cup {"restock", "restore"}
    BY <1>i, <2>1 DEF Unnoted
  <2>3. CASE Goes(h, Idle)
    BY <1>i, <2>1, <2>2, <2>3, SettlingCalm
  <2>4. CASE Goes(h, q) /\ amounts # {} /\ Refundable(p.o)
    <3>1. \A a, b \in amounts : a = b
      <4>1. CASE p.amount = {}
        BY <4>1
      <4>2. CASE p.amount # {}
        BY <2>1, <4>2 DEF Books, CarriesOne, OneAmount
      <4>. QED  BY <4>1, <4>2
    <3>2. q.at = "ask" /\ q.o = p.o /\ q.for = p.for /\ q.amount = amounts /\ q.read = payment[p.o].refunded
      OBVIOUS
    <3>3. p.o \in Orders
      BY <1>0, <2>1, StepTells DEF Checking
    <3>4. ~WasCancelled(order[p.o], reopened[p.o])
      BY <2>4, <3>3 DEF Refundable, Settling
    <3>5. p.for = {} => \A a \in amounts : payment[p.o].refunded + a = Total
      <4>1. p.for = {} => p.amount = {}
        BY <1>0, <2>1 DEF Orderly
      <4>2. payment[p.o].refunded \in Nat /\ Total \in Nat
        BY <3>3, OrderNat, TotalNat
      <4>. QED  BY <4>1, <4>2 DEF Remaining
    <3>6. Goes(h, q) /\ amounts # {} /\ Total \in Nat
      BY <2>4, TotalNat
    <3>. HIDE DEF q, amounts, p
    <3>7. Single(q) /\ q.at \notin Unnoted \cup {"restock", "restore"}
      BY <3>1, <3>2, <3>6 DEF Single, OneAmount, Unnoted
    <3>8. Orderly(q, return, noted, order, payment, reopened)
      <4>1. q.for = {} => \A a \in q.amount : q.read + a >= Total
        BY <3>2, <3>5, <3>6
      <4>. QED  BY <1>0, <2>1, <3>2, <3>4, <4>1 DEF Orderly, PaySteps
    <3>. QED  BY <1>i, <2>1, <2>2, <3>6, <3>7, <3>8, SettlingCalm DEF p
  <2>. QED  BY <2>1, <2>3, <2>4
<1>2. ASSUME ProviderFails(h) PROVE Settling'
  <2>1. Goes(h, Idle) /\ UNCHANGED <<money, goods, notes>> /\ p.at = "ask"
    BY <1>2 DEF ProviderFails, Failed
  <2>2. p.at \notin Unnoted \cup {"restock", "restore"} /\ Idle.at \notin Unnoted \cup {"restock", "restore"}
    BY <1>i, <2>1 DEF Unnoted
  <2>. QED  BY <1>i, <2>1, <2>2, SettlingCalm
<1>3. ASSUME FlipOrder(h) PROVE Settling'
  <2>. DEFINE s == IF p.for = {} THEN "note" ELSE "close"
              q == [p EXCEPT !.at = s]
  <2>1. /\ p.at = "flip" /\ p.at \in PaySteps /\ s \in PaySteps /\ Goes(h, q)
        /\ order' = [order EXCEPT ![p.o] = "REFUNDED"] /\ payment' = payment /\ UNCHANGED <<sentBack, goods, notes>>
        /\ reopened' = reopened
    BY <1>3 DEF FlipOrder, AfterRefund, PaySteps, notes
  <2>2. q.at = s /\ q.o = p.o /\ q.for = p.for /\ q.amount = p.amount /\ q.read = p.read /\ Single(q) /\ p.o \in Orders
    BY <1>g, <2>1
  <2>3. /\ \A o \in Orders : order'[o] = IF o = p.o THEN "REFUNDED" ELSE order[o]
        /\ ~WasCancelled(order[p.o], reopened[p.o]) /\ ~WasCancelled(order'[p.o], reopened'[p.o])
    BY <1>0, <2>1, <2>2 DEF TypeInv, RefundTypeOK, Orderly, WasCancelled
  <2>. HIDE DEF q
  <2>4. Orderly(q, return, noted, order', payment', reopened')
    BY <1>0, <2>1, <2>2, <2>3 DEF Orderly, PaySteps
  <2>5. ASSUME NEW o \in Orders, payment'[o].refunded = Total PROVE WasClosed(order'[o], reopened'[o])
    <3>1. CASE o = p.o
      BY <2>3, <3>1 DEF WasClosed, Closed
    <3>2. CASE o # p.o
      BY <1>i, <2>1, <2>3, <2>5, <3>2, StaysClosed
    <3>. QED  BY <3>1, <3>2
  <2>6. \A o \in Orders : WasCancelled(order'[o], reopened'[o]) => payment'[o].status \notin {"CAPTURED", "PARTIALLY_REFUNDED"}
    BY <2>1, <2>3 DEF Settling
  <2>7. q.at \in {"flip", "close", "note"}
    BY <2>2
  <2>. QED  BY <1>b, <2>1, <2>2, <2>3, <2>4, <2>5, <2>6, <2>7
<1>4. ASSUME NEW a \in p.amount, RecordRefund(h, a) PROVE Settling'
  <2>. DEFINE s == IF IsFull(p.read + a) THEN "flip" ELSE IF p.for = {} THEN "note" ELSE "close"
              q == [p EXCEPT !.at = s]
              status == IF IsFull(p.read + a) THEN "REFUNDED" ELSE "PARTIALLY_REFUNDED"
  <2>1. /\ p.at = "record" /\ p.at \in PaySteps /\ s \in PaySteps /\ Goes(h, q) /\ order' = order /\ reopened' = reopened
        /\ payment' = [payment EXCEPT ![p.o] = [status |-> status, refunded |-> p.read + a]]
        /\ UNCHANGED <<sentBack, goods, notes>>
    BY <1>4 DEF RecordRefund, AfterRefund, PaySteps, notes
  <2>2. /\ q.at = s /\ q.o = p.o /\ q.for = p.for /\ q.amount = p.amount /\ q.read = p.read /\ Single(q)
        /\ p.o \in Orders /\ p \in Paying
    BY <1>g, <2>1
  <2>3. p.read \in Nat /\ a \in Nat /\ Total \in Nat /\ p.read + a <= Total
    <3>1. p.read \in Nat /\ a \in Nat /\ Total \in Nat
      BY <1>4, <2>2, TotalNat DEF Paying
    <3>2. p.read + a <= Total
      BY <1>4, <2>1 DEF Books, StaysWithin, Checked
    <3>. QED  BY <3>1, <3>2
  <2>4. \A o \in Orders : payment'[o] = IF o = p.o THEN [status |-> status, refunded |-> p.read + a] ELSE payment[o]
    BY <2>1, <2>2 DEF TypeInv, RefundTypeOK
  <2>5. payment'[p.o].refunded = p.read + a /\ payment'[p.o].status = status
    BY <2>2, <2>4
  <2>6. p.for = {} => IsFull(p.read + a)
    BY <1>0, <1>4, <2>1, <2>3 DEF Orderly, IsFull
  <2>7. p.read + a = Total => s = "flip"
    BY <2>3 DEF IsFull
  <2>8. ~WasCancelled(order[p.o], reopened[p.o])
    BY <1>0, <2>1 DEF Orderly
  <2>9. s = "flip" => status = "REFUNDED"
    OBVIOUS
  <2>10. s \in {"flip", "close"} /\ (s = "close" => p.for # {})
    BY <2>6
  <2>. HIDE DEF q, s, status
  <2>11. Orderly(q, return, noted, order', payment', reopened')
    BY <1>0, <2>1, <2>2, <2>5, <2>8, <2>9, <2>10 DEF Orderly, PaySteps
  <2>12. ASSUME NEW o \in Orders, payment'[o].refunded = Total
         PROVE  WasClosed(order'[o], reopened'[o]) \/ (q.at = "flip" /\ q.o = o)
    <3>1. CASE o = p.o
      BY <2>2, <2>5, <2>7, <2>12, <3>1
    <3>2. CASE o # p.o
      BY <1>i, <2>1, <2>4, <2>12, <3>2, StaysClosed
    <3>. QED  BY <3>1, <3>2
  <2>13. \A o \in Orders : WasCancelled(order'[o], reopened'[o]) => payment'[o].status \notin {"CAPTURED", "PARTIALLY_REFUNDED"}
    BY <2>1, <2>4, <2>8 DEF Settling
  <2>14. q.at \in {"flip", "close", "note"} /\ p.at \in {"record", "flip"}
    BY <2>1, <2>2, <2>10
  <2>15. Goes(h, q) /\ q.o = p.o /\ q.amount = p.amount /\ Single(q) /\ order' = order
    BY <2>1, <2>2
  <2>. QED  BY <1>b, <2>1, <2>11, <2>12, <2>13, <2>14, <2>15
<1>5. ASSUME NEW a \in p.amount, AskProvider(h, a) PROVE Settling'
  <2>. DEFINE q == [p EXCEPT !.at = "record"]
  <2>1. /\ p.at = "ask" /\ p.at \in PaySteps /\ "record" \in PaySteps /\ Goes(h, q)
        /\ sentBack' = [sentBack EXCEPT ![p.o] = @ + a] /\ UNCHANGED <<order, payment, goods, notes>>
    BY <1>5 DEF AskProvider, PaySteps
  <2>2. /\ q.at = "record" /\ q.o = p.o /\ q.for = p.for /\ q.amount = p.amount /\ q.read = p.read /\ Single(q)
        /\ p.o \in Orders /\ Carried(q) = Carried(p)
    BY <1>g, <2>1
  <2>3. a = Carried(p) /\ a \in Nat
    BY <1>0, <1>5, <2>1, CarriedIs
  <2>4. /\ order' = order /\ payment' = payment /\ return' = return /\ restocked' = restocked
        /\ invoiced' = invoiced /\ credited' = credited /\ noted' = noted /\ reopened' = reopened
    BY <2>1 DEF goods, notes
  <2>5. \A o \in Orders : sentBack'[o] = IF o = p.o THEN sentBack[o] + a ELSE sentBack[o]
    BY <2>1, <2>2 DEF TypeInv, RefundTypeOK
  <2>. HIDE DEF q, p
  <2>6. \A o : Share(p, o, Unnoted) = 0 /\ Share(q, o, Unnoted) = IF o = p.o THEN a ELSE 0
    BY <2>1, <2>2, <2>3 DEF Share, Unnoted
  <2>7. \A o : PutsBack(q, return', o) = 0 /\ PutsBack(p, return, o) = 0
    BY <1>n, <2>1, <2>2
  <2>8. \A o : UnitsBack(o)' = UnitsBack(o)
    BY <2>4 DEF UnitsBack, CameBack, SoundUnits
  <2>9. ASSUME NEW o \in Orders
        PROVE  /\ credited'[o] + Share(q, o, Unnoted) - sentBack'[o] = credited[o] + Share(p, o, Unnoted) - sentBack[o]
               /\ restocked'[o] + PutsBack(q, return', o) - UnitsBack(o)' - Gone(order'[o], reopened'[o])
                               <= restocked[o] + PutsBack(p, return, o) - UnitsBack(o) - Gone(order[o], reopened[o])
    <3>1. /\ credited[o] \in Nat /\ sentBack[o] \in Nat /\ restocked[o] \in Nat /\ UnitsBack(o) \in Nat
          /\ Gone(order[o], reopened[o]) \in Nat
      BY OrderNat
    <3>2. /\ Share(p, o, Unnoted) = 0 /\ Share(q, o, Unnoted) = (IF o = p.o THEN a ELSE 0)
          /\ PutsBack(q, return', o) = 0 /\ PutsBack(p, return, o) = 0 /\ UnitsBack(o)' = UnitsBack(o)
          /\ sentBack'[o] = (IF o = p.o THEN sentBack[o] + a ELSE sentBack[o])
      BY <2>5, <2>6, <2>7, <2>8
    <3>. QED  BY <2>3, <2>4, <3>1, <3>2
  <2>10. Orderly(q, return, noted, order, payment, reopened)
    BY <1>0, <2>1, <2>2 DEF Orderly, PaySteps
  <2>11. Orderly(q, return', noted', order', payment', reopened') /\ \A s \in noted' : return'[s].status = "REFUNDED"
    BY <2>4, <2>10 DEF Settling
  <2>12. \A o \in Orders : payment'[o].refunded = Total => WasClosed(order'[o], reopened'[o])
    BY <1>i, <2>1, <2>4, StaysClosed DEF p
  <2>13. \A o \in Orders : WasCancelled(order'[o], reopened'[o]) => payment'[o].status \notin {"CAPTURED", "PARTIALLY_REFUNDED"}
    BY <2>4 DEF Settling
  <2>. QED  BY <1>i, <2>1, <2>2, <2>4, <2>9, <2>11, <2>12, <2>13, SettlingGo DEF p
<1>6. ASSUME NEW a \in p.amount, NEW r \in p.for, CloseReturn(h, r, a) PROVE Settling'
  <2>. DEFINE q == [p EXCEPT !.at = "note"]
              row == [return[r] EXCEPT !.status = "REFUNDED", !.refund = a]
  <2>1. /\ p.at = "close" /\ p.at \in PaySteps /\ "note" \in PaySteps /\ Goes(h, q)
        /\ return' = [return EXCEPT ![r].status = "REFUNDED", ![r].refund = a] /\ UNCHANGED <<money, restocked, notes>>
    BY <1>6 DEF CloseReturn, PaySteps
  <2>2. /\ q.at = "note" /\ q.o = p.o /\ q.for = p.for /\ q.amount = p.amount /\ Single(q)
        /\ p \in Paying /\ Carried(q) = Carried(p)
    BY <1>g, <2>1
  <2>3. r \in Returns /\ return[r] \in ReturnRow /\ return[r].status \in {"APPROVED", "RECEIVED"}
    BY <1>0, <1>6, <2>1, <2>2 DEF Paying, Orderly, TypeInv, RefundTypeOK
  <2>4. return' = [return EXCEPT ![r] = row]
    BY <2>1, <2>3 DEF TypeInv, RefundTypeOK
  <2>5. row.status = "REFUNDED" /\ row.o = return[r].o /\ SoundUnits(row) = SoundUnits(return[r])
    BY <2>3 DEF ReturnRow, SoundUnits
  <2>6. return'[r] = row
    BY <2>3, <2>4 DEF TypeInv, RefundTypeOK
  <2>. HIDE DEF q, row, p
  <2>7. r \notin noted
    BY <2>3 DEF Settling
  <2>8. \A o : Share(q, o, Unnoted) = Share(p, o, Unnoted)
    BY <2>1, <2>2 DEF Share, Unnoted
  <2>9. SoundUnits(return[r]) \in Nat
    BY <2>3, SoundNat
  <2>10. \A o : PutsBack(p, return, o) = 0 /\ PutsBack(q, return', o) = 0
    BY <1>n, <2>1, <2>2
  <2>11. ASSUME NEW o PROVE PutsBack(p, return, o) = 0 /\ Back(return[r], o) + PutsBack(q, return', o) <= Back(row, o)
    <3>1. Back(return[r], o) <= Back(row, o) /\ Back(return[r], o) \in Nat /\ Back(row, o) \in Nat
      BY <2>5, <2>9 DEF Back, CameBack
    <3>. QED  BY <2>10, <3>1
  <2>12. \A s \in p.for : s = r
    BY <1>0, <1>6, <2>1 DEF Orderly, p
  <2>13. Orderly(q, return', noted, order, payment, reopened)
    <3>1. ~WasCancelled(order[p.o], reopened[p.o])
      BY <1>0, <2>1 DEF Orderly
    <3>2. p.for # {}
      BY <1>6 DEF p
    <3>. QED  BY <2>2, <2>5, <2>6, <2>7, <2>12, <3>1, <3>2 DEF Orderly, PaySteps
  <2>14. p.at # "flip"
    BY <2>1
  <2>15. /\ \A o : Share(q, o, Unnoted) = Share(proc[h], o, Unnoted)
         /\ \A o : PutsBack(proc[h], return, o) = 0 /\ Back(return[r], o) + PutsBack(q, return', o) <= Back(row, o)
         /\ proc[h].at # "flip"
    BY <2>8, <2>11, <2>14 DEF p
  <2>16. UNCHANGED <<money, restocked, notes>> /\ Goes(h, q) /\ Single(q)
    BY <2>1, <2>2
  <2>17. \A o : Share(q, o, Unnoted) = Share(proc[h], o, Unnoted)
    BY <2>15
  <2>18. \A o : PutsBack(proc[h], return, o) = 0 /\ Back(return[r], o) + PutsBack(q, return', o) <= Back(row, o)
    BY <2>15
  <2>19. OneAtATime /\ r \in Returns /\ proc[h].at # "flip"
    BY <1>i, <2>3, <2>15
  <2>. QED  BY <2>4, <2>7, <2>13, <2>16, <2>17, <2>18, <2>19, SettlingRow
<1>7. ASSUME NEW a \in p.amount, WriteNote(h, a) PROVE Settling'
  <2>. DEFINE q == AfterNote(p)
  <2>1. p.at = "note" /\ p.at \in PaySteps /\ Goes(h, q) /\ UNCHANGED <<money, goods, invoiced, reopened>>
    BY <1>7 DEF WriteNote, PaySteps
  <2>2. p \in Paying /\ p.o \in Orders /\ p.for \subseteq Returns
    BY <1>0, <2>1, StepTells DEF Paying
  <2>3. a = Carried(p) /\ a \in Nat
    BY <1>0, <1>7, <2>1, CarriedIs
  <2>4. /\ order' = order /\ payment' = payment /\ return' = return /\ restocked' = restocked
        /\ sentBack' = sentBack /\ invoiced' = invoiced /\ reopened' = reopened
    BY <2>1 DEF goods, money
  <2>5. NoteMissing(p) <=> invoiced[p.o]
    BY <1>0, <2>1 DEF NoteMissing, Orderly
  <2>6. /\ invoiced[p.o] => credited' = [credited EXCEPT ![p.o] = @ + a] /\ noted' = noted \cup p.for
        /\ ~invoiced[p.o] => credited' = credited /\ noted' = noted
    BY <1>7, <2>5 DEF WriteNote
  <2>7. \A o \in Orders : invoiced[o] => credited'[o] = IF o = p.o THEN credited[o] + a ELSE credited[o]
    BY <2>2, <2>6 DEF TypeInv, RefundTypeOK
  <2>8. \/ q = Idle
        \/ q.at = "cancel" /\ q.o = p.o /\ p.for = {}
    BY DEF AfterNote
  <2>. HIDE DEF q, p
  <2>9. Single(q) /\ q.at \notin Unnoted /\ q.at \notin {"restock", "restore"}
    BY <1>i, <2>8 DEF Single, PaySteps, Unnoted
  <2>10. \A o : Share(q, o, Unnoted) = 0 /\ Share(p, o, Unnoted) = IF o = p.o THEN a ELSE 0
    BY <2>1, <2>3, <2>9, ShareNone DEF Share, Unnoted
  <2>11. \A o : PutsBack(q, return', o) = 0 /\ PutsBack(p, return, o) = 0
    BY <1>n, <2>1, <2>9
  <2>12. \A o : UnitsBack(o)' = UnitsBack(o)
    BY <2>4 DEF UnitsBack, CameBack, SoundUnits
  <2>13. ASSUME NEW o \in Orders
         PROVE  /\ invoiced[o] =>
                     credited'[o] + Share(q, o, Unnoted) - sentBack'[o] = credited[o] + Share(p, o, Unnoted) - sentBack[o]
                /\ restocked'[o] + PutsBack(q, return', o) - UnitsBack(o)' - Gone(order'[o], reopened'[o])
                               <= restocked[o] + PutsBack(p, return, o) - UnitsBack(o) - Gone(order[o], reopened[o])
    <3>1. /\ credited[o] \in Nat /\ sentBack[o] \in Nat /\ restocked[o] \in Nat /\ UnitsBack(o) \in Nat
          /\ Gone(order[o], reopened[o]) \in Nat
      BY OrderNat
    <3>2. /\ Share(q, o, Unnoted) = 0 /\ Share(p, o, Unnoted) = (IF o = p.o THEN a ELSE 0)
          /\ PutsBack(q, return', o) = 0 /\ PutsBack(p, return, o) = 0 /\ UnitsBack(o)' = UnitsBack(o)
          /\ invoiced[o] => credited'[o] = IF o = p.o THEN credited[o] + a ELSE credited[o]
      BY <2>7, <2>10, <2>11, <2>12
    <3>. QED  BY <2>3, <2>4, <3>1, <3>2
  <2>14. Orderly(q, return', noted', order', payment', reopened')
    <3>1. CASE q = Idle
      BY <3>1, IdleOrderly
    <3>2. CASE q.at = "cancel" /\ q.o = p.o /\ p.for = {}
      BY <1>0, <2>1, <2>4, <3>2 DEF Orderly, PaySteps
    <3>. QED  BY <2>8, <3>1, <3>2
  <2>15. \A s \in noted' : return'[s].status = "REFUNDED"
    <3>1. \A s \in p.for : return[s].status = "REFUNDED"
      BY <1>0, <2>1 DEF Orderly
    <3>2. noted' \subseteq noted \cup p.for
      BY <2>6
    <3>. QED  BY <2>4, <3>1, <3>2 DEF Settling
  <2>16. \A o \in Orders : payment'[o].refunded = Total => WasClosed(order'[o], reopened'[o])
    BY <1>i, <2>1, <2>4, StaysClosed DEF p
  <2>17. \A o \in Orders : WasCancelled(order'[o], reopened'[o]) => payment'[o].status \notin {"CAPTURED", "PARTIALLY_REFUNDED"}
    BY <2>4 DEF Settling
  <2>. QED  BY <1>i, <2>1, <2>4, <2>9, <2>13, <2>14, <2>15, <2>16, <2>17, SettlingGo DEF p
<1>. QED  BY <1>1, <1>2, <1>3, <1>4, <1>5, <1>6, <1>7 DEF RefundSteps
----------------------------------------------------------------------------
LEMMA OthersKeepSettling ==
    ASSUME Alone, TypeInv, TypeInv', Fresh, Claims, Settling,
           \/ \E h \in Handlers : CancelSteps(h) \/ BestEffortFails(h) \/ Crash(h)
           \/ \E o \in Orders : Elsewhere(o)
    PROVE  Settling'
<1>i. Single(Idle) /\ Idle.at = "idle" /\ OneAtATime
  BY IdleClaims DEF Idle, Alone
<1>n. \A o, q, rows : q.at \notin {"restock", "restore"} => PutsBack(q, rows, o) = 0
  BY DEF PutsBack
<1>1. ASSUME NEW h \in Handlers, NEW o \in Orders, BeginCancel(h, o) PROVE Settling'
  <2>. DEFINE q == IF Refundable(o) THEN Pays(o, {}, {}) ELSE [at |-> "cancel", o |-> o]
  <2>1. Goes(h, q) /\ UNCHANGED <<money, goods, notes>> /\ proc[h].at = "idle" /\ ~WasCancelled(order[o], reopened[o])
    BY <1>1 DEF BeginCancel, Idle, Fresh, WasCancelled
  <2>2. \/ q.at = "check" /\ q.for = {} /\ q.o = o /\ q.amount = {}
        \/ q.at = "cancel" /\ q.o = o /\ payment[o].status \notin {"CAPTURED", "PARTIALLY_REFUNDED"}
    BY DEF Pays, Refundable
  <2>. HIDE DEF q
  <2>3. Single(q) /\ q.at \notin Unnoted \cup {"restock", "restore"} /\ proc[h].at \notin Unnoted \cup {"restock", "restore"}
    BY <2>1, <2>2 DEF Single, PaySteps, Unnoted
  <2>4. Orderly(q, return, noted, order, payment, reopened)
    BY <2>1, <2>2 DEF Orderly, PaySteps
  <2>. QED  BY <1>i, <2>1, <2>3, <2>4, SettlingCalm
(* The order is cancelled, or its units are back. *)
<1>2. ASSUME NEW h \in Handlers, NEW q, Goes(h, q), proc[h] \in Cancelling, UNCHANGED <<payment, sentBack, return, notes>>,
             q = Idle \/ (q.at = "restore" /\ q.o = proc[h].o),
             \A o \in Orders : order'[o] = order[o] \/ (o = proc[h].o /\ order'[o] = "CANCELLED"),
             payment[proc[h].o].status \notin {"CAPTURED", "PARTIALLY_REFUNDED"} \/ order' = order,
             \A o \in Orders : restocked'[o] + PutsBack(q, return', o) - Gone(order'[o], reopened'[o])
                                 = restocked[o] + PutsBack(proc[h], return, o) - Gone(order[o], reopened[o])
      PROVE  Settling'
  <2>1. /\ payment' = payment /\ sentBack' = sentBack /\ return' = return
        /\ invoiced' = invoiced /\ credited' = credited /\ noted' = noted /\ reopened' = reopened
    BY <1>2 DEF notes
  <2>2. proc[h].at \in {"cancel", "restore"}
    BY <1>2 DEF Cancelling
  <2>3. Single(q) /\ q.at \notin Unnoted /\ proc[h].at \notin Unnoted
    BY <1>i, <1>2, <2>2 DEF Single, PaySteps, Unnoted
  <2>4. \A o : Share(q, o, Unnoted) = 0 /\ Share(proc[h], o, Unnoted) = 0
    BY <2>3, ShareNone
  <2>5. Orderly(q, return', noted', order', payment', reopened')
    <3>1. CASE q = Idle
      BY <3>1, IdleOrderly
    <3>2. CASE q.at = "restore"
      BY <3>2 DEF Orderly, PaySteps
    <3>. QED  BY <1>2, <3>1, <3>2
  <2>6. \A o : UnitsBack(o)' = UnitsBack(o)
    BY <2>1 DEF UnitsBack, CameBack, SoundUnits
  <2>7. ASSUME NEW o \in Orders
        PROVE  /\ credited'[o] + Share(q, o, Unnoted) - sentBack'[o] = credited[o] + Share(proc[h], o, Unnoted) - sentBack[o]
               /\ restocked'[o] + PutsBack(q, return', o) - UnitsBack(o)' - Gone(order'[o], reopened'[o])
                               <= restocked[o] + PutsBack(proc[h], return, o) - UnitsBack(o) - Gone(order[o], reopened[o])
    <3>1. /\ restocked[o] \in Nat /\ UnitsBack(o) \in Nat /\ Gone(order[o], reopened[o]) \in Nat /\ restocked'[o] \in Nat
          /\ Gone(order'[o], reopened'[o]) \in Nat
      BY OrderNat, RefundAssumption DEF Gone, WasCancelled, TypeInv, RefundTypeOK
    <3>2. PutsBack(q, return', o) \in Nat /\ PutsBack(proc[h], return, o) \in Nat
      BY <1>2, <1>i, <1>n, <2>2, RefundAssumption DEF PutsBack
    <3>3. /\ restocked'[o] + PutsBack(q, return', o) - Gone(order'[o], reopened'[o])
                                 = restocked[o] + PutsBack(proc[h], return, o) - Gone(order[o], reopened[o])
          /\ UnitsBack(o)' = UnitsBack(o)
      BY <1>2, <2>6
    <3>4. credited'[o] + Share(q, o, Unnoted) - sentBack'[o] = credited[o] + Share(proc[h], o, Unnoted) - sentBack[o]
      BY <2>1, <2>4
    <3>. QED  BY <3>1, <3>2, <3>3, <3>4
  <2>8. \A o \in Orders : payment'[o].refunded = Total => WasClosed(order'[o], reopened'[o])
    <3>1. proc[h].at # "flip"
      BY <2>2
    <3>. QED  BY <1>2, <1>i, <2>1, <3>1, StaysClosed DEF WasClosed, Closed
  <2>9. \A o \in Orders : WasCancelled(order'[o], reopened'[o]) => payment'[o].status \notin {"CAPTURED", "PARTIALLY_REFUNDED"}
    BY <1>2, <2>1 DEF Settling
  <2>10. \A s \in noted' : return'[s].status = "REFUNDED"
    BY <2>1 DEF Settling
  <2>. QED  BY <1>2, <1>i, <2>1, <2>3, <2>5, <2>7, <2>8, <2>9, <2>10, SettlingGo
<1>3. ASSUME NEW h \in Handlers, CancelOrder(h) PROVE Settling'
  <2>. DEFINE q == [proc[h] EXCEPT !.at = "restore"]
  <2>1. proc[h].at = "cancel" /\ proc[h] \in Cancelling /\ proc[h].o \in Orders
    BY <1>3, WorkAt, StepTells DEF CancelOrder, Cancelling
  <2>2. q.at = "restore" /\ q.o = proc[h].o
    BY <2>1 DEF Cancelling
  <2>3. /\ Goes(h, q) /\ order' = [order EXCEPT ![proc[h].o] = "CANCELLED"]
        /\ payment' = payment /\ sentBack' = sentBack /\ return' = return /\ restocked' = restocked /\ UNCHANGED notes
        /\ reopened' = reopened
    BY <1>3 DEF CancelOrder, goods, notes
  <2>. HIDE DEF q
  <2>4. ~WasCancelled(order[proc[h].o], reopened[proc[h].o]) /\ payment[proc[h].o].status \notin {"CAPTURED", "PARTIALLY_REFUNDED"}
    BY <2>1 DEF Settling, Orderly
  <2>5. \A o \in Orders : order'[o] = IF o = proc[h].o THEN "CANCELLED" ELSE order[o]
    BY <2>3 DEF TypeInv, RefundTypeOK
  <2>6. ASSUME NEW o \in Orders
        PROVE  restocked'[o] + PutsBack(q, return', o) - Gone(order'[o], reopened'[o])
                                 = restocked[o] + PutsBack(proc[h], return, o) - Gone(order[o], reopened[o])
    <3>1. PutsBack(proc[h], return, o) = 0 /\ PutsBack(q, return', o) = IF o = proc[h].o THEN Quantity ELSE 0
      BY <2>1, <2>2 DEF PutsBack
    <3>2. restocked[o] \in Nat /\ Quantity \in Nat /\ Gone(order[o], reopened[o]) \in Nat
      BY OrderNat, RefundAssumption
    <3>3. CASE o = proc[h].o
      <4>1. Gone(order[o], reopened[o]) = 0 /\ Gone(order'[o], reopened'[o]) = Quantity
        BY <2>4, <2>5, <3>3 DEF Gone, WasCancelled
      <4>. QED  BY <2>3, <3>1, <3>2, <3>3, <4>1
    <3>4. CASE o # proc[h].o
      <4>1. Gone(order'[o], reopened'[o]) = Gone(order[o], reopened[o])
        BY <2>3, <2>5, <3>4
      <4>. QED  BY <2>3, <3>1, <3>2, <3>4, <4>1
    <3>. QED  BY <3>3, <3>4
  <2>7. UNCHANGED <<payment, sentBack, return, notes>>
    BY <2>3
  <2>. QED  BY <1>2, <2>1, <2>2, <2>3, <2>4, <2>5, <2>6, <2>7
<1>4. ASSUME NEW h \in Handlers, RestoreOrder(h) PROVE Settling'
  <2>1. proc[h].at = "restore" /\ proc[h] \in Cancelling /\ proc[h].o \in Orders
    BY <1>4, WorkAt, StepTells DEF RestoreOrder, Cancelling
  <2>2. /\ Goes(h, Idle) /\ restocked' = [restocked EXCEPT ![proc[h].o] = @ + Quantity]
        /\ order' = order /\ payment' = payment /\ sentBack' = sentBack /\ return' = return /\ UNCHANGED notes
        /\ reopened' = reopened
    BY <1>4 DEF RestoreOrder, money, notes
  <2>3. \A o \in Orders : restocked'[o] = IF o = proc[h].o THEN restocked[o] + Quantity ELSE restocked[o]
    BY <2>2 DEF TypeInv, RefundTypeOK
  <2>4. ASSUME NEW o \in Orders
        PROVE  restocked'[o] + PutsBack(Idle, return', o) - Gone(order'[o], reopened'[o])
                                 = restocked[o] + PutsBack(proc[h], return, o) - Gone(order[o], reopened[o])
    <3>1. PutsBack(Idle, return', o) = 0 /\ PutsBack(proc[h], return, o) = IF o = proc[h].o THEN Quantity ELSE 0
      BY <1>i, <2>1 DEF PutsBack
    <3>2. restocked[o] \in Nat /\ Quantity \in Nat /\ Gone(order[o], reopened[o]) \in Nat
      BY OrderNat, RefundAssumption
    <3>3. restocked'[o] = IF o = proc[h].o THEN restocked[o] + Quantity ELSE restocked[o]
      BY <2>3
    <3>. QED  BY <2>2, <3>1, <3>2, <3>3
  <2>5. UNCHANGED <<payment, sentBack, return, notes>>
    BY <2>2
  <2>6. \A o \in Orders : order'[o] = order[o]
    BY <2>2
  <2>. QED  BY <1>2, <2>1, <2>2, <2>4, <2>5, <2>6
<1>5. \A h \in Handlers : ~BestEffortFails(h) /\ ~Crash(h)
  BY DEF BestEffortFails, Crash, Alone, OneAtATime
<1>6. ASSUME NEW o \in Orders, Elsewhere(o) PROVE Settling'
  <2>1. /\ order' = [order EXCEPT ![o] = "FULFILLED"]
        /\ reopened' = [reopened EXCEPT ![o] = @ \cup ({order[o]} \cap Closed)]
        /\ UNCHANGED <<payment, sentBack, goods, invoiced, credited, noted, proc>>
    BY <1>6 DEF Elsewhere, Fulfil, OrderWritten, PaymentWritten, Alone
  <2>2. /\ payment' = payment /\ sentBack' = sentBack /\ return' = return /\ restocked' = restocked
        /\ invoiced' = invoiced /\ credited' = credited /\ noted' = noted /\ proc' = proc
    BY <2>1 DEF goods
  <2>3. \A x \in Orders : /\ WasCancelled(order'[x], reopened'[x]) <=> WasCancelled(order[x], reopened[x])
                          /\ WasClosed(order[x], reopened[x]) => WasClosed(order'[x], reopened'[x])
    <3>1. ASSUME NEW x \in Orders, x # o PROVE order'[x] = order[x] /\ reopened'[x] = reopened[x]
      BY <2>1, <3>1 DEF TypeInv, RefundTypeOK
    <3>2. order'[o] = "FULFILLED" /\ reopened'[o] = reopened[o] \cup ({order[o]} \cap Closed)
      BY <2>1 DEF TypeInv, RefundTypeOK
    <3>3. WasCancelled(order'[o], reopened'[o]) <=> WasCancelled(order[o], reopened[o])
      BY <3>2 DEF WasCancelled, Closed
    <3>4. WasClosed(order[o], reopened[o]) => WasClosed(order'[o], reopened'[o])
      BY <3>2 DEF WasClosed
    <3>. QED  BY <3>1, <3>3, <3>4
  <2>4. \A x : /\ Owed(x, Unnoted)' = Owed(x, Unnoted) /\ ToPutBack(x)' = ToPutBack(x)
               /\ UnitsBack(x)' = UnitsBack(x)
    BY <2>2 DEF Owed, Share, ToPutBack, PutsBack, UnitsBack, CameBack, SoundUnits
  <2>5. \A x \in Orders : Gone(order'[x], reopened'[x]) = Gone(order[x], reopened[x])
    BY <2>3 DEF Gone
  <2>6. ASSUME NEW g \in Handlers PROVE Orderly(proc[g], return, noted, order, payment, reopened)'
    <3>1. Orderly(proc[g], return, noted, order, payment, reopened) /\ proc[g] \in Work
      BY WorkAt DEF Settling
    <3>2. proc[g].at \in PaySteps \cup {"cancel", "check"} => proc[g].o \in Orders
      BY <3>1, StepTells DEF Paying, Cancelling, Checking
    <3>3. Orderly(proc[g], return, noted, order', payment, reopened')
      BY <2>3, <3>1, <3>2 DEF Orderly, PaySteps
    <3>. QED  BY <2>2, <3>3 DEF Orderly
  <2>7. \A x \in Orders : (payment[x].refunded = Total => ClosedOrClosing(x))'
    BY <2>2, <2>3 DEF Settling, ClosedOrClosing
  <2>8. \A x \in Orders : (restocked[x] + ToPutBack(x) <= UnitsBack(x) + Gone(order[x], reopened[x]))'
    <3>1. \A x \in Orders : restocked'[x] + ToPutBack(x)' <= UnitsBack(x)' + Gone(order'[x], reopened'[x])
      BY <2>2, <2>4, <2>5 DEF Settling
    <3>. QED  BY <3>1 DEF Gone
  <2>9. \A x \in Orders : (invoiced[x] => credited[x] + Owed(x, Unnoted) = sentBack[x])'
    BY <2>2, <2>4 DEF Settling
  <2>10. /\ \A x \in Orders : (WasCancelled(order[x], reopened[x]) => payment[x].status \notin {"CAPTURED", "PARTIALLY_REFUNDED"})'
         /\ \A r \in noted' : return'[r].status = "REFUNDED"
    BY <2>2, <2>3 DEF Settling
  <2>. QED  BY <2>6, <2>7, <2>8, <2>9, <2>10 DEF Settling
<1>. QED  BY <1>1, <1>3, <1>4, <1>5, <1>6 DEF CancelSteps

LEMMA NextKeepsSettling ==
    ASSUME Alone, TypeInv, TypeInv', Fresh, Books, Claims, Settling, [Next]_vars
    PROVE  Settling'
<1>1. CASE UNCHANGED vars
  <2>1. /\ order' = order /\ payment' = payment /\ sentBack' = sentBack /\ return' = return /\ restocked' = restocked
        /\ invoiced' = invoiced /\ credited' = credited /\ noted' = noted /\ reopened' = reopened /\ proc' = proc
    BY <1>1 DEF vars, money, goods, notes
  <2>. QED  BY <2>1 DEF Settling, Orderly, Owed, Share, ToPutBack, PutsBack, UnitsBack, CameBack, SoundUnits, Gone,
                         ClosedOrClosing
<1>2. CASE Next
  BY <1>2, ReturnsKeepSettling, RefundsKeepSettling, OthersKeepSettling DEF Next
<1>. QED  BY <1>1, <1>2

LEMMA InitSettling == Alone /\ Init => Settling
<1>. SUFFICES ASSUME Alone, Init PROVE Settling
  OBVIOUS
<1>1. \A h \in Handlers : proc[h] = Idle
  BY DEF Init
<1>2. IsFiniteSet(Handlers) /\ IsFiniteSet(Returns)
  BY RefundAssumption
<1>3. ASSUME NEW o \in Orders PROVE Owed(o, Unnoted) = 0 /\ ToPutBack(o) = 0 /\ UnitsBack(o) = 0
  <2>. DEFINE f == [h \in Handlers |-> Share(proc[h], o, Unnoted)]
              g == [h \in Handlers |-> PutsBack(proc[h], return, o)]
              b == [r \in Returns |-> IF CameBack(o, return[r]) THEN SoundUnits(return[r]) ELSE 0]
  <2>1. \A h \in Handlers : f[h] = 0
    BY <1>1, ShareNone DEF Idle, Unnoted
  <2>2. \A h \in Handlers : g[h] = 0
    BY <1>1 DEF Idle, PutsBack
  <2>3. \A r \in Returns : b[r] = 0
    BY DEF Init, CameBack
  <2>4. /\ Owed(o, Unnoted) = SumFunctionOnSet(f, Handlers) /\ ToPutBack(o) = SumFunctionOnSet(g, Handlers)
        /\ UnitsBack(o) = SumFunctionOnSet(b, Returns)
    BY DEF Owed, ToPutBack, UnitsBack
  <2>. HIDE DEF f, g, b
  <2>. QED  BY <1>2, <2>1, <2>2, <2>3, <2>4, SumZero
<1>4. \A h \in Handlers : Orderly(proc[h], return, noted, order, payment, reopened)
  BY <1>1, IdleOrderly
<1>5. \A o \in Orders : /\ order[o] = "PAID" /\ payment[o].refunded = 0 /\ credited[o] = 0 /\ sentBack[o] = 0
                        /\ restocked[o] = 0 /\ reopened[o] = {}
  BY DEF Init
<1>6. noted = {} /\ Total > 0
  BY DEF Init, Alone
<1>7. \A o \in Orders : /\ invoiced[o] => credited[o] + Owed(o, Unnoted) = sentBack[o]
                        /\ payment[o].refunded = Total => ClosedOrClosing(o)
                        /\ WasCancelled(order[o], reopened[o]) => payment[o].status \notin {"CAPTURED", "PARTIALLY_REFUNDED"}
                        /\ restocked[o] + ToPutBack(o) <= UnitsBack(o) + Gone(order[o], reopened[o])
  BY <1>3, <1>5, <1>6, TotalNat DEF Gone, WasCancelled
<1>. QED  BY <1>4, <1>6, <1>7 DEF Settling

LEMMA SettlingSettles == TypeInv /\ Claims /\ Settling => MoneyAndGoodsSettle
<1>. SUFFICES ASSUME TypeInv, Claims, Settling PROVE MoneyAndGoodsSettle
  OBVIOUS
<1>1. FullRefundCloses
  BY DEF FullRefundCloses, AtRest, Settling, ClosedOrClosing
<1>2. ASSUME NEW o \in Orders, AtRest(o), invoiced[o] PROVE credited[o] = sentBack[o]
  <2>. DEFINE f == [h \in Handlers |-> Share(proc[h], o, Unnoted)]
  <2>1. \A h \in Handlers : f[h] = 0
    BY <1>2 DEF AtRest, Share, Unnoted
  <2>2. IsFiniteSet(Handlers)
    BY RefundAssumption
  <2>. HIDE DEF f
  <2>3. SumFunctionOnSet(f, Handlers) = 0
    BY <2>1, <2>2, SumZero
  <2>4. Owed(o, Unnoted) = 0
    BY <2>3 DEF Owed, f
  <2>. QED  BY <1>2, <2>4 DEF Settling, TypeInv, RefundTypeOK
<1>3. ASSUME NEW o \in Orders PROVE restocked[o] <= UnitsBack(o) + IF WasCancelled(order[o], reopened[o]) THEN Quantity ELSE 0
  <2>1. restocked[o] + ToPutBack(o) <= UnitsBack(o) + Gone(order[o], reopened[o])
    BY DEF Settling
  <2>2. ToPutBack(o) \in Nat
    <3>. DEFINE g == [h \in Handlers |-> PutsBack(proc[h], return, o)]
    <3>1. \A h \in Handlers : g[h] \in Nat
      BY WorkAt, PutsBackNat
    <3>2. IsFiniteSet(Handlers)
      BY RefundAssumption
    <3>. HIDE DEF g
    <3>3. SumFunctionOnSet(g, Handlers) \in Nat
      BY <3>1, <3>2, SumNat
    <3>. QED  BY <3>3 DEF ToPutBack, g
  <2>3. restocked[o] \in Nat /\ UnitsBack(o) \in Nat /\ Gone(order[o], reopened[o]) \in Nat
    BY OrderNat
  <2>4. restocked[o] <= UnitsBack(o) + Gone(order[o], reopened[o])
    BY <2>1, <2>2, <2>3
  <2>. QED  BY <2>4 DEF Gone
<1>. QED  BY <1>1, <1>2, <1>3 DEF MoneyAndGoodsSettle, RefundsAreFinished, EveryRefundCredited, RestockedIsBack

(* When requests do not overlap, none dies half way, stock answers and nothing but
   shipments and their deliveries writes the order besides, then whatever the
   provider declines and whenever the order is shipped or delivered: an order
   refunded in full is closed unless a shipment took it out of that status after,
   every refund of an invoiced order is credited, and no more units are restocked
   than came back. *)
THEOREM RequestsSettle ==
    ASSUME Alone
    PROVE  Spec => []MoneyAndGoodsSettle
<1>1. Init => TypeInv /\ Fresh /\ Books /\ Claims /\ Settling
  BY InitTyped, InitBooks, InitClaims, InitSettling DEF Init, Fresh
<1>2. TypeInv /\ Fresh /\ Books /\ Claims /\ Settling /\ [Next]_vars => (TypeInv /\ Fresh /\ Books /\ Claims /\ Settling)'
  BY NextTyped, NextKeepsFresh, NextKeepsBooks, NextKeepsClaims, NextKeepsSettling
<1>3. TypeInv /\ Claims /\ Settling => MoneyAndGoodsSettle
  BY SettlingSettles
<1>. QED  BY <1>1, <1>2, <1>3, PTL DEF Spec
============================================================================
