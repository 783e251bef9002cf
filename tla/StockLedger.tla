---------------------------- MODULE StockLedger ----------------------------
(***************************************************************************)
(* The stock tables of StockService (stock.service.ts): the on-hand count  *)
(* and the reserved count of every ProductVariant, the StockReservation    *)
(* rows that hold units for unpaid orders, and the StockMovement ledger.   *)
(*                                                                         *)
(* One action is one database transaction.  StockSpec lets any caller make *)
(* any of these transactions at any time: it is what the tables promise    *)
(* whoever calls, and OrderLifecycle implements it.                        *)
(***************************************************************************)
EXTENDS Integers, FiniteSets, Functions

CONSTANTS
    Orders,       \* the orders that may be placed
    Variants,     \* the product variants of one store
    Qty,          \* Qty[o][v]: units of v that order o asks for, 0 if none
    OnHand,       \* OnHand[v]: the on-hand count of v to begin with
    MaxStock      \* bound: on-hand and reserved counts stay within -MaxStock..MaxStock

ASSUME StockAssumption ==
    /\ IsFiniteSet(Orders)
    /\ Qty \in [Orders -> [Variants -> Nat]]
    /\ OnHand \in [Variants -> Nat]
    /\ MaxStock \in Nat

VARIABLES
    inventory,    \* ProductVariant.inventory
    reserved,     \* ProductVariant.reserved
    hold,         \* hold[o][v]: status of the StockReservation row, "NONE" if there is no row
    ledger,       \* the StockMovement rows of v: net is the sum of their deltas, last the latest balance
    policy        \* the StockPolicy row, and whether it ever allowed backorders

stockVars == <<inventory, reserved, hold, ledger, policy>>

HoldStatus == {"NONE", "ACTIVE", "CONSUMED", "RELEASED"}

(* The order lines: one reservation row and one movement each. *)
Lines(o) == {v \in Variants : Qty[o][v] > 0}
ActiveLines(o) == {v \in Variants : hold[o][v] = "ACTIVE"}

StockTypeOK ==
    /\ inventory \in [Variants -> Int]
    /\ reserved \in [Variants -> Int]
    /\ hold \in [Orders -> [Variants -> HoldStatus]]
    /\ ledger \in [Variants -> [net : Int, last : Int]]
    /\ policy \in [track : BOOLEAN, backorder : BOOLEAN, everBackorder : BOOLEAN]

StockInit ==
    /\ inventory = OnHand
    /\ reserved = [v \in Variants |-> 0]
    /\ hold = [o \in Orders |-> [v \in Variants |-> "NONE"]]
    /\ ledger = [v \in Variants |-> [net |-> 0, last |-> OnHand[v]]]
    /\ policy = [track |-> TRUE, backorder |-> FALSE, everBackorder |-> FALSE]

InBounds(n) == n \in -MaxStock .. MaxStock
----------------------------------------------------------------------------
(* Reservations. *)

Available(v) == inventory[v] - reserved[v]

(* reserve() can hold every line of o: without backorder each conditional
   UPDATE must find enough unreserved units, and one that does not makes the
   transaction roll back. *)
CanHold(o, backorder) ==
    backorder \/ \A v \in Lines(o) : Available(v) >= Qty[o][v]

Reserve(o, backorder) ==
    /\ CanHold(o, backorder)
    /\ reserved' = [v \in Variants |-> reserved[v] + Qty[o][v]]
    /\ \A v \in Lines(o) : InBounds(reserved'[v])
    /\ hold' = [hold EXCEPT ![o] =
                  [v \in Variants |-> IF v \in Lines(o) THEN "ACTIVE" ELSE "NONE"]]
    /\ UNCHANGED <<inventory, ledger, policy>>

CloseRowKeepsCount(o, v, status) ==
    /\ hold' = [hold EXCEPT ![o][v] = status]
    /\ UNCHANGED <<inventory, reserved, ledger, policy>>

(* closeReservations(): one row and its variant, in one transaction.  The row
   was ACTIVE when the caller listed it; it need not be any more. *)
CloseRow(o, v, status) ==
    /\ InBounds(reserved[v] - Qty[o][v])
    /\ hold' = [hold EXCEPT ![o][v] = status]
    /\ reserved' = [reserved EXCEPT ![v] = @ - Qty[o][v]]
    /\ UNCHANGED <<inventory, ledger, policy>>
----------------------------------------------------------------------------
(* Movements. *)

(* The balance move() writes: clamped at zero unless negatives are allowed. *)

Clamp(balance, allowNegative) ==
    IF ~allowNegative /\ balance < 0 THEN 0 ELSE balance

(* The delta of the ledger row: what was applied, not what was asked for. *)
RequestedDelta(current, asked, balance) == asked - current

AppliedDelta(current, asked, balance) == balance - current

(* move(): lock the variant row, write the new balance, append a ledger row. *)
MoveTo(v, asked, allowNegative) ==
    LET balance == Clamp(asked, allowNegative)
        delta   == AppliedDelta(inventory[v], asked, balance)
    IN  /\ InBounds(balance)
        /\ inventory' = [inventory EXCEPT ![v] = balance]
        /\ ledger' = [ledger EXCEPT ![v] = [net |-> @.net + delta, last |-> balance]]
        /\ UNCHANGED <<reserved, hold, policy>>

Move(v, delta, allowNegative) == MoveTo(v, inventory[v] + delta, allowNegative)

(* Whether negatives are allowed was read from the policy before the movement's
   own transaction: any answer the policy has given so far may be in hand. *)
ReadableBackorder == {FALSE, policy.everBackorder}

Adjust(v, delta) ==
    /\ delta # 0
    /\ \E neg \in ReadableBackorder : Move(v, delta, neg)

SetInventory(v, quantity) == MoveTo(v, quantity, TRUE)

Receive(v, quantity) == quantity > 0 /\ Move(v, quantity, TRUE)

SetPolicy(track, backorder) ==
    /\ policy' = [track |-> track, backorder |-> backorder,
                  everBackorder |-> policy.everBackorder \/ backorder]
    /\ UNCHANGED <<inventory, reserved, hold, ledger>>
----------------------------------------------------------------------------
(* Any caller, in any order.  The manual corrections take their amounts from
   -1..1 and 0..MaxStock, a bound of the instances TLC checks. *)

SaleLine(o, v) == \E neg \in ReadableBackorder : Move(v, -Qty[o][v], neg)

RestoreLine(o, v) == Move(v, Qty[o][v], TRUE)

NoRows(o) == \A v \in Variants : hold[o][v] = "NONE"

Corrections ==
    \/ \E v \in Variants, d \in {-1, 1} : Adjust(v, d)
    \/ \E v \in Variants, q \in 0 .. MaxStock : SetInventory(v, q)
    \/ \E v \in Variants : Receive(v, 1)
    \/ \E track, backorder \in BOOLEAN : SetPolicy(track, backorder)

StockNext ==
    \/ \E o \in Orders, backorder \in {policy.everBackorder, FALSE} :
          NoRows(o) /\ Reserve(o, backorder)
    \/ \E o \in Orders, v \in Variants, status \in {"CONSUMED", "RELEASED"} :
          hold[o][v] # "NONE" /\ CloseRow(o, v, status)
    \/ \E o \in Orders : \E v \in Lines(o) : SaleLine(o, v) \/ RestoreLine(o, v)
    \/ Corrections

StockSpec == StockInit /\ [][StockNext]_stockVars
----------------------------------------------------------------------------
(* The ledger explains the stock: the on-hand count of every variant is the
   starting count plus the deltas of its ledger rows, and the latest row
   carries the current balance (move(): "append a ledger row capturing the
   applied delta, resulting balance"), clamped movements included. *)
LedgerExplainsStock ==
    \A v \in Variants :
       /\ inventory[v] = OnHand[v] + ledger[v].net
       /\ inventory[v] = ledger[v].last

(* Tracked stock is never negative in a store that has never allowed
   backorders, whatever sales, corrections and recounts were applied. *)
NeverNegativeWithoutBackorder ==
    ~policy.everBackorder => \A v \in Variants : inventory[v] >= 0

(* Units enter and leave `reserved` only with a reservation row: a transaction
   that lowers the count of a variant by n closes a row of exactly n units, one
   that raises it by n opens a row of n units, and no active row is closed
   without giving its units back (closeReservations(): one transaction). *)
ReservedMovesWithRows ==
    [][\A v \in Variants :
         /\ reserved'[v] < reserved[v] =>
              \E o \in Orders :
                 /\ hold'[o][v] \in {"CONSUMED", "RELEASED"}
                 /\ reserved[v] - reserved'[v] = Qty[o][v]
         /\ reserved'[v] > reserved[v] =>
              \E o \in Orders :
                 /\ hold[o][v] = "NONE" /\ hold'[o][v] = "ACTIVE"
                 /\ reserved'[v] - reserved[v] = Qty[o][v]
         /\ \A o \in Orders :
              (hold[o][v] = "ACTIVE" /\ hold'[o][v] # "ACTIVE")
                 => reserved'[v] = reserved[v] - Qty[o][v]]_stockVars

(* `reserved` is the units held by active reservations (schema.prisma: "Units
   held for not-yet-paid orders"): never more, and exactly that while only one
   handler at a time closes the holds of an order. *)
Holders(v) == {o \in Orders : hold[o][v] = "ACTIVE"}
HeldUnits(v) == SumFunctionOnSet([o \in Orders |-> Qty[o][v]], Holders(v))
ReservedNeverOverstated == \A v \in Variants : reserved[v] <= HeldUnits(v)
ReservedExact == \A v \in Variants : reserved[v] = HeldUnits(v)

(* Units are counted right: those held by the rows that hold them, and none sold
   that are not there unless the store has allowed backorders. *)
UnitsAreCounted == ReservedExact /\ NeverNegativeWithoutBackorder
============================================================================
