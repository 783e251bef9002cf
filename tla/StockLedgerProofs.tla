------------------------- MODULE StockLedgerProofs -------------------------
(***************************************************************************)
(* What the stock tables guarantee to every caller, for any number of      *)
(* orders and variants and any stock bound.                                *)
(***************************************************************************)
EXTENDS StockLedger, Sums

(* Every step is one transaction: a reservation, the close of a row, a
   movement of one variant, or a policy change.  A movement's balance is
   negative only under a backorder policy, or when it gives units back. *)
Reserves == \E o \in Orders, backorder \in BOOLEAN : NoRows(o) /\ Reserve(o, backorder)
Closes == \E o \in Orders, v \in Variants, status \in {"CONSUMED", "RELEASED"} :
             CloseRow(o, v, status)
Moved(v, balance) ==
    /\ inventory' = [inventory EXCEPT ![v] = balance]
    /\ ledger' = [ledger EXCEPT ![v] = [net |-> @.net + (balance - inventory[v]), last |-> balance]]
    /\ UNCHANGED <<reserved, hold, policy>>
    /\ policy.everBackorder \/ balance >= 0 \/ balance >= inventory[v]
Moves == \E v \in Variants, balance \in Int : Moved(v, balance)
Resets == \E track, backorder \in BOOLEAN : SetPolicy(track, backorder)

(* move() clamps: the balance it writes is allowed by the policy it was given. *)
LEMMA MoveStep ==
    ASSUME StockTypeOK, NEW v \in Variants, NEW asked \in Int, NEW neg \in BOOLEAN, MoveTo(v, asked, neg),
           neg = TRUE => policy.everBackorder \/ asked >= 0 \/ asked >= inventory[v]
    PROVE  Moves
<1>1. CASE neg = TRUE
  <2>1. Clamp(asked, neg) = asked
    BY <1>1 DEF Clamp
  <2>2. Moved(v, asked)
    BY <1>1, <2>1 DEF MoveTo, AppliedDelta, Moved
  <2>. QED  BY <2>2 DEF Moves
<1>2. CASE neg = FALSE /\ asked < 0
  <2>1. Clamp(asked, neg) = 0
    BY <1>2 DEF Clamp
  <2>2. Moved(v, 0)
    BY <2>1 DEF MoveTo, AppliedDelta, Moved
  <2>. QED  BY <2>2 DEF Moves
<1>3. CASE neg = FALSE /\ ~(asked < 0)
  <2>1. Clamp(asked, neg) = asked
    BY <1>3 DEF Clamp
  <2>2. Moved(v, asked)
    BY <1>3, <2>1 DEF MoveTo, AppliedDelta, Moved
  <2>. QED  BY <2>2 DEF Moves
<1>. QED  BY <1>1, <1>2, <1>3

(* A step of StockNext is one of these four kinds of transaction. *)
LEMMA StockStep ==
    ASSUME StockTypeOK, StockNext
    PROVE  Reserves \/ Closes \/ Moves \/ Resets
<1>1. CASE \E o \in Orders, backorder \in {policy.everBackorder, FALSE} :
              NoRows(o) /\ Reserve(o, backorder)
  BY <1>1 DEF Reserves, StockTypeOK
<1>2. CASE \E o \in Orders, v \in Variants, status \in {"CONSUMED", "RELEASED"} :
              hold[o][v] # "NONE" /\ CloseRow(o, v, status)
  BY <1>2 DEF Closes
<1>3. ASSUME NEW o \in Orders, NEW v \in Lines(o), SaleLine(o, v)
      PROVE  Moves
  <2>1. PICK neg \in {FALSE, policy.everBackorder} : MoveTo(v, inventory[v] + (-Qty[o][v]), neg)
    BY <1>3 DEF SaleLine, ReadableBackorder, Move
  <2>2. neg \in BOOLEAN /\ (neg = TRUE => policy.everBackorder)
    BY <2>1 DEF StockTypeOK
  <2>3. v \in Variants /\ inventory[v] + (-Qty[o][v]) \in Int
    BY StockAssumption DEF Lines, StockTypeOK
  <2>. QED  BY <2>1, <2>2, <2>3, MoveStep
<1>4. ASSUME NEW o \in Orders, NEW v \in Lines(o), RestoreLine(o, v)
      PROVE  Moves
  <2>1. v \in Variants /\ inventory[v] + Qty[o][v] \in Int /\ inventory[v] + Qty[o][v] >= inventory[v]
    BY StockAssumption DEF Lines, StockTypeOK
  <2>2. MoveTo(v, inventory[v] + Qty[o][v], TRUE)
    BY <1>4 DEF RestoreLine, Move
  <2>. QED  BY <2>1, <2>2, MoveStep
<1>5. CASE Corrections
  <2>1. ASSUME NEW v \in Variants, NEW d \in {-1, 1}, Adjust(v, d)
        PROVE  Moves
    <3>1. PICK neg \in {FALSE, policy.everBackorder} : MoveTo(v, inventory[v] + d, neg)
      BY <2>1 DEF Adjust, ReadableBackorder, Move
    <3>2. neg \in BOOLEAN /\ (neg = TRUE => policy.everBackorder)
      BY <3>1 DEF StockTypeOK
    <3>3. inventory[v] + d \in Int
      BY DEF StockTypeOK
    <3>. QED  BY <3>1, <3>2, <3>3, MoveStep
  <2>2. ASSUME NEW v \in Variants, NEW q \in 0 .. MaxStock, SetInventory(v, q)
        PROVE  Moves
    <3>1. q \in Int /\ q >= 0
      BY StockAssumption
    <3>2. MoveTo(v, q, TRUE)
      BY <2>2 DEF SetInventory
    <3>. QED  BY <3>1, <3>2, MoveStep
  <2>3. ASSUME NEW v \in Variants, Receive(v, 1)
        PROVE  Moves
    <3>1. inventory[v] + 1 \in Int /\ inventory[v] + 1 >= inventory[v]
      BY DEF StockTypeOK
    <3>2. MoveTo(v, inventory[v] + 1, TRUE)
      BY <2>3 DEF Receive, Move
    <3>. QED  BY <3>1, <3>2, MoveStep
  <2>4. ASSUME NEW track \in BOOLEAN, NEW backorder \in BOOLEAN, SetPolicy(track, backorder)
        PROVE  Resets
    BY <2>4 DEF Resets
  <2>. QED  BY <1>5, <2>1, <2>2, <2>3, <2>4 DEF Corrections
<1>. QED  BY <1>1, <1>2, <1>3, <1>4, <1>5 DEF StockNext

(* Every transaction keeps the types of the tables. *)
LEMMA StockNextTyped == StockTypeOK /\ [StockNext]_stockVars => StockTypeOK'
<1>. SUFFICES ASSUME StockTypeOK, StockNext PROVE StockTypeOK'
  BY DEF stockVars, StockTypeOK
<1>1. CASE Reserves
  <2>1. PICK o \in Orders, backorder \in BOOLEAN : Reserve(o, backorder)
    BY <1>1 DEF Reserves
  <2>2. [v \in Variants |-> IF v \in Lines(o) THEN "ACTIVE" ELSE "NONE"]
          \in [Variants -> HoldStatus]
    BY DEF HoldStatus
  <2>3. hold' \in [Orders -> [Variants -> HoldStatus]]
    BY <2>1, <2>2 DEF Reserve, StockTypeOK
  <2>4. reserved' \in [Variants -> Int]
    <3>1. \A v \in Variants : reserved[v] + Qty[o][v] \in Int
      BY StockAssumption DEF StockTypeOK
    <3>. QED  BY <2>1, <3>1 DEF Reserve
  <2>. QED  BY <2>1, <2>3, <2>4 DEF Reserve, StockTypeOK
<1>2. CASE Closes
  <2>1. PICK o \in Orders, v \in Variants, status \in {"CONSUMED", "RELEASED"} : CloseRow(o, v, status)
    BY <1>2 DEF Closes
  <2>2. hold' \in [Orders -> [Variants -> HoldStatus]]
    <3>1. [hold[o] EXCEPT ![v] = status] \in [Variants -> HoldStatus]
      BY DEF StockTypeOK, HoldStatus
    <3>. QED  BY <2>1, <3>1 DEF CloseRow, StockTypeOK
  <2>3. reserved' \in [Variants -> Int]
    <3>1. reserved[v] - Qty[o][v] \in Int
      BY StockAssumption DEF StockTypeOK
    <3>. QED  BY <2>1, <3>1 DEF CloseRow, StockTypeOK
  <2>. QED  BY <2>1, <2>2, <2>3 DEF CloseRow, StockTypeOK
<1>3. CASE Moves
  <2>1. PICK v \in Variants, balance \in Int : Moved(v, balance)
    BY <1>3 DEF Moves
  <2>2. inventory' \in [Variants -> Int]
    BY <2>1 DEF Moved, StockTypeOK
  <2>3. [net |-> ledger[v].net + (balance - inventory[v]), last |-> balance] \in [net : Int, last : Int]
    BY DEF StockTypeOK
  <2>4. ledger' \in [Variants -> [net : Int, last : Int]]
    BY <2>1, <2>3 DEF Moved, StockTypeOK
  <2>. QED  BY <2>1, <2>2, <2>4 DEF Moved, StockTypeOK
<1>4. CASE Resets
  BY <1>4 DEF Resets, SetPolicy, StockTypeOK
<1>. QED  BY StockStep, <1>1, <1>2, <1>3, <1>4

LEMMA StockInitTyped == StockInit => StockTypeOK
  BY StockAssumption DEF StockInit, StockTypeOK, HoldStatus

(* Type correctness of the stock tables. *)
THEOREM StockTypeCorrect == StockSpec => []StockTypeOK
  BY StockInitTyped, StockNextTyped, PTL DEF StockSpec

(* The ledger explains the on-hand count of every variant. *)
THEOREM LedgerCorrect == StockSpec => []LedgerExplainsStock
<1>1. StockInit => LedgerExplainsStock
  BY StockAssumption DEF StockInit, LedgerExplainsStock
<1>2. StockTypeOK /\ LedgerExplainsStock /\ [StockNext]_stockVars => LedgerExplainsStock'
  <2>. SUFFICES ASSUME StockTypeOK, LedgerExplainsStock, StockNext PROVE LedgerExplainsStock'
    BY DEF stockVars, LedgerExplainsStock
  <2>1. CASE Reserves
    BY <2>1 DEF Reserves, Reserve, LedgerExplainsStock
  <2>2. CASE Closes
    BY <2>2 DEF Closes, CloseRow, LedgerExplainsStock
  <2>3. CASE Moves
    <3>1. PICK v \in Variants, balance \in Int : Moved(v, balance)
      BY <2>3 DEF Moves
    <3>2. ASSUME NEW u \in Variants
          PROVE  inventory'[u] = OnHand[u] + ledger'[u].net /\ inventory'[u] = ledger'[u].last
      <4>1. CASE u = v
        <5>1. inventory'[u] = balance /\ ledger'[u].last = balance
              /\ ledger'[u].net = ledger[u].net + (balance - inventory[u])
          BY <3>1, <4>1 DEF Moved, StockTypeOK
        <5>2. inventory[u] \in Int /\ ledger[u].net \in Int /\ OnHand[u] \in Int
          BY StockAssumption DEF StockTypeOK
        <5>. QED  BY <5>1, <5>2 DEF LedgerExplainsStock
      <4>2. CASE u # v
        BY <3>1, <4>2 DEF Moved, StockTypeOK, LedgerExplainsStock
      <4>. QED  BY <4>1, <4>2
    <3>. QED  BY <3>2 DEF LedgerExplainsStock
  <2>4. CASE Resets
    BY <2>4 DEF Resets, SetPolicy, LedgerExplainsStock
  <2>. QED  BY StockStep, <2>1, <2>2, <2>3, <2>4
<1>. QED  BY <1>1, <1>2, StockTypeCorrect, PTL DEF StockSpec

(* Stock is never negative in a store that has never allowed backorders. *)
THEOREM NeverNegative == StockSpec => []NeverNegativeWithoutBackorder
<1>1. StockInit => NeverNegativeWithoutBackorder
  BY StockAssumption DEF StockInit, NeverNegativeWithoutBackorder
<1>2. StockTypeOK /\ NeverNegativeWithoutBackorder /\ [StockNext]_stockVars
        => NeverNegativeWithoutBackorder'
  <2>. SUFFICES ASSUME StockTypeOK, NeverNegativeWithoutBackorder, StockNext
                PROVE  NeverNegativeWithoutBackorder'
    BY DEF stockVars, NeverNegativeWithoutBackorder
  <2>1. CASE Reserves
    BY <2>1 DEF Reserves, Reserve, NeverNegativeWithoutBackorder
  <2>2. CASE Closes
    BY <2>2 DEF Closes, CloseRow, NeverNegativeWithoutBackorder
  <2>3. CASE Moves
    BY <2>3 DEF Moves, Moved, StockTypeOK, NeverNegativeWithoutBackorder
  <2>4. CASE Resets
    BY <2>4 DEF Resets, SetPolicy, StockTypeOK, NeverNegativeWithoutBackorder
  <2>. QED  BY StockStep, <2>1, <2>2, <2>3, <2>4
<1>. QED  BY <1>1, <1>2, StockTypeCorrect, PTL DEF StockSpec

(* `reserved` changes only together with the row that accounts for it. *)
THEOREM ReservedConserved == StockSpec => ReservedMovesWithRows
<1>. DEFINE Conserved == \A v \in Variants :
         /\ reserved'[v] < reserved[v] =>
              \E o \in Orders :
                 /\ hold'[o][v] \in {"CONSUMED", "RELEASED"}
                 /\ reserved[v] - reserved'[v] = Qty[o][v]
         /\ reserved'[v] > reserved[v] =>
              \E o \in Orders :
                 /\ hold[o][v] = "NONE" /\ hold'[o][v] = "ACTIVE"
                 /\ reserved'[v] - reserved[v] = Qty[o][v]
         /\ \A o \in Orders :
              (hold[o][v] = "ACTIVE" /\ hold'[o][v] # "ACTIVE")
                 => reserved'[v] = reserved[v] - Qty[o][v]
<1>1. StockTypeOK /\ [StockNext]_stockVars => [Conserved]_stockVars
  <2>. SUFFICES ASSUME StockTypeOK, StockNext PROVE Conserved
    OBVIOUS
  <2>. SUFFICES ASSUME NEW v \in Variants
                PROVE  /\ reserved'[v] < reserved[v] =>
                            \E o \in Orders :
                               /\ hold'[o][v] \in {"CONSUMED", "RELEASED"}
                               /\ reserved[v] - reserved'[v] = Qty[o][v]
                       /\ reserved'[v] > reserved[v] =>
                            \E o \in Orders :
                               /\ hold[o][v] = "NONE" /\ hold'[o][v] = "ACTIVE"
                               /\ reserved'[v] - reserved[v] = Qty[o][v]
                       /\ \A o \in Orders :
                            (hold[o][v] = "ACTIVE" /\ hold'[o][v] # "ACTIVE")
                               => reserved'[v] = reserved[v] - Qty[o][v]
    OBVIOUS
  <2>0. reserved[v] \in Int /\ \A o \in Orders : Qty[o][v] \in Nat
    BY StockAssumption DEF StockTypeOK
  <2>1. CASE Reserves
    <3>1. PICK o \in Orders, backorder \in BOOLEAN : NoRows(o) /\ Reserve(o, backorder)
      BY <2>1 DEF Reserves
    <3>2. hold[o][v] = "NONE" /\ reserved'[v] = reserved[v] + Qty[o][v]
      BY <3>1 DEF NoRows, Reserve
    <3>3. Qty[o][v] > 0 => hold'[o][v] = "ACTIVE"
      BY <3>1 DEF Reserve, Lines, StockTypeOK
    <3>4. \A u \in Orders : u # o => hold'[u][v] = hold[u][v]
      BY <3>1 DEF Reserve, StockTypeOK
    <3>. QED  BY <2>0, <3>2, <3>3, <3>4
  <2>2. CASE Closes
    <3>1. PICK o \in Orders, w \in Variants, status \in {"CONSUMED", "RELEASED"} : CloseRow(o, w, status)
      BY <2>2 DEF Closes
    <3>2. CASE w = v
      <4>1. hold'[o][v] = status /\ reserved'[v] = reserved[v] - Qty[o][v]
        BY <3>1, <3>2 DEF CloseRow, StockTypeOK
      <4>2. \A u \in Orders : u # o => hold'[u][v] = hold[u][v]
        BY <3>1 DEF CloseRow, StockTypeOK
      <4>. QED  BY <2>0, <4>1, <4>2
    <3>3. CASE w # v
      <4>1. reserved'[v] = reserved[v] /\ \A u \in Orders : hold'[u][v] = hold[u][v]
        BY <3>1, <3>3 DEF CloseRow, StockTypeOK
      <4>. QED  BY <2>0, <4>1
    <3>. QED  BY <3>2, <3>3
  <2>3. CASE Moves
    BY <2>0, <2>3 DEF Moves, Moved
  <2>4. CASE Resets
    BY <2>0, <2>4 DEF Resets, SetPolicy
  <2>. QED  BY StockStep, <2>1, <2>2, <2>3, <2>4
<1>. QED  BY <1>1, StockTypeCorrect, PTL DEF StockSpec, ReservedMovesWithRows
----------------------------------------------------------------------------
(* The units held of a variant, as its rows open and close. *)
LEMMA HoldersFinite ==
    ASSUME NEW v
    PROVE  IsFiniteSet(Holders(v)) /\ \A o \in Holders(v) : o \in Orders
  BY StockAssumption, FS_Subset DEF Holders

LEMMA HeldNat ==
    ASSUME NEW v \in Variants
    PROVE  HeldUnits(v) \in Nat
<1>1. \A o \in Holders(v) : [u \in Orders |-> Qty[u][v]][o] \in Nat
  BY StockAssumption DEF Holders
<1>. QED  BY <1>1, HoldersFinite, SumNat DEF HeldUnits

LEMMA RowOpens ==
    ASSUME NEW o \in Orders, NEW v \in Variants, o \notin Holders(v), Holders(v)' = Holders(v) \cup {o}
    PROVE  HeldUnits(v)' = HeldUnits(v) + Qty[o][v]
<1>. DEFINE f == [u \in Orders |-> Qty[u][v]]
<1>1. \A u \in Holders(v) \cup {o} : f[u] \in Int
  BY StockAssumption, HoldersFinite
<1>2. SumFunctionOnSet(f, Holders(v) \cup {o}) = f[o] + SumFunctionOnSet(f, Holders(v))
  BY <1>1, HoldersFinite, SumWith
<1>3. HeldUnits(v) = SumFunctionOnSet(f, Holders(v)) /\ HeldUnits(v)' = SumFunctionOnSet(f, Holders(v) \cup {o})
  BY DEF HeldUnits
<1>4. f[o] = Qty[o][v] /\ Qty[o][v] \in Nat
  BY StockAssumption
<1>. QED  BY <1>2, <1>3, <1>4, HeldNat

LEMMA RowCloses ==
    ASSUME NEW o \in Orders, NEW v \in Variants, o \in Holders(v), Holders(v)' = Holders(v) \ {o}
    PROVE  HeldUnits(v)' = HeldUnits(v) - Qty[o][v]
<1>. DEFINE f == [u \in Orders |-> Qty[u][v]]
<1>1. \A u \in Holders(v) : f[u] \in Int
  BY StockAssumption, HoldersFinite
<1>2. SumFunctionOnSet(f, Holders(v)) = f[o] + SumFunctionOnSet(f, Holders(v) \ {o})
  BY <1>1, HoldersFinite, SumWithout
<1>3. HeldUnits(v) = SumFunctionOnSet(f, Holders(v)) /\ HeldUnits(v)' = SumFunctionOnSet(f, Holders(v) \ {o})
  BY DEF HeldUnits
<1>4. f[o] = Qty[o][v] /\ Qty[o][v] \in Nat
  BY StockAssumption
<1>5. SumFunctionOnSet(f, Holders(v) \ {o}) \in Int
  <2>1. IsFiniteSet(Holders(v) \ {o}) /\ \A u \in Holders(v) \ {o} : f[u] \in Int
    BY <1>1, HoldersFinite, FS_RemoveElement
  <2>. QED  BY <2>1, SumInt
<1>. QED  BY <1>2, <1>3, <1>4, <1>5

LEMMA HeldStays ==
    ASSUME NEW v \in Variants, Holders(v)' = Holders(v)
    PROVE  HeldUnits(v)' = HeldUnits(v)
  BY DEF HeldUnits

(* A reservation adds to both counts; closing a row takes its units from
   `reserved`, and from those held if it was still active. *)
LEMMA ReserveHolds ==
    ASSUME StockTypeOK, NEW o \in Orders, NEW backorder, NoRows(o), Reserve(o, backorder), NEW v \in Variants
    PROVE  HeldUnits(v)' = HeldUnits(v) + Qty[o][v] /\ reserved'[v] = reserved[v] + Qty[o][v]
<1>1. hold'[o][v] = IF v \in Lines(o) THEN "ACTIVE" ELSE "NONE"
  BY DEF Reserve, StockTypeOK
<1>2. \A u \in Orders : u # o => hold'[u][v] = hold[u][v]
  BY DEF Reserve, StockTypeOK
<1>3. o \notin Holders(v)
  BY DEF NoRows, Holders
<1>4. CASE v \in Lines(o)
  <2>1. Holders(v)' = Holders(v) \cup {o}
    BY <1>1, <1>2, <1>4 DEF Holders
  <2>. QED  BY <1>3, <2>1, RowOpens DEF Reserve
<1>5. CASE v \notin Lines(o)
  <2>1. Holders(v)' = Holders(v)
    BY <1>1, <1>2, <1>3, <1>5 DEF Holders
  <2>2. Qty[o][v] = 0
    BY <1>5, StockAssumption DEF Lines
  <2>. QED  BY <2>1, <2>2, HeldStays, HeldNat DEF Reserve
<1>. QED  BY <1>4, <1>5

LEMMA CloseHolds ==
    ASSUME StockTypeOK, NEW o \in Orders, NEW w \in Variants, NEW status \in {"CONSUMED", "RELEASED"},
           CloseRow(o, w, status), NEW v \in Variants
    PROVE  IF w # v THEN HeldUnits(v)' = HeldUnits(v) /\ reserved'[v] = reserved[v]
           ELSE /\ HeldUnits(v)' = HeldUnits(v) - (IF hold[o][v] = "ACTIVE" THEN Qty[o][v] ELSE 0)
                /\ reserved'[v] = reserved[v] - Qty[o][v]
<1>1. \A u \in Orders : hold'[u][v] = IF u = o /\ w = v THEN status ELSE hold[u][v]
  BY DEF CloseRow, StockTypeOK
<1>2. reserved'[v] = IF w = v THEN reserved[v] - Qty[o][v] ELSE reserved[v]
  BY DEF CloseRow, StockTypeOK
<1>3. CASE w # v
  <2>1. Holders(v)' = Holders(v)
    BY <1>1, <1>3 DEF Holders
  <2>. QED  BY <1>2, <1>3, <2>1, HeldStays
<1>4. CASE w = v /\ hold[o][v] = "ACTIVE"
  <2>1. o \in Holders(v) /\ Holders(v)' = Holders(v) \ {o}
    BY <1>1, <1>4 DEF Holders
  <2>. QED  BY <1>2, <1>4, <2>1, RowCloses
<1>5. CASE w = v /\ hold[o][v] # "ACTIVE"
  <2>1. Holders(v)' = Holders(v)
    BY <1>1, <1>5 DEF Holders
  <2>. QED  BY <1>2, <1>5, <2>1, HeldStays, HeldNat
<1>. QED  BY <1>3, <1>4, <1>5

LEMMA NothingHeld ==
    ASSUME StockInit, NEW v \in Variants
    PROVE  HeldUnits(v) = 0 /\ reserved[v] = 0
<1>1. Holders(v) = {}
  BY DEF StockInit, Holders
<1>. QED  BY <1>1, SumEmpty DEF HeldUnits, StockInit

(* The reserved count never exceeds the units of the active reservations,
   whoever calls, however often a row is closed. *)
THEOREM ReservedWithinHeld == StockSpec => []ReservedNeverOverstated
<1>1. StockInit => ReservedNeverOverstated
  BY NothingHeld DEF ReservedNeverOverstated
<1>2. StockTypeOK /\ ReservedNeverOverstated /\ [StockNext]_stockVars => ReservedNeverOverstated'
  <2>. SUFFICES ASSUME StockTypeOK, ReservedNeverOverstated, [StockNext]_stockVars, NEW v \in Variants
                PROVE  reserved'[v] <= HeldUnits(v)'
    BY DEF ReservedNeverOverstated
  <2>0. /\ reserved[v] <= HeldUnits(v) /\ HeldUnits(v) \in Nat /\ reserved[v] \in Int
        /\ \A o \in Orders : Qty[o][v] \in Nat
    BY HeldNat, StockAssumption DEF ReservedNeverOverstated, StockTypeOK
  <2>1. CASE Reserves
    <3>1. PICK o \in Orders, backorder \in BOOLEAN : NoRows(o) /\ Reserve(o, backorder)
      BY <2>1 DEF Reserves
    <3>2. HeldUnits(v)' = HeldUnits(v) + Qty[o][v] /\ reserved'[v] = reserved[v] + Qty[o][v]
      BY <3>1, ReserveHolds
    <3>. QED  BY <2>0, <3>2
  <2>2. CASE Closes
    <3>1. PICK o \in Orders, w \in Variants, status \in {"CONSUMED", "RELEASED"} : CloseRow(o, w, status)
      BY <2>2 DEF Closes
    <3>2. IF w # v THEN HeldUnits(v)' = HeldUnits(v) /\ reserved'[v] = reserved[v]
           ELSE /\ HeldUnits(v)' = HeldUnits(v) - (IF hold[o][v] = "ACTIVE" THEN Qty[o][v] ELSE 0)
                /\ reserved'[v] = reserved[v] - Qty[o][v]
      BY <3>1, CloseHolds
    <3>. QED  BY <2>0, <3>2
  <2>3. CASE Moves \/ Resets \/ UNCHANGED stockVars
    <3>1. hold' = hold /\ reserved' = reserved
      BY <2>3 DEF Moves, Moved, Resets, SetPolicy, stockVars
    <3>2. Holders(v)' = Holders(v)
      BY <3>1 DEF Holders
    <3>. QED  BY <2>0, <3>1, <3>2, HeldStays
  <2>. QED  BY StockStep, <2>1, <2>2, <2>3
<1>. QED  BY <1>1, <1>2, StockTypeCorrect, PTL DEF StockSpec
============================================================================
