SPECIFICATION FairSpec
CONSTANTS
  o1 = o1
  o2 = o2
  v1 = v1
  v2 = v2
  h1 = h1
  h2 = h2
  w1 = w1
  NoOrder = NoOrder
  Orders <- OneOrder
  Variants <- OneVariant
  Qty <- OneUnitEach
  OnHand <- OneInStock
  Handlers <- TwoHandlers
  Workers <- OneWorker
  MaxStock = 4
  MaxHooks = 3
  MaxRequests = 0
  Ops = {"CAPTURED", "REFUNDED"}
INVARIANTS
  NeverDoubleConsumed
