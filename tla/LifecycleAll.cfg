SPECIFICATION Spec
CONSTANTS
  o1 = o1
  o2 = o2
  v1 = v1
  v2 = v2
  h1 = h1
  h2 = h2
  w1 = w1
  NoOrder = NoOrder
  Orders <- OneOrder
  Variants <- OneVariant
  Qty <- OneUnitEach
  OnHand <- OneInStock
  Handlers <- TwoHandlers
  Workers <- OneWorker
  MaxStock = 4
  MaxHooks = 2
  MaxRequests = 1
  Ops = {"AUTHORIZED", "CAPTURED", "FAILED", "REFUNDED", "update", "cancel", "expire", "ship", "stock", "crash", "fault"}
SYMMETRY HandlerSymmetry
INVARIANTS
  LifecycleTypeOK
  SoldAtMostOncePerCapture
  ReservedNeverOverstated
  LedgerExplainsStock
PROPERTIES
  StockSpec
