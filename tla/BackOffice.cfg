SPECIFICATION BackOfficeSpec
CONSTANTS
  u1 = u1
  u2 = u2
  u3 = u3
  h1 = h1
  h2 = h2
  b1 = b1
  v1 = v1
  o1 = o1
  o2 = o2
  Users = {u1, u2, u3}
  TeamRequests = {h1, h2}
  MaxTeamCalls = 5
  Chats = {h1, h2}
  Caps = {1, 2}
  HighestRebuttals = 2
  MaxTurns = 5
  Sales = {o1, o2}
  Baskets <- Lines
  Discounts = {9}
  CheckoutRows <- Checkouts
  RefundAmounts = {8, 11}
  MaxSettings = 1
  MaxNotes = 3
  Importers = {h1, h2}
  Buyers = {b1}
  Rows <- Export
  MaxImports = 2
  MaxCheckouts = 2
  MaxRowErrors = 1
  Priced = {v1}
  Repricers = {h1, h2}
  Editors = {h1, h2}
  PriceRules <- Rules
  Prices = {250, 1030}
  Costs = {0, 700}
  RivalPrices = {649}
  MaxPriceCalls = 4
  Arms = {1, 2, 3}
  ControlArm = 1
  Weights = {0, 50, 30}
  Contents = {u1, u2}
  Promoters = {h1, h2}
  MaxTrials = 3
INVARIANTS
  BackOfficeTypeOK
  TopRoleIsHeld
  EscalationsReachPeople
  DocumentsAreExact
  ImportsAreComplete
  PricesKeepTheirRules
  ExperimentsAreFair
SYMMETRY BackOfficeSymmetry
CHECK_DEADLOCK FALSE
