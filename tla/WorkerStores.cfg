SPECIFICATION WorkerFairSpec
CONSTANTS
  w = w
  m = m
  c1 = c1
  q1 = q1
  p1 = p1
  v1 = v1
  k1 = k1
  s1 = s1
  h1 = h1
  Worker = w
  Watched <- StoreWork
  AdvisoryEvery = 1
  MaxThrows = 1
  Carts = {c1}
  Requests = {q1}
  Jobs = {w, m}
  AbandonAfter = 1
  StepDelays <- Delays
  LineCap = 1
  Quantities = {0, 1}
  RecoveryOps = {}
  LastMinute = 0
  MaxCalls = 0
  MaxFaults = 0
  Variants = {v1}
  Scans = {w, m}
  Codes = {k1}
  MaxUnits = 2
  MaxSold = 2
  ReorderPoint = 0
  AmberDays = 1
  GreenDays = 2
  WindowDays = 2
  DedupeHours = 2
  AlertOps = {"stop"}
  MaxMoves = 3
  MaxMishaps = 1
  Keys = {1, 2, 3}
  Recomputes = {w, m}
  Scheduled = w
  Nightly = 1
  Weekly = 2
  Monthly = 3
  FirstKeys = {1, 2}
  CohortOps = {"shift", "lose"}
  MaxLosses = 1
  MaxShifts = 1
  Subs = {s1}
  Runners = {w, m}
  Managers = {h1}
  Intervals = {1, 2}
  Ops = {"crash"}
  MaxTime = 3
  MaxRequests = 1
  Customers = {p1}
  Runs = {w, m}
  Temperatures <- Warmth
  WeeklyCap <- CapOf
  HighestCap = 2
  DailyCap = 1
  MinGap = 2
  Day = 2
  Week = 4
  QuietFrom = 1
  QuietTo = 0
  EngagementOps = {"consent", "policy", "fail", "crash"}
  LastHour = 2
  MaxStops = 1
  MaxChanges = 1
INVARIANTS
  TickTypeOK
  SteadyCohortsKept
  OwnerIsTold
  BilledAtMostOnce
  MessagesWithinLimits
PROPERTIES
  BillingPromised
  WaitingWorkIsDone
CHECK_DEADLOCK FALSE
