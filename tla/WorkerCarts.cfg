SPECIFICATION WorkerFairSpec
CONSTANTS
  w = w
  m = m
  c1 = c1
  q1 = q1
  p1 = p1
  v1 = v1
  k1 = k1
  s1 = s1
  h1 = h1
  Worker = w
  Watched <- CartWork
  AdvisoryEvery = 1
  MaxThrows = 0
  Carts = {c1}
  Requests = {q1}
  Jobs = {w, m}
  AbandonAfter = 1
  StepDelays <- Delays
  LineCap = 1
  Quantities = {0, 1}
  RecoveryOps = {"pay", "consent", "policy", "fail"}
  LastMinute = 2
  MaxCalls = 2
  MaxFaults = 1
  Variants = {v1}
  Scans = {w, m}
  Codes = {}
  MaxUnits = 0
  MaxSold = 0
  ReorderPoint = 0
  AmberDays = 1
  GreenDays = 2
  WindowDays = 2
  DedupeHours = 2
  AlertOps = {}
  MaxMoves = 0
  MaxMishaps = 0
  Keys = {1, 2, 3}
  Recomputes = {w, m}
  Scheduled = w
  Nightly = 1
  Weekly = 2
  Monthly = 3
  FirstKeys = {1, 2}
  CohortOps = {}
  MaxLosses = 0
  MaxShifts = 0
  Subs = {s1}
  Runners = {w, m}
  Managers = {h1}
  Intervals = {1}
  Ops <- AnyOp
  MaxTime = 1
  MaxRequests = 1
  Customers = {p1}
  Runs = {w}
  Temperatures <- Warmth
  WeeklyCap <- CapOf
  HighestCap = 2
  DailyCap = 1
  MinGap = 2
  Day = 2
  Week = 4
  QuietFrom = 1
  QuietTo = 0
  EngagementOps = {}
  LastHour = 0
  MaxStops = 0
  MaxChanges = 0
INVARIANTS
  TickTypeOK
  PaidCartsStaySettled
PROPERTIES
  RemindersAreDue
  InactiveIsNotBilled
  WaitingWorkIsDone
CHECK_DEADLOCK FALSE
