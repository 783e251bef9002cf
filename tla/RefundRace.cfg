SPECIFICATION Spec
CONSTANTS
  o1 = o1
  q1 = q1
  q2 = q2
  h1 = h1
  h2 = h2
  Handlers = {h1, h2}
  Orders = {o1}
  Returns = {q1, q2}
  Quantity = 1
  Paid = 2
  Shipping = 0
  Fee = 0
  Amounts <- NoAmount
  Ops <- NoOps
  MaxSent = 4
  MaxRestocked = 1
INVARIANTS
  SentWithinTotal
CHECK_DEADLOCK FALSE
