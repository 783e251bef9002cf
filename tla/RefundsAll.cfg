SPECIFICATION Spec
CONSTANTS
  o1 = o1
  q1 = q1
  q2 = q2
  h1 = h1
  h2 = h2
  Handlers = {h1, h2}
  Orders = {o1}
  Returns = {q1}
  Quantity = 1
  Paid = 2
  Shipping = 0
  Fee = 0
  Amounts = {1}
  Ops <- AnyOp
  MaxSent = 2
  MaxRestocked = 1
SYMMETRY RefundSymmetry
INVARIANTS
  RefundTypeOK
  RefundedWithinTotal
  RecordedWasSent
  ClaimsWereSent
CHECK_DEADLOCK FALSE
