SPECIFICATION Spec
CONSTANTS
  o1 = o1
  q1 = q1
  q2 = q2
  h1 = h1
  h2 = h2
  Handlers = {h1}
  Orders = {o1}
  Returns = {q1, q2}
  Quantity = 2
  Paid = 3
  Shipping = 1
  Fee = 50
  Amounts = {1}
  Ops <- Declines
  MaxSent = 4
  MaxRestocked = 9
INVARIANTS
  SentWithinTotal
  MoneyAndGoodsSettle
CHECK_DEADLOCK FALSE
