CONSTANTS
  o1 = o1
  s1 = s1
  s2 = s2
  r1 = r1
  r2 = r2
  w1 = w1
  w2 = w2
  Orders = {o1}
  SubOrders = {s1, s2}
  OrderOf <- OneOrder
  Provider <- ByBkash
  Wish <- EachRail
  AutoApproved = {s1}
  Returns = {r1, r2}
  Workers = {w1, w2}
  MaxLost = 1
SPECIFICATION Spec
SYMMETRY Symmetry
INVARIANTS Inspected RefundBooked GatewayOnce ReturnBooks
CHECK_DEADLOCK FALSE
