SPECIFICATION Spec
CONSTANTS
  o1 = o1
  s1 = s1
  s2 = s2
  k1 = k1
  k2 = k2
  Orders = {o1}
  SubOrders = {s1, s2}
  OrderOf <- TwoVendors
  CodOrders = {o1}
  Consignments = {k1, k2}
INVARIANTS
  GoodsMove
  ParcelBooks
PROPERTIES
  ForwardOnly
SYMMETRY Symmetry
CHECK_DEADLOCK FALSE
