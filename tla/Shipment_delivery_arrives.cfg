SPECIFICATION FairSpec
CONSTANTS
  o1 = o1
  s1 = s1
  s2 = s2
  k1 = k1
  k2 = k2
  Orders = {o1}
  SubOrders = {s1}
  OrderOf <- OneVendor
  CodOrders = {o1}
  Consignments = {k1}
PROPERTIES
  DeliveryArrives
CHECK_DEADLOCK FALSE
