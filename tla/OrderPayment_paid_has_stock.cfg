SPECIFICATION Spec
CONSTANTS
  o1 = o1
  o2 = o2
  o3 = o3
  o4 = o4
  v1 = v1
  v2 = v2
  v3 = v3
  alice = alice
  bob = bob
  carol = carol
  Buyers = {bob}
  Orders <- Single
  Variants <- Shelf
  Buyer <- BobsOrder
  Method <- ByBkash
  Qty <- OneUnit
  Total <- OneTotal
  CouponOrders = {}
  SaleQty <- NoSale
  MaxAttempts = 2
  Stock0 <- LastUnit
  MaxStock = 1
  Credit0 <- NoCredit
  UsageLimit = 1
  PerBuyerLimit = 1
  SaleCap = 1
INVARIANTS
  PaidHasStock
CHECK_DEADLOCK FALSE
