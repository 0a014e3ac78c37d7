SPECIFICATION CartsSpec
CONSTANTS
  Carts <- TwoCarts
  o1 = o1
  o2 = o2
  o3 = o3
  o4 = o4
  v1 = v1
  v2 = v2
  v3 = v3
  alice = alice
  bob = bob
  carol = carol
  Buyers = {alice, bob, carol}
  Orders = {o1, o2, o3, o4}
  Variants = {v1, v2, v3}
  Buyer <- CartBuyer
  Method <- CartMethod
  Qty <- CartQty
  Total <- CartTotal
  CouponOrders = {o1, o3}
  SaleQty <- CartSale
  MaxAttempts = 3
  Stock0 <- CartStock
  MaxStock = 2
  Credit0 <- CartCredit
  UsageLimit = 1
  PerBuyerLimit = 1
  SaleCap = 1
INVARIANTS
  OnePaidAttempt
  PaidIsCaptured
  ConfirmedIsPaid
  Books
PROPERTIES
  Finality
  KeepsPromise
CHECK_DEADLOCK FALSE
