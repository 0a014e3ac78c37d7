CONSTANTS
  v1 = v1
  v2 = v2
  s1 = s1
  s2 = s2
  p1 = p1
  p2 = p2
  f1 = f1
  f2 = f2
  Vendors = {v1, v2}
  SubOrders = {s1, s2}
  VendorOf <- OneEach
  CodOrders = {s2}
  Disputed = {v1}
  Share <- One
  Periods = {p1, p2}
  Finance = {f1, f2}
  MakerChecker = TRUE
  MinAmount = 1
  MaxClicks = 1
SPECIFICATION Spec
CHECK_DEADLOCK FALSE
SYMMETRY Symmetry
INVARIANTS PayoutBooks FourEyes BatchCloses
