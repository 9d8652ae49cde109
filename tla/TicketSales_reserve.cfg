SPECIFICATION Spec
CONSTANTS
  p1 = p1  p2 = p2  p3 = p3  h1 = h1  h2 = h2  k1 = k1  k2 = k2
  Purchases = {p1, p2, p3, p4}
  Legacy = {p1}
  Direct = {p3}
  Hooks = {}
  Calls = {}
  Call <- MCCall
  Confirms = {}
  MerchantOrders = {}
  Sweeps = {s1}
  Edits = {}
  Actions = {}
  Qty <- MCQty
  Total = 5
  NewTotals = {}
  MaxPerUser = 2
  NotNull = FALSE
  Resolves = FALSE
  NoOne = NoOne
INVARIANT ReservationsExact
PROPERTY NeverReopened
CHECK_DEADLOCK FALSE
