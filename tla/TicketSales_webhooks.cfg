SPECIFICATION Spec
CONSTANTS
  p1 = p1  p2 = p2  p3 = p3  h1 = h1  h2 = h2  k1 = k1  k2 = k2
  Purchases = {p1, p2}
  Legacy = {p1}
  Direct = {}
  Hooks = {h1, h2}
  Calls = {k1, k2}
  Call <- MCCall
  Confirms = {c1}
  MerchantOrders = {}
  Sweeps = {s1, s2}
  Edits = {}
  Actions = {"processed"}
  Qty <- MCQty
  Total = 2
  NewTotals = {}
  MaxPerUser = 2
  NotNull = FALSE
  Resolves = TRUE
  NoOne = NoOne
INVARIANTS RowLockHeld PaidBeforeIssued NothingLeaked
CHECK_DEADLOCK FALSE
SYMMETRY Interchangeable
