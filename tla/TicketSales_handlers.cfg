SPECIFICATION FairSpec
CONSTANTS
  p1 = p1  p2 = p2  p3 = p3  h1 = h1  h2 = h2  k1 = k1  k2 = k2
  Purchases = {p1, p2}
  Legacy = {p1}
  Direct = {}
  Hooks = {h1}
  Calls = {k1}
  Call <- MCCall
  Confirms = {c1}
  MerchantOrders = {c1}
  Sweeps = {s1}
  Edits = {e1}
  Actions = {"refunded", "failed"}
  Qty <- MCQty
  Total = 3
  NewTotals = {0}
  MaxPerUser = 2
  NotNull = TRUE
  Resolves = TRUE
  NoOne = NoOne
INVARIANTS TypeOK TicketsKeepPurchase RefundKills
PROPERTY HandlersFinish
CHECK_DEADLOCK FALSE
