SPECIFICATION DashboardSpec
CONSTANTS
  open1 = open1
  open2 = open2
  reset1 = reset1
  reset2 = reset2
  poll = poll
  sweep = sweep
  o1 = o1
  o2 = o2
  Openings = {open1}
  Resets = {reset1}
  Polls = {poll}
  Sweeps = {sweep}
  Orders = {o1}
  MaxAccounts = 2
  MaxFaults = 1
  Symbols = {s1}
  MaxClicks = 3
  MaxOutages = 1
  MaxProgress = 3
  MaxActs = 2
  MaxLosses = 1
INVARIANT OneFundedCurrentAccount
INVARIANT ArchiveWaitsForOrders
PROPERTY LinkedAccountActivates
INVARIANT PagesAgree
PROPERTY PagesSettle
CHECK_DEADLOCK FALSE
