SPECIFICATION AccountSpec
CONSTANTS
  open1 = open1
  open2 = open2
  reset1 = reset1
  reset2 = reset2
  poll = poll
  sweep = sweep
  o1 = o1
  o2 = o2
  Openings = {open1, open2}
  Resets = {reset1}
  Polls = {poll}
  Sweeps = {sweep}
  Orders = {o1}
  MaxAccounts = 2
  MaxFaults = 1
SYMMETRY Symmetry
INVARIANT AccountsTypeOK
INVARIANT OneFundedCurrentAccount
INVARIANT ArchiveWaitsForOrders
CHECK_DEADLOCK FALSE
