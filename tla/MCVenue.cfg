SPECIFICATION VenueSpec
CONSTANTS
  Orders = {o1}
  MarketOrders = {}
  Qty = 2
  Chunk = 1
  Listeners = {l1}
  MaxCalls = 3
  MaxFaults = 1
  MaxTicks = 2
  MaxBehind = 1
  MaxMutes = 1
  StartingCash = 3
  Amounts = {1, 2}
  MaxTransfers = 2
  o1 = o1
  l1 = l1
INVARIANT NeverOverfilled
INVARIANT NoGapAfterCursor
INVARIANT CashIsWhatSettled
CHECK_DEADLOCK FALSE
