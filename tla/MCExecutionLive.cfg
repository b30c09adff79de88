SPECIFICATION FairSpec
CONSTANTS
  b1 = b1
  b2 = b2
  x1 = x1
  x2 = x2
  m1 = m1
  Orders = {b1}
  BuyOrders = {b1}
  Instruments = {m1}
  InstrumentOf <- MCInstrumentOf
  Qty <- MCQty
  MarketOrders = {}
  Price <- MCPrice
  MarketBuyBuffer = 0
  Executions = {x1}
  OrderOf <- MCOrderOf
  FillPrice <- MCFillPrice
  Fee = 0
  Envelopes <- MCEnvelopes
  OpeningCash = 4
  OpeningLots <- MCOpeningLots
  TransferSizes = {1}
  CashBound = 6
  WorkerPass = worker
  ApiPass = api
  Passes = {worker}
  Null <- MCNull
  InitialCursor = 0
  FirstStatuses = {"new"}
  ExpiryStatuses = {"done_for_day"}
  ListLimit = 100
  MaxFaults = 3
PROPERTY EveryExecutionBooked
PROPERTY IntentsReachVenue
PROPERTY OrderSettles
PROPERTY ImplementsBook
CHECK_DEADLOCK FALSE
