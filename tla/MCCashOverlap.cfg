SPECIFICATION CashSpec
CONSTANTS
  t1 = t1
  t2 = t2
  b1 = b1
  x1 = x1
  m1 = m1
  Orders = {}
  BuyOrders = {}
  Instruments = {m1}
  InstrumentOf <- MCInstrumentOf
  Qty <- MCQty
  MarketOrders = {}
  Price <- MCPrice
  MarketBuyBuffer = 0
  Executions = {}
  OrderOf <- MCOrderOf
  FillPrice <- MCFillPrice
  Fee = 0
  Envelopes = {v1}
  OpeningCash = 4
  OpeningLots <- MCOpeningLots
  TransferSizes = {1, 2}
  CashBound = 20
  Transfers = {t1, t2}
  Withdrawals = {t1}
  Amount <- MCAmount
  MinAmount = 1
  MaxPerTransfer = 5
  DailyDepositCap = 5
  DepositWindow = 0
  RecoveryWindow = 0
  Grace = 1
  CallTicks = 0
  PassTicks = 1
  Syncs = {worker, api}
  None = None
  LastRequest = 1
  Resets = FALSE
  Unreadable = FALSE
  MaxLosses = 0
INVARIANT CashTypeOK
INVARIANT SpendableWithinVenueCash
INVARIANT DepositCapHolds
CHECK_DEADLOCK FALSE
