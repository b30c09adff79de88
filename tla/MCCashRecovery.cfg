SPECIFICATION CashSpec
CONSTANTS
  t1 = t1
  t2 = t2
  b1 = b1
  x1 = x1
  m1 = m1
  Orders = {}
  BuyOrders = {}
  Instruments = {m1}
  InstrumentOf <- MCInstrumentOf
  Qty <- MCQty
  MarketOrders = {}
  Price <- MCPrice
  MarketBuyBuffer = 0
  Executions = {}
  OrderOf <- MCOrderOf
  FillPrice <- MCFillPrice
  Fee = 0
  Envelopes = {v1}
  OpeningCash = 4
  OpeningLots <- MCOpeningLots
  TransferSizes = {1, 2}
  CashBound = 20
  Transfers = {t1, t2}
  Withdrawals = {t1, t2}
  Amount <- MCAmount
  MinAmount = 1
  MaxPerTransfer = 5
  DailyDepositCap = 8
  DepositWindow = 0
  RecoveryWindow = 1
  Grace = 2
  CallTicks = 1
  PassTicks = 1
  Syncs = {worker}
  None = None
  LastRequest = 0
  Resets = FALSE
  Unreadable = TRUE
  MaxLosses = 2
INVARIANT RowsAndBookAgree
INVARIANT SpendableWithinVenueCash
INVARIANT SettledByItsOwnTransfer
CHECK_DEADLOCK FALSE
