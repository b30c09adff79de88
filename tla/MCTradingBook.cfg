SPECIFICATION Spec
CONSTANTS
  b1 = b1
  b2 = b2
  s1 = s1
  x1 = x1
  x2 = x2
  y1 = y1
  z1 = z1
  m1 = m1
  v1 = v1
  v2 = v2
  v3 = v3
  v4 = v4
  Orders = {b1, b2, s1}
  BuyOrders = {b1, b2}
  Instruments = {m1}
  InstrumentOf <- MCInstrumentOf
  Qty <- MCQty
  MarketOrders = {b2}
  Price <- MCPrice
  MarketBuyBuffer = 250
  Executions = {x1, x2, y1, z1}
  OrderOf <- MCOrderOf
  FillPrice <- MCFillPrice
  Fee = 0
  Envelopes = {v1, v2, v3, v4}
  OpeningCash = 5
  OpeningLots <- MCOpeningLots
  TransferSizes = {1}
  CashBound = 5
SYMMETRY AnyEnvelope
INVARIANT FillsAddUp
INVARIANT ReservationsDerived
INVARIANT OpenOrdersAreCovered
PROPERTY OnlyForward
PROPERTY ImplementsLedger
CHECK_DEADLOCK FALSE
