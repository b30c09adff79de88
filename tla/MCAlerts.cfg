SPECIFICATION FairSpec
CONSTANTS
  a1 = a1
  a2 = a2
  a3 = a3
  hi = hi
  lo = lo
  u1 = u1
  s1 = s1
  reader = reader
  Alerts = {a1, a3}
  UserOf <- MCUserOf
  SymbolOf <- MCSymbolOf
  Meets <- MCMeets
  Users = {u1}
  Symbols = {s1}
  Prices = {hi, lo}
  MaxActive = 1
  MaxAge = 1
  BatchSize = 1
  StatusTtl = 1
  PassTicks = 0
  QuoteTtl = 0
  Clients = {c1, c2}
  Job = job
  Readers = {reader}
  ReaderUser <- MCReaderUser
  None = None
INVARIANT CreationIsSerialized
PROPERTY TriggersAreSound
PROPERTY AlertFires
