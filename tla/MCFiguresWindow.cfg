SPECIFICATION FiguresSpec
CONSTANTS
  Screens = {"portfolio"}
  s1 = s1
  s2 = s2
  r1 = r1
  r2 = r2
  v1 = v1
  v2 = v2
  Symbols <- MCSymbols
  Orders <- TwoSymbols
  Prices <- OnePrice
  Fee = 1
  Opening = 800
  Flows <- NoFlows
  Bar = 1
  Lookback = 2
  BarChoices <- Gaps
  Quote <- MCQuote
  Kinds = {"history"}
  MaxTime = 4
  Runners = {r1}
  Filers <- MCFilers
  Filings <- MCFilings
  QuoteSets <- MCQuotes
  Eligible = {1, 2, 3, 4, 5, 6}
  Overrides <- MCOverrides
  Vehicles = {4}
  Size = 3
  Lead = 2
  Keep = 2
  Batch = 3
  Page = 2
  Seed <- MCSeed
  MaxSnapshots = 2
  Views = {v1, v2}
  Earned <- MCEarned
  FirstFiled = 6
  Ttl = 1
  PerTick = 1
  MaxClock = 3
  q1 = q1
  q2 = q2
  w1 = w1
  w2 = w2
  Pages = {q1}
  Lists = {q2}
  Servers = {w1, w2}
  Server <- MCServer
  Listing = {s1}
  QuoteOpen = 1
  QuoteClosed = 2
  StatusTtl = 1
  MaxTick = 3
INVARIANT TypeOK
INVARIANT ReplayAgrees
INVARIANT PointsAreTrue
CHECK_DEADLOCK FALSE
