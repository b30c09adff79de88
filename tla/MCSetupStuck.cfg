SPECIFICATION FairAccountSpec
CONSTANTS
  open1 = open1
  open2 = open2
  reset1 = reset1
  reset2 = reset2
  poll = poll
  sweep = sweep
  o1 = o1
  o2 = o2
  Openings = {open1}
  Resets = {}
  Polls = {poll}
  Sweeps = {sweep}
  Orders = {}
  MaxAccounts = 2
  MaxFaults = 1
PROPERTY SetupEnds
CHECK_DEADLOCK FALSE
