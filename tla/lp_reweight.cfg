SPECIFICATION Spec
CONSTANTS
  u1 = u1
  u2 = u2
  owner = owner
  Users = {u1, u2}
  Owners = {owner}
  InitOwner = owner
  QueueToken = 1
  Tokens = {1, 2}
  InitTokens = {1, 2}
  InitWeight = 1
  InitPeriod = 1
  InitSchedule <- MCInitSchedule
  Funding = 12
  MAX_ORDER_WITHDRAW_PER_TX = 1
  DECIMAL_FRACTIONAL = 4
  MaxTime = 1
  MaxSchedules = 1
  MaxHeld <- MCHeld
  MaxRebonds = 1
  BondAmounts = {2}
  UnbondAmounts = {1}
  GiftAmounts = {}
  Weights = {0}
  Periods = {0}
  Schedules <- MCSchedules
SYMMETRY UserSymmetry
PROPERTIES
  PastIsFixed
CHECK_DEADLOCK FALSE
