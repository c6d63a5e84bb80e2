SPECIFICATION Spec
CONSTANTS
  u1 = u1
  u2 = u2
  owner = owner
  Users = {u1, u2}
  Owners = {owner}
  InitOwner = owner
  QueueToken = 1
  Tokens = {1, 2}
  InitTokens = {1}
  InitWeight = 1
  InitPeriod = 1
  InitSchedule <- MCInitSchedule
  Funding = 12
  MAX_ORDER_WITHDRAW_PER_TX = 1
  DECIMAL_FRACTIONAL = 4
  MaxTime = 2
  MaxSchedules = 2
  MaxHeld <- MCHeld
  MaxRebonds = 3
  BondAmounts = {2}
  UnbondAmounts = {1}
  GiftAmounts = {4}
  Weights = {3}
  Periods = {0}
  Schedules <- MCSchedules
SYMMETRY UserSymmetry
INVARIANTS
  TypeOK
  StakesAccountedFor
  WithinSchedules
PROPERTIES
  ClaimsKept
  ImplementsQueue
CHECK_DEADLOCK FALSE
