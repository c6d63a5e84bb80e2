SPECIFICATION Spec
CONSTANTS
  boost_owner = boost_owner
  Users = {1, 2}
  BoostOwners = {boost_owner}
  HOUR = 1
  MAX_BOOST_PER_HOUR = 16
  InitBoostConfig <- MCBoostConfig
  BoostUpdates <- MCBoostUpdates
  MaxXprism = 1
  OWNER = OWNER
  OPERATOR = OPERATOR
  InitPoolConfig <- MCPoolConfig
  Funding = 9
  VESTING_PERIOD = 4
  TIME_UNIT = 4
  MAX_UPDATE_VEST_PER_TX = 1
  XPRISM_PRICE = 2
  DECIMAL_FRACTIONAL = 4
  MaxTime = 2
  MaxRefreshes = 3
  BondAmounts = {1}
  UnbondAmounts = {}
  XprismAmounts = {1}
  XprismUnbondAmounts = {1}
  YieldAmounts = {1}
  MinBondChoices = {}
  RatioChoices = {4, 17}
  BulkLimit = 0
INVARIANTS
  TypeOK
  WeightsAddUp
  NoWeightWithoutAmps
  RunningPoolComputes
  WithinSchedule
PROPERTIES
  NothingLost
CHECK_DEADLOCK FALSE
