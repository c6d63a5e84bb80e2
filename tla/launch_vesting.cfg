SPECIFICATION FairSpec
CONSTANTS
  boost_owner = boost_owner
  Users = {1, 2}
  BoostOwners = {boost_owner}
  HOUR = 1
  MAX_BOOST_PER_HOUR = 16
  InitBoostConfig <- MCBoostConfig
  BoostUpdates = {}
  MaxXprism = 1
  OWNER = OWNER
  OPERATOR = OPERATOR
  InitPoolConfig <- MCPoolConfig
  Funding = 9
  VESTING_PERIOD = 2
  TIME_UNIT = 1
  MAX_UPDATE_VEST_PER_TX = 1
  XPRISM_PRICE = 2
  DECIMAL_FRACTIONAL = 4
  MaxTime = 4
  MaxRefreshes = 2
  BondAmounts = {1}
  UnbondAmounts = {1}
  XprismAmounts = {}
  XprismUnbondAmounts = {1}
  YieldAmounts = {}
  MinBondChoices = {2}
  RatioChoices = {}
  BulkLimit = 1
PROPERTIES
  EveryVestPaid
  BotReachesAll
CHECK_DEADLOCK FALSE
