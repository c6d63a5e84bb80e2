SPECIFICATION Spec
CONSTANTS
  u1 = u1
  u2 = u2
  owner = owner
  GOV = GOV
  Users = {u1, u2}
  Owners = {owner}
  InitConfig <- MCXprismConfig
  ConfigChoices <- MCXprismUpdates
  ExecuteMsgs = {}
  MAX_ORDER_WITHDRAW_PER_TX = 1
  MAX_POLL_VOTES_PER_USER = 1
  DECIMAL_FRACTIONAL = 32
  MaxTime = 4
  MaxSupply = 6
  MaxPrism = 7
  MaxPolls = 0
  MintAmounts = {3}
  RedeemAmounts = {1, 2}
  StakeAmounts = {}
  WithdrawAmounts = {}
  DepositAmounts = {}
  VoteAmounts = {}
  FeeAmounts = {2}
  GiftAmounts = {}
  BurnAmounts = {1}
SYMMETRY UserSymmetry
INVARIANTS
  PrismCustody
  OrdersWorthClaiming
PROPERTIES
  RateNeverFalls
  ImplementsQueue
CHECK_DEADLOCK FALSE
