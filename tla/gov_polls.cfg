SPECIFICATION FairSpec
CONSTANTS
  u1 = u1
  u2 = u2
  owner = owner
  GOV = GOV
  Users = {u1, u2}
  Owners = {owner}
  InitConfig <- MCPollConfig
  ConfigChoices <- MCPollUpdates
  ExecuteMsgs <- MCMessages
  MAX_ORDER_WITHDRAW_PER_TX = 1
  MAX_POLL_VOTES_PER_USER = 2
  DECIMAL_FRACTIONAL = 32
  MaxTime = 2
  MaxSupply = 5
  MaxPrism = 5
  MaxPolls = 2
  MintAmounts = {4, 5}
  RedeemAmounts = {}
  StakeAmounts = {2}
  WithdrawAmounts = {1}
  DepositAmounts = {1}
  VoteAmounts = {2}
  FeeAmounts = {}
  GiftAmounts = {1}
  BurnAmounts = {}
INVARIANTS
  TypeOK
  IndexerAgrees
  XprismCustody
  VotesBacked
PROPERTIES
  PollLifecycle
  EveryPollDecided
CHECK_DEADLOCK FALSE
