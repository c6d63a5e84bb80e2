SPECIFICATION Spec
CONSTANTS
  u1 = u1
  u2 = u2
  admin = admin
  other = other
  Users = {u1}
  Admins = {admin, other}
  Validators = {1, 2}
  InitOwner = admin
  InitValidator = 1
  InitParams <- MCParams
  ParamChoices <- MCParamChoices
  InitialBond = 2
  MAX_VALIDATORS = 2
  READ_LIMIT = 1
  ChainUnbonding = 1
  StartTime = 0
  DECIMAL_FRACTIONAL = 32
  MaxTime = 0
  MaxSupply = 4
  MaxLuna = 1
  MaxBatches = 0
  MaxRequested = 8
  BondAmounts = {2}
  SplitBondAmounts = {2}
  RefractAmounts = {2}
  UnbondAmounts = {}
  RogueAmounts = {1}
  SlashAmounts = {3}
  UnbondingSlashAmounts = {}
  HolderBurns = {2}
INVARIANTS
  TypeOK
  RefractBacked
  DelegatedToWhitelisted
CHECK_DEADLOCK FALSE
