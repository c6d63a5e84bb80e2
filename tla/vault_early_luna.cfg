SPECIFICATION Spec
CONSTANTS
  u1 = u1
  u2 = u2
  admin = admin
  Users = {u1, u2}
  Admins = {admin}
  Validators = {1}
  InitOwner = admin
  InitValidator = 1
  InitParams <- MCParams
  ParamChoices = {}
  InitialBond = 4
  MAX_VALIDATORS = 2
  READ_LIMIT = 1
  ChainUnbonding = 0
  StartTime = 0
  DECIMAL_FRACTIONAL = 32
  MaxTime = 4
  MaxSupply = 12
  MaxLuna = 0
  MaxBatches = 2
  MaxRequested = 8
  BondAmounts = {8}
  SplitBondAmounts = {}
  RefractAmounts = {}
  UnbondAmounts = {4}
  RogueAmounts = {}
  SlashAmounts = {}
  UnbondingSlashAmounts = {}
  HolderBurns = {}
INVARIANTS
  EarlyLunaKept
CHECK_DEADLOCK FALSE
