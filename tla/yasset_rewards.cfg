SPECIFICATION Spec
CONSTANTS
  u1 = u1
  u2 = u2
  owner = owner
  YLUNA = YLUNA
  PLUNA = PLUNA
  CLUNA = CLUNA
  PRISM = PRISM
  XPRISM = XPRISM
  Users = {u1, u2}
  Owners = {owner}
  InitOwner = owner
  Assets = {YLUNA, PLUNA, CLUNA, PRISM, XPRISM}
  InitFee <- HalfFee
  FeeChoices <- MCFees
  DECIMAL_FRACTIONAL = 4
  MaxRebonds = 3
  MaxIndex = 16
  MaxListings = 1
  MaxVaultBond = 8
  InitVaultBond = 4
  BondAmounts = {1, 2}
  UnbondAmounts = {1}
  DepositAmounts = {4}
  LunaAmounts = {4}
  VaultBonds = {5}
  MintAmounts = {5}
  Listable = {PRISM}
  Depositable = {PRISM}
  ClaimAssets = {XPRISM, PLUNA}
SYMMETRY UserSymmetry
INVARIANTS
  TypeOK
  RewardsCovered
PROPERTIES
  BondingEarnsNothing
  ClearedLeaves
CHECK_DEADLOCK FALSE
