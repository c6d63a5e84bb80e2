SPECIFICATION Spec
CONSTANTS
  u1 = u1
  owner = owner
  YLUNA = YLUNA
  PLUNA = PLUNA
  CLUNA = CLUNA
  PRISM = PRISM
  XPRISM = XPRISM
  Users = {u1}
  Owners = {owner}
  InitOwner = owner
  Assets = {YLUNA, PLUNA, CLUNA, PRISM, XPRISM}
  InitFee <- HalfFee
  FeeChoices <- MCFees
  DECIMAL_FRACTIONAL = 4
  MaxRebonds = 1
  MaxIndex = 16
  MaxListings = 1
  MaxVaultBond = 8
  InitVaultBond = 4
  BondAmounts = {1, 2}
  UnbondAmounts = {1}
  DepositAmounts = {4}
  LunaAmounts = {4}
  VaultBonds = {5}
  MintAmounts = {4}
  Listable = {PRISM}
  Depositable = {PRISM}
  ClaimAssets = {XPRISM, PLUNA}
PROPERTIES
  ClearedIsPaid
CHECK_DEADLOCK FALSE
