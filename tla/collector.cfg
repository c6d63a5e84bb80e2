SPECIFICATION Spec
CONSTANTS
  uusd = uusd
  prism = prism
  yluna = yluna
  SELF = SELF
  Assets = {uusd, prism, yluna, anc}
  Natives = {uusd}
  base_denom = uusd
  prism_token = prism
  distribution_contract = gov
  Receivers = {user, SELF}
  PrismswapPairs <- MCPairs
  AstroportAssets = {anc}
  MaxBalance = 1
  MaxLength = 2
  Amounts = {0, 1}
  Outputs = {1, 2}
  SwapFees = {0, 1}
  DestAssets = {uusd, prism, yluna}
INVARIANTS
  ConvertKeepsOwn
  DistributeSendsAll
CHECK_DEADLOCK FALSE
