CONSTANTS
  Positions = {0}
  Configs <- ExpiryConfigs
  LastRequest = 3
  MaxToken = 3
SPECIFICATION ExpirySpec
INVARIANT
  NothingOutlivesExpiry
