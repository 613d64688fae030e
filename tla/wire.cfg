SPECIFICATION Spec
CONSTANTS
  Ips <- MCIps
  ItemLists <- MCItemLists
  Payloads <- MCPayloads
  SetupConfigs <- MCSetupConfigs
  MaxPayloads <- MCMaxPayloads
  NoBlock = NoBlock
  NoRequest = NoRequest
INVARIANTS
  TypeOK
  AskedIsQueried
  DaemonFollows
  RestoredFromConfig
  FragmentsTile
