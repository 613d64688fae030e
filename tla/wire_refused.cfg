SPECIFICATION Spec
CONSTANTS
  Ips <- MCIps
  ItemLists <- MCItemLists
  Payloads <- MCPayloads
  SetupConfigs <- MCSetupConfigs
  MaxPayloads <- MCMaxPayloads
  NoBlock = NoBlock
  NoRequest = NoRequest
INVARIANT AckedIsAccepted
