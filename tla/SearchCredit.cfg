SPECIFICATION CreditSpec
CONSTANTS
  Actions <- MCActions
  Passages <- MCPassages
  PromptLength = 1
  ResponseLength = 19
  MaxSearchTurns = 2
  MaxNewTokens = 5
  MaxInformation = 3
  Localized <- MCLocalized
  Modes <- MCModes
  Gains <- MCGains
  PeerGains <- MCPeerGains
  Outcomes <- MCOutcomes
  Probes <- MCProbes
  ProbeLength = 2
  ModelLength = 22
CHECK_DEADLOCK FALSE
INVARIANTS
  CreditIsNeverRefused
  CreditIsEarned
  GatesKeepToTheirRole
