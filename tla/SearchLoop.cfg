SPECIFICATION Spec
CONSTANTS
  Actions <- MCActions
  Passages <- MCPassages
  PromptLength = 1
  ResponseLength = 19
  MaxSearchTurns = 2
  MaxNewTokens = 8
  MaxInformation = 3
  Localized <- MCLocalized
CHECK_DEADLOCK FALSE
INVARIANTS
  TypeOK
  OtherRecordsValidate
  EndIsExplained
  CreditIsTheModels
  NoveltyMatchesHistory
  AbortsOnlyOnNesting
