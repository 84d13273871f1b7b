CONSTANTS
  Accounts <- MCAccounts
  Channels <- MCChannels
  WindowDays <- MCWindowDays
  Cutoff <- MCCutoff
  Inputs <- MCInputs
SPECIFICATION Spec
INVARIANTS
  SameClausesSameResults
  HorizonMatchesResults
PROPERTIES
  ImplementsMetric
