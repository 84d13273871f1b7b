CONSTANTS
  Accounts <- MCAccounts
  Channels <- MCChannels
  WindowDays <- MCWindowDays
  Cutoff <- MCCutoff
  Inputs <- MCInputs
SPECIFICATION Spec
INVARIANTS
  TypeOK
  NoLookAhead
  DenominatorChangeOnly
  EveryAccountAccountedFor
PROPERTIES
  ImplementsMetric
