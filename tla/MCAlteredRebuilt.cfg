CONSTANTS
  Accounts <- MCAccounts
  Channels <- MCChannels
  WindowDays <- MCWindowDays
  Cutoff <- MCCutoff
  Inputs <- MCInputs
  Threshold <- MCThreshold
  Oracle <- MCOracle
  MaxAlterations = 1
SPECIFICATION AlteredSpec
INVARIANTS
  PublishedComparisonsRebuilt
