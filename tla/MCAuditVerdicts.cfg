CONSTANTS
  Accounts <- MCAccounts
  Channels <- MCChannels
  WindowDays <- MCWindowDays
  Cutoff <- MCCutoff
  Inputs <- MCInputs
  Threshold <- MCThreshold
  Oracle <- MCOracle
SPECIFICATION DemoSpec
INVARIANTS
  NoContradictoryVerdicts
