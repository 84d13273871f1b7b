CONSTANTS
  Accounts <- MCAccounts
  Channels <- MCChannels
  WindowDays <- MCWindowDays
  Cutoff <- MCCutoff
  Inputs <- MCInputs
  Threshold <- MCThreshold
  Oracle <- MCOracle
  MaxAlterations = 2
SPECIFICATION AlteredSpec
INVARIANTS
  AcceptedPlanStands
  AcceptedNumbersAgree
  NoDecisionSlips
