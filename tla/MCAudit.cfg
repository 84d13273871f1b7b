CONSTANTS
  Accounts <- MCAccounts
  Channels <- MCChannels
  WindowDays <- MCWindowDays
  Cutoff <- MCCutoff
  Inputs <- MCInputs
  Threshold <- MCThreshold
  Oracle <- MCOracle
SPECIFICATION DemoSpec
INVARIANTS
  PlanFollowsCoverage
  RestatementLowersOnly
  PublishedIsolatesDenominator
  MetadataControlIsSemantic
  BarrierAgreesWithStages
  OnlyWritingUndisplayable
  DisplayTellsEvidence
  HeadlineHolds
