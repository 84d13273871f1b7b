CONSTANTS
  Original <- MCOriginal
  Others <- MCOthers
  Broken = Broken
  MaxEdits = 2
SPECIFICATION Spec
INVARIANTS
  AcceptedSourcesAgree
PROPERTIES
  PrintedFromSameInputs
