CONSTANTS
  ClassOrder <- MCClassOrder
  ClauseOrder <- MCClauseOrder
  Originals <- MCOriginals
  MaxEdits = 3
SPECIFICATION Spec
INVARIANTS
  IdentityIsMeaning
  DiffExplainsIdentity
  OnlyDenominatorAttributed
