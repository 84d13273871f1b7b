CONSTANTS
  golden1 = golden1
  golden2 = golden2
  Versions <- MCTwoVersions
  Publishable <- MCTwoPublishable
  Original = "v1"
  EvidenceFiles <- MCEvidenceFiles
  SchemaFiles <- MCSchemaFiles
  NameOrder <- MCNameOrder
  Manifest = "bundle_manifest"
  Stray = "notes"
  StrayContent = "something"
  Content <- MCContent
  BundleId <- MCBundleId
  Absent = Absent
  Torn = Torn
  Mixed = Mixed
  Publishers <- MCTwoPublishers
  MaxEdits = 2
SPECIFICATION GoldenSpec
SYMMETRY PublisherSymmetry
INVARIANTS
  PublishedIsWhole
