CONSTANTS
  Versions <- MCVersions
  Publishable <- MCPublishable
  Original = "v1"
  EvidenceFiles <- MCEvidenceFiles
  SchemaFiles <- MCSchemaFiles
  NameOrder <- MCNameOrder
  Manifest = "bundle_manifest"
  Stray = "notes"
  StrayContent = "something"
  Content <- MCContent
  BundleId <- MCBundleId
  Absent = Absent
  Torn = Torn
  Mixed = Mixed
  Publishers = {golden}
  MaxEdits = 1
SPECIFICATION Spec
PROPERTIES
  CommandsEnd
