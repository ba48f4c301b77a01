SPECIFICATION FairSpec
CONSTANTS
  Jobs = {j1, j2}
  CreateMonths = 2
  RetainMonths = 1
  SchemaMonths = 2
  LastNow = 3
  LastMonth = 5
INVARIANTS TypeOK Runway
PROPERTIES RetentionKeeps ExpiredDropped
