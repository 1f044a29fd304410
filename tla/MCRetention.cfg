CONSTANTS
  m1 = m1
  m2 = m2
  m3 = m3
  e1 = e1
  e2 = e2
  Ids = {m1, m2, m3}
  Entities = {e1, e2}
  Owner <- MCOwner
  BatchSize = 1
  MaxDisturbances = 5
SPECIFICATION FairRetentionSpec
PROPERTIES  DueRowsAreTaken
