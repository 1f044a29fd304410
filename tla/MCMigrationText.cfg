CONSTANTS
  c1 = c1
  c2 = c2
  Added <- MCAdded
  OldRows = {o1}
  NewRows = {n1}
  Texts = {t1}
  Failing = {}
SPECIFICATION MigrationSpec
PROPERTIES TextIndexStaysInSync
