CONSTANTS
  m1 = m1
  m2 = m2
  m3 = m3
  Ids = {m1, m2, m3}
  w1 = w1
  w2 = w2
  w3 = w3
  w4 = w4
  Words = {w1, w2, w3, w4}
  Contents <- MCContents
  NoId = NoId
  MaxMergeSize = 3
  MaxRequests = 5
  c1 = c1
  c2 = c2
  c3 = c3
  Added <- MCAdded
  OldRows = {o1}
  NewRows = {n1, n2}
  Texts = {t1, t2}
  Failing = {"create", "alter", "trigger", "rebuild"}
SPECIFICATION StorageSpec
SYMMETRY IdSymmetry
INVARIANTS DeletedAreNoCandidates UnindexedWereDropped WordsAreKept MigrationLosesNothing
