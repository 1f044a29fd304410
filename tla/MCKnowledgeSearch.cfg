CONSTANTS
  ann = ann
  bob = bob
  anna = anna
  person = person
  place = place
  knows = knows
  manages = manages
  Adders = {a1, a2}
  Kin <- MCKin
  Extractions <- MCExtractions
  Nobody = nobody
  MaxIds = 4
  MaxMemories = 2
  Vertices <- MCVertices
  Links <- MCLinks
  Shapes <- MCShapes
  Asked <- MCAsked
  MaxDepth = 2
  MaxResults = 4
  MaxChanges = 1
  MaxMissed = 1
  Ids <- MCIds
  Points <- MCPoints
  Metric <- MCMetric
  VectorsOf <- MCVectorsOf
  Nil = nil
  M = 1                \* 16 in the program: here links are pruned from the third on
  EfConstruction = 5
  EfSearch = 4
  Levels = {0, 1}
  Tables <- MCTables
  MaxRemoved = 1
  MaxRestarts = 1
SPECIFICATION KnowledgeSearchSpec
INVARIANTS
  RowsAreUnique
  EndsExist
  SearchesAreTrue
  SearchIsExact
  AnswersWhileThereAreVectors
PROPERTIES
  StrengthOnlyGrows
  RestartKeepsTheVectors
CHECK_DEADLOCK FALSE
