CONSTANTS
  plan = plan
  event = event
  rewording = rewording
  c1 = c1
  c2 = c2
  Ids = {1, 2, 3}
  Calls = {c1, c2}
  Facts = {plan, event, rewording}
  Sim <- MCSim
  Plans <- MCPlans
  Completions <- MCCompletions
  NoFact = NoFact
  NoId = NoId
  MaxOps = 6
  Queriers = {q1, q2}
  Recalled = {1, 2}
  TextOf <- MCTextOf
  Subjects <- MCSubjects
  MostResults = 2
  Growths = {1}
  MaxQueries = 3
  Searchers = {s1}
  Items = {1, 2}
  Nearness <- MCNearness
  Worth <- MCWorth
  Evictors = {"retriever", "job"}
  CacheSize = 1
  MaxIndexed = 1
  BatchLimit = 2
  MostFound = 2
  MaxSearches = 1
  MaxAgings = 1
SPECIFICATION RememberRecallSpec
SYMMETRY MCCalls
INVARIANTS DuplicatesNeedAnOverlap ToldIsKept ReinforcementSticks CacheFollowsTheIndex
PROPERTY OnlyHeldRowsComeBack
CHECK_DEADLOCK FALSE
