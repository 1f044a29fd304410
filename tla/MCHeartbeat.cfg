CONSTANTS
  plan = plan
  deadline = deadline
  conflict = conflict
  Signals = {plan, deadline}
  Kind <- WorkAndDeadline
  NoPrint = NoPrint
  CooldownNormal = 1
  CooldownElevated = 1
  StaleImmediate = 1
  Checkers = {c1, c2}
  Thresholds = {3, 8}
  Periods = {"morning", "evening"}
  Rhythms = {TRUE, FALSE}
  Penalties = {2}
  PluginTalks = {FALSE}
  UserSpeaks = TRUE
  TopicWindow = 1
  SurfaceFor = 1
  NudgeAfter = 1
  NudgeMax = 1
  NudgesPerDay = 1
  Day = 2
  Forever = 2
  MaxEvents = 2
SPECIFICATION FairHeartbeatSpec
INVARIANTS
  NudgesStayUnderTheCap
PROPERTIES
  CooldownsHold
  WorkIsNotRaisedTwice
  DeadlinesGetThrough
