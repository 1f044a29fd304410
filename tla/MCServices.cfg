CONSTANTS
  Parts = {"jobs", "watcher", "life", "stream", "budget", "agent", "schedule"}
  Jobs = {decay, consolidation}
  Scheduled = {decay, consolidation}
  MaxRuns = 2
  Entities = {e1, e2}
  Nobody = nobody
  BaseInterval = 2
  MinInterval = 1
  MaxInterval = 3
  Paces = {1, 6}
  Densities = {"few", "many"}
  RecentFor = 1
  SuspendAfter = 2
  MaxCooloff = 2
  Timeout = 1
  Cooldown = 1
  StaleImmediate = 1
  MaxEvents = 3
  Watchable = {e1}
  Teams = {t1}
  Handlers = {k1, k2}
  NoWatcher = noWatcher
  NoTeam = noTeam
  MaxWatchers = 2
  MaxRequests = 3
  Clients = {x1, x2}
  Capacity = 1
  MaxEmitted = 2
  Callers = {c1, c2}
  Kinds <- MCKinds
  MaxTokensPerMinute = 6
  WindowSize = 2
  Hour = 3
  MaxNow = 3
  MaxCalls = 3
  Updaters = {u1, u2}
  Values = {empty, s1, s2}
  Empty = empty
  Unregistered = unregistered
  MaxUpdates = 3
  First <- CivilFirst
  Months = 17
  Slots = 2
  Tags <- CronTags
  MaxDelay = 3
SPECIFICATION ServicesSpec
INVARIANTS
  OneRunPerType
  GracefulStopIsQuiet
  DueFromTheNamedInstantOn
  DeadlinesAreTriedInTime
  OneLoopUnlessStartsOverlap
  QuietAfterStop
  NoSendToTheGone
  LogTellsTheState
PROPERTIES
  ScheduledJobsKeepRunning
  DeliveriesResume
  ObeysTheBreaker
  ImplementsTheFeed
  ImplementsTheLimit
CHECK_DEADLOCK FALSE
