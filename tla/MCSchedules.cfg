CONSTANTS
  Ids = {1, 2, 3}
  Old = {1}
  Callers = {c1, c2}
  First <- CivilFirst
  Months = 1
  Slots = 1
  Tags <- CronTags
  Contents <- OneText
  NoTag = NoTag
  ScanLimit = 2
  ReportLimit = 2
  PageLimit = 2
  MaxTime = 2
  MaxRequests = 2
  MaxFails = 2
SPECIFICATION SchedulesSpec
INVARIANTS
  DuplicateSchedulesNeedAnOverlap
  OnlyRequestsEndARecurringSchedule
PROPERTIES
  OccurrencesAreReportedOnce
SYMMETRY Perms
