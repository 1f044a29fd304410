CONSTANTS
  Ids = {1, 2}
  Old = {1}
  Callers = {c1}
  First <- CivilFirst
  Months = 1
  Slots = 1
  Tags <- CronTags
  Contents <- OneText
  NoTag = NoTag
  ScanLimit = 2
  ReportLimit = 1
  PageLimit = 2
  MaxTime = 1
  MaxRequests = 2
  MaxFails = 0
SPECIFICATION SchedulesSpec
PROPERTY
  OneShotsWaitForAcknowledgement
