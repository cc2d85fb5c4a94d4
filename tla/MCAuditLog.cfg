SPECIFICATION FairSpec
CONSTANTS
  w1 = w1
  w2 = w2
  q1 = q1
  Worker <- TwoWorkers
  Reader <- OneReader
  MaxAttempts = 2
  MaxStalls = 1
  PageSize = 1
  MaxEvents = 2
  MaxFailures = 1
INVARIANTS TypeOK DuplicatesAreExplained ReferencesExist PagesAreExact
PROPERTIES EventsAreLogged
CHECK_DEADLOCK FALSE
