SPECIFICATION FairSpec
CONSTANTS
  r1 = r1
  r2 = r2
  Requests <- MCRequests
  RoutesOf <- MCRoutesOf
  MaxLibs = 1
INVARIANTS
  OneAnswer
  LogTrue
  UpOnce
PROPERTIES
  ScrapesEnd
CHECK_DEADLOCK FALSE
