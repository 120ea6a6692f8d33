SPECIFICATION ScheduledSpec
CONSTANTS
  Reporters = {r1}
  Archivers = {a1}
  Horizons = {1}
  Calls <- WeakCall
  Quotes <- SomeQuotes
  RefPrices = {100}
  FirstDay = 5
  MaxDay = 7
  MaxSnaps = 1
  MaxRuns = 1
  MaxCrashes = 1
  r1 = r1
  a1 = a1
INVARIANTS TypeOK RowsNotTorn NotEarly NoDueLeftOpen LatestIsArchived
PROPERTY DueResolved
