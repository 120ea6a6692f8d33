SPECIFICATION ScheduledSpec
CONSTANTS
  Reporters = {r1}
  Archivers = {a1}
  Horizons = {1}
  Calls <- OneCall
  Quotes <- SomeQuotes
  RefPrices = {100}
  FirstDay = 0
  MaxDay = 1
  MaxSnaps = 1
  MaxRuns = 1
  MaxCrashes = 1
  r1 = r1
  a1 = a1
PROPERTY LastDayReported
