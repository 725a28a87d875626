SPECIFICATION FairSpec
CONSTANTS
  Services = {s1}
  Concurrency = 2
  Failures = 2
  Recoveries = 2
  Drivers = {"sqlite", "surreal"}
  MaxChains = 3
  MaxReloads = 2
  MaxRestarts = 1
\* Nothing is scheduled when no service is configured.
CHECK_DEADLOCK FALSE
INVARIANTS MonitorInv OneOpenIncident IncidentTracksStatus
PROPERTIES FlapProtected ServiceChecked
