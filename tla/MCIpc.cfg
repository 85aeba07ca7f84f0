CONSTANTS
  Daemon = {d1, d2, d3}
  Client = {app, cli}
  Desktop = {app}
  Large = {cli}
  Absent = Absent
  Placeholder = Placeholder
  Probe = Probe
  NoDaemon = NoDaemon
  Attempts = 2
  MaxDeaths = 1
SPECIFICATION Spec
INVARIANTS
  SecondStartupFails
  StartupsLeaveOneReachable
  ExecutedAtMostOnce
  IpcInv
PROPERTIES
  EveryRequestEnds
