CONSTANTS
  Daemon = {d1, d2}
  Client = {app, cli}
  Desktop = {app}
  Large = {cli}
  Absent = Absent
  Placeholder = Placeholder
  Probe = Probe
  NoDaemon = NoDaemon
  Attempts = 2
  MaxDeaths = 0
SPECIFICATION Spec
PROPERTIES
  RunningDaemonKeepsPath
