\* harden from an audit, a report or a plan file, with and without --reboot.
CONSTANTS
  m1 = m1
  c1 = c1
  c2 = c2
  Machines = {m1}
  MachineId <- OneMachineId
  Hostname <- OneHostname
  Controls = {c1, c2}
  LiveOnly = {c2}
  Fixable = {c1, c2}
  Automated = {c1}
  Options <- Everything
  MaxBoot = 2
  MaxClock = 2
  MaxReports = 1
SPECIFICATION LoopSpec
INVARIANT ZeroIsDurable
 
CHECK_DEADLOCK FALSE
