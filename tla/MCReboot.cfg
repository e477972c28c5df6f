\* Two machines that take turns, and a chain of three reports of one machine.
CONSTANTS
  m1 = m1
  m2 = m2
  c1 = c1
  Machines = {m1, m2}
  MachineId <- TwoIds
  Hostname <- SameHostname
  Controls = {c1}
  LiveOnly = {}
  MaxBoot = 2
  MaxClock = 3
  MaxReports = 3
SPECIFICATION MCSpec
INVARIANT TypeOK
INVARIANT IdentityIsEarliest
 
INVARIANT ComparedAcrossBoots
INVARIANT ComparedWithAPass
CHECK_DEADLOCK FALSE
