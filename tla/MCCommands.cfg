\* Sessions of up to three commands, between which the host changes and reboots.
CONSTANTS
  Profiles <- ThreeProfiles
  Controls <- ThreeControls
  Sessions <- SomeSessions
  Machines <- SomeMachines
  States <- SomeStates
  Files = {"a", "b", "c"}
  Grades = {1, 2}
  MaxDrift = 2
SPECIFICATION Spec
INVARIANT FilesBeforeExit
INVARIANT SameControlsCompared
INVARIANT GateHolds
 
CHECK_DEADLOCK FALSE
