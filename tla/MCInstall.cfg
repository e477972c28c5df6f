\* install-cinc and the bootstrap of a scan, on targets of every kind.
CONSTANTS
  Hosts <- SomeHosts
  Commands <- SomeCommands
  MaxChanges = 2
SPECIFICATION Spec
INVARIANT InstalledAsShown
INVARIANT ZeroMeansThere
CHECK_DEADLOCK FALSE
