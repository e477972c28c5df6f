\* A scan and a converge with their progress, on a terminal that is resized and off it.
CONSTANTS
  Widths = {4, 6, 9}
  MinWidth = 5
  MaxBuffer = 5
  KeepBuffer = 3
  Commands <- Explored
SPECIFICATION FairSpec
INVARIANT TypeOK
INVARIANT ScreenRestored
INVARIANT CountsAreRight
INVARIANT ReturnedMeansOver
 
CHECK_DEADLOCK FALSE
