\* Audits, converges and installations over every transport.
CONSTANTS
  Commands <- AllCommands
SPECIFICATION FairSpec
INVARIANT RunsOnAWholeStage
INVARIANT OkMeansFinished
INVARIANT AuditsAQuietHost
INVARIANT CleanUnlessCut
PROPERTY EndsAfterTimeout
CHECK_DEADLOCK FALSE
