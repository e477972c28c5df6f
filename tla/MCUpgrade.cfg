\* Upgrades of a binary and of packages, alone and two at a time.
CONSTANTS
  one = one
  two = two
  Upgrades <- Both
  Versions <- AllVersions
  Published <- Released
  Latest <- v10
  History <- Oldest1st
  Sessions <- AllSessions
SPECIFICATION FairSpec
INVARIANT BinaryAlwaysRuns
INVARIANT OnlyForward
INVARIANT NoLitter
PROPERTY OnlyVerifiedIsInstalled
PROPERTY KeepsItsPromise
PROPERTY EndsAfterTimeout
CHECK_DEADLOCK FALSE
