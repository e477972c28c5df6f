\* Every order of up to three assertions of one control.
CONSTANTS
  Declared <- MCDeclared
  MaxResults = 3
SPECIFICATION Spec
INVARIANT VerdictMatchesEvidence
PROPERTY FailClosed
\* The engine stops reporting.
CHECK_DEADLOCK FALSE
