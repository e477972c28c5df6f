\* Up to four controls, alone or next to ten critical passes.
CONSTANTS
  Small = 4
  Large = 10
  MaxControls = 14
SPECIFICATION MCSpec
INVARIANT FailingNeverHelps
INVARIANT AOutlivesAReboot
INVARIANT ProjectedIsWhereHardenLeads
CHECK_DEADLOCK FALSE
