SPECIFICATION Spec
CONSTANTS
  Listed = {1, 2}
  Due <- Minutes
  Exposure <- Amounts
  Rank <- Ranks
  VIPs = {1}
  Texts <- Inputs
  Parsed <- Trimmed
  Matching <- Found
  RunTask = 1
  NoTask = NoTask
  NoState = NoState
  MaxHistory = 3
INVARIANTS TypeOK OnlySidebarLinksDiverge SelectionsAreSteps ActionsAreSound
