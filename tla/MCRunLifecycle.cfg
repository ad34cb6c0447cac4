SPECIFICATION FairSpec
CONSTANTS
  Runs = {r1}
  Callers = {c1, c2, c3}
  NoRun = NoRun
  MaxVersion = 4
INVARIANTS TypeOK AuditIsHistory HeldIsHistory ValidationHolds
PROPERTIES TerminalIsFinal ImplementsContract ContentionProgresses
