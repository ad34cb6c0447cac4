SPECIFICATION Spec
CONSTANTS
  Workers = {w1, w2}
  Runs = {r1, r2}
  Tasks = {t1, t2}
  Chunks = {k1, k2}
  NoRun = NoRun
  NoTask = NoTask
  NoMatch = NoMatch
  MaxVersion = 3
SYMMETRY Interchangeable
INVARIANTS TypeOK ProposalsAreInOrder WaitingRunsHaveEvidence
PROPERTIES RepliesAreCoherent UsesRunStore KeepsLedger
