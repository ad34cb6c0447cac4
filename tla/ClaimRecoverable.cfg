SPECIFICATION PersistentSpec
CONSTANTS
  Workers = {w1}
  Runs = {r1}
  Tasks = {t1}
  Chunks = {k1}
  NoRun = NoRun
  NoTask = NoTask
  NoMatch = NoMatch
  MaxVersion = 3
PROPERTIES ReadyProposalParksRun
