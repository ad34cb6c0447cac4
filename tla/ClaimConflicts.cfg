SPECIFICATION Spec
CONSTANTS
  Files <- LongCorpus
  Ingesters = {i1}
  Retrievers = {r1}
  Proposals = {p1}
  Endless = Endless
  NoFile = NoFile
  NoClause = NoClause
  MaxDistance = 8
  Limit = 3
  Horizon = 1
INVARIANTS ConflictsAbstain
