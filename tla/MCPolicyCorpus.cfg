SPECIFICATION Spec
CONSTANTS
  Files <- SmallCorpus
  Ingesters = {i1, i2}
  Retrievers = {r1}
  Proposals = {p1}
  Endless = Endless
  NoFile = NoFile
  NoClause = NoClause
  MaxDistance = 8
  Limit = 3
  Horizon = 2
SYMMETRY Interchangeable
INVARIANTS TypeOK CitationsResolve EvidenceIsSound
PROPERTIES PublishesOnce
