SPECIFICATION FairSpec
CONSTANTS
  Callers = {c1, c2}
  Keys = {k1}
INVARIANTS TypeOK RecordsAreTruthful RefundsAreKnown
PROPERTIES ReceiptsAreKept RetriesAreAnswered RefundsBecomeVisible
