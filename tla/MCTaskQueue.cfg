SPECIFICATION Spec
CONSTANTS
  Tasks <- Queue
  Demo = 2
  VIPs = {2}
  Escalated = {3}
  Exposure <- Amounts
  Due <- Times
  Seeders = {s1, s2}
  Readers = {r1}
  Nobody = Nobody
  Span = 18
  Horizon = 1
SYMMETRY Interchangeable
INVARIANTS TypeOK DemoHasContext WalksAreFaithful
PROPERTIES RefreshSucceeds
