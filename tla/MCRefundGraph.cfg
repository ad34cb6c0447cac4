SPECIFICATION Spec
CONSTANTS
  Workers = {w1, w2}
  Amounts = {9999, 10000, 10001}
  Unset = Unset
SYMMETRY WorkerSymmetry
INVARIANTS TypeOK ResultsAreFresh WaiversAreEarned
