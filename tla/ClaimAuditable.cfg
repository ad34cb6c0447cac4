SPECIFICATION Spec
CONSTANTS
  Callers = {c1, c2}
  Keys = {k1}
INVARIANTS AttemptsAreAuditable
