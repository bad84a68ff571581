CONSTANTS
  n1 = n1
  a1 = a1
  e1 = e1
  e2 = e2
  s1 = s1
  s2 = s2
  None = None
  Broken = Broken
  Nodes = {n1}
  Aliases = {a1}
  Expressions = {e1, e2}
  Operands <- TwoExpressions
  Specs = {s1, s2}
  MaxSamples = 2
SPECIFICATION Spec
SYMMETRY Symmetric
INVARIANTS
  NoExpressionCheckFails
CHECK_DEADLOCK FALSE
