SPECIFICATION Spec
CONSTANTS
  Writer = {w1, w2}
  Pair = {p1, p2, p3}
  None = None
  Torn = Torn
SYMMETRY Symmetric
INVARIANT WholePair
