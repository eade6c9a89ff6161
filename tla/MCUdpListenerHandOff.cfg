SPECIFICATION Spec
CONSTANTS
  Clients = {c1, c2, c3}
  Finders = {f1}
  Listeners = {l1, l2, l3, l4, l5}
  NoListener = NoListener
  CancelHandOff = TRUE
  Hasty = {}
SYMMETRY Symmetry
INVARIANT HolderHears
