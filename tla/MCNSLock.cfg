\* Three instances contend for two resources; as many nsLock structs as can be
\* reachable at once.
CONSTANTS
  Instances = {i1, i2, i3}
  Params = {p1, p2}
  Entries = {n1, n2, n3}
  NoEntry = NoEntry
SPECIFICATION Spec
INVARIANT MutualExclusion
INVARIANT MapMatchesUse
PROPERTY ImplementsRWLock
SYMMETRY Symmetry
