\* One resource: the context of one request ends the wait of another.
CONSTANTS
  Instances = {i1, i2}
  Params = {p1}
  Entries = {n1, n2}
  NoEntry = NoEntry
SPECIFICATION Spec
INVARIANT BlocksUntilTimeout
