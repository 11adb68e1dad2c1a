\* A GET from the cache and a PUT of another content.
CONSTANTS
  d1 = d1
  Reqs = {r1, r2}
  Tags = {a, b}
  Metas = {"plain"}
  Drives <- OneDrive
  Blocks = 1
  Worlds <- GetAndPut
SPECIFICATION Spec
INVARIANT ServedMatchesInfo
CHECK_DEADLOCK FALSE
