\* One request on one object.
CONSTANTS
  r1 = r1
  r2 = r2
  r3 = r3
  o1 = o1
  o2 = o2
  o3 = o3
  Reqs = {r1}
  Objects = {o1}
  Clnts <- ThreeClients
  Ops = {"put", "delete", "stat", "get"}
  CopyPairs <- NoCopies
  Initial = v0
  Older = v
  MaxLate = 0
  NoObj = NoObj
  NoInfo = NoInfo
  Unknown = Unknown
  Nil = Nil
  NoTag = NoTag
  NotFoundErrs = {nf}
  CallErrs = {e1}
  MaxFaults = 1
  MaxCrashes = 0
SPECIFICATION Spec
INVARIANT EndedHoldsNoLock
CHECK_DEADLOCK FALSE
