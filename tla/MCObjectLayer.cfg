\* Three requests on one object with three replicas, or two with more faults; or
\* two upload requests at a time, on two uploads of an object.
CONSTANTS
  r1 = r1
  r2 = r2
  r3 = r3
  o1 = o1
  o2 = o2
  o3 = o3
  u1 = u1
  u2 = u2
  Reqs = {r1, r2, r3}
  Objects = {o1}
  Clnts <- ThreeClients
  Ops = {"put", "delete", "get"}
  CopyPairs <- NoCopies
  Initial = v0
  Older = v
  MaxLate = 0
  NoObj = NoObj
  NoInfo = NoInfo
  Unknown = Unknown
  Nil = Nil
  NoTag = NoTag
  NotFoundErrs = {nf}
  CallErrs = {e1}
  MaxFaults = 2
  MaxCrashes = 1
  Parts = {p1}
  Bodies = {b1}
  Plain = Plain
  NoPart = NoPart
  TheObject = TheObject
  CallErr = CallErr
  MaxOps = 3
  None = None
SPECIFICATION MCSpec
INVARIANT SimpleAckedOnQuorum
INVARIANT SimpleServedMatchesInfo
INVARIANT SimpleFailedPutLeavesNothing
INVARIANT AckedCompleteStays
INVARIANT AckedPartOnQuorum
INVARIANT AbortedIsGone
PROPERTY SimpleReadsSeeAcked
CHECK_DEADLOCK FALSE
SYMMETRY Symmetric
