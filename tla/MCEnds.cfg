\* Two requests at a time: on two objects, among them copies that lock each
\* other's source; on one upload; through the cache, on one drive.  No faults of
\* simple requests: a failing upload may leave its pipe unread and block one.
CONSTANTS
  r1 = r1
  r2 = r2
  r3 = r3
  o1 = o1
  o2 = o2
  o3 = o3
  Reqs = {r1, r2}
  Objects = {o1, o2}
  Clnts <- EvenClients
  Ops = {"put", "delete", "stat", "get", "copy"}
  CopyPairs <- CrossCopies
  Initial = v0
  Older = v
  MaxLate = 0
  NoObj = NoObj
  NoInfo = NoInfo
  Unknown = Unknown
  Nil = Nil
  NoTag = NoTag
  NotFoundErrs = {nf}
  CallErrs = {e1}
  MaxFaults = 0
  MaxCrashes = 0
  u1 = u1
  Parts = {p1}
  Bodies = {b1}
  Plain = Plain
  NoPart = NoPart
  TheObject = TheObject
  CallErr = CallErr
  MaxOps = 3
  a = a
  d1 = d1
  Unused = Unused
SPECIFICATION MCSpec
PROPERTY RequestsEnd
CHECK_DEADLOCK FALSE
