\* Two requests on three objects.  With five replicas one may hold an older
\* version at the start: four equal tags are enough for a read, and a copy
\* reads its source.  The smaller mirrors are in the module.
CONSTANTS
  r1 = r1
  r2 = r2
  r3 = r3
  o1 = o1
  o2 = o2
  o3 = o3
  Reqs = {r1, r2}
  Objects = {o1, o2, o3}
  Clnts <- FiveClients
  Ops = {"put", "copy"}
  CopyPairs <- FiveCopies
  Initial = v0
  Older = v
  MaxLate = 1
  NoObj = NoObj
  NoInfo = NoInfo
  Unknown = Unknown
  Nil = Nil
  NoTag = NoTag
  NotFoundErrs = {nf}
  CallErrs = {e1}
  MaxFaults = 0
  MaxCrashes = 0
SPECIFICATION MCSpec
INVARIANT CopiesAckedOnQuorum
INVARIANT FiveTagDeterminesBody
PROPERTY PairsReadAcked
CHECK_DEADLOCK FALSE
SYMMETRY Symmetry
