\* Five replicas, three error values of which one is ignored, and two tags: a
\* quorum of errors reached and missed, ties, and the threshold of quorumInfo
\* (four of five) with the counts on both sides of it.  Three lock servers, two
\* writers and a reader.
CONSTANTS
  N = 5
  Nil = Nil
  NoTag = NoTag
  Errors = {e1, e2, e3}
  Ignored = {e3}
  Quorum = 3
  QuorumErr = QuorumErr
  Tags = {t1, t2}
  s1 = s1
  s2 = s2
  s3 = s3
  w1 = w1
  w2 = w2
  rr = rr
SPECIFICATION MCSpec
INVARIANT OrderIndependent
INVARIANT NilPreferred
INVARIANT LoopsMatchReference
INVARIANT FoundOnQuorum
INVARIANT LocksExclude
CHECK_DEADLOCK FALSE
