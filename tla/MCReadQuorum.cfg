\* Two replicas that carry the same tag.
CONSTANTS
  N = 2
  Nil = Nil
  NoTag = NoTag
  Tags = {t1, t2}
SPECIFICATION Spec
INVARIANT ReadErrorMeansNoQuorum
CHECK_DEADLOCK FALSE
