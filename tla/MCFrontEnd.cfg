\* Objects of up to three bytes; two requests through the cache at a time, two
\* contents; two requests at a time through the handlers; errors over three
\* gateways.  The module has the rest.
CONSTANTS
  Sizes = {0, 1, 2, 3}
  Headers <- AnyHeaders
  Times <- AnyTime
  Reqs = {r1, r2}
  Tags = {a, b}
  Metas = {"plain", "maxage", "nocache", "nostore", "onlycached"}
  d1 = d1
  d2 = d2
  Slots = {1, 2}
  Ticks = 2
  MaxHops = 3
SPECIFICATION MCSpec
INVARIANT BodyIsRange
INVARIANT HeadLikeGet
INVARIANT CopyRangeExact
INVARIANT GetIsCurrent
INVARIANT DeletedIsGone
INVARIANT MigrationIsSafe
INVARIANT DrivesInOrder
INVARIANT OneResponse
INVARIANT CopyIsNoUpload
INVARIANT CountersSettle
INVARIANT ReportedIsOwn
INVARIANT CodeRelayed
CHECK_DEADLOCK FALSE
SYMMETRY Symmetry
