----------------------------- MODULE MCDiskCache -----------------------------
(* Model-checking instance of DiskCache: one drive, and two requests among  *)
(* which an upload may replace the object while it is read from the cache.  *)
EXTENDS DiskCache

CONSTANT d1

OneDrive == <<d1>>
GetAndPut ==
    {[reqs |-> 2, ops |-> {"GET", "PUT"}, metas |-> {"plain"}, drives |-> {d1},
      writes |-> 0, restarts |-> 0]}
=============================================================================
