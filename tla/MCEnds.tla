-------------------------------- MODULE MCEnds --------------------------------
(***************************************************************************)
(* One run for the liveness of requests: simple ones and uploads in the    *)
(* object layer, and requests that go through the disk cache.  A behaviour *)
(* has requests of one kind; the variables of the same name serve all.     *)
(***************************************************************************)
EXTENDS MCMirrorObjects

CONSTANTS u1, Parts, Bodies, Plain, NoPart, TheObject, CallErr, MaxOps, a, d1, Unused

VARIABLES part, idMap, st, parts, obj, used, known, ackedPart, acks, aborted,
          torn, ops,
          bk, bkr, cw, drv, file, online, cfg, fill, rd, gone, missed, env

M == INSTANCE Multipart WITH Uploads <- {u1}, N <- 3, MaxFaults <- 1

\* A GET and a PUT at a time, or one request of any kind.
CacheWorlds ==
  {[reqs |-> 2, ops |-> {"GET", "PUT"}, metas |-> {"plain"}, drives |-> {d1},
    writes |-> 0, restarts |-> 0],
   [reqs |-> 1, ops |-> {"GET", "RANGE", "HEAD", "PUT", "DELETE"},
    metas |-> {"plain", "nostore"}, drives |-> {d1}, writes |-> 0, restarts |-> 0]}

D == INSTANCE DiskCache WITH
       Tags <- {a}, Metas <- {"plain", "nostore"}, Drives <- <<d1>>, Blocks <- 1,
       Worlds <- CacheWorlds

simpleVars == <<store, acked>>
lockVars == <<readers, writers, faults, crashes>>
uploadVars == <<idMap, st, parts, obj, used, known, ackedPart, acks, aborted, torn, ops>>
cacheVars == <<bk, bkr, cw, drv, file, online, cfg, fill, rd, gone, missed, env>>
allVars == <<part, req, simpleVars, lockVars, uploadVars, cacheVars>>

NoUploads ==
  /\ idMap = Unused /\ st = Unused /\ parts = Unused /\ obj = Unused /\ used = Unused
  /\ known = Unused /\ ackedPart = Unused /\ acks = Unused /\ aborted = Unused
  /\ torn = Unused /\ ops = Unused
NoCache ==
  /\ bk = Unused /\ bkr = Unused /\ cw = Unused /\ drv = Unused /\ file = Unused
  /\ online = Unused /\ cfg = Unused /\ fill = Unused /\ rd = Unused /\ gone = Unused
  /\ missed = Unused /\ env = Unused

MCInit ==
  \/ part = "simple" /\ Init /\ NoUploads /\ NoCache
  \/ part = "upload" /\ M!Init /\ store = Unused /\ acked = Unused /\ NoCache
  \/ /\ part = "cache" /\ D!Init /\ NoUploads /\ store = Unused /\ acked = Unused
     /\ readers = Unused /\ writers = Unused /\ faults = Unused /\ crashes = Unused

InSimple(A) == part = "simple" /\ A /\ UNCHANGED <<part, uploadVars, cacheVars>>
InUpload(A) == part = "upload" /\ A /\ UNCHANGED <<part, simpleVars, cacheVars>>
InCache(A) == part = "cache" /\ A /\ UNCHANGED <<part, simpleVars, lockVars, uploadVars>>

MCNext == InSimple(Next) \/ InUpload(M!Next) \/ InCache(D!Next)

\* The fairness of the three specifications: a behaviour has requests of one
\* kind only, so their weak fairness is that of the disjunction.
MCSpec ==
  /\ MCInit /\ [][MCNext]_allVars
  /\ \A r \in Reqs :
       /\ WF_allVars(InSimple(Step(r)) \/ InUpload(M!Step(r)) \/ InCache(D!Handler(r)))
       /\ WF_allVars(InCache(D!Reader(r)))
       /\ WF_allVars(InCache(D!Filler(r)))

Begun(r) ==
  CASE part = "simple" -> req[r].pc # "new"
    [] part = "upload" -> req[r].pc # "idle"
    [] part = "cache" -> D!Active(r)
Over(r) ==
  CASE part = "simple" -> req[r].pc \in {"done", "gone"}
    [] part = "upload" -> req[r].pc = "idle"
    [] part = "cache" -> D!Ended(r)

\* Every request ends (radio.go, disk-cache.go): EveryRequestEnds of
\* MirrorObjects, Multipart and DiskCache.
RequestsEnd == \A r \in Reqs : Begun(r) ~> Over(r)
=============================================================================
