------------------------------ MODULE DiskCache ------------------------------
(***************************************************************************)
(* The disk cache in front of the object layer (src/cmd/disk-cache.go and  *)
(* disk-cache-backend.go), for one object.  GET, HEAD, PUT and DELETE go   *)
(* through the cache; copies, multipart uploads and browser uploads change *)
(* the object behind its back.  A cached object is a directory on one of   *)
(* the drives, with a data file of checksummed blocks and a metadata file. *)
(* The cache's own read-write lock covers the metadata read of a GET, the  *)
(* write of an entry and most removals, but not the goroutine that reads   *)
(* the data file, the metadata refresh after a revalidation, the removal   *)
(* after a failed read, nor the purge.                                     *)
(***************************************************************************)
EXTENDS Naturals, Sequences, FiniteSets

CONSTANTS
    Reqs,         \* requests; each runs once
    Tags, Metas,  \* ETags (one per content) and metadata variants
    Drives,       \* the configured drives, in order from the hash index
    Blocks,       \* checksummed blocks in an object
    Worlds        \* bounds to explore: [reqs, ops, metas, drives, writes, restarts],
                  \* the number of requests, their operations, the metadata and drives in use, the
                  \* writes past the cache and the restarts of the process

(* Answers that are no version of the object.                              *)
Mark(x) == [tag |-> x, meta |-> x]
None == Mark("none")
Failed == Mark("failed")
Partial == Mark("partial")

VARIABLES
    bk,      \* the object in the backend: None or [tag, meta]
    bkr,     \* holders of the object layer's read lock on it
    cw,      \* holder of the cache's write lock
    drv,     \* drive -> [dir, ino, meta, mw, old]: its entry for the object; mw
             \* are the processes with the metadata file open for writing
    file,    \* inode -> blocks written to it
    online,  \* drives the process uses
    cfg,     \* [excl, mig]: object excluded from the cache; V1 migration running
    req, fill, rd,         \* per request: handler, filling and reading goroutines
    gone, missed,  \* history: DELETE acknowledged; an entry it did not reach
    env            \* the bounds, less the writes and restarts that happened

vars == <<bk, bkr, cw, drv, file, online, cfg, req, fill, rd, gone, missed, env>>
disk == <<drv, file, online>>

Inodes == 1 .. Cardinality(Reqs) + Len(Drives) + 1
Versions == [tag: Tags, meta: Metas]
Written == [tag: Tags, meta: env.metas]
DriveSet == {Drives[i] : i \in DOMAIN Drives}
NoEntry == [dir |-> FALSE, ino |-> 0, meta |-> None, mw |-> {}, old |-> FALSE]
IdleReq == [op |-> "none", pc |-> "idle", d |-> None, ci |-> None, new |-> None,
            out |-> None, src |-> "none", body |-> <<>>, seen |-> {}, fill |-> FALSE]
IdleFill == [pc |-> "idle", d |-> None, tee |-> FALSE, v |-> None, n |-> 0, ino |-> 0]
IdleRd == [pc |-> "idle", d |-> None, ino |-> 0, n |-> 0, buf |-> None]

(* Cache-control as the stored metadata gives it; "onlycached" is never    *)
(* stale.  A drive's "old" says that the data file was last read longer    *)
(* ago than max-age.                                                       *)
isEmpty(m) == m = "plain"
isStale(m, old) == m \in {"nostore", "nocache"} \/ (m = "maxage" /\ old)

-----------------------------------------------------------------------------
(* Drives *)

Exists(d) == drv[d].dir

(* First usable drive in order from the hash index.                        *)
FirstIn(S) ==
    LET usable == {i \in DOMAIN Drives : Drives[i] \in S}
    IN  IF usable = {} THEN None
        ELSE Drives[CHOOSE i \in usable : \A j \in usable : i <= j]

getCacheLoc == FirstIn(online)

getCacheToLoc ==
    LET holding == {d \in online : Exists(d)}
    IN  IF holding # {} THEN FirstIn(holding) ELSE getCacheLoc

(* The information statCache returns: the metadata file is readable and    *)
(* there is a data file, of whatever content.                              *)
Stat(d) == IF drv[d].meta \in Versions /\ drv[d].ino # 0 THEN drv[d].meta ELSE None

removeAll(d) == drv' = [drv EXCEPT ![d] = NoEntry]

(* os.Create of the metadata file needs the directory and empties the      *)
(* file; the write that follows has no effect once the file was removed.   *)
CreateMeta(d, p) ==
    drv' = IF Exists(d) THEN [drv EXCEPT ![d].meta = Partial, ![d].mw = @ \cup {p}] ELSE drv
WriteMeta(d, p, v) ==
    drv' = IF p \in drv[d].mw THEN [drv EXCEPT ![d].meta = v, ![d].mw = @ \ {p}] ELSE drv

(* An inode nobody refers to.                                              *)
FreeIno ==
    CHOOSE i \in Inodes : /\ \A d \in DriveSet : drv[d].ino # i
                          /\ \A r \in Reqs : fill[r].ino # i /\ rd[r].ino # i

-----------------------------------------------------------------------------
(* The backend: the object layer of MirrorObjects with its namespace lock. *)
(* A write excludes readers; a read of the information is one step.        *)

Active(r) == req[r].pc \notin {"idle", "done"}

(* Requests q, with v added to what each active one may observe.           *)
Seen(q, v) ==
    [s \in Reqs |-> IF Active(s) THEN [q[s] EXCEPT !.seen = @ \cup {v}] ELSE q[s]]

SetBackend(v) == bkr = {} /\ bk' = v /\ gone' = (gone /\ v = None)

(* What a call for the object, or for its information, may answer: the     *)
(* object or an error.  radioObjects.GetObjectInfo hands the replicas'     *)
(* errors on as they are: the cache never gets the BackendDown or          *)
(* ObjectNotFound it looks for, and takes no error for one of them.        *)
Answers == ({bk} \ {None}) \cup {Failed}

At(r, q) == [req EXCEPT ![r] = q]
Step(r, pc) == req' = [req EXCEPT ![r].pc = pc]

(* A finished request keeps its answer and, to judge it by, the versions   *)
(* it saw with that ETag and the blocks it delivered with another.         *)
Done(r, out, src) ==
    [IdleReq EXCEPT !.pc = "done", !.op = req[r].op, !.out = out, !.src = src,
                    !.seen = {v.tag : v \in {bk} \cup req[r].seen} \cap {out.tag},
                    !.body = SelectSeq(req[r].body, LAMBDA t : t # out.tag)]
Finish(r, out, src) == req' = At(r, Done(r, out, src))

(* Copies, completed multipart uploads and browser uploads.                *)
OtherWrite ==
    /\ env.writes > 0
    /\ \E v \in Written \cup {None} :
        v # bk /\ SetBackend(v) /\ req' = Seen(req, v)
    /\ env' = [env EXCEPT !.writes = @ - 1]
    /\ UNCHANGED <<bkr, cw, drv, file, online, cfg, fill, rd, missed>>

-----------------------------------------------------------------------------
(* GET (whole or ranged) and HEAD *)

Reads == {"GET", "RANGE", "HEAD"}
Gets == {"GET", "RANGE"}

Fresh(r) == req[r].pc = "idle" /\ Cardinality({s \in Reqs : req[s].pc # "idle"}) < env.reqs

(* The first step of a request, and of a GET that starts over.             *)
Begins(r, ops, op) ==
    \/ Fresh(r) /\ op \in ops \cap env.ops
    \/ req[r].pc = "loc" /\ op = req[r].op /\ op \in ops

ReadLoc(r) ==
    /\ \E op \in Reads :
        /\ Begins(r, Reads, op)
        /\ LET q == [req[r] EXCEPT !.op = op, !.seen = @ \cup {bk}]
           IN  req' = At(r, IF cfg.excl \/ cfg.mig \/ getCacheToLoc = None
                            THEN [q EXCEPT !.pc = "direct"]
                            ELSE [q EXCEPT !.pc = "cache", !.d = getCacheToLoc])
    /\ UNCHANGED <<bk, bkr, cw, disk, cfg, fill, rd, gone, missed, env>>

(* Mutant of GetHit: a GET trusts an entry without cache-control, as HEAD. *)
MutGetHitLikeHead(e, old) == ~isStale(e.meta, old)

(* Served without asking the backend: GET wants a valid cache-control      *)
(* (only-if-cached always is), HEAD only one that has not run out.         *)
GetHit(e, old) == ~isEmpty(e.meta) /\ ~isStale(e.meta, old)
HeadHit(e, old) == ~isStale(e.meta, old)

(* The cache lookup under the cache's read lock, which is free again when  *)
(* the handler goes on; a GET has started the goroutine that reads the     *)
(* data.  A lock that cannot be had in time counts as a miss.  A no-store  *)
(* entry sends the GET back to the beginning.                              *)
Lookup(r) ==
    LET d == req[r].d
        e == Stat(d)
        get == req[r].op \in Gets
    IN  /\ req[r].pc = "cache"
        /\ \/ /\ cw = None /\ e # None
              /\ req' = At(r,
                   CASE get /\ GetHit(e, drv[d].old) ->
                          [req[r] EXCEPT !.pc = "serve", !.ci = e, !.out = e, !.src = "fresh"]
                     [] get /\ ~GetHit(e, drv[d].old) /\ e.meta = "nostore" ->
                          [req[r] EXCEPT !.pc = "loc"]
                     [] ~get /\ HeadHit(e, drv[d].old) -> Done(r, e, "fresh")
                     [] OTHER -> [req[r] EXCEPT !.pc = "head", !.ci = e])
              /\ rd' = IF get THEN [rd EXCEPT ![r] = [IdleRd EXCEPT !.pc = "open", !.d = d]]
                       ELSE rd
           \/ /\ (cw = None /\ e = None) \/ cw # None
              /\ req' = At(r, [req[r] EXCEPT !.pc = "head", !.ci = None])
              /\ UNCHANGED rd
        /\ UNCHANGED <<bk, bkr, cw, disk, cfg, fill, gone, missed, env>>

(* A GET asks the backend for the object's information and compares ETags. *)
(* An error is the answer, and leaves the entry where it is, also when the *)
(* backend is down or the object gone; the cache's reader is not closed.   *)
Revalidate(r) ==
    LET ci == req[r].ci
    IN  /\ req[r].pc = "head" /\ req[r].op \in Gets
        /\ \E a \in Answers :
            \/ a = Failed /\ Finish(r, Failed, "error")
            \/ /\ a \in Versions
               /\ req' = At(r,
                    CASE ci = None -> [req[r] EXCEPT !.pc = "room"]
                      [] ci # None /\ ci.tag # a.tag -> [req[r] EXCEPT !.pc = "drop"]
                      [] ci # None /\ ci.tag = a.tag ->
                           [req[r] EXCEPT !.pc = IF ci = a THEN "serve" ELSE "refresh",
                                          !.new = a, !.out = ci, !.src = "same"])
        /\ UNCHANGED <<bk, bkr, cw, disk, cfg, fill, rd, gone, missed, env>>

(* updateMetadataIfChanged: the metadata file is rewritten in place, in    *)
(* two steps and without the cache's lock; the GET still answers with the  *)
(* information it had.                                                     *)
RefreshMeta(r) ==
    /\ \/ req[r].pc = "refresh" /\ CreateMeta(req[r].d, <<r, "get">>)
          /\ Step(r, IF Exists(req[r].d) THEN "refresh2" ELSE "serve")
       \/ req[r].pc = "refresh2" /\ WriteMeta(req[r].d, <<r, "get">>, req[r].new) /\ Step(r, "serve")
    /\ UNCHANGED <<bk, bkr, cw, file, online, cfg, fill, rd, gone, missed, env>>

(* A HEAD that must ask the backend.                                       *)
HeadBackend(r) ==
    LET ci == req[r].ci
    IN  /\ req[r].pc = "head" /\ req[r].op = "HEAD"
        /\ \E a \in Answers :
            req' = At(r,
                CASE a = Failed -> Done(r, Failed, "none")
                  [] a \in Versions /\ (ci = None \/ ci.tag = a.tag) -> Done(r, a, "backend")
                  [] OTHER -> [req[r] EXCEPT !.pc = "drop", !.out = a, !.src = "backend"])
        /\ UNCHANGED <<bk, bkr, cw, disk, cfg, fill, rd, gone, missed, env>>

(* The removal of a stale entry under the cache's write lock; a lock that  *)
(* cannot be had in time is ignored.                                       *)
Drop(r) ==
    /\ req[r].pc = "drop"
    /\ IF cw = None THEN removeAll(req[r].d) ELSE UNCHANGED drv
    /\ Step(r, IF req[r].op = "HEAD" THEN "done" ELSE "room")
    /\ UNCHANGED <<bk, bkr, cw, file, online, cfg, fill, rd, gone, missed, env>>

(* Is there room on the drive?  Without it the backend serves the GET; a   *)
(* ranged GET starts a background fill, a whole one a fill fed by its own  *)
(* reads.                                                                  *)
Room(r) ==
    /\ req[r].pc = "room"
    /\ \/ Step(r, "direct") /\ UNCHANGED fill
       \/ /\ req[r].op = "RANGE" /\ Step(r, "direct")
          /\ fill' = [fill EXCEPT ![r] = [IdleFill EXCEPT !.pc = "read", !.d = req[r].d]]
       \/ req[r].op = "GET" /\ Step(r, "tee") /\ UNCHANGED fill
    /\ UNCHANGED <<bk, bkr, cw, disk, cfg, rd, gone, missed, env>>

(* The object from the backend; the reader holds its read lock.            *)
Direct(r) ==
    /\ req[r].pc \in {"direct", "tee"}
    /\ \E a \in Answers :
        \/ /\ a \notin Versions
           /\ Finish(r, Failed, "none")
           /\ UNCHANGED <<bkr, fill>>
        \/ /\ a \in Versions /\ req[r].op = "HEAD"
           /\ Finish(r, a, "backend")
           /\ UNCHANGED <<bkr, fill>>
        \/ /\ a \in Versions /\ req[r].op \in Gets
           /\ bkr' = bkr \cup {<<r, "get">>}
           /\ req' = At(r, [req[r] EXCEPT !.out = a, !.src = "backend",
                              !.pc = IF @ = "tee" THEN "teeing" ELSE "reading"])
           /\ fill' = IF req[r].pc = "tee"
                      THEN [fill EXCEPT ![r] = [IdleFill EXCEPT !.pc = "lock", !.tee = TRUE,
                                                                !.v = a, !.d = req[r].d]]
                      ELSE fill
    /\ UNCHANGED <<bk, cw, disk, cfg, rd, gone, missed, env>>

(* The answer reaches the client.  A tee'd GET has its last byte when the  *)
(* fill took it, and fails when the fill does.                             *)
Deliver(r) ==
    LET whole == Len(req[r].body) = Blocks
        fed == fill[r].tee
    IN  /\ \/ req[r].pc = "reading" /\ Finish(r, req[r].out, "backend")
           \/ req[r].pc = "teeing" /\ whole /\ Finish(r, req[r].out, "backend")
           \/ req[r].pc = "teeing" /\ ~whole /\ ~fed /\ Finish(r, Failed, "none")
           \/ req[r].pc = "serve" /\ whole /\ Finish(r, req[r].out, req[r].src)
           \/ req[r].pc = "serve" /\ rd[r].pc = "failed" /\ Finish(r, Failed, "none")
        /\ bkr' = bkr \ {<<r, "get">>}
        /\ UNCHANGED <<bk, cw, disk, cfg, fill, rd, gone, missed, env>>

(* The client goes away before it has read everything.                     *)
Leave(r) ==
    /\ req[r].pc \in {"serve", "teeing"} /\ Len(req[r].body) < Blocks
    /\ Finish(r, Failed, "none")
    /\ bkr' = bkr \ {<<r, "get">>}
    /\ UNCHANGED <<bk, cw, disk, cfg, fill, rd, gone, missed, env>>

-----------------------------------------------------------------------------
(* The goroutine of a cached GET that reads the data file.  It runs        *)
(* without the cache's lock, opens the file by its path when it gets to    *)
(* it, and on any error removes the entry, whatever it has become.         *)

RdFail(r) ==
    /\ rd' = [rd EXCEPT ![r] = [IdleRd EXCEPT !.pc = "failed"]]
    /\ removeAll(rd[r].d)
    /\ req' = IF req[r].pc = "serve" THEN At(r, Done(r, Failed, "none")) ELSE req

RdOpen(r) ==
    /\ rd[r].pc = "open"
    /\ \/ /\ drv[rd[r].d].ino = 0
          /\ RdFail(r)
       \/ /\ drv[rd[r].d].ino # 0
          /\ rd' = [rd EXCEPT ![r].pc = "read", ![r].ino = drv[rd[r].d].ino]
          /\ drv' = [drv EXCEPT ![rd[r].d].old = FALSE]
          /\ UNCHANGED req
    /\ UNCHANGED <<bk, bkr, cw, file, online, cfg, fill, gone, missed, env>>

(* The next block, if the file has it by now.                              *)
RdBlock(r) ==
    /\ rd[r].pc = "read"
    /\ \/ /\ rd[r].n >= Len(file[rd[r].ino])
          /\ RdFail(r)
       \/ /\ rd[r].n < Len(file[rd[r].ino])
          /\ rd' = [rd EXCEPT ![r].pc = "copy", ![r].buf = file[rd[r].ino][rd[r].n + 1]]
          /\ UNCHANGED <<drv, req>>
    /\ UNCHANGED <<bk, bkr, cw, file, online, cfg, fill, gone, missed, env>>

(* The block goes to the client once the handler serves from the cache;    *)
(* the goroutine ends after the last block or when its pipe was closed,    *)
(* and stays where it is after a revalidation that failed.                 *)
RdCopy(r) ==
    LET last == rd[r].n + 1 = Blocks
    IN  /\ rd[r].pc = "copy"
        /\ \/ /\ req[r].pc = "serve"
              /\ req' = [req EXCEPT ![r].body = Append(@, rd[r].buf)]
              /\ rd' = [rd EXCEPT ![r] = IF last THEN IdleRd
                                         ELSE [@ EXCEPT !.pc = "read", !.n = @ + 1, !.buf = None]]
           \/ /\ req[r].pc \in {"drop", "room", "direct", "tee", "reading", "teeing", "done"}
              /\ req[r].src # "error"
              /\ rd' = [rd EXCEPT ![r] = IdleRd]
              /\ UNCHANGED req
        /\ UNCHANGED <<bk, bkr, cw, disk, cfg, fill, gone, missed, env>>

-----------------------------------------------------------------------------
(* Filling the cache: in the background after a PUT or for a ranged GET,   *)
(* or fed by the reads of a whole GET.                                     *)

FillEnd(r) ==
    /\ fill' = [fill EXCEPT ![r] = IdleFill]
    /\ cw' = IF cw = r THEN None ELSE cw
    /\ bkr' = bkr \ {<<r, "fill">>}

(* Mutant of FillRead: the object's read lock is not kept for the fill.    *)
MutFillReadNoLock(r) ==
    /\ fill[r].pc = "read"
    /\ \E a \in Answers :
        \/ a \notin Versions /\ FillEnd(r)
        \/ /\ a \in Versions
           /\ fill' = [fill EXCEPT ![r].pc = "stat", ![r].v = a]
           /\ UNCHANGED <<bkr, cw>>
    /\ UNCHANGED <<bk, disk, cfg, req, rd, gone, missed, env>>

(* A background fill reads the object under the backend's read lock.       *)
FillRead(r) ==
    /\ fill[r].pc = "read"
    /\ \E a \in Answers :
        \/ a \notin Versions /\ FillEnd(r)
        \/ /\ a \in Versions
           /\ fill' = [fill EXCEPT ![r].pc = "stat", ![r].v = a]
           /\ bkr' = bkr \cup {<<r, "fill">>}
           /\ UNCHANGED cw
    /\ UNCHANGED <<bk, disk, cfg, req, rd, gone, missed, env>>

(* Another fill may have been faster; a lock time-out counts as no entry.  *)
FillStat(r) ==
    LET e == Stat(fill[r].d)
    IN  /\ fill[r].pc = "stat"
        /\ \/ cw = None /\ e # None /\ e.tag = fill[r].v.tag /\ FillEnd(r)
           \/ /\ cw # None \/ e = None \/ e.tag # fill[r].v.tag
              /\ fill' = [fill EXCEPT ![r].pc = "lock"]
              /\ UNCHANGED <<bkr, cw>>
        /\ UNCHANGED <<bk, disk, cfg, req, rd, gone, missed, env>>

FillLock(r) ==
    /\ fill[r].pc = "lock"
    /\ \/ /\ cw = None
          /\ cw' = r
          /\ fill' = [fill EXCEPT ![r].pc = "create"]
          /\ UNCHANGED bkr
       \/ cw # None /\ FillEnd(r)
    /\ UNCHANGED <<bk, disk, cfg, req, rd, gone, missed, env>>

(* A failed write takes the drive offline when the drive is to blame, and  *)
(* removes the entry.                                                      *)
FillFail(r) ==
    /\ FillEnd(r)
    /\ removeAll(fill[r].d)
    /\ online' \in {online, online \ {fill[r].d}}
    /\ UNCHANGED file

(* Put: a full drive ends it; otherwise the data file is created, or       *)
(* emptied where it is while the old metadata stays beside it.             *)
FillCreate(r) ==
    LET d == fill[r].d
        ino == IF drv[d].ino # 0 THEN drv[d].ino ELSE FreeIno
    IN  /\ fill[r].pc = "create"
        /\ \/ FillEnd(r) /\ UNCHANGED disk
           \/ FillFail(r)
           \/ /\ fill' = [fill EXCEPT ![r].pc = "take", ![r].ino = ino]
              /\ drv' = [drv EXCEPT ![d].dir = TRUE, ![d].ino = ino, ![d].old = FALSE]
              /\ file' = [file EXCEPT ![ino] = <<>>]
              /\ UNCHANGED <<cw, bkr, online>>
        /\ UNCHANGED <<bk, cfg, req, rd, gone, missed, env>>

(* The next block arrives.  The backend's reader closes itself, and gives  *)
(* its lock back, at the end of the object: before the block is written.   *)
FillTake(r) ==
    LET tee == fill[r].tee
        last == fill[r].n + 1 = Blocks
    IN  /\ fill[r].pc = "take"
        /\ \/ /\ tee => req[r].pc = "teeing"
              /\ fill' = [fill EXCEPT ![r].pc = "write"]
              /\ req' = IF tee THEN [req EXCEPT ![r].body = Append(@, fill[r].v.tag)] ELSE req
              /\ bkr' = IF last THEN bkr \ {<<r, "fill">>} ELSE bkr
              /\ UNCHANGED <<cw, disk>>
           \/ /\ tee => req[r].pc = "done"    \* a short or failed read
              /\ FillEnd(r) /\ removeAll(fill[r].d)
              /\ UNCHANGED <<file, online, req>>
        /\ UNCHANGED <<bk, cfg, rd, gone, missed, env>>

FillWrite(r) ==
    /\ fill[r].pc = "write"
    /\ \/ FillFail(r)
       \/ /\ file' = [file EXCEPT ![fill[r].ino] = Append(@, fill[r].v.tag)]
          /\ fill' = [fill EXCEPT ![r].n = @ + 1,
                        ![r].pc = IF fill[r].n + 1 = Blocks THEN "meta" ELSE "take"]
          /\ UNCHANGED <<bkr, cw, drv, online>>
    /\ UNCHANGED <<bk, cfg, req, rd, gone, missed, env>>

(* saveMetadata, the last step of Put, in its two halves.                  *)
FillMeta(r) ==
    /\ \/ /\ fill[r].pc = "meta" /\ Exists(fill[r].d)
          /\ CreateMeta(fill[r].d, <<r, "fill">>)
          /\ fill' = [fill EXCEPT ![r].pc = "meta2"]
          /\ UNCHANGED <<bkr, cw>>
       \/ fill[r].pc = "meta" /\ ~Exists(fill[r].d) /\ FillEnd(r) /\ UNCHANGED drv
       \/ fill[r].pc = "meta2" /\ WriteMeta(fill[r].d, <<r, "fill">>, fill[r].v) /\ FillEnd(r)
    /\ UNCHANGED <<bk, file, online, cfg, req, rd, gone, missed, env>>

-----------------------------------------------------------------------------
(* PUT and DELETE *)

(* A PUT looks for its drive first.  During migration and without room it  *)
(* bypasses the cache and leaves an entry alone; for an excluded object it *)
(* removes the entry, without the cache's lock.                            *)
PutLoc(r) ==
    LET d == getCacheToLoc
    IN  /\ Begins(r, {"PUT"}, "PUT")
        /\ \E v \in Written : LET q == [req[r] EXCEPT !.op = "PUT", !.pc = "backend", !.new = v]
           IN  \/ req' = At(r, q) /\ UNCHANGED drv
               \/ /\ d # None /\ ~cfg.mig /\ cfg.excl
                  /\ req' = At(r, q) /\ removeAll(d)
               \/ /\ d # None /\ ~cfg.mig /\ ~cfg.excl
                  /\ req' = At(r, [q EXCEPT !.d = d, !.fill = TRUE])
                  /\ UNCHANGED drv
        /\ UNCHANGED <<bk, bkr, cw, file, online, cfg, fill, rd, gone, missed, env>>

(* A PUT that succeeds starts a background fill; one that fails may or may *)
(* not have changed the object.                                            *)
PutBackend(r) ==
    /\ req[r].pc = "backend" /\ req[r].op = "PUT"
    /\ \/ /\ SetBackend(req[r].new)
          /\ req' = Seen(At(r, Done(r, req[r].new, "backend")), req[r].new)
          /\ fill' = IF req[r].fill
                     THEN [fill EXCEPT ![r] = [IdleFill EXCEPT !.pc = "read", !.d = req[r].d]]
                     ELSE fill
       \/ \E v \in {bk, req[r].new} :
          /\ SetBackend(v)
          /\ req' = Seen(At(r, Done(r, Failed, "none")), v)
          /\ UNCHANGED fill
    /\ UNCHANGED <<bkr, cw, disk, cfg, rd, missed, env>>

DeleteBackend(r) ==
    /\ Fresh(r) /\ "DELETE" \in env.ops
    /\ \/ /\ SetBackend(None)
          /\ req' = Seen(At(r, [req[r] EXCEPT !.op = "DELETE", !.pc = "clear?"]), None)
       \/ \E v \in {bk, None} :
          SetBackend(v) /\ req' = Seen(At(r, Done(r, Failed, "none")), v)
    /\ UNCHANGED <<bkr, cw, disk, cfg, fill, rd, missed, env>>

Ack(r, left) ==
    /\ Finish(r, None, "backend")
    /\ gone' = (bk = None)
    /\ missed' = (missed \/ left)

(* Another drive than the one DELETE clears has an entry.                  *)
Elsewhere(d) == \E x \in DriveSet \ {d} : Exists(x)

(* DELETE then looks at one drive only, the first online one, and not at   *)
(* all during migration or for an excluded object.                         *)
DeleteLoc(r) ==
    LET d == getCacheLoc
        skip == cfg.excl \/ cfg.mig \/ d = None
    IN  /\ req[r].pc = "clear?"
        /\ \/ skip /\ Ack(r, TRUE)
           \/ ~skip /\ ~Exists(d) /\ Ack(r, Elsewhere(d))
           \/ ~skip /\ Exists(d)
              /\ req' = At(r, [req[r] EXCEPT !.pc = "clear", !.d = d])
              /\ UNCHANGED <<gone, missed>>
        /\ UNCHANGED <<bk, bkr, cw, disk, cfg, fill, rd, env>>

(* The removal under the cache's write lock; that it timed out is ignored. *)
DeleteClear(r) ==
    /\ req[r].pc = "clear"
    /\ \/ cw = None /\ removeAll(req[r].d) /\ Ack(r, Elsewhere(req[r].d))
       \/ cw # None /\ UNCHANGED drv /\ Ack(r, TRUE)
    /\ UNCHANGED <<bk, bkr, cw, file, online, cfg, fill, rd, env>>

-----------------------------------------------------------------------------
(* The purge, time, the migration and restarts *)

(* The purge removes, without the cache's lock, an entry whose metadata it *)
(* cannot read, a stale one and one not read for long, as any may be.      *)
Purge(d) ==
    /\ drv[d].ino # 0
    /\ removeAll(d)
    /\ UNCHANGED <<bk, bkr, cw, file, online, cfg, req, fill, rd, gone, missed, env>>

Age(d) ==
    /\ drv[d].meta.meta = "maxage" /\ ~drv[d].old
    /\ drv' = [drv EXCEPT ![d].old = TRUE]
    /\ UNCHANGED <<bk, bkr, cw, file, online, cfg, req, fill, rd, gone, missed, env>>

MigrationDone ==
    /\ cfg.mig
    /\ cfg' = [cfg EXCEPT !.mig = FALSE]
    /\ UNCHANGED <<bk, bkr, cw, disk, req, fill, rd, gone, missed, env>>

(* What is on the drives survives a restart, half-written entries          *)
(* included; the drives that load, the excludes and a pending migration    *)
(* are those of the new start.                                             *)
Restart ==
    /\ env.restarts > 0
    /\ env' = [env EXCEPT !.restarts = @ - 1]
    /\ req' = [r \in Reqs |-> IF Active(r) THEN Done(r, Failed, "none") ELSE req[r]]
    /\ fill' = [r \in Reqs |-> IdleFill]
    /\ rd' = [r \in Reqs |-> IdleRd]
    /\ bkr' = {} /\ cw' = None
    /\ drv' = [d \in DriveSet |-> [drv[d] EXCEPT !.mw = {}]]
    /\ online' \in SUBSET env.drives
    /\ cfg' \in [excl: BOOLEAN, mig: BOOLEAN]
    /\ UNCHANGED <<bk, file, gone, missed>>

-----------------------------------------------------------------------------
(* A start: the object is or is not in the backend, and a drive may hold   *)
(* an entry of an earlier version from before.                             *)
Init ==
    /\ env \in Worlds
    /\ bk \in Written \cup {None}
    /\ bkr = {} /\ cw = None
    /\ \/ drv = [d \in DriveSet |-> NoEntry]
       \/ \E d \in env.drives, v \in Written :
            drv = [x \in DriveSet |->
                     IF x = d THEN [NoEntry EXCEPT !.dir = TRUE, !.ino = 1, !.meta = v]
                     ELSE NoEntry]
    /\ file = [i \in Inodes |->
                 IF \E d \in DriveSet : drv[d].ino = i
                 THEN [b \in 1 .. Blocks |-> drv[CHOOSE d \in DriveSet : drv[d].ino = i].meta.tag]
                 ELSE <<>>]
    /\ online \in (SUBSET env.drives) \ {{}}
    /\ cfg \in [excl: BOOLEAN, mig: BOOLEAN]
    /\ req = [r \in Reqs |-> IdleReq]
    /\ fill = [r \in Reqs |-> IdleFill]
    /\ rd = [r \in Reqs |-> IdleRd]
    /\ gone = FALSE /\ missed = FALSE

Handler(r) ==
    \/ ReadLoc(r) \/ Lookup(r) \/ Revalidate(r) \/ RefreshMeta(r) \/ HeadBackend(r)
    \/ Drop(r) \/ Room(r) \/ Direct(r) \/ Deliver(r)
    \/ PutLoc(r) \/ PutBackend(r) \/ DeleteBackend(r) \/ DeleteLoc(r) \/ DeleteClear(r)

Reader(r) == RdOpen(r) \/ RdBlock(r) \/ RdCopy(r)

Filler(r) ==
    \/ FillRead(r) \/ FillStat(r) \/ FillLock(r) \/ FillCreate(r)
    \/ FillTake(r) \/ FillWrite(r) \/ FillMeta(r)

Next ==
    \/ \E r \in Reqs : Handler(r) \/ Leave(r) \/ Reader(r) \/ Filler(r)
    \/ OtherWrite \/ MigrationDone \/ Restart
    \/ \E d \in DriveSet : Purge(d) \/ Age(d)

Spec == Init /\ [][Next]_vars

(* The goroutines run; clients that stay keep reading.                     *)
FairSpec ==
    Spec /\ \A r \in Reqs : WF_vars(Handler(r)) /\ WF_vars(Reader(r)) /\ WF_vars(Filler(r))

-----------------------------------------------------------------------------
(* Properties *)
(* A GET of an object stored without cache-control never answers with a    *)
(* version the backend did not hold while the GET ran: the entry is        *)
(* compared with the backend's ETag on every GET.                          *)
GetIsCurrent ==
    \A r \in Reqs :
        (req[r].pc = "done" /\ req[r].op \in Gets /\ req[r].out \in Versions) =>
            req[r].seen # {} \/ ~isEmpty(req[r].out.meta)

(* A DELETE through the cache that reached the object's entries leaves     *)
(* none behind with any of its data, not even one that a GET or an earlier *)
(* PUT was still filling in the background when the object was deleted.    *)
(* (Metadata can come back without data: a GET whose client left recreates *)
(* the entry before it notices, while another refreshes its metadata.)     *)
DeletedIsGone ==
    (gone /\ ~missed) =>
        \A d \in DriveSet : Stat(d) = None \/ file[drv[d].ino] = <<>>

(* The bytes a GET delivers are those of the version whose information it  *)
(* answered with, as for every reader "that unlocks on Close()".           *)
ServedMatchesInfo ==
    \A r \in Reqs :
        (req[r].pc = "done" /\ req[r].op = "GET" /\ req[r].out \in Versions) =>
            req[r].body = <<>>

(* Ended, or sent round again by an entry marked no-store.                 *)
Ended(r) ==
    \/ ~Active(r)
    \/ \E d \in DriveSet : Stat(d) # None /\ Stat(d).meta = "nostore"

(* Every request gets its answer, whatever the fills, the purge and the    *)
(* other requests do, except while an entry marked no-store sends a GET    *)
(* round again.                                                            *)
EveryRequestEnds == \A r \in Reqs : Active(r) ~> Ended(r)
=============================================================================
