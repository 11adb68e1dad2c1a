------------------------------ MODULE MCFrontEnd ------------------------------
(***************************************************************************)
(* One run for what lies between a client and the object layer: the answer *)
(* to a GET or HEAD (GetRequest), the disk cache (DiskCache) and the start *)
(* of its drives (CacheFormat), the middlewares and handlers (Handlers),   *)
(* and the errors they answer with (APIErrors).  A behaviour exercises one *)
(* of them and leaves the others untouched.                                *)
(***************************************************************************)
EXTENDS GetRequest, TLC

CONSTANTS Reqs, Tags, Metas, d1, d2, Slots, Ticks, MaxHops

VARIABLES part,
          bk, bkr, cw, drv, file, online, cfg, req, fill, rd, gone, missed, env,
          fmt, obj, pc, k, used, mig, migrating, starts,
          layer, slot, stats,
          err, origin, answer, bare, hops

\* Requests, their operations, metadata, drives, writes past the cache, restarts.
W(reqs, ops, metas, drives, writes, restarts) ==
  [reqs |-> reqs, ops |-> ops, metas |-> metas, drives |-> drives,
   writes |-> writes, restarts |-> restarts]
AnyOp == {"GET", "RANGE", "HEAD", "PUT", "DELETE"}

\* Two requests of any kind; two GETs and a write past the cache; every kind of
\* cache-control; two drives and a restart.
D == INSTANCE DiskCache WITH
       Drives <- <<d1, d2>>, Blocks <- 1,
       Worlds <- {W(2, AnyOp, {"plain"}, {d1}, 0, 0),
                  W(2, {"GET"}, {"plain"}, {d1}, 1, 0),
                  W(1, AnyOp, Metas, {d1}, 0, 0),
                  W(1, AnyOp, {"plain"}, {d1, d2}, 1, 1)}

\* Two drives; the process starts three times.
F == INSTANCE CacheFormat WITH N <- 2, MaxStarts <- 3

E == INSTANCE APIErrors

getVars == vars
cacheVars == <<bk, bkr, cw, drv, file, online, cfg, req, fill, rd, gone, missed, env>>
formatVars == <<fmt, obj, pc, k, used, mig, migrating, starts>>
serveVars == <<layer, slot, stats>>
errorVars == <<err, origin, answer, bare, hops>>
allVars == <<part, getVars, cacheVars, formatVars, serveVars, errorVars>>

-----------------------------------------------------------------------------
(* Requests for an object: every range without conditions, and every         *)
(* combination of conditions with three ranges.  Times are in half seconds.  *)

Conditions(r, ims, ius, im, inm) ==
  [range |-> r, ims |-> ims, ius |-> ius, im |-> im, inm |-> inm]
AnyHeaders ==
  {Conditions(r, -1, -1, -1, -1) : r \in {NoHeader} \cup ((-2..4) \X (-2..4))}
  \cup {Conditions(r, ims, ius, im, inm) :
          r \in {NoHeader, <<0, 1>>, <<3, -1>>}, ims \in {-1, -2, 2},
          ius \in {-1, -2, 2}, im \in {-1, 1, 2}, inm \in {-1, 1, 2}}
NoHeaders == Conditions(NoHeader, -1, -1, -1, -1)
AnyTime == {0} \cup 2..5

-----------------------------------------------------------------------------
(* Requests of every route, well-formed and with each thing a middleware or  *)
(* a handler checks for.  Beside one of them a completion may run.           *)

R == INSTANCE Handlers WITH Requests <- <<>>

To(method, path, query) ==
  [R!NoRequest EXCEPT !.method = method, !.path = path, !.query = query]
Simple ==
  {To("HEAD", "object", {}), To("GET", "object", {"uploadId"}),
   To("POST", "object", {"uploadId"}), To("POST", "object", {"uploads"}),
   To("DELETE", "object", {"uploadId"}), To("POST", "object", {"select"}),
   To("GET", "object", {}), To("DELETE", "object", {}),
   To("GET", "bucket", {"location"}), To("GET", "bucket", {"uploads"}),
   To("GET", "bucket", {"list-type", "metadata"}),
   To("GET", "bucket", {"list-type"}), To("GET", "bucket", {"versions"}),
   To("GET", "bucket", {}), To("HEAD", "bucket", {}), To("GET", "root", {}),
   To("PUT", "bucket", {}), To("POST", "other", {}), To("GET", "ready", {}),
   To("GET", "live", {}), To("GET", "metrics", {})}
Puts ==
  {[To("PUT", "object", q) EXCEPT !.copy = c] :
     q \in {{}, {"uploadId"}, {"partNumber", "uploadId"}}, c \in {"none", "slash", "bare"}}
Posts == {[To("POST", "bucket", {}) EXCEPT !.form = TRUE]}
OddPaths ==
  {[To("GET", "object", {}) EXCEPT !.begins = b, !.ends = e] : b, e \in BOOLEAN}
Deletes ==
  {[To("POST", "bucket", {"delete"}) EXCEPT !.keys = keys, !.denied = denied] :
     keys \in {<<"x">>, <<"x", "y">>, <<"x", "y", "x">>, <<"y", "x", "z">>, <<>>},
     denied \in {{}, {"x"}}}
Good == Simple \cup Puts \cup Posts \cup OddPaths \cup Deletes
Checks(r) == R!ToSet(R!Handler(R!api(r))) \cup R!ToSet(R!registerHandlers)
AnyRequest ==
  Good \cup UNION {{[r EXCEPT !.bad = {c}] : c \in Checks(r) \ R!Calls} : r \in Good}
TwoSlots == <<AnyRequest, {To("POST", "object", {"uploadId"})}>>

S == INSTANCE Handlers WITH Requests <- TwoSlots

-----------------------------------------------------------------------------
NoGet == size = 0 /\ mtime = 0 /\ hdr = NoHeaders /\ Init
NoCache ==
  /\ bk = 0 /\ bkr = 0 /\ cw = 0 /\ drv = 0 /\ file = 0 /\ online = 0 /\ cfg = 0
  /\ req = 0 /\ fill = 0 /\ rd = 0 /\ gone = 0 /\ missed = 0 /\ env = 0
NoFormat ==
  /\ fmt = 0 /\ obj = 0 /\ pc = 0 /\ k = 0 /\ used = 0 /\ mig = 0
  /\ migrating = 0 /\ starts = 0
NoServe == layer = 0 /\ slot = 0 /\ stats = 0
NoError == err = 0 /\ origin = 0 /\ answer = 0 /\ bare = 0 /\ hops = 0

MCInit ==
  \/ part = "get" /\ Init /\ NoCache /\ NoFormat /\ NoServe /\ NoError
  \/ part = "cache" /\ D!Init /\ NoGet /\ NoFormat /\ NoServe /\ NoError
  \/ part = "format" /\ F!Init /\ NoGet /\ NoCache /\ NoServe /\ NoError
  \/ part = "serve" /\ S!Init /\ NoGet /\ NoCache /\ NoFormat /\ NoError
  \/ part = "error" /\ E!Init /\ NoGet /\ NoCache /\ NoFormat /\ NoServe

MCNext ==
  /\ \/ part = "get" /\ Next /\ UNCHANGED <<cacheVars, formatVars, serveVars, errorVars>>
     \/ part = "cache" /\ D!Next /\ UNCHANGED <<getVars, formatVars, serveVars, errorVars>>
     \/ part = "format" /\ F!Next /\ UNCHANGED <<getVars, cacheVars, serveVars, errorVars>>
     \/ part = "serve" /\ S!Next /\ UNCHANGED <<getVars, cacheVars, formatVars, errorVars>>
     \/ part = "error" /\ E!Next /\ UNCHANGED <<getVars, cacheVars, formatVars, serveVars>>
  /\ UNCHANGED part

MCSpec == MCInit /\ [][MCNext]_allVars

Symmetry == Permutations(Tags) \cup Permutations(Reqs)

-----------------------------------------------------------------------------
\* A GET through the cache (disk-cache.go:158-261), see DiskCache.
GetIsCurrent == part = "cache" => D!GetIsCurrent

\* A DELETE through the cache (disk-cache.go:113-130), see DiskCache.
DeletedIsGone == part = "cache" => D!DeletedIsGone

\* The migration of a drive (format-disk-cache.go:335-547) can be cut off
\* anywhere, see EntryWhole and FormatLast of CacheFormat.
MigrationIsSafe == part = "format" => F!EntryWhole /\ F!FormatLast

\* The drives are used in the order they were formatted in
\* (format-disk-cache.go:220-302), see CacheFormat.
DrivesInOrder == part = "format" => F!DrivesInOrder

\* A request gets at most one response (object-handlers.go:1104-1131,
\* 1200-1244), see Handlers.
OneResponse == part = "serve" => S!OneResponse

\* No copy is stored as an upload, and handlers check before they change
\* anything (api-router.go:36-113, object-handlers.go), see Handlers.
CopyIsNoUpload == part = "serve" => S!CopyIsNoUpload

\* The counters of the requests (handler-utils.go:264-295, http-stats.go), see
\* Handlers.
CountersSettle == part = "serve" => S!CountersSettle

\* The results of DeleteMultipleObjects (bucket-handlers.go:158-278), see
\* Handlers.
ReportedIsOwn == part = "serve" => S!ReportedIsOwn

\* Errors on their way to the client (api-errors.go:1290-1457), see CodeRelayed
\* and QuorumAsksRetry of APIErrors.
CodeRelayed == part = "error" => E!CodeRelayed /\ E!QuorumAsksRetry
=============================================================================
