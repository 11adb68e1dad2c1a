# Radio: TLA+ verification project

Radio is an S3 gateway. It mirrors each of its buckets synchronously over
several remote S3 buckets: a write goes to all of them in parallel and counts
when a quorum took it, a read asks all of them and answers what a quorum agrees
on. This directory holds TLA+ models of the program from the HTTP server to the
replica calls, TLC configurations that check them on small instances, and
theorems checked by TLAPS. `PROJECT.json` maps every definition to the lines it
models.

## The system and its parts

| part | code | module |
|---|---|---|
| HTTP server, listener, start-up order, signals, shutdown | cmd/http, cmd/radio-main.go, cmd/signals.go | HTTPServer |
| routes, middleware, S3 handlers, their responses, counters | cmd/api-router.go, cmd/generic-handlers.go, cmd/*-handlers.go, cmd/http-stats.go | Handlers |
| ranges, preconditions and headers of GET and HEAD | cmd/httprange.go, cmd/copy-part-range.go, cmd/object-handlers*.go | GetRequest |
| decoder of chunked uploads | cmd/streaming-signature-v4.go | ChunkedReader |
| error tables, from a replica's answer to the client's | cmd/api-errors.go, cmd/radio-common.go | APIErrors |
| disk cache | cmd/disk-cache*.go | DiskCache |
| format files of the cache drives, migration | cmd/format-disk-cache.go | CacheFormat |
| mirrored object layer: put, get, stat, copy, delete | cmd/radio.go, cmd/object-handlers.go (copy) | MirrorObjects |
| multipart uploads over the in-memory upload-ID map | cmd/radio.go | Multipart |
| quorum reduction: reduceErrs, reduceQuorumErrs, quorumInfo | cmd/radio-utils.go, cmd/radio.go | QuorumReduce, ReduceErrs, QuorumInfoLoop |
| stream duplicator: one input to all replicas | pkg/streamdup | StreamDup |
| namespace lock map: reference-counted readers-writer locks | cmd/namespace-lock.go | NSLock, RWLock |
| lock servers: lock tables, REST client and server, maintenance | cmd/local-locker.go, cmd/lock-rest-*.go | LockServers |
| dynamic lock timeouts | cmd/dynamic-timeouts.go | DynamicTimeout |
| listings, authentication, formats, configuration, logging, erasure coding | | see "Not modelled" |

How they interact: the server counts a request and hands it to the middleware
and a handler. The handler checks it, opens the cache or the object layer
(`radioObjects`) and writes one response. The cache answers from a drive or asks
the object layer and fills an entry in the background. Every operation of the
object layer takes a namespace lock, whose wait is bounded by a dynamic timeout;
calls all replicas (`errgroup`), for uploads through the stream duplicator;
reduces the answers with the quorum functions; and, when a put or copy misses
the quorum, removes what it wrote.

## Modules

### Object layer

**QuorumReduce** states as pure operators what the reductions return.
`ReduceQuorumErrs` is used by the object layer with quorum len/2+1;
`QuorumTags` is quorumInfo's rule, which wants *more* than len/2+1 equal tags.

**ReduceErrs** is the code of reduceErrs/reduceQuorumErrs step by step: one
action per loop iteration. Go visits a map in any order, so `Visit` picks any
error not yet visited. Ignored errors are a constant set, although every call
site passes nil.

**QuorumInfoLoop** does the same for quorumInfo. `MCQuorum` runs the two in the
order of getObjectInfo.

**RWLock** is the abstract promise of a namespace lock. **NSLock** is the lock
map: entries with reference counts, the map mutex (one critical section is one
step), the lsync mutex of an entry (external; acquired or refused after a
timeout or the end of its context), and the three separate sections of unlock.
An entry is an object of its own, so a deleted entry may still be held or waited
on and a new one may exist for the same name.

**MirrorObjects** composes RWLock with the operations of the object layer.
`store[k][o]` is what replica k holds for object o: a radio tag and a body. A
request is a record with the local variables of its goroutine; its `pc` says
which part of the code is next. Replica calls of one request return in any
order. A call succeeds, fails without effect, or fails after it took effect.
The process may crash, which loses locks and requests. Copies include the
handler, which opens the source first (read lock) and calls CopyObject while it
holds that lock; copies of an object to itself take no lock.

**Multipart** is the multipart operations on one object. `idMap` is
multipartUploadIDMap (the replicas' IDs under radio's own), `st` and `parts` are
the uploads at the replicas, `obj` what they hold for the object. Opening,
aborting and completing are one action per replica, in order, up to the first
error; the calls of a part return in any order. The map is an unsynchronised Go
map: every access is a step, and two requests that are both at the map, one of
them to write, race. The outcomes are those the Go runtime can produce: the
process dies (`Crash`), the write is lost, the reader misses the entry. `torn`
remembers uploads that lost an ID this way. An upload that lost an ID ends the
process at the next part (`Panic`: index out of range). CopyObjectPart copies
from the object that is uploaded to, the case with most locks in common, and
includes its handler, which opens the source under a read lock.

### Helpers and locks

**StreamDup** is `streamdup.New` with `multiWriter`: blocks, pipes, one pooled
buffer. **DynamicTimeout** is the timeout's log, its atomic counter and the
adjustment.

**LockServers** is the distributed mode for one resource: `lockMap` is the table
of each server, `connected` whether a REST client is online, `own` the dsync
operation of an owner (external: it asks every server, holds the lock when
len/2+1 granted it and otherwise gives back what it got), `check` the entry that
a server's maintenance asks the others about. Calls and answers are lost, a
server restarts with an empty table. `taken` remembers from whom a restart or the
maintenance took a granted lock.

### Front end

**HTTPServer** has the goroutine of startRadio (`main`), the one that runs Start
(`serve`), the accept goroutines and the connections. The increment of
`requestCount`, the test of `inShutdown`, the handler and the decrement are steps
of their own, and so are the parts of Shutdown: mark, close, poll, timeout. A signal may
come at any time, also while the object layer is initialized.

**Handlers** writes each handler as the sequence of its steps: a check is named
for what it rejects, a call for the method of the object layer. A request carries
the checks it fails (`bad`). `globalHandlers` is the middleware and the route
table decides which handler runs. The goroutine that sends white space during a
completion runs next to its handler. `out` is what was written to the connection
and `stats` the counters of collectAPIStats, which go by the path of a request. A
call of the object layer succeeds, fails without effect or fails after it took
effect. A POST upload panics in the object layer (`Panic`), which ends the
request without an answer. Deletion of several objects has its filter for
repeated keys and the results put back by index.

**GetRequest** runs a GET and a HEAD of one object with the same headers. A byte
is its offset, so the body sent can be compared with the bytes the header names.
The replica's side (`SetRange` of minio-go and what S3 answers to it) is external.

**ChunkedReader** is the Read loop of s3ChunkedReader over a body of tokens
(chunk line, byte, CRLF). A chunk's signature is all data up to it, which is what
chaining makes of it. The body that arrives may have lost, repeated, moved or
damaged a token, or end early; the consumer picks any buffer size.

**APIErrors** carries an error from a replica through ErrorRespToObjectError,
toAPIErrorCode and errorCodes to what the client reads: a document, headers only
(HEAD), or a document behind the white space of a completion. Some operations of
the object layer hand a replica's error on unconverted (`Converted`). A replica
may be a gateway of the same kind, so an answer may pass several; what the client
library makes of an answer without a document is `CodeOfStatus`. Of the entries
of errorCodes that no code tells apart and that are answered alike, one stands
for all.

**DiskCache** is the cache for one object. `bk` is what the object layer holds,
`drv` and `file` the entry on each drive, where a data file is an inode of its
own: a reader keeps the file it opened while a fill creates another. `req`, `rd`
and `fill` are the handler, the goroutine that reads a data file and the one that
fills an entry. The cache's lock is held exactly where the code holds it. Writes
past the cache (copies, multipart), the purge, drives off line, restarts and the
migration flag are environment steps. The object layer answers the cache with the
object or with an error that is neither BackendDown nor ObjectNotFound
(`Answers`), because getObjectInfo returns the replicas' errors as they are.

**CacheFormat** starts the process over drives with any mixture of absent,
unreadable, V1 and V2 format files, creates, loads and validates the formats and
migrates V1 drives, one step per file operation; the process may stop at each. A
Stat that fails counts as "no old entries", and removals may fail unnoticed:
`kept` remembers what they left.

## Runs

The parts of a run that share no state are a sum: a behaviour exercises one of
them (variable `part`) and leaves the others as they are.

| run | instance | what it shows |
|---|---|---|
| MCQuorum | 5 replicas, 3 errors (one ignored), 2 tags; 3 lock servers, 2 writers and a reader | the reductions do not depend on the map order, nil wins ties, quorumInfo matches its reference, an object is found only on a quorum; no two conflicting locks are granted while calls and answers get lost |
| MCNSLock | 3 lock instances, 2 resources | mutual exclusion, the map holds exactly the entries in use, NSLock implements RWLock |
| MCObjectLayer | 1 object, 3 replicas, 1 crash: 3 requests with 2 faults, 2 requests with 3; uploads: 2 requests at a time, 3 in all, 2 uploads, 2 faults, 1 crash | acknowledged writes are on a quorum, reads see them, failed puts clean up, bodies match their info; an acknowledged completion is on every replica and only a later one replaces it, acknowledged parts are on a quorum, an aborted upload is closed everywhere and never becomes an object |
| MCMirrorPairs | 2 requests; two mirrors of 5 with a stale replica; two mirrors of 3 with 2 faults; mirrors of 3 and 2 with 1 fault | the same for copies in both directions, onto itself and between mirrors of different size; equal tags mean equal bodies, no stale version is served |
| MCEnds | 2 requests: on 2 objects, on 1 upload, through the cache on 1 drive | every request ends, also crossed copies, a completion and a copied part that hold each other's locks, and a GET whose fill fails |
| MCHelpers | 3 readers, 2 blocks; 2 requests, log of 4; 2 connections; 5 uploads, buffers up to 3 | whole stream or error for every replica, no buffer reuse before all have read, a full log is reset; a clean exit cuts off no request, a signal ends the process, a failed server is reported; a chunked upload is accepted only as it was sent, and no byte is returned before its chunk is verified unless the buffer is full |
| MCFrontEnd | sizes 0 to 3, all ranges and conditions; 2 cache requests, 2 contents, 2 drives; 2 drives, 3 starts; every route with each of its failing checks beside a completion; errors over 3 gateways | a GET sends the bytes its range names, HEAD announces what GET sends, a copied range is exact; the cache serves no version the backend did not hold during the GET and no deleted one; drives keep their order, and a drive is marked V2 only after its entries are converted and what could be removed is; at most one response per request, no copy stored as an upload, counters settle, results belong to their keys; errors sent as documents keep their code, others their status |
| MCReadQuorum (violation) | 2 replicas | quorumInfo reports InsufficientReadQuorum although a quorum agrees |
| MCNSLockCtx (violation) | 2 requests whose contexts end | a request is refused the lock because another request's context ended |
| MCMirrorLeak (violation) | 1 request | a failing GetObjectNInfo keeps its read lock |
| MCTornGet (violation) | a GET and a PUT, 1 drive | a GET from the cache sends the content of the next version under the ETag of the one before: the data file is read after the lock was given back |
| MCStartupRetry (violation) | 1 gateway | before the object layer is up a request is answered as an internal error without Retry-After |

### Bounds

Three replicas are the smallest mirror with a quorum smaller than the mirror for
writes; five the smallest for reads, because of quorumInfo's threshold. Two
requests are enough for every race between a reader and a writer or two
writers; a third lets a read follow a write that raced another. Two faults
make a put miss its quorum of three replicas, a third one makes its rollback fail
as well. A log of four
entries is the smallest with a share of failures between the two thresholds of
adjust. The mirrors of five and the requests of MCEnds on simple objects have no
faults, to stay within minutes.

For uploads one part is enough, because parts do not interact except through the
list of a completion. The initial states hold uploads opened earlier, with or
without parts on all replicas, so that three requests reach the races among
completions, aborts and part uploads; NewMultipartUpload itself is checked from
the states without open uploads.

An object of three bytes has a first, an inner and a last byte, and a range can
lie before, across and behind its end; an empty one is the boundary of every
comparison. Two drives tell the drive of an entry from the one the hash names;
three starts let a second start find what a crash left and a third what the
second made of it. The `Worlds` of DiskCache and LockServers trade bounds: more
requests with fewer writes, restarts or drives, so that each pair of hazards
occurs in one of them. Chunks of one, two and three bytes against buffers of up
to three end before, at and behind each other. Two hex digits of a chunk size
stand for the sixteen of the code.

Symmetry is used only in runs without liveness properties. The runs whose
requests end turn deadlock checking off, because a program without requests
waits.

### Fairness

A request that was started goes on: replica calls return (HTTP timeouts), a lock
is granted or times out (globalObjectTimeout, globalOperationTimeout), a reader
is closed by its handler, the goroutines of the cache run. The steps of
startRadio, handleSignals and Shutdown and of the serving goroutine are weakly
fair; that a handler returns or a client sends anything is not assumed, which is
what the timeout of Shutdown is for. Whether requests arrive, calls fail or the
process crashes is not fair. MCEnds runs simple requests without faults: the S3
client wraps its body so that a failed upload does not close its pipe, and the
duplicator then waits for ever (stream_dup.go:70). `EveryStreamEnds` states
exactly what is guaranteed: the stream ends when no upload leaves its pipe open
and unread. In the same way `RequestsEnd` excuses a GET that an entry marked
no-store sends round again (disk-cache.go:182), for as long as the entry is there.

## Proofs

**ReduceErrsProofs.** For any number of replicas, any errors and any quorum of
at least len/2+1, the invariant `IInv` (counts equal the number of answers seen;
the maximum is that of the visited errors, nil first) is inductive. Type
correctness, `OrderIndependent` (the result equals the operator of QuorumReduce)
and `NilPreferred` follow.

**NSLockProofs.** For any lock instances, resources and entries. `IInv` is
needed because the reference count alone says nothing about who uses an entry:
it ties the count to the set of instances between their lookup and their last
step, says that every such instance's entry is the one in the map, and that
holders of the mutex are among them. From it follow mutual exclusion, that no
mutex is released by a non-holder, that the map holds the entries in use, and
that every step is a step of RWLock or a stutter (refinement mapping: readers
and writers of a resource are the holders of the mutex of its entry).

**StreamDupProofs.** For any number of readers and blocks (`DupAssumption`).
`IInv` adds to the types that readers differ by at most the block being written,
that the copying goroutine is still reading or writing exactly while no close
error is chosen, and that a clean end is chosen only after every reader got every
block. `AllOrNone` and `LockStep` follow.

**DynamicTimeoutProofs.** For any set of requests, any log size of at least one
and any number of calls, a full log has exactly one request that will copy and
reset it (`OneAdjuster`). Alone it is not inductive: it needs that an index is
held exactly between its draw and the store of its entry, otherwise a stale index
could make a second adjuster.

**HTTPServerProofs.** For any finite set of connections, exit status 0 means that
no handler was serving a request. The invariant ties `requestCount` to the number
of connections between increment and decrement, and says that the server is
marked while Shutdown closes and polls. A request tests the mark after it was
counted, so when the poll sees 0 no handler runs and none will start. The theorem speaks of HTTPServer by
itself; MCHelpers checks the same property on its instance of the module.

**GetRequestProofs.** `AcceptedRangeInObject`: a range that parses and is accepted
lies in the object, for every size. `GetSendsRange`: for any set of sizes, headers
and times a finished GET has sent exactly the bytes its header names, in order.
The invariant says that what is sent so far is a prefix of the range and that
offset and length are those of the accepted range.

Only model-checked: MirrorObjects, Multipart, QuorumInfoLoop, LockServers,
DiskCache, CacheFormat, Handlers, ChunkedReader, APIErrors and all liveness
properties. Liveness under fairness is out of the prover's reach.

## Assumptions and abstractions

- lsync, minio-go, errgroup, io.Pipe and the remote S3 servers are external and
  modelled from their use. A replica call takes effect, if at all, before it
  returns.
- The error the client library makes of a response without a document is that of
  minio-go; what it makes of an error document with status 200 is left out.
- Index k of the source's and of the destination's clients is the same remote
  endpoint, as CopyObject requires to be of any use.
- An ETag identifies a body; a radio tag is a fresh value per put (mustGetUUID).
- The timeout is an unbounded integer: int64 overflow of timeout*125 needs more
  failures in a row than lock waits of that length allow.
- Multipart: the bucket is configured; a replica issues a new ID per upload and
  answers NoSuchUpload for any other; the part size rules of S3 are left out.
- `streamdup.New` with dupN = 0 returns the input and is left out.
- A request's lock is local (NSLock). With peers configured the code uses dsync,
  which LockServers models; the object layer is checked over the abstract lock
  RWLock, which NSLock is proved to implement. LockServers does not implement it
  once a restart or the maintenance has taken a granted lock, and `LocksExclude`
  excuses those holders.
- The verdict of authentication is an input of Handlers that passes or fails.
- Values of headers and forms are parsed or not; ranges and times are numbers.
- A block of a cached file is there with its checksum or not; the age of an entry
  is fresh or old; the purge may take any entry.
- net/http, dsync, hash.Reader, s3select and the file system are external. A file
  operation takes effect when it returns; what a crash does to data that was not
  synced is not modelled.

## Behaviour worth knowing

Met while modelling and kept in the models:

- a copy with `x-amz-metadata-directive: REPLACE` gets no radio tag
  (object-handlers.go:324-326, radio.go:511), so it is acknowledged as failed
  and cannot be read; the same holds for multipart objects, which are created
  without a tag;
- a failed copy of an object to itself is rolled back by removing the object
  from the replicas (radio.go:553), although "only metadata is updated"
  (object-handlers.go:482-483);
- copies of an object to itself hold no lock, so AckedOnQuorum and ReadsSeeAcked
  of MirrorObjects are stated for objects without one;
- ListObjects and the other listings answer from the first replica only;
- PutObjectPart and CopyObjectPart answer with the part info of the first replica
  (radio.go:687, 754), which is empty when that call failed and the others made
  the quorum;
- when a replica refuses a new upload, radio aborts its own upload ID there
  (radio.go:635), which no replica issued, and the replicas before it keep their
  open uploads;
- a completion that failed at a later replica cannot be retried, since the
  earlier ones no longer know the upload; the same holds for an abort;
- a copied part whose source is the object of the upload and a completion of that
  upload can wait for each other until globalOperationTimeout;
- globalEndpoints and globalDomainNames are never assigned, so no lock server is
  registered, maintenance visits nothing and locks are local as the program is
  put together;
- startRadio tests globalCacheConfig.Enabled (radio-main.go:95-104) before
  lookupConfigEnv sets it (107), so the cache is not switched on at a start;
- a stale entry is served for a HEAD where a GET would ask the backend again
  (disk-cache.go:277, 281); `GetIsCurrent` is therefore about GET;
- newCache leaves nil for a drive without format (disk-cache.go:440), and after a
  migration a purge is started on every drive, nil ones included (515);
- "mtime < t+1s instead of mtime <= t" (object-handlers-common.go:200-201) is
  computed as mtime <= t+1s (202);
- a lock client that met a network error is marked off line and comes back after
  three seconds (lock-rest-client.go:63-66), although its comment says
  "permanently" (45-47);
- CopyObjectHandler opens its source without CheckCopyPrecondFn
  (object-handlers.go:427), so the copy preconditions apply to copied parts only;
- errorCodes has no entry for several codes (ErrServerNotInitialized,
  ErrReadQuorum, ErrWriteQuorum, ErrOperationTimedOut, ErrInvalidObjectName,
  ErrBackendDown among them), which are answered as internal errors;
- a DELETE that failed is answered 204 (object-handlers.go:1280);
- a POST upload passes no metadata map (bucket-handlers.go:435), so PutObject's
  write to it (radio.go:460) panics: the client gets no answer, and since the
  decrement after the handler is not deferred (handler-utils.go:280) the "Total
  number of running s3 requests" (metrics.go:102) keeps the request for ever;
- an error may be answered to a request that took effect: a lost answer of a
  replica, quorumInfo after a put that made its quorum (radio.go:488-491), the
  read after a copy (559), a completion that fails at a later replica (821-825);
- the counters take redirects and 304 for errors, leave out buckets whose name
  begins with "minio" and, in the totals, keys that end like the path of the
  metrics;
- a key that a multiple delete names twice is reported deleted at its other
  places also when its deletion failed (bucket-handlers.go:226-262);
- between gateways an error answered to a HEAD loses its code and Retry-After
  (api-response.go:706);
- the cache's branches for a backend that is down and for an object that is gone
  (disk-cache.go:190-201, 292-304) are never taken, because getObjectInfo returns
  the replicas' errors unconverted (radio.go:415-416); the cached reader is not
  closed when the backend's answer is an error, so its goroutine stays;
- the metadata of a deleted object can come back without data: a fill whose client
  left recreates the entry before it notices, while another GET refreshes its
  metadata; `DeletedIsGone` is about the data;
- a migration ignores the errors of its removals and of Stat
  (format-disk-cache.go:428-433, 513-521) and marks the drive V2 all the same.

## Not modelled

- Listings and the conversions of radio-common.go pass the answer of the first
  replica on, field by field, and change no state.
- Authentication, signatures, post policies and tokens are functions of one
  request over strings and digests; there is no state to explore and nothing a
  small instance would show.
- Formats of responses, headers and metadata.
- Flags, environment, configuration files, endpoints and addresses are read
  before the server starts. The restart and stop messages of service.go have no
  sender in this program.
- Logging, tracing, metrics and the cache's own statistics observe the system.
- Erasure coding: erasureClients is filled and never used by an operation.
