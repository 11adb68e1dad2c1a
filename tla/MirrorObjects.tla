---------------------------- MODULE MirrorObjects ----------------------------
(***************************************************************************)
(* The object layer of radio (radioObjects in cmd/radio.go) over mirrored  *)
(* remote buckets: PutObject, GetObjectNInfo, GetObjectInfo, CopyObject    *)
(* (with the handler that opens its source) and DeleteObject.              *)
(*                                                                         *)
(* A request takes the namespace lock, calls all replicas in parallel      *)
(* (errgroup), waits for all answers and reduces them to a quorum.  Calls  *)
(* fail with or without effect, the lock times out, and the process may    *)
(* crash, which loses the locks and the requests but not the replicas.     *)
(* The lock is RWLock, which NSLock implements.  Index k of the source's   *)
(* and of the destination's clients is the same remote endpoint.           *)
(***************************************************************************)
EXTENDS QuorumReduce

CONSTANTS Reqs,          \* requests; a PutObject's radio tag and body are its request
          Objects,       \* (bucket, object) pairs
          Clnts,         \* Clnts[o]: number of mirror clients of o's bucket, 0 if
                         \* the bucket is not configured
          Initial,       \* tag and body of what objects hold initially
          Older,         \* the version before that
          MaxLate,       \* the replicas 1..MaxLate may hold Older instead
          Ops,           \* the operations clients ask for
          CopyPairs,     \* the <<source, destination>> pairs that are copied
          NoObj,         \* no object, and the zero ObjectInfo
          NoInfo,        \* no ObjectInfo was returned yet
          Unknown,       \* see acked
          NotFoundErrs,  \* what StatObject may answer for a missing key
          CallErrs,      \* other errors of a replica
          MaxFaults,     \* bound on failing calls
          MaxCrashes     \* bound on crashes of the process

VARIABLES store,    \* store[k][o]: what client k's bucket holds for o
          readers, writers,  \* the namespace lock
          req,      \* the requests and their local variables
          acked,    \* what the last acknowledged write left behind, or Unknown
                    \* since a later write began
          faults, crashes

vars == <<store, readers, writers, req, acked, faults, crashes>>

Lk == INSTANCE RWLock WITH Instances <- Reqs, Resources <- Objects

MaxClnts == CHOOSE n \in {Clnts[o] : o \in Objects} : \A o \in Objects : Clnts[o] <= n
Replicas == 1..MaxClnts
Clients(o) == 1..Clnts[o]

Pending == "pending"      \* errs[k]: no answer yet
Removed == "removed"      \* errs[k]: rolled back
Version(t, b) == [tag |-> t, body |-> b]

\* Errors that do not come from a replica.
LocalErrs == {"InsufficientReadQuorum", "InsufficientWriteQuorum",
              "BucketNotFound", "OperationTimedOut", "InvalidRange",
              "InvalidCopyDest", "EntityTooLarge", "unexpected"}

NewReq == [op |-> "none", src |-> NoObj, dst |-> NoObj, replace |-> FALSE,
           pc |-> "new", errs |-> <<>>, seen |-> <<>>, info |-> NoInfo,
           body |-> NoObj, result |-> Nil,
           failed |-> {}]  \* replicas of which a writing call failed

\* Every object is on its replicas or deleted; one replica may have missed that
\* write, and the others are a quorum.
Init ==
  /\ \E there \in SUBSET {o \in Objects : Clnts[o] > 0},
        late \in {f \in [Objects -> 0..MaxLate] : \A o \in Objects : f[o] <= Clnts[o]} :
       LET content(o) == IF o \in there THEN Version(Initial, Initial) ELSE NoObj IN
       /\ store = [k \in Replicas |-> [o \in Objects |->
                     IF k = late[o] THEN Version(Older, Older) ELSE content(o)]]
       /\ acked = [o \in Objects |-> content(o)]
  /\ Lk!Init
  /\ req = [r \in Reqs |-> NewReq]
  /\ faults = 0
  /\ crashes = 0

locks == <<readers, writers>>
bounds == <<faults, crashes>>

-----------------------------------------------------------------------------
(* The requests                                                            *)

Begin(r, op, src, dst, replace, pc) ==
  /\ req[r].pc = "new" /\ op \in Ops
  /\ req' = [req EXCEPT ![r] = [@ EXCEPT !.op = op, !.src = src, !.dst = dst,
                                         !.replace = replace, !.pc = pc]]
  /\ UNCHANGED <<store, locks, acked, bounds>>

\* The record of request q once its calls to the clients of object o are out.
Calling(q, pc, o) ==
  [q EXCEPT !.pc = pc, !.errs = [k \in Clients(o) |-> Pending],
            !.seen = [k \in Clients(o) |-> NoObj]]

PutObject(r) == \E o \in Objects : Begin(r, "put", o, o, FALSE, "lockDst")
DeleteObject(r) == \E o \in Objects : Begin(r, "delete", o, o, FALSE, "lockDst")
GetObjectInfo(r) == \E o \in Objects : Begin(r, "stat", o, o, FALSE, "lockSrc")
GetObjectNInfo(r) == \E o \in Objects : Begin(r, "get", o, o, FALSE, "lockSrc")

\* CopyObjectHandler opens the source with a read lock, or with NoLock when it
\* is also the destination.
CopyObjectHandler(r) ==
  \E p \in CopyPairs, replace \in BOOLEAN :
    IF p[1] # p[2] THEN Begin(r, "copy", p[1], p[2], replace, "lockSrc")
    ELSE /\ req[r].pc = "new" /\ "copy" \in Ops
         /\ req' = [req EXCEPT ![r] =
              Calling([@ EXCEPT !.op = "copy", !.src = p[1], !.dst = p[2],
                                !.replace = replace], "stat", p[1])]
         /\ UNCHANGED <<store, locks, acked, bounds>>

SelfCopy(r) == req[r].op = "copy" /\ req[r].src = req[r].dst

\* The request ends with the given result.
Done(r, result) ==
  req' = [req EXCEPT ![r] = [@ EXCEPT !.pc = "done", !.result = result,
                                      !.errs = <<>>, !.seen = <<>>,
                                      !.failed = IF result = Nil THEN {} ELSE @]]

\* Mutant: a reader that does not take the lock.
MutLockSrcNoLock(r) ==
  /\ req[r].pc = "lockSrc"
  /\ req' = [req EXCEPT ![r] = Calling(@, "stat", @.src)]
  /\ UNCHANGED <<store, locks, acked, bounds>>

\* GetRLock(globalObjectTimeout) on the source succeeds.
LockSrc(r) ==
  /\ req[r].pc = "lockSrc"
  /\ Lk!GetRLock(r, req[r].src)
  /\ req' = [req EXCEPT ![r] = Calling(@, "stat", @.src)]
  /\ UNCHANGED <<store, acked, bounds>>

\* GetLock(globalObjectTimeout) on the destination succeeds.
LockDst(r) ==
  /\ req[r].pc = "lockDst"
  /\ Lk!GetLock(r, req[r].dst)
  /\ req' = [req EXCEPT ![r] = Calling(@, "call", @.dst)]
  /\ UNCHANGED <<store, acked, bounds>>

\* Mutant: a write lock that is waited for without a timeout.
MutLockTimeoutSrcOnly(r) ==
  /\ req[r].pc = "lockSrc"
  /\ Done(r, "OperationTimedOut")
  /\ UNCHANGED <<store, locks, acked, bounds>>

\* The lock is not granted in time (or the context ends); a copy still closes
\* the reader of its source.
LockTimeout(r) ==
  /\ req[r].pc \in {"lockSrc", "lockDst"}
  /\ IF req[r].op = "copy" /\ req[r].pc = "lockDst"
     THEN req' = [req EXCEPT ![r].pc = "close", ![r].result = "OperationTimedOut"]
     ELSE Done(r, "OperationTimedOut")
  /\ UNCHANGED <<store, locks, acked, bounds>>

-----------------------------------------------------------------------------
(* getObjectInfo, inside "stat" on the source and "restat" on the          *)
(* destination of a copy                                                   *)

StatTarget(r) == IF req[r].pc = "restat" THEN req[r].dst ELSE req[r].src

\* One StatObject call returns.
StatCall(r, k) ==
  LET v == store[k][StatTarget(r)] IN
  /\ req[r].pc \in {"stat", "restat"}
  /\ k \in DOMAIN req[r].errs /\ req[r].errs[k] = Pending
  /\ \/ /\ v # NoObj
        /\ req' = [req EXCEPT ![r].errs[k] = Nil, ![r].seen[k] = v]
        /\ UNCHANGED faults
     \/ /\ v = NoObj
        /\ \E e \in NotFoundErrs : req' = [req EXCEPT ![r].errs[k] = e]
        /\ UNCHANGED faults
     \/ /\ faults < MaxFaults
        /\ \E e \in CallErrs : req' = [req EXCEPT ![r].errs[k] = e]
        /\ faults' = faults + 1
  /\ UNCHANGED <<store, locks, acked, crashes>>

Answered(r) == \A k \in DOMAIN req[r].errs : req[r].errs[k] # Pending

\* What getObjectInfo returns: an error, or Nil with quorumInfo's answer.
SeenTags(q) == [k \in DOMAIN q.seen |-> IF q.seen[k] = NoObj THEN NoTag ELSE q.seen[k].tag]

InfoErr(q) ==
  LET maxErr == ReduceQuorumErrs(q.errs, Majority(q.errs), "InsufficientReadQuorum") IN
  IF DOMAIN q.errs = {} THEN "BucketNotFound"
  ELSE IF maxErr # Nil THEN maxErr
  ELSE IF QuorumTags(SeenTags(q)) = {} THEN "InsufficientReadQuorum"
  ELSE Nil

\* Mutant: the answer of the first replica instead of one with the quorum's tag.
MutInfoOfFirst(q) == [index |-> 1, ver |-> q.seen[1]]

InfoOf(q) ==
  LET tags == SeenTags(q)
      index == FirstIndex(tags, CHOOSE t \in QuorumTags(tags) : TRUE)
  IN  [index |-> index, ver |-> q.seen[index]]

\* GetObjectInfo returns, the deferred RUnlock included.
InfoReturn(r) ==
  /\ req[r].pc = "stat" /\ req[r].op = "stat" /\ Answered(r)
  /\ LET err == InfoErr(req[r]) IN
     req' = [req EXCEPT ![r] =
              [@ EXCEPT !.pc = "done", !.result = err, !.errs = <<>>, !.seen = <<>>,
                        !.info = IF err = Nil THEN InfoOf(req[r]) ELSE NoInfo]]
  /\ Lk!RUnlock(r, req[r].src)
  /\ UNCHANGED <<store, acked, bounds>>

\* GetObjectNInfo returns an error, for a get or for the source of a copy:
\* nothing calls nsUnlocker (lines 301-316).
OpenFails(r) ==
  /\ req[r].pc = "stat" /\ req[r].op \in {"get", "copy"} /\ Answered(r)
  /\ \/ InfoErr(req[r]) # Nil /\ Done(r, InfoErr(req[r]))
     \/ req[r].op = "get" /\ InfoErr(req[r]) = Nil /\ Done(r, "InvalidRange")
  /\ UNCHANGED <<store, locks, acked, bounds>>

\* GetObjectNInfo returns a reader.  A copy goes on to CopyObject, which locks
\* the destination unless it is the source; without REPLACE the handler refuses
\* to copy an object to itself, and it refuses an object that is too large.
OpenReader(r) ==
  /\ req[r].pc = "stat" /\ req[r].op \in {"get", "copy"} /\ Answered(r)
  /\ InfoErr(req[r]) = Nil
  /\ LET q == [req[r] EXCEPT !.info = InfoOf(req[r]), !.errs = <<>>, !.seen = <<>>] IN
     \/ /\ req[r].op = "get"
        /\ req' = [req EXCEPT ![r] = [q EXCEPT !.pc = "open"]]
     \/ /\ req[r].op = "copy" /\ ~SelfCopy(r)
        /\ req' = [req EXCEPT ![r] = [q EXCEPT !.pc = "lockDst"]]
     \/ /\ req[r].op = "copy"
        /\ req' = [req EXCEPT ![r] = [q EXCEPT !.pc = "close", !.result = "EntityTooLarge"]]
     \/ /\ SelfCopy(r) /\ req[r].replace
        /\ req' = [req EXCEPT ![r] = Calling(q, "call", q.dst)]
     \/ /\ SelfCopy(r) /\ ~req[r].replace
        /\ Done(r, "InvalidCopyDest")
  /\ UNCHANGED <<store, locks, acked, bounds>>

\* The goroutine of GetObjectNInfo fetches the body from the replica quorumInfo
\* chose; it may also fail, and then the reader returns the error.
FetchBody(r) ==
  LET v == store[req[r].info.index][req[r].src] IN
  /\ req[r].pc = "open" /\ req[r].body = NoObj
  /\ \/ /\ v # NoObj
        /\ req' = [req EXCEPT ![r].body = v.body, ![r].pc = "close"]
        /\ UNCHANGED faults
     \/ /\ v = NoObj
        /\ req' = [req EXCEPT ![r].pc = "close"]
        /\ UNCHANGED faults
     \/ /\ faults < MaxFaults
        /\ req' = [req EXCEPT ![r].pc = "close"]
        /\ faults' = faults + 1
  /\ UNCHANGED <<store, locks, acked, crashes>>

\* gr.Close(): at the end of the stream, or early when the client goes away.
CloseReader(r) ==
  /\ req[r].pc \in {"open", "close"}
  /\ IF SelfCopy(r) THEN UNCHANGED locks ELSE Lk!RUnlock(r, req[r].src)
  /\ Done(r, req[r].result)
  /\ UNCHANGED <<store, acked, bounds>>

-----------------------------------------------------------------------------
(* The parallel calls of PutObject, CopyObject and DeleteObject            *)

\* The copy replica k makes has the source's body there; CopyObject's metadata
\* is that of the source as it was read, or the request's own with REPLACE,
\* which has no radio tag.
NewContent(r, k) ==
  CASE req[r].op = "put" -> Version(r, r)
    [] req[r].op = "delete" -> NoObj
    [] req[r].op = "copy" ->
         Version(IF req[r].replace THEN NoTag ELSE req[r].info.ver.tag,
                 store[k][req[r].src].body)

\* Mutant: a copy without x-amz-copy-source-if-match.
MutSourceMatchesAny(r, k) == store[k][req[r].src] # NoObj

\* x-amz-copy-source-if-match holds at replica k: its source has the ETag that
\* was read.
SourceMatches(r, k) ==
  LET v == store[k][req[r].src] IN v # NoObj /\ v.body = req[r].info.ver.body

CanServe(r, k) == req[r].op = "copy" => SourceMatches(r, k)

CallFails(r, k) ==
  \E e \in CallErrs :
    req' = [req EXCEPT ![r].errs[k] = e, ![r].failed = @ \cup {k}]

\* One call returns: it succeeds, it fails with or without effect, or the
\* replica refuses it.
WriteCall(r, k) ==
  LET dst == req[r].dst IN
  /\ req[r].pc = "call"
  /\ req[r].op = "copy" => Clnts[req[r].src] = Clnts[dst]
  /\ k \in DOMAIN req[r].errs /\ req[r].errs[k] = Pending
  /\ \/ /\ CanServe(r, k)
        /\ store' = [store EXCEPT ![k][dst] = NewContent(r, k)]
        /\ req' = [req EXCEPT ![r].errs[k] = Nil]
        /\ UNCHANGED faults
     \/ /\ CanServe(r, k) /\ faults < MaxFaults
        /\ store' = [store EXCEPT ![k][dst] = NewContent(r, k)]
        /\ CallFails(r, k)
        /\ faults' = faults + 1
     \/ /\ faults < MaxFaults
        /\ CallFails(r, k)
        /\ faults' = faults + 1
        /\ UNCHANGED store
     \/ /\ ~CanServe(r, k)
        /\ CallFails(r, k)
        /\ UNCHANGED <<store, faults>>
  /\ acked' = IF store' = store THEN acked ELSE [acked EXCEPT ![dst] = Unknown]
  /\ UNCHANGED <<locks, crashes>>

\* Mutant: a write quorum of len/2 instead of len/2+1.
MutWriteErrHalf(q) ==
  ReduceQuorumErrs(q.errs, Majority(q.errs) - 1, "InsufficientWriteQuorum")

WriteErr(q) ==
  IF DOMAIN q.errs = {} THEN "BucketNotFound"
  ELSE ReduceQuorumErrs(q.errs, Majority(q.errs), "InsufficientWriteQuorum")

Mismatch(r) == req[r].op = "copy" /\ Clnts[req[r].src] # Clnts[req[r].dst]

\* The deferred Unlock of PutObject, DeleteObject and CopyObject, after which
\* the copy handler still closes the reader.
WriteDone(r, result) ==
  /\ IF SelfCopy(r) THEN UNCHANGED locks ELSE Lk!Unlock(r, req[r].dst)
  /\ IF req[r].op = "copy"
     THEN req' = [req EXCEPT ![r] = [@ EXCEPT !.pc = "close", !.result = result,
                                              !.errs = <<>>, !.seen = <<>>]]
     ELSE Done(r, result)

\* DeleteObject returns what the quorum answered.
DeleteReturn(r) ==
  /\ req[r].pc = "call" /\ req[r].op = "delete" /\ Answered(r)
  /\ LET err == WriteErr(req[r]) IN
     /\ acked' = IF err = Nil THEN [acked EXCEPT ![req[r].dst] = NoObj] ELSE acked
     /\ WriteDone(r, err)
  /\ UNCHANGED <<store, bounds>>

\* PutObject with a write quorum.  quorumInfo runs over oinfos, which all carry
\* the new tag, also those of failed calls.
PutReturn(r) ==
  /\ req[r].pc = "call" /\ req[r].op = "put" /\ Answered(r)
  /\ WriteErr(req[r]) = Nil
  /\ IF QuorumTags([k \in DOMAIN req[r].errs |-> r]) = {}
     THEN WriteDone(r, "InsufficientReadQuorum") /\ UNCHANGED acked
     ELSE WriteDone(r, Nil) /\ acked' = [acked EXCEPT ![req[r].dst] = Version(r, r)]
  /\ UNCHANGED <<store, bounds>>

\* CopyObject with a write quorum reads the destination back.
CopyReread(r) ==
  /\ req[r].pc = "call" /\ req[r].op = "copy" /\ ~Mismatch(r) /\ Answered(r)
  /\ WriteErr(req[r]) = Nil
  /\ req' = [req EXCEPT ![r] = Calling(@, "restat", @.dst)]
  /\ UNCHANGED <<store, locks, acked, bounds>>

CopyReturn(r) ==
  /\ req[r].pc = "restat" /\ Answered(r)
  /\ LET err == InfoErr(req[r]) IN
     /\ acked' = IF err = Nil
                 THEN [acked EXCEPT ![req[r].dst] = InfoOf(req[r]).ver] ELSE acked
     /\ WriteDone(r, err)
  /\ UNCHANGED <<store, bounds>>

\* A write returns before it calls a replica: the bucket is not configured, or
\* the mirrors of a copy differ in size.
WriteRefused(r) ==
  /\ req[r].pc = "call"
  /\ \/ req[r].op = "put" /\ Clients(req[r].dst) = {} /\ WriteDone(r, "BucketNotFound")
     \/ Mismatch(r) /\ WriteDone(r, "unexpected")
  /\ UNCHANGED <<store, acked, bounds>>

\* Mutant: a failed write that is not rolled back.
MutStartRollbackNone(r) ==
  /\ req[r].pc = "call" /\ req[r].op \in {"put", "copy"} /\ ~Mismatch(r)
  /\ Answered(r) /\ DOMAIN req[r].errs # {} /\ WriteErr(req[r]) # Nil
  /\ WriteDone(r, WriteErr(req[r]))
  /\ UNCHANGED <<store, acked, bounds>>

\* PutObject or CopyObject without a write quorum: undo what succeeded.
StartRollback(r) ==
  /\ req[r].pc = "call" /\ req[r].op \in {"put", "copy"} /\ ~Mismatch(r)
  /\ Answered(r) /\ DOMAIN req[r].errs # {} /\ WriteErr(req[r]) # Nil
  /\ req' = [req EXCEPT ![r].pc = "rollback", ![r].result = WriteErr(req[r])]
  /\ UNCHANGED <<store, locks, acked, bounds>>

\* One iteration of the rollback loop: RemoveObject, whose error is ignored.
Rollback(r) ==
  LET succeeded == {k \in DOMAIN req[r].errs : req[r].errs[k] = Nil}
      index == CHOOSE k \in succeeded : \A j \in succeeded : k <= j
  IN
  /\ req[r].pc = "rollback" /\ succeeded # {}
  /\ \/ /\ store' = [store EXCEPT ![index][req[r].dst] = NoObj]
        /\ req' = [req EXCEPT ![r].errs[index] = Removed]
        /\ UNCHANGED faults
     \/ /\ faults < MaxFaults /\ faults' = faults + 1
        /\ req' = [req EXCEPT ![r].errs[index] = Removed, ![r].failed = @ \cup {index}]
        /\ UNCHANGED store
  /\ UNCHANGED <<locks, acked, crashes>>

RollbackReturn(r) ==
  /\ req[r].pc = "rollback"
  /\ \A k \in DOMAIN req[r].errs : req[r].errs[k] # Nil
  /\ WriteDone(r, req[r].result)
  /\ UNCHANGED <<store, acked, bounds>>

-----------------------------------------------------------------------------
\* The process dies and is started again: requests and locks are in its memory.
Crash ==
  /\ crashes < MaxCrashes
  /\ crashes' = crashes + 1
  /\ readers' = [o \in Objects |-> {}]
  /\ writers' = [o \in Objects |-> {}]
  /\ req' = [r \in Reqs |-> IF req[r].pc \in {"new", "done"} THEN req[r]
                            ELSE [req[r] EXCEPT !.pc = "gone", !.errs = <<>>,
                                                !.seen = <<>>]]
  /\ UNCHANGED <<store, acked, faults>>

Start(r) ==
  \/ PutObject(r) \/ DeleteObject(r) \/ GetObjectInfo(r) \/ GetObjectNInfo(r)
  \/ CopyObjectHandler(r)

Step(r) ==
  \/ LockSrc(r) \/ LockDst(r) \/ LockTimeout(r)
  \/ \E k \in Replicas : StatCall(r, k) \/ WriteCall(r, k)
  \/ InfoReturn(r) \/ OpenFails(r) \/ OpenReader(r) \/ FetchBody(r) \/ CloseReader(r)
  \/ DeleteReturn(r) \/ PutReturn(r) \/ CopyReread(r) \/ CopyReturn(r)
  \/ WriteRefused(r) \/ StartRollback(r) \/ Rollback(r) \/ RollbackReturn(r)

Next == Crash \/ \E r \in Reqs : Start(r) \/ Step(r)

\* Calls to replicas return, locks are granted or time out, and readers are
\* closed; whether a request arrives is up to the clients.
Spec == Init /\ [][Next]_vars /\ \A r \in Reqs : WF_vars(Step(r))

-----------------------------------------------------------------------------
Versions == [tag : Reqs \cup {Initial, Older, NoTag}, body : Reqs \cup {Initial, Older}]
Contents == Versions \cup {NoObj}
Answers == {Pending, Removed, Nil} \cup NotFoundErrs \cup CallErrs
PCs == {"new", "lockSrc", "lockDst", "stat", "restat", "open", "close", "call",
        "rollback", "done", "gone"}

TypeOK ==
  /\ store \in [Replicas -> [Objects -> Contents]]
  /\ readers \in [Objects -> SUBSET Reqs]
  /\ writers \in [Objects -> SUBSET Reqs]
  /\ acked \in [Objects -> Contents \cup {Unknown}]
  /\ faults \in 0..MaxFaults /\ crashes \in 0..MaxCrashes
  /\ \A r \in Reqs :
       /\ req[r].pc \in PCs
       /\ req[r].op \in {"none", "put", "delete", "stat", "get", "copy"}
       /\ {req[r].src, req[r].dst} \subseteq Objects \cup {NoObj}
       /\ \A k \in DOMAIN req[r].errs : req[r].errs[k] \in Answers
       /\ \A k \in DOMAIN req[r].seen : req[r].seen[k] \in Contents
       /\ req[r].body \in Reqs \cup {Initial, Older, NoObj}
       /\ req[r].result \in LocalErrs \cup Answers
       /\ req[r].failed \subseteq Replicas

\* A copy of o to itself, which runs without a lock, was started.
Unlocked(o) == \E r \in Reqs : SelfCopy(r) /\ req[r].dst = o

\* What an acknowledged PutObject, CopyObject or DeleteObject left behind is on
\* a write quorum of the replicas (radio.go, lines 479, 550 and 586) until a
\* later write of the object changes a replica.  Copies of an object to itself
\* are not locked and void this.
AckedOnQuorum ==
  \A o \in Objects :
    Clnts[o] > 0 /\ acked[o] # Unknown /\ ~Unlocked(o) =>
      Cardinality({k \in Clients(o) : store[k][o] = acked[o]}) >= Clnts[o] \div 2 + 1

\* Read your writes: when GetObjectInfo or GetObjectNInfo finds an object, or
\* answers with a replica's "not found", that is what the last acknowledged
\* write left; an older version is never served (copies of the object to itself
\* excepted).
ReadSeesAcked ==
  \A r \in Reqs :
    /\ req[r].pc = "stat" /\ req'[r].pc # "stat"
    /\ acked[req[r].src] # Unknown /\ ~Unlocked(req[r].src)
    =>
      /\ req'[r].info # NoInfo => req'[r].info.ver = acked[req[r].src]
      /\ req'[r].result \in NotFoundErrs => acked[req[r].src] = NoObj

\* quorumInfo compares tags only.  That is enough: copies with the same radio
\* tag have the same body, on whichever replica or object they are.
TagDeterminesBody ==
  LET there == {store[k][o] : k \in Replicas, o \in Objects} \ {NoObj} IN
  \A v, w \in there : v.tag = w.tag /\ v.tag # NoTag => v.body = w.body

\* The body a reader of GetObjectNInfo delivers is the one its ObjectInfo
\* describes, although it is fetched by a second call to a single replica.
ServedMatchesInfo ==
  \A r \in Reqs : req[r].body # NoObj => req[r].body = req[r].info.ver.body

\* A PutObject that reports failure to reach a write quorum (line 479) leaves
\* its version on no replica, except where a call failed: the PutObject call
\* after taking effect, or the RemoveObject call of the rollback.
FailedPutLeavesNothing ==
  \A r \in Reqs :
    req[r].op = "put" /\ req[r].pc = "done"
      /\ req[r].result \notin {Nil, "InsufficientReadQuorum"} =>
      {k \in Replicas : store[k][req[r].dst] = Version(r, r)} \subseteq req[r].failed

\* Every request ends, also when two copies lock each other's source, because
\* waiting for the lock is bounded by globalObjectTimeout.
EveryRequestEnds ==
  \A r \in Reqs : req[r].pc # "new" ~> req[r].pc \in {"done", "gone"}

\* "The Close method unlocks the object after reading, so it must always be
\* called after usage.  [...] when implementations return err != nil, this
\* function MUST NOT return a non-nil ReadCloser" (object-api-interface.go:
\* 48-52): with nothing to close, a request that ended holds no lock.
EndedHoldsNoLock ==
  \A r \in Reqs, o \in Objects :
    req[r].pc = "done" => r \notin readers[o] \cup writers[o]
=============================================================================
