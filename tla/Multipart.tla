------------------------------- MODULE Multipart -------------------------------
(***************************************************************************)
(* Multipart uploads of one object (cmd/radio.go:613-830).  Radio opens an *)
(* upload at every replica and keeps their IDs in multipartUploadIDMap,    *)
(* under an upload ID of its own.  Parts go to all replicas in parallel    *)
(* and need a quorum; opening, aborting and completing go from replica to  *)
(* replica and stop at the first error.                                    *)
(*                                                                         *)
(* The map is a plain Go map: each access is one step here, and when two   *)
(* requests access it at the same time, one of them writing, the process   *)
(* may die, the write may get lost, and the reader may miss its entry.     *)
(* CopyObjectPart copies from the object that is uploaded to, the case     *)
(* with the most locks in common; its handler opens the source first.  The *)
(* bucket is configured, so that it has clients.                           *)
(***************************************************************************)
EXTENDS QuorumReduce, Sequences, SequencesExt

CONSTANTS Reqs,        \* the goroutines that serve requests, one after the other
          Uploads,     \* radio's upload IDs (mustGetUUID)
          N,           \* number of mirror clients
          Parts,       \* part numbers
          Bodies,      \* contents of parts; an ETag identifies its content
          Plain,       \* the object before, stored by PutObject, as a part its body
          NoPart,
          TheObject,   \* the (bucket, object) pair as a lock resource
          CallErr,     \* the error of a failing replica
          MaxOps,      \* bounds on the requests, on failing calls, on crashes
          MaxFaults, MaxCrashes

VARIABLES idMap,       \* multipartUploadIDMap: whose IDs; <<>> when there is no entry
          st,          \* st[k][u]: the upload at replica k
          parts,       \* parts[k][u]: the parts replica k has for it
          obj,         \* obj[k]: what replica k holds for the object
          readers, writers,  \* the namespace locks
          req,
          used, known, \* upload IDs drawn, and answered to a client
          ackedPart,   \* the part last acknowledged, NoPart once a later one began
          acks,        \* the completions acknowledged, in order
          aborted,     \* the aborts acknowledged
          torn,        \* uploads of which a racing map access lost an ID
          ops, faults, crashes

locks == <<readers, writers>>
replicas == <<st, parts, obj>>
history == <<used, known, ackedPart, acks, aborted, torn>>
vars == <<idMap, replicas, locks, req, history, ops, faults, crashes>>

\* Stands for the requests that ended without releasing the source (see OpenSource).
Leaked == "leaked"

Lk == INSTANCE RWLock WITH Instances <- Reqs \cup {Leaked}, Resources <- Uploads \cup {TheObject}

Clients == 1..N
NoParts == [p \in Parts |-> NoPart]
PlainObject == [up |-> Plain, list |-> NoParts]

Idle == [op |-> "none", pc |-> "idle", up |-> Plain, part |-> NoPart,
         body |-> NoPart, list |-> NoParts, ids |-> <<>>, k |-> 1, errs |-> <<>>]

\* Some uploads were opened before, some of them with parts on every replica.
Init ==
  /\ known \in SUBSET Uploads
  /\ used = known
  /\ idMap = [u \in Uploads |-> IF u \in known THEN [k \in Clients |-> k] ELSE <<>>]
  /\ st = [k \in Clients |-> [u \in Uploads |-> IF u \in known THEN "open" ELSE "none"]]
  /\ \E list \in {NoParts} \cup [Parts -> Bodies] :
       /\ ackedPart = [u \in Uploads |-> IF u \in known THEN list ELSE NoParts]
       /\ parts = [k \in Clients |-> ackedPart]
  /\ obj = [k \in Clients |-> PlainObject]
  /\ Lk!Init
  /\ req = [r \in Reqs |-> Idle]
  /\ acks = <<>> /\ aborted = {} /\ torn = {}
  /\ ops = 0 /\ faults = 0 /\ crashes = 0

-----------------------------------------------------------------------------
(* Requests and their locks                                                *)

Begin(r, q) ==
  /\ req[r].pc = "idle" /\ ops < MaxOps
  /\ ops' = ops + 1
  /\ req' = [req EXCEPT ![r] = q]
  /\ UNCHANGED <<idMap, replicas, locks, known, ackedPart, acks, aborted, torn, faults, crashes>>

NewMultipartUpload(r) ==
  \E u \in Uploads \ used :
    /\ Begin(r, [Idle EXCEPT !.op = "new", !.pc = "lock", !.up = u])
    /\ used' = used \cup {u}

PutObjectPart(r) ==
  \E u \in known, p \in Parts, b \in Bodies :
    /\ Begin(r, [Idle EXCEPT !.op = "part", !.pc = "lock", !.up = u, !.part = p, !.body = b])
    /\ UNCHANGED used

CopyObjectPart(r) ==
  \E u \in known, p \in Parts :
    /\ Begin(r, [Idle EXCEPT !.op = "copy", !.pc = "source", !.up = u, !.part = p,
                             !.body = Plain])
    /\ UNCHANGED used

AbortMultipartUpload(r) ==
  \E u \in known :
    /\ Begin(r, [Idle EXCEPT !.op = "abort", !.pc = "lock", !.up = u])
    /\ UNCHANGED used

\* The handler refuses an empty list of parts.
CompleteMultipartUpload(r) ==
  \E u \in known, list \in [Parts -> Bodies \cup {Plain, NoPart}] \ {NoParts} :
    /\ Begin(r, [Idle EXCEPT !.op = "complete", !.pc = "lock", !.up = u, !.list = list])
    /\ UNCHANGED used

\* The request returns and its deferred calls release what it holds.
Return(r) ==
  /\ readers' = [x \in DOMAIN readers |-> readers[x] \ {r}]
  /\ writers' = [x \in DOMAIN writers |-> writers[x] \ {r}]
  /\ req' = [req EXCEPT ![r] = Idle]

\* CopyObjectPartHandler: GetObjectNInfo locks the source for reading.
LockSource(r) ==
  /\ req[r].pc = "source"
  /\ Lk!GetRLock(r, TheObject)
  /\ req' = [req EXCEPT ![r].pc = "open"]
  /\ UNCHANGED <<idMap, replicas, history, ops, faults, crashes>>

\* quorumInfo finds the source when enough replicas answer with its radio tag; an
\* object that was completed from parts has none.
Found(failing) == Cardinality({k \in Clients : obj[k].up = Plain}) - failing > N \div 2 + 1

\* GetObjectNInfo finds the source, and the handler goes on or refuses the range.
\* When GetObjectNInfo itself fails, for want of a quorum or because it refuses
\* the range, the read lock is left behind (radio.go:301-316).
OpenSource(r) ==
  /\ req[r].pc = "open"
  /\ \E failing \in 0..1 :
       /\ faults + failing <= MaxFaults
       /\ faults' = faults + failing
       /\ \/ Found(failing) /\ req' = [req EXCEPT ![r].pc = "lock"] /\ UNCHANGED locks
          \/ Found(failing) /\ Return(r)
          \/ /\ readers' = [readers EXCEPT ![TheObject] = (@ \ {r}) \cup {Leaked}]
             /\ req' = [req EXCEPT ![r] = Idle]
             /\ UNCHANGED writers
  /\ UNCHANGED <<idMap, replicas, history, ops, crashes>>

\* GetLock or GetRLock on the upload ID succeeds.
LockUpload(r) ==
  /\ req[r].pc = "lock"
  /\ IF req[r].op = "complete" THEN Lk!GetRLock(r, req[r].up) ELSE Lk!GetLock(r, req[r].up)
  /\ req' = [req EXCEPT ![r].pc = CASE req[r].op = "new" -> "call"
                                    [] req[r].op = "complete" -> "object"
                                    [] OTHER -> "lookup"]
  /\ UNCHANGED <<idMap, replicas, history, ops, faults, crashes>>

\* Mutant: the object is locked for reading only.
MutLockObjectShared(r) ==
  /\ req[r].pc = "object"
  /\ Lk!GetRLock(r, TheObject)
  /\ req' = [req EXCEPT ![r].pc = "lookup"]
  /\ UNCHANGED <<idMap, replicas, history, ops, faults, crashes>>

\* CompleteMultipartUpload also locks the object.
LockObject(r) ==
  /\ req[r].pc = "object"
  /\ Lk!GetLock(r, TheObject)
  /\ req' = [req EXCEPT ![r].pc = "lookup"]
  /\ UNCHANGED <<idMap, replicas, history, ops, faults, crashes>>

\* globalOperationTimeout or globalObjectTimeout ends the wait for a lock.
LockTimeout(r) ==
  /\ req[r].pc \in {"source", "lock", "object"}
  /\ Return(r)
  /\ UNCHANGED <<idMap, replicas, history, ops, faults, crashes>>

-----------------------------------------------------------------------------
(* multipartUploadIDMap                                                    *)

AtMap(r) == req[r].pc \in {"lookup", "append", "delete"}
Writes(r) == req[r].pc \in {"append", "delete"}

\* Another request accesses the map at the same time, and one of the two writes.
Racing(r) == \E q \in Reqs \ {r} : AtMap(q) /\ (Writes(q) \/ Writes(r))

\* uploadIDs, ok := l.multipartUploadIDMap[uploadID].  A copy may fail its
\* precondition just before.
Lookup(r) ==
  /\ req[r].pc = "lookup"
  /\ \/ /\ idMap[req[r].up] # <<>>
        /\ req' = [req EXCEPT ![r] = [@ EXCEPT !.pc = "call", !.ids = idMap[req[r].up],
                     !.errs = IF req[r].op \in {"part", "copy"}
                              THEN [k \in Clients |-> "pending"] ELSE <<>>]]
        /\ UNCHANGED locks
     \/ /\ idMap[req[r].up] = <<>> \/ Racing(r) \/ req[r].op = "copy"
        /\ Return(r)  \* InvalidUploadID or PreConditionFailed
  /\ UNCHANGED <<idMap, replicas, history, ops, faults, crashes>>

\* After the last ID was stored the client learns the upload ID.
AppendID(r) ==
  LET u == req[r].up IN
  /\ req[r].pc = "append"
  /\ \/ idMap' = [idMap EXCEPT ![u] = Append(@, req[r].k)] /\ UNCHANGED torn
     \/ /\ Racing(r)
        /\ \E ids \in {idMap[u], <<req[r].k>>} : idMap' = [idMap EXCEPT ![u] = ids]
        /\ torn' = torn \cup {u}
  /\ IF req[r].k < N
     THEN /\ req' = [req EXCEPT ![r].pc = "call", ![r].k = @ + 1]
          /\ UNCHANGED <<locks, known>>
     ELSE Return(r) /\ known' = known \cup {u}
  /\ UNCHANGED <<replicas, used, ackedPart, acks, aborted, ops, faults, crashes>>

\* The last step of AbortMultipartUpload and CompleteMultipartUpload.
DeleteID(r) ==
  LET u == req[r].up IN
  /\ req[r].pc = "delete"
  /\ \/ idMap' = [idMap EXCEPT ![u] = <<>>]
     \/ Racing(r) /\ UNCHANGED idMap
  /\ IF req[r].op = "complete"
     THEN acks' = Append(acks, [up |-> u, list |-> req[r].list]) /\ UNCHANGED aborted
     ELSE aborted' = aborted \cup {u} /\ UNCHANGED acks
  /\ Return(r)
  /\ UNCHANGED <<replicas, used, known, ackedPart, torn, ops, faults, crashes>>

-----------------------------------------------------------------------------
(* The calls                                                               *)

\* NewMultipartUpload at client k.  After an error radio aborts its own upload
\* ID there, which the replica never issued.
NewCall(r) ==
  LET k == req[r].k
      opened == [st EXCEPT ![k][req[r].up] = "open"]
  IN
  /\ req[r].op = "new" /\ req[r].pc = "call"
  /\ \/ /\ st' = opened
        /\ req' = [req EXCEPT ![r].pc = "append"]
        /\ UNCHANGED <<locks, faults>>
     \/ /\ faults < MaxFaults /\ faults' = faults + 1
        /\ st' \in {st, opened}
        /\ Return(r)
  /\ UNCHANGED <<idMap, parts, obj, history, ops, crashes>>

\* Replica k knows the upload that uploadIDs[i] names.
Open(k, i, r) == req[r].ids[i] = k /\ st[k][req[r].up] = "open"

\* PutObjectPart or CopyObjectPart at client k, one of the parallel calls.  A
\* part is copied where x-amz-copy-source-if-match holds.
PartCall(r, k) ==
  LET u == req[r].up
      p == req[r].part
      can == Open(k, k, r) /\ (req[r].op = "copy" => obj[k].up = Plain)
      stored == [parts EXCEPT ![k][u][p] = req[r].body]
  IN
  /\ req[r].op \in {"part", "copy"} /\ req[r].pc = "call"
  /\ Len(req[r].ids) = N /\ req[r].errs[k] = "pending"
  /\ \/ /\ can
        /\ parts' = stored
        /\ req' = [req EXCEPT ![r].errs[k] = Nil]
        /\ UNCHANGED faults
     \/ /\ ~can
        /\ req' = [req EXCEPT ![r].errs[k] = CallErr]
        /\ UNCHANGED <<parts, faults>>
     \/ /\ faults < MaxFaults /\ faults' = faults + 1
        /\ parts' \in {parts} \cup (IF can THEN {stored} ELSE {})
        /\ req' = [req EXCEPT ![r].errs[k] = CallErr]
  /\ ackedPart' = IF parts' = parts THEN ackedPart
                  ELSE [ackedPart EXCEPT ![u][p] = NoPart]
  /\ UNCHANGED <<idMap, st, obj, locks, used, known, acks, aborted, torn, ops, crashes>>

\* Mutant: a write quorum of len/2 instead of len/2+1.
MutPartReturnHalf(r) ==
  /\ req[r].op \in {"part", "copy"} /\ req[r].pc = "call" /\ Len(req[r].ids) = N
  /\ \A k \in Clients : req[r].errs[k] # "pending"
  /\ ackedPart' =
       IF Count(req[r].errs, Nil) >= N \div 2
       THEN [ackedPart EXCEPT ![req[r].up][req[r].part] = req[r].body]
       ELSE ackedPart
  /\ Return(r)
  /\ UNCHANGED <<idMap, replicas, used, known, acks, aborted, torn, ops, faults, crashes>>

\* g.Wait() and the write quorum.
PartReturn(r) ==
  /\ req[r].op \in {"part", "copy"} /\ req[r].pc = "call" /\ Len(req[r].ids) = N
  /\ \A k \in Clients : req[r].errs[k] # "pending"
  /\ ackedPart' =
       IF ReduceQuorumErrs(req[r].errs, Majority(req[r].errs), "InsufficientWriteQuorum") = Nil
       THEN [ackedPart EXCEPT ![req[r].up][req[r].part] = req[r].body]
       ELSE ackedPart
  /\ Return(r)
  /\ UNCHANGED <<idMap, replicas, used, known, acks, aborted, torn, ops, faults, crashes>>

\* An iteration of the loops of AbortMultipartUpload and CompleteMultipartUpload:
\* the call succeeds, is refused or fails with or without effect.
LoopCall(r, can, effect) ==
  /\ req[r].pc = "call"
  /\ \/ /\ can /\ effect
        /\ req' = [req EXCEPT ![r] = IF @.k < Len(@.ids) THEN [@ EXCEPT !.k = @ + 1]
                                     ELSE [@ EXCEPT !.pc = "delete"]]
        /\ UNCHANGED <<locks, faults>>
     \/ ~can /\ Return(r) /\ UNCHANGED <<replicas, faults>>
     \/ /\ faults < MaxFaults /\ faults' = faults + 1
        /\ (can /\ effect) \/ UNCHANGED replicas
        /\ Return(r)
  /\ UNCHANGED <<idMap, history, ops, crashes>>

\* What is left of upload u at client k once it is aborted or completed.
Closed(k, u) ==
  /\ st' = [st EXCEPT ![k][u] = "closed"]
  /\ parts' = [parts EXCEPT ![k][u] = NoParts]

\* Mutant: the abort goes on after an error.
MutAbortCallIgnoresError(r) ==
  LET k == req[r].k IN
  /\ req[r].op = "abort" /\ req[r].pc = "call"
  /\ \/ Open(k, k, r) /\ Closed(k, req[r].up) /\ UNCHANGED <<obj, faults>>
     \/ ~Open(k, k, r) /\ UNCHANGED <<replicas, faults>>
     \/ faults < MaxFaults /\ faults' = faults + 1 /\ UNCHANGED replicas
  /\ req' = [req EXCEPT ![r] = IF @.k < Len(@.ids) THEN [@ EXCEPT !.k = @ + 1]
                               ELSE [@ EXCEPT !.pc = "delete"]]
  /\ UNCHANGED <<idMap, locks, history, ops, crashes>>

\* An iteration of AbortMultipartUpload's loop.
AbortCall(r) ==
  LET k == req[r].k IN
  /\ req[r].op = "abort"
  /\ LoopCall(r, Open(k, k, r), Closed(k, req[r].up) /\ UNCHANGED obj)

\* A replica completes an upload that has the listed parts.
CompleteCall(r) ==
  LET k == req[r].k
      u == req[r].up
      list == req[r].list
      there == \A p \in Parts : list[p] \in {NoPart, parts[k][u][p]}
  IN
  /\ req[r].op = "complete"
  /\ LoopCall(r, Open(k, k, r) /\ there,
              Closed(k, u) /\ obj' = [obj EXCEPT ![k] = [up |-> u, list |-> list]])

-----------------------------------------------------------------------------
\* The process ends and is started again; map, locks and requests are gone.
Restart ==
  /\ idMap' = [u \in Uploads |-> <<>>]
  /\ readers' = [x \in DOMAIN readers |-> {}]
  /\ writers' = [x \in DOMAIN writers |-> {}]
  /\ req' = [r \in Reqs |-> Idle]
  /\ UNCHANGED <<replicas, history, ops, faults>>

\* The process is killed, or the Go runtime ends it for a concurrent map access.
Crash == crashes < MaxCrashes /\ crashes' = crashes + 1 /\ Restart

\* uploadIDs[index] is out of range in a goroutine of PutObjectPart.
Panic(r) ==
  /\ req[r].op \in {"part", "copy"} /\ req[r].pc = "call" /\ Len(req[r].ids) < N
  /\ Restart
  /\ UNCHANGED crashes

Start(r) ==
  \/ NewMultipartUpload(r) \/ PutObjectPart(r) \/ CopyObjectPart(r)
  \/ AbortMultipartUpload(r) \/ CompleteMultipartUpload(r)

Step(r) ==
  \/ LockSource(r) \/ OpenSource(r) \/ LockUpload(r) \/ LockObject(r) \/ LockTimeout(r)
  \/ Lookup(r) \/ AppendID(r) \/ DeleteID(r)
  \/ NewCall(r) \/ (\E k \in Clients : PartCall(r, k)) \/ PartReturn(r)
  \/ AbortCall(r) \/ CompleteCall(r) \/ Panic(r)

Next == Crash \/ \E r \in Reqs : Start(r) \/ Step(r)

\* Calls return and waits for locks are bounded.
Spec == Init /\ [][Next]_vars /\ \A r \in Reqs : WF_vars(Step(r))
-----------------------------------------------------------------------------
Lists == [Parts -> Bodies \cup {Plain, NoPart}]

TypeOK ==
  /\ \A u \in Uploads : Len(idMap[u]) <= N /\ \A i \in 1..Len(idMap[u]) : idMap[u][i] \in i..N
  /\ st \in [Clients -> [Uploads -> {"none", "open", "closed"}]]
  /\ parts \in [Clients -> [Uploads -> Lists]]
  /\ obj \in [Clients -> [up : Uploads \cup {Plain}, list : Lists]]
  /\ known \subseteq used /\ used \subseteq Uploads
  /\ ackedPart \in [Uploads -> Lists]
  /\ \A r \in Reqs : req[r].pc \in {"idle", "source", "open", "lock", "object", "lookup",
                                    "call", "append", "delete"}

\* An acknowledged CompleteMultipartUpload put the listed parts on every replica
\* (radio.go:821-827), and only a later completion takes their place: no replica
\* falls back to an object acknowledged before, or keeps it.  The write lock of
\* the object is what orders completions of different uploads.
AckedCompleteStays ==
  acks # <<>> =>
    \A k \in Clients :
      \/ obj[k] = Last(acks)
      \/ obj[k].up \in Uploads /\ \A i \in 1..Len(acks) : acks[i].up # obj[k].up

\* A part that PutObjectPart or CopyObjectPart acknowledged is on a write quorum
\* of the replicas (radio.go:683, 750) until a later upload of that part changes
\* a replica or the upload is closed.
AckedPartOnQuorum ==
  \A u \in Uploads, p \in Parts :
    ackedPart[u][p] # NoPart /\ (\A k \in Clients : st[k][u] = "open") =>
      Cardinality({k \in Clients : parts[k][u][p] = ackedPart[u][p]}) >= N \div 2 + 1

\* An upload whose AbortMultipartUpload was acknowledged (radio.go:782-788) is
\* open at no replica, no replica made an object of it, and its completion is
\* never acknowledged.  Uploads that lost an ID to a race on the map are excepted:
\* the loop of line 782 does not reach all their replicas.
AbortedIsGone ==
  \A u \in aborted \ torn :
    /\ \A k \in Clients : st[k][u] = "closed" /\ obj[k].up # u
    /\ \A i \in 1..Len(acks) : acks[i].up # u

\* Every request ends, also a completion and a CopyObjectPart that each hold the
\* lock the other one waits for: globalOperationTimeout bounds both waits.
EveryRequestEnds == \A r \in Reqs : req[r].pc # "idle" ~> req[r].pc = "idle"
=============================================================================
