---------------------------- MODULE MCObjectLayer ----------------------------
(***************************************************************************)
(* One run for the object layer: three simple requests or two with more    *)
(* faults and HEAD as well (MirrorObjects), and multipart uploads          *)
(* (Multipart).  A behaviour has requests of one kind; the variables of    *)
(* the same name serve all.                                                *)
(***************************************************************************)
EXTENDS MCMirrorObjects

CONSTANTS u1, u2, Parts, Bodies, Plain, NoPart, TheObject, CallErr, MaxOps, None

VARIABLES part, idMap, st, parts, obj, used, known, ackedPart, acks, aborted,
          torn, ops

P == INSTANCE MirrorObjects WITH
       Reqs <- {r1, r2}, Ops <- {"put", "delete", "stat", "get"}, MaxFaults <- 3
M == INSTANCE Multipart WITH
       Reqs <- {r1, r2}, Uploads <- {u1, u2}, N <- 3, MaxFaults <- 2

uploadVars == <<idMap, st, parts, obj, used, known, ackedPart, acks, aborted,
                torn, ops>>
allVars == <<part, vars, uploadVars>>

MCInit ==
  \/ /\ \/ part = "simple" /\ Init
        \/ part = "pair" /\ P!Init
     /\ idMap = None /\ st = None /\ parts = None /\ obj = None
     /\ used = None /\ known = None /\ ackedPart = None /\ acks = None
     /\ aborted = None /\ torn = None /\ ops = None
  \/ part = "upload" /\ M!Init /\ store = None /\ acked = None

MCNext ==
  \/ part = "simple" /\ Next /\ UNCHANGED <<part, uploadVars>>
  \/ part = "pair" /\ P!Next /\ UNCHANGED <<part, uploadVars>>
  \/ part = "upload" /\ M!Next /\ UNCHANGED <<part, store, acked>>

MCSpec == MCInit /\ [][MCNext]_allVars

\* What PutObject, CopyObject or DeleteObject acknowledged is on a write quorum
\* of the replicas (radio.go:440-587), see MirrorObjects.
SimpleAckedOnQuorum ==
  (part = "simple" => AckedOnQuorum) /\ (part = "pair" => P!AckedOnQuorum)

\* GetObjectNInfo serves the body that belongs to the information it returns
\* (radio.go:281-345), see MirrorObjects.
SimpleServedMatchesInfo ==
  (part = "simple" => ServedMatchesInfo) /\ (part = "pair" => P!ServedMatchesInfo)

\* A PutObject without a quorum of successes takes back what it stored
\* (radio.go:455-494), see MirrorObjects.
SimpleFailedPutLeavesNothing ==
  (part = "simple" => FailedPutLeavesNothing) /\ (part = "pair" => P!FailedPutLeavesNothing)

\* GetObjectInfo and GetObjectNInfo see the last acknowledged write
\* (radio.go:281-437), see MirrorObjects.
SimpleReadsSeeAcked ==
  [][(part = "simple" => ReadSeesAcked) /\ (part = "pair" => P!ReadSeesAcked)]_allVars

\* An acknowledged CompleteMultipartUpload stays on a write quorum
\* (radio.go:792-830), see Multipart.
AckedCompleteStays == part = "upload" => M!AckedCompleteStays

\* An acknowledged PutObjectPart is on a write quorum of the replicas' uploads
\* (radio.go:645-689), see Multipart.
AckedPartOnQuorum == part = "upload" => M!AckedPartOnQuorum

\* An acknowledged AbortMultipartUpload leaves the upload open at no
\* replica (radio.go:765-789), see Multipart.
AbortedIsGone == part = "upload" => M!AbortedIsGone

Symmetric == Symmetry \cup Permutations({u1, u2})
=============================================================================
