------------------------------- MODULE MCQuorum -------------------------------
(***************************************************************************)
(* One run for the two decisions that rest on a quorum: what a read makes  *)
(* of the answers of the replicas, and whether the lock servers of         *)
(* distributed mode grant a lock.  A behaviour exercises one of them.      *)
(*                                                                         *)
(* The first is the end of getObjectInfo (cmd/radio.go): the answers go    *)
(* through reduceReadQuorumErrs and, when that says nil, quorumInfo looks  *)
(* for the tag a quorum agrees on among the very same answers.             *)
(***************************************************************************)
EXTENDS ReduceErrs, TLC

CONSTANTS Tags, s1, s2, s3, w1, w2, rr

VARIABLES part, tags, k, tagCounter, unvisitedTags, maximalUUID, infoPc,
          lockMap, connected, own, check, left, taken

QI == INSTANCE QuorumInfoLoop WITH unvisited <- unvisitedTags, pc <- infoPc

\* Rounds of asking, restarts, lost calls or answers, entries checked.
W(tries, restarts, lost, checks) ==
  [tries |-> tries, restarts |-> restarts, lost |-> lost, checks |-> checks]

\* Two writers and a reader, which run in different servers.
Home == (w1 :> s1) @@ (w2 :> s2) @@ (rr :> s3)
Writer == (w1 :> TRUE) @@ (w2 :> TRUE) @@ (rr :> FALSE)
LS == INSTANCE LockServers WITH
        Servers <- {s1, s2, s3}, Owners <- {w1, w2, rr},
        Worlds <- {W(3, 0, 0, 0), W(2, 0, 1, 1), W(2, 1, 0, 1)}

infoVars == <<tags, k, tagCounter, unvisitedTags, maximalUUID, infoPc>>
serverVars == <<lockMap, connected, own, check, left, taken>>
allVars == <<part, vars, infoVars, serverVars>>

\* An answer is an ObjectInfo, with or without a radio tag, or an error with the
\* zero ObjectInfo.
Answers == Init /\ QI!Init /\ \A j \in 1..N : errs[j] # Nil => tags[j] = NoTag

MCInit ==
  \/ /\ part = "read" /\ Answers
     /\ lockMap = <<>> /\ connected = <<>> /\ own = <<>> /\ check = <<>>
     /\ left = <<>> /\ taken = <<>>
  \/ /\ part = "lock" /\ LS!Init
     /\ errs = [j \in 1..N |-> Nil] /\ tags = [j \in 1..N |-> NoTag] /\ Answers

MCNext ==
  \/ /\ part = "read"
     /\ \/ Next /\ UNCHANGED infoVars
        \/ pc = "done" /\ result = Nil /\ QI!Next /\ UNCHANGED vars
     /\ UNCHANGED <<part, serverVars>>
  \/ part = "lock" /\ LS!Next /\ UNCHANGED <<part, vars, infoVars>>

MCSpec == MCInit /\ [][MCNext]_allVars

\* Whatever the order of the two maps, quorumInfo's loops (radio.go:357-389)
\* compute QuorumTags and FirstIndex, with which the object layer is modelled.
LoopsMatchReference == QI!LoopsMatchReference

\* getObjectInfo (radio.go:415-424) succeeds only with the info of a replica
\* that answered without an error, and whose version so many replicas hold that
\* every write quorum has one of them.
FoundOnQuorum ==
  infoPc = "found" =>
    /\ errs[k] = Nil
    /\ Count([j \in 1..N |-> <<errs[j], tags[j]>>], <<Nil, tags[k]>>) + Majority(errs) > N

\* The tables of the lock servers (local-locker.go:36-136) stay consistent and
\* exclude conflicting owners, see Exclusion and OneWriterOrReaders of
\* LockServers.
LocksExclude == part = "lock" => LS!Exclusion /\ LS!OneWriterOrReaders
=============================================================================
