---------------------------- MODULE QuorumInfoLoop ----------------------------
(***************************************************************************)
(* quorumInfo of cmd/radio.go as the three loops it is.  The second loop   *)
(* ranges over a Go map and stops at the first tag whose count exceeds     *)
(* len(infos)/2+1, so which tags it looks at depends on the map's order.   *)
(***************************************************************************)
EXTENDS QuorumReduce

CONSTANTS N,     \* len(infos), a natural number
          Tags   \* radio tags other than the empty string

VARIABLES tags,        \* infos[k].Metadata.Get("x-amz-meta-radio-tag")
          k,           \* index of the counting loop, then of the search loop
          tagCounter,  \* map[string]int; a missing key counts 0
          unvisited,   \* keys the map loop has still to visit
          maximalUUID,
          pc           \* "none": InsufficientReadQuorum; "found": infos[k], k

vars == <<tags, k, tagCounter, unvisited, maximalUUID, pc>>

AllTags == Tags \cup {NoTag}

Init ==
  /\ tags \in [1..N -> AllTags]
  /\ k = 1
  /\ tagCounter = [t \in AllTags |-> 0]
  /\ unvisited = {}
  /\ maximalUUID = NoTag
  /\ pc = "count"

CountTag ==
  /\ pc = "count" /\ k <= N
  /\ tagCounter' = [tagCounter EXCEPT ![tags[k]] = @ + 1]
  /\ k' = k + 1
  /\ UNCHANGED <<tags, unvisited, maximalUUID, pc>>

StartVisit ==
  /\ pc = "count" /\ k > N
  /\ unvisited' = {t \in AllTags : tagCounter[t] > 0}
  /\ pc' = "visit"
  /\ UNCHANGED <<tags, k, tagCounter, maximalUUID>>

\* Mutant: a count of len/2+1 is enough.
MutVisitAtLeast(uuid) ==
  /\ pc = "visit" /\ uuid \in unvisited
  /\ IF tagCounter[uuid] >= N \div 2 + 1
     THEN maximalUUID' = uuid /\ unvisited' = {}
     ELSE unvisited' = unvisited \ {uuid} /\ UNCHANGED maximalUUID
  /\ UNCHANGED <<tags, k, tagCounter, pc>>

\* for uuid, count := range tagCounter { if count > len(infos)/2+1 { ...; break } }
Visit(uuid) ==
  /\ pc = "visit" /\ uuid \in unvisited
  /\ IF tagCounter[uuid] > N \div 2 + 1
     THEN maximalUUID' = uuid /\ unvisited' = {}
     ELSE unvisited' = unvisited \ {uuid} /\ UNCHANGED maximalUUID
  /\ UNCHANGED <<tags, k, tagCounter, pc>>

\* if maximalUUID == "" { return InsufficientReadQuorum }
EndVisit ==
  /\ pc = "visit" /\ unvisited = {}
  /\ pc' = IF maximalUUID = NoTag THEN "none" ELSE "search"
  /\ k' = 1
  /\ UNCHANGED <<tags, tagCounter, unvisited, maximalUUID>>

\* Mutant: the search does not look at the tags.
MutSearchFirst ==
  /\ pc = "search"
  /\ pc' = "found"
  /\ UNCHANGED <<tags, k, tagCounter, unvisited, maximalUUID>>

\* for index, info = range infos { if uuid != maximalUUID { continue }; break }
Search ==
  /\ pc = "search"
  /\ IF tags[k] # maximalUUID /\ k < N
     THEN k' = k + 1 /\ UNCHANGED pc
     ELSE pc' = "found" /\ UNCHANGED k
  /\ UNCHANGED <<tags, tagCounter, unvisited, maximalUUID>>

Next ==
  \/ CountTag
  \/ StartVisit
  \/ \E uuid \in AllTags : Visit(uuid)
  \/ EndVisit
  \/ Search

Spec == Init /\ [][Next]_vars
-----------------------------------------------------------------------------
\* Whatever the order of the map, quorumInfo answers with the first replica
\* that carries the tag more than len/2+1 replicas carry, and with
\* InsufficientReadQuorum exactly when there is no such tag: the loops compute
\* the operators QuorumTags and FirstIndex the object layer is modelled with.
LoopsMatchReference ==
  /\ pc = "none" => QuorumTags(tags) = {}
  /\ pc = "found" => QuorumTags(tags) = {tags[k]} /\ k = FirstIndex(tags, tags[k])

\* "InsufficientReadQuorum storage cannot satisfy quorum for read operation"
\* (object-api-errors.go:113), where the read quorum of the callers of
\* quorumInfo is len/2+1 (radio.go:415): the error is returned only when no
\* version is on that many replicas.
ReadErrorMeansNoQuorum ==
  pc = "none" => \A t \in Tags : Count(tags, t) < Majority(tags)
=============================================================================
