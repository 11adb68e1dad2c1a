--------------------------- MODULE MCMirrorObjects ---------------------------
(* Model-checking instances of MirrorObjects.                              *)
EXTENDS MirrorObjects, TLC

CONSTANTS r1, r2, r3, o1, o2, o3

\* A mirror of three remote buckets.
ThreeClients == o1 :> 3

\* Two mirrors of three buckets, and one of three and one of two.
EvenClients == o1 :> 3 @@ o2 :> 3
UnevenClients == o1 :> 3 @@ o2 :> 2

\* Five: the smallest mirror whose reads succeed although a replica is stale.
\* The bucket of o3 is not configured.
FiveClients == o1 :> 5 @@ o2 :> 5 @@ o3 :> 0

NoCopies == {}
CrossCopies == {<<o1, o2>>, <<o2, o1>>, <<o1, o1>>}
UnevenCopies == {<<o1, o2>>, <<o2, o1>>}
FiveCopies == {<<o1, o2>>, <<o3, o1>>}

Symmetry == Permutations(Reqs)
=============================================================================
