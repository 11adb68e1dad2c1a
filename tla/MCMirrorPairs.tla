---------------------------- MODULE MCMirrorPairs ----------------------------
(***************************************************************************)
(* One run for pairs of requests: puts and copies on two mirrors of five,  *)
(* of which a replica may be stale at the start, and on two mirrors of     *)
(* three with copies in both directions and failing calls, and reads too   *)
(* on mirrors of three and two.  A behaviour has mirrors of one kind.      *)
(***************************************************************************)
EXTENDS MCMirrorObjects

VARIABLE part

\* Puts and copies, and calls that fail.
C == INSTANCE MirrorObjects WITH
       Objects <- {o1, o2}, Clnts <- EvenClients, Ops <- {"put", "copy"},
       CopyPairs <- CrossCopies, MaxLate <- 0, MaxFaults <- 2
D == INSTANCE MirrorObjects WITH
       Objects <- {o1, o2}, Clnts <- UnevenClients, Ops <- {"put", "get", "copy"},
       CopyPairs <- UnevenCopies, MaxLate <- 0, MaxFaults <- 1

MCInit ==
  \/ part = "five" /\ Init
  \/ part = "even" /\ C!Init
  \/ part = "uneven" /\ D!Init

MCNext ==
  /\ \/ part = "five" /\ Next
     \/ part = "even" /\ C!Next
     \/ part = "uneven" /\ D!Next
  /\ UNCHANGED part

MCSpec == MCInit /\ [][MCNext]_<<part, vars>>

\* What an acknowledged copy or put left on a quorum stays there, see
\* AckedOnQuorum of MirrorObjects (radio.go:479, 586).
CopiesAckedOnQuorum ==
  /\ part = "even" => C!AckedOnQuorum
  /\ part = "uneven" => D!AckedOnQuorum

\* Tags stand for bodies although a copy may meet a stale replica
\* (radio.go:549-586), see TagDeterminesBody of MirrorObjects.
FiveTagDeterminesBody == part = "five" => TagDeterminesBody

\* Reads see the last acknowledged write (radio.go:391-425), see ReadSeesAcked
\* of MirrorObjects.
PairsReadAcked ==
  [][CASE part = "five" -> ReadSeesAcked
       [] part = "even" -> C!ReadSeesAcked
       [] part = "uneven" -> D!ReadSeesAcked]_<<part, vars>>
=============================================================================
