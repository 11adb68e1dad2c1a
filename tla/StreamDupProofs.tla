--------------------------- MODULE StreamDupProofs ---------------------------
(***************************************************************************)
(* Proofs for StreamDup, for any number of readers and any input length:   *)
(* IInv is inductive, and AllOrNone and LockStep follow from it.           *)
(***************************************************************************)
EXTENDS StreamDup, TLAPS

\* Nothing is read or offered yet.
LEMMA InitIInv == Init => IInv
<1> SUFFICES ASSUME Init PROVE IInv
  OBVIOUS
<1>1. read \in 0..Blocks /\ got \in [Readers -> Int]
  BY DupAssumption DEF Init
<1>2. TypeOK
  BY <1>1, Zenon DEF Init, TypeOK
<1> QED
  BY <1>2, DupAssumption DEF Init, IInv

\* A block is offered to every reader, which had all blocks before.
LEMMA ReadBlockIInv == IInv /\ ReadBlock => IInv'
  BY DupAssumption DEF ReadBlock, IInv, TypeOK

\* EOF is chosen only at the end of the input, when no Write failed.
LEMMA InputEndsIInv == IInv /\ InputEnds => IInv'
  BY DupAssumption DEF InputEnds, IInv, TypeOK

\* A failed Write ends the copy with an error.
LEMMA BlockWrittenIInv == IInv /\ BlockWritten => IInv'
  BY DupAssumption DEF BlockWritten, IInv, TypeOK

\* Writers are closed with closeErr and with nothing else.
LEMMA CloseWriterIInv == IInv /\ CloseWriter => IInv'
<1> SUFFICES ASSUME IInv, CloseWriter PROVE IInv'
  OBVIOUS
<1>1. /\ pc = "close" /\ pc' \in {"close", "done"}
      /\ UNCHANGED <<read, offered, failed, closeErr, got, rd>>
  BY DEF CloseWriter
<1>2. PICK n : werr' = [werr EXCEPT ![n] = closeErr]
  BY DEF CloseWriter
<1>3. werr \in [Readers -> {"open", "EOF", "err"}] /\ closeErr \in {"none", "EOF", "err"}
  BY DEF IInv, TypeOK
<1>4. \A i \in Readers : werr'[i] = werr[i] \/ werr'[i] = closeErr
  BY <1>2, <1>3
<1> QED
  BY <1>1, <1>2, <1>3, <1>4 DEF IInv, TypeOK

\* A reader takes the offered block, or its Write fails.
LEMMA WriteReturnsIInv ==
  ASSUME NEW i \in Readers, IInv, WriteReturns(i) PROVE IInv'
<1>1. offered[i] /\ UNCHANGED <<read, pc, closeErr, werr, rd>>
  BY DEF WriteReturns
<1>2. offered' = [offered EXCEPT ![i] = FALSE]
  BY DEF WriteReturns
<1>3. TypeOK
  BY DEF IInv
<1>4. CASE got' = [got EXCEPT ![i] = @ + 1] /\ UNCHANGED failed
  BY <1>1, <1>2, <1>3, <1>4, DupAssumption DEF IInv, TypeOK
<1>5. CASE failed' = TRUE /\ UNCHANGED got
  BY <1>1, <1>2, <1>3, <1>5, DupAssumption DEF IInv, TypeOK
<1> QED
  BY <1>4, <1>5 DEF WriteReturns

LEMMA ReadEndIInv ==
  ASSUME NEW i \in Readers, IInv, ReadEnd(i) PROVE IInv'
  BY DupAssumption DEF ReadEnd, IInv, TypeOK

LEMMA AbandonIInv ==
  ASSUME NEW i \in Readers, IInv, Abandon(i) PROVE IInv'
  BY DupAssumption DEF Abandon, IInv, TypeOK

\* Every step keeps the invariant.
LEMMA NextIInv == IInv /\ [Next]_vars => IInv'
<1> SUFFICES ASSUME IInv, [Next]_vars PROVE IInv'
  OBVIOUS
<1>1. CASE Copying
  BY <1>1, ReadBlockIInv, InputEndsIInv, BlockWrittenIInv, CloseWriterIInv DEF Copying
<1>2. CASE \E i \in Readers : WriteReturns(i) \/ ReadEnd(i) \/ Abandon(i)
  BY <1>2, WriteReturnsIInv, ReadEndIInv, AbandonIInv
<1>3. CASE UNCHANGED vars
  BY <1>3 DEF vars, IInv, TypeOK
<1> QED
  BY <1>1, <1>2, <1>3 DEF Next

\* The invariant of streamdup.New and multiWriter (stream_dup.go:42-102) holds in
\* every reachable state.
THEOREM Invariance == Spec => []IInv
<1>1. Init => IInv
  BY InitIInv
<1>2. IInv /\ [Next]_vars => IInv'
  BY NextIInv
<1> QED
  BY <1>1, <1>2, PTL DEF Spec

\* No replica takes a truncated stream for a complete one: a regular end
\* (stream_dup.go:99) means that all replicas got all blocks.
THEOREM NoTruncatedStream == Spec => []AllOrNone
<1>1. IInv => AllOrNone
  <2> SUFFICES ASSUME IInv, NEW i \in Readers, rd[i] = "EOF", NEW j \in Readers
               PROVE got[j] = Blocks
    BY DEF AllOrNone
  <2>1. closeErr = "EOF"
    BY DEF IInv, TypeOK
  <2>2. read = Blocks /\ ~failed /\ pc \notin {"read", "write"}
    BY <2>1 DEF IInv
  <2> QED
    BY <2>2 DEF IInv
<1> QED
  BY <1>1, Invariance, PTL

\* The pooled buffer (stream_dup.go:95-98) is never refilled or given back while
\* a replica still reads the block in it.
THEOREM BufferIsFree == Spec => []LockStep
<1>1. IInv => LockStep
  <2> SUFFICES ASSUME IInv, NEW i \in Readers
               PROVE /\ got[i] >= read - 1
                     /\ pc # "write" => ~offered[i] /\ (got[i] = read \/ failed)
    BY DEF LockStep
  <2>1. read \in Int /\ got[i] \in Int
    BY DupAssumption DEF IInv, TypeOK
  <2> QED
    BY <2>1 DEF IInv
<1> QED
  BY <1>1, Invariance, PTL
=============================================================================
