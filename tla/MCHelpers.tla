------------------------------ MODULE MCHelpers ------------------------------
(***************************************************************************)
(* One run for the parts around the object layer that run on their own:    *)
(* the stream duplicator, the dynamic lock timeout, the HTTP server with   *)
(* its start and shutdown, and the decoder of chunked uploads.  They share *)
(* no state, so a behaviour exercises one of them and leaves the others    *)
(* untouched.                                                              *)
(***************************************************************************)
EXTENDS StreamDup

CONSTANTS Threads, LogSize, Durations, Failure, InitialTimeout, Minimum, MaxCalls,
          Conns

VARIABLES part,
          timeout, entries, log, dtPc, duration, index, logCopy, loaded, calls,
          main, serve, tcp, listener, inShutdown, requestCount, conn, objectAPI,
          osSignal, then, status,
          sent, input, state, n, lastChunk, chunkSignature, seedSignature, hashed,
          limit, buf, chunkGot, out, call, err

dtVars == <<timeout, entries, log, dtPc, duration, index, logCopy, loaded, calls>>
httpVars == <<main, serve, tcp, listener, inShutdown, requestCount, conn, objectAPI,
              osSignal, then, status>>
chunkVars == <<sent, input, state, n, lastChunk, chunkSignature, seedSignature,
               hashed, limit, buf, chunkGot, out, call, err>>
allVars == <<part, vars, dtVars, httpVars, chunkVars>>

DT == INSTANCE DynamicTimeout WITH pc <- dtPc
H == INSTANCE HTTPServer

\* Chunks that fill a buffer, leave room in it or need two; chunks and bytes
\* that repeat; an upload without any.
C == INSTANCE ChunkedReader WITH
       Uploads <- {<<<<1, 2>>, <<3>>>>, <<<<1>>, <<2>>, <<3>>>>, <<<<1, 2, 3>>>>,
                   <<>>, <<<<1>>, <<1>>>>},
       Cap <- 3, Digits <- 2, got <- chunkGot

NoChunks ==
  /\ sent = <<>> /\ input = <<>> /\ state = "" /\ n = 0 /\ lastChunk = FALSE
  /\ chunkSignature = <<>> /\ seedSignature = <<>> /\ hashed = <<>>
  /\ limit = 0 /\ buf = 0 /\ chunkGot = <<>> /\ out = <<>> /\ call = FALSE
  /\ err = ""

MCInit ==
  /\ Init /\ DT!Init /\ H!Init
  /\ \/ part \in {"stream", "timeout", "http"} /\ NoChunks
     \/ part = "chunks" /\ C!Init

InStream(A) == part = "stream" /\ A /\ UNCHANGED <<part, dtVars, httpVars, chunkVars>>
InTimeout(A) == part = "timeout" /\ A /\ UNCHANGED <<part, vars, httpVars, chunkVars>>
InHTTP(A) == part = "http" /\ A /\ UNCHANGED <<part, vars, dtVars, chunkVars>>
InChunks(A) == part = "chunks" /\ A /\ UNCHANGED <<part, vars, dtVars, httpVars>>

MCNext == InStream(Next) \/ InTimeout(DT!Next) \/ InHTTP(H!Next) \/ InChunks(C!Next)

\* The fairness of the four specifications: a behaviour is one of a single
\* specification, so their weak fairness may share a disjunction.
MCSpec ==
  /\ MCInit /\ [][MCNext]_allVars
  /\ WF_allVars(InStream(Copying) \/ InHTTP(H!Main) \/ InChunks(C!Next))
  /\ WF_allVars(InHTTP(H!Server))
  /\ \A i \in Readers : WF_allVars(InStream(WriteReturns(i))) /\ WF_allVars(InStream(ReadEnd(i)))
  /\ \A t \in Threads : WF_allVars(InTimeout(DT!Step(t)))

\* StreamEnds (stream_dup.go:55-77) of the behaviours that duplicate a stream,
\* and DecodeEnds (streaming-signature-v4.go:227-305) of those that decode one.
EveryStreamEnds ==
  /\ part = "stream" => StreamEnds
  /\ part = "chunks" => C!DecodeEnds

\* A full log is always reset (dynamic-timeouts.go:55-61), see DynamicTimeout.
LogIsReset == DT!LogIsReset

\* Shutdown drains the server (http/server.go:100-140), see HTTPServer.
NoRequestCutOff == H!NoRequestCutOff

\* A signal ends the process (signals.go:11-62), see HTTPServer.
SignalEnds == H!SignalEnds

\* A server that stops by itself ends the process with status 1
\* (http/server.go:100-140, signals.go:38-45), see HTTPServer.
FailureIsReported == H!FailureIsReported

\* What is decoded is what was sent (streaming-signature-v4.go:227-305), see
\* ChunkedReader.
AcceptedIsSent == part = "chunks" => C!AcceptedIsSent

\* No byte of a complete chunk leaves Read before the chunk is verified
\* (streaming-signature-v4.go:248-300), see ChunkedReader.
ReturnedIsVerified == part = "chunks" => C!ReturnedIsVerified
=============================================================================
