------------------------------ MODULE StreamDup ------------------------------
(***************************************************************************)
(* pkg/streamdup: New copies one input stream to dupN pipes, block by      *)
(* block; each block is written to all pipes in parallel and the next one  *)
(* is read when all writes returned.  PutObject and PutObjectPart give     *)
(* each replica's upload one of the pipes.                                 *)
(*                                                                         *)
(* io.Pipe (external): a Write waits until its reader took the block or    *)
(* closed its end; a closed writer hands its error to the reader.  How an  *)
(* upload treats its pipe is up to the S3 client (external): it reads to   *)
(* the end, closes the pipe, or returns and leaves it unread.              *)
(***************************************************************************)
EXTENDS Integers

CONSTANTS DupN,    \* number of readers
          Blocks   \* length of the input in blocks of readBlockSize

ASSUME DupAssumption == DupN \in Nat \ {0} /\ Blocks \in Nat

VARIABLES read,      \* blocks read from the input
          pc,        \* the copying goroutine
          offered,   \* offered[i]: writers[i].Write(p) has not returned
          failed,    \* a Write of this round returned an error
          closeErr,  \* what the writers are closed with
          werr,      \* werr[i]: "open", or what writers[i] was closed with
          got,       \* got[i]: blocks readers[i] received
          rd         \* rd[i]: "reading", or how the reader ended

vars == <<read, pc, offered, failed, closeErr, werr, got, rd>>

Readers == 1..DupN

Init ==
  /\ read = 0
  /\ pc = "read"
  /\ offered = [i \in Readers |-> FALSE]
  /\ failed = FALSE
  /\ closeErr = "none"
  /\ werr = [i \in Readers |-> "open"]
  /\ got = [i \in Readers |-> 0]
  /\ rd = [i \in Readers |-> "reading"]

\* io.CopyBuffer reads a block and calls multiWriter.Write.
ReadBlock ==
  /\ pc = "read" /\ read < Blocks
  /\ read' = read + 1
  /\ offered' = [i \in Readers |-> TRUE]
  /\ pc' = "write"
  /\ UNCHANGED <<failed, closeErr, werr, got, rd>>

\* The input ends, or fails: the client went away, or the digest is wrong.
InputEnds ==
  /\ pc = "read"
  /\ \/ read = Blocks /\ closeErr' = "EOF"
     \/ closeErr' = "err"
  /\ pc' = "close"
  /\ UNCHANGED <<read, offered, failed, werr, got, rd>>

\* writers[i].Write(p) returns: the reader took the block, or had closed.
WriteReturns(i) ==
  /\ offered[i]
  /\ \/ /\ rd[i] = "reading"
        /\ got' = [got EXCEPT ![i] = @ + 1]
        /\ UNCHANGED failed
     \/ /\ rd[i] = "closed"
        /\ failed' = TRUE
        /\ UNCHANGED got
  /\ offered' = [offered EXCEPT ![i] = FALSE]
  /\ UNCHANGED <<read, pc, closeErr, werr, rd>>

\* Mutant: the errors of the writes are dropped.
MutBlockWrittenNoError ==
  /\ pc = "write" /\ \A i \in Readers : ~offered[i]
  /\ pc' = "read"
  /\ UNCHANGED <<read, offered, failed, closeErr, werr, got, rd>>

\* Mutant: the next block is read when one write returned.
MutBlockWrittenNoWait ==
  /\ pc = "write" /\ \E i \in Readers : ~offered[i]
  /\ pc' = IF failed THEN "close" ELSE "read"
  /\ closeErr' = IF failed THEN "err" ELSE closeErr
  /\ UNCHANGED <<read, offered, failed, werr, got, rd>>

\* g.Wait(): all writes of the block returned; an error ends the copy.
BlockWritten ==
  /\ pc = "write" /\ \A i \in Readers : ~offered[i]
  /\ pc' = IF failed THEN "close" ELSE "read"
  /\ closeErr' = IF failed THEN "err" ELSE closeErr
  /\ UNCHANGED <<read, offered, failed, werr, got, rd>>

\* Mutant: only the first writer is closed.
MutCloseWriterFirst ==
  /\ pc = "close"
  /\ werr' = [werr EXCEPT ![1] = closeErr]
  /\ pc' = "done"
  /\ UNCHANGED <<read, offered, failed, closeErr, got, rd>>

\* One iteration of CloseWithError; after the last one the buffer goes back to
\* streamPool.
CloseWriter ==
  LET open == {i \in Readers : werr[i] = "open"}
      next == CHOOSE i \in open : \A j \in open : i <= j
  IN
  /\ pc = "close"
  /\ werr' = [werr EXCEPT ![next] = closeErr]
  /\ pc' = IF open = {next} THEN "done" ELSE "close"
  /\ UNCHANGED <<read, offered, failed, closeErr, got, rd>>

\* A reader meets the end its writer was closed with.
ReadEnd(i) ==
  /\ rd[i] = "reading" /\ ~offered[i] /\ werr[i] # "open"
  /\ rd' = [rd EXCEPT ![i] = werr[i]]
  /\ UNCHANGED <<read, pc, offered, failed, closeErr, werr, got>>

\* The upload returns early, with or without closing its pipe.
Abandon(i) ==
  /\ rd[i] = "reading"
  /\ \E end \in {"closed", "stopped"} : rd' = [rd EXCEPT ![i] = end]
  /\ UNCHANGED <<read, pc, offered, failed, closeErr, werr, got>>

Copying == ReadBlock \/ InputEnds \/ BlockWritten \/ CloseWriter

Next ==
  \/ Copying
  \/ \E i \in Readers : WriteReturns(i) \/ ReadEnd(i) \/ Abandon(i)

\* The goroutine runs, and a reader that neither closed nor stopped reads on.
Fairness ==
  /\ WF_vars(Copying)
  /\ \A i \in Readers : WF_vars(WriteReturns(i)) /\ WF_vars(ReadEnd(i))

Spec == Init /\ [][Next]_vars /\ Fairness
-----------------------------------------------------------------------------
\* A replica that sees the regular end of its stream got the whole input, and so
\* did every other replica: multiWriter.Write (stream_dup.go:70-75) turns the
\* failure of one into an error for all, and a failing input (line 99) is never
\* passed on as an end.  No upload can complete with a truncated body.
AllOrNone ==
  \A i \in Readers : rd[i] = "EOF" => \A j \in Readers : got[j] = Blocks

\* All replicas share one buffer (stream_dup.go:95-98): while it is refilled or
\* given back, no replica has still to read the block in it, so none is more
\* than a block behind.
LockStep ==
  \A i \in Readers :
    /\ got[i] >= read - 1
    /\ pc # "write" => ~offered[i] /\ (got[i] = read \/ failed)

\* When no upload leaves its pipe open and unread, the copy ends and every
\* reader comes to an end (g.Wait() at stream_dup.go:70 waits for the slowest).
StreamEnds ==
  [](\A i \in Readers : rd[i] # "stopped")
    => <>(pc = "done" /\ \A i \in Readers : rd[i] # "reading")

TypeOK ==
  /\ read \in 0..Blocks
  /\ pc \in {"read", "write", "close", "done"}
  /\ offered \in [Readers -> BOOLEAN]
  /\ failed \in BOOLEAN
  /\ closeErr \in {"none", "EOF", "err"}
  /\ werr \in [Readers -> {"open", "EOF", "err"}]
  /\ got \in [Readers -> Int]
  /\ rd \in [Readers -> {"reading", "EOF", "err", "closed", "stopped"}]

\* The inductive invariant behind AllOrNone and LockStep: every reader has all
\* blocks but the offered one (stream_dup.go:57-70), a missing block means that a
\* Write failed, and EOF is passed on only when none failed and the input ended.
IInv ==
  /\ TypeOK
  /\ \A i \in Readers :
       /\ offered[i] => pc = "write" /\ got[i] = read - 1
       /\ ~offered[i] => got[i] = read \/ (failed /\ got[i] = read - 1)
       /\ werr[i] # "open" => werr[i] = closeErr
       /\ rd[i] \in {"EOF", "err"} => rd[i] = werr[i]
  /\ pc = "read" => ~failed
  /\ pc \in {"read", "write"} <=> closeErr = "none"
  /\ closeErr = "none" => \A i \in Readers : werr[i] = "open"
  /\ closeErr = "EOF" => read = Blocks /\ ~failed
=============================================================================
