---------------------------- MODULE ChunkedReader ----------------------------
(***************************************************************************)
(* s3ChunkedReader of src/cmd/streaming-signature-v4.go: the reader that   *)
(* takes an upload out of its chunked encoding, called by a consumer       *)
(* (hash.Reader, external) that picks the size of every buffer and stops   *)
(* at the decoded length the client announced, at EOF or at an error.      *)
(*                                                                         *)
(* The encoded body is a sequence of tokens: a chunk line, a data byte, a  *)
(* CRLF.  The signature of a chunk is the sequence of all data up to and   *)
(* with that chunk, which is what chaining signatures makes of it.  The    *)
(* body that arrives may differ from the one that was sent: a token is     *)
(* lost, repeated, moved or damaged, or the connection ends.               *)
(***************************************************************************)
EXTENDS Naturals, Sequences, SequencesExt

CONSTANTS
    Uploads,    \* what clients send: sequences of non-empty chunks
    Cap,        \* the largest buffer of a Read
    Digits      \* hex digits of a chunk size, 16 in the code

VARIABLES
    sent,       \* the chunks the client sent
    input,      \* the encoded body, from the reader's position on
    state, n, lastChunk, chunkSignature, seedSignature, hashed,   \* the reader
    limit,      \* where the consumer stops, if not at EOF
    buf,        \* free space of the buffer of the running Read, 0 if none runs
    got,        \* what the running Read has put into its buffer
    out,        \* what earlier Reads returned
    call, err   \* is a Read running; what the last one returned

reader == <<state, n, lastChunk, chunkSignature, seedSignature, hashed>>
vars == <<sent, input, reader, limit, buf, got, out, call, err>>

-----------------------------------------------------------------------------
(* The encoding (external: the client).                                    *)

Line(hex, sig) == [t |-> "line", hex |-> hex, sig |-> sig]
Byte(b) == [t |-> "byte", b |-> b]
CRLF == [t |-> "crlf"]

Payload(chunks) == FlattenSeq(chunks)

ChunkTokens(chunks, i) ==
    <<Line(<<Len(chunks[i])>>, Payload(SubSeq(chunks, 1, i)))>>
        \o [j \in 1 .. Len(chunks[i]) |-> Byte(chunks[i][j])] \o <<CRLF>>

Encoded(chunks) ==
    FlattenSeq([i \in 1 .. Len(chunks) |-> ChunkTokens(chunks, i)])
        \o <<Line(<<0>>, Payload(chunks)), CRLF>>

Damaged(tok) ==
    CASE tok.t = "line" -> {[tok EXCEPT !.hex = <<>>], [tok EXCEPT !.hex = <<16>>],
                            [tok EXCEPT !.hex = <<1>>], [tok EXCEPT !.hex = <<0, 0>> \o tok.hex],
                            [tok EXCEPT !.hex = <<1>> \o tok.hex], [tok EXCEPT !.sig = <<>>],
                            [t |-> "long"]}
      [] tok.t = "byte" -> {Byte(0)}
      [] OTHER -> {[t |-> "junk"]}

Arriving(chunks) ==
    LET s == Encoded(chunks)
    IN  UNION {{s, SubSeq(s, 1, i - 1), RemoveAt(s, i), InsertAt(s, i, s[i])}
                 \cup {ReplaceAt(s, i, d) : d \in Damaged(s[i])}
                 \cup {InsertAt(RemoveAt(s, i), j, s[i]) : j \in 1 .. Len(s) - 1} : i \in 1 .. Len(s)}

-----------------------------------------------------------------------------
(* Parsing *)

parseHexUint(v) == FoldLeft(LAMBDA acc, d : (acc * 16 + d) % 16 ^ Digits, 0, v)

hexError(v) ==
    IF \E i \in DOMAIN v : v[i] > 15 /\ i <= Digits + 1 THEN "invalid byte in chunk length"
    ELSE IF Len(v) > Digits THEN "http chunk length too large"
    ELSE ""

(* readChunkLine takes whatever stands up to the next end of line: data    *)
(* bytes that come first become part of the line, which is then no number; *)
(* a CRLF ends a line that is only those bytes.                            *)
LineEnds(s) == {i \in DOMAIN s : s[i].t \in {"line", "crlf", "long"}}
LineEnd(s) == CHOOSE i \in LineEnds(s) : \A j \in LineEnds(s) : i <= j

(* Mutant of readChunkLine: the end of the body is passed on as io.EOF.    *)
MutEOFIsEnd(s) ==
    IF LineEnds(s) = {} THEN [err |-> "EOF"]
    ELSE LET i == LineEnd(s)
         IN  IF s[i].t = "long" THEN [err |-> "header line too long"]
             ELSE IF i > 1 THEN [err |-> "invalid byte in chunk length"]
             ELSE IF s[i].t = "crlf" THEN [err |-> "", hex |-> <<>>, sig |-> <<>>, rest |-> Tail(s)]
             ELSE [err |-> hexError(s[i].hex), hex |-> s[i].hex, sig |-> s[i].sig, rest |-> Tail(s)]

readChunkLine(s) ==
    IF LineEnds(s) = {} THEN [err |-> "unexpected EOF"]
    ELSE LET i == LineEnd(s)
         IN  IF s[i].t = "long" THEN [err |-> "header line too long"]
             ELSE IF i > 1 THEN [err |-> "invalid byte in chunk length"]
             ELSE IF s[i].t = "crlf" THEN [err |-> "", hex |-> <<>>, sig |-> <<>>, rest |-> Tail(s)]
             ELSE [err |-> hexError(s[i].hex), hex |-> s[i].hex, sig |-> s[i].sig, rest |-> Tail(s)]

-----------------------------------------------------------------------------
(* The reader.  One action per turn of the loop in Read.                   *)

getChunkSignature(seed, data) == seed \o data

(* Read returns.  With an error it returns no bytes: those of this call    *)
(* are lost with it.                                                       *)
Return(e) ==
    /\ call' = FALSE /\ buf' = 0 /\ got' = <<>>
    /\ err' = e
    /\ out' = IF e \in {"", "EOF"} THEN out \o got ELSE out

Continue == UNCHANGED <<buf, got, out, call, err>>

Read ==
    /\ ~call /\ err = "" /\ Len(out) < limit
    /\ call' = TRUE
    /\ \E b \in 1 .. Cap : buf' = IF b > limit - Len(out) THEN limit - Len(out) ELSE b
    /\ UNCHANGED <<sent, input, reader, limit, got, out, err>>

In(s) == call /\ state = s /\ UNCHANGED <<sent, limit>>

readS3ChunkHeader ==
    /\ In("readChunkHeader")
    /\ LET line == readChunkLine(input)
       IN  IF line.err # "" THEN Return(line.err) /\ UNCHANGED <<input, reader>>
           ELSE /\ input' = line.rest
                /\ n' = parseHexUint(line.hex)
                /\ chunkSignature' = line.sig
                /\ lastChunk' = (n' = 0)
                /\ state' = IF n' = 0 THEN "readChunkTrailer" ELSE "readChunk"
                /\ Continue /\ UNCHANGED <<seedSignature, hashed>>

readCRLF ==
    /\ In("readChunkTrailer")
    /\ IF input # <<>> /\ Head(input).t = "crlf"
       THEN /\ input' = Tail(input)
            /\ state' = "verifyChunk"
            /\ Continue /\ UNCHANGED <<n, lastChunk, chunkSignature, seedSignature, hashed>>
       ELSE Return("malformed chunked encoding") /\ UNCHANGED <<input, reader>>

(* Mutant of BufferFull: a full buffer ends Read in every state.           *)
MutFullAnywhere ==
    /\ call /\ buf = 0 /\ UNCHANGED <<sent, limit>>
    /\ Return("") /\ UNCHANGED <<input, reader>>

BufferFull ==
    /\ In("readChunk") /\ buf = 0
    /\ Return("") /\ UNCHANGED <<input, reader>>

(* One read of the bufio.Reader, which may return less than was asked for. *)
(* A byte of a chunk that is really a line or a CRLF stays a byte.         *)
readChunk ==
    /\ In("readChunk") /\ buf > 0
    /\ IF input = <<>> THEN Return("unexpected EOF") /\ UNCHANGED <<input, reader>>
       ELSE \E n0 \in 1 .. Cap :
              /\ n0 <= buf /\ n0 <= n /\ n0 <= Len(input)
              /\ LET data == [i \in 1 .. n0 |-> IF input[i].t = "byte" THEN input[i].b ELSE 0]
                 IN  hashed' = hashed \o data /\ got' = got \o data
              /\ input' = SubSeq(input, n0 + 1, Len(input))
              /\ buf' = buf - n0 /\ n' = n - n0
              /\ state' = IF n' = 0 THEN "readChunkTrailer" ELSE state
              /\ UNCHANGED <<lastChunk, chunkSignature, seedSignature, out, call, err>>

verifyChunk ==
    /\ In("verifyChunk")
    /\ IF chunkSignature # getChunkSignature(seedSignature, hashed)
       THEN Return("errSignatureMismatch") /\ UNCHANGED <<input, reader>>
       ELSE /\ seedSignature' = getChunkSignature(seedSignature, hashed)
            /\ hashed' = <<>>
            /\ state' = IF lastChunk THEN "eofChunk" ELSE "readChunkHeader"
            /\ Continue /\ UNCHANGED <<input, n, lastChunk, chunkSignature>>

eofChunk == In("eofChunk") /\ Return("EOF") /\ UNCHANGED <<input, reader>>

-----------------------------------------------------------------------------
(* newSignV4ChunkedReader.  The consumer stops at the announced length, or *)
(* reads on until EOF.                                                     *)
Init ==
    /\ sent \in Uploads
    /\ input \in Arriving(sent)
    /\ limit \in {Len(Payload(sent)), Len(Payload(sent)) + Cap}
    /\ state = "readChunkHeader" /\ n = 0 /\ lastChunk = FALSE
    /\ chunkSignature = <<>> /\ seedSignature = <<>> /\ hashed = <<>>
    /\ buf = 0 /\ got = <<>> /\ out = <<>> /\ call = FALSE /\ err = ""

Loop == readS3ChunkHeader \/ readCRLF \/ BufferFull \/ readChunk \/ verifyChunk \/ eofChunk

Next == Read \/ Loop

Spec == Init /\ [][Next]_vars /\ WF_vars(Next)

-----------------------------------------------------------------------------
(* Properties *)

(* An upload that reaches EOF is the one that was sent, chunk borders and  *)
(* buffers notwithstanding: nothing lost, repeated, moved or damaged.      *)
AcceptedIsSent == err = "EOF" => out = Payload(sent)

(* A consumer that stops at the announced length never asks for EOF.  What *)
(* Read has returned is verified and as sent, up to bytes of a chunk that  *)
(* is not read to its end: the Read that takes the last byte of a chunk    *)
(* verifies it before it returns, full buffer or not.                      *)
ReturnedIsVerified ==
    ~call /\ err = "" =>
        /\ IsPrefix(seedSignature, Payload(sent))
        /\ out = seedSignature \o hashed
        /\ n = 0 => hashed = <<>>

(* Every upload comes to an end, by length, by EOF or by an error.         *)
DecodeEnds == <>[](~call /\ (err # "" \/ Len(out) >= limit))
=============================================================================
