----------------------------- MODULE GetRequest -----------------------------
(***************************************************************************)
(* One GET and one HEAD of the same object with the same headers, from the *)
(* handlers (src/cmd/object-handlers.go) through range parsing             *)
(* (httprange.go, copy-part-range.go), preconditions                       *)
(* (object-handlers-common.go), response headers (api-headers.go) and the  *)
(* range asked from the replica (radio.go) to the status, the announced    *)
(* length and the bytes sent.  A byte of the object is its offset, times   *)
(* are in half seconds, 0 is the zero time.                                *)
(***************************************************************************)
EXTENDS Integers, Sequences

CONSTANTS
    Sizes,     \* object sizes
    Headers,   \* [range, ims, ius, im, inm]: the request's headers
    Times      \* modification times

Nil == -1       \* a header, or a side of a range, that is not there
Bad == -2       \* one that cannot be parsed
NoHeader == <<Bad, Bad>>    \* no Range header, which is handled like one that cannot be parsed
NoRange == [kind |-> "nil", start |-> Nil, end |-> Nil]    \* the nil *HTTPRangeSpec

VARIABLES
    size, mtime, hdr,      \* the object and the request
    get, head              \* [pc, rs, status, announced], for get also [off, len, body]

vars == <<size, mtime, hdr, get, head>>

-----------------------------------------------------------------------------
(* Ranges.  A header is first-last; either side may be left out.           *)

rangeError(h) ==
    IF h[1] = Bad \/ h[2] = Bad \/ (h[1] = Nil /\ h[2] = Nil) THEN "malformed"
    ELSE IF (h[1] # Nil /\ h[2] # Nil /\ h[1] > h[2]) \/ (h[1] = Nil /\ h[2] = 0) THEN "errInvalidRange"
    ELSE ""

parseRequestRangeSpec(h) ==
    IF rangeError(h) # "" THEN NoRange
    ELSE IF h[1] = Nil THEN [kind |-> "suffix", start |-> -h[2], end |-> Nil]
    ELSE [kind |-> "offset", start |-> h[1], end |-> h[2]]

(* errInvalidRange of GetLength, and otherwise the length and the offset.  *)
Unsatisfiable(rs, n) == rs.kind = "offset" /\ rs.start >= n

(* Mutant of GetLength: the end is taken as exclusive at the last byte.    *)
MutLengthToEnd(rs, n) ==
    IF rs.kind = "nil" THEN n
    ELSE IF rs.kind = "suffix" THEN IF -rs.start > n THEN n ELSE -rs.start
    ELSE IF rs.end > -1 THEN (IF n < rs.end THEN n - 1 ELSE rs.end) - rs.start + 1
    ELSE n - rs.start

GetLength(rs, n) ==
    IF rs.kind = "nil" THEN n
    ELSE IF rs.kind = "suffix" THEN IF -rs.start > n THEN n ELSE -rs.start
    ELSE IF rs.end > -1 THEN (IF n <= rs.end THEN n - 1 ELSE rs.end) - rs.start + 1
    ELSE n - rs.start

GetOffset(rs, n) ==
    IF rs.kind = "nil" THEN 0
    ELSE IF rs.kind = "offset" THEN rs.start
    ELSE IF n + rs.start < 0 THEN 0 ELSE n + rs.start

(* x-amz-copy-source-range: both ends must be given, and lie in the source *)
parseCopyPartRangeSpec(h) ==
    LET rs == parseRequestRangeSpec(h)
    IN  IF rs.kind = "suffix" \/ rs.start < 0 \/ rs.end < 0 THEN NoRange ELSE rs

(* Mutant of checkCopyPartRangeWithSize: the end may be the size.          *)
MutCopyEndIsSize(rs, n) == ~(rs.kind = "suffix" \/ rs.start >= n \/ rs.end > n)

checkCopyPartRangeWithSize(rs, n) == ~(rs.kind = "suffix" \/ rs.start >= n \/ rs.end >= n)

(* SetRange(off, off + len - 1) of the replica's client (external): a      *)
(* negative end makes it ask for a suffix.                                 *)
SetRange(off, len) ==
    IF off = 0 /\ off + len - 1 < 0
    THEN [kind |-> "suffix", start |-> off + len - 1, end |-> Nil]
    ELSE [kind |-> "offset", start |-> off, end |-> off + len - 1]

-----------------------------------------------------------------------------
(* Preconditions.  ETags are numbers, the object's is 1.                   *)

ifModifiedSince(objTime, given) == objTime > given + 2

NotModified == 304
PreconditionFailed == 412

checkPreconditions(t, h) ==
    IF t = 0 THEN 0
    ELSE IF h.ims >= 0 /\ ~ifModifiedSince(t, h.ims) THEN NotModified
    ELSE IF h.ius >= 0 /\ ifModifiedSince(t, h.ius) THEN PreconditionFailed
    ELSE IF h.im # Nil /\ h.im # 1 THEN PreconditionFailed
    ELSE IF h.inm = 1 THEN NotModified
    ELSE 0

-----------------------------------------------------------------------------
(* The handlers *)

Answered(r, code) == [r EXCEPT !.pc = "done", !.status = code, !.announced = Nil]

InvalidRange == 416

ToGet(r) == get' = r /\ UNCHANGED <<size, mtime, hdr, head>>
ToHead(r) == head' = r /\ UNCHANGED <<size, mtime, hdr, get>>

(* The range of a request; a header that is not a range at all is ignored. *)
Parse(r) ==
    IF rangeError(hdr.range) = "errInvalidRange" THEN Answered(r, InvalidRange)
    ELSE [r EXCEPT !.pc = "info", !.rs = parseRequestRangeSpec(hdr.range)]

GetParse == get.pc = "start" /\ ToGet(Parse(get))

HeadParse == head.pc = "start" /\ ToHead(Parse(head))

(* GetObjectNInfo: the object is not there, or its range is computed and   *)
(* asked from the replica.                                                 *)
Missing == get.pc = "info" /\ ToGet(Answered(get, 404))

GetInfo ==
    /\ get.pc = "info"
    /\ LET fwd == SetRange(GetOffset(get.rs, size), GetLength(get.rs, size))
       IN  ToGet(IF Unsatisfiable(get.rs, size) THEN Answered(get, InvalidRange)
               ELSE [get EXCEPT !.pc = "check", !.off = GetOffset(fwd, size), !.len = GetLength(fwd, size)])

HeadInfo ==
    /\ head.pc = "info"
    /\ ToHead(Answered(head, 404)) \/ ToHead([head EXCEPT !.pc = "check"])

(* Preconditions, then setObjectHeaders; a range writes the status at once *)
Respond(r, status, next) ==
    IF checkPreconditions(mtime, hdr) # 0 THEN Answered(r, checkPreconditions(mtime, hdr))
    ELSE IF Unsatisfiable(r.rs, size) THEN Answered(r, InvalidRange)
    ELSE [r EXCEPT !.pc = next, !.status = IF r.rs.kind # "nil" THEN 206 ELSE status,
                   !.announced = GetLength(r.rs, size)]

GetRespond == get.pc = "check" /\ ToGet(Respond(get, 0, "copy"))

(* Mutant of HeadRespond: the range is not looked at.                      *)
MutHeadWhole == head.pc = "check" /\ ToHead(Respond([head EXCEPT !.rs = NoRange], 200, "done"))

HeadRespond == head.pc = "check" /\ ToHead(Respond(head, 200, "done"))

(* io.Copy: the first byte written writes status 200, if none was.         *)
Written == IF get.status = 0 THEN 200 ELSE get.status

CopyByte ==
    /\ get.pc = "copy" /\ get.len > 0
    /\ ToGet([get EXCEPT !.body = Append(get.body, get.off), !.off = get.off + 1, !.len = get.len - 1,
                       !.status = Written])

(* The stream breaks: an error response, but only when nothing is written. *)
CopyError ==
    /\ get.pc = "copy"
    /\ ToGet(IF get.status = 0 THEN Answered(get, 500) ELSE [get EXCEPT !.pc = "cut"])

CopyEnd ==
    /\ get.pc = "copy" /\ get.len = 0
    /\ ToGet([get EXCEPT !.pc = "done", !.status = Written])

-----------------------------------------------------------------------------
Init ==
    /\ size \in Sizes /\ mtime \in Times /\ hdr \in Headers
    /\ get = [pc |-> "start", rs |-> NoRange, status |-> 0, announced |-> Nil,
              off |-> 0, len |-> 0, body |-> <<>>]
    /\ head = [pc |-> "start", rs |-> NoRange, status |-> 0, announced |-> Nil]

Next ==
    \/ GetParse \/ Missing \/ GetInfo \/ GetRespond \/ CopyByte \/ CopyError \/ CopyEnd
    \/ HeadParse \/ HeadInfo \/ HeadRespond

Spec == Init /\ [][Next]_vars

-----------------------------------------------------------------------------
(* Properties *)

Finished(r) == r.pc \in {"done", "cut"}

(* The offsets a range header names, by RFC 7233 and not by the code: a    *)
(* malformed header names them all.                                        *)
Named(h, n) ==
    {i \in 0 .. n - 1 :
        h[1] = Bad \/ h[2] = Bad \/ (h[1] = Nil /\ h[2] = Nil)
        \/ (h[1] > -1 /\ h[1] <= i /\ (h[2] = Nil \/ i <= h[2]))
        \/ (h[1] = Nil /\ h[2] > -1 /\ i >= n - h[2])}

(* A GET that is answered 200 or 206 sends, in order, exactly the bytes    *)
(* that its Range header names and as many as Content-Length announces;    *)
(* when the stream breaks after the status, it has sent a prefix of them.  *)
(* This includes the range that is asked from the replica in between, also *)
(* for the empty object.                                                   *)
BodyIsRange ==
    Finished(get) /\ get.status \in {200, 206} =>
        /\ \A i \in 1 .. Len(get.body) : i > 1 => get.body[i] = get.body[i - 1] + 1
        /\ {get.body[i] : i \in 1 .. Len(get.body)} \subseteq Named(hdr.range, size)
        /\ Len(get.body) <= get.announced
        /\ get.pc = "done" =>
                /\ Len(get.body) = get.announced
                /\ {get.body[i] : i \in 1 .. Len(get.body)} = Named(hdr.range, size)
(* HEAD announces what GET would: with the same headers and the same       *)
(* object both answer with the same status and length, but where a broken  *)
(* stream or a missing object decides, or where the range cannot be        *)
(* satisfied and a precondition fails too (GET checks the range first).    *)
HeadLikeGet ==
    LET both == Unsatisfiable(get.rs, size) /\ checkPreconditions(mtime, hdr) # 0
    IN  Finished(get) /\ Finished(head) /\ ~both /\ get.status \notin {404, 500} /\ head.status # 404
            => head.status = get.status /\ head.announced = get.announced

(* A range is inside the object whenever it is accepted: the offset is not *)
(* negative and no byte past the end is asked for.                         *)
RangeInObject(rs, n) ==
    ~Unsatisfiable(rs, n) =>
        0 <= GetOffset(rs, n) /\ 0 <= GetLength(rs, n) /\ GetOffset(rs, n) + GetLength(rs, n) <= n

(* An accepted copy range is copied as it is given, never cut short: the   *)
(* part gets exactly the bytes first..last, which lie in the source.       *)
CopyRangeExact ==
    LET rs == parseCopyPartRangeSpec(hdr.range)
    IN  rs # NoRange /\ checkCopyPartRangeWithSize(rs, size) =>
            /\ ~Unsatisfiable(rs, size) /\ RangeInObject(rs, size)
            /\ GetOffset(rs, size) = hdr.range[1]
            /\ GetLength(rs, size) = hdr.range[2] - hdr.range[1] + 1
=============================================================================
