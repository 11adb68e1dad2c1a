-------------------------- MODULE GetRequestProofs --------------------------
(***************************************************************************)
(* What a GET sends, for objects of every size and every Range header: the *)
(* arithmetic of httprange.go selects exactly the bytes the header names,  *)
(* the range asked from the replica selects the same ones, and the copy    *)
(* loop sends them in order.                                               *)
(***************************************************************************)
EXTENDS GetRequest, TLAPS

Side == {i \in Int : i >= -2}

Ranges == [kind : {"nil", "suffix", "offset"}, start : Int, end : Int]

(* A spec as parseRequestRangeSpec makes it.                               *)
Parsed(rs) ==
    /\ rs \in Ranges
    /\ rs.kind = "suffix" => rs.start < 0
    /\ rs.kind = "offset" => rs.start >= 0 /\ (rs.end = -1 \/ rs.end >= rs.start)

LEMMA ParseIsParsed ==
    ASSUME NEW h \in Side \X Side
    PROVE  Parsed(parseRequestRangeSpec(h))
BY DEF parseRequestRangeSpec, rangeError, Parsed, Ranges, NoRange, Side, Nil, Bad

(* An accepted range lies inside the object: no negative offset, no byte   *)
(* past the end, whatever the object's size; it is empty only if the       *)
(* object is.                                                              *)
THEOREM AcceptedRangeInObject ==
    ASSUME NEW n \in Nat, NEW rs, Parsed(rs)
    PROVE  /\ RangeInObject(rs, n)
           /\ GetOffset(rs, n) \in Int /\ GetLength(rs, n) \in Int
           /\ ~Unsatisfiable(rs, n) /\ GetLength(rs, n) = 0 => n = 0
BY DEF RangeInObject, Unsatisfiable, GetOffset, GetLength, Parsed, Ranges

(* The header names the bytes that the code selects.                       *)
LEMMA NamedIsRange ==
    ASSUME NEW h \in Side \X Side, NEW n \in Nat, NEW i \in Int,
           rangeError(h) # "errInvalidRange", ~Unsatisfiable(parseRequestRangeSpec(h), n)
    PROVE  i \in Named(h, n) <=>
              /\ GetOffset(parseRequestRangeSpec(h), n) <= i
              /\ i < GetOffset(parseRequestRangeSpec(h), n) + GetLength(parseRequestRangeSpec(h), n)
BY DEF Named, parseRequestRangeSpec, rangeError, Unsatisfiable, GetOffset, GetLength, NoRange, Side, Nil, Bad

(* The range asked from the replica is the one computed for the object,    *)
(* also when it is empty.                                                  *)
LEMMA ForwardedIsSame ==
    ASSUME NEW n \in Nat, NEW off \in Nat, NEW len \in Nat, off + len <= n, len = 0 => n = 0
    PROVE  GetOffset(SetRange(off, len), n) = off /\ GetLength(SetRange(off, len), n) = len
BY DEF SetRange, GetOffset, GetLength, Nil

-----------------------------------------------------------------------------
(* The offset and the length of the request's range.                       *)
Off == GetOffset(parseRequestRangeSpec(hdr.range), size)
Total == GetLength(parseRequestRangeSpec(hdr.range), size)

Accepted ==
    /\ rangeError(hdr.range) # "errInvalidRange"
    /\ ~Unsatisfiable(parseRequestRangeSpec(hdr.range), size)

Rec(pc, rs, status, announced, off, len, body) ==
    [pc |-> pc, rs |-> rs, status |-> status, announced |-> announced, off |-> off, len |-> len, body |-> body]

GetType(r) ==
    /\ r = Rec(r.pc, r.rs, r.status, r.announced, r.off, r.len, r.body)
    /\ r.pc \in {"start", "info", "check", "copy", "done", "cut"} /\ r.rs \in Ranges
    /\ r.status \in Int /\ r.announced \in Int /\ r.off \in Int /\ r.len \in Int /\ r.body \in Seq(Int)

TypeOK ==
    /\ size \in Nat /\ hdr.range \in Side \X Side
    /\ GetType(get)

(* The bytes sent so far are the first ones of the range.                  *)
Prefix(body) == \A i \in 1 .. Len(body) : body[i] = Off + i - 1

IInv ==
    /\ TypeOK
    /\ get.pc \in {"start", "info", "check"} => get.body = <<>> /\ get.status = 0
    /\ get.pc \in {"info", "check", "copy"} =>
          get.rs = parseRequestRangeSpec(hdr.range) /\ rangeError(hdr.range) # "errInvalidRange"
    /\ get.pc = "check" => Accepted /\ get.off = Off /\ get.len = Total
    /\ get.pc = "copy" => /\ Accepted /\ Prefix(get.body) /\ get.announced = Total
                          /\ get.off = Off + Len(get.body) /\ get.len = Total - Len(get.body)
                          /\ get.len >= 0 /\ get.status \in {0, 200, 206}
    /\ get.pc \in {"done", "cut"} /\ get.status \in {200, 206} =>
          /\ Accepted /\ Prefix(get.body) /\ get.announced = Total /\ Len(get.body) <= Total
          /\ get.pc = "done" => Len(get.body) = Total

LEMMA InitIInv ==
    ASSUME Sizes \subseteq Nat, \A h \in Headers : h.range \in Side \X Side, Init
    PROVE  IInv
BY DEF Init, IInv, TypeOK, GetType, Rec, Ranges, NoRange, Nil

(* The range of an accepted request, as numbers.                           *)
LEMMA RangeFacts ==
    ASSUME TypeOK, Accepted
    PROVE  /\ Off \in Nat /\ Total \in Nat /\ Off + Total <= size /\ (Total = 0 => size = 0)
           /\ GetOffset(SetRange(Off, Total), size) = Off
           /\ GetLength(SetRange(Off, Total), size) = Total
<1>1. Parsed(parseRequestRangeSpec(hdr.range)) /\ size \in Nat
  BY ParseIsParsed DEF TypeOK
<1>2. Off \in Nat /\ Total \in Nat /\ Off + Total <= size /\ (Total = 0 => size = 0)
  BY <1>1, AcceptedRangeInObject DEF Off, Total, Accepted, RangeInObject
<1> QED
  BY <1>1, <1>2, ForwardedIsSame

LEMMA BodyFromIInv == IInv => BodyIsRange
<1> SUFFICES ASSUME IInv, Finished(get), get.status \in {200, 206}
             PROVE  BodyIsRange
  BY DEF BodyIsRange
<1>1. PICK body \in Seq(Int) : body = get.body
  BY DEF IInv, TypeOK, GetType
<1>2. /\ Accepted /\ Prefix(body) /\ get.announced = Total /\ Len(body) <= Total
      /\ get.pc = "done" => Len(body) = Total
  BY <1>1 DEF IInv, Finished
<1>3. Off \in Nat /\ Total \in Nat /\ Off + Total <= size /\ size \in Nat
  BY <1>2, RangeFacts DEF IInv, TypeOK
<1>4. \A i \in Int : i \in Named(hdr.range, size) <=> Off <= i /\ i < Off + Total
  BY <1>2, NamedIsRange DEF Off, Total, Accepted, IInv, TypeOK
<1>5. \A i \in 1 .. Len(body) : i > 1 => body[i] = body[i - 1] + 1
  <2> SUFFICES ASSUME NEW i \in 1 .. Len(body), i > 1 PROVE body[i] = body[i - 1] + 1
    OBVIOUS
  <2>1. i - 1 \in 1 .. Len(body)
    BY <1>1
  <2>2. body[i] = Off + i - 1 /\ body[i - 1] = Off + (i - 1) - 1
    BY <1>2, <2>1 DEF Prefix
  <2> QED
    BY <1>3, <2>2
<1>6. {body[i] : i \in 1 .. Len(body)} \subseteq Named(hdr.range, size)
  BY <1>2, <1>3, <1>4 DEF Prefix
<1>7. ASSUME Len(body) = Total
      PROVE  Named(hdr.range, size) \subseteq {body[i] : i \in 1 .. Len(body)}
  <2> SUFFICES ASSUME NEW x \in Named(hdr.range, size) PROVE \E i \in 1 .. Len(body) : body[i] = x
    OBVIOUS
  <2>1. x \in Int
    BY DEF Named
  <2>2. x - Off + 1 \in 1 .. Len(body) /\ body[x - Off + 1] = x
    BY <1>2, <1>3, <1>4, <1>7, <2>1 DEF Prefix
  <2> QED
    BY <2>2
<1> QED
  BY <1>1, <1>2, <1>3, <1>5, <1>6, <1>7 DEF BodyIsRange

(* Facts about the type of what Respond stores.                            *)
LEMMA CodeIsInt == checkPreconditions(mtime, hdr) \in {0, NotModified, PreconditionFailed}
BY DEF checkPreconditions

(* Off, Total, Accepted and Prefix depend on the request and the object.   *)
LEMMA RequestFixed ==
    ASSUME UNCHANGED <<size, hdr>>
    PROVE  Off' = Off /\ Total' = Total /\ Accepted' = Accepted
BY DEF Off, Total, Accepted

(* An answer without a body leaves the request done, with that status.     *)
LEMMA AnswerStep ==
    ASSUME IInv, UNCHANGED <<size, hdr>>, NEW code \in Int \ {200, 206}, get' = Answered(get, code)
    PROVE  IInv'
<1>1. GetType(get)
  BY DEF IInv, TypeOK
<1>2. get' = Rec("done", get.rs, code, -1, get.off, get.len, get.body)
  BY <1>1 DEF Answered, GetType, Rec, Nil
<1>3. GetType(get)'
  BY <1>1, <1>2 DEF GetType, Rec
<1>4. get'.pc = "done" /\ get'.status = code
  BY <1>2 DEF Rec
<1> QED
  BY <1>3, <1>4 DEF IInv, TypeOK

LEMMA Steps ==
    ASSUME IInv, Next
    PROVE  IInv'
<1>0. UNCHANGED <<size, mtime, hdr>>
  BY DEF Next, GetParse, Missing, GetInfo, GetRespond, CopyByte, CopyError, CopyEnd, HeadParse, HeadInfo,
         HeadRespond, ToGet, ToHead
<1>t. TypeOK /\ GetType(get)
  BY DEF IInv, TypeOK
<1>u. /\ Off' = Off /\ Total' = Total /\ Accepted' = Accepted
      /\ size' \in Nat /\ hdr'.range \in Side \X Side
  BY <1>0, RequestFixed DEF IInv, TypeOK
<1>1. CASE HeadParse \/ HeadInfo \/ HeadRespond
  <2>1. get' = get
    BY <1>1 DEF HeadParse, HeadInfo, HeadRespond, ToHead
  <2> QED
    BY <1>0, <1>u, <2>1 DEF IInv, TypeOK, Prefix
<1>2. CASE GetParse
  <2>1. CASE rangeError(hdr.range) = "errInvalidRange"
    BY <1>0, <1>2, <2>1, AnswerStep DEF GetParse, ToGet, Parse, InvalidRange
  <2>2. CASE rangeError(hdr.range) # "errInvalidRange"
    <3>1. get' = Rec("info", parseRequestRangeSpec(hdr.range), get.status, get.announced, get.off, get.len, get.body)
      BY <1>2, <1>t, <2>2 DEF GetParse, ToGet, Parse, GetType, Rec
    <3>2. GetType(get)'
      BY <1>t, <3>1, ParseIsParsed DEF GetType, Rec, TypeOK, Parsed
    <3>3. get.body = <<>> /\ get.status = 0
      BY <1>2 DEF GetParse, IInv
    <3> QED
      BY <1>0, <1>u, <2>2, <3>1, <3>2, <3>3 DEF IInv, TypeOK, Rec
  <2> QED
    BY <2>1, <2>2
<1>3. CASE Missing
  BY <1>0, <1>3, AnswerStep DEF Missing, ToGet
<1>4. CASE GetInfo
  <2>0. /\ get.rs = parseRequestRangeSpec(hdr.range) /\ rangeError(hdr.range) # "errInvalidRange"
        /\ get.body = <<>> /\ get.status = 0
    BY <1>4 DEF GetInfo, IInv
  <2>1. CASE Unsatisfiable(get.rs, size)
    BY <1>0, <1>4, <2>1, AnswerStep DEF GetInfo, ToGet, InvalidRange
  <2>2. CASE ~Unsatisfiable(get.rs, size)
    <3>1. Accepted /\ GetOffset(get.rs, size) = Off /\ GetLength(get.rs, size) = Total
      BY <2>0, <2>2 DEF Accepted, Off, Total
    <3>2. /\ Off \in Nat /\ Total \in Nat
          /\ GetOffset(SetRange(Off, Total), size) = Off /\ GetLength(SetRange(Off, Total), size) = Total
      BY <1>t, <3>1, RangeFacts
    <3>3. get' = Rec("check", get.rs, get.status, get.announced, Off, Total, get.body)
      BY <1>4, <1>t, <2>2, <3>1, <3>2 DEF GetInfo, ToGet, GetType, Rec
    <3>4. GetType(get)'
      BY <1>t, <3>2, <3>3 DEF GetType, Rec
    <3> QED
      BY <1>0, <1>u, <2>0, <3>1, <3>3, <3>4 DEF IInv, TypeOK, Rec
  <2> QED
    BY <2>1, <2>2
<1>5. CASE GetRespond
  <2>0. /\ get.rs = parseRequestRangeSpec(hdr.range) /\ rangeError(hdr.range) # "errInvalidRange"
        /\ get.body = <<>> /\ get.status = 0 /\ Accepted /\ get.off = Off /\ get.len = Total
    BY <1>5 DEF GetRespond, IInv
  <2>1. CASE checkPreconditions(mtime, hdr) # 0
    BY <1>0, <1>5, <2>1, AnswerStep, CodeIsInt DEF GetRespond, ToGet, Respond, NotModified, PreconditionFailed
  <2>2. CASE checkPreconditions(mtime, hdr) = 0
    <3>1. ~Unsatisfiable(get.rs, size) /\ GetLength(get.rs, size) = Total
      BY <2>0 DEF Accepted, Total
    <3>2. Off \in Nat /\ Total \in Nat
      BY <1>t, <2>0, RangeFacts
    <3>a. PICK code \in {0, 206} : code = IF get.rs.kind # "nil" THEN 206 ELSE 0
      OBVIOUS
    <3>b. get' = [get EXCEPT !.pc = "copy", !.status = code, !.announced = Total]
      <4>1. get' = Respond(get, 0, "copy")
        BY <1>5 DEF GetRespond, ToGet
      <4> QED
        BY <2>2, <3>1, <3>a, <4>1, Zenon DEF Respond
    <3>3. get' = Rec("copy", get.rs, code, Total, get.off, get.len, get.body)
      BY <1>t, <3>b DEF GetType, Rec
    <3>4. GetType(get)'
      BY <1>t, <3>2, <3>3 DEF GetType, Rec
    <3>5. Prefix(<<>>)' /\ Len(<<>>) = 0
      BY DEF Prefix
    <3> QED
      BY <1>0, <1>u, <2>0, <3>2, <3>3, <3>4, <3>5 DEF IInv, TypeOK, Rec
  <2> QED
    BY <2>1, <2>2
<1>6. CASE CopyByte
  <2>0. PICK body \in Seq(Int), off \in Int, len \in Int : body = get.body /\ off = get.off /\ len = get.len
    BY <1>t DEF GetType
  <2>1. /\ get.rs = parseRequestRangeSpec(hdr.range) /\ rangeError(hdr.range) # "errInvalidRange"
        /\ Accepted /\ Prefix(body) /\ get.announced = Total
        /\ off = Off + Len(body) /\ len = Total - Len(body) /\ get.status \in {0, 200, 206} /\ len > 0
    BY <1>6, <2>0 DEF CopyByte, IInv
  <2>2. Off \in Nat /\ Total \in Nat
    BY <1>t, <2>1, RangeFacts
  <2>a. PICK code \in {200, 206} : code = Written
    BY <2>1 DEF Written
  <2>3. get' = Rec("copy", get.rs, code, get.announced, off + 1, len - 1, Append(body, off))
    BY <1>6, <1>t, <2>0, <2>a DEF CopyByte, ToGet, GetType, Rec
  <2>4. /\ Append(body, off) \in Seq(Int) /\ Len(Append(body, off)) = Len(body) + 1
        /\ Append(body, off)[Len(body) + 1] = off
        /\ \A i \in 1 .. Len(body) : Append(body, off)[i] = body[i]
    BY <2>0
  <2>b. ASSUME NEW i \in 1 .. Len(Append(body, off)) PROVE Append(body, off)[i] = Off + i - 1
    <3>1. i \in 1 .. Len(body) \/ i = Len(body) + 1
      BY <2>0, <2>4
    <3>2. CASE i \in 1 .. Len(body)
      BY <2>1, <2>4, <3>2 DEF Prefix
    <3>3. CASE i = Len(body) + 1
      BY <2>0, <2>1, <2>2, <2>4, <3>3
    <3> QED
      BY <3>1, <3>2, <3>3
  <2>5. Prefix(Append(body, off))'
    BY <1>u, <2>b DEF Prefix
  <2>6. GetType(get)'
    BY <1>t, <2>0, <2>3, <2>4 DEF GetType, Rec
  <2>7. off + 1 = Off + (Len(body) + 1) /\ len - 1 = Total - (Len(body) + 1) /\ len - 1 >= 0
    BY <2>0, <2>1, <2>2
  <2> QED
    BY <1>0, <1>u, <2>1, <2>3, <2>4, <2>5, <2>6, <2>7 DEF IInv, TypeOK, Rec
<1>7. CASE CopyError
  <2>1. CASE get.status = 0
    BY <1>0, <1>7, <2>1, AnswerStep DEF CopyError, ToGet
  <2>2. CASE get.status # 0
    <3>0. PICK body \in Seq(Int) : body = get.body
      BY <1>t DEF GetType
    <3>1. get' = Rec("cut", get.rs, get.status, get.announced, get.off, get.len, body)
      BY <1>7, <1>t, <2>2, <3>0 DEF CopyError, ToGet, GetType, Rec
    <3>2. /\ Accepted /\ Prefix(body) /\ get.announced = Total /\ get.len = Total - Len(body) /\ get.len >= 0
      BY <1>7, <3>0 DEF CopyError, IInv
    <3>3. Len(body) <= Total
      BY <1>t, <3>0, <3>2, RangeFacts
    <3>4. GetType(get)'
      BY <1>t, <3>0, <3>1 DEF GetType, Rec
    <3>5. Prefix(body)'
      BY <1>u, <3>2 DEF Prefix
    <3> QED
      BY <1>0, <1>u, <3>1, <3>2, <3>3, <3>4, <3>5 DEF IInv, TypeOK, Rec
  <2> QED
    BY <2>1, <2>2
<1>8. CASE CopyEnd
  <2>0. PICK body \in Seq(Int) : body = get.body
    BY <1>t DEF GetType
  <2>1. /\ Accepted /\ Prefix(body) /\ get.announced = Total /\ get.len = Total - Len(body) /\ get.len = 0
        /\ get.status \in {0, 200, 206}
    BY <1>8, <2>0 DEF CopyEnd, IInv
  <2>a. PICK code \in {200, 206} : code = Written
    BY <2>1 DEF Written
  <2>2. get' = Rec("done", get.rs, code, get.announced, get.off, get.len, body)
    BY <1>8, <1>t, <2>0, <2>a DEF CopyEnd, ToGet, GetType, Rec
  <2>3. Len(body) = Total
    BY <1>t, <2>0, <2>1, RangeFacts
  <2>4. GetType(get)'
    BY <1>t, <2>0, <2>2 DEF GetType, Rec
  <2>5. Prefix(body)'
    BY <1>u, <2>1 DEF Prefix
  <2>6. Total \in Nat
    BY <1>t, <2>1, RangeFacts
  <2> QED
    BY <1>0, <1>u, <2>1, <2>2, <2>3, <2>4, <2>5, <2>6 DEF IInv, TypeOK, Rec
<1> QED
  BY <1>1, <1>2, <1>3, <1>4, <1>5, <1>6, <1>7, <1>8 DEF Next

(* A GET answered 200 or 206 sends exactly the bytes its Range header      *)
(* names, in order, for every size of the object, every header and every   *)
(* point at which the stream may break.                                    *)
THEOREM GetSendsRange ==
    ASSUME Sizes \subseteq Nat, \A h \in Headers : h.range \in Side \X Side
    PROVE  Spec => []BodyIsRange
<1>1. Init => IInv
  BY InitIInv
<1>2. IInv /\ [Next]_vars => IInv'
  <2> SUFFICES ASSUME IInv, [Next]_vars PROVE IInv'
    OBVIOUS
  <2>1. CASE UNCHANGED vars
    BY <2>1 DEF vars, IInv, TypeOK, Accepted, Off, Total, Prefix
  <2>2. CASE Next
    BY <2>2, Steps
  <2> QED
    BY <2>1, <2>2
<1>3. IInv => BodyIsRange
  BY BodyFromIInv
<1> QED
  BY <1>1, <1>2, <1>3, PTL DEF Spec
=============================================================================
