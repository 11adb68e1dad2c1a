------------------------------ MODULE Handlers ------------------------------
(***************************************************************************)
(* The S3 front end: a request passes the middleware, the router chooses   *)
(* its API, and the API's handler runs its checks, calls the object layer  *)
(* and writes one response, while collectAPIStats counts it; or it panics, *)
(* and net/http closes the connection.                                     *)
(*                                                                         *)
(* A handler is written as the sequence of the steps of its Go function, in*)
(* their order: a check is named for what it rejects, a call for the method*)
(* of the object layer.  A request carries the set "bad" of the checks it  *)
(* does not pass; whether it is authenticated is one of them ("auth"), and *)
(* how that verdict is reached is outside this module.                     *)
(***************************************************************************)
EXTENDS Naturals, Sequences, FiniteSets, SequencesExt, FiniteSetsExt

CONSTANTS Slots,       \* the requests in flight
          Requests,    \* Requests[s]: what slot s may receive
          Ticks        \* bound: white space sent during one completion

VARIABLES layer,       \* globalObjectAPI is published
          slot,        \* slot[s]: the request it serves and how far it is
          stats        \* globalHTTPStats

vars == <<layer, slot, stats>>

-----------------------------------------------------------------------------
(* The router *)

Route(method, object, query, header, api) ==
  [method |-> method, object |-> object, query |-> query, header |-> header,
   api |-> api]

\* The routes of one bucket in the order they are registered.  A copy source
\* matches the header pattern only when it holds a slash.
routes ==
  << Route("HEAD", TRUE, {}, "any", "headobject"),
     Route("PUT", TRUE, {"partNumber", "uploadId"}, "slash", "copyobjectpart"),
     Route("PUT", TRUE, {"partNumber", "uploadId"}, "any", "putobjectpart"),
     Route("GET", TRUE, {"uploadId"}, "any", "listobjectparts"),
     Route("POST", TRUE, {"uploadId"}, "any", "completemutipartupload"),
     Route("POST", TRUE, {"uploads"}, "any", "newmultipartupload"),
     Route("DELETE", TRUE, {"uploadId"}, "any", "abortmultipartupload"),
     Route("POST", TRUE, {"select"}, "any", "selectobjectcontent"),
     Route("GET", TRUE, {}, "any", "getobject"),
     Route("PUT", TRUE, {}, "slash", "copyobject"),
     Route("PUT", TRUE, {}, "any", "putobject"),
     Route("DELETE", TRUE, {}, "any", "deleteobject"),
     Route("GET", FALSE, {"location"}, "any", "getbucketlocation"),
     Route("GET", FALSE, {"uploads"}, "any", "listmultipartuploads"),
     Route("GET", FALSE, {"list-type", "metadata"}, "any", "listobjectsv2M"),
     Route("GET", FALSE, {"list-type"}, "any", "listobjectsv2"),
     Route("GET", FALSE, {"versions"}, "any", "listbucketversions"),
     Route("GET", FALSE, {}, "any", "listobjectsv1"),
     Route("HEAD", FALSE, {}, "any", "headbucket"),
     Route("POST", FALSE, {}, "form", "postpolicybucket"),
     Route("POST", FALSE, {"delete"}, "any", "deletemultipleobjects") >>

Matches(t, r) ==
  /\ t.method = r.method
  /\ t.object => r.path = "object"
  /\ t.query \subseteq r.query
  /\ t.header = "slash" => r.copy = "slash"
  /\ t.header = "form" => r.form

\* The routers of the health check and the metrics come before the bucket's,
\* which end in errorResponseHandler.
api(r) ==
  CASE r.path \in {"ready", "live", "metrics"} -> r.path
    [] r.path = "root" -> IF r.method = "GET" THEN "listbuckets" ELSE "notfound"
    [] r.path \in {"bucket", "object"} ->
         LET i == SelectInSeq(routes, LAMBDA t : Matches(t, r))
         IN  IF i = 0 THEN "notfound" ELSE routes[i].api
    [] OTHER -> "notfound"

-----------------------------------------------------------------------------
(* The middleware *)

\* What each of the generic handlers rejects, in order.
requestValidityHandler == <<"ErrInvalidResourceName", "ErrInvalidRequest">>
requestHeaderSizeLimitHandler == <<"ErrMetadataTooLarge">>
crossDomainPolicy == <<"crossdomain.xml">>
timeValidityHandler == <<"ErrMalformedDate", "ErrRequestTimeTooSkewed">>
setCorsHandler == <<"preflight">>
authHandler == <<"ErrSignatureVersionNotSupported">>
sseTLSHandler == <<"ErrInsecureSSECustomerRequest">>
reservedMetadataHandler == <<"ErrUnsupportedMetadata">>

\* Those that add headers, count bytes or limit the body reject nothing.
globalHandlers ==
  << <<>>, <<>>, requestValidityHandler, <<>>, <<>>,
     requestHeaderSizeLimitHandler, crossDomainPolicy, timeValidityHandler,
     setCorsHandler, authHandler, sseTLSHandler, reservedMetadataHandler >>

\* Each wraps the ones before it: the last of the list sees a request first.
registerHandlers == FlattenSeq(Reverse(globalHandlers))

\* The two that answer a request themselves instead of rejecting it.
Served == {"crossdomain.xml", "preflight"}

-----------------------------------------------------------------------------
(* The handlers *)

HeadObjectHandler ==
  <<"ErrServerNotInitialized", "ErrNoSuchVersion", "auth", "ErrInvalidRange",
    "GetObjectInfo", "not modified", "ErrPreconditionFailed", "headers">>

\* The body that follows is the subject of GetRequest.
GetObjectHandler ==
  <<"ErrServerNotInitialized", "ErrNoSuchVersion", "auth", "ErrInvalidRange",
    "GetObjectNInfo", "not modified", "ErrPreconditionFailed", "headers">>

SelectObjectContentHandler ==
  <<"ErrServerNotInitialized", "auth", "ErrUnsupportedRangeHeader",
    "ErrEmptyRequestBody", "NewS3Select", "GetObjectNInfo">>

CopyObjectHandler ==
  <<"ErrServerNotInitialized", "auth", "ErrNoSuchVersion", "source",
    "auth source", "ErrInvalidMetadataDirective", "GetObjectNInfo",
    "ErrEntityTooLarge", "hash.NewReader", "metadata", "ErrInvalidCopyDest",
    "CopyObject">>

PutObjectHandler ==
  <<"ErrServerNotInitialized", "ErrInvalidCopySource", "ErrInvalidDigest",
    "ErrMissingContentLength", "ErrEntityTooLarge", "metadata", "put allowed",
    "auth", "hash.NewReader", "PutObject">>

NewMultipartUploadHandler ==
  <<"ErrServerNotInitialized", "auth", "metadata", "NewMultipartUpload">>

CopyObjectPartHandler ==
  <<"ErrServerNotInitialized", "auth", "ErrNoSuchVersion", "source",
    "auth source", "ErrInvalidPart", "ErrInvalidMaxParts", "copy range",
    "GetObjectNInfo", "ErrPreconditionFailed", "range in source", "offset",
    "ErrEntityTooLarge", "hash.NewReader", "CopyObjectPart">>

\* Mutant of PutObjectPartHandler: the check for a copy source is left out.
MutPartNoSourceCheck ==
  <<"ErrServerNotInitialized", "ErrInvalidDigest", "ErrMissingContentLength",
    "ErrEntityTooLarge", "ErrInvalidPart", "ErrInvalidMaxParts", "put allowed",
    "auth", "hash.NewReader", "PutObjectPart">>

PutObjectPartHandler ==
  <<"ErrServerNotInitialized", "ErrInvalidCopySource", "ErrInvalidDigest",
    "ErrMissingContentLength", "ErrEntityTooLarge", "ErrInvalidPart",
    "ErrInvalidMaxParts", "put allowed", "auth", "hash.NewReader",
    "PutObjectPart">>

AbortMultipartUploadHandler ==
  <<"ErrServerNotInitialized", "auth", "resources", "AbortMultipartUpload">>

ListObjectPartsHandler ==
  <<"ErrServerNotInitialized", "auth", "resources",
    "ErrInvalidPartNumberMarker", "ErrInvalidMaxParts", "ListObjectParts">>

CompleteMultipartUploadHandler ==
  <<"ErrServerNotInitialized", "auth", "resources", "body", "ErrMalformedXML",
    "ErrInvalidPartOrder", "CompleteMultipartUpload">>

DeleteObjectHandler ==
  <<"ErrServerNotInitialized", "auth", "ErrNoSuchVersion", "DeleteObject">>

GetBucketLocationHandler == <<"ErrServerNotInitialized", "auth", "GetBucketInfo">>

ListMultipartUploadsHandler ==
  <<"ErrServerNotInitialized", "auth", "resources", "ErrInvalidMaxUploads",
    "ErrNotImplemented", "ListMultipartUploads">>

ListBucketsHandler == <<"ErrServerNotInitialized", "auth", "ListBuckets">>

\* The keys are authenticated one by one, in a loop.
DeleteMultipleObjectsHandler ==
  <<"ErrServerNotInitialized", "ErrMissingContentLength",
    "ErrMissingContentMD5", "body", "ErrMalformedXML", "auth each",
    "DeleteObjects">>

PostPolicyBucketHandler ==
  <<"ErrServerNotInitialized", "ErrMissingContentLength", "ErrMethodNotAllowed",
    "ErrMalformedPOSTRequest", "ErrPOSTFileRequired", "redirect", "auth",
    "policy bytes", "policy form", "policy conditions", "ErrEntityTooSmall",
    "ErrEntityTooLarge", "metadata", "hash.NewReader", "PutObject">>

HeadBucketHandler == <<"ErrServerNotInitialized", "auth", "GetBucketInfo">>

ListBucketObjectVersionsHandler ==
  <<"ErrServerNotInitialized", "auth", "args", "ErrInvalidMaxKeys",
    "ErrInvalidEncodingMethod", "ListObjects">>

ListObjectsV2MHandler ==
  <<"ErrServerNotInitialized", "auth", "args", "ErrInvalidMaxKeys",
    "ErrInvalidEncodingMethod", "ListObjectsV2">>

ListObjectsV2Handler ==
  <<"ErrServerNotInitialized", "auth", "args", "ErrInvalidMaxKeys",
    "ErrInvalidEncodingMethod", "ListObjectsV2">>

ListObjectsV1Handler ==
  <<"ErrServerNotInitialized", "auth", "args", "ErrInvalidMaxKeys",
    "ErrInvalidEncodingMethod", "ListObjects">>

ReadinessCheckHandler == <<"goroutineCountCheck">>

Handler(a) ==
  CASE a = "headobject" -> HeadObjectHandler
    [] a = "getobject" -> GetObjectHandler
    [] a = "selectobjectcontent" -> SelectObjectContentHandler
    [] a = "copyobject" -> CopyObjectHandler
    [] a = "putobject" -> PutObjectHandler
    [] a = "newmultipartupload" -> NewMultipartUploadHandler
    [] a = "copyobjectpart" -> CopyObjectPartHandler
    [] a = "putobjectpart" -> PutObjectPartHandler
    [] a = "abortmultipartupload" -> AbortMultipartUploadHandler
    [] a = "listobjectparts" -> ListObjectPartsHandler
    [] a = "completemutipartupload" -> CompleteMultipartUploadHandler
    [] a = "deleteobject" -> DeleteObjectHandler
    [] a = "getbucketlocation" -> GetBucketLocationHandler
    [] a = "listmultipartuploads" -> ListMultipartUploadsHandler
    [] a = "listbuckets" -> ListBucketsHandler
    [] a = "deletemultipleobjects" -> DeleteMultipleObjectsHandler
    [] a = "postpolicybucket" -> PostPolicyBucketHandler
    [] a = "headbucket" -> HeadBucketHandler
    [] a = "listbucketversions" -> ListBucketObjectVersionsHandler
    [] a = "listobjectsv2M" -> ListObjectsV2MHandler
    [] a = "listobjectsv2" -> ListObjectsV2Handler
    [] a = "listobjectsv1" -> ListObjectsV1Handler
    [] a = "ready" -> ReadinessCheckHandler
    [] a = "notfound" -> <<"XMinioUnknownAPIRequest">>
    [] OTHER -> <<>>                       \* LivenessCheckHandler, metrics

\* The methods of the object layer, and those that change what is stored.
Stores == {"PutObject", "PutObjectPart"}
Changes == Stores \cup
  {"CopyObject", "CopyObjectPart", "NewMultipartUpload", "DeleteObject",
   "CompleteMultipartUpload", "AbortMultipartUpload", "DeleteObjects"}
Calls == Changes \cup
  {"GetObjectInfo", "GetObjectNInfo", "GetBucketInfo", "ListBuckets",
   "ListObjects", "ListObjectsV2", "ListObjectParts", "ListMultipartUploads"}

Fails(c, r) ==
  CASE c = "ErrServerNotInitialized" -> ~layer
    [] c = "ErrInvalidCopySource" -> r.copy # "none"
    [] c = "auth each" -> "auth" \in r.bad /\ r.keys # <<>>
    [] c = "XMinioUnknownAPIRequest" -> TRUE
    [] OTHER -> c \in r.bad

-----------------------------------------------------------------------------
(* The response, as the pieces the client reads: a status, then the body *)

Failure == "400"                     \* stands for every status of an error
Success == {"200", "201", "204"}
Statuses == Success \cup {"303", "304", Failure}

writeErrorResponse == <<Failure, "prolog", "error">>

writeErrorResponseHeadersOnly == <<Failure>>

\* The answer to the check or the call that failed.
ErrorOf(a, c) ==
  CASE c = "not modified" -> <<"304">>
    [] c = "XMinioUnknownAPIRequest" -> writeErrorResponse
    [] a = "ready" -> writeErrorResponseHeadersOnly
    [] a \in {"headobject", "headbucket"} /\ c # "ErrPreconditionFailed" ->
         writeErrorResponseHeadersOnly
    [] OTHER -> writeErrorResponse

\* The answer when every step of the handler succeeded (no browser upload gets
\* that far, see Panic).
SuccessOf(a, r) ==
  CASE a \in {"putobject", "putobjectpart", "headobject", "headbucket",
              "ready", "live"} -> <<"200">>
    [] a \in {"deleteobject", "abortmultipartupload"} -> <<"204">>
    [] a \in {"getobject", "selectobjectcontent", "metrics"} -> <<"200", "result">>
    [] a = "postpolicybucket" ->
         IF r.reply = "201" THEN <<"201", "prolog", "result">> ELSE <<r.reply>>
    [] OTHER -> <<"200", "prolog", "result">>

\* In a completion that has already sent white space the status and the
\* prolog are out: whiteSpaceWriter drops the one, the handler the other.
Remaining(response, headerWritten) ==
  IF headerWritten THEN SubSeq(response, 3, Len(response)) ELSE response

-----------------------------------------------------------------------------
(* Requests in flight *)

\* begins, ends: the path begins with "/minio", as that of a bucket of such a
\* name does, or ends like the path of the metrics.
NoRequest == [method |-> "", path |-> "", query |-> {}, copy |-> "none",
              form |-> FALSE, reply |-> "204", bad |-> {}, keys |-> <<>>,
              denied |-> {}, begins |-> FALSE, ends |-> FALSE]

\* pos: the last step of the handler taken; done: the calls that took effect;
\* err: the step that failed; sender: the goroutine of sendWhiteSpace; own
\* and report: what became of each key of a multiple delete, and what its
\* client is told of each entry of the list.
IdleSlot == [pc |-> "idle", r |-> NoRequest, api |-> "", pos |-> 0, out |-> <<>>,
             done |-> {}, err |-> "", sender |-> FALSE, headerWritten |-> FALSE,
             own |-> <<>>, report |-> <<>>]

\* By the path alone; the health check and the metrics are below "/minio".
isS3Request(r) == r.path \notin {"ready", "live", "metrics"} /\ ~r.begins

Count(counter, a) == IF a \in DOMAIN counter THEN counter[a] ELSE 0

Inc(counter, a) == (a :> Count(counter, a) + 1) @@ counter

Dec(counter, a) ==
  IF Count(counter, a) > 0 THEN [counter EXCEPT ![a] = @ - 1] ELSE counter

\* A request arrives and passes the middleware, or is answered there.
Receive(s) ==
  /\ slot[s].pc = "idle"
  /\ \E r \in Requests[s] :
       LET i == SelectInSeq(registerHandlers, LAMBDA c : c \in r.bad)
           c == registerHandlers[i]
           a == api(r)
       IN  IF i = 0
           THEN /\ slot' = [slot EXCEPT ![s].r = r, ![s].api = a, ![s].pc = "run"]
                /\ stats' = IF isS3Request(r)
                            THEN [stats EXCEPT !.current = Inc(@, a)]
                            ELSE stats
           ELSE /\ slot' = [slot EXCEPT
                      ![s].r = r, ![s].pc = "turned away", ![s].err = c,
                      ![s].out = IF c \in Served THEN <<"200">>
                                 ELSE IF /\ c = "ErrInsecureSSECustomerRequest"
                                         /\ r.method = "HEAD"
                                 THEN writeErrorResponseHeadersOnly
                                 ELSE writeErrorResponse]
                /\ UNCHANGED stats
  /\ UNCHANGED layer

\* The handler goes on to the next call, to the first check the request does
\* not pass, or to its end; in the last two cases it writes the response.
Run(s) ==
  LET q == slot[s]
      h == Handler(q.api)
      Stops(i) == i > q.pos /\ (Fails(h[i], q.r) \/ h[i] \in Calls)
      i == IF \E j \in DOMAIN h : Stops(j)
           THEN Min({j \in DOMAIN h : Stops(j)}) ELSE 0
      Write(response, err) ==
        [q EXCEPT !.pc = "written", !.err = err,
                  !.out = @ \o Remaining(response, q.headerWritten)]
  IN  /\ q.pc = "run"
      /\ slot' = [slot EXCEPT ![s] =
           CASE q.err # "" -> Write(ErrorOf(q.api, q.err), q.err)
             [] q.err = "" /\ i = 0 -> Write(SuccessOf(q.api, q.r), "")
             [] q.err = "" /\ i # 0 /\ h[i] \in Calls ->
                  [q EXCEPT !.pc = "call", !.pos = i,
                            !.sender = h[i] = "CompleteMultipartUpload"]
             [] OTHER -> Write(ErrorOf(q.api, h[i]), h[i])]
      /\ UNCHANGED <<layer, stats>>

\* The object layer answers.  A call that changes something may have done so
\* although it returns an error: a put that cannot read the object back, a copy
\* or a completion some replica did not make.  PostPolicyBucketHandler's
\* PutObject can only fail, on the lock or the bucket, before it comes to the
\* metadata.  An error of DeleteObject that is not BucketNotFound is ignored:
\* the client is told 204.
Return(s) ==
  LET q == slot[s]
      call == Handler(q.api)[q.pos]
      next == IF q.sender THEN "stop" ELSE "run"
      form == q.api = "postpolicybucket"
  IN  /\ q.pc = "call"
      /\ \/ /\ call # "DeleteObjects" /\ ~form
            /\ slot' = [slot EXCEPT ![s].pc = next, ![s].done = @ \cup {call}]
         \/ slot' = [slot EXCEPT ![s].pc = next, ![s].err = call]
         \/ /\ call \in Changes \ {"DeleteObjects"} /\ ~form
            /\ slot' = [slot EXCEPT ![s].pc = next, ![s].err = call,
                                    ![s].done = @ \cup {call}]
         \/ /\ call = "DeleteObject"
            /\ slot' = [slot EXCEPT ![s].pc = next]
      /\ UNCHANGED <<layer, stats>>

\* PostPolicyBucketHandler passes no metadata, and PutObject enters the tag of
\* the new version into it: a write to a nil map.  Nothing recovers; the rest
\* of collectAPIStats is skipped, and net/http closes the connection.
Panic(s) ==
  /\ slot[s].pc = "call" /\ slot[s].api = "postpolicybucket"
  /\ slot' = [slot EXCEPT ![s].pc = "panicked"]
  /\ UNCHANGED <<layer, stats>>

\* Mutant of DeleteObjects: a result goes to the request's entry at its place.
MutResultsInOrder(s) ==
  LET q == slot[s]
      keys == q.r.keys
      allowed == ToSet(keys) \ q.r.denied
  IN  /\ q.pc = "call"
      /\ Handler(q.api)[q.pos] = "DeleteObjects"
      /\ \E deleteList \in SetToSeqs(allowed),
            own \in [allowed -> {"ErrNone", "ErrNoSuchKey", "ErrInternalError"}] :
           slot' = [slot EXCEPT
             ![s].pc = "run", ![s].done = @ \cup {"DeleteObjects"}, ![s].own = own,
             ![s].report = [i \in DOMAIN keys |->
               IF keys[i] \in q.r.denied THEN "ErrAccessDenied"
               ELSE IF i \in DOMAIN deleteList /\ own[deleteList[i]] = "ErrInternalError"
               THEN "ErrInternalError" ELSE "deleted"]]
      /\ UNCHANGED <<layer, stats>>

\* The object layer deletes the keys that were allowed, each once, in the
\* order a Go map yields them; errs follows that order, and objectsToDelete
\* leads each result back to the first entry of the request with its key.
DeleteObjects(s) ==
  LET q == slot[s]
      keys == q.r.keys
      allowed == ToSet(keys) \ q.r.denied
      objectsToDelete ==
        [k \in allowed |-> Min({i \in DOMAIN keys : keys[i] = k})]
  IN  /\ q.pc = "call"
      /\ Handler(q.api)[q.pos] = "DeleteObjects"
      /\ \E deleteList \in SetToSeqs(allowed),
            own \in [allowed -> {"ErrNone", "ErrNoSuchKey", "ErrInternalError"}] :
           LET errs == [i \in DOMAIN deleteList |-> own[deleteList[i]]]
               dErrs == [i \in DOMAIN keys |->
                           IF keys[i] \in q.r.denied THEN "ErrAccessDenied"
                           ELSE IF objectsToDelete[keys[i]] # i THEN "ErrNone"
                           ELSE errs[CHOOSE j \in DOMAIN deleteList :
                                       deleteList[j] = keys[i]]]
           IN  slot' = [slot EXCEPT
                 ![s].pc = "run", ![s].done = @ \cup {"DeleteObjects"},
                 ![s].own = own,
                 ![s].report = [i \in DOMAIN keys |->
                   IF dErrs[i] \in {"ErrNone", "ErrNoSuchKey"} THEN "deleted"
                   ELSE dErrs[i]]]
      /\ UNCHANGED <<layer, stats>>

\* A tick of sendWhiteSpace while the completion runs: the first one sends
\* the prolog, and with it the status 200.
SendSpace(s) ==
  LET q == slot[s]
  IN  /\ q.sender
      /\ Len(SelectSeq(q.out, LAMBDA p : p = "space")) < Ticks
      /\ slot' = [slot EXCEPT
           ![s].out = @ \o (IF q.headerWritten THEN <<"space">>
                            ELSE <<"200", "prolog", "space">>),
           ![s].headerWritten = TRUE]
      /\ UNCHANGED <<layer, stats>>

\* Mutant of StopSender: the handler does not wait for the goroutine.
MutStopNoWait(s) ==
  /\ slot[s].pc = "stop"
  /\ slot' = [slot EXCEPT ![s].pc = "run"]
  /\ UNCHANGED <<layer, stats>>

\* The handler takes headerWritten from the channel: the goroutine is gone.
StopSender(s) ==
  /\ slot[s].pc = "stop"
  /\ slot' = [slot EXCEPT ![s].pc = "run", ![s].sender = FALSE]
  /\ UNCHANGED <<layer, stats>>

\* collectAPIStats after the handler returned: first the gauge ...
CountDown(s) ==
  LET q == slot[s]
  IN  /\ q.pc = "written"
      /\ slot' = [slot EXCEPT ![s].pc = "counted"]
      /\ stats' = IF isS3Request(q.r) THEN [stats EXCEPT !.current = Dec(@, q.api)]
                  ELSE stats
      /\ UNCHANGED layer

\* Mutant of respStatusCode: the status the error would have had.
MutStatusOfError(q) == IF q.err # "" THEN Failure ELSE q.out[1]

\* The status recordAPIStats saw: none when only Write was called.
respStatusCode(q) == IF q.headerWritten THEN "" ELSE q.out[1]

\* ... then updateStats, under the locks of the two totals.
updateStats(s) ==
  LET q == slot[s]
      code == respStatusCode(q)
  IN  /\ q.pc = "counted"
      /\ slot' = [slot EXCEPT ![s].pc = "done"]
      /\ stats' = IF ~isS3Request(q.r) \/ q.r.ends THEN stats
                  ELSE [stats EXCEPT
                         !.total = Inc(@, q.api),
                         !.errors = IF code \in Success \cup {""} THEN @
                                    ELSE Inc(@, q.api)]
      /\ UNCHANGED layer

\* startRadio publishes the object layer while requests are served.
PublishLayer ==
  /\ ~layer
  /\ layer' = TRUE
  /\ UNCHANGED <<slot, stats>>

Init ==
  /\ layer = FALSE
  /\ slot = [s \in Slots |-> IdleSlot]
  /\ stats = [current |-> <<>>, total |-> <<>>, errors |-> <<>>]

Serve(s) ==
  \/ Receive(s) \/ Run(s) \/ Return(s) \/ Panic(s) \/ DeleteObjects(s)
  \/ StopSender(s) \/ CountDown(s) \/ updateStats(s)

Next ==
  \/ \E s \in Slots : Serve(s) \/ SendSpace(s)
  \/ PublishLayer

Spec == Init /\ [][Next]_vars

-----------------------------------------------------------------------------
(* Properties *)

Answered == {"turned away", "written", "counted", "done"}

Is(q, p) == p \in ToSet(q.out)

\* No request is answered twice: one status, which comes first; at most one
\* XML prolog, before the body; white space only between the two; one document,
\* which is the last thing written, also when the ticker of sendWhiteSpace
\* races the end of the completion.  One whose handler panics is not answered
\* at all.
OneResponse ==
  \A s \in Slots : LET q == slot[s] IN
    IF q.pc \in Answered
    THEN /\ q.out[1] \in Statuses
         /\ \A i \in 2..Len(q.out) :
              /\ q.out[i] = "prolog" => i = 2
              /\ q.out[i] = "space" => Is(q, "prolog") /\ i < Len(q.out)
              /\ q.out[i] \in {"result", "error"} => i = Len(q.out)
              /\ q.out[i] \in {"prolog", "space", "result", "error"}
         /\ ~q.sender
    ELSE /\ ~Is(q, "result") /\ ~Is(q, "error")
         /\ q.out # <<>> => q.headerWritten /\ q.pc # "panicked"

\* A PUT that names a copy source never stores its own body, whichever route
\* the form of that name sends it to: a source without a slash matches no
\* route of a copy, and the handlers of uploads turn it away.  And a request
\* that a check turns away has changed nothing.  (The error of the call that
\* changes the store is no such promise: the call may have taken effect.)
CopyIsNoUpload ==
  \A s \in Slots : LET q == slot[s] IN
    /\ q.r.method = "PUT" /\ q.r.copy # "none" => q.done \cap Stores = {}
    /\ q.err # "" /\ q.err \notin Calls => q.done \cap Changes = {}

\* The gauge of running requests is the number of requests whose handler runs
\* or panicked: those are never subtracted again.  The totals count each
\* request that was answered once, as an error when the status its client read
\* is not one of success (a redirect and "not modified" are not), whatever
\* other requests do meanwhile.  Left out of all three are the paths that
\* begin with "/minio", and of the totals those that end like the metrics'.
CountersSettle ==
  \A a \in {slot[s].api : s \in Slots} \cup
           DOMAIN stats.current \cup DOMAIN stats.total \cup DOMAIN stats.errors :
    LET Of(P(_)) == Cardinality({s \in Slots :
                      slot[s].api = a /\ isS3Request(slot[s].r) /\ P(slot[s])})
        Total(q) == q.pc = "done" /\ ~q.r.ends
    IN  a # "" =>
        /\ Count(stats.current, a) =
             Of(LAMBDA q : q.pc \in {"run", "call", "stop", "written", "panicked"})
        /\ Count(stats.total, a) = Of(Total)
        /\ Count(stats.errors, a) = Of(LAMBDA q : Total(q) /\ q.out[1] \notin Success)

\* What DeleteMultipleObjects tells of each entry, in whatever order the map
\* yielded the keys.  A key the request may not delete is denied at each of
\* its entries and left alone.  A key the object layer failed to delete is
\* reported as an error at its first entry and only there: a list that
\* repeats it is told "deleted" as well.  Every other entry is "deleted".
ReportedIsOwn ==
  \A s \in Slots : LET q == slot[s]
                        keys == q.r.keys IN
    "DeleteObjects" \in q.done =>
      \A i \in DOMAIN keys :
        LET k == keys[i]
            first == \A j \in DOMAIN keys : keys[j] = k => i <= j
        IN  IF k \in q.r.denied
            THEN q.report[i] = "ErrAccessDenied" /\ k \notin DOMAIN q.own
            ELSE q.report[i] = IF first /\ q.own[k] = "ErrInternalError"
                               THEN "ErrInternalError" ELSE "deleted"
=============================================================================
