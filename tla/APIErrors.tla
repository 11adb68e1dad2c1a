------------------------------ MODULE APIErrors ------------------------------
(***************************************************************************)
(* The way of an error to the client: what a replica answered becomes an   *)
(* error of the object layer (ErrorRespToObjectError), that one an API     *)
(* error code (toAPIErrorCode), and the code the XML document, the status  *)
(* and the Retry-After header the client reads (errorCodes,                *)
(* writeErrorResponse).  A replica may itself be a gateway of this kind, so *)
(* an answer may be carried over several hops; where a gateway reads by    *)
(* HEAD, as it reads the information of an object, only a status comes     *)
(* back.                                                                   *)
(*                                                                         *)
(* An APIErrorCode is written without its prefix "Err": the table below    *)
(* mostly answers with that very name.                                     *)
(***************************************************************************)
EXTENDS Naturals, Sequences, TLC

CONSTANTS MaxHops      \* bound: gateways an error passes

VARIABLES err,         \* the error at hand
          origin,      \* the error as the first gateway met it
          answer,      \* what the client of the last gateway reads
          bare,        \* history: the status of the last answer without a document
          hops

vars == <<err, origin, answer, bare, hops>>

-----------------------------------------------------------------------------
(* The table of errors, in the order of the source.  An entry some error is  *)
(* converted to or from has its name here; of those that no code tells       *)
(* apart, and that are answered alike, one stands for all.                   *)

\* Entries answered under their own name, and entries that share a code.
Own(names, status) == [c \in names |-> [code |-> c, status |-> status]]
As(names, code, status) == [c \in names |-> [code |-> code, status |-> status]]

ArgumentErrors ==
     As({"InvalidCopyDest"}, "InvalidRequest", 400)
  @@ As({"InvalidCopySource"}, "InvalidArgument", 400)
  @@ Own({"BadDigest", "EntityTooSmall", "EntityTooLarge", "IncompleteBody",
          "InvalidBucketName", "MalformedXML"}, 400)
  @@ Own({"AccessDenied"}, 403) @@ As({"InvalidAccessKeyID"}, "InvalidAccessKeyId", 403)
  @@ Own({"InternalError"}, 500)
  @@ Own({"InvalidRange"}, 416)
  @@ Own({"MissingContentLength"}, 411)
  @@ Own({"NoSuchBucket", "NoSuchBucketPolicy", "NoSuchBucketLifecycle",
          "NoSuchKey"}, 404)

StateErrors ==
     Own({"NoSuchUpload", "NoSuchVersion"}, 404)
  @@ Own({"NotImplemented"}, 501)
  @@ Own({"PreconditionFailed"}, 412)
  @@ Own({"SignatureDoesNotMatch", "AllAccessDisabled"}, 403)
  @@ Own({"MethodNotAllowed"}, 405)
  @@ Own({"InvalidPart", "InvalidPartOrder"}, 400)
  @@ As({"POSTFileRequired"}, "InvalidArgument", 400)
  @@ As({"MissingCredTag"}, "InvalidRequest", 400)
  @@ Own({"BucketNotEmpty", "BucketAlreadyExists"}, 409)
  @@ As({"CredMalformed"}, "AuthorizationQueryParametersError", 400)

\* AccessDenied comes with the status of a bad request too.
RequestErrors ==
     As({"NegativeExpires"}, "AuthorizationQueryParametersError", 400)
  @@ As({"MissingDateHeader"}, "AccessDenied", 400)
  @@ As({"RequestNotReadyYet"}, "AccessDenied", 403)
  @@ Own({"SlowDown"}, 503)
  @@ Own({"KeyTooLongError"}, 400)
  @@ Own({"BucketAlreadyOwnedByYou"}, 409)
  @@ As({"ObjectLocked"}, "InvalidRequest", 400)
  @@ As({"AuthHeaderEmpty"}, "InvalidArgument", 400)

ExtensionErrors ==
     As({"InvalidCopyPartRange", "MissingSSECustomerKey",
         "MissingSSECustomerKeyMD5", "SSECustomerKeyMD5Mismatch",
         "UnsupportedMetadata"}, "InvalidArgument", 400)
  @@ As({"NoAccessKey"}, "AccessDenied", 403)
  @@ As({"InvalidToken"}, "InvalidTokenId", 403)
  @@ As({"ContentSHA256Mismatch"}, "XAmzContentSHA256Mismatch", 400)
  @@ As({"StorageFull"}, "XMinioStorageFull", 507)
  @@ As({"ParentIsObject"}, "XMinioParentIsObject", 400)
  @@ As({"ObjectExistsAsDirectory"}, "XMinioObjectExistsAsDirectory", 409)
  @@ Own({"InvalidRequest"}, 400)

\* The errors of S3 Select, nearly all of one kind.
SelectErrors ==
     Own({"EmptyRequestBody"}, 400) @@ Own({"Busy"}, 503)
  @@ Own({"UnauthorizedAccess"}, 401)
  @@ As({"InvalidJSONType"}, "InvalidJsonType", 400)

ParseErrors == Own({"ParseExpectedTokenType"}, 400)

\* One of the evaluator's errors is answered under the name of another.
EvaluatorErrors ==
     Own({"EvaluatorInvalidTimestampFormatPatternToken"}, 400)
  @@ As({"EvaluatorUnterminatedTimestampFormatPatternToken"},
         "EvaluatorInvalidTimestampFormatPatternToken", 400)
  @@ As({"PostPolicyConditionInvalidFormat"}, "PostPolicyInvalidKeyName", 403)

errorCodes ==
  ArgumentErrors @@ StateErrors @@ RequestErrors @@ ExtensionErrors
  @@ SelectErrors @@ ParseErrors @@ EvaluatorErrors

\* A code without an entry is answered like an internal error.
ToAPIErr(c) ==
  IF c \in DOMAIN errorCodes THEN errorCodes[c] ELSE errorCodes["InternalError"]

-----------------------------------------------------------------------------
(* The conversions *)

\* An error is the response of a replica, or one of a named type.
Response(code, status) == [type |-> "ErrorResponse", code |-> code, status |-> status]
Typed(type) == [type |-> type, code |-> "", status |-> 0]

\* Mutant of ErrorRespToObjectError's table: an unknown upload for a missing key.
MutUploadAsKey ==
     "NoSuchBucket" :> "BucketNotFound" @@ "NoSuchKey" :> "ObjectNotFound"
  @@ "NoSuchUpload" :> "ObjectNotFound" @@ "AccessDenied" :> "PrefixAccessDenied"

\* What the client library's codes are turned into; the others stay as they
\* are.
ObjectErrors ==
     "BucketAlreadyOwnedByYou" :> "BucketAlreadyOwnedByYou"
  @@ "BucketNotEmpty" :> "BucketNotEmpty"
  @@ "NoSuchBucketPolicy" :> "BucketPolicyNotFound"
  @@ "NoSuchBucketLifecycle" :> "BucketLifecycleNotFound"
  @@ "InvalidBucketName" :> "BucketNameInvalid"
  @@ "InvalidPart" :> "InvalidPart"
  @@ "NoSuchBucket" :> "BucketNotFound"
  @@ "NoSuchKey" :> "ObjectNotFound"
  @@ "XMinioInvalidObjectName" :> "ObjectNameInvalid"
  @@ "AccessDenied" :> "PrefixAccessDenied"
  @@ "XAmzContentSHA256Mismatch" :> "SHA256Mismatch"
  @@ "NoSuchUpload" :> "InvalidUploadID"
  @@ "EntityTooSmall" :> "PartTooSmall"

ErrorRespToObjectError(e, object) ==
  CASE e.type = "network down" -> Typed("BackendDown")
    [] e.type = "ErrorResponse" /\ e.code = "NoSuchKey" /\ ~object ->
         Typed("BucketNotFound")
    [] e.type = "ErrorResponse" /\ e.code \in DOMAIN ObjectErrors
         /\ (e.code = "NoSuchKey" => object) -> Typed(ObjectErrors[e.code])
    [] OTHER -> e

\* Errors told apart by their value.
ErrorValues ==
     "errInvalidArgument" :> "AdminInvalidArgument"
  @@ "errSignatureMismatch" :> "SignatureDoesNotMatch"
  @@ "errInvalidRange" :> "InvalidRange"
  @@ "errDataTooLarge" :> "EntityTooLarge"
  @@ "errDataTooSmall" :> "EntityTooSmall"
  @@ "errAuthentication" :> "AccessDenied"
  @@ "auth.ErrInvalidAccessKeyLength" :> "AdminInvalidAccessKey"
  @@ "auth.ErrInvalidSecretKeyLength" :> "AdminInvalidSecretKey"
  @@ "ErrMissingCustomerKey" :> "MissingSSECustomerKey"
  @@ "ErrMissingCustomerKeyMD5" :> "MissingSSECustomerKeyMD5"
  @@ "ErrCustomerKeyMD5Mismatch" :> "SSECustomerKeyMD5Mismatch"
  @@ "ErrInvalidCustomerKey" :> "AccessDenied"
  @@ "ErrSecretKeyMismatch" :> "AccessDenied"
  @@ "errOperationTimedOut" :> "OperationTimedOut"
  @@ "context.Canceled" :> "OperationTimedOut"
  @@ "context.DeadlineExceeded" :> "OperationTimedOut"

\* Errors told apart by their type.
ErrorTypes ==
     "StorageFull" :> "StorageFull" @@ "BadDigest" :> "BadDigest"
  @@ "AllAccessDisabled" :> "AllAccessDisabled"
  @@ "IncompleteBody" :> "IncompleteBody"
  @@ "ObjectExistsAsDirectory" :> "ObjectExistsAsDirectory"
  @@ "PrefixAccessDenied" :> "AccessDenied"
  @@ "ParentIsObject" :> "ParentIsObject"
  @@ "BucketNameInvalid" :> "InvalidBucketName"
  @@ "BucketNotFound" :> "NoSuchBucket"
  @@ "BucketAlreadyOwnedByYou" :> "BucketAlreadyOwnedByYou"
  @@ "BucketNotEmpty" :> "BucketNotEmpty"
  @@ "BucketAlreadyExists" :> "BucketAlreadyExists"
  @@ "BucketExists" :> "BucketAlreadyOwnedByYou"
  @@ "ObjectNotFound" :> "NoSuchKey"
  @@ "ObjectAlreadyExists" :> "MethodNotAllowed"
  @@ "ObjectNameInvalid" :> "InvalidObjectName"
  @@ "ObjectNamePrefixAsSlash" :> "InvalidObjectNamePrefixSlash"
  @@ "InvalidUploadID" :> "NoSuchUpload" @@ "InvalidPart" :> "InvalidPart"
  @@ "InsufficientWriteQuorum" :> "SlowDown"
  @@ "InsufficientReadQuorum" :> "SlowDown"
  @@ "UnsupportedDelimiter" :> "NotImplemented"
  @@ "InvalidMarkerPrefixCombination" :> "NotImplemented"
  @@ "InvalidUploadIDKeyCombination" :> "NotImplemented"
  @@ "MalformedUploadID" :> "NoSuchUpload"
  @@ "PartTooSmall" :> "EntityTooSmall"
  @@ "SignatureDoesNotMatch" :> "SignatureDoesNotMatch"
  @@ "SHA256Mismatch" :> "ContentSHA256Mismatch"
  @@ "ObjectTooLarge" :> "EntityTooLarge" @@ "ObjectTooSmall" :> "EntityTooSmall"
  @@ "NotImplemented" :> "NotImplemented" @@ "PartTooBig" :> "EntityTooLarge"
  @@ "UnsupportedMetadata" :> "UnsupportedMetadata"
  @@ "BucketPolicyNotFound" :> "NoSuchBucketPolicy"
  @@ "BucketLifecycleNotFound" :> "NoSuchBucketLifecycle"
  @@ "BackendDown" :> "BackendDown"
  @@ "ObjectNameTooLong" :> "KeyTooLongError"

toAPIErrorCode(e) ==
  CASE e.type \in DOMAIN ErrorValues -> ErrorValues[e.type]
    [] e.type \in DOMAIN ErrorTypes -> ErrorTypes[e.type]
    [] e.type = "body shorter than declared" -> "IncompleteBody"
    [] OTHER -> "InternalError"

\* An error nothing is known of is relayed as the replica put it.
toAPIError(e) ==
  LET apiErr == ToAPIErr(toAPIErrorCode(e))
  IN  IF apiErr.code = "InternalError" /\ e.type = "ErrorResponse"
      THEN [code |-> e.code, status |-> e.status]
      ELSE apiErr

\* What the client reads; the header asks it to come back in two minutes.
writeErrorResponse(apiErr) ==
  [form |-> "document", code |-> apiErr.code, status |-> apiErr.status,
   retryAfter |-> apiErr.code \in {"SlowDown", "XMinioServerNotInitialized",
                                   "XMinioReadQuorum", "XMinioWriteQuorum"}]

\* The answer to a HEAD.
writeErrorResponseHeadersOnly(apiErr) ==
  [form |-> "headers", code |-> "", status |-> apiErr.status, retryAfter |-> FALSE]

\* A completion that sent white space: status and headers are out already.
writeErrorResponseLate(apiErr) ==
  [form |-> "late", code |-> apiErr.code, status |-> 200, retryAfter |-> FALSE]

\* The code the client library makes up for an answer without a document.
CodeOfStatus(status) ==
  CASE status = 404 -> "NoSuchKey"
    [] status = 403 -> "AccessDenied"
    [] status = 409 -> "BucketNotEmpty"
    [] status = 412 -> "PreconditionFailed"
    [] OTHER -> "the status line"

-----------------------------------------------------------------------------
NoAnswer == [form |-> "none", code |-> "", status |-> 0, retryAfter |-> FALSE]

\* A check of a handler names the code itself.
Refused(c) == [type |-> "refused", code |-> c, status |-> 0]

\* What the first gateway may meet: any response another gateway or a server
\* with the same table gives, a connection that fails, the errors of the
\* layers below, and a check of one of its handlers.
Met ==
  {Response(errorCodes[c].code, errorCodes[c].status) : c \in DOMAIN errorCodes}
  \cup {Response("XMinioInvalidObjectName", 400), Response("Throttled", 503),
        Typed("network down"), Typed("body shorter than declared"),
        Typed("unexpected EOF")}
  \cup {Typed(t) : t \in DOMAIN ErrorTypes \cup DOMAIN ErrorValues}
  \cup {Refused(c) : c \in {"ServerNotInitialized", "InvalidRange",
                            "MalformedXML", "MissingDateHeader"}}

Init ==
  /\ origin \in Met
  /\ err = origin
  /\ answer = NoAnswer
  /\ bare = 0
  /\ hops = 0

\* The object layer converts a replica's error for a call that did or did not
\* name an object, or hands it on as it is: GetObjectInfo, PutObject,
\* CopyObject, PutObjectPart and CopyObjectPart do.
Converted(e) == {ErrorRespToObjectError(e, TRUE), ErrorRespToObjectError(e, FALSE), e}

\* A gateway answers.
Answer ==
  /\ answer = NoAnswer
  /\ \E apiErr \in IF err.type = "refused" THEN {ToAPIErr(err.code)}
                    ELSE {toAPIError(e) : e \in Converted(err)} :
       answer' \in {writeErrorResponse(apiErr), writeErrorResponseHeadersOnly(apiErr),
                    writeErrorResponseLate(apiErr)}
  /\ bare' = IF answer'.form = "headers" THEN answer'.status ELSE bare
  /\ hops' = hops + 1
  /\ UNCHANGED <<err, origin>>

\* Its client is another gateway, for which it is a replica.  What the client
\* library makes of an error in a response of status 200 is left out.
Carry ==
  /\ answer.form \in {"document", "headers"}
  /\ hops < MaxHops
  /\ err' = Response(IF answer.form = "headers" THEN CodeOfStatus(answer.status)
                     ELSE answer.code, answer.status)
  /\ answer' = NoAnswer
  /\ UNCHANGED <<origin, bare, hops>>

Next == Answer \/ Carry

Spec == Init /\ [][Next]_vars

-----------------------------------------------------------------------------
(* Properties *)

\* A replica's code reaches the client unchanged over any number of gateways
\* that answer with a document: ErrorRespToObjectError and toAPIErrorCode undo
\* each other.  Two codes are exceptions: NoSuchKey of a call that names no
\* object tells of the bucket, and the invalid object name has no entry in the
\* table to come back to.  Over a HEAD the code is lost, but from there on the
\* status stays what it was, so what is missing is still missing; and but for
\* a completion that began its response, the status is one of an error.
CodeRelayed ==
  answer # NoAnswer =>
    /\ answer.status >= 400 \/ answer.form = "late"
    /\ bare # 0 /\ answer.form # "late" => answer.status = bare
    /\ bare = 0 /\ origin.type = "ErrorResponse" =>
         CASE origin.code = "NoSuchKey" -> answer.code \in {"NoSuchKey", "NoSuchBucket"}
           [] origin.code = "XMinioInvalidObjectName" ->
                answer.code \in {"XMinioInvalidObjectName", "InternalError"}
           [] OTHER -> answer.code = origin.code

\* Losing the quorum asks the client of the last gateway to come back, however
\* many gateways the answer passes as a document; a HEAD on the way leaves of
\* that only the status 503.
QuorumAsksRetry ==
  answer # NoAnswer
  /\ origin.type \in {"InsufficientReadQuorum", "InsufficientWriteQuorum"} =>
    /\ answer.form # "late" => answer.status = 503
    /\ answer.form = "document" /\ bare = 0 => answer.retryAfter

\* A request that comes before the object layer is published is told to come
\* back: the header is set for the code of a server not initialized.
StartupAsksRetry ==
  answer.form = "document" /\ origin = Refused("ServerNotInitialized") =>
    answer.retryAfter
=============================================================================
