----------------------------- MODULE ApiErrors -----------------------------
(***************************************************************************)
(* The failures a call of internal/gcprov can end with, and what the code  *)
(* concludes from them (errors.go, crud.go isNotFound, await.go            *)
(* operationError).                                                        *)
(*                                                                         *)
(* An error is a record: kind "api" is an *APIError anywhere in the chain  *)
(* (errors.As sees through every wrapping, so wrapping is not modelled),   *)
(* "transport" a failure below the HTTP response, "canceled" and           *)
(* "deadline" a context's own two errors, "other" anything else (an        *)
(* unparseable body, a request that cannot be built).  Messages are left   *)
(* out.                                                                    *)
(***************************************************************************)
EXTENDS Integers

ApiError(status, code, reason) ==
  [kind |-> "api", status |-> status, code |-> code, reason |-> reason]

Failure(how) == [kind |-> how, status |-> 0, code |-> "", reason |-> ""]

Transport == Failure("transport")
Canceled  == Failure("canceled")
Deadline  == Failure("deadline")
Garbled   == Failure("other")

(* The answers seen from GCP, decoded by decodeAPIError and reasonOf. *)
Throttle429     == ApiError(429, "RESOURCE_EXHAUSTED", "")
ComputeThrottle == ApiError(403, "", "rateLimitExceeded")
Denied          == ApiError(403, "PERMISSION_DENIED", "IAM_PERMISSION_DENIED")
ComputeDenied   == ApiError(403, "", "forbidden")
Aborted         == ApiError(409, "ABORTED", "")
AlreadyExists   == ApiError(409, "ALREADY_EXISTS", "")
NotFound        == ApiError(404, "NOT_FOUND", "")
ComputeNotFound == ApiError(404, "", "notFound")
Stale           == ApiError(412, "", "conditionNotMet")
Precondition    == ApiError(400, "FAILED_PRECONDITION", "")
Internal        == ApiError(500, "INTERNAL", "")
Unavailable     == ApiError(503, "UNAVAILABLE", "")
BadGateway      == ApiError(502, "", "")

ApiErrors ==
  {Throttle429, ComputeThrottle, Denied, ComputeDenied, Aborted, AlreadyExists, NotFound,
   ComputeNotFound, Stale, Precondition, Internal, Unavailable, BadGateway}

retryableReasons  == {"RATE_LIMIT_EXCEEDED", "rateLimitExceeded"}
retryableCodes    == {"RESOURCE_EXHAUSTED", "UNAVAILABLE", "ABORTED"}
notRetryableCodes == {"INVALID_ARGUMENT", "PERMISSION_DENIED", "FAILED_PRECONDITION", "ALREADY_EXISTS"}
retryableStatus   == {429, 500, 503}

(* context.DeadlineExceeded is a net.Error, context.Canceled is not. *)
isTransportError(e) == e.kind \in {"transport", "deadline"}

(* Mutant: the reason of a throttle is not looked at. *)
retryableAnswer_NoReason(e) ==
  \/ e.code \in retryableCodes
  \/ e.code \notin notRetryableCodes /\ e.status \in retryableStatus

(* An *APIError is safe to retry by its reason first, its code second and  *)
(* its status third.                                                       *)
retryableAnswer(e) ==
  \/ e.reason \in retryableReasons
  \/ e.code \in retryableCodes
  \/ e.code \notin notRetryableCodes /\ e.status \in retryableStatus

(* Mutant: a transport failure taken for one the server never acted on. *)
ClassifyError_TransportIsSafe(e) ==
  IF (e.kind = "api" /\ retryableAnswer(e)) \/ isTransportError(e)
    THEN "SafeToRetry" ELSE "NotSafeToRetry"

ClassifyError(e) ==
  CASE e.kind = "api" /\ retryableAnswer(e) -> "SafeToRetry"
    [] isTransportError(e) -> "ConditionallyRetryable"
    [] OTHER -> "NotSafeToRetry"

(* "gone" as crud.go asks it: an HTTP 404, or a code that spells it. *)
isNotFound(e) == e.kind = "api" /\ (e.status = 404 \/ e.code = "NOT_FOUND")

(* How an operation that finished with an error reads once operationError  *)
(* has rendered it: no HTTP status; a compute-style operation carries the  *)
(* spelled code of its first sub-error, a google.longrunning one the       *)
(* number of the grpc code.                                                *)
Causes == {"NOT_FOUND", "FAILED_PRECONDITION"}

grpcNumber == [c \in Causes |-> IF c = "NOT_FOUND" THEN "5" ELSE "9"]

operationError(longrunning, cause) ==
  ApiError(0, IF longrunning THEN grpcNumber[cause] ELSE cause, "")
=============================================================================
