------------------------------- MODULE Errors -------------------------------
(***************************************************************************)
(* The two ends of an error's way through the service: the adapter turns a *)
(* status code of Market Data into an error kind (mapOperationError), and  *)
(* the transport turns an error kind into the status code a caller sees    *)
(* (codeFor).  Every kind travels in ErrorDetail as the reason.            *)
(***************************************************************************)

(* application.ErrorKind                                                   *)
ErrorKinds ==
  {"invalid_parameter", "market_data_rejected_request", "symbol_not_found",
   "incomplete_data", "invalid_market_data", "market_data_unavailable",
   "market_data_resource_exhausted", "response_too_large", "request_canceled",
   "request_timeout", "market_data_contract_mismatch", "market_data_failure",
   "internal_error"}

(* The status codes with a kind of their own.                              *)
UpstreamKinds ==
  [InvalidArgument    |-> "market_data_rejected_request",
   NotFound           |-> "symbol_not_found",
   FailedPrecondition |-> "incomplete_data",
   DataLoss           |-> "invalid_market_data",
   Unavailable        |-> "market_data_unavailable",
   ResourceExhausted  |-> "market_data_resource_exhausted",
   Canceled           |-> "request_canceled",
   DeadlineExceeded   |-> "request_timeout",
   Unimplemented      |-> "market_data_contract_mismatch"]

KindOf(code) ==
  IF code \in DOMAIN UpstreamKinds THEN UpstreamKinds[code] ELSE "market_data_failure"

PublicCodes ==
  [invalid_parameter              |-> "InvalidArgument",
   market_data_rejected_request   |-> "InvalidArgument",
   symbol_not_found               |-> "NotFound",
   incomplete_data                |-> "FailedPrecondition",
   invalid_market_data            |-> "DataLoss",
   market_data_unavailable        |-> "Unavailable",
   market_data_resource_exhausted |-> "ResourceExhausted",
   response_too_large             |-> "ResourceExhausted",
   request_canceled               |-> "Canceled",
   request_timeout                |-> "DeadlineExceeded",
   market_data_contract_mismatch  |-> "Unimplemented"]

CodeForCatchAll(kind) ==   \* fault: the case of a missing symbol is forgotten
  IF kind \in DOMAIN PublicCodes \ {"symbol_not_found"} THEN PublicCodes[kind] ELSE "Internal"

CodeFor(kind) ==
  IF kind \in DOMAIN PublicCodes THEN PublicCodes[kind] ELSE "Internal"
=============================================================================
