------------------------------- MODULE DxHttp -------------------------------
(***************************************************************************)
(* dx_getHttpData of dx_utilities.c, called on any thread: libcurl is      *)
(* initialised by the first call, which a flag without a lock tells from   *)
(* the others.  Of a transfer only its end matters here.                   *)
(***************************************************************************)
CONSTANT Callers    \* the threads that call it

VARIABLES
  curl_initialized,   \* the static flag
  curl_ready,         \* a call of curl_global_init has returned
  http                \* where each caller is

httpVars == <<curl_initialized, curl_ready, http>>

HttpTypeOK ==
  /\ curl_initialized \in BOOLEAN /\ curl_ready \in BOOLEAN
  /\ http \in [Callers -> {"none", "check", "init", "flag", "transfer"}]

HttpInit ==
  /\ curl_initialized = FALSE /\ curl_ready = FALSE
  /\ http = [c \in Callers |-> "none"]

Goes(c, here, there) == http[c] = here /\ http' = [http EXCEPT ![c] = there]

HttpBegin(c) == Goes(c, "none", "check") /\ UNCHANGED <<curl_initialized, curl_ready>>

\* Slip: the flag is set by who finds it clear, before libcurl is initialised.
FlagFirst(c) ==
  /\ Goes(c, "check", IF curl_initialized THEN "transfer" ELSE "init")
  /\ curl_initialized' = TRUE
  /\ UNCHANGED curl_ready

CheckFlag(c) ==
  /\ Goes(c, "check", IF curl_initialized THEN "transfer" ELSE "init")
  /\ UNCHANGED <<curl_initialized, curl_ready>>

\* Its result is not read.
curl_global_init(c) ==
  /\ Goes(c, "init", "flag")
  /\ curl_ready' = TRUE
  /\ UNCHANGED curl_initialized

SetFlag(c) ==
  /\ Goes(c, "flag", "transfer")
  /\ curl_initialized' = TRUE
  /\ UNCHANGED curl_ready

\* With data, or with NULL: no memory, no handle, or a transfer that failed.
HttpEnds(c) == Goes(c, "transfer", "none") /\ UNCHANGED <<curl_initialized, curl_ready>>

HttpStep(c) == CheckFlag(c) \/ curl_global_init(c) \/ SetFlag(c)

-----------------------------------------------------------------------------

\* No thread uses libcurl before a call of curl_global_init has returned, though
\* several may find the flag clear and the flag has no lock.
NoTransferBeforeInit == \A c \in Callers : http[c] = "transfer" => curl_ready
=============================================================================
