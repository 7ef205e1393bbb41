------------------------------- MODULE OneShot -------------------------------
(***************************************************************************)
(* run_machine_mode (src/adapters/cheval.py): the one-shot CLI reads a     *)
(* request file, checks its HMAC, builds the provider request, runs the    *)
(* retry loop of RetryEngine, parses and normalises the response, and      *)
(* exits with a code.  The retry loop is RetryEngine itself, instantiated  *)
(* over this module's variables; the pipeline steps around it are the      *)
(* stages of run_machine_mode in the order the code runs them.             *)
(*                                                                         *)
(* The request file and the provider's answer are abstracted to the kinds  *)
(* the code tells apart.  A Python exception nobody catches ends the       *)
(* process with status 1; it is written Crash below.                      *)
(***************************************************************************)
EXTENDS Integers, Sequences

CONSTANTS
    MaxRetriesValues, RetryableConfigs, Statuses,
    Timeout, ConnectError, ReadError, OtherError, None,
    SchemaArgs,     \* kinds of --schema-version argument
    Files,          \* kinds of request file the CLI may be given
    HmacKinds,      \* kinds of the "hmac" member of the request
    ProviderKinds,  \* kinds of the "provider" member
    Bodies,         \* 200 response bodies the provider may send
    ProviderTypes,  \* values of provider.type
    NotJson, NotObject, Absent  \* see Normalize

\* SchemaArgs: "1", "2" (another integer), "x" (not an integer).
\* Files:      "missing" (FileNotFoundError), "not_utf8" (bytes json.loads
\*             cannot decode), "not_json", "not_object" (a JSON array or
\*             scalar), "object".
\* HmacKinds:  "current", "previous" (signed with the previous secret),
\*             "bad" (wrong digest, absent fields or out of skew),
\*             "not_object".
\* ProviderKinds: "ok", "incomplete" (no base_url or api_key), "not_object".
\* Bodies:     NotJson, NotObject (a JSON array), or a parsed object as in
\*             Normalize.

VARIABLES
    maxRetries, retryable, attempt, lastError, result, history,
    schema,     \* the --schema-version argument
    file, hmacKind, providerKind,
    body,       \* the body of the 200 response, once one came
    secretSet,  \* CHEVAL_HMAC_SECRET is non-empty
    prevSet,    \* CHEVAL_HMAC_SECRET_PREV is non-empty
    ptype,      \* provider.get("type", "openai")
    stage,      \* where run_machine_mode is
    exit,       \* the process exit status, once it has exited
    out         \* the CanonicalResult printed on stdout, or None

retryVars == <<maxRetries, retryable, attempt, lastError, result, history>>
inputs == <<schema, file, hmacKind, providerKind, secretSet, prevSet, ptype>>
vars == <<retryVars, inputs, body, stage, exit, out>>

Retry == INSTANCE RetryEngine
Norm == INSTANCE Normalize WITH Null <- None

Crash == 1      \* an uncaught exception: the interpreter exits with status 1

\* The HMAC check of lines 396-433: verify_hmac under the current secret,
\* then under the previous one if it is set.
HmacValid == hmacKind = "current" \/ (prevSet /\ hmacKind = "previous")

\* sys.exit(2) for a network_error, sys.exit(1) for any other ChevalError.
ErrorExit_swapped(e) == IF e.code = "network_error" THEN 1 ELSE 2
ErrorExit(e) == IF e.code = "network_error" THEN 2 ELSE 1


Init ==
    /\ Retry!Init
    /\ schema \in SchemaArgs
    /\ file \in Files /\ hmacKind \in HmacKinds /\ providerKind \in ProviderKinds
    /\ body = None
    /\ secretSet \in BOOLEAN /\ prevSet \in BOOLEAN
    /\ ptype \in ProviderTypes
    /\ stage = "read"
    /\ exit = None
    /\ out = None

Exit(code) == stage' = "exited" /\ exit' = code

\* main, lines 622-626: int() of the --schema-version argument; then
\* lines 383-394: the schema version, then open, read and json.loads.
\* FileNotFoundError and JSONDecodeError exit 4; a UnicodeDecodeError is
\* neither.  Line 397, request.get("hmac", {}), fails on a non-object.
ReadRequest ==
    /\ stage = "read"
    /\ CASE schema = "x" -> Exit(Crash)
         [] schema # "1" -> Exit(4)
         [] file \in {"missing", "not_json"} -> Exit(4)
         [] file \in {"not_utf8", "not_object"} -> Exit(Crash)
         [] OTHER -> stage' = "hmac" /\ UNCHANGED exit
    /\ UNCHANGED <<retryVars, inputs, body, out>>

\* Lines 398-433: no secret exits 3; hmac_data.get fails when "hmac" is not
\* an object; an invalid signature under both secrets exits 3.
CheckHmac ==
    /\ stage = "hmac"
    /\ CASE ~secretSet -> Exit(3)
         [] hmacKind = "not_object" -> Exit(Crash)
         [] ~HmacValid -> Exit(3)
         [] OTHER -> stage' = "provider" /\ UNCHANGED exit
    /\ UNCHANGED <<retryVars, inputs, body, out>>

\* Lines 436-442: provider.get fails on a non-object; no base_url or
\* api_key exits 4.  Lines 444-460 build the request without failing.
CheckProvider ==
    /\ stage = "provider"
    /\ CASE providerKind = "not_object" -> Exit(Crash)
         [] providerKind = "incomplete" -> Exit(4)
         [] OTHER -> stage' = "invoke" /\ UNCHANGED exit
    /\ UNCHANGED <<retryVars, inputs, body, out>>

\* Line 472: one step of invoke_with_retry.
Invoke ==
    /\ stage = "invoke"
    /\ Retry!Next
    /\ UNCHANGED <<inputs, body, stage, exit, out>>

\* Lines 473-496: a ChevalError prints its dict and exits 2 or 1; a
\* response is parsed (a non-JSON body exits 1), normalize_response calls
\* raw.get (fails on a non-object), and its result is printed, exit 0.
Conclude ==
    /\ stage = "invoke"
    /\ result # None
    /\ IF result # Retry!Success
       THEN Exit(ErrorExit(result)) /\ UNCHANGED <<body, out>>
       ELSE \E b \in Bodies :
              /\ body' = b
              /\ CASE b = NotJson -> Exit(1) /\ UNCHANGED out
                   [] b = NotObject -> Exit(Crash) /\ UNCHANGED out
                   [] OTHER -> Exit(0) /\ out' = Norm!normalize_response(b, ptype)
    /\ UNCHANGED <<retryVars, inputs>>

Next == ReadRequest \/ CheckHmac \/ CheckProvider \/ Invoke \/ Conclude

Spec == Init /\ [][Next]_vars

\* Properties

TypeOK ==
    /\ Retry!TypeOK
    /\ ptype \in ProviderTypes
    /\ body \in Bodies \cup {None}
    /\ stage \in {"read", "hmac", "provider", "invoke", "exited"}
    /\ exit \in {None} \cup 0..5
    /\ (stage = "exited") = (exit # None)
    /\ (out # None) = (exit = 0)

\* The retry loop inside the pipeline: when invoke_with_retry fails, it
\* raises the error of the last exchange (RetryEngine).
SurfacedErrorIsLast == Retry!SurfacedErrorIsLast

\* The retry loop inside the pipeline retries only exchanges spec.md 4.8
\* calls retryable and gives up on a retryable one only after
\* max_retries + 1 attempts (RetryEngine).
RetriesOnlyRetryable == Retry!RetriesOnlyRetryable

\* spec.md 4.8 and 6: the exit statuses allowed for the one-shot mode by
\* the class of what went wrong, first failure first: an unreadable, unparsable or
\* malformed request (bad schema) is invalid_request (4); a missing secret
\* or a signature valid under neither secret is an HMAC failure (3); then
\* the provider exchange: network_error 2, provider_error (including a
\* non-JSON body) 1, success 0.  An "hmac" member that is not an object
\* may count as a bad schema (4) or a bad signature (3).
SpecExits ==
    CASE schema # "1" \/ file # "object" -> {4}
      [] ~secretSet -> {3}
      [] hmacKind = "not_object" -> {3, 4}
      [] ~HmacValid -> {3}
      [] providerKind # "ok" -> {4}
      [] result # Retry!Success -> IF result.code = "network_error" THEN {2} ELSE {1}
      [] body \in {NotJson, NotObject} -> {1}
      [] OTHER -> {0}

\* When run_machine_mode has exited, its status is the one the taxonomy
\* gives for the first failure of the request; the retry loop is never
\* entered for a request that fails the HMAC check.
ExitMatchesTaxonomy ==
    /\ stage = "exited" => exit \in SpecExits
    /\ history # << >> => secretSet /\ HmacValid

\* spec.md 4.7: normalize_response (with extract_thinking,
\* _extract_tool_calls and _extract_usage) gives the CanonicalResult the
\* spec's rules give, on every 200 body of the run: content never
\* null, thinking only for openai-compatible and never blank, tool_calls
\* null rather than empty and only the named entries in their order, and
\* usage counts defaulting to 0; and it is the result for the body that
\* run received, under the provider type of its own request.
NormalizeMatchesSpec == exit = 0 => out = Norm!SpecNormalize(body, ptype)

=============================================================================
