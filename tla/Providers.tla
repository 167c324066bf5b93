------------------------------ MODULE Providers -----------------------------
(***************************************************************************)
(* What one structured request to an LLM provider ends in, and whether     *)
(* with_retry tries again: generate_structured of llm/anthropic.py,        *)
(* llm/openai.py and llm/mock.py, and is_retryable of runtime/retry.py.    *)
(*                                                                         *)
(* An outcome is what the service and its SDK produce; an exception is the *)
(* Python class generate_structured raises for it.  The classes of the two *)
(* SDKs are unrelated to each other and to the built-in TimeoutError and   *)
(* ConnectionError.                                                        *)
(***************************************************************************)
EXTENDS Naturals

\* Outcomes of a request other than an answer the schema accepts.
TransportFailures == {"timeout", "connection", "rateLimit", "server", "badRequest"}
ContentFailures   == {"empty", "malformed", "invalid"}

\* Anthropic hands tool input over as parsed JSON, so it is never malformed;
\* the mock makes no request, but a test's factory may raise what it likes.
FailuresOf(provider) ==
    CASE provider = "anthropic" -> TransportFailures \cup {"empty", "invalid"}
      [] provider = "openai"    -> TransportFailures \cup ContentFailures
      [] provider = "mock"      -> {"timeout", "connection"} \cup ContentFailures

\* The exceptions of the anthropic SDK.
AnthropicError(failure) ==
    CASE failure = "timeout"    -> "anthropic.APITimeoutError"
      [] failure = "connection" -> "anthropic.APIConnectionError"
      [] failure = "rateLimit"  -> "anthropic.RateLimitError"
      [] failure = "server"     -> "anthropic.InternalServerError"
      [] failure = "badRequest" -> "anthropic.BadRequestError"

\* messages.create raises; no tool_use block; model_validate raises.
AnthropicRaises(failure) ==
    CASE failure = "empty"   -> "ValueError"
      [] failure = "invalid" -> "ValidationError"
      [] OTHER               -> AnthropicError(failure)

\* The exceptions of the openai SDK.
OpenAIError(failure) ==
    CASE failure = "timeout"    -> "openai.APITimeoutError"
      [] failure = "connection" -> "openai.APIConnectionError"
      [] failure = "rateLimit"  -> "openai.RateLimitError"
      [] failure = "server"     -> "openai.InternalServerError"
      [] failure = "badRequest" -> "openai.BadRequestError"

\* completions.create raises; no content; model_validate_json raises, and that
\* reports malformed JSON as a ValidationError, too.
OpenAIRaises(failure) ==
    CASE failure = "empty"                    -> "ValueError"
      [] failure \in {"malformed", "invalid"} -> "ValidationError"
      [] OTHER                                -> OpenAIError(failure)

\* The factory raises; there is no factory; it returns another type.
MockRaises(failure) ==
    CASE failure = "timeout"    -> "TimeoutError"
      [] failure = "connection" -> "ConnectionError"
      [] failure = "malformed"  -> "JSONDecodeError"
      [] failure = "empty"      -> "ValueError"
      [] failure = "invalid"    -> "TypeError"

Raised(provider, failure) ==
    CASE provider = "anthropic" -> AnthropicRaises(failure)
      [] provider = "openai"    -> OpenAIRaises(failure)
      [] provider = "mock"      -> MockRaises(failure)

\* The exceptions that reach with_retry: those above, and those of the store
\* and of the event loop, which a nested call re-raises.
Exceptions ==
    {AnthropicError(f) : f \in TransportFailures}
        \cup {OpenAIError(f) : f \in TransportFailures}
        \cup {MockRaises(f) : f \in FailuresOf("mock")}
        \cup {"ValidationError", "OperationalError", "CancelledError"}

\* Defect: a refused connection is not on the list.
IsRetryable_NoConnection(exc) ==
    exc \in {"JSONDecodeError", "TimeoutError",
             "anthropic.RateLimitError", "anthropic.InternalServerError",
             "anthropic.APITimeoutError"}

\* is_retryable
IsRetryable(exc) ==
    exc \in {"JSONDecodeError", "TimeoutError", "ConnectionError",
             "anthropic.RateLimitError", "anthropic.InternalServerError",
             "anthropic.APITimeoutError", "anthropic.APIConnectionError"}

-----------------------------------------------------------------------------
\* The failures of the transport that the retry table of PLAN.md says Yes to.
\* Its other Yes, a parse failure of the provider's JSON (PLAN.md:211), is none
\* of the transport; is_retryable treats it like these, up to max_retries.
PlannedRetries == {"timeout", "connection", "rateLimit", "server"}
=============================================================================
