-------------------------------- MODULE HttpCall -------------------------------
(***************************************************************************)
(* What the three HTTP clients make of a response, and what callWithRetry  *)
(* of shared/retry.ts does next.  Of a response the models keep the class  *)
(* of its status, whether its body is JSON, and the wait it asks for.      *)
(***************************************************************************)
EXTENDS Integers

CONSTANTS MaxAttempts,    \* maxAttempts of all three clients
          BaseDelay,      \* baseDelayMs of all three clients
          MaxRetryDelay,  \* MAX_RETRY_DELAY_MS of the Gemini provider
          Waits,          \* the waits a server can ask for
          NoWait          \* and that it asks for none

ASSUME HttpCallAssumption ==
    /\ MaxAttempts \in Nat \ {0}
    /\ BaseDelay \in Nat
    /\ MaxRetryDelay \in Nat
    /\ Waits \subseteq Nat
    /\ NoWait \notin Nat
    \* In the code: half a second, doubled once, against a minute.
    /\ \A n \in 1..(MaxAttempts - 1) : BaseDelay * 2^(n - 1) \in 0..MaxRetryDelay

Clients == {"telegram", "instagram", "gemini"}

\* fetch throws, or the status is 2xx, 429, 5xx, or any other.
Statuses == {"none", "ok", "limited", "broken", "refused"}

\* Only the JSON body of a 429 names a wait.
Answers == {a \in [status : Statuses, json : BOOLEAN, wait : Waits \cup {NoWait}] :
               /\ a.status = "none" => ~a.json
               /\ a.wait # NoWait => a.status = "limited" /\ a.json}

\* What attemptApiCall returns; "thrown" is an exception that leaves it.
Success == [outcome |-> "success", retryable |-> FALSE, retryAfter |-> NoWait]
Thrown == [outcome |-> "thrown", retryable |-> FALSE, retryAfter |-> NoWait]
Failure(retryable, retryAfter) ==
    [outcome |-> "failure", retryable |-> retryable, retryAfter |-> retryAfter]

NetworkError == Failure(TRUE, NoWait)

IsRetryableApiError(a) == a.status \in {"limited", "broken"}

\* The body is parsed before anything else, and nothing catches what it throws.
TelegramAttempt(a) ==
    CASE a.status = "none" -> NetworkError
      [] a.status # "none" /\ ~a.json -> Thrown
      [] a.status = "ok" /\ a.json -> Success
      [] OTHER -> Failure(IsRetryableApiError(a), a.wait)

\* Mutant of InstagramAttempt: what has no JSON body is tried again.
InstagramAttemptNeedsJson(a) ==
    CASE a.status = "none" \/ ~a.json -> NetworkError
      [] a.status = "ok" /\ a.json -> Success
      [] OTHER -> Failure(IsRetryableApiError(a), NoWait)

\* A body that is not JSON counts as an empty one; the wait is not read.
InstagramAttempt(a) ==
    CASE a.status = "none" -> NetworkError
      [] a.status = "ok" -> Success
      [] OTHER -> Failure(IsRetryableApiError(a), NoWait)

\* Mutant of ParseRetryDelay: the wait as the server says.
ParseRetryDelayUncapped(wait) == wait

\* The wait Gemini asks for, a minute at most.
ParseRetryDelay(wait) ==
    IF wait # NoWait /\ wait > MaxRetryDelay THEN MaxRetryDelay ELSE wait

\* Only the body of an error may be something else than JSON.
GeminiAttempt(a) ==
    CASE a.status = "none" -> NetworkError
      [] a.status = "ok" /\ ~a.json -> Thrown
      [] a.status = "ok" /\ a.json -> Success
      [] OTHER -> Failure(IsRetryableApiError(a), ParseRetryDelay(a.wait))

AttemptApiCall(client, a) ==
    CASE client = "telegram" -> TelegramAttempt(a)
      [] client = "instagram" -> InstagramAttempt(a)
      [] client = "gemini" -> GeminiAttempt(a)

ComputeBackoff(attempt) == BaseDelay * 2^(attempt - 1)

\* Mutant of Delay: the server is not listened to.
DelayBackoffOnly(result, attempt) == ComputeBackoff(attempt)

\* How long callWithRetry sleeps after a failed attempt.
Delay(result, attempt) ==
    IF result.retryAfter # NoWait THEN result.retryAfter ELSE ComputeBackoff(attempt)

\* Mutant of GoesOn: one attempt more than allowed.
GoesOnOnceMore(result, attempt) ==
    result.outcome = "failure" /\ result.retryable /\ attempt <= MaxAttempts

\* Whether callWithRetry tries once more.
GoesOn(result, attempt) ==
    result.outcome = "failure" /\ result.retryable /\ attempt < MaxAttempts
===============================================================================
