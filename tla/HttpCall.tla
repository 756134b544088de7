------------------------------- MODULE HttpCall -------------------------------
(***************************************************************************)
(* One API call of the Coolify client: the attempts retryablehttp makes of *)
(* it under the policy of shouldRetry, and how doWithStatus reports it. An *)
(* attempt that timed out may still be on its way and be applied later,    *)
(* during a later attempt or a later call.                                 *)
(***************************************************************************)
EXTENDS Integers

CONSTANTS
    MaxCalls,   \* bound: calls made, one after the other
    Methods,    \* methods the calls may use
    RetryMax    \* the provider's retry_max

ASSUME CallsAssumption == MaxCalls \in Nat

ASSUME MethodsAssumption ==
    Methods \subseteq {"GET", "PATCH", "POST", "PUT", "DELETE"}

ASSUME RetryMaxAssumption == RetryMax \in Nat

Calls == 1..MaxCalls
Retryable == {"GET", "PATCH"}

VARIABLES
    call,      \* the call that is made, or was made last
    phase,     \* what the client does
    method,    \* the method of each call
    tries,     \* how many attempts of each call were sent
    wire,      \* attempts that may still reach the server
    reply,     \* what the client got for the current attempt
    expired,   \* the operation's context is done
    result,    \* what each call returned
    applied    \* history: how often the server executed each call

vars == <<call, phase, method, tries, wire, reply, expired, result, applied>>

Answers == {"ok", "odd", "404", "429", "4xx", "5xx"}   \* "odd": another 2xx, or no valid body
Failures == {"error", "permanent"}                     \* "permanent": TLS trust, redirects, bad header
Results == {"none", "ok", "mismatch", "notfound", "status", "broken", "exhausted", "expired"}

Init ==
    /\ call = 0 /\ phase = "idle"
    /\ method \in [Calls -> Methods]
    /\ tries = [c \in Calls |-> 0]
    /\ wire = {} /\ reply = "none" /\ expired = FALSE
    /\ result = [c \in Calls |-> "none"]
    /\ applied = [c \in Calls |-> 0]

(***************************************************************************)
(* The client.                                                             *)
(***************************************************************************)

\* New: only a positive retry_max replaces the default.
Attempts == IF RetryMax > 0 THEN RetryMax ELSE 3

\* A broken variant: a POST that fails is sent again, whatever happened to it.
ShouldRetryEveryMethod(m, r) == r \in {"error", "5xx", "429"}

\* 429 retries every method; transport errors and 5xx retry GET and PATCH
\* only, and transport errors only while the context lives.
ShouldRetry(m, r) ==
    \/ r = "429"
    \/ r = "5xx" /\ m \in Retryable
    \/ r = "error" /\ m \in Retryable /\ ~expired

\* A broken variant: the bound counts the retries from one too many.
RetriesLeftOffByOne == tries[call] <= Attempts + 1

RetriesLeft == tries[call] <= Attempts

Begin ==
    /\ phase = "idle" /\ call + 1 \in Calls
    /\ call' = call + 1
    /\ phase' = "send" /\ reply' = "none" /\ expired' = FALSE
    /\ UNCHANGED <<method, tries, wire, result, applied>>

Send ==
    /\ phase = "send"
    /\ tries' = [tries EXCEPT ![call] = @ + 1]
    /\ wire' = wire \cup {<<call, tries'[call]>>}
    /\ phase' = "wait" /\ reply' = "none"
    /\ UNCHANGED <<call, method, expired, result, applied>>

\* A broken variant: an attempt has no timeout of its own.
TimeOutWithTheContext ==
    /\ phase = "wait" /\ reply = "none" /\ expired
    /\ reply' = "error"
    /\ UNCHANGED <<call, phase, method, tries, wire, expired, result, applied>>

\* The attempt's own timeout, the context's end, or a broken connection: the
\* request may have left.
TimeOut ==
    /\ phase = "wait" /\ reply = "none"
    /\ reply' = "error"
    /\ UNCHANGED <<call, phase, method, tries, wire, expired, result, applied>>

\* The connection cannot be made at all.
CannotSend ==
    /\ phase = "wait" /\ reply = "none" /\ <<call, tries[call]>> \in wire
    /\ reply' \in Failures
    /\ wire' = wire \ {<<call, tries[call]>>}
    /\ UNCHANGED <<call, phase, method, tries, expired, result, applied>>

\* A broken variant: the body is decoded before the status is looked at.
ResultOfBody(r) ==
    CASE r \in {"ok", "4xx", "5xx"} -> "ok"
      [] r = "odd" -> "mismatch"
      [] r = "404" -> "notfound"
      [] r = "429" -> "status"
      [] r \in Failures -> "exhausted"

\* A broken variant: a failure without an answer is returned as it came.
ResultUnlabelled(r) ==
    CASE r = "ok" -> "ok"
      [] r = "odd" -> "mismatch"
      [] r = "404" -> "notfound"
      [] r \in {"429", "4xx"} -> "status"
      [] r = "5xx" -> "broken"
      [] r \in Failures -> r

\* doWithStatus, and retriesExhaustedHandler for a last attempt without an
\* answer. An APIStatusError is "status" below 500 and "broken" from there.
ResultOf(r) ==
    CASE r = "ok" -> "ok"
      [] r = "odd" -> "mismatch"
      [] r = "404" -> "notfound"
      [] r \in {"429", "4xx"} -> "status"
      [] r = "5xx" -> "broken"
      [] r \in Failures -> "exhausted"

Finish(r) == phase' = "idle" /\ result' = [result EXCEPT ![call] = r]

Retry ==
    /\ phase = "wait" /\ reply # "none"
    /\ ShouldRetry(method[call], reply) /\ RetriesLeft
    /\ phase' = "backoff"
    /\ UNCHANGED <<call, method, tries, wire, reply, expired, result, applied>>

Conclude ==
    /\ phase = "wait" /\ reply # "none"
    /\ ~(ShouldRetry(method[call], reply) /\ RetriesLeft)
    /\ Finish(ResultOf(reply))
    /\ UNCHANGED <<call, method, tries, wire, reply, expired, applied>>

WakeUp ==
    /\ phase = "backoff" /\ ~expired
    /\ phase' = "send"
    /\ UNCHANGED <<call, method, tries, wire, reply, expired, result, applied>>

\* The backoff is cut short by the context.
CutShort ==
    /\ phase = "backoff" /\ expired
    /\ Finish("expired")
    /\ UNCHANGED <<call, method, tries, wire, reply, expired, applied>>

\* The operation's timeout, or the user's interrupt.
Expire ==
    /\ phase # "idle" /\ ~expired
    /\ expired' = TRUE
    /\ UNCHANGED <<call, phase, method, tries, wire, reply, result, applied>>

(***************************************************************************)
(* The server. It throttles before it executes, so a 429 has no effect; a  *)
(* 5xx may come from a proxy, before or after the request is executed.     *)
(***************************************************************************)
Listening(c, n) == c = call /\ n = tries[c] /\ phase = "wait" /\ reply = "none"

Execute(c, n) ==
    /\ wire' = wire \ {<<c, n>>}
    /\ applied' = [applied EXCEPT ![c] = @ + 1]
    /\ IF Listening(c, n) THEN reply' \in {"ok", "odd", "5xx", "error"} ELSE UNCHANGED reply
    /\ UNCHANGED <<call, phase, method, tries, expired, result>>

Decline(c, n) ==
    /\ wire' = wire \ {<<c, n>>}
    /\ IF Listening(c, n) THEN reply' \in {"404", "429", "4xx", "5xx"} ELSE UNCHANGED reply
    /\ UNCHANGED <<call, phase, method, tries, expired, result, applied>>

\* A proxy answers for a server that is slow; the request is not withdrawn.
GatewayTimeout(c, n) ==
    /\ Listening(c, n)
    /\ reply' = "5xx"
    /\ UNCHANGED <<call, phase, method, tries, wire, expired, result, applied>>

(***************************************************************************)
(* The specification.                                                      *)
(***************************************************************************)
Client == Begin \/ Send \/ TimeOut \/ Retry \/ Conclude \/ WakeUp \/ CutShort

Next ==
    \/ Client \/ Expire \/ CannotSend
    \/ \E a \in wire : Execute(a[1], a[2]) \/ Decline(a[1], a[2]) \/ GatewayTimeout(a[1], a[2])

Spec == Init /\ [][Next]_vars

\* The client runs on; its timeouts need no help from the server.
FairSpec == Spec /\ WF_vars(Client)

(***************************************************************************)
(* Properties.                                                             *)
(***************************************************************************)

\* Type correctness of the client's variables and of the history.
TypeOK ==
    /\ call \in {0} \cup Calls
    /\ phase \in {"idle", "send", "wait", "backoff"}
    /\ method \in [Calls -> Methods]
    /\ tries \in [Calls -> Nat]
    /\ wire \subseteq Calls \X Nat
    /\ reply \in {"none"} \cup Answers \cup Failures
    /\ expired \in BOOLEAN
    /\ result \in [Calls -> Results]
    /\ applied \in [Calls -> Nat]

Unsafe(c) == method[c] \notin Retryable

\* POST, PUT and DELETE are executed at most once however often a call is
\* throttled, times out or fails ("must not retry on timeout (duplicate
\* creates)").
AtMostOnce == \A c \in Calls : Unsafe(c) => applied[c] <= 1

\* A call that reports success was executed.
OkMeansApplied == \A c \in Calls : result[c] = "ok" => applied[c] > 0

\* Once a POST, PUT or DELETE returned with an answer of the server nothing of
\* it is executed any more, however often it was throttled; only one that
\* ended without an answer, or with a 5xx, may still land.
AnsweredIsSettled ==
    [][\A c \in Calls :
        Unsafe(c) /\ result[c] \notin {"none", "broken", "exhausted"} => applied'[c] = applied[c]]_vars

\* A call is sent once and retried at most retry_max times ("Maximum number
\* of API request retries").
RetriesBounded == \A c \in Calls : tries[c] <= RetryMax + 1

\* The calls that were made.
Begun == {c \in Calls : c <= call}

Promise == INSTANCE ApiCalls WITH begun <- Begun, MaxSends <- Attempts + 1

\* The client keeps the promise of ApiCalls: what a call returns tells what
\* was executed and what may still be, however its attempts were lost,
\* delayed, throttled or answered by a proxy (shouldRetry, doWithStatus).
ImplementsApiCalls == Promise!Spec

\* Every call returns, whatever the server and the network do.
EveryCallReturns == phase # "idle" ~> phase = "idle"
=============================================================================
