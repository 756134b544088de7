------------------------------- MODULE ApiCalls -------------------------------
(***************************************************************************)
(* What the API client promises to the handlers that call it, without      *)
(* attempts, retries, timeouts and the network: what the outcome of a call *)
(* says about what the server has executed, and what may still be executed *)
(* after the call has returned.                                            *)
(*                                                                         *)
(* The handlers' models rest on this: a call that is refused did nothing,  *)
(* one that succeeds was executed, and only one that ends without an       *)
(* answer leaves its effect open. HttpCall.tla is the mechanism of         *)
(* internal/client/client.go and is shown to implement this module.        *)
(***************************************************************************)
EXTENDS Integers

CONSTANTS Calls,     \* the calls of one client
          Methods,   \* the methods they may use
          MaxSends   \* how often one call is sent at most

VARIABLES method,    \* the method of each call
          begun,     \* the calls that were made
          result,    \* what each call returned, "none" before
          applied    \* how often the server executed each call

vars == <<method, begun, result, applied>>

\* Sending these again does no harm; of the others there must be no copy.
Repeatable == {"GET", "PATCH"}
Once(c) == method[c] \notin Repeatable

Executed == {"ok", "mismatch"}              \* answers of a server that did it
Refusals == {"notfound", "status", "expired"}  \* of one that did not
Open == {"broken", "exhausted"}             \* nobody knows

Init ==
    /\ method \in [Calls -> Methods]
    /\ begun = {}
    /\ result = [c \in Calls |-> "none"]
    /\ applied = [c \in Calls |-> 0]

Begin(c) ==
    /\ c \notin begun
    /\ begun' = begun \cup {c}
    /\ UNCHANGED <<method, result, applied>>

\* The server executes the call: a repeatable one as often as it was sent and
\* however late, another one once and not after its outcome is known.
Execute(c) ==
    /\ c \in begun
    /\ applied[c] < (IF Once(c) THEN 1 ELSE MaxSends)
    /\ Once(c) => result[c] \in {"none"} \cup Open
    /\ applied' = [applied EXCEPT ![c] = @ + 1]
    /\ UNCHANGED <<method, begun, result>>

\* The call returns. A refusal of a repeatable call may follow an attempt
\* that was executed.
Return(c, r) ==
    /\ c \in begun /\ result[c] = "none"
    /\ r \in Executed => applied[c] > 0
    /\ r \in Refusals /\ Once(c) => applied[c] = 0
    /\ result' = [result EXCEPT ![c] = r]
    /\ UNCHANGED <<method, begun, applied>>

Next ==
    \E c \in Calls :
        Begin(c) \/ Execute(c) \/ \E r \in Executed \cup Refusals \cup Open : Return(c, r)

Spec == Init /\ [][Next]_vars
=============================================================================
