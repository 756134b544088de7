---------------------------- MODULE HttpCallProofs ----------------------------
(***************************************************************************)
(* Proofs about HttpCall, for any number of calls, any methods and any     *)
(* retry_max.                                                              *)
(*                                                                         *)
(* A POST, PUT or DELETE is sent again only after a 429, and a 429 leaves  *)
(* nothing on the wire and nothing executed; the invariant carries this    *)
(* through the backoff to the next attempt.                                *)
(***************************************************************************)
EXTENDS HttpCall, FiniteSets, FiniteSetTheorems, TLAPS

USE CallsAssumption, MethodsAssumption, RetryMaxAssumption

\* Calls are made in order, and the one under way has not returned.
InOrder ==
    /\ \A c \in Calls : c > call => applied[c] = 0 /\ result[c] = "none" /\ tries[c] = 0
    /\ phase # "idle" => call \in Calls /\ result[call] = "none"
    /\ \A a \in wire : a[1] <= call /\ a[2] \in 1..tries[a[1]]

\* Nothing of call c is on its way to the server.
Clear(c) == \A a \in wire : a[1] # c

\* What is on the wire of an unsafe call is its last attempt, not executed.
LastAttempt ==
    \A c \in Calls : Unsafe(c) => \A a \in wire : a[1] = c => a[2] = tries[c] /\ applied[c] = 0

\* Answers of a server that did not execute the attempt.
NoEffect == {"404", "429", "4xx"}

\* What an unsafe call knows about itself.
Answered ==
    /\ \A c \in Calls : Unsafe(c) /\ result[c] \notin {"none", "broken", "exhausted"} => Clear(c)
    /\ phase \in {"send", "backoff"} /\ Unsafe(call) => Clear(call) /\ applied[call] = 0
    /\ phase = "wait" /\ Unsafe(call) /\ reply \in Answers \ {"5xx"} => Clear(call)
    /\ phase = "wait" /\ Unsafe(call) /\ reply \in {"none"} \cup NoEffect => applied[call] = 0

OkReply ==
    /\ phase = "wait" /\ reply \in {"ok", "odd"} => applied[call] > 0
    /\ OkMeansApplied

HInv == TypeOK /\ InOrder /\ LastAttempt /\ Answered /\ OkReply /\ AtMostOnce

\* The invariant holds before the first call.
LEMMA InitHInv == Init => HInv
  <1> SUFFICES ASSUME Init PROVE HInv
    OBVIOUS
  <1>1. TypeOK
    BY DEF Init, TypeOK, Calls, Results
  <1>2. QED
    BY <1>1 DEF Init, HInv, TypeOK, InOrder, LastAttempt, Answered, NoEffect, OkReply, OkMeansApplied, AtMostOnce, Calls, Answers

\* What doWithStatus makes of each kind of answer.
LEMMA ResultTyped ==
    ASSUME NEW r \in Answers \cup Failures
    PROVE  /\ ResultOf(r) \in Results
           /\ ResultOf(r) = "ok" => r = "ok"
           /\ ResultOf(r) # "none"
           /\ ResultOf(r) \notin {"broken", "exhausted"} => r \in Answers \ {"5xx"}
  BY DEF ResultOf, Results, Answers, Failures

\* Every step keeps the variables in their domains.
LEMMA TypeStep == ASSUME HInv, [Next]_vars PROVE TypeOK'
  <1> USE DEF HInv, TypeOK
  <1>1. CASE Begin
    BY <1>1 DEF Begin, Calls
  <1>2. CASE Send
    <2>1. call \in Calls
      BY <1>2 DEF Send, InOrder
    <2>2. tries' \in [Calls -> Nat] /\ tries'[call] \in Nat
      BY <1>2, <2>1 DEF Send
    <2>3. QED
      BY <1>2, <2>1, <2>2 DEF Send
  <1>3. CASE TimeOut
    BY <1>3 DEF TimeOut, Failures
  <1>4. CASE CannotSend
    BY <1>4 DEF CannotSend
  <1>5. CASE Retry
    BY <1>5 DEF Retry
  <1>6. CASE Conclude
    BY <1>6, ResultTyped DEF Conclude, Finish
  <1>7. CASE WakeUp
    BY <1>7 DEF WakeUp
  <1>8. CASE CutShort
    BY <1>8 DEF CutShort, Finish, Results
  <1>9. CASE Expire
    BY <1>9 DEF Expire
  <1>10. ASSUME NEW a \in wire, Execute(a[1], a[2]) PROVE TypeOK'
    <2>1. a[1] \in Calls
      OBVIOUS
    <2>2. QED
      BY <1>10, <2>1 DEF Execute, Answers, Failures
  <1>11. ASSUME NEW a \in wire, Decline(a[1], a[2]) PROVE TypeOK'
    BY <1>11 DEF Decline, Answers, Failures
  <1>12. ASSUME NEW a \in wire, GatewayTimeout(a[1], a[2]) PROVE TypeOK'
    BY <1>12 DEF GatewayTimeout, Answers
  <1>13. CASE UNCHANGED vars
    BY <1>13 DEF vars
  <1>14. QED
    BY <1>1, <1>2, <1>3, <1>4, <1>5, <1>6, <1>7, <1>8, <1>9, <1>10, <1>11, <1>12, <1>13 DEF Next, Client

\* The invariant but for types, action by action.
Rest == InOrder /\ LastAttempt /\ Answered /\ OkReply /\ AtMostOnce

\* Steps of the client: only a 429 leads an unsafe call to another attempt.
LEMMA ClientStep == ASSUME HInv, Client \/ CannotSend \/ Expire PROVE Rest'
  <1> USE DEF HInv, TypeOK, Rest
  <1>1. CASE Begin
    BY <1>1 DEF Begin, InOrder, LastAttempt, Answered, NoEffect, OkReply, OkMeansApplied, AtMostOnce, Unsafe, Clear, Calls
  <1>2. CASE Send
    <2>1. call \in Calls
      BY <1>2 DEF Send, InOrder
    <2>2. tries'[call] = tries[call] + 1 /\ \A c \in Calls : c # call => tries'[c] = tries[c]
      BY <1>2, <2>1 DEF Send
    <2>3. \A a \in wire' : a \in wire \/ (a[1] = call /\ a[2] = tries'[call])
      BY <1>2 DEF Send
    <2>4. InOrder'
      BY <1>2, <2>1, <2>2, <2>3 DEF Send, InOrder, Calls
    <2>5. LastAttempt'
      BY <1>2, <2>1, <2>2, <2>3 DEF Send, LastAttempt, Answered, NoEffect, Unsafe, Clear
    <2>6. Answered'
      BY <1>2, <2>1, <2>2, <2>3 DEF Send, InOrder, Answered, NoEffect, Unsafe, Clear, Answers
    <2>7. QED
      BY <1>2, <2>4, <2>5, <2>6 DEF Send, OkReply, OkMeansApplied, AtMostOnce, Unsafe
  <1>3. CASE TimeOut
    BY <1>3 DEF TimeOut, InOrder, LastAttempt, Answered, NoEffect, OkReply, OkMeansApplied, AtMostOnce, Unsafe, Clear, Answers
  <1>4. CASE CannotSend
    BY <1>4 DEF CannotSend, InOrder, LastAttempt, Answered, NoEffect, OkReply, OkMeansApplied, AtMostOnce, Unsafe, Clear, Answers, Failures
  <1>5. CASE Retry
    <2>1. Unsafe(call) => reply = "429"
      BY <1>5 DEF Retry, ShouldRetry, Unsafe
    <2>2. QED
      BY <1>5, <2>1 DEF Retry, InOrder, LastAttempt, Answered, NoEffect, OkReply, OkMeansApplied, AtMostOnce, Unsafe, Clear, Answers
  <1>6. CASE Conclude
    <2>1. call \in Calls /\ reply \in Answers \cup Failures
      BY <1>6 DEF Conclude, InOrder
    <2>2. \A c \in Calls : result'[c] = IF c = call THEN ResultOf(reply) ELSE result[c]
      BY <1>6, <2>1 DEF Conclude, Finish
    <2>3. InOrder' /\ LastAttempt'
      BY <1>6, <2>1, <2>2 DEF Conclude, Finish, InOrder, LastAttempt, Unsafe, Calls
    <2>4. Answered'
      BY <1>6, <2>1, <2>2, ResultTyped DEF Conclude, Finish, Answered, NoEffect, Unsafe, Clear
    <2>5. OkReply' /\ AtMostOnce'
      BY <1>6, <2>1, <2>2, ResultTyped DEF Conclude, Finish, OkReply, OkMeansApplied, AtMostOnce, Unsafe
    <2>6. QED
      BY <2>3, <2>4, <2>5
  <1>7. CASE WakeUp
    BY <1>7 DEF WakeUp, InOrder, LastAttempt, Answered, NoEffect, OkReply, OkMeansApplied, AtMostOnce, Unsafe, Clear
  <1>8. CASE CutShort
    <2>1. call \in Calls
      BY <1>8 DEF CutShort, InOrder
    <2>2. \A c \in Calls : result'[c] = IF c = call THEN "expired" ELSE result[c]
      BY <1>8, <2>1 DEF CutShort, Finish
    <2>3. InOrder' /\ LastAttempt'
      BY <1>8, <2>1, <2>2 DEF CutShort, Finish, InOrder, LastAttempt, Unsafe, Calls
    <2>4. Answered' /\ OkReply' /\ AtMostOnce'
      BY <1>8, <2>1, <2>2 DEF CutShort, Finish, Answered, NoEffect, OkReply, OkMeansApplied, AtMostOnce, Unsafe, Clear
    <2>5. QED
      BY <2>3, <2>4
  <1>9. CASE Expire
    BY <1>9 DEF Expire, InOrder, LastAttempt, Answered, NoEffect, OkReply, OkMeansApplied, AtMostOnce, Unsafe, Clear
  <1>10. QED
    BY <1>1, <1>2, <1>3, <1>4, <1>5, <1>6, <1>7, <1>8, <1>9 DEF Client

\* An unsafe attempt that is executed was the only one on the wire.
LEMMA ExecuteStep == ASSUME HInv, NEW a \in wire, Execute(a[1], a[2]) PROVE Rest'
  <1> USE DEF HInv, TypeOK, Rest
  <1>1. a[1] \in Calls /\ a[1] <= call /\ a = <<a[1], a[2]>>
    BY DEF InOrder
  <1>2. \A c \in Calls : applied'[c] = IF c = a[1] THEN applied[c] + 1 ELSE applied[c]
    BY <1>1 DEF Execute
  <1>3. wire' = wire \ {a}
    BY <1>1 DEF Execute
  <1>4. Unsafe(a[1]) => a[2] = tries[a[1]] /\ applied[a[1]] = 0 /\ \A b \in wire : b[1] = a[1] => b = a
    BY <1>1 DEF LastAttempt
  <1>5. InOrder'
    BY <1>1, <1>2, <1>3 DEF Execute, InOrder, Calls
  <1>6. LastAttempt' /\ AtMostOnce'
    BY <1>1, <1>2, <1>3, <1>4 DEF Execute, LastAttempt, AtMostOnce, Unsafe
  <1>7. \A c \in Calls : Unsafe(c) /\ result[c] \notin {"none", "broken", "exhausted"} => Clear(c)'
    BY <1>3 DEF Answered, NoEffect, Clear
  <1>8. phase \in {"send", "backoff"} /\ Unsafe(call) => a[1] # call
    BY DEF Answered, NoEffect, Clear
  <1>9. phase = "wait" /\ Unsafe(call) /\ reply' \in Answers \ {"5xx"} => Clear(call)'
    BY <1>3, <1>4 DEF Execute, Listening, Answered, NoEffect, Clear
  <1>10. phase = "wait" /\ Unsafe(call) /\ reply' \in {"none"} \cup NoEffect => a[1] # call /\ reply' = reply
    BY <1>1, <1>4 DEF NoEffect, Execute, Listening, Answered, Clear, Answers
  <1>11. Answered'
    BY <1>1, <1>2, <1>3, <1>7, <1>8, <1>9, <1>10 DEF Execute, Answered, NoEffect, Unsafe, Clear, InOrder
  <1>12. OkReply'
    BY <1>1, <1>2 DEF Execute, OkReply, OkMeansApplied, Listening, InOrder
  <1>13. QED
    BY <1>5, <1>6, <1>11, <1>12

\* A declined attempt leaves the wire without effect.
LEMMA DeclineStep == ASSUME HInv, NEW a \in wire, Decline(a[1], a[2]) PROVE Rest'
  <1> USE DEF HInv, TypeOK, Rest
  <1>1. wire' = wire \ {a}
    BY DEF Decline
  <1>2. Unsafe(a[1]) => \A b \in wire : b[1] = a[1] => b = a
    BY DEF LastAttempt
  <1>3. InOrder' /\ LastAttempt' /\ AtMostOnce'
    BY <1>1 DEF Decline, InOrder, LastAttempt, AtMostOnce, Unsafe
  <1>4. Answered'
    BY <1>1, <1>2 DEF Decline, Listening, Answered, NoEffect, Unsafe, Clear, Answers
  <1>5. OkReply'
    BY DEF Decline, OkReply, OkMeansApplied
  <1>6. QED
    BY <1>3, <1>4, <1>5

\* A 5xx of a proxy says nothing about the request, and Answered claims nothing.
LEMMA GatewayStep == ASSUME HInv, NEW a \in wire, GatewayTimeout(a[1], a[2]) PROVE Rest'
  BY DEF HInv, TypeOK, Rest, GatewayTimeout, Listening, InOrder, LastAttempt, Answered, NoEffect,
         OkReply, OkMeansApplied, AtMostOnce, Unsafe, Clear, Answers

\* The invariant is inductive.
LEMMA NextHInv == ASSUME HInv, [Next]_vars PROVE HInv'
  <1>1. CASE UNCHANGED vars
    BY <1>1 DEF vars, HInv, TypeOK, InOrder, LastAttempt, Answered, NoEffect, OkReply, OkMeansApplied, AtMostOnce, Unsafe, Clear
  <1>2. CASE Next
    BY <1>2, TypeStep, ClientStep, ExecuteStep, DeclineStep, GatewayStep DEF Next, HInv, Rest
  <1>3. QED
    BY <1>1, <1>2

\* So it holds in every reachable state.
LEMMA HInvariance == Spec => []HInv
  BY InitHInv, NextHInv, PTL DEF Spec

-----------------------------------------------------------------------------
\* The client's variables stay well typed.
THEOREM CallTypes == Spec => []TypeOK
  BY HInvariance, PTL DEF HInv

\* However long a POST, PUT or DELETE is throttled, and whatever times out or
\* arrives late, the server executes it at most once.
THEOREM NoDuplicates == Spec => []AtMostOnce
  BY HInvariance, PTL DEF HInv

\* A call that reports success was executed by the server.
THEOREM SuccessIsReal == Spec => []OkMeansApplied
  BY HInvariance, PTL DEF HInv, OkReply

\* Nothing of an answered POST, PUT or DELETE reaches the server later.
THEOREM AnswersSettle == Spec => AnsweredIsSettled
  <1> DEFINE Settled ==
        \A c \in Calls :
            Unsafe(c) /\ result[c] \notin {"none", "broken", "exhausted"} => applied'[c] = applied[c]
  <1>1. ASSUME HInv, Next PROVE Settled
    <2>1. ASSUME NEW a \in wire, Execute(a[1], a[2]) PROVE Settled
      BY <1>1, <2>1 DEF Execute, HInv, TypeOK, Answered, NoEffect, Clear
    <2>2. CASE UNCHANGED applied
      BY <2>2
    <2>3. QED
      BY <1>1, <2>1, <2>2 DEF Next, Client, Begin, Send, TimeOut, CannotSend, Retry, Conclude, WakeUp, CutShort, Expire, Decline,
           GatewayTimeout
  <1>2. HInv /\ [Next]_vars => [Settled]_vars
    BY <1>1
  <1>3. QED
    BY <1>2, HInvariance, PTL DEF Spec, AnsweredIsSettled

-----------------------------------------------------------------------------
\* No call is sent more often than Attempts + 1 times, and one that is about
\* to be sent has an attempt left; one that waits was sent.
SendsBounded ==
    /\ \A c \in Calls : tries[c] <= Attempts + 1
    /\ phase \in {"send", "backoff"} => tries[call] <= Attempts
    /\ phase \in {"wait", "backoff"} => tries[call] > 0

\* Every attempt is on its way, was executed, or came to nothing: the server
\* never executes more than was sent, nor one attempt twice.
Travelling(c) == {n \in 1..tries[c] : <<c, n>> \in wire}
Counted == \A c \in Calls : applied[c] + Cardinality(Travelling(c)) <= tries[c]

SInv == HInv /\ SendsBounded /\ Counted

\* What the retry policy counts to.
LEMMA AttemptsPositive == Attempts \in Nat /\ Attempts > 0
  BY DEF Attempts

\* The attempts on their way are finitely many.
LEMMA TravellingFinite ==
    ASSUME HInv, NEW c \in Calls
    PROVE  IsFiniteSet(Travelling(c)) /\ Cardinality(Travelling(c)) \in Nat
  <1>1. tries[c] \in Nat
    BY DEF HInv, TypeOK
  <1>2. IsFiniteSet(1..tries[c])
    BY <1>1, FS_Interval
  <1>3. IsFiniteSet(Travelling(c))
    BY <1>2, FS_Subset DEF Travelling
  <1>4. QED
    BY <1>3, FS_CardinalityType

\* Nothing was sent before the first call.
LEMMA InitSInv == Init => SInv
  <1> SUFFICES ASSUME Init PROVE SInv
    OBVIOUS
  <1>1. HInv /\ SendsBounded
    BY InitHInv, AttemptsPositive DEF Init, SendsBounded, Calls
  <1>2. \A c \in Calls : Travelling(c) = {} /\ applied[c] = 0 /\ tries[c] = 0
    BY DEF Init, Travelling
  <1>3. Counted
    BY <1>2, FS_EmptySet DEF Counted
  <1>4. QED
    BY <1>1, <1>3 DEF SInv

\* Retries are decided while one is left, so the next attempt is allowed.
LEMMA SendsStep == ASSUME HInv, SendsBounded, [Next]_vars PROVE SendsBounded'
  <1> USE AttemptsPositive DEF HInv, TypeOK
  <1>1. CASE Begin
    BY <1>1 DEF Begin, SendsBounded, InOrder, Calls, Attempts
  <1>2. CASE Send
    BY <1>2 DEF Send, SendsBounded, InOrder, Attempts
  <1>3. CASE Retry
    BY <1>3 DEF Retry, SendsBounded, RetriesLeft, Attempts
  <1>4. CASE WakeUp
    BY <1>4 DEF WakeUp, SendsBounded, Attempts
  <1>5. CASE Conclude \/ CutShort
    BY <1>5 DEF Conclude, CutShort, Finish, SendsBounded, Attempts
  <1>6. CASE TimeOut \/ CannotSend \/ Expire
    BY <1>6 DEF TimeOut, CannotSend, Expire, SendsBounded, Attempts
  <1>7. ASSUME NEW a \in wire, Execute(a[1], a[2]) \/ Decline(a[1], a[2]) \/ GatewayTimeout(a[1], a[2])
        PROVE SendsBounded'
    BY <1>7 DEF Execute, Decline, GatewayTimeout, SendsBounded, Attempts
  <1>8. CASE UNCHANGED vars
    BY <1>8 DEF vars, SendsBounded, Attempts
  <1>9. QED
    BY <1>1, <1>2, <1>3, <1>4, <1>5, <1>6, <1>7, <1>8 DEF Next, Client

\* A step that sends nothing and executes nothing can only take an attempt
\* from the wire.
LEMMA CountKept ==
    ASSUME HInv, HInv', Counted, tries' = tries, applied' = applied, wire' \subseteq wire
    PROVE  Counted'
  <1> SUFFICES ASSUME NEW c \in Calls
               PROVE  applied'[c] + Cardinality(Travelling(c)') <= tries'[c]
    BY DEF Counted
  <1>1. Travelling(c)' \subseteq Travelling(c)
    BY DEF Travelling
  <1>2. Cardinality(Travelling(c)') <= Cardinality(Travelling(c))
    BY <1>1, TravellingFinite, FS_Subset
  <1>3. /\ applied[c] \in Nat /\ tries[c] \in Nat /\ Cardinality(Travelling(c)) \in Nat
        /\ Cardinality(Travelling(c)') \in Nat
    BY TravellingFinite, <1>1, FS_Subset, FS_CardinalityType DEF HInv, TypeOK
  <1>4. QED
    BY <1>2, <1>3 DEF Counted

\* Sending adds one attempt to the wire.
LEMMA CountSent == ASSUME HInv, Counted, Send PROVE Counted'
  <1> SUFFICES ASSUME NEW c \in Calls
               PROVE  applied'[c] + Cardinality(Travelling(c)') <= tries'[c]
    BY DEF Counted
  <1>1. call \in Calls /\ tries[c] \in Nat /\ applied[c] \in Nat
    BY DEF HInv, TypeOK, InOrder, Send
  <1>2. tries' = [tries EXCEPT ![call] = @ + 1] /\ tries'[c] = IF c = call THEN tries[c] + 1 ELSE tries[c]
    BY <1>1 DEF HInv, TypeOK, Send
  <1>3. wire' = wire \cup {<<call, tries'[call]>>} /\ applied' = applied
    BY DEF Send
  <1>4. CASE c # call
    <2>1. Travelling(c)' = Travelling(c)
      BY <1>2, <1>3, <1>4 DEF Travelling
    <2>2. QED
      BY <1>2, <1>3, <1>4, <2>1 DEF Counted
  <1>5. CASE c = call
    <2>1. Travelling(c)' = Travelling(c) \cup {tries[c] + 1}
      <3>1. \A n \in Nat : n \in 1..(tries[c] + 1) <=> n \in 1..tries[c] \/ n = tries[c] + 1
        BY <1>1
      <3>2. \A n \in Nat : <<c, n>> \in wire' <=> <<c, n>> \in wire \/ n = tries[c] + 1
        BY <1>2, <1>3, <1>5
      <3>3. Travelling(c)' = {n \in 1..(tries[c] + 1) : <<c, n>> \in wire'}
        BY <1>2, <1>5 DEF Travelling
      <3>4. \A n : n \in 1..(tries[c] + 1) => n \in Nat
        BY <1>1
      <3>5. \A n : n \in 1..tries[c] => n \in Nat
        BY <1>1
      <3>6. tries[c] + 1 \in Nat
        BY <1>1
      <3>7. QED
        BY <3>1, <3>2, <3>3, <3>4, <3>5, <3>6 DEF Travelling
    <2>2. tries[c] + 1 \notin Travelling(c)
      BY <1>1 DEF Travelling
    <2>3. Cardinality(Travelling(c)') = Cardinality(Travelling(c)) + 1
      BY <2>1, <2>2, TravellingFinite, FS_AddElement
    <2>4. QED
      BY <1>1, <1>2, <1>3, <1>5, <2>3, TravellingFinite DEF Counted
  <1>6. QED
    BY <1>4, <1>5

\* Executing an attempt takes it from the wire.
LEMMA CountExecuted == ASSUME HInv, Counted, NEW a \in wire, Execute(a[1], a[2]) PROVE Counted'
  <1> SUFFICES ASSUME NEW c \in Calls
               PROVE  applied'[c] + Cardinality(Travelling(c)') <= tries'[c]
    BY DEF Counted
  <1>1. a[1] \in Calls /\ a = <<a[1], a[2]>> /\ a[2] \in 1..tries[a[1]]
    BY DEF HInv, TypeOK, InOrder
  <1>2. applied'[c] = (IF c = a[1] THEN applied[c] + 1 ELSE applied[c]) /\ tries' = tries
    BY <1>1 DEF Execute, HInv, TypeOK
  <1>3. wire' = wire \ {a}
    BY <1>1 DEF Execute
  <1>4. CASE c # a[1]
    <2>1. Travelling(c)' = Travelling(c)
      BY <1>1, <1>2, <1>3, <1>4 DEF Travelling
    <2>2. QED
      BY <1>2, <1>4, <2>1 DEF Counted
  <1>5. CASE c = a[1]
    <2>1. Travelling(c)' = Travelling(c) \ {a[2]}
      BY <1>1, <1>2, <1>3, <1>5 DEF Travelling
    <2>2. a[2] \in Travelling(c)
      BY <1>1, <1>5 DEF Travelling
    <2>3. Cardinality(Travelling(c)') = Cardinality(Travelling(c)) - 1
      <3>1. IsFiniteSet(Travelling(c))
        BY TravellingFinite
      <3>2. Cardinality(Travelling(c) \ {a[2]}) = Cardinality(Travelling(c)) - 1
        BY <2>2, <3>1, FS_RemoveElement, Zenon
      <3>3. QED
        BY <2>1, <3>2
    <2>4. applied[c] \in Nat /\ tries[c] \in Nat /\ Cardinality(Travelling(c)) \in Nat
      BY TravellingFinite DEF HInv, TypeOK
    <2>5. applied[c] + Cardinality(Travelling(c)) <= tries[c]
      BY DEF Counted
    <2>6. QED
      BY <1>2, <1>5, <2>3, <2>4, <2>5
  <1>6. QED
    BY <1>4, <1>5

\* Every step keeps the count.
LEMMA NextSInv == ASSUME SInv, [Next]_vars PROVE SInv'
  <1> USE DEF SInv
  <1>1. HInv' /\ SendsBounded'
    BY NextHInv, SendsStep
  <1>2. CASE Send
    BY <1>1, <1>2, CountSent
  <1>3. CASE Begin \/ TimeOut \/ CannotSend \/ Retry \/ Conclude \/ WakeUp \/ CutShort \/ Expire \/ UNCHANGED vars
    <2>1. tries' = tries /\ applied' = applied /\ wire' \subseteq wire
      BY <1>3 DEF Begin, TimeOut, CannotSend, Retry, Conclude, WakeUp, CutShort, Expire, vars
    <2>2. QED
      BY <1>1, <2>1, CountKept
  <1>4. ASSUME NEW a \in wire, Decline(a[1], a[2]) \/ GatewayTimeout(a[1], a[2]) PROVE Counted'
    <2>1. tries' = tries /\ applied' = applied /\ wire' \subseteq wire
      BY <1>4 DEF Decline, GatewayTimeout
    <2>2. QED
      BY <1>1, <2>1, CountKept
  <1>5. Counted'
    BY <1>2, <1>3, <1>4, CountExecuted DEF Next, Client
  <1>6. QED
    BY <1>1, <1>5

\* So the attempts are bounded and accounted for in every reachable state.
LEMMA SInvariance == Spec => []SInv
  BY InitSInv, NextSInv, PTL DEF Spec

\* A positive retry_max bounds the attempts of every call; New ignores 0, and
\* then the three retries of retryablehttp stand.
THEOREM RetriesAreBounded == ASSUME RetryMax > 0 PROVE Spec => []RetriesBounded
  <1>1. SInv => RetriesBounded
    BY DEF SInv, SendsBounded, RetriesBounded, Attempts
  <1>2. QED
    BY <1>1, SInvariance, PTL

-----------------------------------------------------------------------------
\* HttpCall implements ApiCalls: making, executing and concluding a call are
\* the abstract steps, and the rest of its life is not seen.

\* The first call is not made yet.
LEMMA InitPromise == Init => Promise!Init
  BY DEF Init, Promise!Init, Begun, Calls

\* A call that is made was not made before.
LEMMA BeginPromise == ASSUME SInv, Begin PROVE Promise!Next
  <1>1. call + 1 \in Calls /\ call' = call + 1 /\ call \in Int
    BY DEF Begin, SInv, HInv, TypeOK, Calls
  <1>2. call + 1 \notin Begun /\ Begun' = Begun \cup {call + 1}
    BY <1>1 DEF Begun, Calls
  <1>3. Promise!Begin(call + 1)
    BY <1>2 DEF Begin, Promise!Begin
  <1>4. QED
    BY <1>1, <1>3 DEF Promise!Next

\* What a call returns after an answer is true of what was executed.
LEMMA ConcludePromise == ASSUME SInv, Conclude PROVE Promise!Next
  <1> USE DEF SInv, HInv, TypeOK
  <1>1. call \in Calls /\ result[call] = "none" /\ reply \in Answers \cup Failures /\ call \in Begun
    BY DEF Conclude, InOrder, Begun, Calls
  <1>2. phase = "wait" /\ UNCHANGED <<method, applied, Begun>> /\ result' = [result EXCEPT ![call] = ResultOf(reply)]
    BY DEF Conclude, Finish, Begun
  <1>3. ResultOf(reply) \in Promise!Executed \cup Promise!Refusals \cup Promise!Open
    BY <1>1 DEF ResultOf, Answers, Failures, Promise!Executed, Promise!Refusals, Promise!Open
  <1>4. ResultOf(reply) \in Promise!Executed => applied[call] > 0
    BY <1>1, <1>2 DEF ResultOf, Answers, Failures, Promise!Executed, OkReply
  <1>5. ResultOf(reply) \in Promise!Refusals => reply \in NoEffect
    BY <1>1 DEF ResultOf, Answers, Failures, Promise!Refusals, NoEffect
  <1>6. ResultOf(reply) \in Promise!Refusals /\ Promise!Once(call) => applied[call] = 0
    BY <1>1, <1>2, <1>5 DEF Promise!Once, Promise!Repeatable, Answered, Unsafe, Retryable
  <1>7. Promise!Return(call, ResultOf(reply))
    BY <1>1, <1>2, <1>4, <1>6 DEF Promise!Return
  <1>8. QED
    BY <1>1, <1>3, <1>7 DEF Promise!Next

\* A call that is cut short between two attempts did nothing, or may be
\* repeated.
LEMMA CutShortPromise == ASSUME SInv, CutShort PROVE Promise!Next
  <1> USE DEF SInv, HInv, TypeOK
  <1>1. call \in Calls /\ result[call] = "none" /\ call \in Begun
    BY DEF CutShort, InOrder, Begun, Calls
  <1>2. "expired" \in Promise!Refusals /\ "expired" \notin Promise!Executed
    BY DEF Promise!Refusals, Promise!Executed
  <1>3. Promise!Once(call) => applied[call] = 0
    BY DEF CutShort, Promise!Once, Promise!Repeatable, Answered, Unsafe, Retryable
  <1>4. Promise!Return(call, "expired")
    BY <1>1, <1>2, <1>3 DEF CutShort, Finish, Begun, Promise!Return
  <1>5. QED
    BY <1>1, <1>2, <1>4 DEF Promise!Next

\* An attempt that is executed is within what was sent, and the only one of a
\* call that must not be repeated.
LEMMA ExecutePromise == ASSUME SInv, NEW a \in wire, Execute(a[1], a[2]) PROVE Promise!Next
  <1> USE DEF SInv, HInv, TypeOK
  <1>1. a[1] \in Calls /\ a[1] \in Begun /\ a = <<a[1], a[2]>> /\ a[2] \in 1..tries[a[1]]
    BY DEF InOrder, Begun
  <1>2. UNCHANGED <<method, result, Begun>> /\ applied' = [applied EXCEPT ![a[1]] = @ + 1]
    BY DEF Execute, Begun
  <1>3. Promise!Once(a[1]) => applied[a[1]] = 0 /\ result[a[1]] \in {"none", "broken", "exhausted"}
    BY <1>1 DEF Promise!Once, Promise!Repeatable, Unsafe, Retryable, LastAttempt, Answered, Clear
  <1>4. applied[a[1]] < Attempts + 1
    <2>1. IsFiniteSet(Travelling(a[1])) /\ a[2] \in Travelling(a[1])
      BY <1>1, TravellingFinite DEF Travelling
    <2>2. Cardinality(Travelling(a[1])) > 0
      BY <2>1, FS_EmptySet, FS_CardinalityType
    <2>3. applied[a[1]] + Cardinality(Travelling(a[1])) <= tries[a[1]] /\ tries[a[1]] <= Attempts + 1
      BY <1>1 DEF Counted, SendsBounded
    <2>4. /\ applied[a[1]] \in Nat /\ tries[a[1]] \in Nat /\ Attempts \in Nat
          /\ Cardinality(Travelling(a[1])) \in Nat
      BY <1>1, TravellingFinite, AttemptsPositive
    <2>5. QED
      BY <2>2, <2>3, <2>4
  <1>5. Promise!Execute(a[1])
    BY <1>1, <1>2, <1>3, <1>4 DEF Promise!Execute, Promise!Open
  <1>6. QED
    BY <1>1, <1>5 DEF Promise!Next

\* Every step of the client, the network and the server is a step of the
\* promise or leaves it as it was.
LEMMA StepPromise == ASSUME SInv, [Next]_vars PROVE [Promise!Next]_(Promise!vars)
  <1>1. CASE Send \/ TimeOut \/ Retry \/ WakeUp \/ Expire \/ CannotSend \/ UNCHANGED vars
    BY <1>1 DEF Send, TimeOut, Retry, WakeUp, Expire, CannotSend, vars, Begun, Promise!vars
  <1>2. ASSUME NEW a \in wire, Decline(a[1], a[2]) \/ GatewayTimeout(a[1], a[2])
        PROVE UNCHANGED Promise!vars
    BY <1>2 DEF Decline, GatewayTimeout, Begun, Promise!vars
  <1>3. QED
    BY <1>1, <1>2, BeginPromise, ConcludePromise, CutShortPromise, ExecutePromise DEF Next, Client

\* The attempts, retries, timeouts and proxies of a call are invisible behind
\* the promise of ApiCalls: a success was executed, a refused POST, PUT or
\* DELETE was not and never will be, no such call is executed twice, and only
\* one that ends without an answer or with a 5xx leaves its effect open.
THEOREM CallsImplementApiCalls == Spec => ImplementsApiCalls
  <1>1. Init => Promise!Init
    BY InitPromise
  <1>2. SInv /\ [Next]_vars => [Promise!Next]_(Promise!vars)
    BY StepPromise
  <1>3. QED
    BY <1>1, <1>2, SInvariance, PTL DEF Spec, ImplementsApiCalls, Promise!Spec

-----------------------------------------------------------------------------
\* How many steps of the client a call has left at most: four for each
\* attempt (send, an answer or a timeout, retry, wake up).
InAttempt ==
    IF phase = "send" THEN 0
    ELSE IF phase = "backoff" THEN 1
    ELSE IF reply = "none" THEN 3 ELSE 2
Fuel == IF phase = "idle" THEN 0 ELSE 4 * (Attempts + 1 - tries[call]) + InAttempt

\* A step of the client in a call brings its end nearer, and no step of the
\* network or of the server puts it off.
RunsOut ==
    [][/\ ~Begin => Fuel' <= Fuel
       /\ Client /\ ~Begin => Fuel' < Fuel]_vars

\* A call that has not returned has steps left.
LEMMA FuelLeft ==
    ASSUME SInv
    PROVE  Fuel \in 0..(4 * (Attempts + 1)) /\ (Fuel = 0 <=> phase = "idle")
  <1>1. phase # "idle" => /\ tries[call] \in 0..(Attempts + 1)
                          /\ phase \in {"send", "backoff"} => tries[call] <= Attempts
                          /\ phase \in {"wait", "backoff"} => tries[call] > 0
    BY AttemptsPositive DEF SInv, HInv, TypeOK, InOrder, SendsBounded
  <1>2. phase \in {"idle", "send", "wait", "backoff"}
    BY DEF SInv, HInv, TypeOK
  <1>3. CASE phase = "idle"
    BY <1>3, AttemptsPositive DEF Fuel, InAttempt
  <1>4. CASE phase = "send"
    BY <1>1, <1>4, AttemptsPositive DEF Fuel, InAttempt
  <1>5. CASE phase = "backoff"
    BY <1>1, <1>5, AttemptsPositive DEF Fuel, InAttempt
  <1>6. CASE phase = "wait"
    BY <1>1, <1>6, AttemptsPositive DEF Fuel, InAttempt
  <1>7. QED
    BY <1>2, <1>3, <1>4, <1>5, <1>6

\* An attempt that was sent has been counted before it is waited for.
LEMMA WaitedFor == ASSUME SInv, phase = "wait" PROVE call \in Calls /\ tries[call] \in Nat
  BY DEF SInv, HInv, TypeOK, InOrder

\* The steps of the client.
LEMMA ClientRunsOut == ASSUME SInv, SInv', Client, ~Begin PROVE Fuel' < Fuel
  <1>1. CASE Send
    <2>1. call \in Calls /\ tries[call] \in Nat /\ tries'[call] = tries[call] + 1 /\ call' = call
      BY <1>1 DEF Send, SInv, HInv, TypeOK, InOrder
    <2>2. Fuel = 4 * (Attempts + 1 - tries[call])
      BY <1>1, <2>1, AttemptsPositive DEF Send, Fuel, InAttempt
    <2>3. Fuel' = 4 * (Attempts + 1 - (tries[call] + 1)) + 3
      BY <1>1, <2>1, AttemptsPositive DEF Send, Fuel, InAttempt, Attempts
    <2>4. QED
      BY <2>1, <2>2, <2>3, AttemptsPositive
  <1>2. CASE TimeOut
    BY <1>2, WaitedFor, AttemptsPositive DEF TimeOut, Fuel, InAttempt, Attempts
  <1>3. CASE Retry
    BY <1>3, WaitedFor, AttemptsPositive DEF Retry, Fuel, InAttempt, Attempts
  <1>4. CASE WakeUp
    <2>1. tries[call] \in Nat
      BY <1>4 DEF WakeUp, SInv, HInv, TypeOK, InOrder
    <2>2. QED
      BY <1>4, <2>1, AttemptsPositive DEF WakeUp, Fuel, InAttempt, Attempts
  <1>5. CASE Conclude \/ CutShort
    <2>1. phase # "idle" /\ phase' = "idle"
      BY <1>5 DEF Conclude, CutShort, Finish
    <2>2. Fuel' = 0 /\ Fuel # 0 /\ Fuel \in Nat
      BY <2>1, FuelLeft, AttemptsPositive DEF Fuel
    <2>3. QED
      BY <2>2
  <1>6. QED
    BY <1>1, <1>2, <1>3, <1>4, <1>5 DEF Client

\* The others'.
LEMMA OthersRunOut == ASSUME SInv, [Next]_vars, ~Client PROVE Fuel' <= Fuel
  <1>1. CASE UNCHANGED vars \/ Expire
    <2>1. UNCHANGED <<call, phase, tries, reply>>
      BY <1>1 DEF vars, Expire
    <2>2. Fuel' = Fuel /\ Fuel \in Int
      BY <2>1, FuelLeft, AttemptsPositive DEF Fuel, InAttempt, Attempts
    <2>3. QED
      BY <2>2
  <1>2. CASE CannotSend \/ \E a \in wire : Execute(a[1], a[2]) \/ Decline(a[1], a[2]) \/ GatewayTimeout(a[1], a[2])
    <2>1. UNCHANGED <<call, phase, tries>> /\ (reply' = reply \/ (reply = "none" /\ reply' # "none" /\ phase = "wait"))
      BY <1>2 DEF CannotSend, Execute, Decline, GatewayTimeout, Listening, Failures
    <2>2. CASE reply' = reply
      BY <2>1, <2>2, FuelLeft, AttemptsPositive DEF Fuel, InAttempt, Attempts
    <2>3. CASE reply = "none" /\ reply' # "none" /\ phase = "wait"
      BY <2>1, <2>3, WaitedFor, AttemptsPositive DEF Fuel, InAttempt, Attempts
    <2>4. QED
      BY <2>1, <2>2, <2>3
  <1>3. QED
    BY <1>1, <1>2 DEF Next

\* What the liveness of calls rests on: a call returns after at most
\* 4 * (Attempts + 1) steps of the client, however often it is throttled,
\* delayed or answered late, and whenever its context ends. What is left to
\* fairness, and to TLC, is only that the client goes on.
THEOREM CallsRunOut ==
    Spec => RunsOut /\ [](Fuel \in 0..(4 * (Attempts + 1)) /\ (Fuel = 0 <=> phase = "idle"))
  <1> DEFINE Down == (~Begin => Fuel' <= Fuel) /\ (Client /\ ~Begin => Fuel' < Fuel)
  <1>1. ASSUME SInv, SInv', [Next]_vars PROVE Down
    <2>1. Fuel \in Int
      BY <1>1, FuelLeft, AttemptsPositive
    <2>2. Fuel' \in Int
      <3>1. phase' # "idle" => tries'[call'] \in Nat
        BY <1>1 DEF SInv, HInv, TypeOK, InOrder
      <3>2. QED
        BY <3>1, AttemptsPositive DEF Fuel, InAttempt, Attempts
    <2>3. QED
      BY <1>1, <2>1, <2>2, ClientRunsOut, OthersRunOut
  <1>2. SInv /\ SInv' /\ [Next]_vars => [Down]_vars
    BY <1>1
  <1>3. SInv => Fuel \in 0..(4 * (Attempts + 1)) /\ (Fuel = 0 <=> phase = "idle")
    BY FuelLeft
  <1>4. QED
    BY <1>2, <1>3, SInvariance, PTL DEF Spec, RunsOut
=============================================================================
