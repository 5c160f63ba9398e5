--------------------------- MODULE Request_proofs ---------------------------
(***************************************************************************)
(* Proofs about Request for every number of retries, all status codes and  *)
(* any order of the calls that build the request.                          *)
(***************************************************************************)
EXTENDS Request, TLAPS

\* The type of the request that is being built.
RequestType ==
  [verb: Verbs, field: [Fields -> Values], namespaceSet: BOOLEAN,
   err: Errors \cup {NoErr}, obj: {0, BodyLen}, body: {0, BodyLen}]

\* A call that builds the request makes it one of these: it does nothing,
\* records an error, or sets a part of it.
LEMMA BuildStep ==
  ASSUME NEW f \in Fields, NEW v \in Values, NEW ok \in BOOLEAN, r \in RequestType,
         Set(f, v) \/ Body(ok) \/ ParamSpecial
  PROVE  /\ r' \in RequestType
         /\ pc = "build" /\ UNCHANGED <<pc, retries, result, Server>>
         /\ first' = (IF first = NoErr THEN r'.err ELSE first)
         /\ r'.err = r.err \/ (r.err = NoErr /\ r'.err \in Errors)
<1>1. Errors = {"resource", "subresource", "name", "namespace", "body", "param"}
      /\ NoErr \notin Errors
  BY DEF Errors, Fields, NoErr
<1>2. CASE r' = r
  BY <1>2 DEF Set, Body, ParamSpecial, Built
<1>3. ASSUME NEW e \in Errors, r.err = NoErr, r' = [r EXCEPT !.err = e]
      PROVE  r' \in RequestType /\ r'.err = e
  BY <1>3 DEF RequestType
<1>4. ASSUME r' = [r EXCEPT !.field[f] = v, !.namespaceSet = @ \/ f = "namespace"]
      PROVE  r' \in RequestType /\ r'.err = r.err
  BY <1>4 DEF RequestType
<1>5. ASSUME r' = [r EXCEPT !.obj = BodyLen, !.body = BodyLen]
      PROVE  r' \in RequestType /\ r'.err = r.err
  BY <1>5 DEF RequestType
<1>6. f \in Errors /\ "body" \in Errors /\ "param" \in Errors
  BY DEF Errors
<1>7. r' \in RequestType /\ (r'.err = r.err \/ (r.err = NoErr /\ r'.err \in Errors))
  <2>1. CASE Set(f, v)
    BY <2>1, <1>2, <1>3, <1>4, <1>6 DEF Set, Built
  <2>2. CASE Body(ok)
    BY <2>2, <1>2, <1>3, <1>5, <1>6 DEF Body, Built
  <2>3. CASE ParamSpecial
    BY <2>3, <1>2, <1>3, <1>6 DEF ParamSpecial, Built
  <2> QED BY <2>1, <2>2, <2>3
<1> QED BY <1>7 DEF Set, Body, ParamSpecial, Built
-----------------------------------------------------------------------------
\* How far the request has come: how often it was sent, what the server may have
\* made of it, and what is known of the error that was recorded first.
Progress ==
  /\ first = r.err
  /\ pc = "build" => received = 0 /\ retries = 0
  /\ pc = "send" => received = retries /\ retries < MaxRetries
  /\ pc = "wait" => received = retries + 1 /\ retries < MaxRetries
  /\ pc \in {"send", "wait"} => r.err = NoErr
  /\ pc # "done" => result = "none" /\ carried = 0 /\ stray = FALSE
  /\ pc = "done" => /\ result # "none"
                    /\ received <= MaxRetries
                    /\ r.err # NoErr => received = 0 /\ result = r.err
                    /\ carried <= 1
                    /\ result = "ok" => carried = 1 /\ received > 0
                    /\ stray => carried = 0 /\ received > 0 /\ result = "err"

Inv == TypeOK /\ Progress

\* Every variable keeps its type, and the request makes progress as described.
LEMMA InvInductive == Inv /\ [Next]_vars => Inv'
<1> SUFFICES ASSUME Inv, [Next]_vars PROVE Inv'
  OBVIOUS
<1> USE RequestAssumption DEF Inv
<1>a. r \in RequestType
  BY DEF TypeOK, RequestType
<1>b. Errors = {"resource", "subresource", "name", "namespace", "body", "param"}
      /\ NoErr = "nil"
  BY DEF Errors, Fields, NoErr
<1>c. r.err \in Errors \cup {NoErr} /\ r.body \in {0, BodyLen}
  BY <1>a DEF RequestType
<1>1. ASSUME NEW f \in Fields, NEW v \in Values, NEW ok \in BOOLEAN,
             Set(f, v) \/ Body(ok) \/ ParamSpecial
      PROVE  Inv'
  <2>1. /\ r' \in RequestType
        /\ pc = "build" /\ UNCHANGED <<pc, retries, result, received, carried, got, stray>>
        /\ first' = (IF first = NoErr THEN r'.err ELSE first)
        /\ r'.err = r.err \/ (r.err = NoErr /\ r'.err \in Errors)
    BY <1>1, <1>a, BuildStep DEF Server
  <2>2. r'.err \in Errors \cup {NoErr}
    BY <2>1, <1>c
  <2>3. TypeOK'
    BY <2>1, <2>2 DEF TypeOK, Progress, RequestType
  <2>4. Progress'
    BY <2>1 DEF Progress
  <2> QED BY <2>3, <2>4
<1>2. CASE Do
  <2>1. TypeOK'
    BY <1>2, <1>b, <1>c DEF Do, Return, Server, TypeOK
  <2>2. Progress'
    BY <1>2, <1>b, <1>c DEF Do, Return, Server, Progress
  <2> QED BY <2>1, <2>2
<1>3. CASE Send
  <2>1. r' = [r EXCEPT !.body = 0] /\ r'.err = r.err /\ r' \in RequestType
    BY <1>3, <1>a DEF Send, RequestType
  <2>2. TypeOK'
    BY <1>3, <1>c, <2>1 DEF Send, TypeOK, Progress, RequestType
  <2>3. Progress'
    BY <1>3, <2>1 DEF Send, TypeOK, Progress
  <2> QED BY <2>2, <2>3
<1>4. ASSUME NEW code \in Codes, NEW retryAfter \in BOOLEAN, Respond(code, retryAfter)
      PROVE  Inv'
  <2>1. code \in Nat /\ code # 101
    OBVIOUS
  <2>2. carried' = (IF code \in Success THEN 1 ELSE 0)
    BY <1>4 DEF Respond, CarriedOut, Progress
  <2>3. stray' \in BOOLEAN /\ (stray' => code >= 500)
    <3>1. stray = FALSE /\ stray' \in {stray, code >= 500}
      BY <1>4 DEF Respond, Progress
    <3>2. (code >= 500) \in BOOLEAN
      BY <2>1
    <3> QED BY <3>1, <3>2, Zenon
  <2>4. CASE Retried(code, retryAfter)
    <3>1. code = 429 /\ retries' < MaxRetries /\ pc' = "send" /\ result' = result
      BY <1>4, <2>4 DEF Respond, Retried, CheckWait
    <3>2. stray' = FALSE /\ carried' = 0
      BY <2>2, <2>3, <3>1
    <3> QED BY <1>4, <3>1, <3>2 DEF Respond, TypeOK, Progress
  <2>5. CASE ~Retried(code, retryAfter)
    <3>1. pc' = "done" /\ result' = Transformed(code) /\ retries' = retries + 1
      BY <1>4, <2>5 DEF Respond, Return
    <3>2. CASE code \in Success
      <4>1. result' = "ok" /\ carried' = 1 /\ stray' = FALSE
        BY <2>2, <2>3, <3>1, <3>2 DEF Transformed
      <4> QED BY <1>4, <1>b, <3>1, <4>1 DEF Respond, TypeOK, Progress
    <3>3. CASE code \notin Success
      <4>1. result' = "err" /\ carried' = 0
        BY <2>1, <2>2, <3>1, <3>3 DEF Transformed
      <4> QED BY <1>4, <1>b, <2>3, <3>1, <4>1 DEF Respond, TypeOK, Progress
    <3> QED BY <3>2, <3>3
  <2> QED BY <2>4, <2>5
<1>5. CASE Lost
  BY <1>5, <1>b DEF Lost, Return, TypeOK, Progress
<1>6. CASE Late
  <2>1. /\ stray /\ stray' = FALSE /\ CarriedOut
        /\ UNCHANGED <<r, pc, retries, result, first, received, got>>
    BY <1>6, Zenon DEF Late
  <2>2. pc = "done"
    BY <2>1 DEF Progress
  <2>3. carried = 0 /\ received > 0 /\ result = "err"
    BY <2>1, <2>2, Zenon DEF Progress
  <2>4. carried' = 1
    BY <2>1, <2>3 DEF CarriedOut
  <2>5. TypeOK'
    <3>1. 1 \in 0 .. 2
      OBVIOUS
    <3> QED BY <2>1, <2>4, <3>1, Zenon DEF TypeOK
  <2>6. Progress'
    BY <2>1, <2>2, <2>3, <2>4 DEF Progress
  <2> QED BY <2>5, <2>6
<1>7. CASE NewRequestErr
  BY <1>7, <1>b DEF NewRequestErr, Return, Server, TypeOK, Progress
<1>8. CASE UNCHANGED vars
  BY <1>8 DEF vars, TypeOK, Progress
<1> QED BY <1>1, <1>2, <1>3, <1>4, <1>5, <1>6, <1>7, <1>8 DEF Next, Client, Answer, Values, Fields

\* A request that was not begun.
LEMMA InvInit == Init => Inv
<1> SUFFICES ASSUME Init PROVE Inv
  OBVIOUS
<1> USE RequestAssumption
<1>1. r \in RequestType /\ r.err = NoErr
  <2>1. PICK v \in Verbs : r = [verb |-> v, field |-> [f \in Fields |-> ""],
                                namespaceSet |-> FALSE, err |-> NoErr, obj |-> 0, body |-> 0]
    BY DEF Init
  <2>2. [f \in Fields |-> ""] \in [Fields -> Values]
    BY DEF Values
  <2> QED BY <2>1, <2>2 DEF RequestType
<1>2. TypeOK
  <2>1. /\ pc = "build" /\ retries = 0 /\ result = "none" /\ first = NoErr
        /\ received = 0 /\ carried = 0 /\ got = 0 /\ stray = FALSE
    BY DEF Init
  <2>2. NoErr \in Errors \cup {NoErr} /\ 0 \in {0, BodyLen}
    OBVIOUS
  <2>3. 0 \in 0 .. MaxRetries /\ 0 \in 0 .. MaxRetries + 1 /\ 0 \in 0 .. 2
    OBVIOUS
  <2> QED BY <1>1, <2>1, <2>2, <2>3, Zenon DEF TypeOK, RequestType
<1>3. Progress
  BY <1>1 DEF Init, Progress
<1> QED BY <1>2, <1>3 DEF Inv

\* The invariant holds.
LEMMA InvHolds == Spec => []Inv
  BY InvInit, InvInductive, PTL DEF Spec
-----------------------------------------------------------------------------
\* Whatever the order of the calls that build a request, one that could not be
\* built is not sent, and Do reports the error of the first call that failed:
\* each builder method starts with "if r.err != nil".
THEOREM BrokenRequestIsNotSent == Spec => []FirstErrorStops
<1>1. Inv => FirstErrorStops
  BY DEF Inv, Progress, TypeOK, FirstErrorStops
<1> QED BY <1>1, InvHolds, PTL
-----------------------------------------------------------------------------
(* Request implements Call *)

\* Before it is sent a request is a call that was not made.
LEMMA CallInit == Init => AbstractCall!Init
  BY DEF Init, Outcome, AbstractCall!Init

\* What the outcome of the call is, by the progress of the request.
LEMMA OutcomeOf ==
  ASSUME Inv
  PROVE  /\ pc # "done" => Outcome = "running"
         /\ pc = "done" => Outcome = (IF result = "ok" THEN "ok" ELSE "err")
  BY DEF Inv, Progress, Outcome

\* An attempt is one of Call; an answer that is not 429 with a Retry-After, or
\* comes for the last attempt, ends the call; the steps before the first attempt
\* are no steps of Call, nor is an answer that asks to wait.
LEMMA CallStep ==
  ASSUME Inv, Inv', [Next]_vars
  PROVE  [AbstractCall!Attempt \/ AbstractCall!Succeed \/ AbstractCall!Fail
            \/ AbstractCall!Late]_(AbstractCall!vars)
<1> USE RequestAssumption
<1> DEFINE o == Outcome
<1>o. /\ pc # "done" => o = "running"
      /\ pc = "done" => o = (IF result = "ok" THEN "ok" ELSE "err")
  BY OutcomeOf
<1>p. /\ pc' # "done" => o' = "running"
      /\ pc' = "done" => o' = (IF result' = "ok" THEN "ok" ELSE "err")
  BY DEF Inv, Progress, Outcome
<1> HIDE DEF o
<1> SUFFICES \/ UNCHANGED <<o, received, carried>>
             \/ /\ o = "running" /\ carried = 0 /\ received < MaxRetries
                /\ received' = received + 1 /\ UNCHANGED <<o, carried>>
             \/ /\ o = "running" /\ received > 0 /\ carried = 0
                /\ o' = "ok" /\ carried' = 1 /\ UNCHANGED received
             \/ o = "running" /\ o' = "err" /\ UNCHANGED <<received, carried>>
             \/ /\ o = "err" /\ received > 0 /\ carried = 0
                /\ carried' = 1 /\ UNCHANGED <<o, received>>
  BY DEF o, AbstractCall!Attempt, AbstractCall!Succeed, AbstractCall!Fail, AbstractCall!Late,
         AbstractCall!vars
<1>i. received \in Nat /\ carried \in Nat /\ TypeOK /\ Progress /\ Progress'
  BY DEF Inv, TypeOK
<1>1. ASSUME NEW f \in Fields, NEW v \in Values, NEW ok \in BOOLEAN,
             Set(f, v) \/ Body(ok) \/ ParamSpecial
      PROVE  UNCHANGED <<o, received, carried>>
  <2>1. pc = "build" /\ UNCHANGED <<pc, received, carried>>
    BY <1>1 DEF Set, Body, ParamSpecial, Built, Server
  <2> QED BY <2>1, <1>o, <1>p
<1>2. CASE Do
  <2>1. pc = "build" /\ UNCHANGED <<received, carried>> /\ pc' \in {"send", "done"}
    BY <1>2 DEF Do, Return, Server
  <2>2. pc' = "done" => result' # "ok"
    BY <1>2, <1>i DEF Do, Return, Progress, TypeOK, Server
  <2> QED BY <2>1, <2>2, <1>o, <1>p
<1>3. CASE Send
  <2>1. /\ pc = "send" /\ pc' = "wait" /\ carried' = carried /\ carried = 0
        /\ received < MaxRetries /\ received' = received + 1
    BY <1>3, <1>i DEF Send, Progress, TypeOK
  <2> QED BY <2>1, <1>o, <1>p
<1>4. ASSUME NEW code \in Codes, NEW retryAfter \in BOOLEAN, Respond(code, retryAfter)
      PROVE  \/ UNCHANGED <<o, received, carried>>
             \/ /\ o = "running" /\ received > 0 /\ carried = 0
                /\ o' = "ok" /\ carried' = 1 /\ UNCHANGED received
             \/ o = "running" /\ o' = "err" /\ UNCHANGED <<received, carried>>
  <2>1. /\ pc = "wait" /\ received' = received /\ received > 0 /\ carried = 0 /\ code # 101
        /\ carried' = (IF code \in Success THEN 1 ELSE 0)
    BY <1>4, <1>i DEF Respond, CarriedOut, Progress, TypeOK
  <2>2. CASE Retried(code, retryAfter)
    <3>1. pc' = "send" /\ code \notin Success
      BY <1>4, <2>2 DEF Respond, Retried, CheckWait
    <3> QED BY <2>1, <3>1, <1>o, <1>p
  <2>3. CASE ~Retried(code, retryAfter)
    <3>1. pc' = "done" /\ result' = (IF code \in Success THEN "ok" ELSE "err")
      BY <1>4, <2>1, <2>3 DEF Respond, Return, Transformed
    <3> QED BY <2>1, <3>1, <1>o, <1>p
  <2> QED BY <2>2, <2>3
<1>5. CASE Lost
  <2>1. pc = "wait" /\ pc' = "done" /\ result' = "err" /\ UNCHANGED <<received, carried>>
    BY <1>5 DEF Lost, Return
  <2> QED BY <2>1, <1>o, <1>p
<1>6. CASE Late
  <2>1. stray /\ CarriedOut /\ UNCHANGED <<pc, result, received>>
    BY <1>6, Zenon DEF Late
  <2>2. pc = "done"
    BY <2>1, <1>i DEF Progress
  <2>3. carried = 0 /\ received > 0 /\ result = "err"
    BY <2>1, <2>2, <1>i, Zenon DEF Progress
  <2>4. carried' = 1
    BY <2>1, <2>3 DEF CarriedOut
  <2> QED BY <2>1, <2>2, <2>3, <2>4, <1>o, <1>p
<1>7. CASE NewRequestErr
  <2>1. pc = "send" /\ pc' = "done" /\ result' = "err" /\ UNCHANGED <<received, carried>>
    BY <1>7 DEF NewRequestErr, Return, Server
  <2> QED BY <2>1, <1>o, <1>p
<1>8. CASE UNCHANGED vars
  BY <1>8, <1>o, <1>p DEF vars
<1> QED BY <1>1, <1>2, <1>3, <1>4, <1>5, <1>6, <1>7, <1>8 DEF Next, Client, Answer, Values, Fields

\* Do implements Call: at most maxRetries attempts, carried out at most once and
\* exactly once when it returns no error, however the server answers.
THEOREM DoIsOneCall == Spec => ImplementsCall
<1> QED BY CallInit, CallStep, InvHolds, PTL DEF Spec, ImplementsCall, AbstractCall!Spec
=============================================================================
