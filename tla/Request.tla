------------------------------ MODULE Request ------------------------------
(***************************************************************************)
(* One request of the API client, client/unversioned/request.go: the calls *)
(* that build it, each of which does nothing once one of them has failed,  *)
(* and Do, which sends it, sends it again while the server answers 429     *)
(* with a Retry-After, and turns the last response into a Result.  Every   *)
(* read and write of the receivers library is one of these.                *)
(*                                                                         *)
(* The body is a reader that each attempt goes on reading; of its content  *)
(* only the length counts.  The server and the network are external: when  *)
(* the answer is lost, or is an error of the server's own, the server may  *)
(* have carried the attempt out, may still do so, or never.                *)
(***************************************************************************)
EXTENDS Naturals

CONSTANTS Verbs,       \* GET, PUT, POST, DELETE
          BodyLen,     \* what Body was given
          MaxRetries,  \* maxRetries
          Codes,       \* status codes of the server
          Success      \* those that say it carried the request out

\* The server means by 200 to 206 what HTTP does, and it switches protocols
\* (101) only for a request that asks for it, which none of these does.
ASSUME RequestAssumption ==
  /\ BodyLen \in Nat \ {0} /\ MaxRetries \in Nat \ {0}
  /\ Codes \subseteq Nat \ {101} /\ Success = Codes \cap 200 .. 206

VARIABLES r,         \* the Request
          pc,        \* "build", "send", "wait" for the response, "done"
          retries,   \* retries in request
          result,    \* the Result of Do
          first,     \* the first error of the calls that build the request
          received,  \* attempts the server received, at most MaxRetries + 1
          carried,   \* how often it carried one out, at most 2
          got,       \* how much of the body the last one brought
          stray      \* may the server still carry out an attempt that failed?

vars == <<r, pc, retries, result, first, received, carried, got, stray>>

Fields == {"resource", "subresource", "name", "namespace"}
Values == {"", "x"}
Errors == Fields \cup {"body", "param"}
NoErr == "nil"

Init ==
  /\ \E v \in Verbs : r = [verb |-> v, field |-> [f \in Fields |-> ""], namespaceSet |-> FALSE,
                           err |-> NoErr, obj |-> 0, body |-> 0]
  /\ pc = "build" /\ retries = 0 /\ result = "none" /\ first = NoErr
  /\ received = 0 /\ carried = 0 /\ got = 0 /\ stray = FALSE
-----------------------------------------------------------------------------
(* Building the request *)

Server == <<received, carried, got, stray>>

Built(req) ==
  /\ pc = "build"
  /\ r' = req
  /\ first' = (IF first = NoErr THEN req.err ELSE first)
  /\ UNCHANGED <<pc, retries, result, Server>>

\* Resource, SubResource and Name look at the value, Namespace at its flag.
AlreadySet(f) == IF f = "namespace" THEN r.namespaceSet ELSE r.field[f] # ""

\* Mutant of Set: an earlier error is not looked at.
SetAnyway(f, v) ==
  Built(IF AlreadySet(f) \/ (f = "name" /\ v = "")
        THEN [r EXCEPT !.err = f]
        ELSE [r EXCEPT !.field[f] = v, !.namespaceSet = @ \/ f = "namespace"])

\* Resource, SubResource, Name, Namespace
Set(f, v) ==
  Built(IF r.err # NoErr THEN r
        ELSE IF AlreadySet(f) \/ (f = "name" /\ v = "")
        THEN [r EXCEPT !.err = f]
        ELSE [r EXCEPT !.field[f] = v, !.namespaceSet = @ \/ f = "namespace"])

\* Body: a file that cannot be read, an object that cannot be encoded and a
\* type that is not known are errors.
Body(ok) ==
  Built(IF r.err # NoErr THEN r
        ELSE IF ok THEN [r EXCEPT !.obj = BodyLen, !.body = BodyLen] ELSE [r EXCEPT !.err = "body"])

\* setParam with one of the special parameters; other parameters only add to
\* the query.
ParamSpecial == Built(IF r.err # NoErr THEN r ELSE [r EXCEPT !.err = "param"])
-----------------------------------------------------------------------------
(* Do and request *)

\* "to catch programmer errors"
Misused ==
  /\ r.namespaceSet /\ r.field["namespace"] = ""
  /\ r.verb = "POST" \/ (r.verb \in {"GET", "PUT", "DELETE"} /\ r.field["name"] # "")

Return(res) == pc' = "done" /\ result' = res

\* Do, up to the loop of request.
Do ==
  /\ pc = "build"
  /\ IF r.err # NoErr THEN Return(r.err)
     ELSE IF Misused THEN Return("misused")
     ELSE pc' = "send" /\ result' = result
  /\ UNCHANGED <<r, retries, first, Server>>

\* http.NewRequest refuses the URL, which is the same for every attempt.
NewRequestErr ==
  /\ pc = "send" /\ retries = 0
  /\ Return("err")
  /\ UNCHANGED <<r, retries, first, Server>>

\* client.Do reads what is left of the body.
Send ==
  /\ pc = "send"
  /\ pc' = "wait"
  /\ got' = r.body /\ r' = [r EXCEPT !.body = 0]
  /\ received' = (IF received > MaxRetries THEN received ELSE received + 1)
  /\ UNCHANGED <<retries, result, first, carried, stray>>

CarriedOut == carried' = (IF carried = 2 THEN 2 ELSE carried + 1)

\* checkWait
CheckWait(code, retryAfter) == code = 429 /\ retryAfter

\* Whether request takes the loop again, retries having been counted.
Retried(code, retryAfter) == CheckWait(code, retryAfter) /\ retries + 1 < MaxRetries

\* transformResponse: in a response of these codes the Status is not looked at,
\* any other code is an error with it or without.
Transformed(code) == IF code = 101 \/ code \in 200 .. 206 THEN "ok" ELSE "err"

\* Mutant of Respond: retries is not counted.
RespondUncounted(code, retryAfter) ==
  /\ pc = "wait"
  /\ code \in Success => got = r.obj
  /\ IF code \in Success THEN CarriedOut ELSE carried' = carried
  /\ IF Retried(code, retryAfter)
     THEN pc' = "send" /\ result' = result
     ELSE Return(Transformed(code))
  /\ stray' \in {stray, code >= 500}
  /\ UNCHANGED <<r, retries, first, received, got>>

\* The server answers; it carries out only what it could decode.  An error of
\* its own does not say whether it did or still will.
Respond(code, retryAfter) ==
  /\ pc = "wait"
  /\ code \in Success => got = r.obj
  /\ IF code \in Success THEN CarriedOut ELSE carried' = carried
  /\ retries' = retries + 1
  /\ IF Retried(code, retryAfter)
     THEN pc' = "send" /\ result' = result
     ELSE Return(Transformed(code))
  /\ stray' \in {stray, code >= 500}
  /\ UNCHANGED <<r, first, received, got>>

\* Mutant of Lost: an attempt without an answer is made again.
LostRetried ==
  /\ pc = "wait" /\ retries + 1 < MaxRetries
  /\ stray' = TRUE
  /\ retries' = retries + 1 /\ pc' = "send"
  /\ UNCHANGED <<r, result, first, received, carried, got>>

\* client.Do fails: the answer is lost, or the request was, or it is on its way.
Lost ==
  /\ pc = "wait"
  /\ Return("err")
  /\ stray' = TRUE
  /\ UNCHANGED <<r, retries, first, received, carried, got>>

\* The server carries out what came before the connection broke, at any time.
Late ==
  /\ stray /\ stray' = FALSE
  /\ got = r.obj
  /\ CarriedOut
  /\ UNCHANGED <<r, pc, retries, result, first, received, got>>

Client == Do \/ NewRequestErr \/ Send
Answer ==
  \/ \E c \in Codes, a \in BOOLEAN : Respond(c, a)
  \/ Lost

Next ==
  \/ \E f \in Fields, v \in Values : Set(f, v)
  \/ \E ok \in BOOLEAN : Body(ok)
  \/ ParamSpecial
  \/ Client \/ Answer \/ Late

\* The program goes on, and an attempt is answered or its connection breaks.
Spec == Init /\ [][Next]_vars /\ WF_vars(Client) /\ WF_vars(Answer)
-----------------------------------------------------------------------------
(* Properties *)

TypeOK ==
  /\ r \in [verb: Verbs, field: [Fields -> Values], namespaceSet: BOOLEAN,
            err: Errors \cup {NoErr}, obj: {0, BodyLen}, body: {0, BodyLen}]
  /\ pc \in {"build", "send", "wait", "done"}
  /\ retries \in 0 .. MaxRetries
  /\ result \in Errors \cup {"none", "misused", "ok", "err"}
  /\ first \in Errors \cup {NoErr}
  /\ received \in 0 .. MaxRetries + 1 /\ carried \in 0 .. 2 /\ got \in {0, BodyLen}
  /\ stray \in BOOLEAN

\* A request that could not be built never reaches the server, in whatever
\* order its parts were given, and Do reports the first thing that went wrong.
FirstErrorStops ==
  first # NoErr => received = 0 /\ (pc = "done" => result = first)

\* Do implements Call.  However often the server asks to wait, it carries a
\* request out at most once: what may have been carried out is never sent again.
\* A Result without an error is one the server carried out; after an error it
\* may still do so at any time.  "Right now we make about ten retry attempts if
\* we get a Retry-After response": the server sees at most maxRetries attempts.
Outcome == CASE result = "none" -> "running" [] result = "ok" -> "ok" [] OTHER -> "err"
AbstractCall ==
  INSTANCE Call WITH MaxAttempts <- MaxRetries, outcome <- Outcome, attempts <- received,
                     effects <- carried
ImplementsCall == AbstractCall!Spec

\* Do comes to an end, also when the server asks to wait all the time.
DoEnds == (pc = "send") ~> (pc = "done")
=============================================================================
