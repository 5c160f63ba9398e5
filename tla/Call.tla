-------------------------------- MODULE Call --------------------------------
(***************************************************************************)
(* What Do of the API client (client/unversioned/request.go) promises its  *)
(* caller: it makes no more than MaxAttempts attempts, the server carries  *)
(* the request out at most once, it has done so if Do returned no error,   *)
(* and after an error it may have done so or may still do it.  Receivers   *)
(* relies on no more than this when it sends its PUT.                      *)
(***************************************************************************)
EXTENDS Naturals

CONSTANT MaxAttempts

VARIABLES outcome,   \* "running", "ok" or "err"
          attempts,  \* how often it was sent
          effects    \* how often it was carried out

vars == <<outcome, attempts, effects>>

Init == outcome = "running" /\ attempts = 0 /\ effects = 0

Attempt ==
  /\ outcome = "running" /\ effects = 0 /\ attempts < MaxAttempts
  /\ attempts' = attempts + 1
  /\ UNCHANGED <<outcome, effects>>

Succeed ==
  /\ outcome = "running" /\ attempts > 0 /\ effects = 0
  /\ outcome' = "ok" /\ effects' = 1
  /\ UNCHANGED attempts

Fail == outcome = "running" /\ outcome' = "err" /\ UNCHANGED <<attempts, effects>>

\* The attempt whose answer was lost is carried out.
Late ==
  /\ outcome = "err" /\ attempts > 0 /\ effects = 0
  /\ effects' = 1
  /\ UNCHANGED <<outcome, attempts>>

Spec == Init /\ [][Attempt \/ Succeed \/ Fail \/ Late]_vars
=============================================================================
