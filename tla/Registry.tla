------------------------------ MODULE Registry ------------------------------
(***************************************************************************)
(* What AnnotatedReceivers.Update (lib/receivers.go) promises its callers: *)
(* each call binds one host, atomically and at most once, leaving every    *)
(* other host and the rest of the Ingress alone.  A call that returned nil *)
(* took effect; a call that returned an error may have taken effect, or    *)
(* may still do so, because its PUT can be under way when the connection   *)
(* breaks.  Nothing but an edit by somebody else undoes it.                *)
(***************************************************************************)
EXTENDS Naturals

CONSTANTS Updaters,  \* one call of Update each
          Hosts,     \* host names of receivers
          Bindings,  \* what a host is bound to: a port and a certificate
          Unset,     \* a binding whose port is 0 or whose certificate is ""
          Rests      \* everything else an Ingress holds

VARIABLES want,     \* the receiver each call was asked to record
          reg,      \* the bindings recorded for each host
          rest,     \* the rest of the Ingress
          applied,  \* has the call taken effect?
          outcome,  \* what the call returned
          edits     \* edits made by others so far

vars == <<want, reg, rest, applied, outcome, edits>>

Init ==
  /\ want \in [Updaters -> [host: Hosts, bind: Bindings \cup {Unset}]]
  /\ reg \in [Hosts -> SUBSET Bindings]
  /\ rest \in Rests
  /\ applied = [u \in Updaters |-> FALSE]
  /\ outcome = [u \in Updaters |-> "running"]
  /\ edits = 0

\* The call takes effect, possibly after it has returned an error.
Apply(u) ==
  /\ ~applied[u]
  /\ outcome[u] # "ok"
  /\ want[u].bind # Unset
  /\ reg' = [reg EXCEPT ![want[u].host] = {want[u].bind}]
  /\ applied' = [applied EXCEPT ![u] = TRUE]
  /\ UNCHANGED <<want, rest, outcome, edits>>

Succeed(u) ==
  /\ outcome[u] = "running"
  /\ applied[u]
  /\ outcome' = [outcome EXCEPT ![u] = "ok"]
  /\ UNCHANGED <<want, reg, rest, applied, edits>>

Fail(u) ==
  /\ outcome[u] = "running"
  /\ outcome' = [outcome EXCEPT ![u] = "err"]
  /\ UNCHANGED <<want, reg, rest, applied, edits>>

\* Somebody else replaces the annotation, or another part of the Ingress.
Edit ==
  /\ reg' \in [Hosts -> SUBSET Bindings]
  /\ rest' \in Rests
  /\ edits' = edits + 1
  /\ UNCHANGED <<want, applied, outcome>>

Next ==
  \/ \E u \in Updaters : Apply(u) \/ Succeed(u) \/ Fail(u)
  \/ Edit

Spec == Init /\ [][Next]_vars

=============================================================================
