----------------------------- MODULE Receivers -----------------------------
(***************************************************************************)
(* lib/receivers.go driven by hack/receivers/update.go: several runs of    *)
(* the command record receivers in an annotation of one Ingress, while     *)
(* other users of the cluster edit the same object.                        *)
(*                                                                         *)
(* A run parses its flags, calls AnnotatedReceivers.Update (GET the        *)
(* Ingress, change the copy, PUT the whole copy back) and then             *)
(* AnnotatedReceivers.Get.  Nothing is locked between the GET and the PUT: *)
(* the copy keeps the resourceVersion it was read with and the API server  *)
(* (external) refuses a PUT whose version is no longer the stored one.     *)
(***************************************************************************)
EXTENDS Naturals, Sequences

CONSTANTS Updaters,   \* the runs of hack/receivers/update.go
          Hosts,      \* Receiver.Host
          Bindings,   \* Receiver.Port with Receiver.Cert, both given
          Unset,      \* --port 0 or --cert "": a flag the user left out
          Rests,      \* the rest of the Ingress: spec, status, other metadata
          EditLists,  \* the receiver lists other users write
          MaxEdits,   \* bound on edits by other users
          MaxFaults   \* bound on requests the network or the server fails

Receiver == [host: Hosts, bind: Bindings]
Flags == [host: Hosts, bind: Bindings \cup {Unset}]

ASSUME ReceiversAssumption ==
  /\ Unset \notin Bindings
  /\ EditLists \subseteq Seq(Receiver)
  /\ MaxEdits \in Nat
  /\ MaxFaults \in Nat

VARIABLES want,   \* the receiver the flags of each run describe
          pc,     \* where each run is, or how it ended
          copy,   \* the Ingress each run read and changed
          put,    \* what became of each run's PUT request
          shown,  \* the list each run printed at the end
          ing,    \* the Ingress stored by the API server
          edits, faults

vars == <<want, pc, copy, put, shown, ing, edits, faults>>

\* An Ingress as far as this code looks at it.  ann says what is found under
\* "Ingress.receivers": a list that json.Unmarshal accepts, text it rejects,
\* nothing ("absent"), or nothing because the annotation map itself is nil.
Annotations == {"list", "bad", "absent", "nil"}
Ingress == [exists: BOOLEAN, rv: Nat, rest: Rests,
            ann: Annotations, list: Seq(Flags)]

\* Mutant of Upsert: a receiver is appended without a look at its host.
UpsertAppends(receivers, rec) == Append(receivers, rec)

\* Mutant of Upsert: the loop stops at the first receiver of that host.
UpsertFirst(receivers, rec) ==
  LET same == {i \in DOMAIN receivers : receivers[i].host = rec.host}
      first == CHOOSE i \in same : \A j \in same : i <= j
  IN  IF same # {} THEN [receivers EXCEPT ![first] = rec] ELSE Append(receivers, rec)

\* The loop of Update: replace every receiver of that host, else append.
Upsert(receivers, rec) ==
  IF \E i \in DOMAIN receivers : receivers[i].host = rec.host
  THEN [i \in DOMAIN receivers |->
          IF receivers[i].host = rec.host THEN rec ELSE receivers[i]]
  ELSE Append(receivers, rec)

\* The object Update sends back for the Ingress i it has read.
Changed(i, rec) == [i EXCEPT !.ann = "list", !.list = Upsert(@, rec)]

\* Only an annotation that decodes has a list.
AnnotatedWith(a, l) == a = "list" \/ l = <<>>

Init ==
  /\ want \in [Updaters -> Flags]
  /\ pc = [u \in Updaters |-> "start"]
  /\ ing \in [exists: BOOLEAN, rv: {0}, rest: Rests,
              ann: Annotations, list: EditLists \cup {<<>>}]
  /\ AnnotatedWith(ing.ann, ing.list)
  /\ ing.exists \/ ing.ann = "nil"
  /\ copy = [u \in Updaters |-> ing]
  /\ put = [u \in Updaters |-> "none"]
  /\ shown = [u \in Updaters |-> <<>>]
  /\ edits = 0
  /\ faults = 0
-----------------------------------------------------------------------------
(* One run of the command *)

Goto(u, from, to) == pc[u] = from /\ pc' = [pc EXCEPT ![u] = to]

\* main checks its flags before it contacts the API server.
ParseFlags(u) ==
  /\ Goto(u, "start", IF want[u].bind = Unset THEN "badFlags" ELSE "update")
  /\ UNCHANGED <<want, copy, put, shown, ing, edits, faults>>

\* Mutant of UpdateSend: the receivers already in the annotation are dropped.
UpdateSendDrops(u) ==
  /\ Goto(u, "update", "put")
  /\ ing.exists /\ ing.ann \in {"list", "absent"}
  /\ copy' = [copy EXCEPT ![u] = [ing EXCEPT !.ann = "list", !.list = <<want[u]>>]]
  /\ put' = [put EXCEPT ![u] = "sent"]
  /\ UNCHANGED <<want, shown, ing, edits, faults>>

\* Mutant of UpdateSend: the object sent does not carry the version read.
UpdateSendUnversioned(u) ==
  /\ Goto(u, "update", "put")
  /\ ing.exists /\ ing.ann \in {"list", "absent"}
  /\ copy' = [copy EXCEPT ![u] = [Changed(ing, want[u]) EXCEPT !.rv = ing.rv + 1]]
  /\ put' = [put EXCEPT ![u] = "sent"]
  /\ UNCHANGED <<want, shown, ing, edits, faults>>

\* Update up to its PUT: the copy is read, decoded, changed and encoded.
UpdateSend(u) ==
  /\ Goto(u, "update", "put")
  /\ ing.exists /\ ing.ann \in {"list", "absent"}
  /\ copy' = [copy EXCEPT ![u] = Changed(ing, want[u])]
  /\ put' = [put EXCEPT ![u] = "sent"]
  /\ UNCHANGED <<want, shown, ing, edits, faults>>

\* Update returns early: no such Ingress, or its annotation does not decode.
UpdateReadErr(u) ==
  /\ Goto(u, "update", "updateErr")
  /\ ~ing.exists \/ ing.ann = "bad"
  /\ UNCHANGED <<want, copy, put, shown, ing, edits, faults>>

\* ing.Annotations[receiversKey] = ... on a nil map is a run-time panic.
UpdatePanic(u) ==
  /\ Goto(u, "update", "panic")
  /\ ing.exists /\ ing.ann = "nil"
  /\ UNCHANGED <<want, copy, put, shown, ing, edits, faults>>

\* Mutant of UpdateReturn: the error of the PUT is ignored.
UpdateReturnIgnoresErr(u) ==
  /\ put[u] \in {"applied", "refused"}
  /\ Goto(u, "put", "get")
  /\ UNCHANGED <<want, copy, put, shown, ing, edits, faults>>

\* Mutant of UpdateReturn: a refused PUT is waited for for ever.
UpdateReturnWaits(u) ==
  /\ put[u] = "applied"
  /\ Goto(u, "put", "get")
  /\ UNCHANGED <<want, copy, put, shown, ing, edits, faults>>

\* The reply of the API server reaches Update, which returns it.
UpdateReturn(u) ==
  /\ put[u] \in {"applied", "refused"}
  /\ Goto(u, "put", IF put[u] = "applied" THEN "get" ELSE "updateErr")
  /\ UNCHANGED <<want, copy, put, shown, ing, edits, faults>>

\* Mutant of GetShow: only the host names are decoded.
GetShowHosts(u) ==
  /\ Goto(u, "get", "done")
  /\ ing.exists /\ ing.ann # "bad"
  /\ shown' = [shown EXCEPT ![u] = [i \in DOMAIN ing.list |-> ing.list[i].host]]
  /\ UNCHANGED <<want, copy, put, ing, edits, faults>>

\* main prints what AnnotatedReceivers.Get returns; no annotation, no list.
GetShow(u) ==
  /\ Goto(u, "get", "done")
  /\ ing.exists /\ ing.ann # "bad"
  /\ shown' = [shown EXCEPT ![u] = ing.list]
  /\ UNCHANGED <<want, copy, put, ing, edits, faults>>

GetErr(u) ==
  /\ Goto(u, "get", "getErr")
  /\ ~ing.exists \/ ing.ann = "bad"
  /\ UNCHANGED <<want, copy, put, shown, ing, edits, faults>>

\* client.Do fails while a request is under way.  A PUT that was sent stays
\* under way: the API server may still carry it out.
ConnectionLost(u) ==
  /\ faults < MaxFaults
  /\ \/ Goto(u, "update", "updateErr")
     \/ Goto(u, "put", "updateErr")
     \/ Goto(u, "get", "getErr")
  /\ faults' = faults + 1
  /\ UNCHANGED <<want, copy, put, shown, ing, edits>>
-----------------------------------------------------------------------------
(* The API server and its other users (external) *)

\* A PUT is carried out only on the version of the Ingress it was made from.
PutApply(u) ==
  /\ put[u] = "sent"
  /\ ing.exists /\ copy[u].rv = ing.rv
  /\ ing' = [copy[u] EXCEPT !.rv = ing.rv + 1]
  /\ put' = [put EXCEPT ![u] = "applied"]
  /\ UNCHANGED <<want, pc, copy, shown, edits, faults>>

PutConflict(u) ==
  /\ put[u] = "sent"
  /\ ~ing.exists \/ copy[u].rv # ing.rv
  /\ put' = [put EXCEPT ![u] = "refused"]
  /\ UNCHANGED <<want, pc, copy, shown, ing, edits, faults>>

\* The PUT is lost on its way, or refused for a reason of the server's own
\* (throttled, over the 64 kB annotation limit, internal error).
PutFail(u) ==
  /\ put[u] = "sent"
  /\ faults < MaxFaults
  /\ put' = [put EXCEPT ![u] = "refused"]
  /\ faults' = faults + 1
  /\ UNCHANGED <<want, pc, copy, shown, ing, edits>>

Store(i) ==
  /\ edits < MaxEdits
  /\ edits' = edits + 1
  /\ ing' = [i EXCEPT !.rv = ing.rv + 1]
  /\ UNCHANGED <<want, pc, copy, put, shown, faults>>

EditRest ==
  \E r \in Rests : ing.exists /\ Store([ing EXCEPT !.rest = r])

EditAnnotation ==
  \E a \in Annotations, l \in EditLists \cup {<<>>} :
    /\ ing.exists /\ AnnotatedWith(a, l)
    /\ Store([ing EXCEPT !.ann = a, !.list = l])

Delete ==
  ing.exists /\ Store([ing EXCEPT !.exists = FALSE, !.ann = "nil", !.list = <<>>])

\* The Ingress is created again, as its manifest describes it.
Create ==
  \E a \in Annotations : ~ing.exists /\ Store([ing EXCEPT !.exists = TRUE, !.ann = a])
-----------------------------------------------------------------------------
Run(u) ==
  \/ ParseFlags(u) \/ UpdateSend(u) \/ UpdateReadErr(u) \/ UpdatePanic(u)
  \/ UpdateReturn(u) \/ GetShow(u) \/ GetErr(u)

Serve(u) == PutApply(u) \/ PutConflict(u)

Ended(u) == pc[u] \in {"badFlags", "updateErr", "getErr", "panic", "done"}

\* Every command has ended and no PUT is left on the network.
Quiet ==
  /\ \A u \in Updaters : Ended(u) /\ put[u] # "sent"
  /\ UNCHANGED vars

Next ==
  \/ \E u \in Updaters : Run(u) \/ Serve(u) \/ PutFail(u) \/ ConnectionLost(u)
  \/ EditRest \/ EditAnnotation \/ Delete \/ Create
  \/ Quiet

Spec == Init /\ [][Next]_vars

\* A run is a single goroutine that only ever waits for the API server, and
\* the server answers: the code sets no timeout and relies on that.
FairSpec == Spec /\ \A u \in Updaters : WF_vars(Run(u)) /\ WF_vars(Serve(u))
-----------------------------------------------------------------------------
(* Properties *)

TypeOK ==
  /\ want \in [Updaters -> Flags]
  /\ pc \in [Updaters -> {"start", "update", "put", "get", "badFlags",
                          "updateErr", "getErr", "panic", "done"}]
  /\ copy \in [Updaters -> Ingress]
  /\ put \in [Updaters -> {"none", "sent", "applied", "refused"}]
  /\ shown \in [Updaters -> Seq(Flags)]
  /\ ing \in Ingress
  /\ edits \in 0..MaxEdits
  /\ faults \in 0..MaxFaults

\* A copy on its way to the API server is never newer than what is stored,
\* and while its version is the stored one it differs from the stored Ingress
\* in its own receiver only.  This is why Update reuses the Ingress it read:
\* a PUT that is accepted cannot take back what somebody else wrote since.
CopyIsCurrent ==
  \A u \in Updaters : put[u] = "sent" =>
    /\ copy[u].rv <= ing.rv
    /\ copy[u].rv = ing.rv => copy[u] = Changed(ing, want[u])

\* When nothing is edited by others and no request fails, a conflict is
\* another run's success: the runs cannot all turn each other away.
SomeUpdateWins ==
  /\ edits = 0
  /\ faults = 0
  /\ \E u \in Updaters : put[u] = "refused"
  => \E v \in Updaters : put[v] = "applied"

\* The list main prints after a successful Update names the run's host, bound
\* to what this run or another one that was carried out asked for.
ReadYourUpdate ==
  \A u \in Updaters : pc[u] = "done" /\ edits = 0 =>
    \E i \in DOMAIN shown[u] :
      /\ shown[u][i].host = want[u].host
      /\ \E v \in Updaters : put[v] = "applied" /\ want[v] = shown[u][i]

\* Only an edit by somebody else drops, moves or renames an entry of the
\* list: concurrent runs of Update never lose each other's receivers.
EntriesKept ==
  [][edits' = edits =>
       \A i \in DOMAIN ing.list :
         i \in DOMAIN ing'.list /\ ing'.list[i].host = ing.list[i].host]_vars

\* Only an edit by somebody else gives one host two entries, also when the
\* same receiver is recorded again because an earlier run seemed to fail.
NoNewDuplicates ==
  [][edits' = edits =>
       \A i, j \in DOMAIN ing'.list :
         i # j /\ ing'.list[i].host = ing'.list[j].host =>
           /\ {i, j} \subseteq DOMAIN ing.list
           /\ ing.list[i].host = ing.list[j].host]_vars

\* Every command ends.
Termination == \A u \in Updaters : <>Ended(u)

\* Update's comment (lib/receivers.go:59) lists its steps, "add new receiver,
\* encode receiver list, update annotations", and asks nothing of the Ingress:
\* it should return, with or without an error, whatever it reads.
UpdateReturns == \A u \in Updaters : pc[u] # "panic"

\* The bindings recorded for a host.
Bound(h) == {ing.list[i].bind : i \in {j \in DOMAIN ing.list : ing.list[j].host = h}}

\* What the call of Update in run u has returned so far.
Outcome(u) ==
  CASE pc[u] \in {"start", "update", "put"} -> "running"
    [] pc[u] \in {"get", "getErr", "done"}  -> "ok"
    [] OTHER                                -> "err"

R == INSTANCE Registry WITH
       reg     <- [h \in Hosts |-> Bound(h)],
       rest    <- ing.rest,
       applied <- [u \in Updaters |-> put[u] = "applied"],
       outcome <- [u \in Updaters |-> Outcome(u)]

\* Concurrent runs of Update behave as if each recorded its receiver in one
\* atomic step, at most once and, if it returned nil, exactly once.
ImplementsRegistry == R!Spec
=============================================================================
