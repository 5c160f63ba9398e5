-------------------------- MODULE Receivers_proofs --------------------------
(***************************************************************************)
(* Proofs about Receivers for every set of runs, hosts, bindings and edits *)
(* by other users.  The argument: versions only grow, so a copy that can   *)
(* still be accepted is current (CopyIsCurrent); accepting it is then one  *)
(* Upsert on the stored list (ApplyIsUpsert); and what one Upsert does to  *)
(* a list (UpsertEntries) gives everything else.                           *)
(***************************************************************************)
EXTENDS Receivers, SequenceTheorems, TLAPS

\* The loop of Update turns a list of receivers into a list of receivers.
LEMMA UpsertType ==
  ASSUME NEW S, NEW s \in Seq(S), NEW r \in S
  PROVE  Upsert(s, r) \in Seq(S)
<1>1. CASE \E i \in DOMAIN s : s[i].host = r.host
  <2> DEFINE t == [i \in 1..Len(s) |-> IF s[i].host = r.host THEN r ELSE s[i]]
  <2>1. Len(s) \in Nat /\ DOMAIN s = 1..Len(s) /\ \A i \in 1..Len(s) : s[i] \in S
    OBVIOUS
  <2>2. t \in [1..Len(s) -> S]
    BY <2>1
  <2>3. t \in Seq(S)
    BY <2>1, <2>2, SeqDef, Zenon
  <2>4. Upsert(s, r) = t
    BY <1>1, <2>1 DEF Upsert
  <2> QED BY <2>3, <2>4
<1>2. CASE ~ \E i \in DOMAIN s : s[i].host = r.host
  BY <1>2 DEF Upsert
<1> QED BY <1>1, <1>2

\* The object Update sends back is an Ingress of the version it has read.
LEMMA ChangedType ==
  ASSUME NEW i \in Ingress, NEW r \in Flags
  PROVE  /\ Changed(i, r) \in Ingress
         /\ Changed(i, r).rv = i.rv
<1>1. Upsert(i.list, r) \in Seq(Flags)
  BY UpsertType DEF Ingress
<1> QED BY <1>1 DEF Changed, Ingress, Annotations

\* The lists other users write are lists of receivers too.
LEMMA EditListType == EditLists \cup {<<>>} \subseteq Seq(Flags)
<1>1. Receiver \subseteq Flags
  BY DEF Receiver, Flags
<1>2. Seq(Receiver) \subseteq Seq(Flags)
  BY <1>1, SeqMonotonic
<1>3. EditLists \subseteq Seq(Flags)
  BY <1>2, ReceiversAssumption, Zenon
<1>4. <<>> \in Seq(Flags)
  OBVIOUS
<1> QED BY <1>3, <1>4, Zenon

\* Giving an Ingress its next version keeps its shape.
LEMMA VersionType ==
  ASSUME NEW i \in Ingress, NEW n \in Nat
  PROVE  [i EXCEPT !.rv = n + 1] \in Ingress
<1>1. n + 1 \in Nat
  OBVIOUS
<1> QED BY <1>1 DEF Ingress

\* A write by another user stores a well-formed Ingress with a new version.
LEMMA StoreType ==
  ASSUME TypeOK, NEW i \in Ingress, Store(i)
  PROVE  TypeOK'
<1>1. ing.rv \in Nat
  BY DEF TypeOK, Ingress
<1>2. ing' \in Ingress
  BY <1>1, VersionType DEF Store
<1>3. edits' \in 0..MaxEdits
  BY ReceiversAssumption DEF Store, TypeOK
<1> QED BY <1>2, <1>3 DEF Store, TypeOK

\* The initial states are well typed.
LEMMA InitType == Init => TypeOK
<1> SUFFICES ASSUME Init PROVE TypeOK
  OBVIOUS
<1>1. ing \in Ingress
  BY EditListType DEF Init, Ingress
<1>2. shown \in [Updaters -> Seq(Flags)]
  BY DEF Init
<1>3. edits \in 0..MaxEdits /\ faults \in 0..MaxFaults
  BY ReceiversAssumption DEF Init
<1>4. copy \in [Updaters -> Ingress]
  BY <1>1 DEF Init
<1> QED BY <1>1, <1>2, <1>3, <1>4 DEF Init, TypeOK

\* What another user stores has the shape of an Ingress, for each edit.
LEMMA EditsType ==
  ASSUME TypeOK, EditRest \/ EditAnnotation \/ Delete \/ Create
  PROVE  \E i \in Ingress : Store(i)
<1>1. CASE EditRest
  <2>1. PICK r \in Rests : Store([ing EXCEPT !.rest = r])
    BY <1>1 DEF EditRest
  <2>2. [ing EXCEPT !.rest = r] \in Ingress
    BY DEF TypeOK, Ingress
  <2> QED BY <2>1, <2>2
<1>2. CASE EditAnnotation
  <2>1. PICK a \in Annotations, l \in EditLists \cup {<<>>} :
          Store([ing EXCEPT !.ann = a, !.list = l])
    BY <1>2 DEF EditAnnotation
  <2>2. [ing EXCEPT !.ann = a, !.list = l] \in Ingress
    BY EditListType DEF TypeOK, Ingress
  <2> QED BY <2>1, <2>2
<1>3. CASE Delete
  <2>1. [ing EXCEPT !.exists = FALSE, !.ann = "nil", !.list = <<>>] \in Ingress
    BY EditListType DEF TypeOK, Ingress, Annotations
  <2> QED BY <1>3, <2>1 DEF Delete
<1>4. CASE Create
  <2>1. PICK a \in Annotations : Store([ing EXCEPT !.exists = TRUE, !.ann = a])
    BY <1>4 DEF Create
  <2>2. [ing EXCEPT !.exists = TRUE, !.ann = a] \in Ingress
    BY DEF TypeOK, Ingress
  <2> QED BY <2>1, <2>2
<1> QED BY <1>1, <1>2, <1>3, <1>4

\* Every step keeps the types: one case per action.
LEMMA NextType == TypeOK /\ [Next]_vars => TypeOK'
<1> SUFFICES ASSUME TypeOK, [Next]_vars PROVE TypeOK'
  OBVIOUS
<1>1. ASSUME NEW u \in Updaters, Run(u) PROVE TypeOK'
  <2>1. CASE ParseFlags(u)
    BY <2>1 DEF ParseFlags, Goto, TypeOK
  <2>2. CASE UpdateSend(u)
    <3>1. Changed(ing, want[u]) \in Ingress
      BY ChangedType DEF TypeOK
    <3> QED BY <2>2, <3>1 DEF UpdateSend, Goto, TypeOK
  <2>3. CASE UpdateReadErr(u)
    BY <2>3 DEF UpdateReadErr, Goto, TypeOK
  <2>4. CASE UpdatePanic(u)
    BY <2>4 DEF UpdatePanic, Goto, TypeOK
  <2>5. CASE UpdateReturn(u)
    BY <2>5 DEF UpdateReturn, Goto, TypeOK
  <2>6. CASE GetShow(u)
    <3>1. ing.list \in Seq(Flags)
      BY DEF TypeOK, Ingress
    <3> QED BY <2>6, <3>1 DEF GetShow, Goto, TypeOK
  <2>7. CASE GetErr(u)
    BY <2>7 DEF GetErr, Goto, TypeOK
  <2> QED BY <1>1, <2>1, <2>2, <2>3, <2>4, <2>5, <2>6, <2>7 DEF Run
<1>2. ASSUME NEW u \in Updaters, Serve(u) PROVE TypeOK'
  <2>1. CASE PutApply(u)
    <3>1. ing.rv \in Nat /\ copy[u] \in Ingress
      BY DEF TypeOK, Ingress
    <3>2. ing' \in Ingress
      BY <2>1, <3>1, VersionType DEF PutApply
    <3> QED BY <2>1, <3>2 DEF PutApply, TypeOK
  <2>2. CASE PutConflict(u)
    BY <2>2 DEF PutConflict, TypeOK
  <2> QED BY <1>2, <2>1, <2>2 DEF Serve
<1>3. ASSUME NEW u \in Updaters, PutFail(u) PROVE TypeOK'
  <2>1. faults' \in 0..MaxFaults
    BY <1>3, ReceiversAssumption DEF PutFail, TypeOK
  <2> QED BY <1>3, <2>1 DEF PutFail, TypeOK
<1>4. ASSUME NEW u \in Updaters, ConnectionLost(u) PROVE TypeOK'
  <2>1. faults' \in 0..MaxFaults
    BY <1>4, ReceiversAssumption DEF ConnectionLost, TypeOK
  <2> QED BY <1>4, <2>1 DEF ConnectionLost, Goto, TypeOK
<1>5. CASE EditRest \/ EditAnnotation \/ Delete \/ Create
  BY <1>5, EditsType, StoreType
<1>6. CASE Quiet \/ UNCHANGED vars
  BY <1>6 DEF Quiet, vars, TypeOK
<1> QED BY <1>1, <1>2, <1>3, <1>4, <1>5, <1>6 DEF Next

\* Whatever the runs, the network and the other users do, every variable
\* keeps its type: in particular what a run prints is a list of receivers.
THEOREM TypeCorrect == Spec => []TypeOK
<1> QED BY InitType, NextType, PTL DEF Spec
-----------------------------------------------------------------------------
(* What the loop of Update does to a list *)

\* The list Update computes, entry by entry: the entries of the host carry
\* the new receiver, the others are untouched, and an entry is added exactly
\* when the host had none.
LEMMA UpsertEntries ==
  ASSUME NEW s \in Seq(Flags), NEW r \in Flags
  PROVE  /\ \A i \in DOMAIN s :
              /\ i \in DOMAIN Upsert(s, r)
              /\ Upsert(s, r)[i] = IF s[i].host = r.host THEN r ELSE s[i]
         /\ \A i \in DOMAIN Upsert(s, r) \ DOMAIN s :
              /\ i = Len(s) + 1
              /\ Upsert(s, r)[i] = r
              /\ \A j \in DOMAIN s : s[j].host # r.host
         /\ \E i \in DOMAIN Upsert(s, r) : Upsert(s, r)[i] = r
<1>1. CASE \E i \in DOMAIN s : s[i].host = r.host
  <2>1. Upsert(s, r) = [i \in DOMAIN s |-> IF s[i].host = r.host THEN r ELSE s[i]]
    BY <1>1 DEF Upsert
  <2>2. DOMAIN Upsert(s, r) = DOMAIN s
    BY <2>1
  <2> QED BY <1>1, <2>1, <2>2, Zenon
<1>2. CASE \A i \in DOMAIN s : s[i].host # r.host
  <2> DEFINE t == Append(s, r)
  <2>1. Upsert(s, r) = t
    BY <1>2 DEF Upsert
  <2>2. /\ DOMAIN s = 1..Len(s) /\ Len(s) \in Nat
        /\ DOMAIN t = 1..(Len(s) + 1)
        /\ \A i \in DOMAIN s : t[i] = s[i]
        /\ t[Len(s) + 1] = r
    BY AppendProperties
  <2>3. \A i \in DOMAIN t \ DOMAIN s : i = Len(s) + 1
    BY <2>2
  <2>4. Len(s) + 1 \in DOMAIN t
    BY <2>2
  <2>5. \A i \in DOMAIN s : i \in DOMAIN t
    BY <2>2
  <2> HIDE DEF t
  <2> QED BY <1>2, <2>1, <2>2, <2>3, <2>4, <2>5
<1> QED BY <1>1, <1>2
-----------------------------------------------------------------------------
(* A copy that can still be accepted is up to date *)

\* Every write gives the stored Ingress a new version, so a copy made before
\* it can no longer be accepted; the versions order the copies.
LEMMA NextCopy == TypeOK /\ CopyIsCurrent /\ [Next]_vars => CopyIsCurrent'
<1> SUFFICES ASSUME TypeOK, CopyIsCurrent, [Next]_vars,
                    NEW v \in Updaters, put'[v] = "sent"
             PROVE  /\ copy'[v].rv <= ing'.rv
                    /\ copy'[v].rv = ing'.rv => copy'[v] = Changed(ing', want'[v])
  BY DEF CopyIsCurrent
<1>0. /\ ing \in Ingress /\ ing.rv \in Nat
      /\ copy[v] \in Ingress /\ copy[v].rv \in Nat
  BY DEF TypeOK, Ingress
<1>1. CASE UNCHANGED <<put, copy, ing, want>>
  BY <1>1 DEF CopyIsCurrent
\* The stored Ingress moves past every copy that was under way.
<1>2. ASSUME put[v] = "sent", copy'[v] = copy[v], ing'.rv = ing.rv + 1
      PROVE  copy'[v].rv < ing'.rv
  BY <1>0, <1>2 DEF CopyIsCurrent
<1>3. ASSUME NEW u \in Updaters, UpdateSend(u)
      PROVE  /\ copy'[v].rv <= ing'.rv
             /\ copy'[v].rv = ing'.rv => copy'[v] = Changed(ing', want'[v])
  <2>1. CASE u = v
    <3>1. copy'[v] = Changed(ing, want[v]) /\ ing' = ing /\ want' = want
      BY <1>3, <2>1 DEF UpdateSend, TypeOK
    <3>2. Changed(ing, want[v]).rv = ing.rv
      BY <1>0, ChangedType DEF TypeOK
    <3> QED BY <1>0, <3>1, <3>2
  <2>2. CASE u # v
    <3>1. copy'[v] = copy[v] /\ put[v] = "sent" /\ ing' = ing /\ want' = want
      BY <1>3, <2>2 DEF UpdateSend, TypeOK
    <3> QED BY <3>1 DEF CopyIsCurrent
  <2> QED BY <2>1, <2>2
<1>4. ASSUME NEW u \in Updaters, PutApply(u)
      PROVE  copy'[v].rv < ing'.rv
  <2>1. put[v] = "sent" /\ copy'[v] = copy[v]
    BY <1>4 DEF PutApply, TypeOK
  <2>2. ing'.rv = ing.rv + 1
    BY <1>4, <1>0 DEF PutApply, TypeOK, Ingress
  <2> QED BY <1>2, <2>1, <2>2
<1>5. ASSUME NEW i \in Ingress, Store(i)
      PROVE  copy'[v].rv < ing'.rv
  <2>1. put[v] = "sent" /\ copy'[v] = copy[v] /\ ing'.rv = ing.rv + 1
    BY <1>5 DEF Store, Ingress
  <2> QED BY <1>2, <2>1
<1>6. ASSUME NEW u \in Updaters, PutConflict(u) \/ PutFail(u)
      PROVE  put[v] = "sent" /\ UNCHANGED <<copy, ing, want>>
  BY <1>6 DEF PutConflict, PutFail, TypeOK
<1>7. ASSUME NEW u \in Updaters,
             Run(u) \/ Serve(u) \/ PutFail(u) \/ ConnectionLost(u)
      PROVE  /\ copy'[v].rv <= ing'.rv
             /\ copy'[v].rv = ing'.rv => copy'[v] = Changed(ing', want'[v])
  <2>1. CASE PutConflict(u) \/ PutFail(u)
    BY <2>1, <1>6 DEF CopyIsCurrent
  <2>2. CASE UpdateSend(u)
    BY <2>2, <1>3
  <2>3. CASE PutApply(u)
    <3>1. copy'[v].rv < ing'.rv /\ copy'[v] = copy[v] /\ ing'.rv = ing.rv + 1
      BY <2>3, <1>4, <1>0 DEF PutApply, TypeOK, Ingress
    <3> QED BY <1>0, <3>1
  <2>4. CASE \/ ParseFlags(u) \/ UpdateReadErr(u) \/ UpdatePanic(u)
             \/ UpdateReturn(u) \/ GetShow(u) \/ GetErr(u) \/ ConnectionLost(u)
    BY <2>4, <1>1 DEF ParseFlags, UpdateReadErr, UpdatePanic, UpdateReturn,
                      GetShow, GetErr, ConnectionLost
  <2> QED BY <1>7, <2>1, <2>2, <2>3, <2>4 DEF Run, Serve
<1>8. CASE EditRest \/ EditAnnotation \/ Delete \/ Create
  <2>1. PICK i \in Ingress : Store(i)
    BY <1>8, EditsType
  <2>2. copy'[v].rv < ing'.rv /\ copy'[v] = copy[v] /\ ing'.rv = ing.rv + 1
    BY <1>5, <2>1 DEF Store, Ingress
  <2> QED BY <1>0, <2>2
<1>9. CASE Quiet \/ UNCHANGED vars
  BY <1>1, <1>9 DEF Quiet, vars
<1> QED BY <1>7, <1>8, <1>9 DEF Next

\* For any number of runs and edits, a PUT the API server can still accept
\* was made from exactly the Ingress it will replace.
THEOREM CopiesAreCurrent == Spec => []CopyIsCurrent
<1>1. Init => CopyIsCurrent
  BY DEF Init, CopyIsCurrent
<1> QED BY <1>1, TypeCorrect, NextCopy, PTL DEF Spec
-----------------------------------------------------------------------------
(* Only Update and other users write to the Ingress *)

\* A PUT that is accepted changes the stored list by one Upsert, and nothing
\* else of the Ingress that another user could have written meanwhile.
LEMMA ApplyIsUpsert ==
  ASSUME TypeOK, CopyIsCurrent, NEW u \in Updaters, PutApply(u)
  PROVE  /\ ing'.list = Upsert(ing.list, want[u])
         /\ ing'.rest = ing.rest
         /\ ing.list \in Seq(Flags)
         /\ want[u] \in Flags
<1>1. copy[u] = Changed(ing, want[u]) /\ ing \in Ingress /\ want[u] \in Flags
  BY DEF CopyIsCurrent, PutApply, TypeOK
<1>2. /\ ing'.list = copy[u].list /\ ing'.rest = copy[u].rest
  BY <1>1, ChangedType DEF PutApply, Ingress
<1>3. /\ Changed(ing, want[u]).list = Upsert(ing.list, want[u])
      /\ Changed(ing, want[u]).rest = ing.rest
  BY <1>1 DEF Changed, Ingress
<1> QED BY <1>1, <1>2, <1>3 DEF Ingress

\* The three kinds of step, as far as the stored Ingress can tell.
LEMMA Writers ==
  ASSUME TypeOK, [Next]_vars
  PROVE  \/ ing' = ing /\ edits' = edits
         \/ \E u \in Updaters : PutApply(u)
         \/ \E i \in Ingress : Store(i)
<1>1. ASSUME NEW u \in Updaters, Run(u) PROVE ing' = ing /\ edits' = edits
  BY <1>1 DEF Run, ParseFlags, UpdateSend, UpdateReadErr, UpdatePanic, UpdateReturn,
              GetShow, GetErr
<1>2. ASSUME NEW u \in Updaters, PutConflict(u) \/ PutFail(u) \/ ConnectionLost(u)
      PROVE  ing' = ing /\ edits' = edits
  BY <1>2 DEF PutConflict, PutFail, ConnectionLost
<1>3. CASE Quiet \/ UNCHANGED vars
  BY <1>3 DEF Quiet, vars
<1>4. CASE EditRest \/ EditAnnotation \/ Delete \/ Create
  BY <1>4, EditsType
<1> QED BY <1>1, <1>2, <1>3, <1>4 DEF Next, Serve

\* One step of the specification as EntriesKept sees it.
EntriesKeptStep ==
  edits' = edits =>
    \A i \in DOMAIN ing.list :
      i \in DOMAIN ing'.list /\ ing'.list[i].host = ing.list[i].host

\* One step of the specification as NoNewDuplicates sees it.
NoNewDuplicatesStep ==
  edits' = edits =>
    \A i, j \in DOMAIN ing'.list :
      i # j /\ ing'.list[i].host = ing'.list[j].host =>
        /\ {i, j} \subseteq DOMAIN ing.list
        /\ ing.list[i].host = ing.list[j].host

\* Every step treats the stored list as EntriesKept and NoNewDuplicates ask:
\* a step that is no edit leaves the list alone or is one Upsert on it.
LEMMA ListSteps ==
  TypeOK /\ CopyIsCurrent /\ [Next]_vars => EntriesKeptStep /\ NoNewDuplicatesStep
<1> SUFFICES ASSUME TypeOK, CopyIsCurrent, [Next]_vars, edits' = edits
             PROVE  EntriesKeptStep /\ NoNewDuplicatesStep
  BY DEF EntriesKeptStep, NoNewDuplicatesStep
<1>1. CASE ing' = ing
  BY <1>1 DEF EntriesKeptStep, NoNewDuplicatesStep
<1>2. ASSUME NEW u \in Updaters, PutApply(u)
      PROVE  EntriesKeptStep /\ NoNewDuplicatesStep
  <2> DEFINE s == ing.list
             t == Upsert(s, want[u])
  <2>1. s \in Seq(Flags) /\ want[u] \in Flags /\ ing'.list = t
    BY <1>2, ApplyIsUpsert
  <2>2. /\ \A i \in DOMAIN s :
             /\ i \in DOMAIN t
             /\ t[i] = IF s[i].host = want[u].host THEN want[u] ELSE s[i]
        /\ \A i \in DOMAIN t \ DOMAIN s :
             /\ i = Len(s) + 1
             /\ t[i] = want[u]
             /\ \A j \in DOMAIN s : s[j].host # want[u].host
    BY <2>1, UpsertEntries
  <2> HIDE DEF s, t
  <2>3. \A i \in DOMAIN s : i \in DOMAIN t /\ t[i].host = s[i].host
    BY <2>2
  <2>4. ASSUME NEW i \in DOMAIN t, NEW j \in DOMAIN t, i # j, t[i].host = t[j].host
        PROVE  i \in DOMAIN s /\ j \in DOMAIN s /\ s[i].host = s[j].host
    BY <2>2, <2>3, <2>4
  <2>5. EntriesKeptStep
    BY <2>1, <2>3 DEF EntriesKeptStep, s
  <2>6. NoNewDuplicatesStep
    BY <2>1, <2>4 DEF NoNewDuplicatesStep, s
  <2> QED BY <2>5, <2>6
<1>3. ASSUME NEW i \in Ingress, Store(i) PROVE FALSE
  BY <1>3 DEF Store, TypeOK
<1> QED BY <1>1, <1>2, <1>3, Writers

\* Concurrent runs of Update never lose, move or rename an entry, however
\* many there are and whatever fails.
THEOREM EntriesAreKept == Spec => EntriesKept
<1>1. TypeOK /\ CopyIsCurrent /\ [Next]_vars => [EntriesKeptStep]_vars
  BY ListSteps
<1> QED BY <1>1, TypeCorrect, CopiesAreCurrent, PTL DEF Spec, EntriesKept, EntriesKeptStep

\* Update never gives a host a second entry.
THEOREM NoDuplicatesAppear == Spec => NoNewDuplicates
<1>1. TypeOK /\ CopyIsCurrent /\ [Next]_vars => [NoNewDuplicatesStep]_vars
  BY ListSteps
<1> QED BY <1>1, TypeCorrect, CopiesAreCurrent, PTL
        DEF Spec, NoNewDuplicates, NoNewDuplicatesStep
-----------------------------------------------------------------------------
(* Where a run and its PUT can be *)

\* A run sends one PUT, only with complete flags, only from Update, and goes
\* on to Get only once its PUT is known to be carried out.
Protocol ==
  \A u \in Updaters :
    /\ pc[u] \in {"start", "update", "badFlags", "panic"} => put[u] = "none"
    /\ put[u] = "sent" => pc[u] \in {"put", "updateErr"}
    /\ pc[u] \in {"get", "getErr", "done"} => put[u] = "applied"
    /\ pc[u] = "update" \/ put[u] # "none" => want[u].bind # Unset

\* Every step keeps a run and its PUT in step with each other.
LEMMA NextProtocol == TypeOK /\ Protocol /\ [Next]_vars => Protocol'
<1> SUFFICES ASSUME TypeOK, Protocol, [Next]_vars PROVE Protocol'
  OBVIOUS
<1>1. ASSUME NEW u \in Updaters, ParseFlags(u) PROVE Protocol'
  BY <1>1 DEF ParseFlags, Goto, TypeOK, Protocol
<1>2. ASSUME NEW u \in Updaters, UpdateSend(u) PROVE Protocol'
  BY <1>2 DEF UpdateSend, Goto, TypeOK, Protocol
<1>3. ASSUME NEW u \in Updaters, UpdateReadErr(u) \/ UpdatePanic(u) PROVE Protocol'
  BY <1>3 DEF UpdateReadErr, UpdatePanic, Goto, TypeOK, Protocol
<1>4. ASSUME NEW u \in Updaters, UpdateReturn(u) PROVE Protocol'
  BY <1>4 DEF UpdateReturn, Goto, TypeOK, Protocol
<1>5. ASSUME NEW u \in Updaters, GetShow(u) \/ GetErr(u) PROVE Protocol'
  BY <1>5 DEF GetShow, GetErr, Goto, TypeOK, Protocol
<1>6. ASSUME NEW u \in Updaters, PutApply(u) \/ PutConflict(u) \/ PutFail(u)
      PROVE  Protocol'
  BY <1>6 DEF PutApply, PutConflict, PutFail, TypeOK, Protocol
<1>7. ASSUME NEW u \in Updaters, ConnectionLost(u) PROVE Protocol'
  BY <1>7 DEF ConnectionLost, Goto, TypeOK, Protocol
<1>8. CASE EditRest \/ EditAnnotation \/ Delete \/ Create
  BY <1>8, EditsType DEF Store, Protocol
<1>9. CASE Quiet \/ UNCHANGED vars
  BY <1>9 DEF Quiet, vars, Protocol
<1> QED BY <1>1, <1>2, <1>3, <1>4, <1>5, <1>6, <1>7, <1>8, <1>9 DEF Next, Run, Serve

\* Protocol is an invariant of the specification.
LEMMA ProtocolHolds == Spec => []Protocol
<1>1. Init => Protocol
  BY DEF Init, Protocol
<1> QED BY <1>1, TypeCorrect, NextProtocol, PTL DEF Spec
-----------------------------------------------------------------------------
(* A conflict is somebody's success *)

\* As long as nobody has written to the Ingress and nothing has failed, every
\* PUT under way can be accepted and none has been refused.
Undisturbed ==
  /\ edits = 0
  /\ faults = 0
  /\ \A v \in Updaters : put[v] # "applied"
  => \A u \in Updaters :
       /\ put[u] # "refused"
       /\ put[u] = "sent" => ing.exists /\ copy[u].rv = ing.rv

\* The first write to the Ingress is an edit or the success of some run.
LEMMA NextUndisturbed ==
  TypeOK /\ Protocol /\ Undisturbed /\ [Next]_vars => Undisturbed'
<1> SUFFICES ASSUME TypeOK, Protocol, Undisturbed, [Next]_vars, NEW w \in Updaters,
                    edits' = 0, faults' = 0, \A v \in Updaters : put'[v] # "applied"
             PROVE  /\ put'[w] # "refused"
                    /\ put'[w] = "sent" => ing'.exists /\ copy'[w].rv = ing'.rv
  BY DEF Undisturbed
<1> DEFINE Goal == /\ put'[w] # "refused"
                   /\ put'[w] = "sent" => ing'.exists /\ copy'[w].rv = ing'.rv
<1>0. edits \in Nat /\ faults \in Nat
  BY DEF TypeOK
<1>1. CASE UNCHANGED <<put, copy, ing, edits, faults>>
  BY <1>1 DEF Undisturbed
<1>2. ASSUME NEW u \in Updaters, UpdateSend(u) PROVE Goal
  <2>1. Changed(ing, want[u]).rv = ing.rv
    BY ChangedType DEF TypeOK
  <2>2. /\ edits = 0 /\ faults = 0 /\ ing' = ing /\ ing.exists
        /\ \A v \in Updaters : v # u => put'[v] = put[v] /\ copy'[v] = copy[v]
        /\ put'[u] = "sent" /\ copy'[u] = Changed(ing, want[u])
    BY <1>2 DEF UpdateSend, TypeOK
  <2>3. \A v \in Updaters : put[v] # "applied"
    BY <1>2, <2>2 DEF Protocol, UpdateSend, Goto
  <2> QED BY <2>1, <2>2, <2>3 DEF Undisturbed
<1>3. ASSUME NEW u \in Updaters, PutApply(u) PROVE FALSE
  BY <1>3 DEF PutApply, TypeOK
<1>4. ASSUME NEW u \in Updaters, PutConflict(u) PROVE FALSE
  BY <1>4 DEF PutConflict, TypeOK, Undisturbed
<1>5. ASSUME NEW u \in Updaters, PutFail(u) \/ ConnectionLost(u) PROVE FALSE
  BY <1>0, <1>5 DEF PutFail, ConnectionLost
<1>6. ASSUME NEW u \in Updaters, Run(u) PROVE Goal
  BY <1>1, <1>2, <1>6 DEF Run, ParseFlags, UpdateReadErr, UpdatePanic, UpdateReturn,
                          GetShow, GetErr
<1>7. ASSUME NEW i \in Ingress, Store(i) PROVE FALSE
  BY <1>0, <1>7 DEF Store
<1>8. CASE EditRest \/ EditAnnotation \/ Delete \/ Create
  BY <1>7, <1>8, EditsType
<1>9. CASE Quiet \/ UNCHANGED vars
  BY <1>1, <1>9 DEF Quiet, vars
<1> QED BY <1>3, <1>4, <1>5, <1>6, <1>8, <1>9 DEF Next, Serve

\* However many runs compete, they cannot all turn each other away.
THEOREM OneUpdateWins == Spec => []SomeUpdateWins
<1>1. Init => Undisturbed
  BY DEF Init, Undisturbed
<1>2. Undisturbed => SomeUpdateWins
  BY DEF Undisturbed, SomeUpdateWins
<1> QED BY <1>1, <1>2, TypeCorrect, ProtocolHolds, NextUndisturbed, PTL DEF Spec
-----------------------------------------------------------------------------
(* A run reads back what was recorded *)

\* The list l names the host of run u, as some run that was carried out asked.
Recorded(l, u) ==
  \E i \in DOMAIN l :
    /\ l[i].host = want[u].host
    /\ \E v \in Updaters : put[v] = "applied" /\ want[v] = l[i]

\* Until somebody else edits the Ingress, the host of every run that was
\* carried out stays in the stored list, and is in the list the run printed.
AllRecorded ==
  edits = 0 =>
    \A u \in Updaters :
      /\ put[u] = "applied" => Recorded(ing.list, u)
      /\ pc[u] = "done" => Recorded(shown[u], u)

\* A PUT that was carried out stays carried out, so what is recorded stays so.
LEMMA RecordedStays ==
  ASSUME TypeOK, Protocol, [Next]_vars
  PROVE  /\ \A v \in Updaters : put[v] = "applied" => put'[v] = "applied"
         /\ want' = want
<1>1. ASSUME NEW x \in Updaters, Run(x)
      PROVE  /\ \A v \in Updaters : put[v] = "applied" => put'[v] = "applied"
             /\ want' = want
  BY <1>1 DEF Run, ParseFlags, UpdateSend, UpdateReadErr, UpdatePanic, UpdateReturn,
              GetShow, GetErr, Goto, TypeOK, Protocol
<1>2. ASSUME NEW x \in Updaters, Serve(x) \/ PutFail(x) \/ ConnectionLost(x)
      PROVE  /\ \A v \in Updaters : put[v] = "applied" => put'[v] = "applied"
             /\ want' = want
  BY <1>2 DEF Serve, PutApply, PutConflict, PutFail, ConnectionLost, TypeOK
<1>3. CASE EditRest \/ EditAnnotation \/ Delete \/ Create
  BY <1>3, EditsType DEF Store
<1>4. CASE Quiet \/ UNCHANGED vars
  BY <1>4 DEF Quiet, vars
<1> QED BY <1>1, <1>2, <1>3, <1>4 DEF Next

\* A later Upsert for the same host replaces the entry by one that another
\* run asked for, so what is recorded stays recorded.
LEMMA NextRecorded ==
  TypeOK /\ CopyIsCurrent /\ Protocol /\ AllRecorded /\ [Next]_vars => AllRecorded'
<1> SUFFICES ASSUME TypeOK, CopyIsCurrent, Protocol, AllRecorded, [Next]_vars,
                    edits' = 0, NEW u \in Updaters
             PROVE  /\ put'[u] = "applied" => Recorded(ing.list, u)'
                    /\ pc'[u] = "done" => Recorded(shown[u], u)'
  BY DEF AllRecorded
<1>1. /\ \A v \in Updaters : put[v] = "applied" => put'[v] = "applied"
      /\ want' = want
  BY RecordedStays
<1>2. edits = 0 /\ \A i \in Ingress : ~Store(i)
  <2>1. edits \in Nat
    BY DEF TypeOK
  <2>2. \A i \in Ingress : ~Store(i)
    BY <2>1 DEF Store
  <2>3. CASE ing' = ing /\ edits' = edits
    BY <2>2, <2>3
  <2>4. ASSUME NEW x \in Updaters, PutApply(x) PROVE edits = 0
    BY <2>4 DEF PutApply
  <2> QED BY <2>2, <2>3, <2>4, Writers
<1>3. ASSUME put'[u] = "applied" PROVE Recorded(ing.list, u)'
  <2>1. CASE \E x \in Updaters : PutApply(x)
    <3>1. PICK x \in Updaters : PutApply(x)
      BY <2>1
    <3> DEFINE s == ing.list
               t == Upsert(s, want[x])
    <3>2. s \in Seq(Flags) /\ want[x] \in Flags /\ ing'.list = t
      BY <3>1, ApplyIsUpsert
    <3>3. /\ \A i \in DOMAIN s :
               /\ i \in DOMAIN t
               /\ t[i] = IF s[i].host = want[x].host THEN want[x] ELSE s[i]
          /\ \E i \in DOMAIN t : t[i] = want[x]
      BY <3>2, UpsertEntries
    <3>4. put'[x] = "applied" /\ \A v \in Updaters : v # x => put'[v] = put[v]
      BY <3>1 DEF PutApply, TypeOK
    <3> HIDE DEF s, t
    <3>5. CASE u = x
      <4>1. PICK i \in DOMAIN t : t[i] = want[x]
        BY <3>3
      <4> QED BY <1>1, <3>2, <3>4, <3>5, <4>1 DEF Recorded
    <3>6. CASE u # x
      <4>1. put[u] = "applied"
        BY <1>3, <3>4, <3>6
      <4>2. PICK i \in DOMAIN s : /\ s[i].host = want[u].host
                                  /\ \E v \in Updaters : put[v] = "applied" /\ want[v] = s[i]
        BY <1>2, <4>1 DEF AllRecorded, Recorded, s
      <4>3. i \in DOMAIN t /\ t[i].host = want[u].host
        BY <3>3, <4>2
      <4>4. \E v \in Updaters : put'[v] = "applied" /\ want[v] = t[i]
        BY <1>1, <3>3, <3>4, <4>2
      <4> QED BY <1>1, <3>2, <4>3, <4>4 DEF Recorded
    <3> QED BY <3>5, <3>6
  <2>2. CASE ing' = ing /\ ~ \E x \in Updaters : PutApply(x)
    <3>1. put[u] = "applied"
      <4>1. ASSUME NEW x \in Updaters,
                   Run(x) \/ PutConflict(x) \/ PutFail(x) \/ ConnectionLost(x)
            PROVE  put[u] = "applied"
        BY <1>3, <4>1 DEF Run, ParseFlags, UpdateSend, UpdateReadErr, UpdatePanic,
             UpdateReturn, GetShow, GetErr, PutConflict, PutFail, ConnectionLost, TypeOK
      <4>2. CASE Quiet \/ UNCHANGED vars
        BY <1>3, <4>2 DEF Quiet, vars
      <4> QED BY <1>2, <2>2, <4>1, <4>2, EditsType DEF Next, Serve
    <3>2. Recorded(ing.list, u)
      BY <1>2, <3>1 DEF AllRecorded
    <3> QED BY <1>1, <2>2, <3>2 DEF Recorded
  <2> QED BY <1>2, <2>1, <2>2, Writers
<1>4. ASSUME pc'[u] = "done" PROVE Recorded(shown[u], u)'
  <2>1. CASE GetShow(u)
    <3>1. put[u] = "applied" /\ shown'[u] = ing.list
      BY <2>1 DEF GetShow, Goto, Protocol, TypeOK
    <3>2. Recorded(ing.list, u)
      BY <1>2, <3>1 DEF AllRecorded
    <3> QED BY <1>1, <3>1, <3>2 DEF Recorded
  <2>2. CASE ~GetShow(u)
    <3>1. pc[u] = "done" /\ shown'[u] = shown[u]
      <4>1. ASSUME NEW x \in Updaters, Run(x) PROVE pc[u] = "done" /\ shown'[u] = shown[u]
        BY <1>4, <2>2, <4>1 DEF Run, ParseFlags, UpdateSend, UpdateReadErr, UpdatePanic,
             UpdateReturn, GetShow, GetErr, Goto, TypeOK
      <4>2. ASSUME NEW x \in Updaters, Serve(x) \/ PutFail(x) \/ ConnectionLost(x)
            PROVE  pc[u] = "done" /\ shown'[u] = shown[u]
        BY <1>4, <4>2 DEF Serve, PutApply, PutConflict, PutFail, ConnectionLost, Goto, TypeOK
      <4>3. CASE Quiet \/ UNCHANGED vars
        BY <1>4, <4>3 DEF Quiet, vars
      <4> QED BY <1>2, <4>1, <4>2, <4>3, EditsType DEF Next
    <3>2. Recorded(shown[u], u)
      BY <1>2, <3>1 DEF AllRecorded
    <3> QED BY <1>1, <3>1, <3>2 DEF Recorded
  <2> QED BY <2>1, <2>2
<1> QED BY <1>3, <1>4

\* What main prints after Update confirms that the host is recorded.
THEOREM UpdatesAreRead == Spec => []ReadYourUpdate
<1>1. Init => AllRecorded
  BY DEF Init, AllRecorded
<1>2. AllRecorded => ReadYourUpdate
  BY DEF AllRecorded, Recorded, ReadYourUpdate
<1> QED BY <1>1, <1>2, TypeCorrect, CopiesAreCurrent, ProtocolHolds, NextRecorded, PTL
        DEF Spec
-----------------------------------------------------------------------------
(* Update implements the registry *)

\* The stored list holds complete receivers only.
Complete == ing.list \in Seq(Receiver)

\* Only complete receivers are ever stored: main checks its flags first.
LEMMA CompleteHolds == Spec => []Complete
<1>1. EditLists \cup {<<>>} \subseteq Seq(Receiver)
  <2>1. <<>> \in Seq(Receiver)
    OBVIOUS
  <2> QED BY <2>1, ReceiversAssumption, Zenon
<1>2. Init => Complete
  BY <1>1 DEF Init, Complete
<1>3. TypeOK /\ CopyIsCurrent /\ Protocol /\ Complete /\ [Next]_vars => Complete'
  <2> SUFFICES ASSUME TypeOK, CopyIsCurrent, Protocol, Complete, [Next]_vars
               PROVE  Complete'
    OBVIOUS
  <2>1. ASSUME NEW u \in Updaters, PutApply(u) PROVE Complete'
    <3>1. want[u] \in Receiver
      BY <2>1 DEF PutApply, Protocol, TypeOK, Flags, Receiver
    <3> QED BY <2>1, <3>1, ApplyIsUpsert, UpsertType DEF Complete
  <2>2. ASSUME NEW u \in Updaters, Run(u) \/ PutConflict(u) \/ PutFail(u) \/ ConnectionLost(u)
        PROVE  Complete'
    BY <2>2 DEF Complete, Run, ParseFlags, UpdateSend, UpdateReadErr, UpdatePanic,
         UpdateReturn, GetShow, GetErr, PutConflict, PutFail, ConnectionLost
  <2>3. CASE EditRest
    BY <2>3 DEF EditRest, Store, Complete, TypeOK, Ingress
  <2>4. CASE EditAnnotation
    BY <2>4, <1>1 DEF EditAnnotation, Store, Complete, TypeOK, Ingress
  <2>5. CASE Delete
    BY <2>5, <1>1 DEF Delete, Store, Complete, TypeOK, Ingress
  <2>6. CASE Create
    BY <2>6 DEF Create, Store, Complete, TypeOK, Ingress
  <2>7. CASE Quiet \/ UNCHANGED vars
    BY <2>7 DEF Quiet, vars, Complete
  <2> QED BY <2>1, <2>2, <2>3, <2>4, <2>5, <2>6, <2>7 DEF Next, Serve
<1> QED BY <1>2, <1>3, TypeCorrect, CopiesAreCurrent, ProtocolHolds, PTL DEF Spec

\* The bindings a complete list records are complete.
LEMMA BoundType ==
  ASSUME Complete, NEW h \in Hosts
  PROVE  Bound(h) \in SUBSET Bindings
<1>1. \A i \in DOMAIN ing.list : ing.list[i] \in Receiver
  BY ElementOfSeq DEF Complete
<1> QED BY <1>1 DEF Bound, Receiver

\* Applying a PUT binds the host of its receiver and no other.
LEMMA ApplyBinds ==
  ASSUME TypeOK, CopyIsCurrent, NEW u \in Updaters, PutApply(u), NEW h \in Hosts
  PROVE  Bound(h)' = IF h = want[u].host THEN {want[u].bind} ELSE Bound(h)
<1> DEFINE s == ing.list
           t == Upsert(s, want[u])
<1>1. s \in Seq(Flags) /\ want[u] \in Flags /\ ing'.list = t
  BY ApplyIsUpsert
<1>2. /\ \A i \in DOMAIN s :
           /\ i \in DOMAIN t
           /\ t[i] = IF s[i].host = want[u].host THEN want[u] ELSE s[i]
      /\ \A i \in DOMAIN t \ DOMAIN s :
           /\ i = Len(s) + 1
           /\ t[i] = want[u]
           /\ \A j \in DOMAIN s : s[j].host # want[u].host
      /\ \E i \in DOMAIN t : t[i] = want[u]
  BY <1>1, UpsertEntries
<1>3. Bound(h)' = {t[i].bind : i \in {j \in DOMAIN t : t[j].host = h}}
  BY <1>1 DEF Bound
<1>4. Bound(h) = {s[i].bind : i \in {j \in DOMAIN s : s[j].host = h}}
  BY DEF Bound
<1> HIDE DEF s, t
<1>5. CASE h = want[u].host
  <2>1. \A j \in DOMAIN t : t[j].host = h => t[j] = want[u]
    BY <1>2, <1>5
  <2> QED BY <1>2, <1>3, <1>5, <2>1
<1>6. CASE h # want[u].host
  <2>1. \A j \in DOMAIN t : t[j].host = h => j \in DOMAIN s /\ s[j].host = h /\ t[j] = s[j]
    BY <1>2, <1>6
  <2>2. \A j \in DOMAIN s : s[j].host = h => j \in DOMAIN t /\ t[j].host = h /\ t[j] = s[j]
    BY <1>2, <1>6
  <2> QED BY <1>3, <1>4, <1>6, <2>1, <2>2
<1> QED BY <1>5, <1>6

\* The initial states of Receivers are initial states of Registry.
LEMMA InitRefines == Init => R!Init
<1> SUFFICES ASSUME Init PROVE R!Init
  OBVIOUS
<1>1. Complete
  <2>1. <<>> \in Seq(Receiver)
    OBVIOUS
  <2> QED BY <2>1, ReceiversAssumption DEF Init, Complete
<1>2. [h \in Hosts |-> Bound(h)] \in [Hosts -> SUBSET Bindings]
  BY <1>1, BoundType
<1>3. [u \in Updaters |-> put[u] = "applied"] = [u \in Updaters |-> FALSE]
  BY DEF Init
<1>4. [u \in Updaters |-> Outcome(u)] = [u \in Updaters |-> "running"]
  BY DEF Init, Outcome
<1>5. ing.rest \in Rests
  BY DEF Init
<1> QED BY <1>2, <1>3, <1>4, <1>5 DEF Init, R!Init, Flags

\* Steps that leave the Ingress alone leave the abstract registry alone.
LEMMA SameRegistry ==
  ASSUME ing' = ing
  PROVE  UNCHANGED <<[h \in Hosts |-> Bound(h)], ing.rest>>
BY DEF Bound

\* Steps that move neither a run nor its PUT leave what was promised alone.
LEMMA SamePromises ==
  ASSUME pc' = pc, put' = put
  PROVE  UNCHANGED <<[u \in Updaters |-> put[u] = "applied"], [u \in Updaters |-> Outcome(u)]>>
BY DEF Outcome

\* Every step is a step of Registry or leaves its variables unchanged.
LEMMA NextRefines ==
  /\ TypeOK /\ CopyIsCurrent /\ Protocol /\ Complete /\ Complete' /\ TypeOK'
  /\ [Next]_vars
  => [R!Next]_R!vars
<1> SUFFICES ASSUME TypeOK, CopyIsCurrent, Protocol, Complete, Complete', TypeOK',
                    [Next]_vars
             PROVE  [R!Next]_R!vars
  OBVIOUS
<1> DEFINE reg == [h \in Hosts |-> Bound(h)]
           applied == [u \in Updaters |-> put[u] = "applied"]
           outcome == [u \in Updaters |-> Outcome(u)]
\* A run that goes on without Update returning, or after it has, is invisible.
<1>1. ASSUME NEW u \in Updaters, UNCHANGED <<want, ing, edits>>,
             \A v \in Updaters : (put[v] = "applied") <=> (put'[v] = "applied"),
             \A v \in Updaters : Outcome(v)' = Outcome(v)
      PROVE  UNCHANGED R!vars
  <2>1. UNCHANGED <<reg, ing.rest>>
    BY <1>1, SameRegistry
  <2>2. UNCHANGED applied
    BY <1>1, Zenon
  <2>3. UNCHANGED outcome
    BY <1>1, Zenon
  <2> QED BY <1>1, <2>1, <2>2, <2>3 DEF R!vars
\* A run whose Update returns an error fails.
<1>2. ASSUME NEW u \in Updaters, NEW to \in {"badFlags", "updateErr", "panic"},
             NEW from \in {"start", "update", "put"}, Goto(u, from, to),
             UNCHANGED <<want, ing, edits, put>>
      PROVE  R!Fail(u)
  <2>1. UNCHANGED <<reg, ing.rest>>
    BY <1>2, SameRegistry
  <2>2. UNCHANGED applied
    BY <1>2
  <2>3. /\ Outcome(u) = "running" /\ Outcome(u)' = "err"
        /\ \A v \in Updaters : v # u => Outcome(v)' = Outcome(v)
    BY <1>2 DEF Goto, Outcome, TypeOK
  <2>4. outcome' = [outcome EXCEPT ![u] = "err"]
    BY <2>3
  <2> QED BY <1>2, <2>1, <2>2, <2>3, <2>4 DEF R!Fail
<1>3. ASSUME NEW u \in Updaters, Run(u) PROVE [R!Next]_R!vars
  <2>1. CASE ParseFlags(u)
    <3>1. CASE want[u].bind = Unset
      BY <1>2, <2>1, <3>1 DEF ParseFlags, R!Next
    <3>2. CASE want[u].bind # Unset
      <4>1. \A v \in Updaters : Outcome(v)' = Outcome(v)
        BY <2>1, <3>2 DEF ParseFlags, Goto, Outcome, TypeOK
      <4> QED BY <1>1, <2>1, <4>1 DEF ParseFlags
    <3> QED BY <3>1, <3>2
  <2>2. CASE UpdateSend(u)
    <3>1. \A v \in Updaters : Outcome(v)' = Outcome(v)
      BY <2>2 DEF UpdateSend, Goto, Outcome, TypeOK
    <3>2. \A v \in Updaters : (put[v] = "applied") <=> (put'[v] = "applied")
      BY <2>2 DEF UpdateSend, Goto, Protocol, TypeOK
    <3> QED BY <1>1, <2>2, <3>1, <3>2 DEF UpdateSend
  <2>3. CASE UpdateReadErr(u)
    BY <1>2, <2>3 DEF UpdateReadErr, R!Next
  <2>4. CASE UpdatePanic(u)
    BY <1>2, <2>4 DEF UpdatePanic, R!Next
  <2>5. CASE UpdateReturn(u)
    <3>1. CASE put[u] # "applied"
      BY <1>2, <2>5, <3>1 DEF UpdateReturn, R!Next
    <3>2. CASE put[u] = "applied"
      <4>1. UNCHANGED <<reg, ing.rest>>
        BY <2>5, SameRegistry DEF UpdateReturn
      <4>2. UNCHANGED applied
        BY <2>5 DEF UpdateReturn
      <4>3. /\ Outcome(u) = "running" /\ Outcome(u)' = "ok"
            /\ \A v \in Updaters : v # u => Outcome(v)' = Outcome(v)
        BY <2>5, <3>2 DEF UpdateReturn, Goto, Outcome, TypeOK
      <4>4. outcome' = [outcome EXCEPT ![u] = "ok"]
        BY <4>3
      <4>5. R!Succeed(u)
        BY <2>5, <3>2, <4>1, <4>2, <4>3, <4>4 DEF R!Succeed, UpdateReturn
      <4> QED BY <4>5 DEF R!Next
    <3> QED BY <3>1, <3>2
  <2>6. CASE GetShow(u) \/ GetErr(u)
    <3>1. \A v \in Updaters : Outcome(v)' = Outcome(v)
      BY <2>6 DEF GetShow, GetErr, Goto, Outcome, TypeOK
    <3> QED BY <1>1, <2>6, <3>1 DEF GetShow, GetErr
  <2> QED BY <1>3, <2>1, <2>2, <2>3, <2>4, <2>5, <2>6 DEF Run
<1>4. ASSUME NEW u \in Updaters, PutApply(u) PROVE R!Apply(u)
  <2>1. \A h \in Hosts : Bound(h)' = IF h = want[u].host THEN {want[u].bind} ELSE Bound(h)
    BY <1>4, ApplyBinds
  <2>2. want[u].host \in Hosts
    BY DEF TypeOK, Flags
  <2>3. reg' = [reg EXCEPT ![want[u].host] = {want[u].bind}]
    BY <2>1, <2>2
  <2>4. want[u].bind # Unset /\ outcome[u] # "ok" /\ ~applied[u]
    BY <1>4 DEF PutApply, Protocol, Outcome
  <2>5. applied' = [applied EXCEPT ![u] = TRUE]
    BY <1>4 DEF PutApply, TypeOK
  <2>6. UNCHANGED outcome
    BY <1>4 DEF PutApply, Outcome
  <2>7. UNCHANGED ing.rest
    BY <1>4, ApplyIsUpsert
  <2> QED BY <1>4, <2>3, <2>4, <2>5, <2>6, <2>7 DEF PutApply, R!Apply
<1>5. ASSUME NEW u \in Updaters, PutConflict(u) \/ PutFail(u) PROVE UNCHANGED R!vars
  <2>1. \A v \in Updaters : Outcome(v)' = Outcome(v)
    BY <1>5 DEF PutConflict, PutFail, Outcome
  <2>2. \A v \in Updaters : (put[v] = "applied") <=> (put'[v] = "applied")
    BY <1>5 DEF PutConflict, PutFail, TypeOK
  <2> QED BY <1>1, <1>5, <2>1, <2>2 DEF PutConflict, PutFail
<1>6. ASSUME NEW u \in Updaters, ConnectionLost(u) PROVE [R!Next]_R!vars
  <2>1. CASE Goto(u, "update", "updateErr") \/ Goto(u, "put", "updateErr")
    BY <1>2, <1>6, <2>1 DEF ConnectionLost, R!Next
  <2>2. CASE Goto(u, "get", "getErr")
    <3>1. \A v \in Updaters : Outcome(v)' = Outcome(v)
      BY <2>2 DEF Goto, Outcome, TypeOK
    <3> QED BY <1>1, <1>6, <3>1 DEF ConnectionLost
  <2> QED BY <1>6, <2>1, <2>2 DEF ConnectionLost
<1>7. ASSUME NEW i \in Ingress, Store(i) PROVE R!Edit
  <2>1. reg' \in [Hosts -> SUBSET Bindings]
    <3>1. \A h \in Hosts : Bound(h)' \in SUBSET Bindings
      <4>1. \A j \in DOMAIN ing'.list : ing'.list[j] \in Receiver
        BY ElementOfSeq DEF Complete
      <4> QED BY <4>1 DEF Bound, Receiver
    <3> QED BY <3>1
  <2>2. ing'.rest \in Rests
    BY DEF TypeOK, Ingress
  <2>3. UNCHANGED <<applied, outcome>>
    BY <1>7, SamePromises DEF Store
  <2> QED BY <1>7, <2>1, <2>2, <2>3 DEF Store, R!Edit
<1>8. CASE EditRest \/ EditAnnotation \/ Delete \/ Create
  BY <1>7, <1>8, EditsType DEF R!Next
<1>9. CASE Quiet \/ UNCHANGED vars
  <2>1. UNCHANGED vars
    BY <1>9 DEF Quiet
  <2> QED BY <2>1, SameRegistry, SamePromises DEF vars, R!vars
<1> QED BY <1>3, <1>4, <1>5, <1>6, <1>8, <1>9 DEF Next, Serve, R!Next

\* However many runs are made and whatever other users and the network do,
\* every call of Update behaves as one atomic step on the registry, taken at
\* most once, and exactly once by a call that returns nil.
THEOREM UpdateIsAtomic == Spec => ImplementsRegistry
<1> QED BY InitRefines, NextRefines, TypeCorrect, CopiesAreCurrent, ProtocolHolds,
           CompleteHolds, PTL DEF Spec, ImplementsRegistry, R!Spec
=============================================================================
