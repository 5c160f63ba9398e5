---------------------------- MODULE RollingUpdate ----------------------------
(***************************************************************************)
(* kubectl rolling-update (RollingUpdater.Update): the pods of an old      *)
(* replication controller are replaced by those of a new one, a few at a   *)
(* time, by scaling the one up and the other down in turn.  Whatever a     *)
(* later run needs is in annotations of the two controllers, so that an    *)
(* update that was interrupted can be run again.                           *)
(*                                                                         *)
(* External: the replication manager, which makes and deletes pods one at  *)
(* a time, and the kubelet, which makes them ready and, when they are      *)
(* deleted, ends them some time later: until then they are terminating and *)
(* still say that they are ready.  A pod may also fail by itself: it is    *)
(* ready no longer, or goes and is replaced.  scaleAndWait returns when    *)
(* the controller has the pods it asks for.                                *)
(***************************************************************************)
EXTENDS Integers

CONSTANTS Originals,  \* sizes of the old controller
          Desireds,   \* sizes the file of the new controller may ask for
          Limits,     \* maxSurge and maxUnavailable: numbers or percentages
          Policies,   \* of cleanup, "Delete" or "Preserve"
          MaxFaults,  \* runs of the command that are interrupted
          MaxFails    \* pods that fail

ASSUME RollingAssumption ==
  /\ Originals \subseteq Nat /\ Desireds \subseteq Nat /\ {MaxFaults, MaxFails} \subseteq Nat
  /\ Limits \subseteq [percent: BOOLEAN, v: Int]
  /\ Policies \subseteq {"Delete", "Preserve"}

None == -1
Min2(a, b) == IF a < b THEN a ELSE b
Max2(a, b) == IF a < b THEN b ELSE a

VARIABLES rc,      \* the two controllers and their pods
          notes,   \* the annotations
          up,      \* the run of Update
          config,  \* what it was called with
          faults,
          stale    \* history: the pods that failed so far; those that were counted
                   \* as ready but cannot be relied on; the latter, for the last
                   \* scaleDown that wrote
vars == <<rc, notes, up, config, faults, stale>>

Rcs == {"old", "new"}
Active(o) == rc[o].unready + rc[o].ready
Surplus(o) == Max2(0, Active(o) - rc[o].replicas)  \* still to be deleted
Listed(o) == rc[o].ready + rc[o].ending
Available == rc["old"].ready + rc["new"].ready

Controller(exists, n) ==
  [exists |-> exists, replicas |-> n, unready |-> 0, ready |-> n, ending |-> 0]

Init ==
  /\ \E n \in Originals :
       rc = [o \in Rcs |-> IF o = "old" THEN Controller(TRUE, n) ELSE Controller(FALSE, 0)]
  /\ notes = [original |-> None, source |-> FALSE, desired |-> None]
  /\ up = [pc |-> "start", old |-> 0, new |-> 0, oldReady |-> 0, newReady |-> 0]
  /\ config \in [desired: Desireds, surge: Limits, unavailable: Limits, policy: Policies]
  /\ faults = 0
  /\ stale = [failed |-> 0, counted |-> 0, owed |-> 0]
-----------------------------------------------------------------------------
(* Update *)

At(pc) == up.pc = pc
Goto(pc) == up' = [up EXCEPT !.pc = pc]

\* extractMaxValue: a percentage is of the desired pods, rounded up.
ExtractMaxValue(limit) ==
  IF limit.percent THEN (notes.desired * limit.v + 99) \div 100 ELSE limit.v

MaxSurge == ExtractMaxValue(config.surge)
MaxUnavailable == ExtractMaxValue(config.unavailable)
MinAvailable == notes.original - MaxUnavailable

\* getOrCreateTargetController, after the command has read the old controller.
GetOrCreate ==
  /\ At("start")
  /\ \/ /\ ~rc["old"].exists \/ (~rc["new"].exists /\ config.desired <= 0)
        /\ Goto("refused") /\ UNCHANGED <<rc, notes>>
     \/ /\ rc["old"].exists /\ ~rc["new"].exists /\ config.desired > 0
        /\ up' = [up EXCEPT !.pc = "original", !.new = 0]
        /\ notes' = [notes EXCEPT !.source = TRUE, !.desired = config.desired]
        /\ rc' = [rc EXCEPT !["new"].exists = TRUE]
     \/ /\ rc["old"].exists /\ rc["new"].exists
        /\ up' = [up EXCEPT !.pc = IF notes.source /\ notes.desired # None
                                   THEN "original" ELSE "refused",
                            !.new = rc["new"].replicas]
        /\ UNCHANGED <<rc, notes>>
  /\ UNCHANGED <<config, faults, stale>>

\* The size of the old controller is written down once, before it is scaled.
Original ==
  /\ At("original")
  /\ notes' = [notes EXCEPT !.original = IF @ = None THEN rc["old"].replicas ELSE @]
  /\ up' = [up EXCEPT !.pc = IF config.unavailable.v < 0 \/ config.surge.v < 0
                                \/ (MaxUnavailable = 0 /\ MaxSurge = 0)
                             THEN "refused" ELSE "loop",
                      !.old = rc["old"].replicas]
  /\ UNCHANGED <<rc, config, faults, stale>>

\* The size scaleUp gives the new controller.
Up == IF up.old = 0 THEN notes.desired
      ELSE Min2(notes.desired, up.new + Max2(0, notes.original + MaxSurge - (up.old + up.new)))

\* Mutant of ScaleUp: the new controller alone is held against the limit.
ScaleUpAlone ==
  LET n == Min2(notes.desired, notes.original + MaxSurge) IN
  /\ At("loop") /\ ~(up.new = notes.desired /\ up.old = 0)
  /\ up' = [up EXCEPT !.pc = IF n = up.new THEN "sleep" ELSE "upwait", !.new = n]
  /\ rc' = [rc EXCEPT !["new"].replicas = n]
  /\ UNCHANGED <<notes, config, faults, stale>>

\* The head of the loop and scaleUp; without an increment nothing is written.
ScaleUp ==
  /\ At("loop") /\ ~(up.new = notes.desired /\ up.old = 0)
  /\ up' = [up EXCEPT !.pc = IF Up = up.new THEN "sleep" ELSE "upwait", !.new = Up]
  /\ rc' = [rc EXCEPT !["new"].replicas = IF Up = up.new THEN @ ELSE Up]
  /\ UNCHANGED <<notes, config, faults, stale>>

\* scaleAndWait: the controller has its pods.
Scaled(o, from, to) ==
  /\ At(from) /\ Active(o) = rc[o].replicas
  /\ Goto(to)
  /\ UNCHANGED <<rc, notes, config, faults, stale>>

UpWait == Scaled("new", "upwait", "sleep")
DownWait == Scaled("old", "downwait", "loop")

\* time.Sleep(config.UpdatePeriod)
Sleep ==
  /\ At("sleep")
  /\ Goto(IF up.old = 0 THEN "loop" ELSE "listold")
  /\ UNCHANGED <<rc, notes, config, faults, stale>>

\* pollForReadyPods lists the pods of the one controller, then of the other,
\* again and again until any is ready.  It counts pods that are terminating, and
\* those a scaleDown has given up that are not deleted yet.
ListOld ==
  /\ At("listold")
  /\ up' = [up EXCEPT !.pc = "listnew", !.oldReady = Listed("old")]
  /\ stale' = [stale EXCEPT !.counted = rc["old"].ending + Surplus("old")]
  /\ UNCHANGED <<rc, notes, config, faults>>

ListNew ==
  /\ At("listnew")
  /\ up' = [up EXCEPT !.pc = IF up.oldReady + Listed("new") = 0 THEN "listold" ELSE "down",
                      !.newReady = Listed("new")]
  /\ stale' = [stale EXCEPT !.counted = @ + rc["new"].ending]
  /\ UNCHANGED <<rc, notes, config, faults>>

\* Mutant of Down: the new controller's size is taken for its ready pods.
DownEager ==
  Max2(0, up.old - Max2(0, up.oldReady + up.new - MinAvailable))

\* Mutant of Down: the old pods are not counted.
DownNewOnly ==
  Max2(0, up.old - Max2(0, up.newReady - MinAvailable))

\* The size scaleDown gives the old controller.
Down ==
  LET decrement == up.oldReady + up.newReady - MinAvailable IN
  IF decrement <= 0 THEN up.old
  ELSE IF up.new = notes.desired /\ up.newReady = notes.desired THEN 0
  ELSE Max2(0, up.old - decrement)

\* scaleDown; without a decrement nothing is written.
ScaleDown ==
  /\ At("down")
  /\ up' = [up EXCEPT !.pc = IF Down = up.old THEN "loop" ELSE "downwait", !.old = Down]
  /\ rc' = [rc EXCEPT !["old"].replicas = IF Down = up.old THEN @ ELSE Down]
  /\ stale' = [stale EXCEPT !.owed = IF Down = up.old THEN @ ELSE stale.counted]
  /\ UNCHANGED <<notes, config, faults>>

\* cleanup: the annotations of the new controller go first.
CleanNotes ==
  /\ At("loop") /\ up.new = notes.desired /\ up.old = 0
  /\ notes' = [notes EXCEPT !.source = FALSE, !.desired = None]
  /\ Goto("cleanwait")
  /\ UNCHANGED <<rc, config, faults, stale>>

CleanWait == Scaled("new", "cleanwait", "delete")

Delete ==
  /\ At("delete")
  /\ rc' = [rc EXCEPT !["old"].exists = config.policy = "Preserve"]
  /\ Goto("done")
  /\ UNCHANGED <<notes, config, faults, stale>>

Update ==
  \/ GetOrCreate \/ Original \/ ScaleUp \/ UpWait \/ Sleep \/ ListOld \/ ListNew
  \/ ScaleDown \/ DownWait \/ CleanNotes \/ CleanWait \/ Delete

\* The command is interrupted, or a request fails or takes too long: any step
\* may return an error.
Interrupt ==
  /\ up.pc \notin {"start", "done", "refused", "ended"} /\ faults < MaxFaults
  /\ Goto("ended") /\ faults' = faults + 1
  /\ UNCHANGED <<rc, notes, config, stale>>

\* The user runs the command again.
RunAgain ==
  /\ At("ended")
  /\ Goto("start")
  /\ UNCHANGED <<rc, notes, config, faults, stale>>
-----------------------------------------------------------------------------
(* The replication manager and the kubelet *)

MakePod(o) ==
  /\ rc[o].exists /\ Active(o) < rc[o].replicas
  /\ rc' = [rc EXCEPT ![o].unready = @ + 1]
  /\ UNCHANGED <<notes, up, config, faults, stale>>

PodReady(o) ==
  /\ rc[o].unready > 0
  /\ rc' = [rc EXCEPT ![o].unready = @ - 1, ![o].ready = @ + 1]
  /\ UNCHANGED <<notes, up, config, faults, stale>>

DeletePod(o) ==
  /\ rc[o].exists /\ Active(o) > rc[o].replicas
  /\ \/ rc[o].unready > 0 /\ rc' = [rc EXCEPT ![o].unready = @ - 1]
     \/ rc[o].ready > 0 /\ rc' = [rc EXCEPT ![o].ready = @ - 1, ![o].ending = @ + 1]
  /\ UNCHANGED <<notes, up, config, faults, stale>>

EndPod(o) ==
  /\ rc[o].ending > 0
  /\ rc' = [rc EXCEPT ![o].ending = @ - 1]
  /\ UNCHANGED <<notes, up, config, faults, stale>>

\* A ready pod fails its checks, or it goes with its node: the pod is deleted
\* and MakePod replaces it.
PodFails(o) ==
  /\ rc[o].ready > 0 /\ stale.failed < MaxFails
  /\ \/ rc' = [rc EXCEPT ![o].ready = @ - 1, ![o].unready = @ + 1]
     \/ rc' = [rc EXCEPT ![o].ready = @ - 1, ![o].ending = @ + 1]
  /\ stale' = [failed |-> stale.failed + 1, counted |-> stale.counted + 1,
               owed |-> stale.owed + 1]
  /\ UNCHANGED <<notes, up, config, faults>>

Cluster(o) == MakePod(o) \/ PodReady(o) \/ DeletePod(o) \/ EndPod(o) \/ PodFails(o)
Next == Update \/ Interrupt \/ RunAgain \/ \E o \in Rcs : Cluster(o)

\* The updater goes on, the user tries again, the cluster does its work.
Spec == /\ Init /\ [][Next]_vars /\ WF_vars(Update) /\ WF_vars(RunAgain)
        /\ \A o \in Rcs : WF_vars(MakePod(o)) /\ WF_vars(PodReady(o))
                          /\ WF_vars(DeletePod(o)) /\ WF_vars(EndPod(o))
-----------------------------------------------------------------------------
(* Properties *)

Pcs == {"start", "original", "loop", "upwait", "sleep", "listold", "listnew", "down",
        "downwait", "cleanwait", "delete", "done", "refused", "ended"}

TypeOK ==
  /\ rc \in [Rcs -> [exists: BOOLEAN, replicas: Nat, unready: Nat, ready: Nat, ending: Nat]]
  /\ notes \in [original: Nat \cup {None}, source: BOOLEAN, desired: Nat \cup {None}]
  /\ up \in [pc: Pcs, old: Nat, new: Nat, oldReady: Nat, newReady: Nat]
  /\ faults \in 0 .. MaxFaults
  /\ stale \in [failed: 0 .. MaxFails, counted: Nat, owed: Nat]

\* While the controllers are scaled in turn, together they never ask for more
\* than maxSurge pods over the original ones (or the desired ones, once the old
\* controller is at 0), however often the update is interrupted and run again;
\* and if it is not, there are never more pods than that, those that are
\* terminating left aside.  (The comment of RollingUpdaterConfig speaks of the
\* desired pods; Update and its tests hold the sum against the original ones.)
SurgeBounded ==
  notes.desired # None /\ notes.original # None =>
    LET most == Max2(notes.original + Max2(0, MaxSurge), notes.desired) IN
    /\ rc["old"].replicas + rc["new"].replicas <= most
    /\ faults = 0 => Active("old") + Active("new") <= most

\* MaxUnavailable: the pods scaleDown has given up are deleted only while enough
\* others are ready, old and new ones together, in all runs of the update and
\* whatever the cluster does between the two lists, the scaling and the deletions.
\* What may be missing is no more than the pods that failed since they were
\* counted, and those that were counted although they were going.
KeepsAvailable ==
  [][Available' < Available /\ stale'.failed = stale.failed /\ notes.desired # None
       => Available' + stale.owed >= Min2(MinAvailable, notes.desired)]_vars

\* The update is not refused from the beginning.
Valid ==
  /\ config.desired > 0 /\ config.surge.v >= 0 /\ config.unavailable.v >= 0
  /\ config.surge.v > 0 \/ config.unavailable.v > 0

\* However often the update is interrupted and whatever pods fail, runs of it
\* bring the controllers to the sizes that were asked for: scaling up and down in
\* turn, within the two limits, never comes to a stop.  The one exception: more
\* pods must stay available than are desired, and pods that were going were
\* counted.  Then the last old pod can be one that scaleDown may never give up,
\* since it looks whether any can be spared before it looks whether all the new
\* ones are ready.
Rolls ==
  Valid => <>(\/ rc["old"].replicas = 0 /\ rc["new"].replicas = config.desired
              \/ stale.owed > 0 /\ MinAvailable > notes.desired)
=============================================================================
