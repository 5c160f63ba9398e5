------------------------ MODULE RollingUpdate_proofs ------------------------
(***************************************************************************)
(* Proofs about RollingUpdate for all sizes of the two controllers, all    *)
(* limits, absolute or percentages, and any number of interrupted runs and *)
(* of pods that fail.                                                      *)
(***************************************************************************)
EXTENDS RollingUpdate, TLAPS

Config == [desired: Desireds, surge: Limits, unavailable: Limits, policy: Policies]

\* The steps of the loop of Update.
InLoop == {"loop", "upwait", "sleep", "listold", "listnew", "down", "downwait"}

\* What a run of Update knows of the controllers, and a later run of an earlier.
Known ==
  /\ ~rc["new"].exists => /\ rc["new"].replicas = 0 /\ notes.desired = None
                          /\ notes.original = None /\ up.pc \in {"start", "refused"}
  /\ notes.original = None => /\ rc["new"].replicas = 0
                              /\ Active("old") <= rc["old"].replicas
                              /\ up.pc \in {"start", "original", "refused", "ended"}
  /\ notes.desired # None => rc["new"].replicas <= notes.desired
  /\ up.pc = "original" => notes.desired # None /\ up.new = rc["new"].replicas
  /\ up.pc \in InLoop => /\ notes.desired # None /\ notes.original # None
                         /\ up.old = rc["old"].replicas /\ up.new = rc["new"].replicas

\* Only the old controller ever has pods to spare, and it only when scaleDown is
\* waiting for it, if no run was interrupted.
Pods ==
  /\ Active("new") <= rc["new"].replicas
  /\ faults = 0 /\ up.pc # "downwait" => Active("old") <= rc["old"].replicas

\* No more than this may be asked for.
Most == Max2(notes.original + Max2(0, MaxSurge), notes.desired)

Surge ==
  notes.desired # None /\ notes.original # None =>
    /\ rc["old"].replicas + rc["new"].replicas <= Most
    /\ faults = 0 => Active("old") + rc["new"].replicas <= Most

\* What pollForReadyPods has counted is still there when scaleDown uses it, but
\* for the pods that are stale, and the pods that are to be deleted were not
\* counted on.
Counted ==
  /\ up.pc \in {"listnew", "down"} =>
       up.oldReady + Surplus("old") <= rc["old"].ready + stale.counted
  /\ up.pc = "down" =>
       /\ up.oldReady + up.newReady + Surplus("old") <= Available + stale.counted
       /\ up.newReady <= rc["new"].ready + stale.counted

\* The pods that are still to be deleted can be spared, but for those owed,
\* whoever waits for it.
Spared ==
  notes.desired # None /\ Surplus("old") > 0 =>
    /\ notes.original # None
    /\ \/ Available - Surplus("old") + stale.owed >= MinAvailable
       \/ rc["new"].ready + stale.owed >= notes.desired

Inv == TypeOK /\ config \in Config /\ Known /\ Pods /\ Surge /\ Counted /\ Spared
-----------------------------------------------------------------------------
RcType == [exists: BOOLEAN, replicas: Nat, unready: Nat, ready: Nat, ending: Nat]
StaleType == [failed: 0 .. MaxFails, counted: Nat, owed: Nat]

\* What the types say of single controllers and limits.
LEMMA Types ==
  ASSUME TypeOK, config \in Config
  PROVE  /\ \A p \in Rcs : /\ rc[p].replicas \in Nat /\ rc[p].unready \in Nat
                           /\ rc[p].ready \in Nat /\ rc[p].ending \in Nat
         /\ notes.original \in Nat \cup {None} /\ notes.desired \in Nat \cup {None}
         /\ up.old \in Nat /\ up.new \in Nat /\ up.oldReady \in Nat /\ up.newReady \in Nat
         /\ MaxSurge \in Int /\ MaxUnavailable \in Int
         /\ stale.counted \in Nat /\ stale.owed \in Nat
<1>1. config.surge \in [percent: BOOLEAN, v: Int] /\ config.unavailable \in [percent: BOOLEAN, v: Int]
  BY RollingAssumption DEF Config
<1>2. notes.desired \in Int /\ config.surge.v \in Int /\ config.unavailable.v \in Int
  BY <1>1 DEF TypeOK, None
<1>3. ASSUME NEW v \in Int PROVE (notes.desired * v + 99) \div 100 \in Int
  <2>1. notes.desired * v \in Int
    BY <1>2
  <2> QED BY <2>1
<1>4. MaxSurge \in Int /\ MaxUnavailable \in Int
  BY <1>2, <1>3 DEF MaxSurge, MaxUnavailable, ExtractMaxValue
<1> QED BY <1>4 DEF TypeOK

\* What the replication manager and the kubelet do to the pods of a controller.
LEMMA ClusterStep ==
  ASSUME TypeOK, NEW o \in Rcs, Cluster(o)
  PROVE  /\ rc' \in [Rcs -> RcType] /\ UNCHANGED <<notes, up, config, faults>>
         /\ stale' \in StaleType
         /\ \A p \in Rcs : rc'[p].replicas = rc[p].replicas /\ rc'[p].exists = rc[p].exists
         /\ \A p \in Rcs \ {o} : rc'[p] = rc[p]
         /\ LET active == rc[o].unready + rc[o].ready
                active2 == rc'[o].unready + rc'[o].ready
            IN \/ /\ active < rc[o].replicas /\ active2 = active + 1
                  /\ rc'[o].ready = rc[o].ready /\ stale' = stale
               \/ active2 = active /\ rc'[o].ready \in {rc[o].ready, rc[o].ready + 1} /\ stale' = stale
               \/ /\ active > rc[o].replicas /\ active2 = active - 1
                  /\ rc'[o].ready \in {rc[o].ready, rc[o].ready - 1} /\ stale' = stale
               \/ /\ active2 \in {active, active - 1} /\ rc'[o].ready = rc[o].ready - 1
                  /\ stale'.failed = stale.failed + 1
                  /\ stale'.counted = stale.counted + 1 /\ stale'.owed = stale.owed + 1
<1>1. rc \in [Rcs -> RcType] /\ rc[o] \in RcType /\ stale \in StaleType
  BY DEF TypeOK, RcType, StaleType
<1> DEFINE Now(x) == rc' = [rc EXCEPT ![o] = x]
<1>2. ASSUME NEW x \in RcType, Now(x)
      PROVE  rc' \in [Rcs -> RcType] /\ rc'[o] = x /\ \A p \in Rcs \ {o} : rc'[p] = rc[p]
  BY <1>1, <1>2
<1>3. CASE MakePod(o)
  <2> DEFINE x == [rc[o] EXCEPT !.unready = @ + 1]
  <2>1. Now(x)
    BY <1>3 DEF MakePod
  <2>2. x \in RcType /\ x.unready = rc[o].unready + 1 /\ x.ready = rc[o].ready
        /\ x.ending = rc[o].ending /\ x.replicas = rc[o].replicas /\ x.exists = rc[o].exists
    BY <1>1 DEF RcType
  <2> HIDE DEF x
  <2> QED BY <1>1, <1>2, <1>3, <2>1, <2>2 DEF MakePod, Active, RcType
<1>4. CASE PodReady(o)
  <2> DEFINE x == [rc[o] EXCEPT !.unready = @ - 1, !.ready = @ + 1]
  <2>1. Now(x) /\ rc[o].unready > 0
    BY <1>4 DEF PodReady
  <2>2. x \in RcType /\ x.unready = rc[o].unready - 1 /\ x.ready = rc[o].ready + 1
        /\ x.ending = rc[o].ending /\ x.replicas = rc[o].replicas /\ x.exists = rc[o].exists
    <3>1. rc[o].unready - 1 \in Nat /\ rc[o].ready + 1 \in Nat
      BY <1>1, <2>1 DEF RcType
    <3> QED BY <1>1, <3>1, Zenon DEF RcType
  <2> HIDE DEF x
  <2> QED BY <1>1, <1>2, <1>4, <2>1, <2>2 DEF PodReady, RcType
\* Of a ready pod that is being deleted, whoever deletes it.
<1>5. ASSUME rc[o].ready > 0, rc' = [rc EXCEPT ![o].ready = @ - 1, ![o].ending = @ + 1]
      PROVE  /\ rc' \in [Rcs -> RcType] /\ \A p \in Rcs \ {o} : rc'[p] = rc[p]
             /\ rc'[o].unready = rc[o].unready /\ rc'[o].ready = rc[o].ready - 1
             /\ rc'[o].replicas = rc[o].replicas /\ rc'[o].exists = rc[o].exists
  <2> DEFINE x == [rc[o] EXCEPT !.ready = @ - 1, !.ending = @ + 1]
  <2>1. Now(x)
    BY <1>5
  <2>2. x \in RcType /\ x.unready = rc[o].unready /\ x.ready = rc[o].ready - 1
        /\ x.replicas = rc[o].replicas /\ x.exists = rc[o].exists
    <3>1. rc[o].ready - 1 \in Nat /\ rc[o].ending + 1 \in Nat
      BY <1>1, <1>5 DEF RcType
    <3> QED BY <1>1, <3>1, Zenon DEF RcType
  <2> HIDE DEF x
  <2> QED BY <1>2, <2>1, <2>2
<1>6. CASE DeletePod(o)
  <2>1. CASE rc[o].unready > 0 /\ rc' = [rc EXCEPT ![o].unready = @ - 1]
    <3> DEFINE x == [rc[o] EXCEPT !.unready = @ - 1]
    <3>1. Now(x) /\ rc[o].unready > 0
      BY <2>1
    <3>2. x \in RcType /\ x.unready = rc[o].unready - 1 /\ x.ready = rc[o].ready
          /\ x.ending = rc[o].ending /\ x.replicas = rc[o].replicas /\ x.exists = rc[o].exists
      BY <1>1, <3>1 DEF RcType
    <3> HIDE DEF x
    <3> QED BY <1>1, <1>2, <1>6, <3>1, <3>2 DEF DeletePod, Active, RcType
  <2>2. CASE rc[o].ready > 0 /\ rc' = [rc EXCEPT ![o].ready = @ - 1, ![o].ending = @ + 1]
    BY <1>1, <1>5, <1>6, <2>2 DEF DeletePod, Active, RcType
  <2> QED BY <1>6, <2>1, <2>2 DEF DeletePod
<1>7. CASE EndPod(o)
  <2> DEFINE x == [rc[o] EXCEPT !.ending = @ - 1]
  <2>1. Now(x) /\ rc[o].ending > 0
    BY <1>7 DEF EndPod
  <2>2. x \in RcType /\ x.unready = rc[o].unready /\ x.ready = rc[o].ready
        /\ x.replicas = rc[o].replicas /\ x.exists = rc[o].exists
    BY <1>1, <2>1 DEF RcType
  <2> HIDE DEF x
  <2> QED BY <1>1, <1>2, <1>7, <2>1, <2>2 DEF EndPod, RcType
<1>8. CASE PodFails(o)
  <2>1. /\ stale' \in StaleType /\ stale'.failed = stale.failed + 1
        /\ stale'.counted = stale.counted + 1 /\ stale'.owed = stale.owed + 1
    <3>1. stale.failed + 1 \in 0 .. MaxFails /\ stale.counted + 1 \in Nat /\ stale.owed + 1 \in Nat
      BY <1>1, <1>8, RollingAssumption DEF PodFails, StaleType
    <3> QED BY <1>8, <3>1 DEF PodFails, StaleType
  <2>2. CASE rc' = [rc EXCEPT ![o].ready = @ - 1, ![o].unready = @ + 1]
    <3> DEFINE x == [rc[o] EXCEPT !.ready = @ - 1, !.unready = @ + 1]
    <3>1. Now(x) /\ rc[o].ready > 0
      BY <1>8, <2>2 DEF PodFails
    <3>2. x \in RcType /\ x.unready = rc[o].unready + 1 /\ x.ready = rc[o].ready - 1
          /\ x.replicas = rc[o].replicas /\ x.exists = rc[o].exists
      <4>1. rc[o].unready + 1 \in Nat /\ rc[o].ready - 1 \in Nat
        BY <1>1, <3>1 DEF RcType
      <4> QED BY <1>1, <4>1, Zenon DEF RcType
    <3> HIDE DEF x
    <3> QED BY <1>1, <1>2, <1>8, <2>1, <3>1, <3>2 DEF PodFails, RcType
  <2>3. CASE rc' = [rc EXCEPT ![o].ready = @ - 1, ![o].ending = @ + 1]
    BY <1>1, <1>5, <1>8, <2>1, <2>3 DEF PodFails, RcType
  <2> QED BY <1>8, <2>2, <2>3 DEF PodFails
<1> QED BY <1>3, <1>4, <1>6, <1>7, <1>8 DEF Cluster

\* The pods that are to be deleted, in numbers.
LEMMA SurplusNumbers ==
  ASSUME NEW a \in Nat, NEW n \in Nat
  PROVE  /\ Max2(0, a - n) \in Nat /\ Max2(0, a - n) >= a - n
         /\ a <= n => Max2(0, a - n) = 0
         /\ a > n => Max2(0, a - n) = a - n
  BY DEF Max2

\* Pods that are still to be deleted, when one of the numbers changes.
LEMMA SurplusFacts ==
  ASSUME rc["old"].replicas \in Nat, rc["old"].unready \in Nat, rc["old"].ready \in Nat
  PROVE  /\ Surplus("old") \in Nat
         /\ Active("old") <= rc["old"].replicas => Surplus("old") = 0
         /\ Surplus("old") > 0 => Surplus("old") = Active("old") - rc["old"].replicas
         /\ Active("old") > rc["old"].replicas => Surplus("old") = Active("old") - rc["old"].replicas
<1>1. Active("old") \in Nat
  BY DEF Active
<1>2. /\ Max2(0, Active("old") - rc["old"].replicas) \in Nat
      /\ Active("old") <= rc["old"].replicas => Max2(0, Active("old") - rc["old"].replicas) = 0
      /\ Active("old") > rc["old"].replicas =>
           Max2(0, Active("old") - rc["old"].replicas) = Active("old") - rc["old"].replicas
  BY <1>1, SurplusNumbers
<1> QED BY <1>1, <1>2 DEF Surplus

\* The controllers and their pods as numbers: the invariant depends on no more.
LEMMA ClusterKeepsInv ==
  ASSUME Inv, NEW o \in Rcs, Cluster(o)
  PROVE  Inv'
<1> USE DEF Inv
<1>0. Rcs = {"old", "new"}
  BY DEF Rcs
<1>1. /\ rc["old"].replicas \in Nat /\ rc["old"].unready \in Nat /\ rc["old"].ready \in Nat
      /\ rc["new"].replicas \in Nat /\ rc["new"].unready \in Nat /\ rc["new"].ready \in Nat
      /\ stale.counted \in Nat /\ stale.owed \in Nat
  BY <1>0, Types
<1>2. UNCHANGED <<notes, up, config, faults>> /\ rc' \in [Rcs -> RcType] /\ stale' \in StaleType
  BY ClusterStep
<1>3. /\ rc'["old"].replicas = rc["old"].replicas /\ rc'["new"].replicas = rc["new"].replicas
      /\ rc'["old"].exists = rc["old"].exists /\ rc'["new"].exists = rc["new"].exists
  BY <1>0, ClusterStep
<1>4. /\ rc'["old"].unready \in Nat /\ rc'["old"].ready \in Nat
      /\ rc'["new"].unready \in Nat /\ rc'["new"].ready \in Nat
      /\ stale'.counted \in Nat /\ stale'.owed \in Nat
  BY <1>0, <1>2 DEF RcType, StaleType
<1>5. TypeOK'
  BY <1>2 DEF TypeOK, RcType, StaleType
<1>6. Most' = Most /\ MinAvailable' = MinAvailable
  BY <1>2 DEF Most, MinAvailable, MaxSurge, MaxUnavailable, ExtractMaxValue
\* The controllers get no more pods than they ask for, and lose ready ones that
\* are to be deleted, or that are counted as failed.
<1> DEFINE aO == rc["old"].unready + rc["old"].ready
           aO2 == rc'["old"].unready + rc'["old"].ready
           sO == Max2(0, aO - rc["old"].replicas)
           sO2 == Max2(0, aO2 - rc["old"].replicas)
           aN == rc["new"].unready + rc["new"].ready
           aN2 == rc'["new"].unready + rc'["new"].ready
<1>7. /\ aN2 <= rc["new"].replicas
      /\ aO2 <= aO \/ aO2 <= rc["old"].replicas
      /\ sO \in Nat /\ sO2 \in Nat /\ sO2 <= sO
      /\ rc'["new"].ready + stale'.counted >= rc["new"].ready + stale.counted
      /\ rc'["new"].ready + stale'.owed >= rc["new"].ready + stale.owed
      /\ rc'["old"].ready - sO2 + stale'.counted >= rc["old"].ready - sO + stale.counted
      /\ rc'["old"].ready + rc'["new"].ready - sO2 + stale'.counted
           >= rc["old"].ready + rc["new"].ready - sO + stale.counted
      /\ rc'["old"].ready + rc'["new"].ready - sO2 + stale'.owed
           >= rc["old"].ready + rc["new"].ready - sO + stale.owed
  <2>1. aN <= rc["new"].replicas
    BY DEF Pods, Active
  <2>2. aO \in Nat /\ aO2 \in Nat
    BY <1>1, <1>4
  <2>3. /\ sO \in Nat /\ sO >= aO - rc["old"].replicas
        /\ aO <= rc["old"].replicas => sO = 0
        /\ aO > rc["old"].replicas => sO = aO - rc["old"].replicas
        /\ sO2 \in Nat /\ sO2 >= aO2 - rc["old"].replicas
        /\ aO2 <= rc["old"].replicas => sO2 = 0
        /\ aO2 > rc["old"].replicas => sO2 = aO2 - rc["old"].replicas
    BY <1>1, <2>2, SurplusNumbers
  <2> HIDE DEF sO, sO2
  <2>4. CASE o = "new"
    <3>1. rc'["old"] = rc["old"]
      BY <1>0, <2>4, ClusterStep
    <3>2. /\ aN2 <= rc["new"].replicas
          /\ rc'["new"].ready + stale'.counted >= rc["new"].ready + stale.counted
          /\ rc'["new"].ready + stale'.owed >= rc["new"].ready + stale.owed
          /\ stale'.counted >= stale.counted
      BY <1>1, <1>4, <2>1, <2>4, ClusterStep
    <3>3. aO2 = aO /\ sO2 = sO
      BY <1>1, <2>2, <2>3, <3>1
    <3> QED BY <1>1, <1>4, <2>1, <2>3, <3>1, <3>2, <3>3
  <2>5. CASE o = "old"
    <3>1. rc'["new"] = rc["new"]
      BY <1>0, <2>5, ClusterStep
    <3> DEFINE n == rc["old"].replicas
               r1 == rc["old"].ready
               r2 == rc'["old"].ready
               c1 == stale.counted
               c2 == stale'.counted
               w1 == stale.owed
               w2 == stale'.owed
    <3>2. \/ aO < n /\ aO2 = aO + 1 /\ r2 = r1 /\ c2 = c1 /\ w2 = w1
          \/ aO2 = aO /\ r2 \in {r1, r1 + 1} /\ c2 = c1 /\ w2 = w1
          \/ aO > n /\ aO2 = aO - 1 /\ r2 \in {r1, r1 - 1} /\ c2 = c1 /\ w2 = w1
          \/ aO2 \in {aO, aO - 1} /\ r2 = r1 - 1 /\ c2 = c1 + 1 /\ w2 = w1 + 1
      BY <2>5, ClusterStep
    <3>3. n \in Nat /\ r1 \in Nat /\ r2 \in Nat /\ c1 \in Nat /\ c2 \in Nat /\ w1 \in Nat /\ w2 \in Nat
      BY <1>1, <1>4
    <3>4. /\ aO2 <= aO \/ aO2 <= n
          /\ sO2 <= sO /\ c2 >= c1 /\ w2 >= w1
          /\ r2 - sO2 + c2 >= r1 - sO + c1
          /\ r2 - sO2 + w2 >= r1 - sO + w1
      <4> HIDE DEF aO, aO2, n, r1, r2, c1, c2, w1, w2
      <4> QED BY <2>2, <2>3, <3>2, <3>3 DEF n
    <3> QED BY <1>1, <1>4, <2>1, <2>3, <3>1, <3>3, <3>4
  <2> QED BY <1>0, <2>4, <2>5
<1> HIDE DEF sO, sO2
<1>8. Known'
  BY <1>1, <1>2, <1>3, <1>4, <1>7 DEF Known, Active
<1>9. Pods'
  BY <1>1, <1>2, <1>3, <1>4, <1>7 DEF Pods, Active
<1>10. Surge'
  <2>1. notes.desired # None /\ notes.original # None => Most \in Int
    BY Types DEF Most, Max2, None
  <2> QED BY <1>1, <1>2, <1>3, <1>4, <1>6, <1>7, <2>1 DEF Surge, Active
<1>11. Surplus("old") = sO /\ Surplus("old")' = sO2
  BY <1>3 DEF Surplus, Active, sO, sO2
<1>12. Counted'
  <2>1. up.oldReady \in Nat /\ up.newReady \in Nat
    BY Types
  <2> QED BY <1>1, <1>2, <1>4, <1>7, <1>11, <2>1 DEF Counted, Available
<1>13. Spared'
  <2>1. notes.desired \in Nat \cup {None} /\ notes.original \in Nat \cup {None}
        /\ (notes.original # None => MinAvailable \in Int)
    BY Types DEF MinAvailable, None
  <2> QED BY <1>1, <1>2, <1>4, <1>6, <1>7, <1>11, <2>1 DEF Spared, Available
<1> QED BY <1>2, <1>5, <1>8, <1>9, <1>10, <1>12, <1>13 DEF Config
-----------------------------------------------------------------------------
UpType == [pc: Pcs, old: Nat, new: Nat, oldReady: Nat, newReady: Nat]

\* A step of Update, of the user or of chance that writes nothing to the
\* controllers: what it knows must be so.
LEMMA ReadKeepsInv ==
  ASSUME Inv, UNCHANGED <<rc, notes, config>>, up' \in UpType, faults' \in 0 .. MaxFaults,
         faults' = 0 => faults = 0, stale' \in StaleType, stale'.owed = stale.owed,
         up'.pc = "original" => notes.desired # None /\ up'.new = rc["new"].replicas,
         up'.pc \in InLoop => up.pc \in InLoop /\ up'.old = up.old /\ up'.new = up.new,
         up'.pc \in {"start", "original", "refused", "ended"} \/ notes.original # None,
         faults' = 0 /\ up.pc = "downwait" /\ up'.pc # "downwait" => Active("old") <= rc["old"].replicas,
         up.pc \in {"start", "refused"} => up'.pc \in {"start", "refused", "original"},
         Counted'
  PROVE  Inv'
<1> USE DEF Inv
<1>1. /\ rc["old"].replicas \in Nat /\ rc["old"].unready \in Nat /\ rc["old"].ready \in Nat
      /\ rc["new"].replicas \in Nat /\ rc["new"].unready \in Nat /\ rc["new"].ready \in Nat
  BY Types DEF Rcs
<1>2. TypeOK'
  BY DEF TypeOK, UpType, StaleType
<1>3. Most' = Most /\ MinAvailable' = MinAvailable
  BY DEF Most, MinAvailable, MaxSurge, MaxUnavailable, ExtractMaxValue
<1>4. Known'
  <2>1. ~rc["new"].exists => up'.pc \in {"start", "refused"}
    BY DEF Known
  <2> QED BY <2>1 DEF Known, Active
<1>5. Pods'
  BY DEF Pods, Active
<1>6. Surge'
  BY <1>3 DEF Surge, Active
<1>7. Spared'
  BY <1>3 DEF Spared, Surplus, Active, Available
<1> QED BY <1>2, <1>4, <1>5, <1>6, <1>7

\* The steps of Update that read, wait or sleep, the end of a run and the next.
LEMMA QuietKeepsInv ==
  ASSUME Inv, UpWait \/ DownWait \/ Sleep \/ ListOld \/ ListNew \/ CleanWait \/ Interrupt \/ RunAgain
  PROVE  Inv'
<1> USE DEF Inv
<1>1. /\ up \in UpType /\ faults \in 0 .. MaxFaults /\ MaxFaults \in Nat /\ stale \in StaleType
      /\ stale.counted \in Nat /\ stale.owed \in Nat
  BY RollingAssumption, Types DEF TypeOK, UpType, StaleType
<1>2. /\ rc["old"].replicas \in Nat /\ rc["old"].unready \in Nat /\ rc["old"].ready \in Nat
      /\ rc["old"].ending \in Nat
      /\ rc["new"].replicas \in Nat /\ rc["new"].unready \in Nat /\ rc["new"].ready \in Nat
      /\ rc["new"].ending \in Nat
  BY Types DEF Rcs
<1>3. UNCHANGED <<rc, notes, config>>
  BY DEF UpWait, DownWait, Sleep, ListOld, ListNew, CleanWait, Interrupt, RunAgain, Scaled
<1>4. CASE UpWait
  <2>1. /\ up.pc = "upwait" /\ up' = [up EXCEPT !.pc = "sleep"] /\ faults' = faults
        /\ stale' = stale
    BY <1>4 DEF UpWait, Scaled, At, Goto
  <2>2. up' \in UpType /\ up'.pc = "sleep" /\ up'.old = up.old /\ up'.new = up.new
    BY <1>1, <2>1 DEF UpType, Pcs
  <2>3. Counted'
    BY <2>2 DEF Counted
  <2> QED BY <1>1, <1>3, <2>1, <2>2, <2>3, ReadKeepsInv DEF Known, InLoop
<1>5. CASE DownWait
  <2>1. /\ up.pc = "downwait" /\ up' = [up EXCEPT !.pc = "loop"] /\ faults' = faults
        /\ stale' = stale /\ Active("old") <= rc["old"].replicas
    BY <1>2, <1>5 DEF DownWait, Scaled, At, Goto, Active
  <2>2. up' \in UpType /\ up'.pc = "loop" /\ up'.old = up.old /\ up'.new = up.new
    BY <1>1, <2>1 DEF UpType, Pcs
  <2>3. Counted'
    BY <2>2 DEF Counted
  <2> QED BY <1>1, <1>3, <2>1, <2>2, <2>3, ReadKeepsInv DEF Known, InLoop
<1>6. CASE Sleep
  <2>1. /\ up.pc = "sleep" /\ up' = [up EXCEPT !.pc = IF up.old = 0 THEN "loop" ELSE "listold"]
        /\ faults' = faults /\ stale' = stale
    BY <1>6 DEF Sleep, At, Goto
  <2>2. up' \in UpType /\ up'.pc \in {"loop", "listold"} /\ up'.old = up.old /\ up'.new = up.new
    BY <1>1, <2>1 DEF UpType, Pcs
  <2>3. Counted'
    BY <2>2 DEF Counted
  <2> QED BY <1>1, <1>3, <2>1, <2>2, <2>3, ReadKeepsInv DEF Known, InLoop
<1>7. CASE ListOld
  <2> DEFINE n == Listed("old")
             k == rc["old"].ending + Surplus("old")
  <2>0. Surplus("old") \in Nat /\ Surplus("old")' = Surplus("old")
    BY <1>2, <1>3, SurplusFacts DEF Surplus, Active
  <2>1. n \in Nat /\ k \in Nat /\ n + Surplus("old") = rc["old"].ready + k
    BY <1>2, <2>0 DEF Listed
  <2>2. /\ up.pc = "listold" /\ up' = [up EXCEPT !.pc = "listnew", !.oldReady = n]
        /\ faults' = faults /\ stale' = [stale EXCEPT !.counted = k]
    BY <1>7 DEF ListOld, At
  <2> HIDE DEF n, k
  <2>3. up' \in UpType /\ up'.pc = "listnew" /\ up'.old = up.old /\ up'.new = up.new
        /\ up'.oldReady = n
    BY <1>1, <2>1, <2>2 DEF UpType, Pcs
  <2>4. stale' \in StaleType /\ stale'.owed = stale.owed /\ stale'.counted = k
    BY <1>1, <2>1, <2>2 DEF StaleType
  <2>5. Counted'
    BY <1>2, <1>3, <2>0, <2>1, <2>3, <2>4 DEF Counted
  <2> QED BY <1>1, <1>3, <2>2, <2>3, <2>4, <2>5, ReadKeepsInv DEF Known, InLoop
<1>8. CASE ListNew
  <2> DEFINE n == Listed("new")
             to == IF up.oldReady + n = 0 THEN "listold" ELSE "down"
             k == stale.counted + rc["new"].ending
  <2>0. Surplus("old") \in Nat /\ Surplus("old")' = Surplus("old") /\ Available' = Available
    BY <1>2, <1>3, SurplusFacts DEF Surplus, Active, Available
  <2>1. /\ n \in Nat /\ k \in Nat /\ to \in {"listold", "down"}
        /\ n = rc["new"].ready + rc["new"].ending /\ k = stale.counted + rc["new"].ending
    BY <1>1, <1>2 DEF Listed
  <2>2. /\ up.pc = "listnew" /\ up' = [up EXCEPT !.pc = to, !.newReady = n]
        /\ faults' = faults /\ stale' = [stale EXCEPT !.counted = k]
    BY <1>8 DEF ListNew, At
  <2> HIDE DEF n, to, k
  <2>3. up' \in UpType /\ up'.pc \in {"listold", "down"} /\ up'.old = up.old /\ up'.new = up.new
        /\ up'.oldReady = up.oldReady /\ up'.newReady = n
    BY <1>1, <2>1, <2>2 DEF UpType, Pcs
  <2>4. stale' \in StaleType /\ stale'.owed = stale.owed /\ stale'.counted = k
    BY <1>1, <2>1, <2>2 DEF StaleType
  <2>5. up.oldReady + Surplus("old") <= rc["old"].ready + stale.counted /\ up.oldReady \in Nat
    BY <2>2, Types DEF Counted
  <2>6. Counted'
    BY <1>1, <1>2, <1>3, <2>0, <2>1, <2>3, <2>4, <2>5 DEF Counted, Available
  <2> QED BY <1>1, <1>3, <2>2, <2>3, <2>4, <2>6, ReadKeepsInv DEF Known, InLoop
<1>9. CASE CleanWait
  <2>1. /\ up.pc = "cleanwait" /\ up' = [up EXCEPT !.pc = "delete"] /\ faults' = faults
        /\ stale' = stale
    BY <1>9 DEF CleanWait, Scaled, At, Goto
  <2>2. up' \in UpType /\ up'.pc = "delete"
    BY <1>1, <2>1 DEF UpType, Pcs
  <2>3. Counted'
    BY <2>2 DEF Counted
  <2> QED BY <1>1, <1>3, <2>1, <2>2, <2>3, ReadKeepsInv DEF Known, InLoop
<1>10. CASE Interrupt
  <2>1. /\ up.pc \notin {"start", "done", "refused", "ended"} /\ faults < MaxFaults
        /\ up' = [up EXCEPT !.pc = "ended"] /\ faults' = faults + 1 /\ stale' = stale
    BY <1>10 DEF Interrupt, Goto
  <2>2. up' \in UpType /\ up'.pc = "ended"
    BY <1>1, <2>1 DEF UpType, Pcs
  <2>3. Counted'
    BY <2>2 DEF Counted
  <2>4. faults' \in 0 .. MaxFaults /\ faults' # 0
    BY <1>1, <2>1
  <2> QED BY <1>1, <1>3, <2>1, <2>2, <2>3, <2>4, ReadKeepsInv DEF InLoop
<1>11. CASE RunAgain
  <2>1. /\ up.pc = "ended" /\ up' = [up EXCEPT !.pc = "start"] /\ faults' = faults
        /\ stale' = stale
    BY <1>11 DEF RunAgain, At, Goto
  <2>2. up' \in UpType /\ up'.pc = "start"
    BY <1>1, <2>1 DEF UpType, Pcs
  <2>3. Counted'
    BY <2>2 DEF Counted
  <2> QED BY <1>1, <1>3, <2>1, <2>2, <2>3, ReadKeepsInv DEF InLoop
<1> QED BY <1>4, <1>5, <1>6, <1>7, <1>8, <1>9, <1>10, <1>11

\* getOrCreateTargetController refuses, creates the new controller, or goes on
\* where an earlier run was interrupted.
LEMMA GetOrCreateKeepsInv ==
  ASSUME Inv, GetOrCreate
  PROVE  Inv'
<1> USE DEF Inv
<1>1. /\ up \in UpType /\ faults \in 0 .. MaxFaults /\ up.pc = "start"
      /\ rc \in [Rcs -> RcType] /\ stale \in StaleType /\ UNCHANGED <<config, faults, stale>>
  BY DEF TypeOK, UpType, RcType, StaleType, GetOrCreate, At
<1>2. /\ rc["old"] \in RcType /\ rc["new"] \in RcType
  BY <1>1 DEF Rcs
<1>3. CASE up' = [up EXCEPT !.pc = "refused"] /\ UNCHANGED <<rc, notes>>
  <2>1. up' \in UpType /\ up'.pc = "refused"
    BY <1>1, <1>3 DEF UpType, Pcs
  <2>2. Counted'
    BY <2>1 DEF Counted
  <2> QED BY <1>1, <1>3, <2>1, <2>2, ReadKeepsInv DEF InLoop
<1>4. CASE /\ rc["old"].exists /\ rc["new"].exists
           /\ up' = [up EXCEPT !.pc = IF notes.source /\ notes.desired # None
                                      THEN "original" ELSE "refused",
                               !.new = rc["new"].replicas]
           /\ UNCHANGED <<rc, notes>>
  <2> DEFINE to == IF notes.source /\ notes.desired # None THEN "original" ELSE "refused"
             n == rc["new"].replicas
  <2>1. n \in Nat /\ to \in {"original", "refused"} /\ (to = "original" => notes.desired # None)
    BY <1>2 DEF RcType
  <2>2. up' = [up EXCEPT !.pc = to, !.new = n]
    BY <1>4
  <2>3. n = rc["new"].replicas
    OBVIOUS
  <2> HIDE DEF to, n
  <2>4. up' \in UpType /\ up'.pc = to /\ up'.new = n
    BY <1>1, <2>1, <2>2 DEF UpType, Pcs
  <2>5. Counted'
    BY <2>1, <2>4 DEF Counted
  <2> QED BY <1>1, <1>4, <2>1, <2>3, <2>4, <2>5, ReadKeepsInv DEF InLoop
<1>5. CASE /\ ~rc["new"].exists
           /\ up' = [up EXCEPT !.pc = "original", !.new = 0]
           /\ notes' = [notes EXCEPT !.source = TRUE, !.desired = config.desired]
           /\ rc' = [rc EXCEPT !["new"].exists = TRUE]
  <2>1. up' \in UpType /\ up'.pc = "original" /\ up'.new = 0
    BY <1>1, <1>5 DEF UpType, Pcs
  <2>2. rc' \in [Rcs -> RcType] /\ rc'["old"] = rc["old"] /\ rc'["new"] = [rc["new"] EXCEPT !.exists = TRUE]
    BY <1>1, <1>2, <1>5 DEF Rcs, RcType
  <2>3. /\ rc'["new"].replicas = rc["new"].replicas /\ rc'["new"].unready = rc["new"].unready
        /\ rc'["new"].ready = rc["new"].ready /\ rc'["new"].ending = rc["new"].ending
        /\ rc'["new"].exists
    BY <1>2, <2>2 DEF RcType
  <2>4. /\ notes' \in [original: Nat \cup {None}, source: BOOLEAN, desired: Nat \cup {None}]
        /\ notes'.desired \in Nat /\ notes'.original = notes.original
    BY <1>5, RollingAssumption DEF TypeOK, Config
  <2>5. TypeOK'
    BY <1>1, <2>1, <2>2, <2>4 DEF TypeOK, UpType, RcType, StaleType
  <2>6. /\ rc["new"].replicas = 0 /\ notes.original = None
        /\ Active("old") <= rc["old"].replicas
    BY <1>5 DEF Known
  <2>7. Known'
    BY <2>1, <2>2, <2>3, <2>4, <2>6 DEF Known, Active, None, InLoop
  <2>8. Pods'
    BY <1>1, <2>1, <2>2, <2>3, <2>6 DEF Pods, Active
  <2>9. Surge'
    BY <2>4, <2>6 DEF Surge
  <2>10. Counted'
    BY <2>1 DEF Counted
  <2>11. Spared'
    <3>1. Surplus("old") = 0
      BY <1>2, <2>6, SurplusFacts DEF RcType
    <3>2. Surplus("old")' = 0
      BY <2>2, <3>1 DEF Surplus, Active
    <3> QED BY <3>2 DEF Spared
  <2> QED BY <1>1, <2>5, <2>7, <2>8, <2>9, <2>10, <2>11
<1> QED BY <1>3, <1>4, <1>5 DEF GetOrCreate, Goto

\* The old controller's size is noted before it is ever scaled, so that a later
\* run starts from the same number.
LEMMA OriginalKeepsInv ==
  ASSUME Inv, Original
  PROVE  Inv'
<1> USE DEF Inv
<1> DEFINE to == IF config.unavailable.v < 0 \/ config.surge.v < 0
                    \/ (MaxUnavailable = 0 /\ MaxSurge = 0) THEN "refused" ELSE "loop"
           n == IF notes.original = None THEN rc["old"].replicas ELSE notes.original
<1>1. /\ up \in UpType /\ up.pc = "original" /\ UNCHANGED <<rc, config, faults, stale>>
      /\ up' = [up EXCEPT !.pc = to, !.old = rc["old"].replicas]
      /\ notes' = [notes EXCEPT !.original = n]
      /\ notes \in [original: Nat \cup {None}, source: BOOLEAN, desired: Nat \cup {None}]
  BY DEF TypeOK, UpType, Original, At
<1>2. to \in {"refused", "loop"}
  OBVIOUS
<1>3. /\ rc["old"].replicas \in Nat /\ rc["old"].unready \in Nat /\ rc["old"].ready \in Nat
      /\ rc["new"].replicas \in Nat /\ rc["new"].unready \in Nat /\ rc["new"].ready \in Nat
      /\ MaxSurge \in Int
  BY Types DEF Rcs
<1>4. n \in Nat /\ (notes.original # None => n = notes.original)
      /\ (notes.original = None => n = rc["old"].replicas)
  BY <1>1, <1>3
<1> HIDE DEF to, n
<1>5. /\ up' \in UpType /\ up'.pc \in {"refused", "loop"} /\ up'.old = rc["old"].replicas
      /\ up'.new = up.new
  BY <1>1, <1>2, <1>3 DEF UpType, Pcs
<1>6. /\ notes' \in [original: Nat \cup {None}, source: BOOLEAN, desired: Nat \cup {None}]
      /\ notes'.original = n /\ notes'.desired = notes.desired /\ notes'.original # None
  BY <1>1, <1>4 DEF None
<1>7. TypeOK'
  BY <1>1, <1>5, <1>6 DEF TypeOK, UpType
<1>8. Known'
  BY <1>1, <1>5, <1>6 DEF Known, InLoop
<1>9. Pods'
  BY <1>1, <1>5 DEF Pods, Active
<1>10. Surge'
  <2>1. MaxSurge' = MaxSurge
    BY <1>1, <1>6 DEF MaxSurge, ExtractMaxValue
  <2>2. CASE notes.original = None
    <3>1. /\ rc["new"].replicas = 0 /\ Active("old") <= rc["old"].replicas
          /\ notes.desired # None /\ notes.desired \in Nat
      BY <1>1, <2>2 DEF Known
    <3>2. rc["old"].replicas <= Most'
      BY <1>3, <1>4, <1>6, <2>1, <2>2, <3>1 DEF Most, Max2
    <3>3. Most' \in Int
      BY <1>3, <1>4, <1>6, <2>1, <3>1 DEF Most, Max2
    <3> QED BY <1>1, <1>3, <3>1, <3>2, <3>3 DEF Surge, Active
  <2>3. CASE notes.original # None
    <3>1. Most' = Most
      BY <1>4, <1>6, <2>1, <2>3 DEF Most
    <3> QED BY <1>1, <1>6, <2>3, <3>1 DEF Surge, Active
  <2> QED BY <2>2, <2>3
<1>11. Counted'
  BY <1>5 DEF Counted
<1>12. Spared'
  <2>1. CASE Surplus("old") > 0
    <3>1. notes.original # None
      BY <1>3, <2>1, SurplusFacts DEF Known
    <3>2. MinAvailable' = MinAvailable
      BY <1>1, <1>4, <1>6, <3>1 DEF MinAvailable, MaxUnavailable, ExtractMaxValue
    <3> QED BY <1>1, <1>6, <3>2 DEF Spared, Surplus, Active, Available
  <2>2. CASE ~(Surplus("old") > 0)
    BY <1>1, <2>2 DEF Spared, Surplus, Active
  <2> QED BY <2>1, <2>2
<1> QED BY <1>1, <1>7, <1>8, <1>9, <1>10, <1>11, <1>12

\* scaleUp adds no more than there is room for under the limit, and takes nothing
\* from the new controller.
LEMMA UpBounds ==
  ASSUME Inv, up.pc \in InLoop
  PROVE  /\ Up \in Nat /\ up.new <= Up /\ Up <= notes.desired
         /\ up.old + Up <= Most
<1>1. /\ notes.desired \in Nat /\ notes.original \in Nat /\ up.old \in Nat /\ up.new \in Nat
      /\ MaxSurge \in Int /\ up.new <= notes.desired /\ up.old + up.new <= Most
  BY Types DEF Inv, Known, Surge, None
<1> DEFINE limit == notes.original + Max2(0, MaxSurge)
<1>2. /\ limit \in Int /\ limit >= notes.original + MaxSurge
      /\ Most \in Int /\ Most >= limit /\ Most >= notes.desired
  BY <1>1 DEF Most, Max2
<1> HIDE DEF limit
<1>3. CASE up.old = 0
  BY <1>1, <1>2, <1>3 DEF Up
<1>4. CASE up.old # 0
  <2> DEFINE room == Max2(0, notes.original + MaxSurge - (up.old + up.new))
  <2>1. room \in Nat /\ (room = 0 \/ room = notes.original + MaxSurge - (up.old + up.new))
    BY <1>1 DEF Max2
  <2>2. Up = Min2(notes.desired, up.new + room)
    BY <1>4 DEF Up
  <2> HIDE DEF room
  <2>3. up.old + up.new + room <= Most
    BY <1>1, <1>2, <2>1
  <2> QED BY <1>1, <1>2, <2>1, <2>2, <2>3 DEF Min2
<1> QED BY <1>3, <1>4

\* scaleUp stays within the surge limit.
LEMMA ScaleUpKeepsInv ==
  ASSUME Inv, ScaleUp
  PROVE  Inv'
<1> USE DEF Inv
<1> DEFINE to == IF Up = up.new THEN "sleep" ELSE "upwait"
<1>1. /\ up \in UpType /\ up.pc = "loop" /\ UNCHANGED <<notes, config, faults, stale>>
      /\ up' = [up EXCEPT !.pc = to, !.new = Up] /\ rc \in [Rcs -> RcType]
  BY DEF TypeOK, UpType, RcType, ScaleUp, At
<1>2. /\ rc["old"].replicas \in Nat /\ rc["old"].unready \in Nat /\ rc["old"].ready \in Nat
      /\ rc["new"].replicas \in Nat /\ rc["new"].unready \in Nat /\ rc["new"].ready \in Nat
      /\ notes.desired # None /\ notes.original # None /\ notes.desired \in Nat
      /\ up.old = rc["old"].replicas /\ up.new = rc["new"].replicas
  BY <1>1, Types DEF Rcs, Known, InLoop, None
<1>3. Up \in Nat /\ up.new <= Up /\ Up <= notes.desired /\ up.old + Up <= Most
  BY <1>1, UpBounds DEF InLoop
<1>4. to \in {"sleep", "upwait"}
  OBVIOUS
<1> DEFINE n == Up
<1>5. n = Up
  OBVIOUS
<1> HIDE DEF to, n
<1>6. /\ up' \in UpType /\ up'.pc \in {"sleep", "upwait"} /\ up'.old = up.old /\ up'.new = n
  BY <1>1, <1>3, <1>4, <1>5 DEF UpType, Pcs
<1>7. rc' = [rc EXCEPT !["new"].replicas = n]
  <2>1. rc' = [rc EXCEPT !["new"].replicas = IF Up = up.new THEN @ ELSE Up]
    BY DEF ScaleUp
  <2> QED BY <1>2, <1>5, <2>1
<1>8. /\ rc' \in [Rcs -> RcType] /\ rc'["old"] = rc["old"]
      /\ rc'["new"] = [rc["new"] EXCEPT !.replicas = n]
  BY <1>1, <1>3, <1>5, <1>7 DEF Rcs, RcType
<1>9. /\ rc'["new"].replicas = n /\ rc'["new"].exists = rc["new"].exists
      /\ rc'["new"].unready = rc["new"].unready
      /\ rc'["new"].ready = rc["new"].ready /\ rc'["new"].ending = rc["new"].ending
  BY <1>1, <1>8 DEF Rcs, RcType
<1>10. TypeOK'
  BY <1>1, <1>6, <1>8 DEF TypeOK, UpType, RcType
<1>11. Known'
  BY <1>1, <1>2, <1>3, <1>5, <1>6, <1>8, <1>9 DEF Known, InLoop
<1>12. Pods'
  BY <1>1, <1>2, <1>3, <1>5, <1>6, <1>8, <1>9 DEF Pods, Active
<1>13. Most' = Most /\ MinAvailable' = MinAvailable
  BY <1>1 DEF Most, MinAvailable, MaxSurge, MaxUnavailable, ExtractMaxValue
<1>14. Surge'
  <2>1. faults = 0 => Active("old") <= rc["old"].replicas
    BY <1>1 DEF Pods
  <2>2. Most \in Int
    BY <1>2, Types DEF Most, Max2, None
  <2> QED BY <1>1, <1>2, <1>3, <1>5, <1>8, <1>9, <1>13, <2>1, <2>2 DEF Surge, Active
<1>15. Counted'
  BY <1>6 DEF Counted
<1>16. Spared'
  BY <1>1, <1>8, <1>9, <1>13 DEF Spared, Surplus, Active, Available
<1> QED BY <1>1, <1>10, <1>11, <1>12, <1>14, <1>15, <1>16

\* scaleDown takes no more from the old controller than can be spared: of the
\* pods that were counted MinAvailable stay, or all the desired new ones are ready.
LEMMA DownBounds ==
  ASSUME Inv, up.pc = "down"
  PROVE  /\ Down \in Nat /\ Down <= up.old
         /\ Down # up.old =>
              \/ up.oldReady + up.newReady - (up.old - Down) >= MinAvailable
              \/ up.newReady >= notes.desired
<1>1. /\ notes.desired \in Nat /\ notes.original \in Nat /\ up.old \in Nat /\ up.new \in Nat
      /\ up.oldReady \in Nat /\ up.newReady \in Nat /\ MaxUnavailable \in Int
  BY Types DEF Inv, Known, InLoop, None
<1>2. MinAvailable \in Int
  BY <1>1 DEF MinAvailable
<1> DEFINE decrement == up.oldReady + up.newReady - MinAvailable
<1>3. decrement \in Int /\ decrement = up.oldReady + up.newReady - MinAvailable
  BY <1>1, <1>2
<1>4. Down = IF decrement <= 0 THEN up.old
             ELSE IF up.new = notes.desired /\ up.newReady = notes.desired THEN 0
             ELSE Max2(0, up.old - decrement)
  BY DEF Down
<1> HIDE DEF decrement
<1>5. CASE decrement <= 0
  BY <1>1, <1>4, <1>5
<1>6. CASE ~(decrement <= 0) /\ up.new = notes.desired /\ up.newReady = notes.desired
  BY <1>1, <1>4, <1>6
<1>7. CASE ~(decrement <= 0) /\ ~(up.new = notes.desired /\ up.newReady = notes.desired)
  <2>1. Down = Max2(0, up.old - decrement)
    BY <1>4, <1>7
  <2>2. Down \in Nat /\ Down <= up.old /\ up.old - Down <= decrement
    BY <1>1, <1>3, <1>7, <2>1 DEF Max2
  <2> QED BY <1>1, <1>2, <1>3, <2>2
<1> QED BY <1>5, <1>6, <1>7

\* scaleDown takes no more than what was counted as spare.
LEMMA ScaleDownKeepsInv ==
  ASSUME Inv, ScaleDown
  PROVE  Inv'
<1> USE DEF Inv
<1> DEFINE to == IF Down = up.old THEN "loop" ELSE "downwait"
           n == Down
           w == IF Down = up.old THEN stale.owed ELSE stale.counted
<1>1. /\ up \in UpType /\ up.pc = "down" /\ UNCHANGED <<notes, config, faults>>
      /\ up' = [up EXCEPT !.pc = to, !.old = n] /\ rc \in [Rcs -> RcType]
      /\ stale \in StaleType /\ stale' = [stale EXCEPT !.owed = w]
  BY DEF TypeOK, UpType, RcType, StaleType, ScaleDown, At
<1>2. /\ rc["old"].replicas \in Nat /\ rc["old"].unready \in Nat /\ rc["old"].ready \in Nat
      /\ rc["new"].replicas \in Nat /\ rc["new"].unready \in Nat /\ rc["new"].ready \in Nat
      /\ notes.desired # None /\ notes.original # None /\ notes.desired \in Nat
      /\ notes.original \in Nat /\ up.oldReady \in Nat /\ up.newReady \in Nat
      /\ MaxSurge \in Int /\ MaxUnavailable \in Int
      /\ up.old = rc["old"].replicas /\ up.new = rc["new"].replicas
  BY <1>1, Types DEF Rcs, Known, InLoop, None
<1>3. /\ n \in Nat /\ n <= up.old
      /\ n # up.old => \/ up.oldReady + up.newReady - (up.old - n) >= MinAvailable
                       \/ up.newReady >= notes.desired
  BY <1>1, DownBounds
<1>4. /\ to \in {"loop", "downwait"} /\ (to = "loop" => n = up.old)
      /\ w = IF n = up.old THEN stale.owed ELSE stale.counted
  OBVIOUS
<1>5. rc' = [rc EXCEPT !["old"].replicas = n]
  <2>1. rc' = [rc EXCEPT !["old"].replicas = IF Down = up.old THEN @ ELSE Down]
    BY DEF ScaleDown
  <2> QED BY <1>2, <2>1
<1> HIDE DEF to, n, w
<1>6. /\ up' \in UpType /\ up'.pc = to /\ up'.new = up.new /\ up'.old = n
      /\ stale.counted \in Nat /\ stale.owed \in Nat /\ w \in Nat
      /\ stale' \in StaleType /\ stale'.owed = w
  BY <1>1, <1>3, <1>4 DEF UpType, Pcs, StaleType
<1>7. /\ rc' \in [Rcs -> RcType] /\ rc'["new"] = rc["new"]
      /\ rc'["old"] = [rc["old"] EXCEPT !.replicas = n]
  BY <1>1, <1>3, <1>5 DEF Rcs, RcType
<1>8. /\ rc'["old"].replicas = n /\ rc'["old"].unready = rc["old"].unready
      /\ rc'["old"].ready = rc["old"].ready /\ rc'["old"].ending = rc["old"].ending
  BY <1>1, <1>7 DEF Rcs, RcType
<1>9. TypeOK'
  BY <1>1, <1>6, <1>7 DEF TypeOK, UpType, RcType, StaleType
<1>10. Known'
  BY <1>1, <1>2, <1>4, <1>6, <1>7, <1>8 DEF Known, InLoop
<1>11. Pods'
  BY <1>1, <1>2, <1>3, <1>4, <1>6, <1>7, <1>8 DEF Pods, Active
<1>12. Most' = Most /\ MinAvailable' = MinAvailable /\ Most \in Int /\ MinAvailable \in Int
  BY <1>1, <1>2 DEF Most, Max2, MinAvailable, MaxSurge, MaxUnavailable, ExtractMaxValue
<1>13. Surge'
  BY <1>1, <1>2, <1>3, <1>7, <1>8, <1>12 DEF Surge, Active
<1>14. Counted'
  BY <1>4, <1>6 DEF Counted
<1>15. Spared'
  <2> DEFINE aO == rc["old"].unready + rc["old"].ready
             rO == rc["old"].ready
             rN == rc["new"].ready
             s1 == Max2(0, aO - up.old)
             s2 == Max2(0, aO - n)
  <2>1. /\ Surplus("old") = s1 /\ Surplus("old")' = s2
        /\ Available = rO + rN /\ Available' = rO + rN /\ rc'["new"].ready = rN
    BY <1>2, <1>7, <1>8 DEF Surplus, Active, Available
  <2>2. CASE n = up.old
    BY <1>1, <1>4, <1>6, <1>7, <1>12, <2>1, <2>2 DEF Spared
  <2>3. CASE n # up.old
    <3>1. aO \in Nat /\ up.old \in Nat /\ rO \in Nat /\ rN \in Nat
      BY <1>2
    <3>2. s1 \in Nat /\ s2 \in Nat /\ s2 <= s1 + (up.old - n)
      BY <1>3, <3>1 DEF Max2
    <3>3. /\ up.oldReady + up.newReady + s1 <= rO + rN + stale.counted
          /\ up.newReady <= rN + stale.counted
      BY <1>1, <2>1 DEF Counted
    <3>4. w = stale.counted
      BY <1>4, <2>3
    <3> HIDE DEF aO, rO, rN, s1, s2
    <3>5. rO + rN - s2 + w >= MinAvailable \/ rN + w >= notes.desired
      BY <1>2, <1>3, <1>6, <1>12, <2>3, <3>1, <3>2, <3>3, <3>4
    <3>6. \/ Available' - Surplus("old")' + stale'.owed >= MinAvailable'
          \/ rc'["new"].ready + stale'.owed >= notes'.desired
      BY <1>1, <1>2, <1>6, <1>12, <2>1, <3>1, <3>2, <3>5
    <3> HIDE DEF Inv
    <3> QED BY <1>1, <1>2, <3>6, Zenon DEF Spared
  <2> QED BY <2>2, <2>3
<1> QED BY <1>1, <1>9, <1>10, <1>11, <1>13, <1>14, <1>15

\* cleanup takes the annotations away and deletes the old controller.
LEMMA CleanupKeepsInv ==
  ASSUME Inv, CleanNotes \/ Delete
  PROVE  Inv'
<1> USE DEF Inv
<1>1. up \in UpType /\ rc \in [Rcs -> RcType] /\ UNCHANGED <<config, faults, stale>>
  BY DEF TypeOK, UpType, RcType, CleanNotes, Delete
<1>2. CASE CleanNotes
  <2>1. /\ up.pc = "loop" /\ up' = [up EXCEPT !.pc = "cleanwait"] /\ rc' = rc
        /\ notes' = [notes EXCEPT !.source = FALSE, !.desired = None]
        /\ notes \in [original: Nat \cup {None}, source: BOOLEAN, desired: Nat \cup {None}]
    BY <1>2 DEF CleanNotes, At, Goto, TypeOK
  <2>2. up' \in UpType /\ up'.pc = "cleanwait"
    BY <1>1, <2>1 DEF UpType, Pcs
  <2>3. /\ notes' \in [original: Nat \cup {None}, source: BOOLEAN, desired: Nat \cup {None}]
        /\ notes'.desired = None /\ notes'.original = notes.original
    BY <2>1
  <2>4. TypeOK'
    BY <1>1, <2>1, <2>2, <2>3 DEF TypeOK, UpType
  <2>5. Known' /\ Pods' /\ Counted'
    BY <1>1, <2>1, <2>2, <2>3 DEF Known, Pods, Counted, Active, InLoop
  <2>6. Surge' /\ Spared'
    BY <2>3 DEF Surge, Spared
  <2> QED BY <1>1, <2>4, <2>5, <2>6
<1>3. CASE Delete
  <2> DEFINE b == config.policy = "Preserve"
  <2>1. /\ up.pc = "delete" /\ up' = [up EXCEPT !.pc = "done"] /\ notes' = notes
        /\ rc' = [rc EXCEPT !["old"].exists = b] /\ b \in BOOLEAN
    BY <1>3 DEF Delete, At, Goto
  <2> HIDE DEF b
  <2>2. up' \in UpType /\ up'.pc = "done"
    BY <1>1, <2>1 DEF UpType, Pcs
  <2>3. /\ rc' \in [Rcs -> RcType] /\ rc'["new"] = rc["new"]
        /\ rc'["old"] = [rc["old"] EXCEPT !.exists = b]
    BY <1>1, <2>1 DEF Rcs, RcType
  <2>4. /\ rc'["old"].replicas = rc["old"].replicas /\ rc'["old"].unready = rc["old"].unready
        /\ rc'["old"].ready = rc["old"].ready /\ rc'["old"].ending = rc["old"].ending
    BY <1>1, <2>3 DEF Rcs, RcType
  <2>5. TypeOK'
    BY <1>1, <2>1, <2>2, <2>3 DEF TypeOK, UpType, RcType
  <2>6. Known' /\ Pods' /\ Counted'
    BY <1>1, <2>1, <2>2, <2>3, <2>4 DEF Known, Pods, Counted, Active, InLoop
  <2>7. Most' = Most /\ MinAvailable' = MinAvailable
    BY <1>1, <2>1 DEF Most, MinAvailable, MaxSurge, MaxUnavailable, ExtractMaxValue
  <2>8. Surge' /\ Spared'
    BY <1>1, <2>1, <2>3, <2>4, <2>7 DEF Surge, Spared, Surplus, Active, Available
  <2> QED BY <1>1, <2>5, <2>6, <2>8
<1> QED BY <1>2, <1>3

\* Every step keeps the invariant.
LEMMA InvInductive == Inv /\ [Next]_vars => Inv'
<1> SUFFICES ASSUME Inv, [Next]_vars PROVE Inv'
  OBVIOUS
<1>1. CASE Update
  BY <1>1, GetOrCreateKeepsInv, OriginalKeepsInv, ScaleUpKeepsInv, ScaleDownKeepsInv,
     CleanupKeepsInv, QuietKeepsInv DEF Update
<1>2. CASE Interrupt \/ RunAgain
  BY <1>2, QuietKeepsInv
<1>3. CASE \E o \in Rcs : Cluster(o)
  BY <1>3, ClusterKeepsInv
<1>4. CASE UNCHANGED vars
  <2>1. UNCHANGED <<rc, notes, up, config, faults, stale>>
    BY <1>4 DEF vars
  <2> QED BY <2>1 DEF Inv, TypeOK, Config, Known, Pods, Surge, Counted, Spared, Most, MinAvailable,
                      MaxSurge, MaxUnavailable, ExtractMaxValue, Surplus, Active, Available
<1> QED BY <1>1, <1>2, <1>3, <1>4 DEF Next

\* Before the first run there is the old controller with all its pods.
LEMMA InvInit == Init => Inv
<1> SUFFICES ASSUME Init PROVE Inv
  OBVIOUS
<1>1. PICK n \in Originals :
        rc = [o \in Rcs |-> IF o = "old" THEN Controller(TRUE, n) ELSE Controller(FALSE, 0)]
  BY DEF Init
<1>2. n \in Nat /\ MaxFaults \in Nat /\ MaxFails \in Nat
  BY RollingAssumption
<1>3. rc["old"] = Controller(TRUE, n) /\ rc["new"] = Controller(FALSE, 0)
  BY <1>1 DEF Rcs
<1>4. Controller(TRUE, n) \in RcType /\ Controller(FALSE, 0) \in RcType
  BY <1>2 DEF Controller, RcType
<1>5. rc \in [Rcs -> RcType]
  BY <1>1, <1>4 DEF Rcs
<1>6. /\ rc["old"].replicas = n /\ rc["old"].unready = 0 /\ rc["old"].ready = n
      /\ rc["new"].replicas = 0 /\ rc["new"].unready = 0 /\ rc["new"].ready = 0
      /\ rc["new"].ending = 0
  BY <1>3 DEF Controller
<1>7. /\ notes = [original |-> None, source |-> FALSE, desired |-> None] /\ faults = 0
      /\ up = [pc |-> "start", old |-> 0, new |-> 0, oldReady |-> 0, newReady |-> 0]
      /\ config \in Config /\ stale = [failed |-> 0, counted |-> 0, owed |-> 0]
  BY DEF Init, Config
<1>8. TypeOK
  BY <1>2, <1>5, <1>7 DEF TypeOK, RcType, Pcs
<1>9. Known /\ Pods /\ Surge /\ Counted /\ Spared
  BY <1>2, <1>6, <1>7, SurplusNumbers DEF Known, Pods, Surge, Counted, Spared, Surplus, Active, InLoop
<1> QED BY <1>7, <1>8, <1>9 DEF Inv

\* Hence it holds.
LEMMA InvHolds == Spec => []Inv
  BY InvInit, InvInductive, PTL DEF Spec
-----------------------------------------------------------------------------
\* In any number of interrupted runs, for all sizes and limits, the controllers
\* never ask for more pods than scaleUp may make of them.
THEOREM SurgeIsBounded == Spec => []SurgeBounded
<1>1. Inv => SurgeBounded
  <2> SUFFICES ASSUME Inv, notes.desired # None, notes.original # None
               PROVE  /\ rc["old"].replicas + rc["new"].replicas <= Most
                      /\ faults = 0 => Active("old") + Active("new") <= Most
    BY DEF SurgeBounded, Most
  <2>1. /\ rc["old"].unready \in Nat /\ rc["old"].ready \in Nat /\ rc["new"].replicas \in Nat
        /\ rc["new"].unready \in Nat /\ rc["new"].ready \in Nat
    BY Types DEF Inv, Rcs
  <2>2. Most \in Int
    BY Types DEF Inv, Most, Max2, None
  <2> QED BY <2>1, <2>2 DEF Inv, Surge, Pods, Active
<1> QED BY <1>1, InvHolds, PTL

\* The pods a deletion may still take were counted as spare when scaleDown ran,
\* whichever run that was: what is missing after it is no more than what failed
\* since or was counted although it was going (KeepsAvailable), for all sizes and
\* limits and any number of interrupted runs and failing pods.
THEOREM AvailabilityIsKept == Spec => KeepsAvailable
<1> DEFINE Step == Available' < Available /\ stale'.failed = stale.failed /\ notes.desired # None
                     => Available' + stale.owed >= Min2(MinAvailable, notes.desired)
<1>1. Inv /\ [Next]_vars => [Step]_vars
  <2> SUFFICES ASSUME Inv, Next, Available' < Available, stale'.failed = stale.failed,
                      notes.desired # None
               PROVE  Available' + stale.owed >= Min2(MinAvailable, notes.desired)
    OBVIOUS
  <2> USE DEF Inv
  <2>1. /\ rc["old"].replicas \in Nat /\ rc["old"].unready \in Nat /\ rc["old"].ready \in Nat
        /\ rc["new"].replicas \in Nat /\ rc["new"].unready \in Nat /\ rc["new"].ready \in Nat
        /\ notes.desired \in Nat /\ notes.original \in Nat \cup {None} /\ MaxUnavailable \in Int
        /\ stale.owed \in Nat /\ stale.failed \in Nat
    BY Types DEF Rcs, TypeOK
  \* A step of Update changes no pod.
  <2>2. PICK o \in Rcs : Cluster(o)
    <3>1. ASSUME Update \/ Interrupt \/ RunAgain
          PROVE  rc'["old"].ready = rc["old"].ready /\ rc'["new"].ready = rc["new"].ready
      <4>1. rc \in [Rcs -> RcType]
        BY DEF TypeOK, RcType
      <4>2. CASE GetOrCreate \/ ScaleUp \/ ScaleDown \/ Delete
        BY <4>1, <4>2 DEF GetOrCreate, ScaleUp, ScaleDown, Delete, Rcs, RcType
      <4>3. CASE rc' = rc
        BY <4>3
      <4> QED BY <3>1, <4>2, <4>3 DEF Update, Original, UpWait, DownWait, Sleep, ListOld, ListNew,
                 CleanNotes, CleanWait, Scaled, Interrupt, RunAgain
    <3>2. ~(Update \/ Interrupt \/ RunAgain)
      BY <2>1, <3>1 DEF Available
    <3> QED BY <3>2 DEF Next
  <2>3. rc["new"].unready + rc["new"].ready <= rc["new"].replicas
    BY DEF Pods, Active
  <2>4. /\ rc'["old"].ready = rc["old"].ready - 1 /\ rc'["new"] = rc["new"]
        /\ rc["old"].unready + rc["old"].ready > rc["old"].replicas
        /\ rc'["old"].ready \in Nat
    <3>0. rc' \in [Rcs -> RcType]
      BY <2>2, ClusterStep
    <3>1. rc'["old"].ready \in Nat /\ rc'["new"].ready \in Nat
      BY <3>0 DEF Rcs, RcType
    <3>2. CASE o = "new"
      <4>1. rc'["old"] = rc["old"]
        BY <2>2, <3>2, ClusterStep DEF Rcs
      <4>2. rc'["new"].ready >= rc["new"].ready
        BY <2>1, <2>2, <2>3, <3>1, <3>2, ClusterStep
      <4> QED BY <2>1, <3>1, <4>1, <4>2 DEF Available
    <3>3. CASE o = "old"
      <4>1. rc'["new"] = rc["new"]
        BY <2>2, <3>3, ClusterStep DEF Rcs
      <4>2. rc'["old"].ready < rc["old"].ready
        BY <2>1, <3>1, <4>1 DEF Available
      <4> QED BY <2>1, <2>2, <3>1, <3>3, <4>1, <4>2, ClusterStep
    <3> QED BY <3>2, <3>3 DEF Rcs
  <2> DEFINE s1 == Surplus("old")
  <2>5. s1 = rc["old"].unready + rc["old"].ready - rc["old"].replicas /\ s1 \in Nat /\ s1 > 0
    BY <2>1, <2>4, SurplusFacts DEF Active
  <2>6. /\ notes.original # None
        /\ \/ Available - s1 + stale.owed >= MinAvailable
           \/ rc["new"].ready + stale.owed >= notes.desired
    <3>1. Surplus("old") > 0 /\ s1 = Surplus("old") /\ Spared
      BY <2>5
    <3> HIDE DEF s1
    <3> QED BY <3>1, Zenon DEF Spared
  <2> HIDE DEF s1
  <2>7. MinAvailable \in Int
    BY <2>1, <2>6 DEF MinAvailable
  <2>8. Min2(MinAvailable, notes.desired) <= MinAvailable /\ Min2(MinAvailable, notes.desired) <= notes.desired
        /\ Min2(MinAvailable, notes.desired) \in Int
    BY <2>1, <2>7 DEF Min2
  <2>9. /\ Available' = rc["old"].ready - 1 + rc["new"].ready
        /\ Available = rc["old"].ready + rc["new"].ready
    BY <2>1, <2>4 DEF Available
  <2> HIDE DEF Inv
  <2> QED BY <2>1, <2>4, <2>5, <2>6, <2>7, <2>8, <2>9
<1> QED BY <1>1, InvHolds, PTL DEF Spec, KeepsAvailable
=============================================================================
