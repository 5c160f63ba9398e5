-------------------------- MODULE Examples_proofs --------------------------
(***************************************************************************)
(* Proofs about the programs that stand on their own: TLSServer, for any   *)
(* bound of its loop, any number of faults and any behaviour of the other  *)
(* programs of the host; TestHarness, for any number of runs, pods and     *)
(* faults; SiteIndex, for any directories, files, builds and changes.      *)
(***************************************************************************)
EXTENDS TLSServer, SiteIndex, TestHarness, TLAPS

\* Every variable keeps its type.
THEOREM TypeCorrect == Spec => []TypeOK
<1>1. Init => TypeOK
  BY TLSServerAssumption DEF Init, TypeOK
<1>2. TypeOK /\ [Next]_vars => TypeOK'
  <2> SUFFICES ASSUME TypeOK, [Next]_vars PROVE TypeOK'
    OBVIOUS
  <2>1. CASE Generate
    BY <2>1 DEF Generate, TypeOK
  <2>2. CASE GenerateErr
    BY <2>2, TLSServerAssumption DEF GenerateErr, Fault, Exit, TypeOK
  <2>3. CASE GetOk \/ LogResponse \/ Return
    BY <2>3 DEF GetOk, LogResponse, Return, Exit, TypeOK
  <2>4. CASE GetErr
    BY <2>4, TLSServerAssumption DEF GetErr, Fault, TypeOK
  <2>5. CASE Sleep
    BY <2>5 DEF Sleep, TypeOK
  <2>6. CASE GiveUp \/ Fatal
    BY <2>6 DEF GiveUp, Fatal, Exit, TypeOK
  <2>7. CASE Listen
    BY <2>7 DEF Listen, TypeOK
  <2>8. CASE ServeErr
    BY <2>8, TLSServerAssumption DEF ServeErr, Fault, TypeOK
  <2>9. CASE OtherListens \/ OtherLeaves \/ UNCHANGED vars
    BY <2>9 DEF OtherListens, OtherLeaves, vars, TypeOK
  <2> QED BY <2>1, <2>2, <2>3, <2>4, <2>5, <2>6, <2>7, <2>8, <2>9 DEF Next, Main, Server
<1> QED BY <1>1, <1>2, PTL DEF Spec

\* The pauses so far, and why main may have stopped.
Backoff ==
  /\ pc = "generate" => sleepTime = 0 /\ slept = 0 /\ out = "none"
  /\ sleepTime > 0 => slept + 1 = sleepTime /\ sleepTime < 2 * MaxSleep
  /\ pc \in {"get", "sleep"} => sleepTime > 0 /\ out = "none"
  /\ pc \in {"log", "return"} => sleepTime > 0
  /\ pc = "log" => resp # "none"
  /\ pc = "return" => out # "none"
  /\ pc = "sleep" => sleepTime < MaxSleep
  /\ pc = "exited" /\ code = 0 /\ out = "none" => slept + 1 >= MaxSleep

\* Doubling keeps the sum of the pauses one short of the next pause.
LEMMA BackoffHolds == Spec => []Backoff
<1>1. Init => Backoff
  BY DEF Init, Backoff
<1>2. TypeOK /\ Backoff /\ [Next]_vars => Backoff'
  <2> SUFFICES ASSUME TypeOK, Backoff, [Next]_vars PROVE Backoff'
    OBVIOUS
  <2> USE TLSServerAssumption
  <2>1. CASE Generate
    BY <2>1 DEF Generate, TypeOK, Backoff
  <2>2. CASE GenerateErr \/ Fatal
    BY <2>2 DEF GenerateErr, Fatal, Exit, TypeOK, Backoff
  <2>3. CASE GetOk \/ LogResponse \/ Return
    BY <2>3 DEF GetOk, LogResponse, Return, Exit, Answers, TypeOK, Backoff
  <2>4. CASE GetErr
    BY <2>4 DEF GetErr, TypeOK, Backoff
  <2>5. CASE Sleep
    BY <2>5 DEF Sleep, TypeOK, Backoff
  <2>6. CASE GiveUp
    BY <2>6 DEF GiveUp, Exit, TypeOK, Backoff
  <2>7. CASE Listen \/ ServeErr
    BY <2>7 DEF Listen, ServeErr, TypeOK, Backoff
  <2>8. CASE OtherListens \/ OtherLeaves \/ UNCHANGED vars
    BY <2>8 DEF OtherListens, OtherLeaves, vars, TypeOK, Backoff
  <2> QED BY <2>1, <2>2, <2>3, <2>4, <2>5, <2>6, <2>7, <2>8 DEF Next, Main, Server
<1> QED BY <1>1, <1>2, TypeCorrect, PTL DEF Spec

\* For every bound of the loop, the pauses add up to less than twice it.
THEOREM PausesAreBounded == Spec => []BackoffBounded
<1>1. Backoff => BackoffBounded
  BY DEF Backoff, BackoffBounded
<1> QED BY <1>1, BackoffHolds, PTL

\* For every bound of the loop, main does not give up before it has waited.
THEOREM MainIsPatient == Spec => []GivesUpLate
<1>1. Backoff => GivesUpLate
  BY DEF Backoff, GivesUpLate
<1> QED BY <1>1, BackoffHolds, PTL

\* The server goroutine has served, and if it failed since, a call failed.
HasServed == server = "serving" \/ (server = "failed" /\ faults > 0)

\* Who owns the port, which certificate the client trusts, and where the
\* response in hand came from.
Trust ==
  /\ port = "self" => server = "serving"
  /\ pc \in {"get", "sleep"} => cert = OwnCert
  /\ pc = "generate" => server = "none"
  /\ pc \in {"generate", "get", "sleep"} => resp = "none"
  /\ pc \in {"generate", "get", "sleep", "log"} => out = "none"
  /\ pc # "exited" => code = 0
  /\ resp # "none" => resp = "hello" /\ HasServed /\ (code = 1 => server = "failed")
  /\ out # "none" => out = resp

\* The client cannot be talked to by anybody but the server of its process.
THEOREM ResponsesAreOwn == Spec => []OnlyOwnServer
<1>1. Init => Trust
  BY DEF Init, Trust
<1>2. OwnCert # OtherCert
  <2>1. OwnCert.serial = 1 /\ OtherCert.serial = 2
    BY DEF OwnCert, GenerateRSACerts, OtherCert, Certificate
  <2> QED BY <2>1
<1>3. TypeOK /\ Trust /\ [Next]_vars => Trust'
  <2> SUFFICES ASSUME TypeOK, Trust, [Next]_vars PROVE Trust'
    OBVIOUS
  <2>1. CASE Generate
    BY <2>1 DEF Generate, TypeOK, Trust
  <2>2. CASE GenerateErr \/ Fatal \/ GiveUp \/ Return
    BY <2>2, TLSServerAssumption
       DEF GenerateErr, Fatal, GiveUp, Return, Exit, Fault, TypeOK, Trust, HasServed
  <2>3. CASE GetOk
    <3>1. port = "self"
      BY <2>3, <1>2 DEF GetOk, Answers, Handshake, Offered, Trust
    <3> QED BY <2>3, <3>1 DEF GetOk, TypeOK, Trust, HasServed
  <2>4. CASE GetErr \/ Sleep \/ LogResponse
    BY <2>4, TLSServerAssumption DEF GetErr, Sleep, LogResponse, Fault, TypeOK, Trust, HasServed
  <2>5. CASE Listen \/ ServeErr
    BY <2>5, TLSServerAssumption DEF Listen, ServeErr, Fault, TypeOK, Trust, HasServed
  <2>6. CASE OtherListens \/ OtherLeaves \/ UNCHANGED vars
    BY <2>6 DEF OtherListens, OtherLeaves, vars, TypeOK, Trust, HasServed
  <2> QED BY <2>1, <2>2, <2>3, <2>4, <2>5, <2>6 DEF Next, Main, Server
<1>4. Trust => OnlyOwnServer
  BY DEF Trust, OnlyOwnServer, HasServed
<1> QED BY <1>1, <1>3, <1>4, TypeCorrect, PTL DEF Spec
-----------------------------------------------------------------------------
(* The test harness *)

PodType == [phase: {"none", "Pending", "Running", "Terminating"}, run: Nat, cert: Nat]

\* How far cleanup and makeCerts have come, what may run then, and with what.
Fresh ==
  /\ run \in Nat /\ crt \in Nat /\ json \in Nat /\ secret \in Nat /\ rc \in Nat
  /\ pod \in [Pods -> PodType]
  /\ script \in {"certs", "json", "write", "create"} => secret = 0
  /\ script = "create" => json = crt
  /\ script \in {"app", "terminating", "pending", "nodes", "curl"} => secret = crt
  /\ script \in {"certs", "json", "write", "create", "app"} =>
       rc = 0 /\ \A p \in Pods : pod[p].phase \notin {"Pending", "Running"}
  /\ script \in {"terminating", "pending", "nodes", "curl"} =>
       /\ rc = run
       /\ \A p \in Pods : pod[p].phase \in {"Pending", "Running"} => pod[p].run = run
       /\ \A p \in Pods : pod[p].phase = "Running" => pod[p].cert = crt
  /\ script \in {"pending", "nodes", "curl"} /\ ~blind =>
       \A p \in Pods : pod[p].phase # "Terminating"
  /\ script = "curl" => ips \subseteq Pods
  /\ script = "curl" /\ ~blind => \A p \in ips : pod[p].phase = "Running"

\* Every step of the script, of the tester and of the cluster keeps it.
LEMMA FreshStep ==
  ASSUME Fresh, [TestNext]_testVars
  PROVE  Fresh'
<1>1. CASE Cleanup \/ CleanupErr
  <2>1. \A p \in Pods : /\ Deleted[p] \in PodType
                        /\ Deleted[p].phase \notin {"Pending", "Running"}
    BY DEF Deleted, Fresh, PodType
  <2>2. pod' = Deleted /\ pod' \in [Pods -> PodType]
    BY <1>1, <2>1 DEF Cleanup, CleanupErr, Deleted
  <2> QED BY <1>1, <2>1, <2>2 DEF Fresh, Cleanup, CleanupErr, certFiles
<1>2. CASE CertsFound \/ MakeCert \/ OpenJson \/ MakeJson
  BY <1>2, TestHarnessAssumption
     DEF Fresh, CertsFound, MakeCert, OpenJson, MakeJson, certFiles, cluster, Torn
<1>3. CASE CreateSecret
  BY <1>3 DEF Fresh, CreateSecret, certFiles
<1>4. CASE CreateApp
  BY <1>4 DEF Fresh, CreateApp, certFiles
<1>5. CASE WaitTerminating \/ WaitPending
  BY <1>5 DEF Fresh, WaitTerminating, WaitPending, In, certFiles, cluster
<1>6. CASE WaitErr
  BY <1>6 DEF Fresh, WaitErr, certFiles, cluster
<1>7. CASE GetNodeIPs \/ GetNodeIPsErr
  BY <1>7 DEF Fresh, GetNodeIPs, GetNodeIPsErr, PhaseRunning, In, certFiles, cluster
<1>8. CASE Curl \/ Abort
  BY <1>8 DEF Fresh, Curl, Abort, certFiles, cluster
<1>9. CASE CleanCrt \/ CleanJson \/ RunAgain
  BY <1>9 DEF Fresh, CleanCrt, CleanJson, RunAgain, Ended, certFiles,
              cluster
<1>10. ASSUME NEW p \in Pods, CreatePod(p) \/ StartPod(p) \/ EndPod(p)
       PROVE  Fresh'
  <2>1. pod' \in [Pods -> PodType]
    BY <1>10 DEF Fresh, CreatePod, StartPod, EndPod, NoPod, PodType
  <2>2. CASE CreatePod(p)
    BY <2>1, <2>2 DEF Fresh, CreatePod, NoPod, certFiles, PodType
  <2>3. CASE StartPod(p)
    BY <2>1, <2>3 DEF Fresh, StartPod, certFiles, PodType
  <2>4. CASE EndPod(p)
    BY <2>1, <2>4 DEF Fresh, EndPod, NoPod, certFiles, PodType
  <2> QED BY <1>10, <2>2, <2>3, <2>4
<1>11. CASE UNCHANGED testVars
  BY <1>11 DEF Fresh, testVars, certFiles, cluster
<1> QED BY <1>1, <1>2, <1>3, <1>4, <1>5, <1>6, <1>7, <1>8, <1>9, <1>10, <1>11
        DEF TestNext, Script, Cluster

\* A test run speaks only to pods of its own, which serve the certificate it
\* trusts, wherever earlier runs ended and whatever they left (OnlyThisRunsPods).
THEOREM TestsSpeakToTheirOwn == TestSpec => []OnlyThisRunsPods
<1>1. TestInit => Fresh
  BY DEF TestInit, Fresh, PodType, NoPod
<1>2. Fresh => OnlyThisRunsPods
  BY DEF Fresh, OnlyThisRunsPods
<1>3. Fresh /\ [TestNext]_testVars => Fresh'
  BY FreshStep
<1> QED BY <1>1, <1>2, <1>3, PTL DEF TestSpec

-----------------------------------------------------------------------------
(* The static site *)

\* The root has an index.html.
Present == index[Root].is # "missing"

BuildType == [pc: {"idle", "find", "dir", "links", "open", "write"}, todo: SUBSET Dirs,
              dir: Dirs, seen: SUBSET (Names \cup Subs \cup {IndexHtml}),
              links: SUBSET Links]

\* The build startup.sh waits for has the root before it until it has made it.
Underway ==
  LET b == build[First]
  IN /\ b.pc = "idle" => Present
     /\ b.pc \in {"dir", "write"} => Root \in b.todo \/ Present
     /\ b.pc \in {"links", "open"} => Root \in b.todo \/ b.dir = Root \/ Present

Indexed ==
  /\ files \in [Dirs -> SUBSET Names] /\ subs \subseteq Subs
  /\ index \in [Dirs -> PageType]
  /\ build \in [Builds -> BuildType]
  /\ Underway
  /\ nginx => Present

\* What build_index.sh makes of names are links.
LEMMA LinksType ==
  ASSUME NEW names \in SUBSET (Names \cup Subs \cup {IndexHtml})
  PROVE  LinksOf(names) \subseteq Links
<1>1. ASSUME NEW n \in names
      PROVE  [name |-> n, dir |-> n \in subs] \in Links
  <2>1. (n \in subs) \in BOOLEAN
    OBVIOUS
  <2> QED BY <2>1, Zenon DEF Links
<1> QED BY <1>1, Zenon DEF LinksOf

\* A page that is there stays, and with it all that is known of it.
LEMMA BuildStep ==
  ASSUME Indexed, NEW b \in Builds, Start(b) \/ Build(b)
  PROVE  Indexed'
<1>1. /\ build[b] \in BuildType /\ build[First] \in BuildType /\ build \in [Builds -> BuildType]
      /\ index \in [Dirs -> PageType] /\ Root \in Dirs /\ First \in Builds
  BY SiteIndexAssumption DEF Indexed, Dirs
<1>2. CASE Start(b)
  <2>1. build' \in [Builds -> BuildType]
    BY <1>1, <1>2 DEF Start, BuildType
  <2> QED BY <1>1, <1>2, <2>1 DEF Start, Site, Indexed, Underway, Present, BuildType
<1>3. CASE Find(b)
  <2>1. build' \in [Builds -> BuildType]
    BY <1>1, <1>3 DEF Find, BuildType, Indexed, Dirs
  <2> QED BY <1>1, <1>3, <2>1 DEF Find, Site, Indexed, Underway, Present, BuildType
<1>4. CASE List(b)
  <2>1. PICK d \in build[b].todo :
          build' = [build EXCEPT ![b] = [pc |-> "links", todo |-> build[b].todo \ {d}, dir |-> d,
                                         seen |-> Entries(d), links |-> {}]]
    BY <1>4 DEF List
  <2>2. Entries(d) \subseteq Names \cup Subs \cup {IndexHtml}
    BY <1>1, <2>1 DEF Entries, Indexed, BuildType
  <2>3. build' \in [Builds -> BuildType]
    BY <1>1, <2>1, <2>2 DEF BuildType
  <2> QED BY <1>1, <1>4, <2>1, <2>3
          DEF List, Site, Indexed, Underway, Present, BuildType
<1>5. CASE MakeLinks(b)
  <2>1. LinksOf(build[b].seen) \subseteq Links
    BY <1>1, LinksType DEF BuildType
  <2>2. build' \in [Builds -> BuildType]
    BY <1>1, <1>5, <2>1 DEF MakeLinks, BuildType
  <2> QED BY <1>1, <1>5, <2>2
          DEF MakeLinks, Site, Indexed, Underway, Present, BuildType
<1>6. CASE Truncate(b)
  <2>1. build' \in [Builds -> BuildType]
    BY <1>1, <1>6 DEF Truncate, BuildType
  <2>2. Truncated \in PageType /\ Truncated.is = "empty"
    BY DEF Truncated, PageType
  <2>3. build[b].dir \in Dirs
    BY <1>1 DEF BuildType
  <2>4. \/ index' = index /\ build[b].dir # Root
        \/ index' = [index EXCEPT ![build[b].dir] = Truncated]
    BY <1>6 DEF Truncate, Exists
  <2>5. /\ index' \in [Dirs -> PageType]
        /\ Present => Present'
        /\ build[b].dir = Root => Present'
    BY <1>1, <2>2, <2>3, <2>4 DEF Present
  <2>6. \/ build' = [build EXCEPT ![b].pc = "write"]
        \/ build' = [build EXCEPT ![b].pc = "dir"]
    BY <1>6 DEF Truncate
  <2>7. build[b].pc = "open" /\ UNCHANGED <<files, subs, nginx>>
    BY <1>6 DEF Truncate, Site
  <2>8. Underway'
    <3>1. Underway
      BY DEF Indexed
    <3>2. CASE b = First
      <4>1. build'[First].pc \in {"dir", "write"} /\ build'[First].todo = build[First].todo
        BY <1>1, <2>6, <3>2 DEF BuildType
      <4>2. Root \in build[First].todo \/ Present'
        BY <2>5, <2>7, <3>1, <3>2 DEF Underway
      <4> QED BY <4>1, <4>2 DEF Underway
    <3>3. CASE b # First
      <4>1. build'[First] = build[First]
        BY <1>1, <2>6, <3>3
      <4> QED BY <2>5, <3>1, <4>1 DEF Underway
    <3> QED BY <3>2, <3>3
  <2> QED BY <2>1, <2>5, <2>7, <2>8 DEF Indexed
<1>7. CASE WritePage(b)
  <2>1. build' \in [Builds -> BuildType]
    BY <1>1, <1>7 DEF WritePage, BuildType
  <2> DEFINE d == build[b].dir
             r == Rest(index[d], build[b].links)
             new == [Page(build[b].links) EXCEPT !.tail = r]
  <2>2. r \subseteq Links /\ build[b].links \subseteq Links /\ d \in Dirs
    BY <1>1 DEF Rest, PageType, BuildType
  <2> HIDE DEF r
  <2>3. new \in PageType /\ new.is = "page"
    BY <2>2 DEF PageType, Page
  <2>4. index' = index \/ index' = [index EXCEPT ![d] = new]
    BY <1>7 DEF WritePage, r
  <2> HIDE DEF new
  <2>5. index' \in [Dirs -> PageType] /\ (Present => Present')
    BY <1>1, <2>2, <2>3, <2>4 DEF Present
  <2> QED BY <1>1, <1>7, <2>1, <2>5
          DEF WritePage, Site, Indexed, Underway, BuildType
<1>8. CASE Finish(b)
  <2>1. build' \in [Builds -> BuildType]
    BY <1>1, <1>8 DEF Finish, Idle, BuildType
  <2> QED BY <1>1, <1>8, <2>1
          DEF Finish, Idle, Site, Indexed, Underway, Present, BuildType
<1> QED BY <1>2, <1>3, <1>4, <1>5, <1>6, <1>7, <1>8 DEF Build

\* Users never remove the root or its page.
LEMMA UsersStep ==
  ASSUME Indexed, Users
  PROVE  Indexed'
<1>1. build' = build /\ nginx' = nginx
  BY DEF Users, Place, Remove, MkDir, RmDir, Change
<1>2. files' \in [Dirs -> SUBSET Names] /\ subs' \subseteq Subs
  BY DEF Indexed, Users, Place, Remove, MkDir, RmDir, Dirs
<1>3. index' \in [Dirs -> PageType]
  BY DEF Indexed, Users, Place, Remove, MkDir, RmDir, NoPage,
         PageType
<1>4. index'[Root] = index[Root]
  BY SiteIndexAssumption DEF Indexed, Users, Place, Remove, MkDir, RmDir, Dirs
<1> QED BY <1>1, <1>2, <1>3, <1>4 DEF Indexed, Underway, Present

\* When nginx serves, the root has an index, for any number of builds that overlap
\* the one startup.sh waits for (ServedWithIndex).
THEOREM RootHasAnIndex == SiteSpec => []ServedWithIndex
<1>1. SiteInit => Indexed
  <2> SUFFICES ASSUME SiteInit PROVE Indexed
    OBVIOUS
  <2>1. build \in [Builds -> BuildType] /\ build[First].pc = "find"
    BY SiteIndexAssumption DEF SiteInit, BuildType, Idle, Dirs
  <2>2. index \in [Dirs -> PageType]
    BY DEF SiteInit, NoPage, PageType
  <2> QED BY <2>1, <2>2 DEF SiteInit, Indexed, Underway
<1>2. Indexed /\ [SiteNext]_siteVars => Indexed'
  <2>1. ASSUME Indexed, UNCHANGED siteVars PROVE Indexed'
    BY <2>1 DEF Indexed, siteVars, Underway, Present
  <2> QED BY <2>1, BuildStep, UsersStep DEF SiteNext
<1>3. Indexed => ServedWithIndex
  BY DEF Indexed, Present, ServedWithIndex
<1> QED BY <1>1, <1>2, <1>3, PTL DEF SiteSpec
=============================================================================
