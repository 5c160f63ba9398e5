---------------------------- MODULE TestHarness ----------------------------
(***************************************************************************)
(* The end-to-end tests: hack/testlib.sh as examples/https/nginx/test.sh   *)
(* uses it (https/haproxy takes the same steps but one, curlNodePort;      *)
(* sni/nginx also repeats its requests and does not mind if they fail).    *)
(* A tester runs the test again and again in one directory, with make      *)
(* clean in between or not, and may interrupt it anywhere.  The script     *)
(* runs under set -e.  The cluster, external, carries on by itself: the    *)
(* replication manager makes the pods of a controller and the kubelet      *)
(* starts them, with the secret they mount, and ends those deleted.        *)
(*                                                                         *)
(* A certificate is the number of the test run that made it; 0 stands for  *)
(* none, and Torn for a .json file that was opened and never written.      *)
(***************************************************************************)
EXTENDS Naturals, FiniteSets

CONSTANTS Pods,        \* identities of pods
          Replicas,    \* spec.replicas of the app
          MaxRuns,     \* bound on test runs
          MaxFailures, \* bound on kubectl calls that fail and on interrupts
          Foreign      \* has another app a pod that stays Pending?

ASSUME TestHarnessAssumption ==
  /\ Replicas \in Nat \ {0}
  /\ {MaxRuns, MaxFailures} \subseteq Nat
  /\ Foreign \in BOOLEAN

VARIABLES script,    \* where the script is
          run,       \* the number of this run
          crt,       \* nginxhttps.crt and .key in the directory
          json,      \* nginxhttps.json
          secret,    \* the secret at the API server
          rc,        \* the run that made the replication controller
          pod,       \* the pods of the app
          ips,       \* the pods on the nodes that getNodeIPs found
          blind,     \* a kubectl of waitForPods failed in this run
          failures   \* of either kind so far

certFiles == <<crt, json>>
cluster == <<secret, rc, pod>>
testVars == <<script, run, certFiles, cluster, ips, blind, failures>>

Torn == MaxRuns + 1
Ended == {"done", "failed"}
NoPod == [phase |-> "none", run |-> 0, cert |-> 0]

TestInit ==
  /\ script = "setup" /\ run = 1
  /\ crt = 0 /\ json = 0 /\ secret = 0 /\ rc = 0
  /\ pod = [p \in Pods |-> NoPod]
  /\ ips = {} /\ blind = FALSE /\ failures = 0

In(phase) == {p \in Pods : pod[p].phase = phase}
Failure == failures < MaxFailures /\ failures' = failures + 1
-----------------------------------------------------------------------------
(* The script *)

\* kubectl delete rc: the controller is scaled to 0 first, so that its pods
\* are being deleted when it is gone.
Deleted == [p \in Pods |-> IF pod[p].phase \in {"Pending", "Running"}
                           THEN [pod[p] EXCEPT !.phase = "Terminating"] ELSE pod[p]]

\* cleanup, at the start of setup and at the end of run.
Cleanup ==
  /\ script \in {"setup", "clean"}
  /\ script' = (IF script = "setup" THEN "certs" ELSE "done")
  /\ rc' = 0 /\ secret' = 0 /\ pod' = Deleted
  /\ UNCHANGED <<run, certFiles, ips, blind, failures>>

\* kubectl deletes rc,svc,secrets in this order and fails before the secrets.
CleanupErr ==
  /\ script \in {"setup", "clean"} /\ Failure
  /\ script' = "failed"
  /\ rc' = 0 /\ pod' = Deleted
  /\ UNCHANGED <<run, certFiles, secret, ips, blind>>

\* makeCerts refuses to make what is there.
CertsFound ==
  /\ script = "certs" /\ crt # 0 /\ json # 0
  /\ script' = "failed"
  /\ UNCHANGED <<run, certFiles, cluster, ips, blind, failures>>

\* openssl makes the key and the certificate.
MakeCert ==
  /\ script = "certs" /\ (crt = 0 \/ json = 0)
  /\ crt' = run
  /\ script' = "json"
  /\ UNCHANGED <<run, json, cluster, ips, blind, failures>>

\* > "${host}".json, before make_secret.go runs.
OpenJson ==
  /\ script = "json"
  /\ json' = Torn
  /\ script' = "write"
  /\ UNCHANGED <<run, crt, cluster, ips, blind, failures>>

\* make_secret.go writes the secret.
MakeJson ==
  /\ script = "write"
  /\ json' = crt
  /\ script' = "create"
  /\ UNCHANGED <<run, crt, cluster, ips, blind, failures>>

\* kubectl create -f: the secret of makeCerts.
CreateSecret ==
  /\ script = "create"
  /\ IF secret = 0 THEN secret' = json /\ script' = "app"
                   ELSE secret' = secret /\ script' = "failed"
  /\ UNCHANGED <<run, certFiles, rc, pod, ips, blind, failures>>

\* kubectl create -f nginx-https.yaml
CreateApp ==
  /\ script = "app"
  /\ IF rc = 0 THEN rc' = run /\ script' = "terminating" ELSE rc' = rc /\ script' = "failed"
  /\ UNCHANGED <<run, certFiles, secret, pod, ips, blind, failures>>

\* Mutant of WaitTerminating: only the second loop is there.
WaitTerminatingNot ==
  /\ script = "terminating"
  /\ script' = "pending"
  /\ UNCHANGED <<run, certFiles, cluster, ips, blind, failures>>

\* waitForPods: the first loop looks for pods with a deletionTimestamp, of any
\* app, and ends when kubectl names none.  The output of a kubectl that failed
\* is empty.
WaitTerminating ==
  /\ script = "terminating"
  /\ In("Terminating") = {}
  /\ script' = "pending"
  /\ UNCHANGED <<run, certFiles, cluster, ips, blind, failures>>

\* Mutant of WaitPending: the count its TODO asks for, off by one.
WaitPendingCounts ==
  /\ script = "pending"
  /\ Cardinality(In("Running")) > Replicas
  /\ script' = "nodes"
  /\ UNCHANGED <<run, certFiles, cluster, ips, blind, failures>>

\* The second loop looks for Pending pods of any app.
WaitPending ==
  /\ script = "pending"
  /\ In("Pending") = {} /\ ~Foreign
  /\ script' = "nodes"
  /\ UNCHANGED <<run, certFiles, cluster, ips, blind, failures>>

WaitErr ==
  /\ script \in {"terminating", "pending"} /\ Failure
  /\ script' = (IF script = "terminating" THEN "pending" ELSE "nodes")
  /\ blind' = TRUE
  /\ UNCHANGED <<run, certFiles, cluster, ips>>

\* status.phase of a pod that is being deleted is still Running.
PhaseRunning == {p \in In("Running") \cup In("Terminating") : pod[p].cert # 0}

GetNodeIPs ==
  /\ script = "nodes"
  /\ ips' = PhaseRunning
  /\ script' = "curl"
  /\ UNCHANGED <<run, certFiles, cluster, blind, failures>>

\* A kubectl of getNodeIPs fails.  It runs in a command substitution, where
\* set -e does not hold: the script goes on with the addresses it got.
GetNodeIPsErr ==
  /\ script = "nodes" /\ Failure
  /\ ips' \in SUBSET PhaseRunning
  /\ script' = "curl"
  /\ UNCHANGED <<run, certFiles, cluster, blind>>

\* curlHTTPSWithHost with $h.crt as the only certificate authority, for every
\* address; what runs at an address may have ended by now.  curlNodePort then
\* asks the service and changes nothing; that it fails is a case of Abort.
Curl ==
  /\ script = "curl"
  /\ \/ /\ \A p \in ips : pod[p].phase = "Running" /\ pod[p].cert = crt
        /\ script' = "clean"
     \/ /\ \E p \in ips : pod[p].phase # "Running" \/ pod[p].cert # crt
        /\ script' = "failed"
  /\ UNCHANGED <<run, certFiles, cluster, ips, blind, failures>>

\* set -e: a command fails, or the tester types ^C.
Abort ==
  /\ script \notin Ended /\ Failure
  /\ script' = "failed"
  /\ UNCHANGED <<run, certFiles, cluster, ips, blind>>

Script ==
  \/ Cleanup \/ CertsFound \/ MakeCert \/ OpenJson \/ MakeJson \/ CreateSecret \/ CreateApp
  \/ WaitTerminating \/ WaitPending \/ GetNodeIPs \/ Curl

\* The tester: make clean, which may be interrupted too, and the next run.
CleanCrt ==
  /\ script \in Ended /\ crt # 0
  /\ crt' = 0
  /\ UNCHANGED <<script, run, json, cluster, ips, blind, failures>>

CleanJson ==
  /\ script \in Ended /\ crt = 0 /\ json # 0
  /\ json' = 0
  /\ UNCHANGED <<script, run, crt, cluster, ips, blind, failures>>

RunAgain ==
  /\ script \in Ended /\ run < MaxRuns
  /\ script' = "setup" /\ run' = run + 1
  /\ ips' = {} /\ blind' = FALSE
  /\ UNCHANGED <<certFiles, cluster, failures>>
-----------------------------------------------------------------------------
(* The cluster *)

CreatePod(p) ==
  /\ rc # 0 /\ pod[p] = NoPod
  /\ Cardinality(In("Pending") \cup In("Running")) < Replicas
  /\ pod' = [pod EXCEPT ![p] = [phase |-> "Pending", run |-> rc, cert |-> 0]]
  /\ UNCHANGED <<script, run, certFiles, secret, rc, ips, blind, failures>>

StartPod(p) ==
  /\ pod[p].phase = "Pending" /\ secret # 0
  /\ pod' = [pod EXCEPT ![p].phase = "Running", ![p].cert = secret]
  /\ UNCHANGED <<script, run, certFiles, secret, rc, ips, blind, failures>>

EndPod(p) ==
  /\ pod[p].phase = "Terminating"
  /\ pod' = [pod EXCEPT ![p] = NoPod]
  /\ UNCHANGED <<script, run, certFiles, secret, rc, ips, blind, failures>>

Cluster == \E p \in Pods : CreatePod(p) \/ StartPod(p) \/ EndPod(p)

TestNext ==
  \/ Script \/ CleanupErr \/ WaitErr \/ GetNodeIPsErr \/ Abort
  \/ CleanCrt \/ CleanJson \/ RunAgain
  \/ Cluster

\* The script and the cluster go on; failures and the tester are not bound to.
TestFairness ==
  /\ WF_testVars(Script)
  /\ \A p \in Pods : WF_testVars(CreatePod(p)) /\ WF_testVars(StartPod(p)) /\ WF_testVars(EndPod(p))

TestSpec == TestInit /\ [][TestNext]_testVars /\ TestFairness
-----------------------------------------------------------------------------
(* Properties *)

TestTypeOK ==
  /\ script \in Ended \cup {"setup", "certs", "json", "write", "create", "app", "terminating",
                        "pending", "nodes", "curl", "clean"}
  /\ run \in 1 .. MaxRuns
  /\ {crt, secret, rc} \subseteq 0 .. MaxRuns /\ json \in 0 .. Torn
  /\ pod \in [Pods -> [phase: {"none", "Pending", "Running", "Terminating"},
                       run: 0 .. MaxRuns, cert: 0 .. MaxRuns]]
  /\ ips \subseteq Pods /\ blind \in BOOLEAN /\ failures \in 0 .. MaxFailures

\* The test speaks to what this run of it has made.  Unless a kubectl of
\* waitForPods failed, these are pods of this run only, never one that an earlier
\* run left behind, wherever that run ended: cleanup marks the old pods and
\* waitForPods waits for them to go before it asks for the nodes.  And what
\* the pods of this run serve is the certificate curl trusts, $h.crt, which
\* makeCerts makes anew when one of its three files is missing, whatever files
\* and secrets earlier runs left.
OnlyThisRunsPods ==
  script = "curl" =>
    /\ ~blind => \A p \in ips : pod[p].run = run
    /\ \A p \in Pods : pod[p].phase = "Running" /\ pod[p].run = run => pod[p].cert = crt

\* A run of the test comes to an end, its waits too, if no pod of another app
\* stays Pending.
RunEnds == \A n \in 1 .. MaxRuns : (run = n) ~> (script \in Ended)
=============================================================================
