# TLA+ models of ingress.local

The repository collects programs and examples around Kubernetes Ingress: a
library that keeps *receivers* in an annotation of an Ingress, a command that
uses it, an haproxy container with its supervisor, a self-contained https
client and server, a small static site, test scripts and configuration.
Everything below `Godeps/_workspace` is vendored.

This directory models the programs that keep state or run concurrently and the
vendored packages they rest on; it checks them with TLC on small instances and
proves every safety property that a run checks with TLAPS, for all values of the
constants.

## Inventory

The repository's own programs:

| component | source | state | operations | what is hard |
|---|---|---|---|---|
| receivers library | `lib/receivers.go` | the annotation `Ingress.receivers` of one Ingress in the API server | `Get`, `Update` | read, change, write back without a lock; lost replies; a nil annotation map |
| update command | `hack/receivers/update.go` | its flags | `main`: check flags, `Update`, `Get`, print | what it prints is read a second time, and logged through a buffer |
| haproxy daemonizer | `examples/https/haproxy/daemonizer.go`, `haproxy_reload` | `.pem` file, log socket, haproxy process | `createPEM`, `catFiles`, `startSyslogServer`, `reloadHaproxy`, `main` | crashes between steps, files that outlive a container, a secret replaced meanwhile |
| tls_server | `tls_server/client_server.go` | port 443, certificate, back-off | `generateRSACerts`, `listenAndServeTLS`, `startServer`, `simpleGET`, `main` | server goroutine against retrying client, a foreign program on the port |
| test harness | `hack/testlib.sh`, `examples/*/test.sh`, `hack/make_secret.go` | the cluster, files of the directory | `cleanup`, `makeCerts`, `waitForPods`, `getNodeIPs`, curl | the cluster acts on its own, ignored failures, files of an earlier run |
| site index | `examples/bench/ab/build_index.sh`, `startup.sh`, cron | `index.html` files | `genindex` | overlapping builds, changes meanwhile |
| nginx template | `controllers/nginx` | none | template expansion | pure |
| configuration | `confs/`, yaml, Dockerfiles | none | none | static |

The vendored packages under them that keep state shared by goroutines, requests
or processes:

| component | source | what is hard |
|---|---|---|
| API client | `client/unversioned/request.go` | a retried request and its body, lost replies, one error that must stop all later calls |
| rate limiter | `juju/ratelimit`, `util/throttle.go` | ticks that are credited late, callers in debt |
| syslog server | `ziutek/syslog` | three goroutines, a queue that drops, shutdown |
| glog | `golang/glog` | buffers, rotation, a flush that hangs while the process must exit |
| rolling updater | `kubectl/rolling_updater.go` | limits kept while pods come and go; interrupted and run again |

How they interact. The command calls the library, which talks to the API server
through the API client and its rate limiter; other users and controllers write
to the same Ingress; the command logs through glog. The daemonizer starts the
syslog server and then haproxy, which logs to the socket of the former; the
kubelet or docker restarts the container when the daemonizer ends. The rolling
updater is how the vendored kubectl replaces the pods of the replication
controllers that the examples' manifests declare; no program here calls it.

What makes each part correct: no receiver and no foreign edit is lost and a
successful `Update` took effect exactly once (library, request); haproxy is
started on a complete `.pem` and with a log socket, whatever crashed before, and
what it logs is printed (daemonizer, syslog, container); only its own server is
believed and the program ends (tls_server); a test speaks to what this run of it
has made (harness); every page is right in the end (site index); limits hold at
every moment (rate limiter, rolling update); a line is not lost, doubled or
overtaken between goroutines (syslog, glog); nobody waits for ever (all).
`PROJECT.json` lists the hazards line by line with the properties that cover
them.

## Modules

### Receivers, Registry, MCReceivers

`Receivers` has one process per run of the command. Its `pc` follows `main`:
`start` (flags), `update` (about to GET), `put` (PUT sent), `get` (`Update`
returned nil), and one value per exit: `badFlags`, `updateErr`, `getErr`,
`panic`, `done`. `copy[u]` is the Ingress a run has read and changed, `put[u]`
the fate of its request. `UpdateSend` is the body of `Update` up to the PUT;
the GET takes effect there, and nothing the code does between GET and PUT can
be seen from outside. `Upsert` is the loop at lines 74-83, which replaces
*every* entry of the host. A receiver is a host and a binding (port and
certificate); a flag that was left out is the binding `Unset`, which `main`
rejects.

The API server is external and modelled from how the code relies on it: a
stored Ingress has a `resourceVersion`, every write gives it a new one, a PUT
is carried out only if it carries the stored version. A PUT can be carried out
after its client has given up (`ConnectionLost` leaves `put[u] = "sent"`). The
annotation is a list, text that does not decode, absent, or absent together
with the whole map (`"nil"`).

`Registry` is the abstract specification: each `Update` binds one host in one
atomic step, at most once, exactly once if it returned nil, possibly still
after it returned an error. `Receivers` implements it
(`ImplementsRegistry`): the registry is the set of bindings recorded per host.

### Daemonizer

One action per system call of `main` whose effect can be seen by another
process or survives a crash: stat, read `.crt`, read `.key`, create, write,
bind, start haproxy, `select {}`. `Die` is the end of process 1 and so of the
container: it is reached by `log.Fatalf` on a deterministic failure
(`SharedDir`, `NoCrt`, `ReloadErr`) and by `Crash`, which stands for a kill and
for any failing system call. `Restart` keeps the file system or not, as the
constant `Kept` allows: the kubelet makes a fresh container, `docker restart`
does not. `Layouts` are the ways to mount things: as the manifest does, with
the secret in the directory of the `.pem`, and as the README's docker command
does. Secrets are version numbers, so a `.pem` that joins two of them shows.

### Syslog

The receiver goroutine (`Receive`, `Handle`, `ReceiverReturns`), `mainLoop`
(`Get`, `PrintLine`, `End`) and `Shutdown` in four steps, around a channel of
capacity `QLen`. A datagram is its number. The parsing of a message is left out:
it decides nothing, except that an empty datagram makes the receiver panic
(`server.go:121`), and haproxy sends none. The daemonizer never calls `Shutdown`;
the model lets it happen at any time or never, which includes what the
daemonizer does. Whether the receiver still sees the handlers after `Shutdown`
has set them to nil is a data race and a nondeterministic choice.

### TLSServer

`main` and the goroutine of `startServer`, the port, and the certificate. The
client accepts a certificate if it is the CA it was given and names the host;
another program on the port offers one that even has the same name. Every
deterministic failure of the code that its inputs exclude (a key that does not
fit its certificate, a CA that does not decode) is left out, the others are
`GenerateErr`, `GetErr` and `ServeErr`. A response is read (`GetOk`), logged
(`LogResponse`) and followed by the return of `main` (`Return`) in three steps:
`log.Fatalf` of the server goroutine may come before, between or after them, and
`OnlyOwnServer` and `FailureReported` say which outcomes are left.

### Container

The daemonizer and the syslog server in one process: `Container` extends
`Daemonizer`, instantiates `Syslog` and joins their actions. Process 1 dying ends
the server (`EndServer`): what is in the socket, the queue or a goroutine's
hands is counted as gone with it, and a new server starts from nothing. Haproxy
logs (`Log`) only while it runs, and to nobody when the socket is not bound.

### Request, Call

`Request` follows one request through its builder calls (`Set`, `Body`,
`ParamSpecial`; each a no-op after the first error) and through `Do`:
`http.NewRequest` that fails (`NewRequestErr`), `Send`, `Respond`, `Lost`, the
retry of a 429 with `Retry-After`, `transformResponse`.
An answer can be lost with the request carried out, to be carried out later
(`stray`, `Late`), or never; after an error of the server's own (5xx) it may be
carried out later too. `Call` is the abstract specification: an operation
that is tried a bounded number of times, is carried out at most once, and was if
success is reported. `Request` implements it; the fate of a PUT in `Receivers`
is the one `Call` allows.

### TokenBucket

`Wait`, `WaitMaxDuration` and `TakeAvailable` of a bucket under a clock counted
in units of time; the limiters of `util/throttle.go` are callers that ask for one
token. A call is two steps: it reads the clock (`ReadClock`), and later takes the
mutex and goes by the time it has read. Others may have been there meanwhile, with
a later time: the ticks credited are then negative and `availTick` goes back.
`Adjusted` is this late credit, with the early return for a full bucket. The clock
itself is never set back, and a call asks for at most the capacity, as
`throttle.go` does (`Counts`; see below for what happens above it).

### Glog

`output`, the buffered file of each severity, rotation, the flush daemon,
`Fatal` with its stacks and its flush under a timeout, and the ways the process
ends. A line is its number; the stacks are one more line.

The disk is external and makes trouble. In any call it may refuse what a buffer
holds or the creation of a file, of one severity or of all (`Answers`). A refused
flush is ignored by `flushAll` and `rotateFile`, but a `bufio.Writer` remembers its
error, and the next `Write` returns it; an error of `Write` (`WriteErr`) or of
`createFiles` (`CreateErr`) calls `exit`, which flushes all files and ends the
process with status 2, so that the files below do not get the line. After a Fatal
is written, errors no longer end the process (`logExitFunc`). A file operation may
also hang with the mutex held (`Hang`). `bad` records that the disk did not take
something of a file's buffer; `InOrder` and `FatalIsWritten` promise completeness
only of files where this did not happen. `glog.Exit`, a Fatal without stacks,
is left out.

### RollingUpdate, MCRollingUpdate

`Update` with `getOrCreate`, `scaleUp`, `scaleDown`, the count of ready pods and
the cleanup. It may be interrupted anywhere and run again, and all it then knows
is in the annotations. The two lists of pods are two steps, between which the
cluster makes, starts, deletes and ends pods, and pods fail (`PodFails`: ready no
longer, or gone and replaced). No assumption is made on how long a deleted pod
takes to go. The history variable `stale` counts the pods that were counted as
ready but cannot be relied on, being terminating, given up by an earlier
`scaleDown`, or failed since; `KeepsAvailable` says that the minimum is never
missed by more than those.

### SiteIndex, TestHarness

`SiteIndex`: builds that list, link, truncate and write, overlapping, while users
change files. `TestHarness`: one test script under `set -e`, in a directory that
keeps the files of earlier runs, against a cluster that acts on its own. A
`kubectl` that fails in `getNodeIPs` runs in a command substitution and gives
fewer addresses or none (`GetNodeIPsErr`); `curlNodePort` changes nothing and its
failure is a case of `Abort`. Their specifications are `SiteSpec` and `TestSpec`, so that one module of proofs can
extend both and `TLSServer`.

## Runs

`PROJECT.json` says of each run what it shows. The two marked V state what a
comment or a manifest says and find it violated (see Findings).

| run | properties | bounds |
|---|---|---|
| `receivers` | `CopyIsCurrent`, `SomeUpdateWins`, `ReadYourUpdate`, `EntriesKept`, `NoNewDuplicates`, `ImplementsRegistry`, `Termination` | 2 runs, 2 hosts, 2 bindings, 2 edits, 1 fault |
| `receivers_panic` V | `UpdateReturns` | 1 run |
| `container` | `LogSocketBound`, `Accounted`, `LogInOrder`, `PemKept`, `RecoversUnlessTorn`, `LoggedIsPrinted` | 3 crashes, 2 new secrets, every layout, files kept or not, queue 2, socket 1, 4 lines |
| `daemonizer_torn` V | `PemConverted` | 1 crash, files kept |
| `syslog` | `InOrder`, `BurstKept`, `Drained`, `ShutdownEnds` | queue 2, socket 2, 6 lines |
| `tls_server` | `OnlyOwnServer`, `BackoffBounded`, `GivesUpLate`, `FailureReported`, `Served` | 60 s as in the code, 2 faults |
| `request` | `FirstErrorStops`, `ImplementsCall`, `DoEnds` | 10 retries as in the code, 6 status codes, 3 verbs |
| `rate_limit` | `LongRunRate` | 2 goroutines, capacity 2, 2 tokens every 2 units, 6 units, 4 calls |
| `glog` | `InOrder`, `FatalIsWritten`, `FatalEnds` | 2 goroutines, 2 lines and 2 Fatals with their stacks, buffer 1, files of 3 lines, 1 fault |
| `rolling_update` | `SurgeBounded`, `KeepsAvailable`, `Rolls` | 0, 1 or 3 pods to 0, 1 or 2, every pair of 4 limits, 2 interrupts, 1 failing pod |
| `site_index` | `ServedWithIndex`, `Converges` | 2 directories, 2 file names, 2 overlapping builds, 3 changes |
| `test_harness` | `OnlyThisRunsPods`, `RunEnds` | 3 test runs, 2 pods, 2 faults |

The runs `receivers`, `syslog` and `tls_server` also check `TypeOK`, which the proofs start from. In the other modules `TypeOK` says what the
variables hold, for the reader; the proofs about them show what they need of it.

Why the bounds are enough. *Receivers*: two runs show every conflict, because a
PUT only compares versions with the stored object; two edits allow a delete and
a create, or a foreign list and a foreign edit of the rest, between any two
steps of a run; the lists others write include one that names a host twice; a
run makes only one PUT that one fault can lose. *Container*: three crashes allow
one while the `.pem` is written, one after it is complete and one in the
recovery; two new secrets give a `.pem` that mixes two and a stale one; four
lines fill socket, queue and goroutines before, between and after crashes.
*Syslog*: six lines overflow a queue of two while one is being printed and one is
in the receiver's hands. *TLSServer, Request*: the code's own bounds.
*TokenBucket*: a tick of two units, so that calls fall between ticks; four calls
fill, empty and overdraw a bucket of two; two callers give one that reads the
clock before and takes the mutex after any number of ticks and calls of the other.
*Glog*: buffers and files smaller than what is logged, so that each fills and is
rotated while somebody waits; one fault may strike one file or all, in any call,
and its effects (an error that lasts, a closed file) meet all later calls.
*RollingUpdate*: sizes up to three with limits as numbers and percentages, which
round to 0, to 1 and to all; fewer, as many and more pods than before; one failing
pod between any two steps, beside any number that are still terminating. *SiteIndex*: two builds in one directory
overlap in every way, and a build reads a directory that changes before and
after it lists it; one of the names contains `index.html`. *TestHarness*: what
the first run leaves behind meets the second, and what both leave the third.
No run uses symmetry.

Fairness. `Receivers`, `Request`: a run never waits for anything but the API
server, and the server answers or the connection ends; the code has no timeout
and needs this. `Container`: `main` blocks nowhere before `select {}`, ended
containers are started again, and goroutines that can run do run. `Syslog`,
`TLSServer`: goroutines that can run do run, and the clock goes on.
`RollingUpdate`: the updater goes on, somebody runs an interrupted update again,
and the cluster makes, starts and ends pods. `Glog`: timers fire, and whoever has
the mutex goes on unless the disk hangs; a Fatal that waits for the mutex gets it
(strong fairness), since the daemon leaves it alone for 30 s. `SiteIndex`: cron starts builds and they go on.
`TestHarness`: the script goes on and the cluster makes, starts and ends pods.
Nothing is assumed of edits, faults, crashes, interrupts, rotations, of who
takes the port, or of anybody who shuts something down.

## Proofs

`Receivers_proofs` proves all safety properties of the run `receivers`, for
every set of runs, hosts, bindings, lists of other users and any bounds:

* `TypeCorrect`, then `CopiesAreCurrent`. `CopyIsCurrent` is inductive with the
  types: every write increases the version, so a copy made before it has a
  smaller version and can never be accepted again.
* Hence an accepted PUT is one `Upsert` on the stored list (`ApplyIsUpsert`),
  and `UpsertEntries` says what that does, entry by entry: `EntriesAreKept`
  and `NoDuplicatesAppear` follow.
* `OneUpdateWins` needs `Undisturbed`: before the first write every PUT under
  way carries the stored version. `UpdatesAreRead` needs `AllRecorded`: a host
  that was recorded stays recorded, though another run may have bound it anew.
  Both rest on `Protocol`, which ties a run's `pc` to the state of its PUT.
* `UpdateIsAtomic` is the refinement of `Registry`. It uses all of these
  invariants: `Protocol` for "at most once" and for complete flags,
  `CopyIsCurrent` for "nothing else changes".

`TypeCorrect` is also proved of `Daemonizer`, `Syslog` and `TLSServer`.

`Container_proofs` is about the daemonizer alone and in its container. It proves
`LogSocketBound` and `PemKept` for any number of crashes, with kept files or not,
and `PemConverted` under the assumption that no restart keeps files;
`daemonizer_torn` shows that the assumption is needed. `DaemonizerInContainer`
says that the container takes no step the daemonizer could not take, so all of
this holds of it. `LogIsInOrder` and `NoLineDisappears` then join the invariants
of the two parts: while the process runs, its server is a `Syslog` that nobody
shuts down (`Running`: the types and `Flow` of `Syslog_proofs`, used through
`INSTANCE`), and `Supervised` says that haproxy only runs behind a bound socket.
`Accounted` is inductive with these: each step moves a line from one place to
another, and the end of the process empties all places but `printed`, `lost`,
`refused` and `gone`.

`Syslog_proofs` proves `InOrder`, `BurstKept` and `Drained` for every length of
the queue and of the socket's buffer. The key lemma is `AcceptedGrows`: what has
been queued (`Accepted`: printed, being printed, waiting) changes only by
`Handle`, at its end. `InOrder` is not inductive; `Flow` also orders the
message the receiver holds and those in the socket. `BurstKept` follows from
`Behind`: the first `QLen` of the queued messages are older than any dropped
one, and stay so because `Accepted` only grows. `Drained` needs that nothing is
queued on a closed channel (`Ended`).

`Request_proofs` proves `FirstErrorStops` and the refinement `ImplementsCall`
for any verbs and status codes and any number of retries. The invariant
(`Progress`) counts: before attempt n+1 the server has seen n attempts, none
of which it carried out, and no later one follows an answer that leaves open
whether it did. Each step of `Request` is then a step of `Call` or a stutter:
building the request and waiting for a retry are stutters.

`TokenBucket_proofs` proves `LongRunRate` for every capacity, quantum, length of
a tick and number of callers. The invariant is `Balance`: what was handed out
and what is left, debts counted negatively, is at most what the bucket held
first plus what the credited ticks brought in. A call that comes late with an old
time credits a negative number of ticks and sets `availTick` back by as many, so
`AdjustKeepsBalance` holds whatever the order of the calls; the one exception is a
full bucket, which keeps its `availTick`, and has enough for any call within the
capacity. A call that must wait is given the first tick that covers its debt,
which is why its tokens count at that tick; the lemmas about `\div` say that this
tick begins no earlier than it should.

`RollingUpdate_proofs` proves `SurgeBounded` and the action property
`KeepsAvailable`, for all sizes and limits and any number of interrupts. Neither
is inductive. `Known` ties what a run has read to the annotations and sizes,
which a later run starts from; `Pods` says that only the old controller has pods
above its size, and without interrupts only while `scaleDown` waits; `Surge`
counts the old controller's pods with what the new one asks for; `Counted` says
that what `pollForReadyPods` saw is still there when `scaleDown` uses it, but for
the stale pods, and `Spared` that the pods still to be deleted were counted as
spare, but for those stale at that time, whichever run that was.

`Glog_proofs` proves `InOrder` and `FatalIsWritten` for any number of goroutines
and faults and any lengths of buffers and files. `Keeps` and `Adds` say what an
operation may do to a file: what is on disk and in the buffer, read one after the
other, stays or loses an end of it (then the file is `bad`), and gets the new line
or not; `FlushFacts`, `RotateFacts` and `WriteFacts` show this of each operation
and each answer of the disk. The invariant then needs `Held` (who is in the middle
of a line or of `exit` has the mutex), `Errors` (a buffer has an error only if the
disk refused it), `Emptied` (who flushes has emptied the good files it is past,
and nobody has written to them since) and `Shown` (a line that no file could be
created for is on standard error).

`Examples_proofs` is about the programs that stand alone.
* `TLSServer`: `BackoffBounded` and `GivesUpLate` for every bound of the loop
  (the sum of the pauses is always one less than the next pause) and
  `OnlyOwnServer` for any behaviour of the other programs and wherever
  `log.Fatalf` strikes (`Trust` follows the response from `GetOk` to the log).
* `TestHarness`: `OnlyThisRunsPods` for any number of runs, pods and faults. The
  invariant `Fresh` follows the script: from cleanup on there are no live pods,
  no controller and no secret but those this run makes, and once the first loop
  of `waitForPods` has ended, none that terminates either.
* `SiteIndex`: `ServedWithIndex` for any number of builds. Until the root has an
  index, the build that `startup.sh` waits for has the root before it
  (`Underway`), and the index never goes away again.

The assumptions are the `ASSUME`s of the modules, which TLC evaluates: `Unset`
is no binding, other users write lists of receivers, the host name is no IP
address, the root is no directory in itself, the success codes are those from
200 to 206 and 101 (a change of protocol) is not answered, queues, buffers,
files and ticks are not of length 0, calls ask for no more tokens than the
capacity, sizes of controllers are numbers, and bounds are numbers.

Only model-checked: the liveness properties (`Termination`, `ShutdownEnds`,
`FailureReported`, `Served`, `Converges`, `RunEnds`, `DoEnds`, `Rolls`,
`FatalEnds`, `RecoversUnlessTorn`, `LoggedIsPrinted`), which rest on fairness
and are out of reach of this prover.

## Findings

1. `Update` panics when the Ingress has no annotations (`receivers_panic`,
   `lib/receivers.go:88`).
2. A `.pem` torn by a crash is taken for a finished one when the container is
   restarted with its files (`daemonizer_torn`, `daemonizer.go:110`).

Seen while modelling, without a run of their own; the models take these steps as
the code does, and the properties above are stated so that they hold all the
same:

* The docker command of `examples/https/haproxy/README.md` mounts another file
  name than the entrypoint looks for: layout `pemOnly` never starts haproxy.
* The update command's last log line, its result, stays in glog's buffer: `main`
  returns without a flush (`hack/receivers/update.go:71`).
* `waitForPods` goes on when a `kubectl` fails (`blind`), and waits for pods of
  other apps too (`Foreign`).
* A file whose name contains `index.html` is never linked (`Like`).
* syslog: a `Shutdown` between the receiver's read and its `Handle` makes it
  panic; the daemonizer does not call it. An empty datagram does so too.
* API client: a request sent again after a 429 has no body.
* Rate limiter: a full bucket does not move `availTick`, so that a call after a
  pause can take one bucket and the next is credited for the pause. For the same
  reason a call for more than the capacity that comes to a full bucket with an old
  time is promised its tokens too early, and the rate is exceeded.
* glog: a line whose own `Write` or rotation fails is lost with the process if it
  is not an error (`glog.go:812-821`); a flush error that the daemon ignores ends
  the process at a later line; a `Fatal` called while a flush hangs with the mutex
  waits for ever (`glog.go:672`): its time limit only begins after its line is
  written.
* Rolling update: one interrupted in its cleanup is refused when run again, one
  interrupted while the last old pods go can leave pods without a controller.
  Terminating pods count as ready, so that the minimum is not kept "at all times"
  (`rolling_updater.go:69-72`) but missed by the stale pods, and an update to fewer
  pods than must stay available can stop making progress.

## Not modelled

The text of messages, certificates, requests and configuration files; the size
limit of annotations; the pid file of `haproxy_reload` (the script is run once
per container); nginx, haproxy, the kubelet and the API server beyond what the
code relies on; the nginx template (one expansion of two nested loops, without
state); static configuration.

By far the most lines of the repository are vendored and have no state or
concurrency to model: declarations of API types, generated conversions, deep
copies and codecs, field-by-field validation, the scanners and emitters of yaml,
json and protobuf, printers, flags and help texts of kubectl. A model of those
would be a transliteration of data, and nothing in this repository calls most of
them; so the models cover a small share of all lines and nearly all of the
programs' own. Vendored packages with goroutines that no program here starts
(polling, work queues, watches, scalers and reapers, ssh, contexts, go-restful,
prometheus, libcontainer) are left out too, and so are the rolling updater's
`AbortRollingUpdate`, its Rename policy and the relabelling of controllers
before an update.

## Plan

Done: every program of the repository that has state; the composition of
daemonizer and syslog server; the API client, its rate limiter, glog and the
rolling updater; proofs of every safety property the runs check, and of the
refinements of `Registry` and `Call`.

Left: type correctness of the modules whose proofs only show the part they
need, and the safety halves of the liveness arguments (what a step may not undo
on the way to `ShutdownEnds`, `Rolls` or `Converges`).
