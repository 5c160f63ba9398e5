-------------------------- MODULE Container_proofs --------------------------
(***************************************************************************)
(* Proofs about the haproxy container: first about the daemonizer alone,   *)
(* for any number of crashes, restarts and replacements of the secret, and *)
(* then about the container as a whole, for queues and buffers of any      *)
(* length and any number of lines.  What is proved of Daemonizer holds     *)
(* there as it stands; of Syslog the lemmas about single steps are used,   *)
(* for the server's goroutines take its steps and only the end of the      *)
(* process is no step of Syslog.                                           *)
(***************************************************************************)
EXTENDS Container, TLAPS

P == INSTANCE Syslog_proofs WITH sock <- buffer
-----------------------------------------------------------------------------
(* The daemonizer *)

\* A step that ends the process keeps every variable's type.
LEMMA DieType ==
  ASSUME TypeOK, Die, crashes' \in 0..MaxCrashes
  PROVE  TypeOK'
BY DEF Die, TypeOK

\* The type of every variable is kept by every step of main, of the container
\* and of the cluster.
THEOREM TypeCorrect == Spec => []TypeOK
<1>1. Init => TypeOK
  BY DaemonizerAssumption DEF Init, TypeOK, Version, NoPem
<1>2. TypeOK /\ [Next]_vars => TypeOK'
  <2> SUFFICES ASSUME TypeOK, [Next]_vars PROVE TypeOK'
    OBVIOUS
  <2>1. CASE StatPem \/ ReadCrt \/ ReadKey \/ StartSyslog \/ Reload
    BY <2>1 DEF StatPem, ReadCrt, ReadKey, StartSyslog, Reload, Go, TypeOK
  <2>2. CASE OpenPem
    <3>1. 0 \in Version
      BY DaemonizerAssumption DEF Version
    <3> QED BY <2>2, <3>1 DEF OpenPem, Go, NoPem, TypeOK
  <2>3. CASE WritePem
    BY <2>3 DEF WritePem, Go, TypeOK
  <2>4. CASE SharedDir \/ NoCrt \/ ReloadErr
    BY <2>4, DieType DEF SharedDir, NoCrt, ReloadErr, TypeOK
  <2>5. CASE Crash
    <3>1. crashes' \in 0..MaxCrashes
      BY <2>5, DaemonizerAssumption DEF Crash, TypeOK
    <3> QED BY <2>5, <3>1, DieType DEF Crash
  <2>6. CASE HaproxyDies
    BY <2>6, DaemonizerAssumption DEF HaproxyDies, TypeOK
  <2>7. CASE Restart
    BY <2>7, DaemonizerAssumption DEF Restart, TypeOK, NoPem, Version
  <2>8. CASE Rotate
    BY <2>8, DaemonizerAssumption DEF Rotate, TypeOK, Version
  <2>9. CASE Waiting \/ UNCHANGED vars
    BY <2>9 DEF Waiting, vars, TypeOK
  <2> QED BY <2>1, <2>2, <2>3, <2>4, <2>5, <2>6, <2>7, <2>8, <2>9 DEF Next, Main
<1> QED BY <1>1, <1>2, PTL DEF Spec

\* haproxy runs only while main waits, and main waits only behind a socket
\* it has bound itself: what an earlier run left is out of the way.
Supervised ==
  /\ haproxy = "up" => pc = "idle"
  /\ pc \in {"reload", "idle"} => sock = "bound"

\* What main knows of haproxy and of the socket stays true over crashes.
LEMMA SupervisedHolds == Spec => []Supervised
<1>1. Init => Supervised
  BY DEF Init, Supervised
<1>2. Supervised /\ [Next]_vars => Supervised'
  <2> SUFFICES ASSUME Supervised, [Next]_vars PROVE Supervised'
    OBVIOUS
  <2>1. CASE StatPem \/ ReadCrt \/ ReadKey \/ OpenPem \/ WritePem
    BY <2>1 DEF StatPem, ReadCrt, ReadKey, OpenPem, WritePem, Go, Supervised
  <2>2. CASE StartSyslog \/ Reload
    BY <2>2 DEF StartSyslog, Reload, Go, Supervised
  <2>3. CASE SharedDir \/ NoCrt \/ ReloadErr \/ Crash
    BY <2>3 DEF SharedDir, NoCrt, ReloadErr, Crash, Die, Supervised
  <2>4. CASE HaproxyDies \/ Restart \/ Rotate
    BY <2>4 DEF HaproxyDies, Restart, Rotate, Supervised
  <2>5. CASE Waiting \/ UNCHANGED vars
    BY <2>5 DEF Waiting, vars, Supervised
  <2> QED BY <2>1, <2>2, <2>3, <2>4, <2>5 DEF Next, Main
<1> QED BY <1>1, <1>2, PTL DEF Spec

\* haproxy never runs without a socket to log to.
THEOREM HaproxyCanLog == Spec => []LogSocketBound
<1>1. Supervised => LogSocketBound
  BY DEF Supervised, LogSocketBound
<1> QED BY <1>1, SupervisedHolds, PTL

\* What createPEM knows of the .pem at each of its steps, kept files or not.
Writing ==
  /\ pc \in {"readCrt", "readKey", "open"} => pem.state = "absent"
  /\ pc = "write" => pem.state = "partial"

\* Every step of main respects what createPEM knows.
LEMMA WritingHolds == Spec => []Writing
<1>1. Init => Writing
  BY DEF Init, Writing
<1>2. TypeOK /\ Writing /\ [Next]_vars => Writing'
  <2> SUFFICES ASSUME TypeOK, Writing, [Next]_vars PROVE Writing'
    OBVIOUS
  <2>1. CASE StatPem \/ ReadCrt \/ ReadKey
    BY <2>1 DEF StatPem, ReadCrt, ReadKey, Go, Writing
  <2>2. CASE OpenPem
    BY <2>2 DEF OpenPem, Go, NoPem, Writing
  <2>3. CASE WritePem \/ StartSyslog \/ Reload
    BY <2>3 DEF WritePem, StartSyslog, Reload, Go, Writing
  <2>4. CASE SharedDir \/ NoCrt \/ ReloadErr \/ Crash
    BY <2>4 DEF SharedDir, NoCrt, ReloadErr, Crash, Die, Writing
  <2>5. CASE HaproxyDies \/ Restart \/ Rotate
    BY <2>5 DEF HaproxyDies, Restart, Rotate, Writing
  <2>6. CASE Waiting \/ UNCHANGED vars
    BY <2>6 DEF Waiting, vars, Writing
  <2> QED BY <2>1, <2>2, <2>3, <2>4, <2>5, <2>6 DEF Next, Main
<1> QED BY <1>1, <1>2, TypeCorrect, PTL DEF Spec

\* A whole .pem is never written over while its container runs.
THEOREM PemIsKept == Spec => PemKept
<1> DEFINE Step == pem.state = "whole" /\ pc # "dead" => pem' = pem
<1>1. TypeOK /\ Writing /\ [Next]_vars => [Step]_vars
  <2> SUFFICES ASSUME TypeOK, Writing, [Next]_vars, pem.state = "whole", pc # "dead"
               PROVE  pem' = pem
    OBVIOUS
  <2>1. CASE OpenPem \/ WritePem
    BY <2>1 DEF OpenPem, WritePem, Go, Writing
  <2>2. CASE StatPem \/ ReadCrt \/ ReadKey \/ StartSyslog \/ Reload
    BY <2>2 DEF StatPem, ReadCrt, ReadKey, StartSyslog, Reload
  <2>3. CASE SharedDir \/ NoCrt \/ ReloadErr \/ Crash
    BY <2>3 DEF SharedDir, NoCrt, ReloadErr, Crash, Die
  <2>4. CASE HaproxyDies \/ Restart \/ Rotate
    BY <2>4 DEF HaproxyDies, Restart, Rotate
  <2>5. CASE Waiting \/ UNCHANGED vars
    BY <2>5 DEF Waiting, vars
  <2> QED BY <2>1, <2>2, <2>3, <2>4, <2>5 DEF Next, Main
<1> QED BY <1>1, TypeCorrect, WritingHolds, PTL DEF Spec, PemKept

\* In a container that starts with a fresh file system every time, as the
\* kubelet's do, main goes on only with a .pem written to its end.
FreshFiles ==
  /\ pc \in {"syslog", "reload", "idle"} => pem.state = "whole"
  /\ pc = "stat" => pem.state = "absent"

\* Without kept files, haproxy is only ever started on a complete .pem.
THEOREM PemIsConverted ==
  ASSUME TRUE \notin Kept
  PROVE  Spec => []PemConverted
<1>1. Init => FreshFiles
  BY DEF Init, NoPem, FreshFiles
<1>2. TypeOK /\ FreshFiles /\ [Next]_vars => FreshFiles'
  <2> SUFFICES ASSUME TypeOK, FreshFiles, [Next]_vars PROVE FreshFiles'
    OBVIOUS
  <2>1. CASE StatPem \/ ReadCrt \/ ReadKey \/ OpenPem
    BY <2>1 DEF StatPem, ReadCrt, ReadKey, OpenPem, Go, FreshFiles
  <2>2. CASE WritePem
    BY <2>2 DEF WritePem, Go, FreshFiles
  <2>3. CASE StartSyslog \/ Reload
    BY <2>3 DEF StartSyslog, Reload, Go, FreshFiles
  <2>4. CASE SharedDir \/ NoCrt \/ ReloadErr \/ Crash
    BY <2>4 DEF SharedDir, NoCrt, ReloadErr, Crash, Die, FreshFiles
  <2>5. CASE Restart
    <3>1. pem' = NoPem
      BY <2>5, DaemonizerAssumption DEF Restart
    <3> QED BY <2>5, <3>1 DEF Restart, NoPem, FreshFiles
  <2>6. CASE HaproxyDies \/ Rotate
    BY <2>6 DEF HaproxyDies, Rotate, FreshFiles
  <2>7. CASE Waiting \/ UNCHANGED vars
    BY <2>7 DEF Waiting, vars, FreshFiles
  <2> QED BY <2>1, <2>2, <2>3, <2>4, <2>5, <2>6, <2>7 DEF Next, Main
<1>3. FreshFiles => PemConverted
  BY DEF FreshFiles, PemConverted
<1> QED BY <1>1, <1>2, <1>3, TypeCorrect, PTL DEF Spec
-----------------------------------------------------------------------------
(* The daemonizer in the container *)

\* The container takes no step that the daemonizer alone could not take.
THEOREM DaemonizerInContainer == ContainerSpec => Spec
<1>1. ContainerInit => Init
  BY DEF ContainerInit
<1>2. [ContainerNext]_all => [Next]_vars
  BY DEF ContainerNext, Daemon, Log, Receiver, MainLoop, all
<1> QED BY <1>1, <1>2, PTL DEF ContainerSpec, Spec

\* haproxy runs only behind a socket that main has bound, in the container too.
LEMMA SupervisedInContainer == ContainerSpec => []Supervised
  BY DaemonizerInContainer, SupervisedHolds, PTL
-----------------------------------------------------------------------------
(* The server's lines as sets *)

Elems(s) == {s[i] : i \in DOMAIN s}
Held(g, at) == IF g.pc = at THEN {g.msg} ELSE {}

\* The elements of a sequence, as it grows and shrinks.
LEMMA ElemsEmpty == Elems(<<>>) = {}
  BY DEF Elems

LEMMA ElemsAppend ==
  ASSUME NEW M, NEW s \in Seq(M), NEW x \in M
  PROVE  Elems(Append(s, x)) = Elems(s) \cup {x}
<1>1. /\ DOMAIN Append(s, x) = 1 .. Len(s) + 1 /\ DOMAIN s = 1 .. Len(s) /\ Len(s) \in Nat
      /\ \A i \in 1 .. Len(s) : Append(s, x)[i] = s[i]
      /\ Append(s, x)[Len(s) + 1] = x
  OBVIOUS
<1> QED BY <1>1 DEF Elems

LEMMA ElemsHead ==
  ASSUME NEW M, NEW s \in Seq(M), s # <<>>
  PROVE  Elems(s) = {Head(s)} \cup Elems(Tail(s))
<1>1. /\ DOMAIN s = 1 .. Len(s) /\ Len(s) \in Nat \ {0} /\ Head(s) = s[1]
      /\ DOMAIN Tail(s) = 1 .. Len(s) - 1
      /\ \A i \in 1 .. Len(s) - 1 : Tail(s)[i] = s[i + 1]
  OBVIOUS
<1>2. ASSUME NEW i \in 1 .. Len(s) PROVE s[i] \in {Head(s)} \cup Elems(Tail(s))
  <2>1. CASE i = 1
    BY <1>1, <2>1
  <2>2. CASE i # 1
    <3>1. i - 1 \in 1 .. Len(s) - 1 /\ (i - 1) + 1 = i
      BY <1>1, <2>2
    <3>2. Tail(s)[i - 1] = s[i]
      BY <1>1, <3>1
    <3> QED BY <1>1, <3>1, <3>2 DEF Elems
  <2> QED BY <2>1, <2>2
<1>3. ASSUME NEW i \in 1 .. Len(s) - 1 PROVE Tail(s)[i] \in Elems(s)
  <2>1. i + 1 \in 1 .. Len(s)
    BY <1>1
  <2> QED BY <1>1, <2>1 DEF Elems
<1>4. Head(s) \in Elems(s)
  BY <1>1 DEF Elems
<1> QED BY <1>1, <1>2, <1>3, <1>4 DEF Elems

\* The lines on their way are in the socket, with the receiver, in the queue or
\* with mainLoop.
LEMMA InFlightIs ==
  ASSUME P!TypeOK
  PROVE  InFlight = Elems(buffer) \cup Elems(queue) \cup Held(rcv, "handle") \cup Held(loop, "print")
<1>1. rcv.pc # "print" /\ loop.pc # "handle"
  BY DEF P!TypeOK
<1>2. {g.msg : g \in {h \in {rcv, loop} : h.pc \in {"handle", "print"}}}
        = Held(rcv, "handle") \cup Held(loop, "print")
  BY <1>1 DEF Held
<1> QED BY <1>2 DEF InFlight, Elems
-----------------------------------------------------------------------------
\* Nobody has called Shutdown, and the server's lines are in order.
Running == P!TypeOK /\ P!Flow /\ stop = "off"

\* The steps of the goroutines of Syslog, as they are without Shutdown.
LEMMA GoroutineStep ==
  ASSUME Running, S!Receiver \/ S!MainLoop
  PROVE  /\ P!Next /\ UNCHANGED <<sent, stop>>
         /\ \/ /\ rcv.pc = "read" /\ buffer # <<>>
               /\ rcv' = P!At("handle", Head(buffer)) /\ buffer' = Tail(buffer)
               /\ UNCHANGED <<queue, loop, printed, lost>>
            \/ /\ rcv.pc = "handle" /\ rcv' = P!At("read", 0)
               /\ queue' = Append(queue, rcv.msg) /\ lost' = lost
               /\ UNCHANGED <<buffer, loop, printed>>
            \/ /\ rcv.pc = "handle" /\ rcv' = P!At("read", 0)
               /\ queue' = queue /\ lost' = lost \cup {rcv.msg}
               /\ UNCHANGED <<buffer, loop, printed>>
            \/ /\ loop.pc = "get" /\ queue # <<>>
               /\ loop' = P!At("print", Head(queue)) /\ queue' = Tail(queue)
               /\ UNCHANGED <<buffer, rcv, printed, lost>>
            \/ /\ loop.pc = "print" /\ loop' = P!At("get", 0)
               /\ printed' = Append(printed, loop.msg)
               /\ UNCHANGED <<buffer, rcv, queue, lost>>
<1>1. stop = "off"
  BY DEF Running
<1>2. CASE S!Receive
  BY <1>2 DEF S!Receive, P!Receive, P!Receiver, P!Next, S!At, P!At, S!Dead, P!Dead, S!Open, P!Open
<1>3. CASE S!Handle
  BY <1>1, <1>3 DEF S!Handle, P!Handle, P!Receiver, P!Next, S!At, P!At, S!Closed, P!Closed
<1>4. CASE S!Get
  BY <1>4 DEF S!Get, P!Get, P!MainLoop, P!Next, S!At, P!At, S!Dead, P!Dead
<1>5. CASE S!PrintLine
  BY <1>5 DEF S!PrintLine, P!PrintLine, P!MainLoop, P!Next, S!At, P!At, S!Dead, P!Dead
<1>6. ~S!ReceiverReturns /\ ~S!End
  BY <1>1 DEF S!ReceiverReturns, S!End, S!Open, S!Closed
<1> QED BY <1>2, <1>3, <1>4, <1>5, <1>6 DEF S!Receiver, S!MainLoop

\* A line haproxy logs to the bound socket.
LEMMA SendStep ==
  ASSUME Running, S!Send
  PROVE  /\ P!Next /\ sent' = sent + 1 /\ sent < MaxSent
         /\ buffer' = (IF Len(buffer) < SockLen THEN Append(buffer, sent + 1) ELSE buffer)
         /\ UNCHANGED <<rcv, queue, loop, printed, lost, stop>>
  BY DEF Running, S!Send, P!Send, P!Next, S!Open, P!Open
\* What Syslog's lemmas say of one of its steps.
LEMMA ServerKeepsRunning ==
  ASSUME Running, P!Next, stop' = stop
  PROVE  Running'
<1>1. P!SyslogAssumption
  BY ContainerAssumption DEF P!SyslogAssumption
<1> QED BY <1>1, P!TypeStep, P!FlowStep DEF Running

\* printed is a part of what Syslog has accepted, the first.
LEMMA PrintedIsFirst ==
  ASSUME P!TypeOK, P!Flow
  PROVE  /\ P!Increasing(printed) /\ P!Below(printed, sent + 1)
<1> DEFINE held == IF loop.pc = "print" THEN <<loop.msg>> ELSE <<>>
<1>1. printed \in Seq(P!Message) /\ queue \in Seq(P!Message) /\ loop.msg \in P!Message
  BY DEF P!TypeOK
<1>2. held \in Seq(P!Message)
  BY <1>1
<1>3. P!Accepted = (printed \o held) \o queue
  BY DEF P!Accepted
<1> HIDE DEF held
<1> DEFINE front == printed \o held
<1>4. /\ front \in Seq(P!Message) /\ Len(front) = Len(printed) + Len(held)
      /\ \A i \in 1 .. Len(printed) : front[i] = printed[i]
      /\ Len(printed) \in Nat /\ Len(held) \in Nat
  BY <1>1, <1>2
<1> HIDE DEF front
<1>5. /\ Len(front \o queue) = Len(front) + Len(queue) /\ front \o queue \in Seq(P!Message)
      /\ \A i \in 1 .. Len(front) : (front \o queue)[i] = front[i]
      /\ Len(queue) \in Nat
  BY <1>1, <1>4
<1>6. DOMAIN printed = 1 .. Len(printed)
      /\ DOMAIN (front \o queue) = 1 .. Len(front) + Len(queue)
  BY <1>1, <1>5
<1>7. \A i \in DOMAIN printed :
        i \in DOMAIN P!Accepted /\ P!Accepted[i] = printed[i]
  BY <1>3, <1>4, <1>5, <1>6 DEF front
<1> QED BY <1>7 DEF P!Flow, P!Increasing, P!Below

\* When the process ends what is printed stays, and nothing else is left.
LEMMA EndKeepsRunning ==
  ASSUME Running, EndServer
  PROVE  Running'
<1>1. /\ buffer' = <<>> /\ queue' = <<>> /\ rcv' = P!At("read", 0) /\ loop' = P!At("get", 0)
      /\ UNCHANGED <<sent, printed, lost, stop>>
  BY DEF EndServer, S!At, P!At
<1>2. P!TypeOK'
  <2>1. 0 \in P!Message /\ SockLen \in Nat /\ QLen \in Nat
    BY ContainerAssumption DEF P!Message
  <2>2. <<>> \in Seq(P!Message) /\ Len(<<>>) <= SockLen /\ Len(<<>>) <= QLen
    BY <2>1
  <2>3. rcv' \in [pc: {"read", "handle", "returned", "panic"}, msg: P!Message]
        /\ loop' \in [pc: {"get", "print", "ended"}, msg: P!Message]
    BY <1>1, <2>1 DEF P!At
  <2> QED BY <1>1, <2>2, <2>3 DEF Running, P!TypeOK, P!Message
<1>3. P!Accepted' = printed
  <2>1. loop'.pc = "get" /\ printed \in Seq(P!Message)
    BY <1>1 DEF P!At, Running, P!TypeOK
  <2>2. P!Accepted' = (printed \o <<>>) \o <<>>
    BY <1>1, <2>1 DEF P!Accepted
  <2> QED BY <2>1, <2>2
<1>4. P!Increasing(printed) /\ P!Below(printed, sent + 1)
  BY PrintedIsFirst DEF Running
<1>5. P!Flow'
  <2>1. rcv'.pc # "handle" /\ DOMAIN buffer' = {}
    BY <1>1 DEF P!At
  <2> QED BY <1>1, <1>3, <1>4, <2>1 DEF P!Flow, P!Increasing, P!Below
<1> QED BY <1>1, <1>2, <1>5 DEF Running

\* The server runs on, until its process ends, over all restarts.
LEMMA RunningHolds == ContainerSpec => []Running
<1>1. ContainerInit => Running
  <2> SUFFICES ASSUME ContainerInit PROVE Running
    OBVIOUS
  <2>1. P!SyslogAssumption
    BY ContainerAssumption DEF P!SyslogAssumption
  <2>2. P!Init
    BY DEF ContainerInit, S!Init, P!Init, S!At, P!At
  <2>3. P!TypeOK
    BY <2>2, ContainerAssumption DEF P!Init, P!TypeOK, P!Message, P!At
  <2>4. P!Flow
    BY <2>2 DEF P!Init, P!Flow, P!Increasing, P!Below, P!Accepted, P!At
  <2> QED BY <2>2, <2>3, <2>4 DEF Running, P!Init
<1>2. Supervised /\ Running /\ [ContainerNext]_all => Running'
  <2> SUFFICES ASSUME Supervised, Running, [ContainerNext]_all PROVE Running'
    OBVIOUS
  <2>1. CASE UNCHANGED server
    BY <2>1 DEF server, Running, P!TypeOK, P!Flow, P!Accepted, P!Increasing, P!Below, P!Message
  <2>2. CASE Daemon
    BY <2>1, <2>2, EndKeepsRunning DEF Daemon
  <2>3. CASE Log
    <3>1. sock = "bound"
      BY <2>3 DEF Log, Supervised
    <3>2. S!Send
      BY <2>3, <3>1 DEF Log
    <3> QED BY <3>2, SendStep, ServerKeepsRunning
  <2>4. CASE Receiver \/ MainLoop
    BY <2>4, GoroutineStep, ServerKeepsRunning DEF Receiver, MainLoop
  <2>5. CASE UNCHANGED all
    BY <2>1, <2>5 DEF all
  <2> QED BY <2>2, <2>3, <2>4, <2>5 DEF ContainerNext
<1> QED BY <1>1, <1>2, SupervisedInContainer, PTL DEF ContainerSpec

\* Over all restarts the container's log shows lines in the order haproxy logged
\* them: the number of the next line outlives the process, its queue does not.
THEOREM LogIsInOrder == ContainerSpec => []LogInOrder
<1>1. Running => LogInOrder
  BY PrintedIsFirst DEF Running, LogInOrder, P!Increasing
<1> QED BY <1>1, RunningHolds, PTL
-----------------------------------------------------------------------------
\* A line moves along, is dropped by a full socket or queue, or goes with the
\* process: the places a line can be in never lose one.
LEMMA AccountStep ==
  ASSUME Supervised, Running, Running', Accounted, [ContainerNext]_all
  PROVE  Accounted'
<1> DEFINE E(b, q, r, l, p) == Elems(b) \cup Elems(q) \cup Held(r, "handle")
                                 \cup Held(l, "print") \cup Elems(p)
<1>1. /\ buffer \in Seq(P!Message) /\ queue \in Seq(P!Message) /\ printed \in Seq(P!Message)
      /\ sent \in Nat /\ rcv.msg \in P!Message /\ loop.msg \in P!Message
      /\ Len(buffer) <= SockLen /\ sent \in P!Message
  BY ContainerAssumption DEF Running, P!TypeOK, P!Message
<1>2. 1 .. sent = E(buffer, queue, rcv, loop, printed) \cup lost \cup refused \cup gone
  <2>1. Printed = Elems(printed)
    BY DEF Printed, Elems
  <2> QED BY <2>1, InFlightIs DEF Accounted, Running
<1>3. SUFFICES 1 .. sent' = E(buffer', queue', rcv', loop', printed') \cup lost' \cup refused' \cup gone'
  <2>1. Printed' = Elems(printed')
    BY DEF Printed, Elems
  <2>2. InFlight' = Elems(buffer') \cup Elems(queue') \cup Held(rcv', "handle") \cup Held(loop', "print")
    <3>1. P!TypeOK'
      BY DEF Running
    <3>2. rcv'.pc # "print" /\ loop'.pc # "handle"
      BY <3>1 DEF P!TypeOK
    <3>3. {g.msg : g \in {h \in {rcv', loop'} : h.pc \in {"handle", "print"}}}
            = Held(rcv', "handle") \cup Held(loop', "print")
      BY <3>2 DEF Held
    <3> QED BY <3>3 DEF InFlight, Elems
  <2> QED BY <2>1, <2>2 DEF Accounted
<1>4. CASE UNCHANGED <<server, refused, gone>>
  BY <1>2, <1>4 DEF server
<1>5. CASE Daemon /\ EndServer
  <2>1. Elems(buffer') = {} /\ Elems(queue') = {}
    BY <1>5, ElemsEmpty DEF EndServer
  <2>2. Held(rcv', "handle") = {} /\ Held(loop', "print") = {}
    BY <1>5 DEF EndServer, S!At, Held
  <2>3. gone' = gone \cup InFlight /\ UNCHANGED <<sent, printed, lost, refused>>
    BY <1>5 DEF EndServer
  <2>4. InFlight = Elems(buffer) \cup Elems(queue) \cup Held(rcv, "handle") \cup Held(loop, "print")
    BY InFlightIs DEF Running
  <2> QED BY <1>2, <2>1, <2>2, <2>3, <2>4
<1>6. CASE Log
  <2>1. S!Send /\ gone' = gone
        /\ refused' = (IF Len(buffer) = SockLen THEN refused \cup {sent'} ELSE refused)
    BY <1>6 DEF Log, Supervised
  <2>2. /\ sent' = sent + 1 /\ sent < MaxSent
        /\ buffer' = (IF Len(buffer) < SockLen THEN Append(buffer, sent + 1) ELSE buffer)
        /\ UNCHANGED <<rcv, queue, loop, printed, lost, stop>>
    BY <2>1, SendStep
  <2>3. 1 .. sent' = (1 .. sent) \cup {sent + 1}
    BY <1>1, <2>2
  <2>4. CASE Len(buffer) < SockLen
    <3>1. sent + 1 \in P!Message
      BY <1>1, <2>2, ContainerAssumption DEF P!Message
    <3>2. Elems(buffer') = Elems(buffer) \cup {sent + 1}
      BY <1>1, <2>2, <2>4, <3>1, ElemsAppend
    <3>3. refused' = refused
      BY <1>1, <2>1, <2>4, ContainerAssumption
    <3> QED BY <1>2, <2>1, <2>2, <2>3, <3>2, <3>3
  <2>5. CASE ~(Len(buffer) < SockLen)
    <3>1. Len(buffer) = SockLen
      BY <1>1, <2>5, ContainerAssumption
    <3> QED BY <1>2, <2>1, <2>2, <2>3, <2>5, <3>1
  <2> QED BY <2>4, <2>5
<1>7. CASE Receiver \/ MainLoop
  <2>1. S!Receiver \/ S!MainLoop
    BY <1>7 DEF Receiver, MainLoop
  <2>2. UNCHANGED <<sent, refused, gone>>
    BY <1>7, <2>1, GoroutineStep DEF Receiver, MainLoop
  <2>3. CASE /\ rcv.pc = "read" /\ buffer # <<>>
             /\ rcv' = P!At("handle", Head(buffer)) /\ buffer' = Tail(buffer)
             /\ UNCHANGED <<queue, loop, printed, lost>>
    <3>1. Elems(buffer) = {Head(buffer)} \cup Elems(buffer')
      BY <1>1, <2>3, ElemsHead
    <3>2. Held(rcv, "handle") = {} /\ Held(rcv', "handle") = {Head(buffer)}
      BY <2>3 DEF Held, P!At
    <3> QED BY <1>2, <2>2, <2>3, <3>1, <3>2
  <2>4. CASE /\ rcv.pc = "handle" /\ rcv' = P!At("read", 0)
             /\ UNCHANGED <<buffer, loop, printed>>
             /\ \/ queue' = Append(queue, rcv.msg) /\ lost' = lost
                \/ queue' = queue /\ lost' = lost \cup {rcv.msg}
    <3>1. Held(rcv, "handle") = {rcv.msg} /\ Held(rcv', "handle") = {}
      BY <2>4 DEF Held, P!At
    <3>2. Elems(Append(queue, rcv.msg)) = Elems(queue) \cup {rcv.msg}
      BY <1>1, ElemsAppend
    <3> QED BY <1>2, <2>2, <2>4, <3>1, <3>2
  <2>5. CASE /\ loop.pc = "get" /\ queue # <<>>
             /\ loop' = P!At("print", Head(queue)) /\ queue' = Tail(queue)
             /\ UNCHANGED <<buffer, rcv, printed, lost>>
    <3>1. Elems(queue) = {Head(queue)} \cup Elems(queue')
      BY <1>1, <2>5, ElemsHead
    <3>2. Held(loop, "print") = {} /\ Held(loop', "print") = {Head(queue)}
      BY <2>5 DEF Held, P!At
    <3> QED BY <1>2, <2>2, <2>5, <3>1, <3>2
  <2>6. CASE /\ loop.pc = "print" /\ loop' = P!At("get", 0)
             /\ printed' = Append(printed, loop.msg)
             /\ UNCHANGED <<buffer, rcv, queue, lost>>
    <3>1. Held(loop, "print") = {loop.msg} /\ Held(loop', "print") = {}
      BY <2>6 DEF Held, P!At
    <3>2. Elems(printed') = Elems(printed) \cup {loop.msg}
      BY <1>1, <2>6, ElemsAppend
    <3> QED BY <1>2, <2>2, <2>6, <3>1, <3>2
  <2> QED BY <2>1, <2>3, <2>4, <2>5, <2>6, GoroutineStep
<1>8. CASE UNCHANGED all
  BY <1>4, <1>8 DEF all
<1> QED BY <1>4, <1>5, <1>6, <1>7, <1>8 DEF ContainerNext, Daemon

\* Every line haproxy has logged is accounted for, however often the container
\* ends and is started again, and however long the queue and the buffer are.
THEOREM NoLineDisappears == ContainerSpec => []Accounted
<1>1. ContainerInit => Accounted
  BY DEF ContainerInit, S!Init, S!At, Accounted, Printed, InFlight
<1> QED BY <1>1, AccountStep, RunningHolds, SupervisedInContainer, PTL DEF ContainerSpec
=============================================================================
