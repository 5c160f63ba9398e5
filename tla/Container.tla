------------------------------ MODULE Container ------------------------------
(***************************************************************************)
(* The container of examples/https/haproxy as a whole: Daemonizer composed *)
(* with Syslog.  The syslog server runs in the daemonizer's process from   *)
(* startSyslogServer until that process ends, its lines come from the      *)
(* haproxy the daemonizer starts, and what it has not printed when the     *)
(* process ends is gone.  What was printed stays in the container's log,   *)
(* over all its restarts.  Nobody calls Shutdown.                          *)
(*                                                                         *)
(* sock is the path of the socket, as in Daemonizer; the datagrams in the  *)
(* socket, sock of Syslog, are in buffer.                                  *)
(***************************************************************************)
EXTENDS Daemonizer, Sequences

CONSTANTS QLen, SockLen, MaxSent  \* see Syslog

ASSUME ContainerAssumption ==
  {QLen, SockLen} \subseteq Nat \ {0} /\ MaxSent \in Nat

VARIABLES sent, buffer, rcv, queue, loop, printed, lost, stop,  \* of Syslog
          refused,  \* lines that found the socket's buffer full
          gone      \* lines that ended with the process that had them

S == INSTANCE Syslog WITH sock <- buffer

server == <<sent, buffer, rcv, queue, loop, printed, lost, stop>>
all == <<vars, server, refused, gone>>

ContainerInit == Init /\ S!Init /\ refused = {} /\ gone = {}

\* The lines the server has and has not printed.
InFlight ==
  {buffer[i] : i \in DOMAIN buffer} \cup {queue[i] : i \in DOMAIN queue}
    \cup {g.msg : g \in {h \in {rcv, loop} : h.pc \in {"handle", "print"}}}

\* The goroutines, the queue and the socket's buffer end with the process.
EndServer ==
  /\ buffer' = <<>> /\ queue' = <<>>
  /\ rcv' = S!At("read", 0) /\ loop' = S!At("get", 0)
  /\ gone' = gone \cup InFlight
  /\ UNCHANGED <<sent, printed, lost, stop, refused>>

\* A step of main, of the cluster or of who kills what.
Daemon ==
  /\ Next
  /\ IF pc' = "dead" THEN EndServer ELSE UNCHANGED <<server, refused, gone>>

\* haproxy logs a line to the path; without a server there the line is lost.
Log ==
  /\ haproxy = "up"
  /\ IF sock = "bound" THEN S!Send
     ELSE /\ sent < MaxSent /\ sent' = sent + 1
          /\ UNCHANGED <<buffer, rcv, queue, loop, printed, lost, stop>>
  /\ refused' = IF Len(buffer) = SockLen THEN refused \cup {sent'} ELSE refused
  /\ UNCHANGED <<vars, gone>>

Receiver == sock = "bound" /\ S!Receiver /\ UNCHANGED <<vars, refused, gone>>
MainLoop == sock = "bound" /\ S!MainLoop /\ UNCHANGED <<vars, refused, gone>>

ContainerNext == Daemon \/ Log \/ Receiver \/ MainLoop

\* The goroutines that can run do run.  main never waits before select {}, and a
\* container that ended is started again: by the kubelet, or by docker's restart
\* policy.
ContainerSpec ==
  /\ ContainerInit /\ [][ContainerNext]_all
  /\ WF_all(Receiver) /\ WF_all(MainLoop)
  /\ WF_all(Main /\ Daemon) /\ WF_all(Restart /\ Daemon)
-----------------------------------------------------------------------------
(* Properties *)

Printed == {printed[i] : i \in DOMAIN printed}

\* No line disappears without a cause: whatever haproxy has logged since the
\* container was first started is printed, on its way, was dropped by a full
\* socket or a full queue, or went with a process that ended.  It takes the
\* order in which main binds the socket and starts haproxy.
Accounted == 1 .. sent = Printed \cup InFlight \cup lost \cup refused \cup gone

\* Over all restarts the log shows lines in the order they were logged, none
\* twice, and nothing of an earlier process after a line of a later one.
LogInOrder == \A i, j \in DOMAIN printed : i < j => printed[i] < printed[j]

\* A line that reached the server is printed, or dropped by the full queue,
\* unless the process ends first.
LoggedIsPrinted ==
  \A m \in 1 .. MaxSent : (m \in InFlight) ~> (m \in Printed \cup lost \cup gone)
==============================================================================
