------------------------------- MODULE Syslog -------------------------------
(***************************************************************************)
(* How haproxy's log lines reach the output of the container: the server   *)
(* and the BaseHandler of github.com/ziutek/syslog with the handler of     *)
(* examples/https/haproxy/daemonizer.go.  Three goroutines share a bounded *)
(* channel: the receiver reads datagrams from the socket and queues them   *)
(* without ever waiting, mainLoop prints them, and the owner of the server *)
(* may shut it down.  A datagram is its number in the order of sending.    *)
(***************************************************************************)
EXTENDS Naturals, Sequences, FiniteSets

CONSTANTS QLen,     \* capacity of the handler's queue (1000 in newHandler)
          SockLen,  \* datagrams the kernel holds for the socket
          MaxSent   \* bound on the datagrams sent

ASSUME SyslogAssumption ==
  /\ QLen \in Nat \ {0}
  /\ SockLen \in Nat \ {0}
  /\ MaxSent \in Nat

VARIABLES sent,     \* datagrams sent so far
          sock,     \* datagrams waiting in the socket
          rcv,      \* the receiver: where it is and the message it holds
          queue,    \* BaseHandler.queue
          loop,     \* mainLoop: where it is and the message it holds
          printed,  \* the lines printed, in order
          lost,     \* messages dropped because the queue was full
          stop      \* how far Shutdown has come

vars == <<sent, sock, rcv, queue, loop, printed, lost, stop>>

At(pc, m) == [pc |-> pc, msg |-> m]
Dead == rcv.pc = "panic"

Init ==
  /\ sent = 0
  /\ sock = <<>>
  /\ rcv = At("read", 0)
  /\ queue = <<>>
  /\ loop = At("get", 0)
  /\ printed = <<>>
  /\ lost = {}
  /\ stop = "off"

\* The connection is open until Shutdown has closed it.
Open == stop \in {"off", "flag"}

\* The channel is closed by Shutdown's call of Handle(nil).
Closed == stop \in {"wait", "done"}
-----------------------------------------------------------------------------
\* haproxy (external) logs a line; it does not wait for room in the socket.
Send ==
  /\ sent < MaxSent
  /\ sent' = sent + 1
  /\ sock' = IF Open /\ Len(sock) < SockLen THEN Append(sock, sent + 1) ELSE sock
  /\ UNCHANGED <<rcv, queue, loop, printed, lost, stop>>

\* receiver reads a datagram and takes it apart.
Receive ==
  /\ ~Dead
  /\ rcv.pc = "read" /\ Open /\ sock # <<>>
  /\ rcv' = At("handle", Head(sock))
  /\ sock' = Tail(sock)
  /\ UNCHANGED <<sent, queue, loop, printed, lost, stop>>

\* ReadFrom fails on the closed connection: receiver returns.
ReceiverReturns ==
  /\ rcv.pc = "read" /\ ~Open
  /\ rcv' = At("returned", 0)
  /\ UNCHANGED <<sent, sock, queue, loop, printed, lost, stop>>

\* Mutant of Handle: the message goes to the front of the queue.
HandleFirst ==
  /\ rcv.pc = "handle"
  /\ rcv' = At("read", 0)
  /\ queue' = IF Len(queue) < QLen THEN <<rcv.msg>> \o queue ELSE queue
  /\ lost' = IF Len(queue) < QLen THEN lost ELSE lost \cup {rcv.msg}
  /\ UNCHANGED <<sent, sock, loop, printed, stop>>

\* Mutant of Handle: room for one message less.
HandleShort ==
  /\ rcv.pc = "handle"
  /\ rcv' = At("read", 0)
  /\ queue' = IF Len(queue) < QLen - 1 THEN Append(queue, rcv.msg) ELSE queue
  /\ lost' = IF Len(queue) < QLen - 1 THEN lost ELSE lost \cup {rcv.msg}
  /\ UNCHANGED <<sent, sock, loop, printed, stop>>

\* Mutant of Handle: the capacity of the queue is not respected.
HandleUnbounded ==
  /\ rcv.pc = "handle"
  /\ rcv' = At("read", 0)
  /\ queue' = Append(queue, rcv.msg)
  /\ UNCHANGED <<sent, sock, loop, printed, lost, stop>>

\* passToHandlers calls BaseHandler.Handle, which queues the message or drops
\* it.  A send on a closed channel panics; when Shutdown is done it has taken
\* the handlers away, and whether the receiver sees that is a data race.
Handle ==
  /\ rcv.pc = "handle"
  /\ \/ /\ ~Closed
        /\ rcv' = At("read", 0)
        /\ IF Len(queue) < QLen
           THEN queue' = Append(queue, rcv.msg) /\ lost' = lost
           ELSE queue' = queue /\ lost' = lost \cup {rcv.msg}
     \/ /\ Closed
        /\ rcv' = At("panic", rcv.msg)
        /\ UNCHANGED <<queue, lost>>
     \/ /\ stop = "done"
        /\ rcv' = At("read", 0)
        /\ UNCHANGED <<queue, lost>>
  /\ UNCHANGED <<sent, sock, loop, printed, stop>>
-----------------------------------------------------------------------------
\* Get waits for a message.
Get ==
  /\ ~Dead
  /\ loop.pc = "get" /\ queue # <<>>
  /\ loop' = At("print", Head(queue))
  /\ queue' = Tail(queue)
  /\ UNCHANGED <<sent, sock, rcv, printed, lost, stop>>

\* Mutant of PrintLine: mainLoop ends after a line, as if Get had returned nil.
PrintLineOnce ==
  /\ ~Dead
  /\ loop.pc = "print"
  /\ printed' = Append(printed, loop.msg)
  /\ loop' = At("ended", 0)
  /\ UNCHANGED <<sent, sock, rcv, queue, lost, stop>>

PrintLine ==
  /\ ~Dead
  /\ loop.pc = "print"
  /\ printed' = Append(printed, loop.msg)
  /\ loop' = At("get", 0)
  /\ UNCHANGED <<sent, sock, rcv, queue, lost, stop>>

\* Mutant of End: mainLoop is over but does not call End.
EndSkipped ==
  /\ ~Dead
  /\ loop.pc = "get" /\ queue = <<>> /\ Closed
  /\ UNCHANGED vars

\* Mutant of End: mainLoop leaves as soon as the channel is closed.
EndEarly ==
  /\ ~Dead
  /\ loop.pc = "get" /\ Closed
  /\ loop' = At("ended", 0)
  /\ UNCHANGED <<sent, sock, rcv, queue, printed, lost, stop>>

\* Get returns nil once the channel is closed and empty; mainLoop calls End.
End ==
  /\ ~Dead
  /\ loop.pc = "get" /\ queue = <<>> /\ Closed
  /\ loop' = At("ended", 0)
  /\ UNCHANGED <<sent, sock, rcv, queue, printed, lost, stop>>
-----------------------------------------------------------------------------
\* Shutdown, called by the owner of the server, in its four steps: the flag,
\* the connection, close(h.queue), and the wait for End.
ShutdownFlag ==
  /\ ~Dead
  /\ stop = "off"
  /\ stop' = "flag"
  /\ UNCHANGED <<sent, sock, rcv, queue, loop, printed, lost>>

ShutdownClose ==
  /\ ~Dead
  /\ stop = "flag"
  /\ stop' = "closed"
  /\ sock' = <<>>
  /\ UNCHANGED <<sent, rcv, queue, loop, printed, lost>>

ShutdownNil ==
  /\ ~Dead
  /\ stop = "closed"
  /\ stop' = "wait"
  /\ UNCHANGED <<sent, sock, rcv, queue, loop, printed, lost>>

ShutdownReturns ==
  /\ ~Dead
  /\ stop = "wait" /\ loop.pc = "ended"
  /\ stop' = "done"
  /\ UNCHANGED <<sent, sock, rcv, queue, loop, printed, lost>>

\* The process has panicked, or the server is shut down and its goroutines
\* have returned.
Stopped ==
  /\ Dead \/ (stop = "done" /\ rcv.pc = "returned")
  /\ UNCHANGED vars
-----------------------------------------------------------------------------
Receiver == Receive \/ ReceiverReturns \/ Handle
MainLoop == Get \/ PrintLine \/ End
Shutdown == ShutdownClose \/ ShutdownNil \/ ShutdownReturns

Next == Send \/ Receiver \/ MainLoop \/ ShutdownFlag \/ Shutdown \/ Stopped

Spec == Init /\ [][Next]_vars

\* The goroutines that can run do run; nobody need ever call Shutdown.
FairSpec == Spec /\ WF_vars(Receiver) /\ WF_vars(MainLoop) /\ WF_vars(Shutdown)
-----------------------------------------------------------------------------
(* Properties *)

Message == 0..MaxSent

TypeOK ==
  /\ sent \in Message
  /\ sock \in Seq(Message) /\ Len(sock) <= SockLen
  /\ rcv \in [pc: {"read", "handle", "returned", "panic"}, msg: Message]
  /\ queue \in Seq(Message) /\ Len(queue) <= QLen
  /\ loop \in [pc: {"get", "print", "ended"}, msg: Message]
  /\ printed \in Seq(Message)
  /\ lost \subseteq Message
  /\ stop \in {"off", "flag", "closed", "wait", "done"}

\* Everything that was queued: printed, being printed, or still waiting.
Accepted == printed \o (IF loop.pc = "print" THEN <<loop.msg>> ELSE <<>>) \o queue

\* Lines are printed in the order they were logged, and none twice.
InOrder == \A i, j \in DOMAIN Accepted : i < j => Accepted[i] < Accepted[j]

\* A message is dropped only behind QLen others that were queued before it:
\* a burst of QLen lines is never cut, however slow the output is.
BurstKept ==
  \A m \in lost : Cardinality({i \in DOMAIN Accepted : Accepted[i] < m}) >= QLen

\* When Shutdown returns, all that was queued has been printed: "it should
\* complete all remaining work and properly shutdown before return" (the
\* Handler interface in handler.go, lines 5-7).
Drained == stop = "done" => loop.pc = "ended" /\ queue = <<>>

\* A Shutdown that has begun returns: it does not wait for End for ever.
ShutdownEnds == (stop = "flag") ~> (stop = "done" \/ Dead)
=============================================================================
