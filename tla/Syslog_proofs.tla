--------------------------- MODULE Syslog_proofs ---------------------------
(***************************************************************************)
(* Proofs about Syslog for every length of the queue and of the socket's   *)
(* buffer, any number of lines and a Shutdown at any moment.               *)
(***************************************************************************)
EXTENDS Syslog, FiniteSetTheorems, TLAPS

\* A message at the end of a sequence: its length and its elements.
LEMMA AppendFacts ==
  ASSUME NEW s \in Seq(Message), NEW x \in Message
  PROVE  /\ Append(s, x) \in Seq(Message)
         /\ Len(Append(s, x)) = Len(s) + 1
         /\ DOMAIN Append(s, x) = 1..(Len(s) + 1)
         /\ \A i \in 1..Len(s) : Append(s, x)[i] = s[i]
         /\ Append(s, x)[Len(s) + 1] = x
  OBVIOUS

\* Every step keeps the type of every variable.
LEMMA TypeStep == TypeOK /\ [Next]_vars => TypeOK'
<1> USE SyslogAssumption DEF Message, At
<1> SUFFICES ASSUME TypeOK, [Next]_vars PROVE TypeOK'
  OBVIOUS
<1>1. CASE Send
  <2>1. sent' \in Message
    BY <1>1 DEF Send, TypeOK
  <2>2. sent + 1 \in Message
    BY <1>1, <2>1 DEF Send
  <2>3. sock' \in Seq(Message) /\ Len(sock') <= SockLen
    <3>1. CASE sock' = sock
      BY <3>1 DEF TypeOK
    <3>2. CASE Len(sock) < SockLen /\ sock' = Append(sock, sent + 1)
      BY <3>2, <2>2, AppendFacts DEF TypeOK
    <3> QED BY <1>1, <3>1, <3>2 DEF Send
  <2> QED BY <1>1, <2>1, <2>3 DEF Send, TypeOK
<1>2. CASE Receive
  <2>1. Head(sock) \in Message /\ Tail(sock) \in Seq(Message) /\ Len(Tail(sock)) <= SockLen
    BY <1>2 DEF Receive, TypeOK
  <2> QED BY <1>2, <2>1 DEF Receive, TypeOK
<1>3. CASE ReceiverReturns
  BY <1>3 DEF ReceiverReturns, TypeOK
<1>4. CASE Handle
  <2>1. rcv.msg \in Message
    BY DEF TypeOK
  <2>2. queue' \in Seq(Message) /\ Len(queue') <= QLen
    <3>1. CASE queue' = queue
      BY <3>1 DEF TypeOK
    <3>2. CASE Len(queue) < QLen /\ queue' = Append(queue, rcv.msg)
      BY <3>2, <2>1, AppendFacts DEF TypeOK
    <3> QED BY <1>4, <3>1, <3>2 DEF Handle
  <2>3. lost' \subseteq Message
    BY <1>4, <2>1 DEF Handle, TypeOK
  <2>4. rcv' \in [pc: {"read", "handle", "returned", "panic"}, msg: Message]
    BY <1>4, <2>1 DEF Handle
  <2> QED BY <1>4, <2>2, <2>3, <2>4 DEF Handle, TypeOK
<1>5. CASE Get
  <2>1. Head(queue) \in Message /\ Tail(queue) \in Seq(Message) /\ Len(Tail(queue)) <= QLen
    BY <1>5 DEF Get, TypeOK
  <2> QED BY <1>5, <2>1 DEF Get, TypeOK
<1>6. CASE PrintLine
  <2>1. loop.msg \in Message /\ printed \in Seq(Message)
    BY DEF TypeOK
  <2>2. printed' \in Seq(Message)
    <3> HIDE DEF Message
    <3> QED BY <1>6, <2>1, AppendFacts DEF PrintLine
  <2> QED BY <1>6, <2>2 DEF PrintLine, TypeOK
<1>7. CASE End
  BY <1>7 DEF End, TypeOK
<1>8. CASE ShutdownFlag \/ Shutdown
  <2>1. sock' \in Seq(Message) /\ Len(sock') <= SockLen
    <3>1. <<>> \in Seq(Message) /\ Len(<<>>) <= SockLen
      OBVIOUS
    <3>2. sock' = <<>> \/ sock' = sock
      BY <1>8 DEF ShutdownFlag, Shutdown, ShutdownClose, ShutdownNil, ShutdownReturns
    <3> QED BY <3>1, <3>2 DEF TypeOK
  <2> QED
    BY <1>8, <2>1
    DEF ShutdownFlag, Shutdown, ShutdownClose, ShutdownNil, ShutdownReturns, TypeOK
<1>9. CASE Stopped \/ UNCHANGED vars
  BY <1>9 DEF Stopped, vars, TypeOK
<1> QED BY <1>1, <1>2, <1>3, <1>4, <1>5, <1>6, <1>7, <1>8, <1>9 DEF Next, Receiver, MainLoop

\* Every variable keeps its type; neither the queue nor the socket overflows.
THEOREM TypeCorrect == Spec => []TypeOK
<1>1. Init => TypeOK
  BY SyslogAssumption DEF Init, TypeOK, Message, At
<1> QED BY <1>1, TypeStep, PTL DEF Spec
-----------------------------------------------------------------------------
\* What has been queued is a sequence of messages.
LEMMA AcceptedType == TypeOK => Accepted \in Seq(Message)
  BY DEF TypeOK, Accepted

\* Appending to the second of two sequences appends to both together.
LEMMA ConcatAppend ==
  ASSUME NEW a \in Seq(Message), NEW q \in Seq(Message), NEW x \in Message
  PROVE  a \o Append(q, x) = Append(a \o q, x)
<1>1. a \o Append(q, x) \in Seq(Message) /\ Append(a \o q, x) \in Seq(Message)
  OBVIOUS
<1>2. Len(a \o Append(q, x)) = Len(Append(a \o q, x))
  OBVIOUS
<1>3. ASSUME NEW i \in 1..Len(Append(a \o q, x))
      PROVE  (a \o Append(q, x))[i] = Append(a \o q, x)[i]
  OBVIOUS
<1> QED BY <1>1, <1>2, <1>3

\* Taking the first of the second of two sequences moves it to the first.
LEMMA ConcatHead ==
  ASSUME NEW a \in Seq(Message), NEW q \in Seq(Message), q # <<>>
  PROVE  (a \o <<>>) \o q = (a \o <<Head(q)>>) \o Tail(q)
<1>1. /\ Head(q) \in Message /\ Tail(q) \in Seq(Message) /\ Len(Tail(q)) = Len(q) - 1
      /\ Head(q) = q[1] /\ Len(q) \in Nat \ {0} /\ Len(a) \in Nat /\ a \o <<>> = a
      /\ \A i \in 1..(Len(q) - 1) : Tail(q)[i] = q[i + 1]
  OBVIOUS
<1> DEFINE b == a \o <<Head(q)>>
           t == Tail(q)
<1>2. /\ b \in Seq(Message) /\ Len(b) = Len(a) + 1 /\ b[Len(a) + 1] = q[1]
      /\ \A i \in 1..Len(a) : b[i] = a[i]
  BY <1>1
<1>3. /\ t \in Seq(Message) /\ Len(t) = Len(q) - 1 /\ \A i \in 1..Len(t) : t[i] = q[i + 1]
  BY <1>1
<1> HIDE DEF b, t
<1>4. a \o q \in Seq(Message) /\ b \o t \in Seq(Message)
  BY <1>2, <1>3
<1>5. Len(a \o q) = Len(b \o t) /\ Len(a \o q) = Len(a) + Len(q)
  <2>1. Len(a \o q) = Len(a) + Len(q)
    OBVIOUS
  <2>2. Len(b \o t) = Len(b) + Len(t)
    <3>1. b \in Seq(Message) /\ t \in Seq(Message)
      BY <1>2, <1>3
    <3> QED BY <3>1
  <2> QED BY <1>1, <1>2, <1>3, <2>1, <2>2
<1>6. ASSUME NEW i \in 1..(Len(a) + Len(q))
      PROVE  (a \o q)[i] = (b \o t)[i]
  <2>1. CASE i \in 1..Len(a)
    BY <1>1, <1>2, <1>3, <2>1
  <2>2. CASE i = Len(a) + 1
    BY <1>1, <1>2, <1>3, <2>2
  <2>3. CASE i > Len(a) + 1
    <3>1. (a \o q)[i] = q[i - Len(a)]
      BY <1>1, <2>3
    <3>2. i - Len(b) \in 1..Len(t) /\ i - Len(b) + 1 = i - Len(a)
      BY <1>1, <1>2, <1>3, <2>3
    <3>3. (b \o t)[i] = t[i - Len(b)]
      BY <1>1, <1>2, <1>3, <2>3
    <3> QED BY <1>3, <3>1, <3>2, <3>3
  <2>4. i \in 1..Len(a) \/ i = Len(a) + 1 \/ i > Len(a) + 1
    BY <1>1
  <2> QED BY <2>1, <2>2, <2>3, <2>4
<1> QED BY <1>1, <1>4, <1>5, <1>6 DEF b, t

\* Only Handle changes what has been queued, and it adds its message at the
\* end: taking a message from the queue and printing it move it along.
LEMMA AcceptedGrows ==
  ASSUME TypeOK, [Next]_vars
  PROVE  \/ Accepted' = Accepted
         \/ Handle /\ ~Closed /\ Len(queue) < QLen /\ Accepted' = Append(Accepted, rcv.msg)
<1> USE DEF TypeOK, Message, At
<1>1. CASE Handle
  <2>1. CASE queue' = queue
    BY <1>1, <2>1 DEF Handle, Accepted
  <2>2. CASE queue' = Append(queue, rcv.msg) /\ Len(queue) < QLen /\ ~Closed
    <3> DEFINE front == printed \o (IF loop.pc = "print" THEN <<loop.msg>> ELSE <<>>)
    <3>0. loop.msg \in Message /\ queue \in Seq(Message) /\ rcv.msg \in Message
      OBVIOUS
    <3>1. front \in Seq(Message)
      <4> HIDE DEF Message
      <4> QED BY <3>0
    <3>2. Accepted = front \o queue /\ Accepted' = front \o Append(queue, rcv.msg)
      BY <1>1, <2>2 DEF Handle, Accepted
    <3> HIDE DEF front
    <3> QED BY <1>1, <2>2, <3>0, <3>1, <3>2, ConcatAppend
  <2> QED BY <1>1, <2>1, <2>2 DEF Handle
<1>2. CASE Get
  <2>1. Accepted = (printed \o <<>>) \o queue
    BY <1>2 DEF Get, Accepted
  <2>2. Accepted' = (printed \o <<Head(queue)>>) \o Tail(queue)
    BY <1>2 DEF Get, Accepted
  <2>3. queue # <<>> /\ queue \in Seq(Message) /\ printed \in Seq(Message)
    BY <1>2 DEF Get
  <2> QED BY <2>1, <2>2, <2>3, ConcatHead
<1>3. CASE PrintLine
  BY <1>3 DEF PrintLine, Accepted
<1>4. CASE End
  BY <1>4 DEF End, Accepted
<1>5. CASE UNCHANGED <<queue, loop, printed>>
  BY <1>5 DEF Accepted
<1> QED
  BY <1>1, <1>2, <1>3, <1>4, <1>5
  DEF Next, Receiver, MainLoop, Shutdown, Send, Receive, ReceiverReturns, ShutdownFlag,
      ShutdownClose, ShutdownNil, ShutdownReturns, Stopped, vars

\* The order along the way: what has been queued comes before the message the
\* receiver holds, and that before what waits in the socket.
Increasing(s) == \A i, j \in DOMAIN s : i < j => s[i] < s[j]
Below(s, m) == \A i \in DOMAIN s : s[i] < m
Flow ==
  /\ Increasing(Accepted)
  /\ Below(Accepted, sent + 1)
  /\ Increasing(sock)
  /\ Below(sock, sent + 1)
  /\ \A j \in DOMAIN sock : Below(Accepted, sock[j])
  /\ rcv.pc = "handle" => /\ rcv.msg <= sent
                          /\ Below(Accepted, rcv.msg)
                          /\ \A j \in DOMAIN sock : rcv.msg < sock[j]

\* A message at the end of an increasing sequence whose elements are below it.
LEMMA AppendIncreasing ==
  ASSUME NEW s \in Seq(Message), NEW x \in Message, Increasing(s), Below(s, x)
  PROVE  Increasing(Append(s, x))
  BY AppendFacts, SyslogAssumption DEF Increasing, Below, Message

\* A bound that the new last message respects too.
LEMMA AppendBelow ==
  ASSUME NEW s \in Seq(Message), NEW x \in Message, NEW m, x < m, Below(s, m)
  PROVE  Below(Append(s, x), m)
  BY AppendFacts, SyslogAssumption DEF Below

\* The order along the way is kept by every step.
LEMMA FlowStep == TypeOK /\ Flow /\ [Next]_vars => Flow'
<1> USE SyslogAssumption DEF Message, At
<1> SUFFICES ASSUME TypeOK, Flow, [Next]_vars PROVE Flow'
  OBVIOUS
<1>0. Accepted \in Seq(Message)
  BY AcceptedType
<1>1. CASE Send
  <2>1. Accepted' = Accepted
    BY <1>1 DEF Send, Accepted
  <2>2. CASE sock' = sock
    <3>1. Below(Accepted, sent' + 1)
      BY <1>0, <1>1 DEF Send, Flow, Below, TypeOK
    <3>2. Below(sock, sent' + 1)
      BY <1>1 DEF Send, Flow, Below, TypeOK
    <3>3. rcv.pc = "handle" => rcv.msg <= sent'
      BY <1>1 DEF Send, Flow, TypeOK
    <3> QED BY <1>1, <2>1, <2>2, <3>1, <3>2, <3>3 DEF Send, Flow
  <2>3. CASE sock' = Append(sock, sent + 1)
    <3> sent + 1 \in Message /\ sent \in Nat /\ sock \in Seq(Message)
      BY <1>1 DEF Send, TypeOK
    <3>1. Increasing(sock')
      BY <2>3, AppendIncreasing DEF Flow
    <3>2. DOMAIN sock' = 1..(Len(sock) + 1)
          /\ (\A i \in 1..Len(sock) : sock'[i] = sock[i]) /\ sock'[Len(sock) + 1] = sent + 1
      BY <2>3, AppendFacts
    <3>3. Below(sock', sent' + 1)
      BY <1>1, <3>2 DEF Send, Flow, Below
    <3>4. \A j \in DOMAIN sock' : Below(Accepted, sock'[j])
      BY <3>2 DEF Flow
    <3>5. Below(Accepted, sent' + 1)
      BY <1>0, <1>1 DEF Send, Flow, Below
    <3>6. rcv.pc = "handle" => rcv.msg <= sent' /\ \A j \in DOMAIN sock' : rcv.msg < sock'[j]
      BY <1>1, <3>2 DEF Send, Flow, TypeOK
    <3> QED BY <1>1, <2>1, <3>1, <3>3, <3>4, <3>5, <3>6 DEF Send, Flow
  <2> QED BY <1>1, <2>2, <2>3 DEF Send
<1>2. CASE Receive
  <2>1. Accepted' = Accepted
    BY <1>2 DEF Receive, Accepted
  <2>2. sock # <<>> /\ rcv' = [pc |-> "handle", msg |-> sock[1]] /\ sock' = Tail(sock)
    BY <1>2 DEF Receive, TypeOK
  <2>3. \A j \in DOMAIN Tail(sock) : j + 1 \in DOMAIN sock /\ Tail(sock)[j] = sock[j + 1]
    BY <2>2 DEF TypeOK
  <2>4. Increasing(sock')
    BY <2>2, <2>3 DEF Flow, Increasing, TypeOK
  <2>5. rcv'.pc = "handle" /\ rcv'.msg = sock[1] /\ 1 \in DOMAIN sock
    BY <2>2 DEF TypeOK
  <2>6. rcv'.msg <= sent /\ Below(Accepted, rcv'.msg)
    BY <2>5 DEF Flow, Below, TypeOK
  <2>7. \A j \in DOMAIN sock' : rcv'.msg < sock'[j]
    BY <2>2, <2>3, <2>5 DEF Flow, Increasing, TypeOK
  <2>8. Below(sock', sent + 1) /\ \A j \in DOMAIN sock' : Below(Accepted, sock'[j])
    BY <2>2, <2>3 DEF Flow, Below
  <2> QED BY <1>2, <2>1, <2>4, <2>6, <2>7, <2>8 DEF Receive, Flow, Below
<1>3. CASE Handle
  <2>1. CASE Accepted' = Accepted
    BY <1>3, <2>1 DEF Handle, Flow, Increasing, Below
  <2>2. CASE ~Closed /\ Accepted' = Append(Accepted, rcv.msg)
    <3> rcv.msg \in Message /\ sent \in Nat
      BY DEF TypeOK
    <3>1. Increasing(Accepted')
      BY <1>0, <1>3, <2>2, AppendIncreasing DEF Handle, Flow
    <3>2. Below(Accepted', sent + 1)
      BY <1>0, <1>3, <2>2, AppendBelow DEF Handle, Flow
    <3>3. \A j \in DOMAIN sock : Below(Accepted', sock[j])
      BY <1>0, <1>3, <2>2, AppendBelow DEF Handle, Flow
    <3> QED BY <1>3, <2>2, <3>1, <3>2, <3>3 DEF Handle, Flow
  <2> QED BY <2>1, <2>2, AcceptedGrows
<1>4. CASE ShutdownClose
  <2>1. Accepted' = Accepted
    BY <1>4 DEF ShutdownClose, Accepted
  <2> QED BY <1>4, <2>1 DEF ShutdownClose, Flow, Increasing, Below
<1>5. CASE ~Handle /\ UNCHANGED <<sent, sock>> /\ (rcv' = rcv \/ ReceiverReturns)
  <2>1. Accepted' = Accepted
    BY <1>5, AcceptedGrows
  <2> QED BY <1>5, <2>1 DEF ReceiverReturns, Flow, Increasing, Below
<1>6. CASE Get \/ PrintLine \/ End \/ ShutdownFlag \/ ShutdownNil \/ ShutdownReturns
             \/ ReceiverReturns \/ Stopped \/ UNCHANGED vars
  <2>1. UNCHANGED <<sent, sock>> /\ (rcv' = rcv \/ ReceiverReturns)
    BY <1>6 DEF Get, PrintLine, End, ShutdownFlag, ShutdownNil, ShutdownReturns,
                ReceiverReturns, Stopped, vars
  <2> QED BY <1>3, <1>5, <2>1
<1> QED BY <1>1, <1>2, <1>3, <1>4, <1>6 DEF Next, Receiver, MainLoop, Shutdown

\* Every step keeps the order of what is under way.
LEMMA FlowHolds == Spec => []Flow
<1>1. Init => Flow
  BY DEF Init, Flow, Increasing, Below, Accepted, At
<1> QED BY <1>1, FlowStep, TypeCorrect, PTL DEF Spec

\* Lines are printed in the order haproxy logged them, and none twice,
\* whatever the queue drops and whenever the server is shut down.
THEOREM LinesAreInOrder == Spec => []InOrder
<1>1. Flow => InOrder
  BY DEF Flow, Increasing, InOrder
<1> QED BY <1>1, FlowHolds, PTL
-----------------------------------------------------------------------------
\* Why a message was dropped: the first QLen of those that were queued, and
\* there are so many, were there before it.
Behind ==
  \A m \in lost : QLen <= Len(Accepted) /\ \A i \in 1..QLen : Accepted[i] < m

\* A message is dropped only when the queue holds QLen others, all older; what
\* has been queued only grows, so they stay the reason.
LEMMA BehindHolds == Spec => []Behind
<1> USE SyslogAssumption DEF Message, At
<1>1. Init => Behind
  BY DEF Init, Behind
<1>2. TypeOK /\ Flow /\ Behind /\ [Next]_vars => Behind'
  <2> SUFFICES ASSUME TypeOK, Flow, Behind, [Next]_vars PROVE Behind'
    OBVIOUS
  <2>0. Accepted \in Seq(Message)
    BY AcceptedType
  <2>1. CASE lost' = lost
    <3>1. CASE Accepted' = Accepted
      BY <2>1, <3>1 DEF Behind
    <3>2. CASE Accepted' = Append(Accepted, rcv.msg)
      <4>1. rcv.msg \in Message /\ Len(Accepted) \in Nat
        BY <2>0 DEF TypeOK
      <4>2. Len(Accepted') = Len(Accepted) + 1
            /\ \A i \in 1..Len(Accepted) : Accepted'[i] = Accepted[i]
        <5> HIDE DEF Message
        <5> QED BY <2>0, <3>2, <4>1, AppendFacts
      <4> QED BY <2>1, <4>1, <4>2 DEF Behind
    <3> QED BY <3>1, <3>2, AcceptedGrows
  <2>2. CASE Handle /\ ~(Len(queue) < QLen) /\ lost' = lost \cup {rcv.msg}
    <3>1. Accepted' = Accepted
      BY <2>2, AcceptedGrows
    <3>2. QLen <= Len(Accepted)
      BY <2>2 DEF Accepted, TypeOK
    <3>3. Below(Accepted, rcv.msg)
      BY <2>2 DEF Handle, Flow
    <3> QED BY <2>0, <2>2, <3>1, <3>2, <3>3 DEF Behind, Below
  <2>3. lost' = lost \/ (Handle /\ ~(Len(queue) < QLen) /\ lost' = lost \cup {rcv.msg})
    BY DEF Next, Send, Receiver, Receive, ReceiverReturns, Handle, MainLoop, Get, PrintLine, End,
           ShutdownFlag, Shutdown, ShutdownClose, ShutdownNil, ShutdownReturns, Stopped, vars
  <2> QED BY <2>1, <2>2, <2>3
<1> QED BY <1>1, <1>2, TypeCorrect, FlowHolds, PTL DEF Spec

\* A burst of as many lines as the queue holds is never cut: what Handle drops
\* comes behind at least QLen messages that it had queued.
THEOREM BurstsAreKept == Spec => []BurstKept
<1>1. TypeOK /\ Behind => BurstKept
  <2> SUFFICES ASSUME TypeOK, Behind, NEW m \in lost
               PROVE  Cardinality({i \in DOMAIN Accepted : Accepted[i] < m}) >= QLen
    BY DEF BurstKept
  <2> DEFINE Older == {i \in DOMAIN Accepted : Accepted[i] < m}
  <2>1. Accepted \in Seq(Message)
    BY AcceptedType
  <2>2. DOMAIN Accepted = 1..Len(Accepted) /\ Len(Accepted) \in Nat
    BY <2>1
  <2>3. 1..QLen \subseteq Older
    BY <2>2, SyslogAssumption DEF Behind
  <2>4. IsFiniteSet(1..Len(Accepted))
    BY <2>2, FS_Interval
  <2>5. IsFiniteSet(Older)
    BY <2>2, <2>4, FS_Subset
  <2>6. Cardinality(1..QLen) = QLen
    BY FS_Interval, SyslogAssumption
  <2>7. Cardinality(1..QLen) <= Cardinality(Older)
    BY <2>3, <2>5, FS_Subset
  <2>8. Cardinality(Older) \in Nat
    BY <2>5, FS_CardinalityType
  <2> QED BY <2>6, <2>7, <2>8, SyslogAssumption
<1> QED BY <1>1, TypeCorrect, BehindHolds, PTL
-----------------------------------------------------------------------------
\* How mainLoop ends: the channel is closed and nothing is left in it.
Ended ==
  /\ loop.pc = "ended" => Closed /\ queue = <<>>
  /\ stop = "done" => loop.pc = "ended"

\* When Shutdown returns, mainLoop has printed all that was queued: the channel
\* is closed before mainLoop ends, and nothing is queued on a closed channel.
THEOREM ShutdownDrains == Spec => []Drained
<1> USE DEF At
<1>1. Init => Ended
  BY DEF Init, Ended
<1>2. TypeOK /\ Ended /\ [Next]_vars => Ended'
  <2> SUFFICES ASSUME TypeOK, Ended, [Next]_vars PROVE Ended'
    OBVIOUS
  <2>1. CASE Handle
    BY <2>1 DEF Handle, Closed, Ended
  <2>2. CASE Get \/ PrintLine \/ End
    BY <2>2 DEF Get, PrintLine, End, Closed, Ended, TypeOK
  <2>3. CASE ShutdownFlag \/ Shutdown
    BY <2>3 DEF ShutdownFlag, Shutdown, ShutdownClose, ShutdownNil, ShutdownReturns, Closed, Ended
  <2>4. CASE UNCHANGED <<queue, loop, stop>>
    BY <2>4 DEF Closed, Ended
  <2> QED
    BY <2>1, <2>2, <2>3, <2>4
    DEF Next, Receiver, MainLoop, Send, Receive, ReceiverReturns, Stopped, vars
<1>3. Ended => Drained
  BY DEF Ended, Drained
<1> QED BY <1>1, <1>2, <1>3, TypeCorrect, PTL DEF Spec
=============================================================================
