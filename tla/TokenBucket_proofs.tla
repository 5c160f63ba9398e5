------------------------- MODULE TokenBucket_proofs -------------------------
(***************************************************************************)
(* Proofs about TokenBucket for every capacity, quantum and fill interval, *)
(* any number of clients and calls, and all the time in the world.         *)
(***************************************************************************)
EXTENDS TokenBucket, TLAPS
-----------------------------------------------------------------------------
(* Arithmetic *)

\* The quotient is the whole number of times b goes into a.
LEMMA Quotient ==
  ASSUME NEW a \in Nat, NEW b \in Nat \ {0}
  PROVE  a \div b \in Nat /\ b * (a \div b) <= a /\ a < b * (a \div b) + b
  OBVIOUS

\* Facts of arithmetic the provers do not find in larger steps.
LEMMA TimesMonotone ==
  ASSUME NEW q \in Nat, NEW a \in Int, NEW b \in Int, a <= b
  PROVE  q * a <= q * b
  OBVIOUS

LEMMA TimesSum ==
  ASSUME NEW q \in Int, NEW a \in Int, NEW b \in Int
  PROVE  q * (a + b) = q * a + q * b /\ q * a \in Int /\ q * a = a * q
  OBVIOUS

\* A quotient is known from its bounds.
LEMMA QuotientUnique ==
  ASSUME NEW b \in Nat \ {0}, NEW k \in Int, NEW l \in Int, b * k < b * l + b
  PROVE  k <= l
<1> SUFFICES ASSUME l + 1 <= k PROVE FALSE
  OBVIOUS
<1>1. b * (l + 1) <= b * k
  BY TimesMonotone
<1>2. b * (l + 1) = b * l + b
  OBVIOUS
<1> QED BY <1>1, <1>2, TimesSum

\* Time that goes on does not take ticks back.
LEMMA TickMonotone ==
  ASSUME NEW s \in Nat, NEW t \in Nat, s <= t
  PROVE  TickAt(s) \in Nat /\ TickAt(t) \in Nat /\ TickAt(s) <= TickAt(t)
<1>1. FillInterval \in Nat \ {0}
  BY TokenBucketAssumption
<1> DEFINE k == s \div FillInterval
           l == t \div FillInterval
<1>2. k \in Nat /\ FillInterval * k <= s
  BY <1>1, Quotient
<1>3. l \in Nat /\ t < FillInterval * l + FillInterval
  BY <1>1, Quotient
<1> HIDE DEF k, l
<1>4. FillInterval * k \in Int /\ FillInterval * l \in Int
  BY <1>1, <1>2, <1>3
<1>5. FillInterval * k < FillInterval * l + FillInterval
  BY <1>1, <1>2, <1>3, <1>4
<1>6. k <= l
  BY <1>1, <1>2, <1>3, <1>5, QuotientUnique
<1> QED BY <1>2, <1>3, <1>6 DEF k, l, TickAt

\* The time at which tick k begins is in tick k.
LEMMA TickOfMultiple ==
  ASSUME NEW k \in Nat
  PROVE  k * FillInterval \in Nat /\ TickAt(k * FillInterval) = k
<1>1. FillInterval \in Nat \ {0}
  BY TokenBucketAssumption
<1> DEFINE t == k * FillInterval
           l == t \div FillInterval
<1>2. t \in Nat /\ t = FillInterval * k
  BY <1>1
<1> HIDE DEF t
<1>3. l \in Nat /\ FillInterval * l <= t /\ t < FillInterval * l + FillInterval
  BY <1>1, <1>2, Quotient
<1> HIDE DEF l
<1>4. k <= l
  BY <1>1, <1>2, <1>3, QuotientUnique
<1>5. FillInterval * l < FillInterval * k + FillInterval
  BY <1>1, <1>2, <1>3, TimesSum
<1>6. l <= k
  BY <1>1, <1>3, <1>5, QuotientUnique
<1> QED BY <1>2, <1>3, <1>4, <1>6 DEF l, t, TickAt

\* The ticks the caller waits for bring all the tokens that are missing.
LEMMA EnoughTicks ==
  ASSUME NEW missing \in Nat \ {0}
  PROVE  /\ (missing + Quantum - 1) \div Quantum \in Nat
         /\ missing <= Quantum * ((missing + Quantum - 1) \div Quantum)
<1>1. Quantum \in Nat \ {0}
  BY TokenBucketAssumption
<1> DEFINE a == missing + Quantum - 1
           k == a \div Quantum
<1>2. a \in Nat /\ a = missing + Quantum - 1
  BY <1>1
<1> HIDE DEF a
<1>3. k \in Nat /\ a < Quantum * k + Quantum
  BY <1>1, <1>2, Quotient
<1> HIDE DEF k
<1>4. Quantum * k \in Int
  BY <1>1, <1>3
<1>5. missing <= Quantum * k
  BY <1>1, <1>2, <1>3, <1>4
<1> QED BY <1>3, <1>5 DEF a, k
-----------------------------------------------------------------------------
\* The balance of the bucket: what was handed out and what is left, where what
\* callers still wait for counts as a debt, is no more than the bucket held at
\* first and the ticks that were credited brought in.
Balance == Total + avail <= Capacity + Quantum * availTick

Inv == TypeOK /\ Balance /\ LongRunRate

LEMMA TotalType == TypeOK => Total \in Nat
<1> SUFFICES ASSUME TypeOK, takes # <<>> PROVE takes[Len(takes)].total \in Nat
  BY DEF Total
<1>1. takes \in Seq(Take) /\ Len(takes) \in DOMAIN takes
  BY DEF TypeOK
<1>2. takes[Len(takes)] \in Take
  BY <1>1
<1> QED BY <1>2 DEF Take

\* adjust keeps the balance, for a time that is past too: it credits each tick
\* once, and takes back the credit of those it has not seen.
LEMMA AdjustKeepsBalance ==
  ASSUME TypeOK, Balance, NEW t \in Nat, t <= now
  PROVE  /\ Adjusted(t).avail \in Int /\ Adjusted(t).avail <= Capacity
         /\ Adjusted(t).tick \in Nat /\ Adjusted(t).tick <= TickAt(now)
         /\ Adjusted(t).avail < Capacity => Adjusted(t).tick = TickAt(t)
         /\ TickAt(t) \in Nat /\ TickAt(t) <= TickAt(now) /\ TickAt(now) \in Nat
         /\ Total + Adjusted(t).avail <= Capacity + Quantum * Adjusted(t).tick
<1> USE TokenBucketAssumption
<1>1. /\ avail \in Int /\ avail <= Capacity /\ availTick \in Nat /\ availTick <= TickAt(now)
      /\ Capacity \in Nat /\ Quantum \in Nat /\ Total \in Nat /\ TickAt(now) \in Nat
      /\ TickAt(t) \in Nat /\ TickAt(t) <= TickAt(now)
      /\ Total + avail <= Capacity + Quantum * availTick
  <2>1. Capacity \in Nat /\ Quantum \in Nat
    OBVIOUS
  <2>2. now \in Nat
    BY DEF TypeOK
  <2>3. TickAt(t) \in Nat /\ TickAt(now) \in Nat /\ TickAt(t) <= TickAt(now)
    BY <2>2, TickMonotone
  <2> QED BY <2>1, <2>3, TotalType, Zenon DEF TypeOK, Balance
<1>2. CASE avail >= Capacity
  <2>1. Adjusted(t).avail = avail /\ Adjusted(t).tick = availTick
    BY <1>2 DEF Adjusted
  <2> QED BY <1>1, <1>2, <2>1
<1>3. CASE ~(avail >= Capacity)
  <2> DEFINE credit == (TickAt(t) - availTick) * Quantum
  <2>1. credit \in Int /\ Quantum * availTick \in Int /\ Quantum * TickAt(t) \in Int
    BY <1>1
  <2>2. Quantum * TickAt(t) = Quantum * availTick + credit
    <3>1. TickAt(t) = availTick + (TickAt(t) - availTick)
      BY <1>1
    <3>2. TickAt(t) - availTick \in Int /\ availTick \in Int /\ Quantum \in Int
      BY <1>1
    <3> QED BY <3>1, <3>2, TimesSum
  <2> HIDE DEF credit
  <2>3. /\ Least(avail + credit, Capacity) \in Int
        /\ Least(avail + credit, Capacity) <= Capacity
        /\ Least(avail + credit, Capacity) <= avail + credit
    BY <1>1, <2>1 DEF Least
  <2>4. Adjusted(t).avail = Least(avail + credit, Capacity) /\ Adjusted(t).tick = TickAt(t)
    BY <1>3 DEF Adjusted, credit
  <2>5. Total + Least(avail + credit, Capacity) <= Capacity + Quantum * TickAt(t)
    BY <1>1, <2>1, <2>2, <2>3
  <2> QED BY <1>1, <2>3, <2>4, <2>5
<1> QED BY <1>2, <1>3

\* What a call finds under the mutex, by the time it has read.
LEMMA CallFacts ==
  ASSUME Inv, NEW c \in Clients, read[c] # NotRead
  PROVE  LET t == read[c] IN
         /\ t \in Nat /\ t <= now /\ now \in Nat
         /\ Adjusted(t).avail \in Int /\ Adjusted(t).avail <= Capacity
         /\ Adjusted(t).tick \in Nat /\ Adjusted(t).tick <= TickAt(now)
         /\ Adjusted(t).avail < Capacity => Adjusted(t).tick = TickAt(t)
         /\ TickAt(t) \in Nat /\ TickAt(t) <= TickAt(now) /\ TickAt(now) \in Nat
         /\ Total + Adjusted(t).avail <= Capacity + Quantum * Adjusted(t).tick
         /\ Total \in Nat
<1>1. read[c] \in Nat /\ read[c] <= now /\ now \in Nat
  BY DEF Inv, TypeOK
<1> QED BY <1>1, AdjustKeepsBalance, TotalType DEF Inv

\* A call that has got n tokens for time t, in the balance of the bucket.
LEMMA GotKeepsInv ==
  ASSUME Inv, NEW c \in Clients, NEW n \in Nat, NEW t \in Nat, Got(n, t), Taken(c, n),
         wake' \in [Clients -> Nat \cup {Awake}],
         Total + n <= Capacity + Quantum * TickAt(t)
  PROVE  Inv'
<1> USE TokenBucketAssumption DEF Inv
<1> DEFINE new == [n |-> n, at |-> t, total |-> Total + n]
           adj == Adjusted(read[c])
<1>0. /\ read[c] # NotRead /\ now' = now
      /\ avail' = adj.avail - n /\ availTick' = adj.tick
      /\ read' = [read EXCEPT ![c] = NotRead]
  BY DEF Taken
<1>1. /\ adj.avail \in Int /\ adj.avail <= Capacity
      /\ adj.tick \in Nat /\ adj.tick <= TickAt(now)
      /\ Total + adj.avail <= Capacity + Quantum * adj.tick
      /\ Total \in Nat /\ Capacity \in Nat /\ Quantum \in Nat
  BY <1>0, CallFacts
<1> HIDE DEF adj
<1>2. new \in Take /\ new.total = Total + n /\ new.at = t
  BY <1>1 DEF Take
<1>3. takes \in Seq(Take) /\ takes' = Append(takes, new)
  BY DEF Got, TypeOK
<1> HIDE DEF new
<1>4. /\ takes' \in Seq(Take) /\ Len(takes') = Len(takes) + 1 /\ takes' # <<>>
      /\ DOMAIN takes' = 1 .. Len(takes) + 1 /\ DOMAIN takes = 1 .. Len(takes)
      /\ takes'[Len(takes) + 1] = new /\ Len(takes) \in Nat
      /\ \A i \in 1 .. Len(takes) : takes'[i] = takes[i]
  BY <1>2, <1>3
<1>5. Total' = Total + n
  BY <1>2, <1>4 DEF Total
<1>6. TypeOK'
  <2>1. avail' \in Int /\ avail' <= Capacity
    BY <1>0, <1>1
  <2>2. /\ read' \in [Clients -> Nat \cup {NotRead}]
        /\ \A d \in Clients : read'[d] <= now
        /\ now' \in Nat
    BY <1>0 DEF TypeOK, NotRead
  <2> QED BY <1>0, <1>1, <1>4, <2>1, <2>2, Zenon DEF TypeOK, TickAt
<1>7. Balance'
  <2>1. Quantum * adj.tick \in Int
    BY <1>1
  <2> QED BY <1>0, <1>1, <1>5, <2>1 DEF Balance
<1>8. LongRunRate'
  <2> SUFFICES ASSUME NEW i \in DOMAIN takes'
               PROVE  takes'[i].total <= Capacity + Quantum * TickAt(takes'[i].at)
    BY DEF LongRunRate, TickAt
  <2>1. CASE i = Len(takes) + 1
    BY <1>2, <1>4, <2>1
  <2>2. CASE i \in DOMAIN takes
    BY <1>4, <2>2 DEF LongRunRate
  <2> QED BY <1>4, <2>1, <2>2
<1> QED BY <1>6, <1>7, <1>8

\* A call that has got nothing has credited the ticks all the same.
LEMMA TakenNothing ==
  ASSUME Inv, NEW c \in Clients, Taken(c, 0), UNCHANGED <<wake, takes>>
  PROVE  Inv'
<1> USE TokenBucketAssumption
<1> DEFINE adj == Adjusted(read[c])
<1>0. /\ read[c] # NotRead /\ now' = now
      /\ avail' = adj.avail - 0 /\ availTick' = adj.tick
      /\ read' = [read EXCEPT ![c] = NotRead]
  BY DEF Taken
<1>1. /\ adj.avail \in Int /\ adj.avail <= Capacity
      /\ adj.tick \in Nat /\ adj.tick <= TickAt(now)
      /\ Total + adj.avail <= Capacity + Quantum * adj.tick
  BY <1>0, CallFacts
<1> HIDE DEF adj
<1>2. avail' = adj.avail
  BY <1>0, <1>1
<1>3. /\ read' \in [Clients -> Nat \cup {NotRead}]
      /\ \A d \in Clients : read'[d] <= now
      /\ now' \in Nat
  BY <1>0 DEF Inv, TypeOK, NotRead
<1>4. Total' = Total
  BY DEF Total
<1>5. TypeOK'
  BY <1>0, <1>1, <1>2, <1>3, Zenon DEF Inv, TypeOK, TickAt
<1>6. Balance' /\ LongRunRate'
  BY <1>0, <1>1, <1>2, <1>4 DEF Inv, Balance, LongRunRate, TickAt
<1> QED BY <1>5, <1>6 DEF Inv

\* What is there now came in with the ticks up to now.
LEMMA NowKeepsInv ==
  ASSUME Inv, NEW c \in Clients, NEW n \in Nat, Taken(c, n), Got(n, now), UNCHANGED wake,
         Adjusted(read[c]).avail >= n
  PROVE  Inv'
<1> USE TokenBucketAssumption
<1> DEFINE adj == Adjusted(read[c])
<1>1. /\ adj.avail \in Int /\ adj.tick \in Nat /\ adj.tick <= TickAt(now) /\ adj.avail >= n
      /\ Total + adj.avail <= Capacity + Quantum * adj.tick
      /\ Total \in Nat /\ Capacity \in Nat /\ Quantum \in Nat
      /\ now \in Nat /\ TickAt(now) \in Nat
  BY CallFacts DEF Taken
<1> HIDE DEF adj
<1>2. Quantum * adj.tick <= Quantum * TickAt(now)
  BY <1>1, TimesMonotone
<1>3. Total + n <= Capacity + Quantum * TickAt(now)
  <2>1. Quantum * adj.tick \in Int /\ Quantum * TickAt(now) \in Int
    BY <1>1
  <2> QED BY <1>1, <1>2, <2>1
<1>4. wake' \in [Clients -> Nat \cup {Awake}]
  BY DEF Inv, TypeOK
<1> QED BY <1>1, <1>3, <1>4, GotKeepsInv

\* What is promised for later will have come in by then.  A call that has to
\* wait has found less than the capacity: it asks for no more than that, so the
\* bucket was not full and has gone by the time the call has read.
LEMMA TakeLaterKeepsInv ==
  ASSUME Inv, NEW c \in Clients, NEW n \in 1 .. Capacity, TakeLater(c, n)
  PROVE  Inv'
<1> USE TokenBucketAssumption
<1> DEFINE t == read[c]
           adj == Adjusted(read[c])
           missing == n - adj.avail
           ticks == (missing + Quantum - 1) \div Quantum
           end == EndTime(t, missing)
           use == now + WaitTime(c, n)
<1>0. /\ Taken(c, n) /\ Got(n, use) /\ wake' = [wake EXCEPT ![c] = use]
      /\ read[c] # NotRead /\ adj.avail < n
  BY DEF TakeLater, Taken
<1>1. /\ adj.avail \in Int /\ adj.tick = TickAt(t)
      /\ Total + adj.avail <= Capacity + Quantum * TickAt(t)
      /\ Total \in Nat /\ Capacity \in Nat /\ Quantum \in Nat /\ n \in Nat
      /\ now \in Nat /\ t \in Nat /\ t <= now /\ TickAt(t) \in Nat
  <2>1. n \in Nat /\ n <= Capacity /\ Capacity \in Nat /\ Quantum \in Nat
    OBVIOUS
  <2>2. /\ adj.avail \in Int /\ (adj.avail < Capacity => adj.tick = TickAt(t))
        /\ Total + adj.avail <= Capacity + Quantum * adj.tick
        /\ Total \in Nat /\ now \in Nat /\ t \in Nat /\ t <= now /\ TickAt(t) \in Nat
    BY <1>0, CallFacts
  <2> HIDE DEF adj, t
  <2>3. adj.avail < Capacity
    BY <1>0, <2>1, <2>2
  <2> QED BY <2>1, <2>2, <2>3
<1>2. missing \in Nat \ {0} /\ missing = n - adj.avail
  <2> HIDE DEF adj
  <2> QED BY <1>0, <1>1
<1>3. ticks \in Nat /\ missing <= Quantum * ticks
  <2> HIDE DEF missing
  <2> QED BY <1>2, EnoughTicks
<1>4. end = (TickAt(t) + ticks) * FillInterval
  BY DEF EndTime
<1>5. use = now + (end - t)
  BY DEF WaitTime
<1> HIDE DEF t, adj, missing, ticks, end, use
<1>6. TickAt(t) + ticks \in Nat
  BY <1>1, <1>3
<1>7. end \in Nat /\ TickAt(end) = TickAt(t) + ticks
  BY <1>4, <1>6, TickOfMultiple
<1>8. use \in Nat /\ end <= use
  BY <1>1, <1>5, <1>7
<1>9. TickAt(end) \in Nat /\ TickAt(use) \in Nat /\ TickAt(end) <= TickAt(use)
  BY <1>7, <1>8, TickMonotone
<1>10. Total + n <= Capacity + Quantum * TickAt(use)
  <2>1. Quantum * TickAt(end) <= Quantum * TickAt(use)
    BY <1>1, <1>9, TimesMonotone
  <2>2. Quantum * TickAt(end) = Quantum * TickAt(t) + Quantum * ticks
    BY <1>1, <1>3, <1>7, TimesSum
  <2>3. /\ Quantum * TickAt(use) \in Int /\ Quantum * TickAt(t) \in Int
        /\ Quantum * ticks \in Int
    BY <1>1, <1>3, <1>9
  <2> QED BY <1>1, <1>2, <1>3, <2>1, <2>2, <2>3
<1>11. wake' \in [Clients -> Nat \cup {Awake}]
  BY <1>0, <1>8 DEF Inv, TypeOK
<1> QED BY <1>0, <1>1, <1>8, <1>10, <1>11, GotKeepsInv

\* TakeAvailable takes what is there, or nothing.
LEMMA TakeAvailableKeepsInv ==
  ASSUME Inv, NEW c \in Clients, NEW n \in Nat, TakeAvailable(c, n)
  PROVE  Inv'
<1>1. CASE TakeNothing(c)
  BY <1>1, TakenNothing DEF TakeNothing
<1>2. CASE TakeSome(c, n)
  <2> DEFINE k == Least(n, Adjusted(read[c]).avail)
  <2>1. Adjusted(read[c]).avail \in Int /\ Adjusted(read[c]).avail > 0
    BY <1>2, CallFacts DEF TakeSome, Taken
  <2>2. k \in Nat /\ Adjusted(read[c]).avail >= k
    BY <2>1 DEF Least
  <2>3. Taken(c, k) /\ Got(k, now) /\ UNCHANGED wake
    BY <1>2 DEF TakeSome
  <2> HIDE DEF k
  <2> QED BY <2>2, <2>3, NowKeepsInv
<1> QED BY <1>1, <1>2 DEF TakeAvailable

\* Reading the clock, waking up and the passing of time do not touch the bucket.
LEMMA BucketAlone ==
  ASSUME Inv, UNCHANGED <<avail, availTick, takes>>,
         now' \in Nat, now <= now', wake' \in [Clients -> Nat \cup {Awake}],
         read' \in [Clients -> Nat \cup {NotRead}], \A c \in Clients : read'[c] <= now'
  PROVE  Inv'
<1>1. TickAt(now) \in Nat /\ TickAt(now') \in Nat /\ TickAt(now) <= TickAt(now')
  BY TickMonotone DEF Inv, TypeOK
<1>2. TypeOK'
  BY <1>1 DEF Inv, TypeOK, TickAt
<1>3. Balance' /\ LongRunRate'
  BY DEF Inv, Balance, LongRunRate, Total, TickAt
<1> QED BY <1>2, <1>3 DEF Inv

\* Every step keeps the invariant.
LEMMA InvInductive == Inv /\ [Next]_vars => Inv'
<1> SUFFICES ASSUME Inv, [Next]_vars PROVE Inv'
  OBVIOUS
<1>1. Counts \subseteq 1 .. Capacity /\ Counts \subseteq Nat
  BY TokenBucketAssumption
<1>2. ASSUME NEW c \in Clients, NEW n \in Counts, TakeNow(c, n) PROVE Inv'
  BY <1>1, <1>2, NowKeepsInv DEF TakeNow
<1>3. ASSUME NEW c \in Clients, NEW n \in Counts, TakeLater(c, n) PROVE Inv'
  BY <1>1, <1>3, TakeLaterKeepsInv
<1>4. ASSUME NEW c \in Clients, NEW n \in Counts, TakeAvailable(c, n) PROVE Inv'
  BY <1>1, <1>4, TakeAvailableKeepsInv
<1>5. ASSUME NEW c \in Clients, NEW n \in Counts, NEW d \in MaxWaits, WaitMaxDuration(c, n, d)
      PROVE  Inv'
  <2>1. CASE TakeRefused(c, n, d)
    BY <2>1, TakenNothing DEF TakeRefused
  <2> QED BY <1>2, <1>3, <1>5, <2>1 DEF WaitMaxDuration
<1>6. /\ now \in Nat /\ wake \in [Clients -> Nat \cup {Awake}]
      /\ read \in [Clients -> Nat \cup {NotRead}] /\ \A c \in Clients : read[c] <= now
  BY DEF Inv, TypeOK
<1>7. ASSUME NEW c \in Clients, ReadClock(c) \/ Wake(c) PROVE Inv'
  <2>1. /\ wake' \in [Clients -> Nat \cup {Awake}] /\ now' = now
        /\ read' \in [Clients -> Nat \cup {NotRead}] /\ \A d \in Clients : read'[d] <= now
    BY <1>6, <1>7 DEF Wake, ReadClock
  <2> QED BY <1>6, <1>7, <2>1, BucketAlone DEF Wake, ReadClock
<1>8. CASE Tick
  <2>1. /\ now' \in Nat /\ now <= now' /\ UNCHANGED <<avail, availTick, read, wake, takes>>
        /\ \A d \in Clients : read'[d] <= now'
    BY <1>6, <1>8 DEF Tick, NotRead
  <2> QED BY <1>6, <2>1, BucketAlone
<1>9. CASE UNCHANGED vars
  BY <1>6, <1>9, BucketAlone DEF vars
<1> QED BY <1>2, <1>3, <1>4, <1>5, <1>7, <1>8, <1>9 DEF Next, Wait

\* A new bucket is full and nothing was taken.
LEMMA InvInit == Init => Inv
<1> SUFFICES ASSUME Init PROVE Inv
  OBVIOUS
<1> USE TokenBucketAssumption
<1>1. TickAt(0) \in Nat
  BY TickMonotone
<1>2. <<>> \in Seq(Take)
  OBVIOUS
<1>3. TypeOK
  BY <1>1, <1>2 DEF Init, TypeOK, Awake, NotRead
<1>4. Balance
  BY DEF Init, Balance, Total
<1>5. LongRunRate
  BY DEF Init, LongRunRate
<1> QED BY <1>3, <1>4, <1>5 DEF Inv

\* Whatever the clients ask for, up to the capacity, and however their readings
\* of the clock and their calls interleave, no more tokens are used up to any
\* moment than the capacity and the ticks up to that moment allow: adjust credits
\* no tick twice, and take promises nothing before it has come in.
THEOREM RateIsKept == Spec => []LongRunRate
<1>1. Inv => LongRunRate
  BY DEF Inv
<1> QED BY <1>1, InvInit, InvInductive, PTL DEF Spec
=============================================================================
