---------------------------- MODULE TokenBucket ----------------------------
(***************************************************************************)
(* The limit on the rate of requests of the API client: the token bucket   *)
(* of github.com/juju/ratelimit behind the RateLimiter of util/throttle.go *)
(* that RESTClient.Verb waits for.  The bucket has no thread of its own:   *)
(* each call first credits the ticks that went by.  A call is two steps:   *)
(* it reads the clock, and only then takes the mutex, so that what it      *)
(* credits goes by a time that may be long past, and the tick it leaves    *)
(* may be older than the one it found.  Time is counted in units,          *)
(* FillInterval of them to a tick.                                         *)
(***************************************************************************)
EXTENDS Integers, Sequences

CONSTANTS Clients,       \* goroutines that make requests
          Capacity,      \* the burst
          Quantum,       \* tokens per tick
          FillInterval,  \* units of time per tick
          Counts,        \* how many tokens a call may ask for
          MaxWaits,      \* the maxWait of TakeMaxDuration
          MaxTime,       \* bound on time
          MaxTakes       \* bound on the calls that get tokens

ASSUME TokenBucketAssumption ==
  /\ {Capacity, Quantum, FillInterval} \subseteq Nat \ {0}
  /\ Counts \subseteq 1 .. Capacity  \* 1 in throttle.go, and 0 < capacity
  /\ MaxWaits \subseteq Nat
  /\ {MaxTime, MaxTakes} \subseteq Nat

VARIABLES now,        \* time since startTime
          avail,      \* Bucket.avail: negative when callers wait for tokens
          availTick,  \* Bucket.availTick
          read,       \* the time each client's call has read, NotRead outside a call
          wake,       \* when each client's Sleep ends, Awake if it does not sleep
          takes       \* the calls that got tokens: how many, from when on, all so far

vars == <<now, avail, availTick, read, wake, takes>>

Awake == -1
NotRead == -1

Init ==
  /\ now = 0
  /\ avail = Capacity
  /\ availTick = 0
  /\ read = [c \in Clients |-> NotRead]
  /\ wake = [c \in Clients |-> Awake]
  /\ takes = <<>>
-----------------------------------------------------------------------------
Least(m, n) == IF m < n THEN m ELSE n

TickAt(t) == t \div FillInterval

\* Mutant of Adjusted: the ticks that were credited are not remembered.
AdjustedForgetful(t) ==
  IF avail >= Capacity THEN [avail |-> avail, tick |-> availTick]
  ELSE [avail |-> Least(avail + (TickAt(t) - availTick) * Quantum, Capacity),
        tick  |-> availTick]

\* adjust: a full bucket is left as it is, its availTick too.  For a time
\* before availTick the credit is negative, and availTick goes back.
Adjusted(t) ==
  IF avail >= Capacity THEN [avail |-> avail, tick |-> availTick]
  ELSE [avail |-> Least(avail + (TickAt(t) - availTick) * Quantum, Capacity),
        tick  |-> TickAt(t)]

Total == IF takes = <<>> THEN 0 ELSE takes[Len(takes)].total

\* A call has got n tokens that it may use from time t on.
Got(n, t) == takes' = Append(takes, [n |-> n, at |-> t, total |-> Total + n])

\* When the tokens that are missing at time t will have come in.
EndTime(t, missing) == (TickAt(t) + (missing + Quantum - 1) \div Quantum) * FillInterval

\* How long take tells its caller to wait, by the time the call has read.
WaitTime(c, n) == EndTime(read[c], n - Adjusted(read[c]).avail) - read[c]

\* time.Now(), the argument of take and takeAvailable: the mutex is not held.
ReadClock(c) ==
  /\ wake[c] = Awake /\ read[c] = NotRead
  /\ read' = [read EXCEPT ![c] = now]
  /\ UNCHANGED <<now, avail, availTick, wake, takes>>

\* The call takes the mutex, credits the ticks up to the time it has read,
\* takes n tokens and returns.
Taken(c, n) ==
  /\ read[c] # NotRead
  /\ avail' = Adjusted(read[c]).avail - n
  /\ availTick' = Adjusted(read[c]).tick
  /\ read' = [read EXCEPT ![c] = NotRead]
  /\ now' = now

\* take: there are tokens, or the caller will have to wait, unless that would
\* be longer than it is willing to.
TakeNow(c, n) ==
  /\ Len(takes) < MaxTakes
  /\ Taken(c, n)
  /\ Adjusted(read[c]).avail >= n
  /\ Got(n, now)
  /\ UNCHANGED wake

\* Wait sleeps for what take returned: at the earliest from now on.
TakeLater(c, n) ==
  /\ Len(takes) < MaxTakes
  /\ Taken(c, n)
  /\ Adjusted(read[c]).avail < n
  /\ Got(n, now + WaitTime(c, n))
  /\ wake' = [wake EXCEPT ![c] = now + WaitTime(c, n)]

\* take refuses: the ticks have been credited all the same.
TakeRefused(c, n, maxWait) ==
  /\ Taken(c, 0)
  /\ Adjusted(read[c]).avail < n
  /\ WaitTime(c, n) > maxWait
  /\ UNCHANGED <<wake, takes>>

\* Wait, and Accept of throttle.go, which is Wait(1).
Wait(c, n) == TakeNow(c, n) \/ TakeLater(c, n)

WaitMaxDuration(c, n, maxWait) ==
  \/ TakeNow(c, n)
  \/ read[c] # NotRead /\ WaitTime(c, n) <= maxWait /\ TakeLater(c, n)
  \/ TakeRefused(c, n, maxWait)

\* TakeAvailable, and CanAccept of throttle.go, which is TakeAvailable(1) = 1:
\* as many tokens as there are, at most n.
TakeNothing(c) ==
  /\ Taken(c, 0)
  /\ Adjusted(read[c]).avail <= 0
  /\ UNCHANGED <<wake, takes>>

TakeSome(c, n) ==
  /\ Len(takes) < MaxTakes
  /\ Taken(c, Least(n, Adjusted(read[c]).avail))
  /\ Adjusted(read[c]).avail > 0
  /\ Got(Least(n, Adjusted(read[c]).avail), now)
  /\ UNCHANGED wake

TakeAvailable(c, n) == TakeNothing(c) \/ TakeSome(c, n)

\* The caller's Sleep is over.
Wake(c) ==
  /\ wake[c] # Awake /\ now >= wake[c]
  /\ wake' = [wake EXCEPT ![c] = Awake]
  /\ UNCHANGED <<now, avail, availTick, read, takes>>

\* Time passes.
Tick ==
  /\ now < MaxTime
  /\ now' = now + 1
  /\ UNCHANGED <<avail, availTick, read, wake, takes>>
-----------------------------------------------------------------------------

Next ==
  \/ \E c \in Clients, n \in Counts : Wait(c, n) \/ TakeAvailable(c, n)
  \/ \E c \in Clients, n \in Counts, d \in MaxWaits : WaitMaxDuration(c, n, d)
  \/ \E c \in Clients : ReadClock(c) \/ Wake(c)
  \/ Tick

Spec == Init /\ [][Next]_vars
-----------------------------------------------------------------------------
(* Properties *)

Take == [n: Nat, at: Nat, total: Nat]

TypeOK ==
  /\ now \in Nat
  /\ avail \in Int /\ avail <= Capacity
  /\ availTick \in Nat /\ availTick <= TickAt(now)
  /\ read \in [Clients -> Nat \cup {NotRead}]
  /\ \A c \in Clients : read[c] <= now
  /\ wake \in [Clients -> Nat \cup {Awake}]
  /\ takes \in Seq(Take)

\* The rate: up to any moment no more tokens have been used than the bucket
\* held at first and the ticks brought in.  No tick is credited twice, and what
\* callers are promised does not go beyond what will have come in by then, in
\* whatever order the calls that have read the clock come to the mutex.
LongRunRate ==
  \A i \in DOMAIN takes : takes[i].total <= Capacity + Quantum * TickAt(takes[i].at)

=============================================================================
