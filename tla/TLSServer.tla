----------------------------- MODULE TLSServer -----------------------------
(***************************************************************************)
(* tls_server/client_server.go: one process makes a self signed            *)
(* certificate, serves https with it from a goroutine, and asks its own    *)
(* server for /hello until it answers, sleeping longer after each failure. *)
(* Another program of the host may hold port 443 meanwhile, and the server *)
(* goroutine ends the whole process when it cannot serve.                  *)
(***************************************************************************)
EXTENDS Naturals

CONSTANTS Host,       \* "foo.bar.com"
          IPs,        \* host names that net.ParseIP takes for addresses
          MaxSleep,   \* the loop of main: sleepTime < 1*time.Minute, in seconds
          MaxFaults   \* bound on failed system calls and broken connections

ASSUME TLSServerAssumption ==
  /\ Host \notin IPs
  /\ MaxSleep \in Nat \ {0}
  /\ MaxFaults \in Nat

VARIABLES pc,         \* main
          server,     \* the server goroutine
          port,       \* who listens on :443
          cert,       \* the certificate both ends of this process use
          sleepTime,
          slept,      \* seconds main has slept so far
          resp,       \* the response main has in hand: who served it
          out,        \* what main logged as the response
          code,       \* exit status
          faults

vars == <<pc, server, port, cert, sleepTime, slept, resp, out, code, faults>>

\* Certificates differ in their random serial number.
Certificate(serial, hosts, isCA) ==
  [serial |-> serial, dns |-> hosts \ IPs, ips |-> hosts \cap IPs, isCA |-> isCA]

\* Mutant of GenerateRSACerts: the certificate is not a CA.
GenerateRSACertsNoCA(hosts, isCA) == Certificate(1, hosts, FALSE)

GenerateRSACerts(hosts, isCA) == Certificate(1, hosts, isCA)

OwnCert == GenerateRSACerts({Host}, TRUE)

\* What another program on the port may offer: even the same host name.
OtherCert == Certificate(2, {Host}, TRUE)

\* Mutant of Handshake: InsecureSkipVerify.
HandshakeInsecure(offered, root) == TRUE

\* The client of buildHTTPSClient accepts a server whose certificate is the
\* CA it was given and names the ServerName.
Handshake(offered, root) == offered = root /\ root.isCA /\ Host \in offered.dns

NoCert == Certificate(0, {}, FALSE)

Init ==
  /\ pc = "generate"
  /\ server = "none"
  /\ port \in {"free", "other"}
  /\ cert = NoCert
  /\ sleepTime = 0
  /\ slept = 0
  /\ resp = "none"
  /\ out = "none"
  /\ code = 0
  /\ faults = 0

\* The process ends: its goroutines stop and its port is released.
Exit(status) ==
  /\ pc' = "exited"
  /\ code' = status
  /\ port' = IF port = "self" THEN "free" ELSE port

Fault == faults < MaxFaults /\ faults' = faults + 1
-----------------------------------------------------------------------------
(* main *)

\* main makes the certificate, starts the server and builds the client.
Generate ==
  /\ pc = "generate"
  /\ pc' = "get"
  /\ cert' = OwnCert
  /\ server' = "spawned"
  /\ sleepTime' = 1
  /\ UNCHANGED <<port, slept, resp, out, code, faults>>

GenerateErr ==
  /\ pc = "generate"
  /\ Fault
  /\ Exit(1)
  /\ UNCHANGED <<server, cert, sleepTime, slept, resp, out>>

\* The certificate the client is offered by whoever listens on :443.
Offered == IF port = "self" THEN cert ELSE OtherCert
Answers == port # "free" /\ Handshake(Offered, cert)

\* The whole body was read: main has a response in hand.
GetOk ==
  /\ pc = "get" /\ sleepTime < MaxSleep
  /\ Answers
  /\ resp' = IF port = "self" THEN "hello" ELSE "foreign"
  /\ pc' = "log"
  /\ UNCHANGED <<server, port, cert, sleepTime, slept, out, code, faults>>

LogResponse ==
  /\ pc = "log"
  /\ out' = resp
  /\ pc' = "return"
  /\ UNCHANGED <<server, port, cert, sleepTime, slept, resp, code, faults>>

Return ==
  /\ pc = "return"
  /\ Exit(0)
  /\ UNCHANGED <<server, cert, sleepTime, slept, resp, out, faults>>

\* Mutant of GetErr: the failed response is logged too.
GetErrLogs ==
  /\ pc = "get" /\ sleepTime < MaxSleep
  /\ ~Answers /\ faults' = faults
  /\ out' = "error"
  /\ pc' = "sleep"
  /\ UNCHANGED <<server, port, cert, sleepTime, slept, resp, code>>

\* Refused, not verified, or broken off: main goes to sleep.
GetErr ==
  /\ pc = "get" /\ sleepTime < MaxSleep
  /\ \/ ~Answers /\ faults' = faults
     \/ Answers /\ Fault
  /\ pc' = "sleep"
  /\ UNCHANGED <<server, port, cert, sleepTime, slept, resp, out, code>>

\* Mutant of Sleep: the pause does not grow.
SleepSame ==
  /\ pc = "sleep"
  /\ pc' = "get"
  /\ slept' = slept + sleepTime
  /\ UNCHANGED <<server, port, cert, sleepTime, resp, out, code, faults>>

Sleep ==
  /\ pc = "sleep"
  /\ pc' = "get"
  /\ slept' = slept + sleepTime
  /\ sleepTime' = 2 * sleepTime
  /\ UNCHANGED <<server, port, cert, resp, out, code, faults>>

\* Mutant of GiveUp: the last attempt is left out.
GiveUpEarly ==
  /\ pc = "get" /\ 2 * sleepTime >= MaxSleep
  /\ Exit(0)
  /\ UNCHANGED <<server, cert, sleepTime, slept, resp, out, faults>>

\* The loop is over and main returns: exit status 0, nothing logged.
GiveUp ==
  /\ pc = "get" /\ sleepTime >= MaxSleep
  /\ Exit(0)
  /\ UNCHANGED <<server, cert, sleepTime, slept, resp, out, faults>>
-----------------------------------------------------------------------------
(* The goroutine of startServer *)

Listen ==
  /\ pc # "exited" /\ server = "spawned"
  /\ IF port = "free" THEN server' = "serving" /\ port' = "self"
                      ELSE server' = "failed" /\ port' = port
  /\ UNCHANGED <<pc, cert, sleepTime, slept, resp, out, code, faults>>

\* Serve returns: accepting connections failed.
ServeErr ==
  /\ pc # "exited" /\ server = "serving"
  /\ Fault
  /\ server' = "failed"
  /\ port' = "free"
  /\ UNCHANGED <<pc, cert, sleepTime, slept, resp, out, code>>

\* Mutant of Fatal: the process ends as if all was well.
FatalExitsZero ==
  /\ pc # "exited" /\ server = "failed"
  /\ Exit(0)
  /\ UNCHANGED <<server, cert, sleepTime, slept, resp, out, faults>>

\* log.Fatalf in the goroutine ends the process, wherever main is.
Fatal ==
  /\ pc # "exited" /\ server = "failed"
  /\ Exit(1)
  /\ UNCHANGED <<server, cert, sleepTime, slept, resp, out, faults>>

\* Another program of the host takes or leaves the port (external).
OtherListens ==
  /\ port = "free"
  /\ port' = "other"
  /\ UNCHANGED <<pc, server, cert, sleepTime, slept, resp, out, code, faults>>

OtherLeaves ==
  /\ port = "other"
  /\ port' = "free"
  /\ UNCHANGED <<pc, server, cert, sleepTime, slept, resp, out, code, faults>>
-----------------------------------------------------------------------------
Main == Generate \/ GetOk \/ LogResponse \/ Return \/ GetErr \/ Sleep \/ GiveUp
Server == Listen \/ Fatal

Next ==
  \/ Main \/ GenerateErr \/ Server \/ ServeErr
  \/ OtherListens \/ OtherLeaves

Spec == Init /\ [][Next]_vars

\* Go's scheduler runs both goroutines, and the requests of main come back.
FairSpec == Spec /\ WF_vars(Main) /\ WF_vars(Server)
-----------------------------------------------------------------------------
(* Properties *)

TypeOK ==
  /\ pc \in {"generate", "get", "log", "return", "sleep", "exited"}
  /\ server \in {"none", "spawned", "serving", "failed"}
  /\ port \in {"free", "self", "other"}
  /\ cert \in {NoCert, OwnCert}
  /\ sleepTime \in Nat
  /\ slept \in Nat
  /\ resp \in {"none", "hello", "foreign"}
  /\ out \in {"none", "hello", "foreign"}
  /\ code \in {0, 1}
  /\ faults \in 0..MaxFaults

\* A response is logged only if this process served it: neither another
\* program on :443, nor one that calls itself by the same name, is believed,
\* also when the port changes hands between two attempts or while main has a
\* response in hand. With a response logged the status is 1 only if the server
\* had served and then failed: log.Fatalf of its goroutine may come between
\* main's log.Print and its return (tls_server/client_server.go:165, 188-189).
OnlyOwnServer ==
  out # "none" =>
    /\ out = "hello"
    /\ server = "serving" \/ (server = "failed" /\ faults > 0)
    /\ code = 1 => server = "failed"

\* The doubling pauses add up to less than twice the bound of the loop: the
\* sum is always one second short of the next pause.
BackoffBounded ==
  pc # "generate" /\ sleepTime > 0 =>
    slept + 1 = sleepTime /\ sleepTime < 2 * MaxSleep

\* main returns without a response only after it has waited at least the
\* bound of the loop, less one second.
GivesUpLate ==
  pc = "exited" /\ code = 0 /\ out = "none" => slept + 1 >= MaxSleep

\* A server that cannot serve is reported: the process ends with status 1,
\* unless main is faster than log.Fatalf, because its attempts have run out or
\* because it already has a response to log.
FailureReported ==
  (server = "failed") ~>
    pc = "exited" /\ (code = 1 \/ sleepTime >= MaxSleep \/ out = "hello")

\* Once the server is up while main has an attempt left, the response is
\* logged unless something fails: the certificate main made is one its client
\* accepts ("the given rootCA must be configured with isCA=true",
\* tls_server/client_server.go:111).
Served ==
  server = "serving" /\ pc = "get" /\ sleepTime < MaxSleep
  ~> out = "hello" \/ faults > 0
=============================================================================
