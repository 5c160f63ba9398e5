----------------------------- MODULE Daemonizer -----------------------------
(***************************************************************************)
(* examples/https/haproxy: the daemonizer is process 1 of the container.   *)
(* It joins the mounted certificate and key into the .pem file haproxy     *)
(* loads, binds the socket haproxy logs to, starts haproxy in the          *)
(* background and then waits for ever.  When it ends, the container ends   *)
(* and haproxy with it; the container is then started again, either with a *)
(* fresh file system (kubelet) or with the files of the last run (docker   *)
(* restart).  The secret can be replaced at any time.                      *)
(***************************************************************************)
EXTENDS Naturals

CONSTANTS Layouts,       \* how the container may be set up, see Layout
          Kept,          \* may a restart keep the file system? subset of BOOLEAN
          MaxRotations,  \* bound on replacements of the mounted secret
          MaxCrashes     \* bound on kills, failed system calls, haproxy deaths

\* "secret": .crt and .key are mounted outside the directory of the .pem;
\* "shared": the flags put one of them in that directory;
\* "pemOnly": the docker command of the README, which mounts a .pem of the
\* user's own into the directory and no secret.
Layout == {"secret", "shared", "pemOnly"}

ASSUME DaemonizerAssumption ==
  /\ Layouts \subseteq Layout
  /\ Kept \subseteq BOOLEAN
  /\ MaxRotations \in Nat
  /\ MaxCrashes \in Nat

VARIABLES layout,
          secret,   \* version of the mounted certificate and key
          pc,       \* where main is
          crt, key, \* the versions catFiles has read
          pem,      \* the .pem file: absent, partly written or whole
          sock,     \* /var/run/haproxy.log.socket
          haproxy,  \* is it "up" or "down"?
          crashes

vars == <<layout, secret, pc, crt, key, pem, sock, haproxy, crashes>>

Version == 0..MaxRotations
NoPem == [state |-> "absent", crt |-> 0, key |-> 0]

Init ==
  /\ layout \in Layouts
  /\ secret = 0
  /\ pc = "stat"
  /\ crt = 0
  /\ key = 0
  /\ pem = NoPem
  /\ sock = "none"
  /\ haproxy = "down"
  /\ crashes = 0
-----------------------------------------------------------------------------
(* main, one action per system call whose effect another can observe *)

\* The process ends, and with it the container: haproxy is gone, a socket
\* that was bound leaves its path behind.
Die ==
  /\ pc' = "dead"
  /\ haproxy' = "down"
  /\ sock' = IF sock = "bound" THEN "stale" ELSE sock
  /\ UNCHANGED <<layout, secret, crt, key, pem>>

Go(from, to) ==
  /\ pc = from
  /\ pc' = to
  /\ UNCHANGED <<layout, secret, crashes>>

\* Mutant of StatPem: a .pem that exists is written again.
StatPemAlways ==
  /\ layout # "shared"
  /\ Go("stat", "readCrt")
  /\ UNCHANGED <<crt, key, pem, sock, haproxy>>

\* createPEM keeps a .pem that exists; else the directories must differ.
StatPem ==
  /\ pem.state # "absent" \/ layout # "shared"
  /\ Go("stat", IF pem.state # "absent" THEN "syslog" ELSE "readCrt")
  /\ UNCHANGED <<crt, key, pem, sock, haproxy>>

SharedDir ==
  /\ pc = "stat" /\ pem.state = "absent" /\ layout = "shared"
  /\ Die
  /\ UNCHANGED crashes

\* catFiles reads the certificate, then the key: two files, two moments.
ReadCrt ==
  /\ layout = "secret"
  /\ Go("readCrt", "readKey")
  /\ crt' = secret
  /\ UNCHANGED <<key, pem, sock, haproxy>>

NoCrt ==
  /\ pc = "readCrt" /\ layout # "secret"
  /\ Die
  /\ UNCHANGED crashes

ReadKey ==
  /\ Go("readKey", "open")
  /\ key' = secret
  /\ UNCHANGED <<crt, pem, sock, haproxy>>

\* WriteFile creates or truncates the .pem, and then fills it.
OpenPem ==
  /\ Go("open", "write")
  /\ pem' = [NoPem EXCEPT !.state = "partial"]
  /\ UNCHANGED <<crt, key, sock, haproxy>>

\* Mutant of WritePem: haproxy is started before the syslog server.
WritePemThenReload ==
  /\ Go("write", "reload")
  /\ pem' = [state |-> "whole", crt |-> crt, key |-> key]
  /\ UNCHANGED <<crt, key, sock, haproxy>>

WritePem ==
  /\ Go("write", "syslog")
  /\ pem' = [state |-> "whole", crt |-> crt, key |-> key]
  /\ UNCHANGED <<crt, key, sock, haproxy>>

\* Mutant of StartSyslog: the path a dead server left behind is not removed,
\* so that Listen fails on it.
StartSyslogNoRemove ==
  \/ /\ sock = "none"
     /\ Go("syslog", "reload")
     /\ sock' = "bound"
     /\ UNCHANGED <<crt, key, pem, haproxy>>
  \/ /\ pc = "syslog" /\ sock = "stale"
     /\ Die
     /\ UNCHANGED crashes

\* startSyslogServer removes the path, listens on it and starts to receive.
StartSyslog ==
  /\ Go("syslog", "reload")
  /\ sock' = "bound"
  /\ UNCHANGED <<crt, key, pem, haproxy>>

\* haproxy (external) starts on a whole .pem whose two parts belong together.
Loads == pem.state = "whole" /\ pem.crt = pem.key

\* /haproxy_reload starts haproxy; main then blocks for ever on select {}.
Reload ==
  /\ Loads
  /\ Go("reload", "idle")
  /\ haproxy' = "up"
  /\ UNCHANGED <<crt, key, pem, sock>>

ReloadErr ==
  /\ pc = "reload" /\ ~Loads
  /\ Die
  /\ UNCHANGED crashes
-----------------------------------------------------------------------------
(* The container and the cluster (external) *)

\* The process is killed, or a system call fails and main calls log.Fatalf,
\* or a goroutine of the syslog server does.
Crash ==
  /\ pc # "dead" /\ crashes < MaxCrashes
  /\ crashes' = crashes + 1
  /\ Die

\* haproxy dies alone: nothing watches it, so main stays where it is.
HaproxyDies ==
  /\ haproxy = "up" /\ crashes < MaxCrashes
  /\ haproxy' = "down"
  /\ crashes' = crashes + 1
  /\ UNCHANGED <<layout, secret, pc, crt, key, pem, sock>>

\* The container is started again, with or without the files it left.
Restart ==
  \E keep \in Kept :
    /\ pc = "dead"
    /\ pc' = "stat"
    /\ crt' = 0 /\ key' = 0
    /\ pem' = IF keep THEN pem ELSE NoPem
    /\ sock' = IF keep THEN sock ELSE "none"
    /\ UNCHANGED <<layout, secret, haproxy, crashes>>

Rotate ==
  /\ secret < MaxRotations
  /\ secret' = secret + 1
  /\ UNCHANGED <<layout, pc, crt, key, pem, sock, haproxy, crashes>>

\* main waits in select {} and nothing more will happen to it.
Waiting == pc = "idle" /\ UNCHANGED vars
-----------------------------------------------------------------------------
Main ==
  \/ StatPem \/ SharedDir \/ ReadCrt \/ NoCrt \/ ReadKey \/ OpenPem \/ WritePem
  \/ StartSyslog \/ Reload \/ ReloadErr

Next == Main \/ Crash \/ HaproxyDies \/ Restart \/ Rotate \/ Waiting

Spec == Init /\ [][Next]_vars
-----------------------------------------------------------------------------
(* Properties *)

TypeOK ==
  /\ layout \in Layouts
  /\ secret \in Version /\ crt \in Version /\ key \in Version
  /\ pc \in {"stat", "readCrt", "readKey", "open", "write", "syslog", "reload",
             "idle", "dead"}
  /\ pem \in [state: {"absent", "partial", "whole"}, crt: Version, key: Version]
  /\ sock \in {"none", "stale", "bound"}
  /\ haproxy \in {"up", "down"}
  /\ crashes \in 0..MaxCrashes

\* haproxy never runs without a socket to log to, in whatever order the
\* container is killed, restarted and its socket path left behind.
LogSocketBound == haproxy = "up" => sock = "bound"

\* Whenever createPEM has succeeded the .pem holds a certificate and a key:
\* the yaml says (examples/https/haproxy/haproxy-https.yaml:41-42) that "the
\* daemonizer converts .key, .crt to .pem in the directory mentioned in
\* haproxy.cfg".
PemConverted == pc \in {"syslog", "reload", "idle"} => pem.state = "whole"

\* A whole .pem is never written over by the container that has it: a running
\* haproxy and the file it was started from cannot part.
PemKept == [][pem.state = "whole" /\ pc # "dead" => pem' = pem]_vars

\* However often it is killed, main comes to its select {} again and haproxy
\* has been started; when files are kept, only a .pem that a crash left torn, or
\* that joins the certificate of one secret with the key of the next, keeps it
\* from that.
RecoversUnlessTorn ==
  layout = "secret" => <>[](pc = "idle" \/ pem.state = "partial" \/ pem.crt # pem.key)
=============================================================================
