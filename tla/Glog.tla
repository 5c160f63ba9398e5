-------------------------------- MODULE Glog --------------------------------
(***************************************************************************)
(* glog as the update-receivers command uses it: without its flags, so     *)
(* that lines go to one file per severity, through a buffer, and only      *)
(* errors go to standard error too.  A line is in the file of its severity *)
(* and of every lower one.  Buffers are emptied when they are full, by a   *)
(* daemon, and before the process exits after a Fatal or an error.         *)
(*                                                                         *)
(* External: the disk.  It may refuse to create a file or to take what a   *)
(* buffer holds, and a file operation may hang with the mutex held.        *)
(***************************************************************************)
EXTENDS Integers, Sequences

CONSTANTS Goroutines, \* that log
          MaxLines,   \* lines that are logged before all but the Fatals stop
          Buffer,     \* lines the buffer of a file holds (bufferSize)
          MaxSize,    \* lines after which a file is rotated
          Faults      \* calls in which the disk makes trouble

ASSUME GlogAssumption ==
  /\ {MaxLines, Faults} \subseteq Nat /\ {Buffer, MaxSize} \subseteq Nat \ {0}
  /\ {"daemon", "nobody"} \cap Goroutines = {}

infoLog == 0
warningLog == 1
errorLog == 2
fatalLog == 3
Severities == infoLog .. fatalLog

VARIABLES file,    \* each severity's file, with all it was rotated from
          stderr,
          logged,  \* the severities of the lines so far; a line is its number
          pc,      \* where each goroutine is
          fatal,   \* the last line of its Fatal, the stacks
          mu,      \* who holds the mutex over several steps
          at,      \* the file that is to be flushed next
          hung,    \* whether a file operation never returns
          faults,
          exit     \* "run", or how the process ended
vars == <<file, stderr, logged, pc, fatal, mu, at, hung, faults, exit>>

Daemon == "daemon"
Nobody == "nobody"
Flushers == Goroutines \cup {Daemon}

\* sink: whether there is a file under the buffer; closed if the next one could
\* not be created.  err: the buffer has met an error and takes nothing any more.
\* bad (history): the disk did not take something that was in the buffer.
NoFile == [sink |-> "none", err |-> FALSE, bad |-> FALSE, size |-> 0, buf |-> <<>>, disk |-> <<>>]

Init ==
  /\ file = [s \in Severities |-> NoFile]
  /\ stderr = {} /\ logged = <<>> /\ faults = 0 /\ hung = FALSE /\ exit = "run"
  /\ pc = [g \in Goroutines |-> "log"] /\ fatal = [g \in Goroutines |-> 0]
  /\ mu = Nobody /\ at = fatalLog
-----------------------------------------------------------------------------
(* A file *)

\* What the disk refuses while a call lasts: nothing, or something of one file, or
\* of all of them.
Answers ==
  {[t \in Severities |-> IF t \in T THEN d ELSE {}] :
     T \in {{t} : t \in Severities} \cup {Severities}, d \in SUBSET {"flush", "create"}}

Answer(d) ==
  LET n == IF \E t \in Severities : d[t] # {} THEN 1 ELSE 0
  IN faults + n <= Faults /\ faults' = faults + n

\* bufio.Writer.Flush, whose errors last; d is what the disk refuses.
Flushed(f, d) ==
  IF f.err \/ f.buf = <<>> THEN f
  ELSE IF "flush" \in d \/ f.sink = "closed" THEN [f EXCEPT !.err = TRUE, !.bad = TRUE]
  ELSE [f EXCEPT !.disk = @ \o f.buf, !.buf = <<>>]

\* Mutant of Rotated: the buffer is not flushed.
RotatedUnflushed(f, d) ==
  IF f.size + 1 < MaxSize THEN f
  ELSE IF "create" \in d THEN [f EXCEPT !.sink = "closed", !.size = 0]
  ELSE [f EXCEPT !.sink = "open", !.err = FALSE, !.buf = <<>>, !.size = 0]

\* rotateFile, when the file becomes too long.  The error of its Flush is ignored;
\* the new file comes with a new buffer.  "create" stands for a refused header
\* too, which ends the process alike.
Rotated(f, d) ==
  LET h == IF f.sink = "closed" THEN f ELSE Flushed(f, d)
  IN IF f.size + 1 < MaxSize THEN f
     ELSE IF "create" \in d THEN [h EXCEPT !.sink = "closed", !.size = 0]
     ELSE [h EXCEPT !.sink = "open", !.err = FALSE, !.bad = @ \/ h.buf # <<>>,
                    !.buf = <<>>, !.size = 0]

\* bufio.Writer.Write empties a buffer that is full.
WriteBuffer(f, line, d) ==
  LET h == IF Len(f.buf) = Buffer THEN Flushed(f, d) ELSE f
  IN IF h.err THEN h ELSE [h EXCEPT !.buf = Append(@, line), !.size = @ + 1]

\* syncBuffer.Write; on tells whether it goes on after an error of rotateFile.
Write(f, line, d, on) ==
  LET h == Rotated(f, d)
  IN IF h.sink = "closed" /\ ~on THEN h ELSE WriteBuffer(h, line, d)

\* createFiles: the files of s and below, those that are there excepted.
CreateFiles(s) ==
  [t \in Severities |-> IF t <= s /\ file[t].sink = "none" THEN [file[t] EXCEPT !.sink = "open"]
                        ELSE file[t]]
-----------------------------------------------------------------------------
(* Logging *)

Line == Len(logged) + 1
Free == exit = "run" /\ mu = Nobody /\ ~hung

\* logExitFunc is set once a Fatal is written: errors no longer end the process.
logExitFunc == \E g \in Goroutines : pc[g] \in {"trace", "flush", "flushed"}

\* A goroutine calls Fatal, and waits for the mutex.
CallFatal(g) ==
  /\ exit = "run" /\ pc[g] = "log"
  /\ pc' = [pc EXCEPT ![g] = "fatal"]
  /\ UNCHANGED <<file, stderr, logged, fatal, mu, at, hung, faults, exit>>

\* output takes the mutex and a line, which is on standard error if it is an error.
Begin(g, s) ==
  /\ Free
  /\ IF s = fatalLog THEN pc[g] = "fatal" ELSE pc[g] = "log" /\ Line <= MaxLines
  /\ logged' = Append(logged, s)

ToStderr(s) == stderr' = IF s >= errorLog THEN stderr \cup {Line} ELSE stderr

\* The files a line is written to, from its own down, and those whose Write failed.
Written(s, d) ==
  [t \in Severities |-> IF t <= s THEN Write(CreateFiles(s)[t], Line, d[t], logExitFunc)
                        ELSE file[t]]
Failed(s, w) == {t \in infoLog .. s : ~logExitFunc /\ (w[t].err \/ w[t].sink = "closed")}

\* output.  A Fatal keeps the mutex for the stacks.
Output(g, s) ==
  /\ Begin(g, s) /\ ToStderr(s)
  /\ \E d \in Answers :
       Answer(d) /\ file' = Written(s, d) /\ Failed(s, file') = {}
  /\ pc' = [pc EXCEPT ![g] = IF s = fatalLog THEN "trace" ELSE "log"]
  /\ mu' = IF s = fatalLog THEN g ELSE Nobody
  /\ UNCHANGED <<fatal, at, hung, exit>>

\* output: a Write fails and calls exit, so the files below do not get the line.
WriteErr(g, s) ==
  /\ Begin(g, s) /\ ToStderr(s)
  /\ \E d \in Answers :
       LET w == Written(s, d)
       IN \E r \in Failed(s, w) :
            /\ Answer(d) /\ \A t \in Failed(s, w) : t <= r
            /\ file' = [t \in Severities |-> IF t >= r THEN w[t] ELSE CreateFiles(s)[t]]
  /\ pc' = [pc EXCEPT ![g] = "write"] /\ mu' = g /\ at' = fatalLog
  /\ UNCHANGED <<fatal, hung, exit>>

\* output: createFiles fails at the file of r; the line is shown, and exit called.
CreateErr(g, s) ==
  /\ Begin(g, s) /\ stderr' = stderr \cup {Line}
  /\ faults < Faults /\ faults' = faults + 1
  /\ \E r \in infoLog .. s :
       /\ file[r].sink = "none"
       /\ file' = [t \in Severities |-> IF t > r THEN CreateFiles(s)[t] ELSE file[t]]
  /\ pc' = [pc EXCEPT ![g] = "create"] /\ mu' = g /\ at' = fatalLog
  /\ UNCHANGED <<fatal, hung, exit>>

\* output: the stacks follow a Fatal in all files, whatever the disk says.
Trace(g) ==
  /\ exit = "run" /\ ~hung /\ pc[g] = "trace" /\ mu = g
  /\ logged' = Append(logged, fatalLog) /\ ToStderr(fatalLog)
  /\ \E d \in Answers : Answer(d) /\ file' = Written(fatalLog, d)
  /\ pc' = [pc EXCEPT ![g] = "flush"] /\ fatal' = [fatal EXCEPT ![g] = Line]
  /\ mu' = Nobody
  /\ UNCHANGED <<at, hung, exit>>
-----------------------------------------------------------------------------
(* Flushing and the end of the process *)

\* Where a goroutine is; the daemon is only ever in flushAll.
Is(g, where) == g \in Goroutines /\ pc[g] \in where

\* Fatal has let go of the mutex; timeoutFlush waits for a Flush or for 10 s.
\* The daemon does the same every 30 s and nobody waits for it.
Lock(g) ==
  /\ Free
  /\ g = Daemon \/ Is(g, {"flush"})
  /\ mu' = g /\ at' = fatalLog
  /\ UNCHANGED <<file, stderr, logged, pc, fatal, hung, faults, exit>>

\* Whoever has the mutex is in flushAll.
Flushing(g) == exit = "run" /\ ~hung /\ mu = g /\ ~Is(g, {"trace"})

\* Mutant of FlushFile: the loop ends before the last file.
FlushFileShort(g) ==
  /\ Flushing(g) /\ at > infoLog
  /\ \E d \in Answers : Answer(d) /\ file' = [file EXCEPT ![at] = Flushed(@, d[at])]
  /\ at' = IF at = warningLog THEN infoLog - 1 ELSE at - 1
  /\ UNCHANGED <<stderr, logged, pc, fatal, mu, hung, exit>>

\* flushAll: the files one after the other, whatever the disk says.
FlushFile(g) ==
  /\ Flushing(g) /\ at >= infoLog
  /\ \E d \in Answers : Answer(d) /\ file' = [file EXCEPT ![at] = Flushed(@, d[at])]
  /\ at' = at - 1
  /\ UNCHANGED <<stderr, logged, pc, fatal, mu, hung, exit>>

\* lockAndFlushAll is over.
Unlock(g) ==
  /\ Flushing(g) /\ at < infoLog
  /\ g = Daemon \/ Is(g, {"flush"})
  /\ mu' = Nobody
  /\ pc' = IF g = Daemon THEN pc ELSE [pc EXCEPT ![g] = "flushed"]
  /\ UNCHANGED <<file, stderr, logged, fatal, at, hung, faults, exit>>

\* exit, after its flushAll: os.Exit(2).
ExitErr(g) ==
  /\ Flushing(g) /\ at < infoLog /\ Is(g, {"write", "create"})
  /\ exit' = pc[g]
  /\ UNCHANGED <<file, stderr, logged, pc, fatal, mu, at, hung, faults>>

\* Mutant of Exit: only after the flush.
ExitFlushed(g) ==
  /\ exit = "run" /\ pc[g] = "flushed"
  /\ exit' = "fatal"
  /\ UNCHANGED <<file, stderr, logged, pc, fatal, mu, at, hung, faults>>

\* output after timeoutFlush: os.Exit(255).
Exit(g) ==
  /\ exit = "run"
  /\ \/ pc[g] = "flushed" /\ exit' = "fatal"
     \/ pc[g] = "flush" /\ exit' = "timeout"
  /\ UNCHANGED <<file, stderr, logged, pc, fatal, mu, at, hung, faults>>

\* main of the update-receivers command returns after its Infof.
Return ==
  /\ exit = "run" /\ logged # <<>> /\ \A g \in Goroutines : pc[g] = "log"
  /\ exit' = "return"
  /\ UNCHANGED <<file, stderr, logged, pc, fatal, mu, at, hung, faults>>

\* The disk: a file operation of whoever has the mutex, or takes it next, hangs.
Hang ==
  /\ exit = "run" /\ ~hung /\ faults < Faults
  /\ hung' = TRUE /\ faults' = faults + 1
  /\ UNCHANGED <<file, stderr, logged, pc, fatal, mu, at, exit>>

Log(g, s) == Output(g, s) \/ WriteErr(g, s) \/ CreateErr(g, s)
Flush(g) == FlushFile(g) \/ Unlock(g) \/ ExitErr(g)
Next ==
  \/ \E g \in Goroutines, s \in Severities : Log(g, s)
  \/ \E g \in Goroutines : CallFatal(g) \/ Trace(g) \/ Exit(g)
  \/ \E g \in Flushers : Lock(g) \/ Flush(g)
  \/ Return \/ Hang

\* Timers fire, whatever the disk does.  Whoever has the mutex goes on unless the
\* disk hangs, and a Fatal that waits for it gets it: the daemon leaves it alone
\* for 30 s.
Fairness ==
  /\ \A g \in Goroutines : WF_vars(Exit(g)) /\ WF_vars(Trace(g)) /\ SF_vars(Log(g, fatalLog))
  /\ \A g \in Flushers : WF_vars(Flush(g))

Spec == Init /\ [][Next]_vars /\ Fairness
-----------------------------------------------------------------------------
(* Properties *)

TypeOK ==
  /\ \A s \in Severities :
       /\ file[s].sink \in {"none", "open", "closed"}
       /\ file[s].err \in BOOLEAN /\ file[s].bad \in BOOLEAN
       /\ file[s].size \in 0 .. MaxSize - 1 /\ Len(file[s].buf) <= Buffer
  /\ stderr \subseteq 1 .. Len(logged)
  /\ logged \in Seq(Severities)
  /\ pc \in [Goroutines -> {"log", "fatal", "trace", "flush", "flushed", "write", "create"}]
  /\ fatal \in [Goroutines -> 0 .. Len(logged)]
  /\ mu \in Flushers \cup {Nobody} /\ at \in infoLog - 1 .. fatalLog
  /\ hung \in BOOLEAN /\ faults \in 0 .. Faults
  /\ exit \in {"run", "fatal", "timeout", "write", "create", "return"}

\* The first n lines that belong in the file of severity s, and those in a text.
Lines(s, n) == {i \in 1 .. n : logged[i] >= s}
In(text) == {text[i] : i \in DOMAIN text}

\* Whether a line has led to the exit of glog, which some files then do not have.
Exiting == \E g \in Goroutines : pc[g] \in {"write", "create"}

\* No line is doubled or put out of order in any file, through full buffers,
\* rotations and flushes of several goroutines and errors of all of them; and a
\* file whose buffer the disk never refused has all its lines, but for the one
\* that led to the exit of glog.
InOrder ==
  \A s \in Severities :
    LET text == file[s].disk \o file[s].buf
        n    == Len(logged)
    IN /\ \A i, j \in DOMAIN text : i < j => text[i] < text[j]
       /\ In(text) \subseteq Lines(s, n)
       /\ ~file[s].bad => Lines(s, IF Exiting THEN n - 1 ELSE n) \subseteq In(text)

\* A process that glog ends has shown what the disk took of what was logged.  When
\* the flush of a Fatal is over, or glog has exited because of an error, every
\* file whose buffer was never refused has on disk all lines up to the stacks of
\* the Fatal, or to the one before the error: also lines of other goroutines, and
\* though every error of a flush is ignored.  The line in error itself may be
\* lost, unless no file could be created ("Make sure the message appears
\* somewhere").
FatalIsWritten ==
  /\ \A g \in Goroutines : pc[g] = "flushed" =>
       \A s \in Severities : file[s].bad \/ Lines(s, fatal[g]) \subseteq In(file[s].disk)
  /\ exit \in {"write", "create"} =>
       \A s \in Severities : file[s].bad \/ Lines(s, Len(logged) - 1) \subseteq In(file[s].disk)
  /\ exit = "create" => Len(logged) \in stderr

\* A Fatal whose stacks are written ends the process, also when the disk hangs
\* with the mutex held; one that still waits for the mutex does so unless the disk
\* hangs: there is no time limit on l.mu.Lock in output.
FatalEnds ==
  \A g \in Goroutines :
    /\ pc[g] = "flush" ~> exit # "run"
    /\ pc[g] = "fatal" ~> exit # "run" \/ hung
=============================================================================
