----------------------------- MODULE Glog_proofs -----------------------------
(***************************************************************************)
(* Proofs about Glog for any number of goroutines and lines, buffers and   *)
(* files of any length, and any number of errors of the disk.              *)
(***************************************************************************)
EXTENDS Glog, SequenceTheorems, TLAPS

FileType == [sink: {"none", "open", "closed"}, err: BOOLEAN, bad: BOOLEAN, size: Int,
             buf: Seq(Nat), disk: Seq(Nat)]
Text(f) == f.disk \o f.buf
Increasing(t) == \A i, j \in DOMAIN t : i < j => t[i] < t[j]

\* A buffer with an error is one the disk has refused something of.
Sound(f) == f \in FileType /\ (f.err => f.bad)
-----------------------------------------------------------------------------
(* Texts *)

\* A line written behind the second of two texts is written behind both.
LEMMA ConcatAppend ==
  ASSUME NEW a \in Seq(Nat), NEW b \in Seq(Nat), NEW x \in Nat
  PROVE  a \o Append(b, x) = Append(a \o b, x)
<1>1. a \o Append(b, x) \in Seq(Nat) /\ Append(a \o b, x) \in Seq(Nat)
  OBVIOUS
<1>2. Len(a \o Append(b, x)) = Len(Append(a \o b, x))
  OBVIOUS
<1>3. ASSUME NEW i \in 1 .. Len(Append(a \o b, x))
      PROVE  (a \o Append(b, x))[i] = Append(a \o b, x)[i]
  OBVIOUS
<1> QED BY <1>1, <1>2, <1>3

\* What is written at the end of a text, and a text written to the end of another.
LEMMA InAppend ==
  ASSUME NEW t \in Seq(Nat), NEW x \in Nat
  PROVE  In(Append(t, x)) = In(t) \cup {x}
<1>1. /\ DOMAIN Append(t, x) = 1 .. Len(t) + 1 /\ DOMAIN t = 1 .. Len(t) /\ Len(t) \in Nat
      /\ \A i \in 1 .. Len(t) : Append(t, x)[i] = t[i]
      /\ Append(t, x)[Len(t) + 1] = x
  OBVIOUS
<1> QED BY <1>1 DEF In

\* What is on disk stays when more is written behind it.
LEMMA InConcat ==
  ASSUME NEW a \in Seq(Nat), NEW b \in Seq(Nat)
  PROVE  In(a) \subseteq In(a \o b)
<1>1. /\ DOMAIN (a \o b) = 1 .. Len(a) + Len(b) /\ DOMAIN a = 1 .. Len(a)
      /\ Len(a) \in Nat /\ Len(b) \in Nat
      /\ \A i \in 1 .. Len(a) : (a \o b)[i] = a[i]
  OBVIOUS
<1> QED BY <1>1 DEF In

\* A text in order stays so when a later line follows.
LEMMA AppendIncreasing ==
  ASSUME NEW t \in Seq(Nat), NEW x \in Nat, Increasing(t), \A y \in In(t) : y < x
  PROVE  Increasing(Append(t, x))
<1>1. /\ DOMAIN Append(t, x) = 1 .. Len(t) + 1 /\ DOMAIN t = 1 .. Len(t) /\ Len(t) \in Nat
      /\ \A i \in 1 .. Len(t) : Append(t, x)[i] = t[i]
      /\ Append(t, x)[Len(t) + 1] = x
  OBVIOUS
<1>2. \A i \in 1 .. Len(t) : t[i] < x
  BY <1>1 DEF In
<1> QED BY <1>1, <1>2 DEF Increasing

\* The beginning of a text in order is in order.
LEMMA PrefixIncreasing ==
  ASSUME NEW a \in Seq(Nat), NEW b \in Seq(Nat), Increasing(a \o b)
  PROVE  Increasing(a)
<1>1. /\ DOMAIN (a \o b) = 1 .. Len(a) + Len(b) /\ DOMAIN a = 1 .. Len(a)
      /\ Len(a) \in Nat /\ Len(b) \in Nat
      /\ \A i \in 1 .. Len(a) : (a \o b)[i] = a[i]
  OBVIOUS
<1> QED BY <1>1 DEF Increasing
-----------------------------------------------------------------------------
(* Files *)

\* What becomes of a file in which nothing new is written: it is lost only if the
\* disk has refused it.
Keeps(f, h) ==
  /\ Sound(h) /\ (f.bad => h.bad)
  /\ In(f.disk) \subseteq In(h.disk)
  /\ Increasing(Text(f)) => Increasing(Text(h))
  /\ In(Text(h)) \subseteq In(Text(f))
  /\ ~h.bad => In(Text(f)) \subseteq In(Text(h))

\* The same of a file to which a line may have been added.
Adds(f, h, line) ==
  /\ Sound(h) /\ (f.bad => h.bad)
  /\ In(f.disk) \subseteq In(h.disk)
  /\ Increasing(Text(f)) /\ (\A y \in In(Text(f)) : y < line) => Increasing(Text(h))
  /\ In(Text(h)) \subseteq In(Text(f)) \cup {line}
  /\ ~h.bad => In(Text(f)) \subseteq In(Text(h))

\* A file that is left alone, and one thing after another.
LEMMA KeepsOrder ==
  ASSUME NEW f, NEW h, NEW k, NEW line
  PROVE  /\ Sound(f) => Keeps(f, f)
         /\ Keeps(f, h) /\ Keeps(h, k) => Keeps(f, k)
         /\ Keeps(f, h) => Adds(f, h, line)
         /\ Keeps(f, h) /\ Adds(h, k, line) => Adds(f, k, line)
BY Zenon DEF Keeps, Adds

\* What is on disk and in the buffer decides, the rest of a file does not.
LEMMA SameText ==
  ASSUME NEW f, Sound(f), NEW h, Sound(h), f.bad => h.bad,
         h.disk = f.disk, h.buf = f.buf \/ (h.buf = <<>> /\ h.bad)
  PROVE  Keeps(f, h)
<1>1. f.disk \in Seq(Nat) /\ f.buf \in Seq(Nat)
  BY DEF Sound, FileType
<1>2. CASE h.buf = f.buf
  BY <1>2 DEF Keeps, Text
<1>3. CASE h.buf = <<>> /\ h.bad
  <2>1. Text(h) = f.disk
    BY <1>1, <1>3 DEF Text
  <2>2. In(f.disk) \subseteq In(Text(f))
    BY <1>1, InConcat DEF Text
  <2>3. Increasing(Text(f)) => Increasing(f.disk)
    BY <1>1, PrefixIncreasing DEF Text
  <2> QED BY <1>3, <2>1, <2>2, <2>3 DEF Keeps
<1> QED BY <1>2, <1>3

\* Flushing moves the buffer to the disk, or the disk refuses it.
LEMMA FlushFacts ==
  ASSUME NEW f, Sound(f), NEW d
  PROVE  /\ Keeps(f, Flushed(f, d))
         /\ Flushed(f, d).buf = <<>> \/ Flushed(f, d).bad
         /\ Flushed(f, d).sink = f.sink
<1>1. f.disk \in Seq(Nat) /\ f.buf \in Seq(Nat) /\ f \in FileType
  BY DEF Sound, FileType
<1>2. CASE f.err \/ f.buf = <<>>
  <2>1. Flushed(f, d) = f
    BY <1>2 DEF Flushed
  <2> QED BY <1>2, <2>1, KeepsOrder DEF Sound
<1>3. CASE ~(f.err \/ f.buf = <<>>) /\ ("flush" \in d \/ f.sink = "closed")
  <2> DEFINE h == [f EXCEPT !.err = TRUE, !.bad = TRUE]
  <2>1. Flushed(f, d) = h
    BY <1>3 DEF Flushed
  <2>2. /\ h \in FileType /\ h.bad = TRUE /\ h.disk = f.disk /\ h.buf = f.buf
        /\ h.sink = f.sink
    BY <1>1, Zenon DEF FileType
  <2> HIDE DEF h
  <2>3. Sound(h)
    BY <2>2 DEF Sound
  <2> QED BY <2>1, <2>2, <2>3, SameText
<1>4. CASE ~(f.err \/ f.buf = <<>>) /\ ~("flush" \in d \/ f.sink = "closed")
  <2> DEFINE t == f.disk \o f.buf
             h == [f EXCEPT !.disk = t, !.buf = <<>>]
  <2>1. Flushed(f, d) = h
    BY <1>4 DEF Flushed
  <2>2. t = Text(f) /\ t \in Seq(Nat) /\ <<>> \in Seq(Nat) /\ In(f.disk) \subseteq In(t)
    BY <1>1, InConcat DEF Text
  <2> HIDE DEF t
  <2>3. /\ h \in FileType /\ h.bad = f.bad /\ h.err = f.err /\ h.disk = t /\ h.buf = <<>>
        /\ h.sink = f.sink
    BY <1>1, <2>2, Zenon DEF FileType
  <2> HIDE DEF h
  <2>4. Text(h) = t
    BY <2>2, <2>3 DEF Text
  <2>5. Sound(h)
    BY <2>3 DEF Sound
  <2>6. Keeps(f, h)
    BY <2>2, <2>3, <2>4, <2>5 DEF Keeps
  <2> QED BY <2>1, <2>3, <2>6
<1> QED BY <1>2, <1>3, <1>4

\* A rotation loses nothing but what the disk refuses.
LEMMA RotateFacts ==
  ASSUME NEW f, Sound(f), NEW d
  PROVE  Keeps(f, Rotated(f, d))
<1> DEFINE h == IF f.sink = "closed" THEN f ELSE Flushed(f, d)
<1>1. Keeps(f, h)
  BY FlushFacts, KeepsOrder
<1>2. Rotated(f, d) =
        IF f.size + 1 < MaxSize THEN f
        ELSE IF "create" \in d THEN [h EXCEPT !.sink = "closed", !.size = 0]
        ELSE [h EXCEPT !.sink = "open", !.err = FALSE, !.bad = @ \/ h.buf # <<>>,
                       !.buf = <<>>, !.size = 0]
  BY DEF Rotated
<1> HIDE DEF h
<1>3. Sound(h) /\ h \in FileType /\ 0 \in Int /\ <<>> \in Seq(Nat)
  BY <1>1 DEF Keeps, Sound
<1>4. CASE f.size + 1 < MaxSize
  BY <1>2, <1>4, KeepsOrder
<1>5. CASE ~(f.size + 1 < MaxSize) /\ "create" \in d
  <2> DEFINE k == [h EXCEPT !.sink = "closed", !.size = 0]
  <2>1. k \in FileType /\ k.bad = h.bad /\ k.err = h.err /\ k.disk = h.disk /\ k.buf = h.buf
    BY <1>3, Zenon DEF FileType
  <2>2. Rotated(f, d) = k
    BY <1>2, <1>5
  <2> HIDE DEF k
  <2>3. Sound(k)
    BY <1>3, <2>1 DEF Sound
  <2>4. Keeps(h, k)
    BY <1>3, <2>1, <2>3, SameText
  <2> QED BY <1>1, <2>2, <2>4, KeepsOrder
<1>6. CASE ~(f.size + 1 < MaxSize) /\ "create" \notin d
  <2> DEFINE b == h.bad \/ h.buf # <<>>
             k == [h EXCEPT !.sink = "open", !.err = FALSE, !.bad = b, !.buf = <<>>, !.size = 0]
  <2>1. b \in BOOLEAN /\ (h.bad => b) /\ (b \/ h.buf = <<>>)
    BY Zenon
  <2>2. Rotated(f, d) = k
    BY <1>2, <1>6, Zenon
  <2> HIDE DEF b
  <2>3. k \in FileType /\ k.bad = b /\ k.err = FALSE /\ k.disk = h.disk /\ k.buf = <<>>
    BY <1>3, <2>1, Zenon DEF FileType
  <2> HIDE DEF k
  <2>4. Sound(k) /\ (h.bad => k.bad) /\ (k.bad \/ h.buf = <<>>)
    BY <2>1, <2>3, Zenon DEF Sound
  <2>5. Keeps(h, k)
    BY <1>3, <2>3, <2>4, SameText
  <2> QED BY <1>1, <2>2, <2>5, KeepsOrder
<1> QED BY <1>4, <1>5, <1>6

\* Nor does a full buffer; and a Write whose error does not count has written the
\* line, or the disk has refused it.
LEMMA WriteFacts ==
  ASSUME NEW f, Sound(f), NEW line \in Nat, NEW d, NEW on \in BOOLEAN
  PROVE  /\ Adds(f, Write(f, line, d, on), line)
         /\ on \/ Write(f, line, d, on).sink # "closed" =>
              Write(f, line, d, on).bad \/ line \in In(Text(Write(f, line, d, on)))
<1> DEFINE r == Rotated(f, d)
           h == IF Len(r.buf) = Buffer THEN Flushed(r, d) ELSE r
           w == WriteBuffer(r, line, d)
<1>1. Keeps(f, r) /\ Sound(r)
  BY RotateFacts DEF Keeps
<1>2. Write(f, line, d, on) = IF r.sink = "closed" /\ ~on THEN r ELSE w
  BY DEF Write
<1> HIDE DEF r
<1>3. Keeps(r, h)
  BY <1>1, FlushFacts, KeepsOrder
<1>4. w = IF h.err THEN h ELSE [h EXCEPT !.buf = Append(h.buf, line), !.size = h.size + 1]
  BY DEF WriteBuffer
<1> HIDE DEF h, w
<1>5. Sound(h) /\ Keeps(f, h)
  BY <1>1, <1>3, KeepsOrder DEF Keeps
<1>6. Adds(f, w, line) /\ (w.bad \/ line \in In(Text(w)))
  <2>1. CASE h.err
    BY <1>4, <1>5, <2>1, KeepsOrder DEF Sound
  <2>2. CASE ~h.err
    <3> DEFINE b == Append(h.buf, line)
               n == h.size + 1
    <3>1. h \in FileType /\ h.disk \in Seq(Nat) /\ h.buf \in Seq(Nat) /\ b \in Seq(Nat) /\ n \in Int
      BY <1>5 DEF Sound, FileType
    <3>2. w = [h EXCEPT !.buf = b, !.size = n]
      BY <1>4, <2>2
    <3>3. h.disk \o b = Append(Text(h), line)
      BY <3>1, ConcatAppend DEF Text
    <3> HIDE DEF b, n
    <3>4. w \in FileType /\ w.bad = h.bad /\ w.err = h.err /\ w.disk = h.disk /\ w.buf = b
      BY <3>1, <3>2, Zenon DEF FileType
    <3>5. Text(w) = Append(Text(h), line) /\ Text(h) \in Seq(Nat)
      <4>1. Text(w) = h.disk \o b
        BY <3>4 DEF Text
      <4>2. Text(h) \in Seq(Nat)
        BY <3>1 DEF Text
      <4> QED BY <3>3, <4>1, <4>2
    <3>6. In(Text(w)) = In(Text(h)) \cup {line}
      BY <3>5, InAppend
    <3>7. Increasing(Text(h)) /\ (\A y \in In(Text(h)) : y < line) => Increasing(Text(w))
      BY <3>5, AppendIncreasing
    <3>8. Sound(w)
      BY <1>5, <3>4 DEF Sound
    <3>9. Adds(h, w, line)
      BY <3>4, <3>6, <3>7, <3>8 DEF Adds
    <3> QED BY <1>5, <3>6, <3>9, KeepsOrder
  <2> QED BY <2>1, <2>2
<1>7. CASE r.sink = "closed" /\ ~on
  BY <1>1, <1>2, <1>7, KeepsOrder
<1>8. CASE ~(r.sink = "closed" /\ ~on)
  BY <1>2, <1>6, <1>8
<1> QED BY <1>7, <1>8

\* Creating a file changes nothing of what is in it.
LEMMA CreateFacts ==
  ASSUME \A t \in Severities : Sound(file[t]), NEW s, NEW t \in Severities
  PROVE  /\ Keeps(file[t], CreateFiles(s)[t]) /\ Sound(CreateFiles(s)[t])
         /\ ~(t <= s) => CreateFiles(s)[t] = file[t]
<1> DEFINE h == [file[t] EXCEPT !.sink = "open"]
<1>1. CreateFiles(s)[t] = IF t <= s /\ file[t].sink = "none" THEN h ELSE file[t]
  BY DEF CreateFiles
<1>2. h \in FileType /\ h.bad = file[t].bad /\ h.err = file[t].err /\ h.disk = file[t].disk
      /\ h.buf = file[t].buf
  BY DEF Sound, FileType
<1> HIDE DEF h
<1>3. Sound(h)
  BY <1>2 DEF Sound
<1>4. Keeps(file[t], h)
  BY <1>2, <1>3, SameText
<1> QED BY <1>1, <1>3, <1>4, KeepsOrder

\* What one more line changes in what the files should hold.
LEMMA LinesStep ==
  ASSUME logged \in Seq(Severities), NEW s \in Severities, logged' = Append(logged, s),
         NEW t \in Severities
  PROVE  /\ \A n \in 0 .. Len(logged) : Lines(t, n)' = Lines(t, n)
         /\ {i \in 1 .. Line : logged'[i] >= t} = IF t <= s THEN Lines(t, Len(logged)) \cup {Line}
                              ELSE Lines(t, Len(logged))
<1>1. /\ Len(logged) \in Nat /\ Line = Len(logged) + 1
      /\ \A i \in 1 .. Len(logged) : logged'[i] = logged[i]
      /\ logged'[Line] = s
  BY DEF Line
<1>2. 1 .. Line = 1 .. Len(logged) \cup {Line} /\ Line \notin 1 .. Len(logged)
  BY <1>1
<1>3. ASSUME NEW n \in 0 .. Len(logged)
      PROVE  Lines(t, n)' = Lines(t, n)
  BY <1>1 DEF Lines
<1>4. t <= s <=> s >= t
  BY DEF Severities, infoLog, fatalLog
<1> QED BY <1>1, <1>2, <1>3, <1>4 DEF Lines
-----------------------------------------------------------------------------
(* The inductive invariant *)

Typed ==
  /\ file \in [Severities -> FileType]
  /\ logged \in Seq(Severities)
  /\ pc \in [Goroutines -> {"log", "fatal", "trace", "flush", "flushed", "write", "create"}]
  /\ fatal \in [Goroutines -> Nat]
  /\ \A g \in Goroutines : fatal[g] <= Len(logged)
  /\ mu \in Flushers \cup {Nobody}
  /\ at \in infoLog - 1 .. fatalLog

\* Nobody else logs while a goroutine is between two steps of output or in exit.
Held == \A g \in Goroutines : pc[g] \in {"trace", "write", "create"} => mu = g

\* A buffer with an error is one the disk has refused something of.
Errors == \A s \in Severities : file[s].err => file[s].bad

\* Whoever is in flushAll has emptied the buffers it is past, as far as the disk
\* took them, and nobody has written to them since.
Emptied ==
  \A g \in Flushers : mu = g /\ ~Is(g, {"trace"}) =>
    \A s \in Severities : s > at => file[s].buf = <<>> \/ file[s].bad

\* The line for which no file could be created is on standard error.
Shown == (\E g \in Goroutines : pc[g] = "create") => Len(logged) \in stderr

Inv == Typed /\ Held /\ Errors /\ InOrder /\ Emptied /\ Shown /\ FatalIsWritten

\* InOrder for one file: what it may hold and, if the disk took it all, must.
Holds(f, may, must) ==
  Increasing(Text(f)) /\ In(Text(f)) \subseteq may /\ (~f.bad => must \subseteq In(Text(f)))

Most == IF Exiting THEN Len(logged) - 1 ELSE Len(logged)

\* InOrder, file by file.
LEMMA InOrderHolds ==
  /\ InOrder <=> \A s \in Severities : Holds(file[s], Lines(s, Len(logged)), Lines(s, Most))
  /\ InOrder' <=> \A s \in Severities : Holds(file'[s], Lines(s, Len(logged))', Lines(s, Most)')
<1>1. ASSUME NEW s \in Severities
      PROVE  Holds(file[s], Lines(s, Len(logged)), Lines(s, Most)) <=>
               /\ \A i, j \in DOMAIN (file[s].disk \o file[s].buf) :
                    i < j => (file[s].disk \o file[s].buf)[i] < (file[s].disk \o file[s].buf)[j]
               /\ In(file[s].disk \o file[s].buf) \subseteq Lines(s, Len(logged))
               /\ ~file[s].bad => Lines(s, Most) \subseteq In(file[s].disk \o file[s].buf)
  BY Zenon DEF Holds, Text, Increasing
<1>2. ASSUME NEW s \in Severities
      PROVE  Holds(file'[s], Lines(s, Len(logged))', Lines(s, Most)') <=>
               /\ \A i, j \in DOMAIN (file'[s].disk \o file'[s].buf) :
                    i < j => (file'[s].disk \o file'[s].buf)[i] < (file'[s].disk \o file'[s].buf)[j]
               /\ In(file'[s].disk \o file'[s].buf) \subseteq Lines(s, Len(logged))'
               /\ ~file'[s].bad => Lines(s, Most)' \subseteq In(file'[s].disk \o file'[s].buf)
  BY Zenon DEF Holds, Text, Increasing
<1> QED BY <1>1, <1>2, Zenon DEF InOrder, Most, In, Lines

\* Nothing is logged at first.
LEMMA InitInv == Init => Inv
<1> SUFFICES ASSUME Init PROVE Inv
  OBVIOUS
<1>1. NoFile \in FileType /\ NoFile.buf = <<>> /\ NoFile.disk = <<>> /\ NoFile.err = FALSE
  BY DEF FileType, NoFile
<1>2. Text(NoFile) = <<>> /\ In(<<>>) = {} /\ Increasing(<<>>)
  BY <1>1 DEF Text, In, Increasing
<1>3. \A s \in Severities : file[s] = NoFile
  BY DEF Init
<1>4. Typed
  <2>1. file \in [Severities -> FileType]
    BY <1>1 DEF Init
  <2>2. logged \in Seq(Severities) /\ Len(logged) = 0 /\ fatal \in [Goroutines -> Nat]
    BY DEF Init
  <2> QED BY <2>1, <2>2 DEF Init, Typed, fatalLog, infoLog
<1>5. Len(logged) = 0 /\ Most = 0
  BY DEF Most, Init, Exiting
<1>6. \A s \in Severities : Lines(s, Len(logged)) = {} /\ Lines(s, Most) = {}
  BY <1>5 DEF Lines
<1>7. InOrder
  BY <1>2, <1>3, <1>6, InOrderHolds DEF Holds
<1>8. Held /\ Errors /\ Shown
  BY <1>1, <1>3 DEF Init, Held, Errors, Shown
<1>9. Emptied /\ FatalIsWritten
  BY <1>1, <1>3 DEF Init, Emptied, FatalIsWritten
<1> QED BY <1>4, <1>7, <1>8, <1>9 DEF Inv

\* What one more line does to the files, if each that it belongs in has got it, or
\* was refused it, or it leads to an exit.
LEMMA LogStep ==
  ASSUME Inv, ~Exiting, NEW s \in Severities, logged' = Append(logged, s),
         file' = [t \in Severities |-> file'[t]],
         \A t \in Severities :
           IF t <= s
           THEN /\ Adds(file[t], file'[t], Line)
                /\ Exiting' \/ file'[t].bad \/ Line \in In(Text(file'[t]))
           ELSE file'[t] = file[t]
  PROVE  /\ file' \in [Severities -> FileType]
         /\ logged' \in Seq(Severities) /\ Len(logged') = Line /\ Line \in Nat
         /\ Line = Len(logged) + 1 /\ Errors' /\ InOrder'
         /\ \A g \in Goroutines :
              pc[g] = "flushed" /\ fatal'[g] = fatal[g] =>
                \A t \in Severities :
                  file'[t].bad \/ Lines(t, fatal[g])' \subseteq In(file'[t].disk)
<1>1. /\ Typed /\ Len(logged) \in Nat /\ Line \in Nat /\ Line = Len(logged) + 1
      /\ logged' \in Seq(Severities) /\ Len(logged') = Line
  BY DEF Inv, Typed, Line
<1>2. \A t \in Severities : Sound(file[t])
  BY <1>1 DEF Inv, Typed, Errors, Sound
<1>3. \A t \in Severities : /\ Sound(file'[t]) /\ (file[t].bad => file'[t].bad)
                            /\ In(file[t].disk) \subseteq In(file'[t].disk)
  BY <1>2 DEF Adds
<1>4. file' \in [Severities -> FileType] /\ Errors'
  BY <1>3 DEF Sound, Errors
<1>5. \A t \in Severities :
        /\ \A n \in 0 .. Len(logged) : Lines(t, n)' = Lines(t, n)
        /\ Lines(t, Len(logged))' = IF t <= s THEN Lines(t, Len(logged)) \cup {Line}
                                    ELSE Lines(t, Len(logged))
  <2>1. \A t \in Severities : Lines(t, Len(logged))' = {i \in 1 .. Line : logged'[i] >= t}
    BY <1>1 DEF Lines
  <2> QED BY <1>1, <2>1, LinesStep DEF Typed
<1>6. \A t \in Severities :
        Lines(t, Most)' = IF Exiting' THEN Lines(t, Len(logged)) ELSE Lines(t, Len(logged))'
  <2>1. Most' = IF Exiting' THEN Len(logged) ELSE Len(logged')
    BY <1>1 DEF Most
  <2>2. \A t \in Severities : Lines(t, Len(logged)) = {i \in 1 .. Len(logged) : logged'[i] >= t}
    <3>1. \A i \in 1 .. Len(logged) : logged'[i] = logged[i]
      BY <1>1 DEF Typed
    <3> QED BY <3>1 DEF Lines
  <2> QED BY <2>1, <2>2 DEF Lines
<1>7. InOrder'
  <2>1. ASSUME NEW t \in Severities
        PROVE  Holds(file'[t], Lines(t, Len(logged))', Lines(t, Most)')
    <3>1. Holds(file[t], Lines(t, Len(logged)), Lines(t, Len(logged)))
      BY InOrderHolds DEF Inv, Most
    <3>2. \A y \in Lines(t, Len(logged)) : y < Line
      BY <1>1 DEF Lines
    <3>3. CASE t <= s
      <4>1. /\ Adds(file[t], file'[t], Line)
            /\ Exiting' \/ file'[t].bad \/ Line \in In(Text(file'[t]))
        BY <3>3
      <4>2. Increasing(Text(file'[t]))
        BY <3>1, <3>2, <4>1 DEF Adds, Holds
      <4>3. In(Text(file'[t])) \subseteq Lines(t, Len(logged))'
        BY <1>5, <3>1, <3>3, <4>1 DEF Adds, Holds
      <4>4. ~file'[t].bad => Lines(t, Len(logged)) \subseteq In(Text(file'[t]))
        BY <3>1, <4>1 DEF Adds, Holds
      <4>5. ~file'[t].bad => Lines(t, Most)' \subseteq In(Text(file'[t]))
        BY <1>5, <1>6, <3>3, <4>1, <4>4
      <4> QED BY <4>2, <4>3, <4>5 DEF Holds
    <3>4. CASE ~(t <= s)
      <4>1. Lines(t, Len(logged))' = Lines(t, Len(logged)) /\ Lines(t, Most)' = Lines(t, Len(logged))
        BY <1>5, <1>6, <3>4
      <4> QED BY <3>1, <3>4, <4>1
    <3> QED BY <3>3, <3>4
  <2> QED BY <2>1, InOrderHolds
<1>8. ASSUME NEW g \in Goroutines, pc[g] = "flushed", fatal'[g] = fatal[g], NEW t \in Severities
      PROVE  file'[t].bad \/ Lines(t, fatal[g])' \subseteq In(file'[t].disk)
  <2>1. file[t].bad \/ Lines(t, fatal[g]) \subseteq In(file[t].disk)
    BY <1>8 DEF Inv, FatalIsWritten
  <2>2. fatal[g] \in 0 .. Len(logged)
    BY <1>1 DEF Typed
  <2>3. Lines(t, fatal[g])' = Lines(t, fatal[g])
    BY <1>5, <1>8, <2>2 DEF Lines
  <2> QED BY <1>3, <2>1, <2>3
<1> QED BY <1>1, <1>4, <1>7, <1>8

\* What Write makes of the files of a line and of those above.
LEMMA WrittenFacts ==
  ASSUME Inv, NEW s \in Severities, NEW d, NEW t \in Severities
  PROVE  IF t <= s
         THEN /\ Adds(file[t], Written(s, d)[t], Line)
              /\ logExitFunc \/ Written(s, d)[t].sink # "closed" =>
                   Written(s, d)[t].bad \/ Line \in In(Text(Written(s, d)[t]))
         ELSE Written(s, d)[t] = file[t]
<1> DEFINE f == CreateFiles(s)[t]
<1>1. Line \in Nat /\ \A x \in Severities : Sound(file[x])
  BY DEF Inv, Typed, Errors, Sound, Line
<1>2. Keeps(file[t], f) /\ Sound(f)
  BY <1>1, CreateFacts
<1>3. Written(s, d)[t] = IF t <= s THEN Write(f, Line, d[t], logExitFunc) ELSE file[t]
  BY DEF Written
<1>4. logExitFunc \in BOOLEAN
  BY DEF logExitFunc
<1> HIDE DEF f
<1> QED BY <1>1, <1>2, <1>3, <1>4, WriteFacts, KeepsOrder

\* output adds the line to the files it belongs in, and to no other.
LEMMA OutputInv ==
  ASSUME Inv, NEW g \in Goroutines, NEW s \in Severities, Output(g, s)
  PROVE  Inv'
<1>1. /\ exit = "run" /\ mu = Nobody /\ logged' = Append(logged, s)
      /\ pc[g] \in {"log", "fatal"}
      /\ pc' = [pc EXCEPT ![g] = IF s = fatalLog THEN "trace" ELSE "log"]
      /\ mu' = IF s = fatalLog THEN g ELSE Nobody
      /\ fatal' = fatal /\ at' = at /\ exit' = exit
  BY DEF Output, Begin, Free
<1>2. PICK d \in Answers : file' = Written(s, d) /\ Failed(s, file') = {}
  BY DEF Output
<1>3. Typed /\ g # Nobody /\ g \in Flushers
  BY GlogAssumption DEF Inv, Flushers, Nobody
<1>4. \A h \in Goroutines : pc[h] \notin {"trace", "write", "create"}
  BY <1>1, GlogAssumption DEF Inv, Held, Nobody
<1>5. \A h \in Goroutines : pc'[h] \notin {"write", "create"}
  BY <1>1, <1>3, <1>4 DEF Typed
<1>6. ASSUME NEW t \in Severities
      PROVE  IF t <= s
             THEN /\ Adds(file[t], file'[t], Line)
                  /\ Exiting' \/ file'[t].bad \/ Line \in In(Text(file'[t]))
             ELSE file'[t] = file[t]
  <2>1. t <= s => logExitFunc \/ file'[t].sink # "closed"
    BY <1>2 DEF Failed, Severities, infoLog, fatalLog
  <2> QED BY <1>2, <2>1, WrittenFacts
<1>7. file' = [t \in Severities |-> file'[t]]
  BY <1>2 DEF Written
<1>8. ~Exiting
  BY <1>4 DEF Exiting
<1>9. /\ file' \in [Severities -> FileType]
      /\ logged' \in Seq(Severities) /\ Len(logged') = Line /\ Line \in Nat
      /\ Line = Len(logged) + 1 /\ Errors' /\ InOrder'
      /\ \A h \in Goroutines :
           pc[h] = "flushed" =>
             \A t \in Severities :
               file'[t].bad \/ Lines(t, fatal[h])' \subseteq In(file'[t].disk)
  BY <1>1, <1>6, <1>7, <1>8, LogStep
<1>10. Typed'
  <2>1. pc' \in [Goroutines -> {"log", "fatal", "trace", "flush", "flushed", "write", "create"}]
    BY <1>1, <1>3 DEF Typed
  <2>2. \A h \in Goroutines : fatal'[h] <= Len(logged')
    BY <1>1, <1>3, <1>9 DEF Typed
  <2> QED BY <1>1, <1>3, <1>9, <2>1, <2>2 DEF Typed
<1>11. Held'
  BY <1>1, <1>3, <1>4 DEF Held, Typed
<1>12. Emptied'
  BY <1>1, <1>3, GlogAssumption DEF Emptied, Typed, Is, Flushers, Nobody, Daemon
<1>13. Shown'
  BY <1>5 DEF Shown
<1>14. FatalIsWritten'
  <2>1. \A h \in Goroutines : pc'[h] = "flushed" => pc[h] = "flushed"
    BY <1>1, <1>3 DEF Typed
  <2> QED BY <1>1, <1>9, <2>1 DEF FatalIsWritten, In
<1> QED BY <1>9, <1>10, <1>11, <1>12, <1>13, <1>14 DEF Inv

\* The stacks of a Fatal are in all files, or refused.
LEMMA TraceInv ==
  ASSUME Inv, NEW g \in Goroutines, Trace(g)
  PROVE  Inv'
<1>1. /\ exit = "run" /\ mu = g /\ pc[g] = "trace" /\ logged' = Append(logged, fatalLog)
      /\ pc' = [pc EXCEPT ![g] = "flush"] /\ fatal' = [fatal EXCEPT ![g] = Line]
      /\ mu' = Nobody /\ at' = at /\ exit' = exit
  BY DEF Trace
<1>2. PICK d \in Answers : file' = Written(fatalLog, d)
  BY DEF Trace
<1>3. Typed /\ fatalLog \in Severities /\ logExitFunc
  BY <1>1 DEF Inv, logExitFunc, fatalLog, infoLog, Severities
<1>4. \A h \in Goroutines : h # g => pc[h] \notin {"trace", "write", "create"}
  BY <1>1 DEF Inv, Held
<1>5. \A h \in Goroutines : pc'[h] \notin {"trace", "write", "create"}
  BY <1>1, <1>3, <1>4 DEF Typed
<1>6. ASSUME NEW t \in Severities
      PROVE  IF t <= fatalLog
             THEN /\ Adds(file[t], file'[t], Line)
                  /\ Exiting' \/ file'[t].bad \/ Line \in In(Text(file'[t]))
             ELSE file'[t] = file[t]
  BY <1>2, <1>3, WrittenFacts
<1>7. file' = [t \in Severities |-> file'[t]]
  BY <1>2 DEF Written
<1>8. ~Exiting
  BY <1>1, <1>4 DEF Exiting
<1>9. /\ file' \in [Severities -> FileType]
      /\ logged' \in Seq(Severities) /\ Len(logged') = Line /\ Line \in Nat
      /\ Line = Len(logged) + 1 /\ Errors' /\ InOrder'
      /\ \A h \in Goroutines :
           pc[h] = "flushed" /\ fatal'[h] = fatal[h] =>
             \A t \in Severities :
               file'[t].bad \/ Lines(t, fatal[h])' \subseteq In(file'[t].disk)
  BY <1>1, <1>3, <1>6, <1>7, <1>8, LogStep
<1>10. Typed'
  <2>1. pc' \in [Goroutines -> {"log", "fatal", "trace", "flush", "flushed", "write", "create"}]
    BY <1>1, <1>3 DEF Typed
  <2>2. fatal' \in [Goroutines -> Nat] /\ \A h \in Goroutines : fatal'[h] <= Len(logged')
    BY <1>1, <1>3, <1>9 DEF Typed
  <2> QED BY <1>1, <1>3, <1>9, <2>1, <2>2 DEF Typed
<1>11. Held' /\ Shown'
  BY <1>5 DEF Held, Shown
<1>12. Emptied'
  BY <1>1, GlogAssumption DEF Emptied, Flushers, Nobody, Daemon
<1>13. FatalIsWritten'
  <2>1. \A h \in Goroutines : pc'[h] = "flushed" => pc[h] = "flushed" /\ fatal'[h] = fatal[h]
    BY <1>1, <1>3 DEF Typed
  <2> QED BY <1>1, <1>9, <2>1 DEF FatalIsWritten, In, Lines
<1> QED BY <1>9, <1>10, <1>11, <1>12, <1>13 DEF Inv

\* A line that leads to the exit of glog is in some of its files; all before it are
\* where they were.
LEMMA ErrInv ==
  ASSUME Inv, NEW g \in Goroutines, NEW s \in Severities, WriteErr(g, s) \/ CreateErr(g, s)
  PROVE  Inv'
<1>1. /\ exit = "run" /\ mu = Nobody /\ logged' = Append(logged, s)
      /\ \/ pc' = [pc EXCEPT ![g] = "write"]
         \/ pc' = [pc EXCEPT ![g] = "create"] /\ stderr' = stderr \cup {Line}
      /\ mu' = g /\ at' = fatalLog /\ fatal' = fatal /\ exit' = exit
  BY DEF WriteErr, CreateErr, Begin, Free
<1>2. Typed
  BY DEF Inv
<1>3. \A h \in Goroutines : pc[h] \notin {"trace", "write", "create"}
  BY <1>1, GlogAssumption DEF Inv, Held, Nobody
<1>4. ~Exiting /\ Exiting'
  BY <1>1, <1>2, <1>3 DEF Exiting, Typed
<1>5. \A x \in Severities : Sound(file[x])
  BY DEF Inv, Typed, Errors, Sound
<1>6. /\ file' = [t \in Severities |-> file'[t]]
      /\ \A t \in Severities :
           IF t <= s THEN Adds(file[t], file'[t], Line) ELSE file'[t] = file[t]
  <2>1. CASE WriteErr(g, s)
    <3>1. PICK d \in Answers : \E r \in Failed(s, Written(s, d)) :
            file' = [t \in Severities |-> IF t >= r THEN Written(s, d)[t] ELSE CreateFiles(s)[t]]
      BY <2>1 DEF WriteErr
    <3>2. PICK r \in Failed(s, Written(s, d)) :
            file' = [t \in Severities |-> IF t >= r THEN Written(s, d)[t] ELSE CreateFiles(s)[t]]
      BY <3>1
    <3>3. ASSUME NEW t \in Severities
          PROVE  IF t <= s THEN Adds(file[t], file'[t], Line) ELSE file'[t] = file[t]
      <4>1. file'[t] = IF t >= r THEN Written(s, d)[t] ELSE CreateFiles(s)[t]
        BY <3>2
      <4>2. CASE t >= r
        BY <4>1, <4>2, WrittenFacts
      <4>3. CASE ~(t >= r)
        <5>1. /\ Keeps(file[t], CreateFiles(s)[t])
              /\ ~(t <= s) => CreateFiles(s)[t] = file[t]
          BY <1>5, CreateFacts
        <5> QED BY <4>1, <4>3, <5>1, KeepsOrder
      <4> QED BY <4>2, <4>3
    <3> QED BY <3>2, <3>3
  <2>2. CASE CreateErr(g, s)
    <3>1. PICK r \in infoLog .. s :
            file' = [t \in Severities |-> IF t > r THEN CreateFiles(s)[t] ELSE file[t]]
      BY <2>2 DEF CreateErr
    <3>2. ASSUME NEW t \in Severities
          PROVE  IF t <= s THEN Adds(file[t], file'[t], Line) ELSE file'[t] = file[t]
      <4>1. /\ Keeps(file[t], CreateFiles(s)[t]) /\ Keeps(file[t], file[t])
            /\ ~(t <= s) => CreateFiles(s)[t] = file[t]
        BY <1>5, CreateFacts, KeepsOrder
      <4>2. file'[t] = IF t > r THEN CreateFiles(s)[t] ELSE file[t]
        BY <3>1
      <4> QED BY <4>1, <4>2, KeepsOrder
    <3> QED BY <3>1, <3>2
  <2> QED BY <2>1, <2>2
<1>7. /\ file' \in [Severities -> FileType]
      /\ logged' \in Seq(Severities) /\ Len(logged') = Line /\ Line \in Nat
      /\ Line = Len(logged) + 1 /\ Errors' /\ InOrder'
      /\ \A h \in Goroutines :
           pc[h] = "flushed" =>
             \A t \in Severities :
               file'[t].bad \/ Lines(t, fatal[h])' \subseteq In(file'[t].disk)
  BY <1>1, <1>4, <1>6, LogStep
<1>8. Typed'
  <2>1. pc' \in [Goroutines -> {"log", "fatal", "trace", "flush", "flushed", "write", "create"}]
    BY <1>1, <1>2 DEF Typed
  <2>2. \A h \in Goroutines : fatal'[h] <= Len(logged')
    BY <1>1, <1>2, <1>7 DEF Typed
  <2>3. at' \in infoLog - 1 .. fatalLog /\ mu' \in Flushers
    BY <1>1 DEF infoLog, fatalLog, Flushers
  <2> QED BY <1>1, <1>2, <1>7, <2>1, <2>2, <2>3 DEF Typed
<1>9. Held'
  BY <1>1, <1>2, <1>3 DEF Held, Typed
<1>10. Emptied'
  BY <1>1 DEF Emptied, Severities, infoLog, fatalLog
<1>11. Shown'
  <2>1. \A h \in Goroutines : pc'[h] = "create" => h = g
    BY <1>1, <1>2, <1>3 DEF Typed
  <2>2. pc'[g] = "create" => Line \in stderr'
    BY <1>1, <1>2 DEF Typed
  <2> QED BY <1>7, <2>1, <2>2 DEF Shown
<1>12. FatalIsWritten'
  <2>1. \A h \in Goroutines : pc'[h] = "flushed" => pc[h] = "flushed"
    BY <1>1, <1>2 DEF Typed
  <2> QED BY <1>1, <1>7, <2>1 DEF FatalIsWritten, In
<1> QED BY <1>7, <1>8, <1>9, <1>10, <1>11, <1>12 DEF Inv

\* flushAll goes on to the next file.
LEMMA FlushFileInv ==
  ASSUME Inv, NEW g \in Flushers, FlushFile(g)
  PROVE  Inv'
<1>1. /\ mu = g /\ at >= infoLog /\ exit = "run" /\ ~Is(g, {"trace"}) /\ at' = at - 1
      /\ UNCHANGED <<stderr, logged, pc, fatal, mu, exit>>
  BY DEF FlushFile, Flushing
<1>2. PICK d \in Answers : file' = [file EXCEPT ![at] = Flushed(file[at], d[at])]
  BY DEF FlushFile
<1>3. Typed /\ at \in Severities
  BY <1>1 DEF Inv, Typed, Severities, infoLog, fatalLog
<1>4. \A t \in Severities : Sound(file[t])
  BY DEF Inv, Typed, Errors, Sound
<1>5. ASSUME NEW t \in Severities
      PROVE  /\ Keeps(file[t], file'[t])
             /\ t = at => file'[t].buf = <<>> \/ file'[t].bad
             /\ t # at => file'[t] = file[t]
  <2>1. file'[t] = IF t = at THEN Flushed(file[at], d[at]) ELSE file[t]
    BY <1>2, <1>3 DEF Typed
  <2>2. /\ Keeps(file[at], Flushed(file[at], d[at]))
        /\ Flushed(file[at], d[at]).buf = <<>> \/ Flushed(file[at], d[at]).bad
    BY <1>3, <1>4, FlushFacts
  <2>3. Keeps(file[t], file[t])
    BY <1>4, KeepsOrder
  <2> QED BY <2>1, <2>2, <2>3
<1>6. Typed'
  <2>1. file' \in [Severities -> FileType]
    <3>1. Flushed(file[at], d[at]) \in FileType
      BY <1>3, <1>4, FlushFacts DEF Keeps, Sound
    <3> QED BY <1>2, <1>3, <3>1 DEF Typed
  <2>2. at' \in infoLog - 1 .. fatalLog
    BY <1>1, <1>3 DEF Severities, infoLog, fatalLog
  <2> QED BY <1>1, <1>3, <2>1, <2>2 DEF Typed
<1>7. Errors'
  BY <1>5 DEF Errors, Keeps, Sound
<1>8. InOrder'
  <2>1. \A t \in Severities : /\ Lines(t, Len(logged))' = Lines(t, Len(logged))
                              /\ Lines(t, Most)' = Lines(t, Most)
    BY <1>1 DEF Lines, Most, Exiting
  <2>2. ASSUME NEW t \in Severities
        PROVE  Holds(file'[t], Lines(t, Len(logged)), Lines(t, Most))
    <3>1. Holds(file[t], Lines(t, Len(logged)), Lines(t, Most))
      BY InOrderHolds DEF Inv
    <3> QED BY <1>5, <3>1 DEF Keeps, Holds
  <2> QED BY <2>1, <2>2, InOrderHolds
<1>9. Emptied'
  <2>1. ASSUME NEW t \in Severities, t > at'
        PROVE  file'[t].buf = <<>> \/ file'[t].bad
    <3>1. t = at \/ (t > at /\ t # at)
      BY <1>1, <1>3, <2>1 DEF Severities, infoLog, fatalLog
    <3>2. t > at => file[t].buf = <<>> \/ file[t].bad
      BY <1>1 DEF Inv, Emptied
    <3> QED BY <1>5, <3>1, <3>2
  <2> QED BY <2>1 DEF Emptied
<1>10. Held' /\ Shown'
  BY <1>1 DEF Inv, Held, Shown
<1>11. FatalIsWritten'
  <2>1. ASSUME NEW h \in Goroutines, pc'[h] = "flushed", NEW t \in Severities
        PROVE  file'[t].bad \/ Lines(t, fatal[h])' \subseteq In(file'[t].disk)
    <3>1. file[t].bad \/ Lines(t, fatal[h]) \subseteq In(file[t].disk)
      BY <1>1, <2>1 DEF Inv, FatalIsWritten
    <3>2. Lines(t, fatal[h])' = Lines(t, fatal[h])
      BY <1>1 DEF Lines
    <3> QED BY <1>5, <3>1, <3>2 DEF Keeps
  <2> QED BY <1>1, <2>1 DEF FatalIsWritten, In
<1> QED BY <1>6, <1>7, <1>8, <1>9, <1>10, <1>11 DEF Inv

\* When flushAll is over, what the files should hold is on disk if it took it all.
LEMMA OnDisk ==
  ASSUME Inv, NEW g \in Flushers, Flushing(g), at < infoLog, NEW t \in Severities
  PROVE  file[t].bad \/ Lines(t, Most) \subseteq In(file[t].disk)
<1>1. mu = g /\ ~Is(g, {"trace"}) /\ t > at
  BY DEF Flushing, Inv, Typed, Severities, infoLog, fatalLog
<1>2. file[t].buf = <<>> \/ file[t].bad
  BY <1>1 DEF Inv, Emptied
<1>3. file[t].disk \in Seq(Nat)
  BY DEF Inv, Typed, FileType
<1>4. file[t].buf = <<>> => Text(file[t]) = file[t].disk
  BY <1>3 DEF Text
<1>5. file[t].bad \/ Lines(t, Most) \subseteq In(Text(file[t]))
  BY InOrderHolds DEF Inv, Holds
<1> QED BY <1>2, <1>4, <1>5

\* The flush of a Fatal, or of the daemon, is over.
LEMMA UnlockInv ==
  ASSUME Inv, NEW g \in Flushers, Unlock(g)
  PROVE  Inv'
<1>1. /\ mu = g /\ exit = "run" /\ mu' = Nobody
      /\ g = Daemon \/ (g # Daemon /\ g \in Goroutines /\ pc[g] = "flush")
      /\ pc' = IF g = Daemon THEN pc ELSE [pc EXCEPT ![g] = "flushed"]
      /\ UNCHANGED <<file, stderr, logged, fatal, at, exit>>
  BY GlogAssumption DEF Unlock, Flushing, Is, Daemon
<1>2. Typed /\ Len(logged) \in Nat
  BY DEF Inv, Typed
<1>3. \A h \in Goroutines : pc[h] \notin {"trace", "write", "create"}
  BY <1>1, GlogAssumption DEF Inv, Held, Daemon
<1>4. \A h \in Goroutines : pc'[h] \notin {"trace", "write", "create"}
  BY <1>1, <1>2, <1>3 DEF Typed
<1>5. Typed'
  <2>1. pc' \in [Goroutines -> {"log", "fatal", "trace", "flush", "flushed", "write", "create"}]
    BY <1>1, <1>2 DEF Typed
  <2> QED BY <1>1, <1>2, <2>1 DEF Typed
<1>6. Most = Len(logged) /\ Most' = Most
  BY <1>1, <1>3, <1>4 DEF Most, Exiting
<1>7. InOrder'
  <2>1. \A t \in Severities : /\ Lines(t, Len(logged))' = Lines(t, Len(logged))
                              /\ Lines(t, Most)' = Lines(t, Most)
    BY <1>1, <1>6 DEF Lines
  <2> QED BY <1>1, <2>1, InOrderHolds DEF Inv
<1>8. Held' /\ Errors' /\ Shown'
  BY <1>1, <1>4 DEF Inv, Held, Errors, Shown
<1>9. Emptied'
  BY <1>1, GlogAssumption DEF Emptied, Flushers, Nobody, Daemon
<1>10. FatalIsWritten'
  <2>1. ASSUME NEW h \in Goroutines, NEW t \in Severities
        PROVE  file'[t].bad \/ Lines(t, fatal[h])' \subseteq In(file'[t].disk)
    <3>1. fatal[h] \in Nat /\ fatal[h] <= Len(logged)
      BY <1>2 DEF Typed
    <3>2. Lines(t, fatal[h])' \subseteq Lines(t, Len(logged))
      BY <1>1, <1>2, <3>1 DEF Lines
    <3>3. file[t].bad \/ Lines(t, Len(logged)) \subseteq In(file[t].disk)
      BY <1>6, OnDisk DEF Unlock
    <3> QED BY <1>1, <3>2, <3>3
  <2> QED BY <1>1, <2>1 DEF FatalIsWritten, In
<1> QED BY <1>5, <1>7, <1>8, <1>9, <1>10 DEF Inv

\* Steps that neither log nor flush keep all but FatalIsWritten, which is about
\* those that end the process.
LEMMA QuietInv ==
  ASSUME Inv, UNCHANGED <<file, stderr, logged, fatal>>, Typed', Held', Emptied',
         \A g \in Goroutines : \A w \in {"flushed", "write", "create"} :
           pc'[g] = w <=> pc[g] = w,
         exit' \in {"write", "create"} =>
           \A t \in Severities : file[t].bad \/ Lines(t, Len(logged) - 1) \subseteq In(file[t].disk),
         exit' = "create" => Len(logged) \in stderr
  PROVE  Inv'
<1>1. Exiting' <=> Exiting
  BY DEF Exiting
<1>2. \A t \in Severities : /\ Lines(t, Len(logged))' = Lines(t, Len(logged))
                            /\ Lines(t, Most)' = Lines(t, Most)
  BY <1>1 DEF Lines, Most
<1>3. InOrder'
  BY <1>2, InOrderHolds DEF Inv
<1>4. FatalIsWritten'
  BY DEF Inv, FatalIsWritten, Lines, In
<1>5. Errors' /\ Shown'
  BY DEF Inv, Errors, Shown
<1> QED BY <1>3, <1>4, <1>5 DEF Inv

\* glog's exit: Most is the line before the error.
LEMMA ExitErrInv ==
  ASSUME Inv, NEW g \in Flushers, ExitErr(g)
  PROVE  Inv'
<1>1. /\ Flushing(g) /\ at < infoLog /\ g \in Goroutines /\ pc[g] \in {"write", "create"}
      /\ exit' = pc[g] /\ UNCHANGED <<file, stderr, logged, pc, fatal, mu, at>>
  BY DEF ExitErr, Is
<1>2. Most = Len(logged) - 1
  BY <1>1 DEF Most, Exiting
<1>3. \A t \in Severities : file[t].bad \/ Lines(t, Len(logged) - 1) \subseteq In(file[t].disk)
  BY <1>1, <1>2, OnDisk
<1>4. pc[g] = "create" => Len(logged) \in stderr
  BY <1>1 DEF Inv, Shown
<1>5. Typed' /\ Held' /\ Emptied'
  BY <1>1 DEF Inv, Typed, Held, Emptied, Is
<1> QED BY <1>1, <1>3, <1>4, <1>5, QuietInv

\* Every step keeps the invariant.
LEMMA NextInv == Inv /\ [Next]_vars => Inv'
<1> SUFFICES ASSUME Inv, [Next]_vars PROVE Inv'
  OBVIOUS
<1>1. ASSUME NEW g \in Goroutines, NEW s \in Severities, Log(g, s) PROVE Inv'
  BY <1>1, OutputInv, ErrInv DEF Log
<1>2. ASSUME NEW g \in Goroutines, CallFatal(g) PROVE Inv'
  <2>1. /\ pc' = [pc EXCEPT ![g] = "fatal"] /\ pc[g] = "log" /\ exit = "run"
        /\ UNCHANGED <<file, stderr, logged, fatal, mu, at, exit>>
    BY <1>2 DEF CallFatal
  <2>2. Typed' /\ Held'
    BY <2>1 DEF Inv, Typed, Held
  <2>3. Emptied'
    BY <2>1 DEF Inv, Typed, Emptied, Is
  <2>4. \A h \in Goroutines : \A w \in {"flushed", "write", "create"} : pc'[h] = w <=> pc[h] = w
    BY <2>1 DEF Inv, Typed
  <2> QED BY <2>1, <2>2, <2>3, <2>4, QuietInv
<1>3. ASSUME NEW g \in Goroutines, Trace(g) PROVE Inv'
  BY <1>3, TraceInv
<1>4. ASSUME NEW g \in Goroutines, Exit(g) PROVE Inv'
  <2>1. /\ UNCHANGED <<file, stderr, logged, pc, fatal, mu, at>> /\ exit' \in {"fatal", "timeout"}
    BY <1>4 DEF Exit
  <2>2. Typed' /\ Held' /\ Emptied'
    BY <2>1 DEF Inv, Typed, Held, Emptied, Is
  <2> QED BY <2>1, <2>2, QuietInv
<1>5. ASSUME NEW g \in Flushers, Lock(g) PROVE Inv'
  <2>1. /\ UNCHANGED <<file, stderr, logged, pc, fatal, exit>> /\ exit = "run"
        /\ mu = Nobody /\ mu' = g /\ at' = fatalLog
    BY <1>5 DEF Lock, Free
  <2>2. Typed'
    BY <2>1 DEF Inv, Typed, infoLog, fatalLog
  <2>3. Held'
    BY <2>1, GlogAssumption DEF Inv, Held, Nobody
  <2>4. Emptied'
    BY <2>1 DEF Emptied, Severities, infoLog, fatalLog
  <2> QED BY <2>1, <2>2, <2>3, <2>4, QuietInv
<1>6. ASSUME NEW g \in Flushers, Flush(g) PROVE Inv'
  BY <1>6, FlushFileInv, UnlockInv, ExitErrInv DEF Flush
<1>7. CASE Return
  <2>1. UNCHANGED <<file, stderr, logged, pc, fatal, mu, at>> /\ exit' = "return"
    BY <1>7 DEF Return
  <2>2. Typed' /\ Held' /\ Emptied'
    BY <2>1 DEF Inv, Typed, Held, Emptied, Is
  <2> QED BY <2>1, <2>2, QuietInv
<1>8. CASE Hang \/ UNCHANGED vars
  <2>1. UNCHANGED <<file, stderr, logged, pc, fatal, mu, at, exit>>
    BY <1>8 DEF Hang, vars
  <2>2. Typed' /\ Held' /\ Emptied'
    BY <2>1 DEF Inv, Typed, Held, Emptied, Is
  <2>3. /\ exit \in {"write", "create"} =>
             \A t \in Severities : file[t].bad \/ Lines(t, Len(logged) - 1) \subseteq In(file[t].disk)
        /\ exit = "create" => Len(logged) \in stderr
    BY DEF Inv, FatalIsWritten
  <2> QED BY <2>1, <2>2, <2>3, QuietInv
<1> QED BY <1>1, <1>2, <1>3, <1>4, <1>5, <1>6, <1>7, <1>8 DEF Next

\* Hence it holds.
LEMMA InvHolds == Spec => []Inv
BY InitInv, NextInv, PTL DEF Spec

\* No line is doubled or out of order in any file, and a file whose buffer was never
\* refused has all its lines (InOrder), whatever the lengths of the buffers and of
\* the files, whoever flushes them and whatever the disk refuses.
THEOREM FilesAreInOrder == Spec => []InOrder
<1>1. Inv => InOrder
  BY DEF Inv
<1> QED BY <1>1, InvHolds, PTL

\* When the flush of a Fatal is over, or glog has exited because of an error, all
\* files the disk took have on disk what was logged up to there (FatalIsWritten).
THEOREM FatalReachesDisk == Spec => []FatalIsWritten
<1>1. Inv => FatalIsWritten
  BY DEF Inv
<1> QED BY <1>1, InvHolds, PTL
=============================================================================
