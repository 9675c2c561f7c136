---------------------------- MODULE LoggerProofs ----------------------------
(***************************************************************************)
(* Proofs about Logger, for any finite set of threads, any sizes, periods  *)
(* and bounds, with ConsoleHandlers before and after the FileHandler.      *)
(***************************************************************************)
EXTENDS Logger, SequenceTheorems, FiniteSetTheorems, TLAPS

LineNos == 1..MaxLines

\* The lines in the stdio buffer and on disk.
FilesTyped == buffer \in Seq(LineNos) /\ disk \in [Names -> Seq(LineNos)]

\* The FileHandler is there exactly when its file is open, and a thread is at
\* a handler only while that is there.
HandlersThere ==
    /\ logFile # NoFile <=> "file" \in handlers
    /\ logFile = NoFile => buffer = <<>>
    /\ \A t \in Threads :
          /\ pc[t].at \in Handlers => pc[t].at \in handlers
          /\ pc[t].at = "flush" => "file" \in handlers /\ pc[t].line <= lines

\* The threads whose line the FileHandler may still get.
AwaitFile ==
    {t \in Threads : pc[t].at \in {"before", "file"}}

\* The bound on the lines counts those to come.
Budget == lines + Cardinality(AwaitFile) <= MaxLines

\* The lines of every file, with what is on its way there.
Files == [n \in Names |-> Lines(n)]

\* F holds the first k lines but for those in bad, each once, each file in order.
Holds(F, k, bad) ==
    /\ UNION {ToSet(F[n]) : n \in Names} = (1..k) \ bad
    /\ bad \subseteq 1..k
    /\ \A m, n \in Names : m # n => ToSet(F[m]) \cap ToSet(F[n]) = {}
    /\ \A n \in Names : \A i, j \in DOMAIN F[n] : i < j => F[n][i] < F[n][j]

FilesExact == Holds(Files, lines, failed)

\* A FATAL line is in the last ConsoleHandler only if there is no FileHandler.
FatalRoute ==
    \A t \in Threads :
        pc[t].at = "after" /\ pc[t].level = FATAL => "file" \notin handlers

\* The times of the FileHandler while the clock has not been set back.
Clocks ==
    /\ lastRollPeriod = PeriodOf(lastRollTime)
    /\ setBacks = 0 => /\ lastRollTime <= clock /\ lastFlushTime <= clock
                       /\ buffer # <<>> => lastFlushTime <= since

IInv ==
    /\ TypeOK
    /\ FilesTyped
    /\ HandlersThere
    /\ Budget
    /\ FilesExact
    /\ FatalRoute
    /\ Clocks
    /\ FatalOnDisk

---------------------------------------------------------------------------
(* Sizes, times and names.                                                 *)

\* The constants, one by one.
LEMMA Constants ==
    /\ IsFiniteSet(Threads)
    /\ FileRollSize \in Nat \ {0} /\ FlushEveryNLine \in Nat \ {0}
    /\ BufferSize \in Nat \ {0} /\ MaxClock \in Nat \ {0}
    /\ Minute \in Nat \ {0} /\ Period \in Nat \ {0}
    /\ FlushInterval \in Nat /\ MaxLines \in Nat /\ MaxSetBacks \in Nat
BY LoggerAssumption

\* Division is monotonic.
LEMMA DivMonotonic ==
    ASSUME NEW a \in Nat, NEW b \in Nat, NEW n \in Nat \ {0}, a <= b
    PROVE  a \div n \in 0..(b \div n)
<1>1. a = n * (a \div n) + (a % n) /\ a % n \in 0..(n - 1) /\ a \div n \in Int
  OBVIOUS
<1>2. b = n * (b \div n) + (b % n) /\ b % n \in 0..(n - 1) /\ b \div n \in Int
  OBVIOUS
<1>3. a \div n >= 0
  OBVIOUS
<1>4. a \div n <= b \div n
  <2> DEFINE x == a \div n
             y == b \div n
  <2> SUFFICES ASSUME x >= y + 1 PROVE FALSE
    BY <1>1, <1>2
  <2>1. n * x >= n * (y + 1)
    BY <1>1, <1>2
  <2>2. n * (y + 1) = n * y + n
    BY <1>2
  <2> QED BY <1>1, <1>2, <2>1, <2>2
<1> QED BY <1>1, <1>2, <1>3, <1>4

\* getFilename and the period of a time that the clock can show.
LEMMA TimeNames ==
    ASSUME NEW now \in 0..MaxClock
    PROVE  GetFilename(now) \in Names /\ PeriodOf(now) \in 0..MaxClock
<1>1. GetFilename(now) \in Names
  BY Constants, DivMonotonic DEF GetFilename, Names
<1>2. PeriodOf(now) \in 0..MaxClock
  <2>1. /\ now = Period * (now \div Period) + (now % Period)
        /\ now % Period \in 0..(Period - 1) /\ now \div Period \in Nat
    BY Constants
  <2>2. Period * (now \div Period) = (now \div Period) * Period
    BY <2>1, Constants
  <2>3. (now \div Period) * Period \in Nat
    BY <2>1, Constants
  <2> QED BY <2>1, <2>2, <2>3, Constants DEF PeriodOf
<1> QED BY <1>1, <1>2

\* The name of a file is not NoFile.
LEMMA NamesAreNames == \A n \in Names : n # NoFile
BY Constants DEF Names, NoFile

---------------------------------------------------------------------------
(* The way through the handlers.                                           *)

\* Where a line goes first and where it goes on to.
LEMMA HandlerRoute ==
    ASSUME NEW H \in SUBSET Handlers, NEW i \in 1..4
    PROVE  /\ HandlerFrom(i, H) \in H \cup {"idle"}
           /\ i = 4 => HandlerFrom(i, H) = "idle"
           /\ i = 3 => HandlerFrom(i, H) \in {"after", "idle"}
           /\ i = 2 => HandlerFrom(i, H) # "before"
           /\ i = 1 /\ "file" \in H => HandlerFrom(i, H) # "after"
<1>1. /\ Len(Order) = 3 /\ Order[1] = "before" /\ Order[2] = "file"
      /\ Order[3] = "after"
  BY DEF Order
<1> DEFINE later == {j \in i..Len(Order) : Order[j] \in H}
           j == CHOOSE k \in later : \A l \in later : k <= l
<1>2. HandlerFrom(i, H) = IF later = {} THEN "idle" ELSE Order[j]
  BY DEF HandlerFrom
<1>3. CASE later = {}
  BY <1>2, <1>3
<1>4. CASE later # {}
  <2>1. later \subseteq {1, 2, 3} /\ \A k \in later : Order[k] \in H /\ i <= k
    BY <1>1
  <2>2. \E k \in later : \A l \in later : k <= l
    BY SMTT(60), <1>4, <2>1
  <2>3. j \in later /\ \A l \in later : j <= l
    BY <2>2, Zenon
  <2>4. i = 1 /\ "file" \in H => 2 \in later
    BY <1>1
  <2> HIDE DEF j, later
  <2> QED BY <1>1, <1>2, <1>4, <2>1, <2>3, <2>4
<1> QED BY <1>3, <1>4

\* The handler after each.
LEMMA NextRoute ==
    /\ NextHandler("before") = HandlerFrom(2, handlers)
    /\ NextHandler("file") = HandlerFrom(3, handlers)
    /\ NextHandler("after") = HandlerFrom(4, handlers)
<1>1. /\ DOMAIN Order = {1, 2, 3} /\ Order[1] = "before" /\ Order[2] = "file"
      /\ Order[3] = "after"
  BY DEF Order
<1>2. /\ (CHOOSE i \in DOMAIN Order : Order[i] = "before") = 1
      /\ (CHOOSE i \in DOMAIN Order : Order[i] = "file") = 2
      /\ (CHOOSE i \in DOMAIN Order : Order[i] = "after") = 3
  BY <1>1
<1>3. /\ NextHandler("before") = HandlerFrom(1 + 1, handlers)
      /\ NextHandler("file") = HandlerFrom(1 + 2, handlers)
      /\ NextHandler("after") = HandlerFrom(1 + 3, handlers)
  BY <1>2 DEF NextHandler
<1>4. 1 + 1 = 2 /\ 1 + 2 = 3 /\ 1 + 3 = 4
  OBVIOUS
<1> QED BY <1>3, <1>4

---------------------------------------------------------------------------
(* The lines of the files.                                                 *)

\* The elements of a sequence with one more.
LEMMA AppendSet ==
    ASSUME NEW M, NEW s \in Seq(M), NEW m \in M
    PROVE  ToSet(Append(s, m)) = ToSet(s) \cup {m}
<1> DEFINE t == Append(s, m)
<1>1. /\ t \in Seq(M) /\ Len(t) = Len(s) + 1 /\ Len(s) \in Nat
      /\ \A i \in 1..Len(s) : t[i] = s[i]
      /\ t[Len(s) + 1] = m
  BY AppendProperties, LenProperties
<1>2. DOMAIN s = 1..Len(s) /\ DOMAIN t = 1..Len(t)
  BY <1>1, LenProperties
<1> HIDE DEF t
<1>3. \A i \in 1..Len(t) : i \in 1..Len(s) \/ i = Len(s) + 1
  BY <1>1
<1>4. \A i \in 1..Len(s) : i \in 1..Len(t)
  BY <1>1
<1>5. Len(s) + 1 \in 1..Len(t)
  BY <1>1
<1>6. ToSet(t) \subseteq ToSet(s) \cup {m}
  BY <1>1, <1>2, <1>3 DEF ToSet
<1>7. ToSet(s) \cup {m} \subseteq ToSet(t)
  BY <1>1, <1>2, <1>4, <1>5 DEF ToSet
<1> QED BY <1>6, <1>7 DEF t

\* A new line at the end of one file.
LEMMA HoldsMore ==
    ASSUME NEW F \in [Names -> Seq(LineNos)], NEW k \in Nat, NEW bad,
           k + 1 \in LineNos, NEW n0 \in Names, Holds(F, k, bad)
    PROVE  Holds([F EXCEPT ![n0] = Append(@, k + 1)], k + 1, bad)
<1> DEFINE G == [F EXCEPT ![n0] = Append(@, k + 1)]
           s == F[n0]
<1>1. s \in Seq(LineNos) /\ G[n0] = Append(s, k + 1)
      /\ \A n \in Names : n # n0 => G[n] = F[n]
  OBVIOUS
<1>2. ToSet(G[n0]) = ToSet(s) \cup {k + 1}
  BY <1>1, AppendSet
<1>3. /\ UNION {ToSet(F[n]) : n \in Names} = (1..k) \ bad
      /\ bad \subseteq 1..k
      /\ \A m, n \in Names : m # n => ToSet(F[m]) \cap ToSet(F[n]) = {}
      /\ \A n \in Names : \A i, j \in DOMAIN F[n] : i < j => F[n][i] < F[n][j]
  BY DEF Holds
<1> HIDE DEF G
<1>4. \A n \in Names : ToSet(F[n]) \subseteq 1..k
  BY <1>3
<1>5. UNION {ToSet(G[n]) : n \in Names} = (1..(k + 1)) \ bad
  <2>1. UNION {ToSet(G[n]) : n \in Names}
          = (UNION {ToSet(F[n]) : n \in Names}) \cup {k + 1}
    <3>1. ASSUME NEW n \in Names, NEW x \in ToSet(G[n])
          PROVE  x \in (UNION {ToSet(F[l]) : l \in Names}) \cup {k + 1}
      BY <1>1, <1>2
    <3>2. ASSUME NEW n \in Names, NEW x \in ToSet(F[n])
          PROVE  x \in UNION {ToSet(G[l]) : l \in Names}
      <4>1. x \in ToSet(G[n])
        BY <1>1, <1>2
      <4> QED BY <4>1
    <3>3. k + 1 \in UNION {ToSet(G[l]) : l \in Names}
      BY <1>2
    <3> QED BY <3>1, <3>2, <3>3
  <2>2. ((1..k) \ bad) \cup {k + 1} = (1..(k + 1)) \ bad
    BY <1>3
  <2> QED BY <1>3, <2>1, <2>2
<1>6. \A m, n \in Names : m # n => ToSet(G[m]) \cap ToSet(G[n]) = {}
  <2>1. \A n \in Names : k + 1 \notin ToSet(F[n])
    BY <1>4
  <2> SUFFICES ASSUME NEW m \in Names, NEW n \in Names, m # n
               PROVE  ToSet(G[m]) \cap ToSet(G[n]) = {}
    OBVIOUS
  <2>2. ToSet(F[m]) \cap ToSet(F[n]) = {}
    BY <1>3
  <2>3. CASE m = n0
    BY <1>1, <1>2, <2>1, <2>2, <2>3
  <2>4. CASE n = n0
    BY <1>1, <1>2, <2>1, <2>2, <2>4
  <2>5. CASE m # n0 /\ n # n0
    BY <1>1, <2>2, <2>5
  <2> QED BY <2>3, <2>4, <2>5
<1>7. ASSUME NEW n \in Names, NEW i \in DOMAIN G[n], NEW j \in DOMAIN G[n], i < j
      PROVE  G[n][i] < G[n][j]
  <2>1. CASE n # n0
    BY <1>1, <1>3, <1>7, <2>1
  <2>2. CASE n = n0
    <3>1. /\ G[n] \in Seq(LineNos) /\ Len(G[n]) = Len(s) + 1 /\ Len(s) \in Nat
          /\ \A l \in 1..Len(s) : G[n][l] = s[l]
          /\ G[n][Len(s) + 1] = k + 1
      <4> HIDE DEF s
      <4> DEFINE t == Append(s, k + 1)
      <4>1. /\ t \in Seq(LineNos) /\ Len(t) = Len(s) + 1
            /\ \A l \in 1..Len(s) : t[l] = s[l]
            /\ t[Len(s) + 1] = k + 1
        BY <1>1, AppendProperties
      <4>2. Len(s) \in Nat
        BY <1>1, LenProperties
      <4>3. G[n] = t
        BY <1>1, <2>2
      <4> HIDE DEF t
      <4> QED BY <4>1, <4>2, <4>3
    <3>2. DOMAIN s = 1..Len(s) /\ DOMAIN G[n] = 1..(Len(s) + 1)
      BY <1>1, <3>1, LenProperties
    <3>3. i \in DOMAIN s /\ (j \in DOMAIN s \/ j = Len(s) + 1)
      BY <1>7, <3>1, <3>2
    <3>4. CASE j \in DOMAIN s
      BY <1>3, <1>7, <2>2, <3>1, <3>2, <3>3, <3>4
    <3>5. CASE j = Len(s) + 1
      <4>1. s[i] \in ToSet(s)
        BY <3>3 DEF ToSet
      <4>2. s[i] \in 1..k
        BY <1>4, <4>1
      <4> QED BY <3>1, <3>2, <3>3, <3>5, <4>2
    <3> QED BY <3>3, <3>4, <3>5
  <2> QED BY <2>1, <2>2
<1>8. bad \subseteq 1..(k + 1)
  BY <1>3
<1> QED BY <1>5, <1>6, <1>7, <1>8 DEF Holds, G

\* A line that fwrite did not take.
LEMMA HoldsAllBut ==
    ASSUME NEW F, NEW k \in Nat, NEW bad, Holds(F, k, bad)
    PROVE  Holds(F, k + 1, bad \cup {k + 1})
<1>1. (1..(k + 1)) \ (bad \cup {k + 1}) = (1..k) \ bad
  OBVIOUS
<1>2. bad \cup {k + 1} \subseteq 1..(k + 1)
  BY DEF Holds
<1> QED BY <1>1, <1>2 DEF Holds

\* The files before a step of the FileHandler.
LEMMA FilesType ==
    ASSUME FilesTyped
    PROVE  Files \in [Names -> Seq(LineNos)]
<1>1. ASSUME NEW n \in Names PROVE Lines(n) \in Seq(LineNos)
  BY ConcatProperties DEF Lines, FilesTyped
<1> QED BY <1>1 DEF Files

\* The files once the lines of b, and no others, are on their way.
Filled(d, f, b) == [n \in Names |-> IF n = f THEN d[n] \o b ELSE d[n]]

\* Files is what is on disk and in the buffer.
LEMMA FilesFilled == Files = Filled(disk, logFile, buffer)
BY DEF Files, Filled, Lines

\* Writing the buffer out, and opening another file with an empty one, change
\* no file.
LEMMA FilledFlushed ==
    ASSUME NEW d \in [Names -> Seq(LineNos)], NEW b \in Seq(LineNos),
           NEW f \in Names, NEW g
    PROVE  Filled([d EXCEPT ![f] = @ \o b], g, <<>>) = Filled(d, f, b)
<1> DEFINE e == [d EXCEPT ![f] = @ \o b]
<1>1. /\ \A n \in Names : e[n] = IF n = f THEN d[n] \o b ELSE d[n]
      /\ \A n \in Names : e[n] \in Seq(LineNos)
  BY ConcatProperties
<1> HIDE DEF e
<1>2. \A n \in Names : e[n] \o <<>> = e[n]
  BY <1>1, ConcatEmptySeq
<1>3. Filled(e, g, <<>>) = Filled(d, f, b)
  BY <1>1, <1>2 DEF Filled
<1> QED BY <1>3 DEF e

\* The types of what is written out.
LEMMA FlushedType ==
    ASSUME NEW d \in [Names -> Seq(LineNos)], NEW b \in Seq(LineNos),
           NEW f \in Names
    PROVE  [d EXCEPT ![f] = @ \o b] \in [Names -> Seq(LineNos)]
<1>1. d[f] \o b \in Seq(LineNos)
  BY ConcatProperties
<1> QED BY <1>1

\* A line more in the buffer is a line more in the file.
LEMMA FilledAppend ==
    ASSUME NEW d \in [Names -> Seq(LineNos)], NEW b \in Seq(LineNos),
           NEW f \in Names, NEW m \in LineNos
    PROVE  Filled(d, f, Append(b, m))
             = [Filled(d, f, b) EXCEPT ![f] = Append(@, m)]
<1> DEFINE F == Filled(d, f, b)
<1>1. d[f] \o Append(b, m) = Append(d[f] \o b, m)
  <2>1. d[f] \in Seq(LineNos) /\ <<m>> \in Seq(LineNos) /\ d[f] \o b \in Seq(LineNos)
    BY ConcatProperties
  <2>2. /\ Append(b, m) = b \o <<m>>
        /\ Append(d[f] \o b, m) = (d[f] \o b) \o <<m>>
    BY <2>1, AppendIsConcat
  <2>3. (d[f] \o b) \o <<m>> = d[f] \o (b \o <<m>>)
    BY <2>1, ConcatAssociative
  <2> QED BY <2>2, <2>3
<1>2. /\ F = [n \in Names |-> F[n]] /\ F[f] = d[f] \o b
      /\ \A n \in Names : n # f => F[n] = d[n]
  BY DEF Filled
<1> HIDE DEF F
<1>3. [F EXCEPT ![f] = Append(@, m)]
        = [n \in Names |-> IF n = f THEN Append(d[f] \o b, m) ELSE d[n]]
  BY <1>2
<1>4. Filled(d, f, Append(b, m))
        = [n \in Names |-> IF n = f THEN d[f] \o Append(b, m) ELSE d[n]]
  BY DEF Filled
<1> QED BY <1>1, <1>3, <1>4 DEF F

---------------------------------------------------------------------------
(* FileHandler::append.                                                    *)

\* What append leaves: the types, and the line in the file that was open,
\* whether the buffer spilled, was flushed or went with a rolled file.
AppendKeeps ==
    /\ FilesTyped' /\ FilesExact'
    /\ logFile' \in Names /\ written' \in Nat /\ Len(buffer') <= BufferSize
    /\ lineCount' \in 0..(FlushEveryNLine - 1)
    /\ {lastRollTime', lastFlushTime', lastRollPeriod', since'} \subseteq 0..MaxClock
    /\ lines' = lines + 1 /\ failed' \subseteq 1..MaxLines

\* append loses no line but one fwrite does not take.
LEMMA AppendLineKeeps ==
    ASSUME TypeOK, FilesTyped, FilesExact, logFile \in Names, lines < MaxLines,
           NEW ok \in BOOLEAN, AppendLine(ok)
    PROVE  AppendKeeps
<1> DEFINE m == lines + 1
           spill == ok /\ Len(buffer) = BufferSize
           kept == IF spill THEN <<>> ELSE buffer
           b == IF ok THEN Append(kept, m) ELSE kept
           d == IF spill THEN FlushedDisk(buffer) ELSE disk
           w == IF ok THEN written + 1 ELSE written
           e == [d EXCEPT ![logFile] = @ \o b]
           rolls == Due(w) = "roll" /\ clock > lastRollTime
           flushes == Due(w) = "flush"
<1>1. /\ lines' = m
      /\ failed' = IF ok THEN failed ELSE failed \cup {m}
      /\ since' = IF kept = <<>> THEN clock ELSE since
      /\ lineCount' = NextLineCount(w)
      /\ rolls => RollFile(e)
      /\ ~rolls => /\ written' = w
                   /\ buffer' = IF flushes THEN <<>> ELSE b
                   /\ disk' = IF flushes THEN e ELSE d
                   /\ lastFlushTime' = IF flushes THEN clock ELSE lastFlushTime
                   /\ UNCHANGED <<logFile, lastRollTime, lastRollPeriod>>
  BY Zenon DEF AppendLine
<1>2. /\ clock \in 1..MaxClock /\ logFile # NoFile
      /\ lines \in Nat /\ m \in LineNos /\ written \in Nat
      /\ Len(buffer) <= BufferSize /\ lineCount \in 0..(FlushEveryNLine - 1)
      /\ lastRollTime \in 0..MaxClock /\ lastFlushTime \in 0..MaxClock
      /\ lastRollPeriod \in 0..MaxClock /\ since \in 0..MaxClock
      /\ failed \subseteq 1..MaxLines
  BY Constants, NamesAreNames DEF TypeOK, LineNos
<1>3. buffer \in Seq(LineNos) /\ disk \in [Names -> Seq(LineNos)]
      /\ Len(buffer) \in Nat
  BY LenProperties DEF FilesTyped
<1>4. <<>> \in Seq(LineNos) /\ Len(<<>>) = 0
  BY EmptySeq
<1>5. kept \in Seq(LineNos) /\ d \in [Names -> Seq(LineNos)]
  BY <1>2, <1>3, <1>4, FlushedType DEF FlushedDisk
<1>6. Filled(d, logFile, kept) = Files
  <2>1. CASE spill
    <3>1. d = [disk EXCEPT ![logFile] = @ \o buffer] /\ kept = <<>>
      BY <1>2, <2>1 DEF FlushedDisk
    <3>2. Filled([disk EXCEPT ![logFile] = @ \o buffer], logFile, <<>>)
            = Filled(disk, logFile, buffer)
      BY <1>3, FilledFlushed
    <3> QED BY <3>1, <3>2, FilesFilled
  <2>2. CASE ~spill
    BY <2>2, FilesFilled
  <2> QED BY <2>1, <2>2
<1>7. b \in Seq(LineNos)
  BY <1>2, <1>5, AppendProperties
<1>8. Len(b) <= BufferSize
  <2>1. ok => Len(b) = Len(kept) + 1
    BY <1>2, <1>5, AppendProperties
  <2>2. Len(kept) = IF spill THEN 0 ELSE Len(buffer)
    BY <1>4
  <2> QED BY <1>2, <1>3, <2>1, <2>2, Constants
<1>9. Holds(Filled(d, logFile, b), m, failed')
  <2>1. Holds(Files, lines, failed) /\ Files \in [Names -> Seq(LineNos)]
    BY FilesType DEF FilesExact
  <2>2. CASE ok
    <3>1. Filled(d, logFile, b) = [Files EXCEPT ![logFile] = Append(@, m)]
      <4> HIDE DEF d, kept, m
      <4> QED BY SMTT(60), <1>2, <1>5, <1>6, <2>2, FilledAppend
    <3>2. Holds([Files EXCEPT ![logFile] = Append(@, lines + 1)], lines + 1, failed)
      BY <1>2, <2>1, HoldsMore
    <3> QED BY <1>1, <2>2, <3>1, <3>2
  <2>3. CASE ~ok
    BY <1>1, <1>2, <1>6, <2>1, <2>3, HoldsAllBut
  <2> QED BY <2>2, <2>3
<1>10. e \in [Names -> Seq(LineNos)]
  <2> HIDE DEF d, b
  <2> QED BY <1>5, <1>7, FlushedType
<1>11. /\ disk' \in [Names -> Seq(LineNos)] /\ buffer' \in Seq(LineNos)
       /\ logFile' \in Names /\ Len(buffer') <= BufferSize
       /\ Filled(disk', logFile', buffer') = Filled(d, logFile, b)
  <2>0. \A g : Filled(e, g, <<>>) = Filled(d, logFile, b)
    <3>1. d \in [Names -> Seq(LineNos)] /\ b \in Seq(LineNos)
      BY <1>5, <1>7
    <3> HIDE DEF d, b
    <3> SUFFICES ASSUME NEW g PROVE Filled(e, g, <<>>) = Filled(d, logFile, b)
      OBVIOUS
    <3> QED BY <3>1, FilledFlushed
  <2> HIDE DEF d, b
  <2>1. CASE rolls
    <3>1. disk' = e /\ logFile' = GetFilename(clock) /\ buffer' = <<>>
      BY <1>1, <2>1 DEF RollFile, Open
    <3>2. logFile' \in Names
      BY <1>2, <3>1, TimeNames, Constants
    <3>3. Filled(e, logFile', <<>>) = Filled(d, logFile, b)
      BY <2>0
    <3>4. Len(buffer') <= BufferSize
      BY <1>4, <3>1, Constants
    <3> HIDE DEF e
    <3> QED BY <1>4, <1>10, <3>1, <3>2, <3>3, <3>4
  <2>2. CASE ~rolls /\ flushes
    <3>1. disk' = e /\ logFile' = logFile /\ buffer' = <<>>
      BY <1>1, <2>2
    <3>3. Filled(e, logFile, <<>>) = Filled(d, logFile, b)
      BY <2>0
    <3>4. Len(buffer') <= BufferSize
      BY <1>4, <3>1, Constants
    <3> HIDE DEF e
    <3> QED BY <1>4, <1>10, <3>1, <3>3, <3>4
  <2>3. CASE ~rolls /\ ~flushes
    BY <1>1, <1>5, <1>7, <1>8, <2>3
  <2> QED BY <2>1, <2>2, <2>3
<1>12. FilesTyped' /\ FilesExact'
  <2>1. FilesTyped'
    BY <1>11 DEF FilesTyped
  <2>2. Files' = Filled(disk', logFile', buffer')
    BY DEF Files, Filled, Lines
  <2>3. Holds(Files', lines', failed')
    <3> HIDE DEF d, b
    <3> QED BY <1>1, <1>9, <1>11, <2>2
  <2>4. FilesExact'
    BY <2>3 DEF FilesExact, Holds, Names
  <2> QED BY <2>1, <2>4
<1>13. lineCount' \in 0..(FlushEveryNLine - 1)
  BY <1>1, <1>2, Constants DEF NextLineCount
<1>14. written' \in Nat
  <2>1. w \in Nat
    BY <1>2
  <2> HIDE DEF e, w
  <2> QED BY <1>1, <2>1 DEF RollFile
<1>15. {lastRollTime', lastFlushTime', lastRollPeriod', since'} \subseteq 0..MaxClock
  <2>1. PeriodOf(clock) \in 0..MaxClock /\ clock \in 0..MaxClock
    BY <1>2, TimeNames, Constants
  <2> QED BY <1>1, <1>2, <2>1 DEF RollFile
<1>16. failed' \subseteq 1..MaxLines
  BY <1>1, <1>2 DEF LineNos
<1> QED BY <1>1, <1>11, <1>12, <1>13, <1>14, <1>15, <1>16 DEF AppendKeeps

\* append keeps the order of the times it notes.
LEMMA AppendLineClocks ==
    ASSUME TypeOK, FilesTyped, Clocks, lines < MaxLines, NEW ok \in BOOLEAN,
           AppendLine(ok), clock' = clock, setBacks' = setBacks
    PROVE  Clocks'
<1> DEFINE m == lines + 1
           spill == ok /\ Len(buffer) = BufferSize
           kept == IF spill THEN <<>> ELSE buffer
           b == IF ok THEN Append(kept, m) ELSE kept
           d == IF spill THEN FlushedDisk(buffer) ELSE disk
           w == IF ok THEN written + 1 ELSE written
           rolls == Due(w) = "roll" /\ clock > lastRollTime
           flushes == Due(w) = "flush"
<1>1. /\ since' = IF kept = <<>> THEN clock ELSE since
      /\ rolls => RollFile([d EXCEPT ![logFile] = @ \o b])
      /\ ~rolls => /\ buffer' = IF flushes THEN <<>> ELSE b
                   /\ lastFlushTime' = IF flushes THEN clock ELSE lastFlushTime
                   /\ UNCHANGED <<logFile, lastRollTime, lastRollPeriod>>
  BY Zenon DEF AppendLine
<1>2. /\ clock \in 1..MaxClock /\ lastRollTime \in 0..MaxClock
      /\ lastFlushTime \in 0..MaxClock /\ since \in 0..MaxClock
  BY DEF TypeOK
<1>3. kept # <<>> => buffer # <<>>
  OBVIOUS
<1> HIDE DEF b, d, kept, w
<1>4. CASE rolls
  <2>1. /\ lastRollTime' = clock /\ lastFlushTime' = clock /\ buffer' = <<>>
        /\ lastRollPeriod' = PeriodOf(clock)
    BY <1>1, <1>4 DEF RollFile
  <2> QED BY <1>2, <2>1, Constants DEF Clocks, PeriodOf
<1>5. CASE ~rolls
  <2>1. setBacks = 0 => lastFlushTime <= since'
    BY <1>1, <1>2, <1>3, Constants DEF Clocks
  <2> QED BY <1>1, <1>2, <1>5, <2>1, Constants DEF Clocks, PeriodOf
<1> QED BY <1>4, <1>5

---------------------------------------------------------------------------
(* The threads' way through the handlers.                                  *)

PcType == [Threads -> [at : Handlers \cup {"idle", "flush"},
                       level : Levels, line : 0..MaxLines]]

\* A thread that is done with a handler is idle or at a later one.
LEMMA ProceedMoves ==
    ASSUME pc \in PcType, handlers \subseteq Handlers,
           NEW t \in Threads, pc[t].at \in Handlers, Proceed(t)
    PROVE  /\ pc' \in PcType
           /\ \A u \in Threads : u # t => pc'[u] = pc[u]
           /\ pc'[t].at \in handlers \cup {"idle"}
           /\ pc'[t].at # "before"
           /\ pc[t].at # "before" => pc'[t].at \in {"after", "idle"}
           /\ pc[t].level # FATAL => pc'[t].level # FATAL
<1> DEFINE h == pc[t].at
           g == NextHandler(h)
           q == IF g = "idle" THEN Idle ELSE [pc[t] EXCEPT !.at = g]
<1>1. pc' = [pc EXCEPT ![t] = q]
  BY DEF Proceed
<1>2. h \in {"before", "file", "after"}
  BY DEF Handlers, Consoles
<1>3. /\ g \in handlers \cup {"idle"}
      /\ h = "before" => g # "before"
      /\ h # "before" => g \in {"after", "idle"}
  <2>1. CASE h = "before"
    BY <2>1, HandlerRoute, NextRoute
  <2>2. CASE h = "file"
    BY <2>2, HandlerRoute, NextRoute
  <2>3. CASE h = "after"
    BY <2>3, HandlerRoute, NextRoute
  <2> QED BY <1>2, <2>1, <2>2, <2>3
<1> HIDE DEF g
<1>4. /\ q \in [at : Handlers \cup {"idle", "flush"},
                level : Levels, line : 0..MaxLines]
      /\ q.at = g
      /\ q.level \in {pc[t].level, DEBUG}
  BY <1>3, Constants DEF PcType, Idle, Levels, DEBUG, INFO, FATAL
<1> HIDE DEF q
<1>5. pc' \in PcType /\ pc'[t] = q /\ \A u \in Threads : u # t => pc'[u] = pc[u]
  BY <1>1, <1>4 DEF PcType
<1>6. DEBUG # FATAL
  BY DEF DEBUG, FATAL
<1> QED BY <1>2, <1>3, <1>4, <1>5, <1>6

\* The threads the FileHandler may get a line of, before and after a step.
LEMMA AwaitShrinks ==
    ASSUME NEW S \in SUBSET Threads, NEW T \in SUBSET S
    PROVE  /\ Cardinality(S) \in Nat /\ Cardinality(T) \in Nat
           /\ Cardinality(T) <= Cardinality(S)
           /\ \A t \in S : t \notin T => Cardinality(T) + 1 <= Cardinality(S)
<1>1. IsFiniteSet(S) /\ IsFiniteSet(T)
  BY Constants, FS_Subset
<1>2. Cardinality(S) \in Nat /\ Cardinality(T) \in Nat
  BY <1>1, FS_CardinalityType
<1>3. Cardinality(T) <= Cardinality(S)
  BY <1>1, FS_Subset
<1>4. ASSUME NEW t \in S, t \notin T
      PROVE  Cardinality(T) + 1 <= Cardinality(S)
  <2>1. Cardinality(S \ {t}) = Cardinality(S) - 1 /\ IsFiniteSet(S \ {t})
    BY <1>1, FS_RemoveElement
  <2>2. T \subseteq S \ {t}
    BY <1>4
  <2>3. Cardinality(T) <= Cardinality(S \ {t})
    BY <2>1, <2>2, FS_Subset
  <2> QED BY <1>2, <2>1, <2>3
<1> QED BY <1>2, <1>3, <1>4

\* A thread done with a handler has one line less to hand to the FileHandler
\* once it has been there.
LEMMA ProceedBudget ==
    ASSUME pc \in PcType, handlers \subseteq Handlers,
           NEW t \in Threads, pc[t].at \in Handlers, Proceed(t)
    PROVE  /\ AwaitFile' \subseteq AwaitFile
           /\ pc[t].at = "file" => t \in AwaitFile /\ t \notin AwaitFile'
<1>1. /\ \A u \in Threads : u # t => pc'[u] = pc[u]
      /\ pc'[t].at \in handlers \cup {"idle"}
      /\ pc'[t].at # "before"
      /\ pc[t].at # "before" => pc'[t].at \in {"after", "idle"}
  BY ProceedMoves
<1>2. AwaitFile' = {u \in Threads : pc'[u].at \in {"before", "file"}}
  BY DEF AwaitFile
<1>3. t \in AwaitFile' => pc[t].at = "before"
  BY <1>1, <1>2
<1> QED BY <1>1, <1>2, <1>3 DEF AwaitFile

\* What is on disk when the buffer is empty.
LEMMA HeldOnDisk ==
    ASSUME NEW d \in [Names -> Seq(LineNos)], NEW f, NEW k \in Nat, NEW bad,
           Holds(Filled(d, f, <<>>), k, bad), NEW h \in Nat, h <= k
    PROVE  \A m \in (1..h) \ bad : \E n \in Names : Contains(d[n], m)
<1> DEFINE F == Filled(d, f, <<>>)
<1>1. ASSUME NEW n \in Names PROVE F[n] = d[n]
  BY ConcatEmptySeq DEF Filled
<1>2. UNION {ToSet(F[n]) : n \in Names} = (1..k) \ bad
  BY DEF Holds
<1> HIDE DEF F
<1>3. SUFFICES ASSUME NEW m \in (1..h) \ bad
               PROVE  \E n \in Names : Contains(d[n], m)
  OBVIOUS
<1>4. m \in (1..k) \ bad
  OBVIOUS
<1>5. PICK n \in Names : m \in ToSet(F[n])
  BY <1>2, <1>4
<1>6. d[n] \in Seq(LineNos) /\ DOMAIN d[n] = 1..Len(d[n])
  BY LenProperties
<1> QED BY <1>1, <1>5, <1>6 DEF ToSet, Contains

---------------------------------------------------------------------------
(* The steps.                                                              *)

\* A step that leaves the FileHandler alone leaves the files alone.
LEMMA FileVarsKept ==
    ASSUME IInv, UNCHANGED fileVars
    PROVE  FilesTyped' /\ FilesExact'
<1>1. UNCHANGED <<logFile, buffer, disk, lines, failed>>
  BY DEF fileVars
<1>2. FilesTyped'
  BY <1>1 DEF IInv, FilesTyped
<1>3. Files' = Files
  BY <1>1 DEF Files, Lines
<1>4. FilesExact'
  BY <1>1, <1>3 DEF IInv, FilesExact, Holds
<1> QED BY <1>2, <1>4

\* Nothing is promised before the process dies.
LEMMA AliveFatal ==
    ASSUME died' = FALSE
    PROVE  FatalOnDisk'
BY DEF FatalOnDisk

\* Logger::write and its first handler.
LEMMA WriteKeeps ==
    ASSUME IInv, NEW t \in Threads, NEW level \in Levels, Write(t, level)
    PROVE  IInv'
<1> DEFINE h == HandlerFrom(1, handlers')
           q == [at |-> h, level |-> level, line |-> 0]
           busy == {u \in Threads : pc[u] # Idle}
<1>1. /\ pc[t] = Idle /\ died = FALSE
      /\ lines + Cardinality(busy) < MaxLines
      /\ handlers = {} => \A u \in Threads : pc[u] = Idle
      /\ handlers' \in {{"before"}, {"after"}} \/ handlers' = handlers
      /\ handlers # {} => handlers' = handlers
      /\ pc' = [pc EXCEPT ![t] = q]
      /\ UNCHANGED <<clock, fileVars, deathVars, setBacks>>
  BY DEF Write, AllIdle, IInv, TypeOK, Consoles
<1>2. /\ logFile' = logFile /\ buffer' = buffer /\ lines' = lines
      /\ clock' = clock /\ setBacks' = setBacks /\ died' = FALSE
  BY <1>1 DEF fileVars, deathVars
<1>3. handlers \subseteq Handlers /\ pc \in PcType
  BY DEF IInv, TypeOK, PcType
<1>4. /\ handlers' \subseteq Handlers /\ handlers \subseteq handlers'
      /\ "file" \in handlers' => "file" \in handlers
  BY <1>1, <1>3 DEF Handlers, Consoles
<1>5. /\ h \in handlers' \cup {"idle"}
      /\ "file" \in handlers' => h # "after"
  BY <1>4, HandlerRoute
<1> HIDE DEF h
<1>6. q \in [at : Handlers \cup {"idle", "flush"},
             level : Levels, line : 0..MaxLines]
      /\ q.at = h
  BY <1>4, <1>5, Constants
<1> HIDE DEF q
<1>7. pc' \in PcType /\ pc'[t] = q /\ \A u \in Threads : u # t => pc'[u] = pc[u]
  BY <1>1, <1>3, <1>6 DEF PcType
<1>8. TypeOK'
  <2>1. /\ clock' \in 1..MaxClock /\ setBacks' \in 0..MaxSetBacks
        /\ logFile' \in Names' \cup {NoFile}
        /\ written' \in Nat /\ Len(buffer') <= BufferSize
        /\ lineCount' \in 0..(FlushEveryNLine - 1)
        /\ {lastRollTime', lastFlushTime', lastRollPeriod', since'} \subseteq 0..MaxClock
        /\ lines' \in 0..MaxLines /\ failed' \subseteq 1..MaxLines
        /\ died' \in BOOLEAN /\ handed' \in 0..MaxLines
    BY <1>1 DEF IInv, TypeOK, fileVars, deathVars, Names
  <2> QED BY <1>4, <1>7, <2>1 DEF TypeOK, PcType
<1>9. FilesTyped' /\ FilesExact'
  BY <1>1, FileVarsKept
<1>10. HandlersThere'
  <2>1. "file" \in handlers' <=> "file" \in handlers
    BY <1>4
  <2>2. ASSUME NEW u \in Threads
        PROVE  /\ pc'[u].at \in Handlers => pc'[u].at \in handlers'
               /\ pc'[u].at = "flush" => "file" \in handlers' /\ pc'[u].line <= lines'
    BY <1>2, <1>4, <1>5, <1>6, <1>7 DEF IInv, HandlersThere, Handlers, Consoles
  <2>3. logFile' = NoFile => buffer' = <<>>
    BY <1>2 DEF IInv, HandlersThere
  <2>4. logFile' # NoFile <=> "file" \in handlers'
    BY <1>2, <2>1 DEF IInv, HandlersThere
  <2> QED BY <2>2, <2>3, <2>4 DEF HandlersThere
<1>11. Budget'
  <2>1. AwaitFile \subseteq busy /\ busy \subseteq Threads /\ t \notin busy
    BY <1>1 DEF AwaitFile, Idle
  <2>2. AwaitFile' \subseteq AwaitFile \cup {t}
    BY <1>7 DEF AwaitFile
  <2>3. busy \cup {t} \subseteq Threads /\ AwaitFile' \subseteq busy \cup {t}
    BY <2>1, <2>2
  <2>4. IsFiniteSet(busy) /\ Cardinality(busy) \in Nat
    BY <2>1, Constants, FS_Subset, FS_CardinalityType
  <2>5. Cardinality(busy \cup {t}) = Cardinality(busy) + 1
    BY <2>1, <2>4, FS_AddElement
  <2>6. Cardinality(AwaitFile') \in Nat
        /\ Cardinality(AwaitFile') <= Cardinality(busy \cup {t})
    BY <2>3, AwaitShrinks
  <2>7. lines \in Nat
    BY DEF IInv, TypeOK
  <2> QED BY <1>1, <1>2, <2>4, <2>5, <2>6, <2>7, Constants DEF Budget
<1>12. FatalRoute'
  <2>1. SUFFICES ASSUME NEW u \in Threads,
                        pc'[u].at = "after", pc'[u].level = FATAL
                 PROVE  "file" \notin handlers'
    BY DEF FatalRoute
  <2>2. CASE u = t
    BY <1>5, <1>6, <1>7, <2>1, <2>2
  <2>3. CASE u # t
    BY <1>4, <1>7, <2>1, <2>3 DEF IInv, FatalRoute
  <2> QED BY <2>2, <2>3
<1>13. Clocks'
  BY <1>1 DEF IInv, Clocks, fileVars, PeriodOf
<1>14. FatalOnDisk'
  BY <1>2, AliveFatal
<1> QED BY <1>8, <1>9, <1>10, <1>11, <1>12, <1>13, <1>14 DEF IInv

\* The types that a step of one thread keeps if it leaves the files alone.
LEMMA TypeOfThread ==
    ASSUME IInv, pc' \in PcType, UNCHANGED <<clock, handlers, fileVars, setBacks>>,
           died' \in BOOLEAN, handed' \in 0..MaxLines
    PROVE  TypeOK'
<1>1. /\ clock' \in 1..MaxClock /\ setBacks' \in 0..MaxSetBacks
      /\ handlers' \subseteq Handlers
      /\ logFile' \in Names' \cup {NoFile}
      /\ written' \in Nat /\ Len(buffer') <= BufferSize
      /\ lineCount' \in 0..(FlushEveryNLine - 1)
      /\ {lastRollTime', lastFlushTime', lastRollPeriod', since'} \subseteq 0..MaxClock
      /\ lines' \in 0..MaxLines /\ failed' \subseteq 1..MaxLines
  BY DEF IInv, TypeOK, fileVars, Names
<1> QED BY <1>1 DEF TypeOK, PcType

\* A thread that goes on to the next handler without touching the files.
LEMMA ProceedKeeps ==
    ASSUME IInv, NEW t \in Threads, pc[t].at \in Handlers, Proceed(t),
           died = FALSE, pc[t].level # FATAL,
           UNCHANGED <<clock, handlers, fileVars, deathVars, setBacks>>
    PROVE  IInv'
<1>1. /\ logFile' = logFile /\ buffer' = buffer /\ lines' = lines
      /\ handlers' = handlers /\ died' = FALSE /\ handed' = handed
  BY DEF fileVars, deathVars
<1>2. /\ pc \in PcType /\ handlers \subseteq Handlers
      /\ handed \in 0..MaxLines /\ lines \in Nat
  BY DEF IInv, TypeOK, PcType
<1>3. /\ pc' \in PcType
      /\ \A u \in Threads : u # t => pc'[u] = pc[u]
      /\ pc'[t].at \in handlers \cup {"idle"}
      /\ pc'[t].level # FATAL
  BY <1>2, ProceedMoves
<1>4. TypeOK'
  BY <1>1, <1>2, <1>3, TypeOfThread
<1>5. FilesTyped' /\ FilesExact'
  BY FileVarsKept
<1>6. HandlersThere'
  <2>1. ASSUME NEW u \in Threads
        PROVE  /\ pc'[u].at \in Handlers => pc'[u].at \in handlers'
               /\ pc'[u].at = "flush" => "file" \in handlers' /\ pc'[u].line <= lines'
    BY <1>1, <1>2, <1>3 DEF IInv, HandlersThere, Handlers, Consoles
  <2> QED BY <1>1, <2>1 DEF IInv, HandlersThere
<1>7. Budget'
  <2>1. AwaitFile' \subseteq AwaitFile /\ AwaitFile \subseteq Threads
    BY <1>2, ProceedBudget DEF AwaitFile
  <2>2. Cardinality(AwaitFile') <= Cardinality(AwaitFile)
        /\ Cardinality(AwaitFile') \in Nat /\ Cardinality(AwaitFile) \in Nat
    BY <2>1, AwaitShrinks
  <2> QED BY <1>1, <1>2, <2>2, Constants DEF IInv, Budget
<1>8. FatalRoute'
  BY <1>1, <1>3 DEF IInv, FatalRoute
<1>9. Clocks'
  BY DEF IInv, Clocks, fileVars, PeriodOf
<1>10. FatalOnDisk'
  BY <1>1, AliveFatal
<1> QED BY <1>4, <1>5, <1>6, <1>7, <1>8, <1>9, <1>10 DEF IInv

\* ConsoleHandler::write.
LEMMA WriteConsoleKeeps ==
    ASSUME IInv, NEW t \in Threads, WriteConsole(t)
    PROVE  IInv'
<1>1. CASE pc[t].level # FATAL
  <2>1. /\ pc[t].at \in Handlers /\ died = FALSE /\ Proceed(t)
        /\ UNCHANGED <<clock, handlers, fileVars, deathVars, setBacks>>
    BY <1>1 DEF WriteConsole, IInv, TypeOK, Handlers
  <2> QED BY <1>1, <2>1, ProceedKeeps
<1>2. CASE pc[t].level = FATAL
  <2>1. /\ pc[t].at \in {"before", "after"} /\ died' = TRUE /\ handed' = lines
        /\ UNCHANGED <<clock, handlers, pc, fileVars, setBacks>>
    BY <1>2 DEF WriteConsole, Consoles
  <2>2. /\ UNCHANGED <<logFile, buffer, disk, lines, failed, handlers, pc>>
    BY <2>1 DEF fileVars
  <2>3. TypeOK'
    BY <2>1, TypeOfThread DEF IInv, TypeOK, PcType
  <2>4. FilesTyped' /\ FilesExact'
    BY <2>1, FileVarsKept
  <2>5. HandlersThere' /\ FatalRoute'
    BY <2>2 DEF IInv, HandlersThere, FatalRoute
  <2>6. Budget'
    <3>1. AwaitFile' = AwaitFile
      BY <2>2 DEF AwaitFile
    <3> QED BY <2>2, <3>1 DEF IInv, Budget
  <2>7. Clocks'
    BY <2>1 DEF IInv, Clocks, fileVars, PeriodOf
  <2>8. FatalOnDisk'
    <3>0. CASE pc[t].at = "before"
      BY <2>2, <3>0 DEF IInv, HandlersThere, FatalOnDisk, Handlers, Consoles
    <3> SUFFICES ASSUME pc[t].at = "after" PROVE FatalOnDisk'
      BY <2>1, <3>0
    <3>1. logFile = NoFile /\ buffer = <<>>
      BY <1>2 DEF IInv, FatalRoute, HandlersThere
    <3>2. Holds(Filled(disk, logFile, <<>>), lines, failed)
      BY <3>1, FilesFilled DEF IInv, FilesExact
    <3>3. disk \in [Names -> Seq(LineNos)] /\ lines \in Nat
      BY DEF IInv, TypeOK, FilesTyped
    <3>5. lines \in Nat /\ lines <= lines
      BY <3>3
    <3>4. \A m \in (1..lines) \ failed : \E n \in Names : Contains(disk[n], m)
      BY <3>2, <3>3, <3>5, HeldOnDisk
    <3> QED BY <2>1, <2>2, <3>4 DEF FatalOnDisk, Names
  <2> QED BY <2>3, <2>4, <2>5, <2>6, <2>7, <2>8 DEF IInv
<1> QED BY <1>1, <1>2

\* A thread is at the FileHandler only while the bound on the lines allows one
\* more, and the file is open.
LEMMA RoomForLine ==
    ASSUME IInv, NEW t \in Threads, pc[t].at = "file"
    PROVE  logFile \in Names /\ lines < MaxLines
<1>1. t \in AwaitFile /\ AwaitFile \subseteq Threads /\ {} \subseteq AwaitFile
  BY DEF AwaitFile
<1>2. Cardinality(AwaitFile) \in Nat /\ Cardinality({}) \in Nat
      /\ Cardinality({}) + 1 <= Cardinality(AwaitFile)
  BY <1>1, AwaitShrinks
<1>3. lines < MaxLines
  BY <1>2, Constants DEF IInv, TypeOK, Budget
<1>4. logFile \in Names
  BY DEF IInv, HandlersThere, TypeOK
<1> QED BY <1>3, <1>4

\* FileHandler::write up to the FATAL line's flush().
LEMMA WriteFileKeeps ==
    ASSUME IInv, NEW t \in Threads, NEW ok \in BOOLEAN, WriteFile(t, ok)
    PROVE  IInv'
<1>1. /\ pc[t].at = "file" /\ died = FALSE
      /\ UNCHANGED <<clock, handlers, deathVars, setBacks>>
  BY DEF WriteFile, IInv, TypeOK
<1>2. /\ pc \in PcType /\ handlers \subseteq Handlers
      /\ handed \in 0..MaxLines /\ lines \in Nat
  BY DEF IInv, TypeOK, PcType
<1>3. CASE pc[t].level < INFO
  <2>1. Proceed(t) /\ UNCHANGED fileVars
    BY <1>3 DEF WriteFile
  <2>2. pc[t].level # FATAL
    BY <1>3 DEF INFO, FATAL
  <2>3. UNCHANGED <<clock, handlers, fileVars, deathVars, setBacks>>
    BY <1>1, <2>1
  <2> QED BY <1>1, <2>1, <2>2, <2>3, ProceedKeeps DEF Handlers
<1>4. CASE ~(pc[t].level < INFO)
  <2>1. /\ AppendLine(ok)
        /\ IF pc[t].level = FATAL
           THEN pc' = [pc EXCEPT ![t].at = "flush", ![t].line = lines']
           ELSE Proceed(t)
    BY <1>4 DEF WriteFile
  <2>2. logFile \in Names /\ lines < MaxLines
    BY <1>1, RoomForLine
  <2>3. AppendKeeps
    BY <2>1, <2>2, AppendLineKeeps DEF IInv
  <2>4. Clocks'
    BY <1>1, <2>1, <2>2, AppendLineClocks DEF IInv
  <2>5. /\ lines' = lines + 1 /\ lines' \in 0..MaxLines /\ logFile' \in Names
        /\ handlers' = handlers /\ died' = FALSE /\ handed' = handed
    BY <1>1, <1>2, <2>2, <2>3, Constants DEF AppendKeeps, deathVars
  <2>6. /\ pc' \in PcType
        /\ \A u \in Threads : u # t => pc'[u] = pc[u]
        /\ AwaitFile' \subseteq AwaitFile /\ t \in AwaitFile /\ t \notin AwaitFile'
        /\ pc'[t].at \in Handlers => pc'[t].at \in handlers
        /\ pc'[t].at = "flush" => pc'[t].line = lines'
        /\ pc'[t].at = "flush" \/ pc'[t].level # FATAL
    <3>1. CASE pc[t].level = FATAL
      <4>1. pc' = [pc EXCEPT ![t] = [pc[t] EXCEPT !.at = "flush", !.line = lines']]
        BY <2>1, <3>1
      <4>2. /\ pc' \in PcType
            /\ \A u \in Threads : u # t => pc'[u] = pc[u]
            /\ pc'[t].at = "flush" /\ pc'[t].line = lines'
        BY <1>2, <2>5, <4>1 DEF PcType
      <4> QED BY <1>1, <4>2 DEF AwaitFile, Handlers, Consoles
    <3>2. CASE pc[t].level # FATAL
      <4>1. Proceed(t)
        BY <2>1, <3>2
      <4>2. pc[t].at \in Handlers /\ pc[t].at # "before"
        BY <1>1 DEF Handlers
      <4>3. /\ pc' \in PcType
            /\ \A u \in Threads : u # t => pc'[u] = pc[u]
            /\ pc'[t].at \in handlers \cup {"idle"}
            /\ pc'[t].at \in {"after", "idle"}
            /\ pc'[t].level # FATAL
        BY <1>2, <3>2, <4>1, <4>2, ProceedMoves
      <4>4. AwaitFile' \subseteq AwaitFile /\ t \in AwaitFile /\ t \notin AwaitFile'
        BY <1>1, <1>2, <4>1, <4>2, ProceedBudget
      <4> QED BY <4>3, <4>4 DEF Handlers, Consoles
    <3> QED BY <3>1, <3>2
  <2>7. TypeOK'
    <3>1. clock' \in 1..MaxClock /\ setBacks' \in 0..MaxSetBacks
      BY <1>1 DEF IInv, TypeOK
    <3> QED BY <1>2, <2>3, <2>5, <2>6, <3>1 DEF TypeOK, AppendKeeps, PcType, Names
  <2>8. HandlersThere'
    <3>1. "file" \in handlers' /\ logFile' # NoFile
      BY <1>1, <2>5, NamesAreNames DEF IInv, HandlersThere, Handlers
    <3>2. ASSUME NEW u \in Threads
          PROVE  /\ pc'[u].at \in Handlers => pc'[u].at \in handlers'
                 /\ pc'[u].at = "flush" => "file" \in handlers' /\ pc'[u].line <= lines'
      <4>1. CASE u = t
        BY <2>5, <2>6, <3>1, <4>1
      <4>2. CASE u # t
        <5>1. pc[u].line \in Nat /\ pc'[u] = pc[u]
          BY <1>2, <2>6, <4>2 DEF PcType
        <5> QED BY <1>2, <2>5, <3>1, <5>1 DEF IInv, HandlersThere
      <4> QED BY <4>1, <4>2
    <3> QED BY <3>1, <3>2 DEF HandlersThere
  <2>9. Budget'
    <3>1. AwaitFile \subseteq Threads
      BY DEF AwaitFile
    <3>2. Cardinality(AwaitFile') + 1 <= Cardinality(AwaitFile)
          /\ Cardinality(AwaitFile') \in Nat /\ Cardinality(AwaitFile) \in Nat
      BY <2>6, <3>1, AwaitShrinks
    <3> QED BY <1>2, <2>5, <3>2, Constants DEF IInv, Budget
  <2>10. FatalRoute'
    BY <2>5, <2>6 DEF IInv, FatalRoute
  <2>11. FatalOnDisk'
    BY <2>5, AliveFatal
  <2> QED BY <2>3, <2>4, <2>7, <2>8, <2>9, <2>10, <2>11 DEF IInv, AppendKeeps
<1> QED BY <1>3, <1>4

\* Flushing an open file changes no file.
LEMMA FlushKeepsFiles ==
    ASSUME IInv, disk' = FlushedDisk(buffer), buffer' = <<>>,
           UNCHANGED <<lines, failed>>
    PROVE  /\ FilesTyped' /\ FilesExact'
           /\ Holds(Filled(disk', logFile', <<>>), lines, failed)
<1>1. /\ disk \in [Names -> Seq(LineNos)] /\ buffer \in Seq(LineNos)
      /\ logFile \in Names \cup {NoFile}
      /\ logFile = NoFile => buffer = <<>>
      /\ Holds(Files, lines, failed)
  BY DEF IInv, TypeOK, FilesTyped, FilesExact, HandlersThere
<1>2. disk' \in [Names -> Seq(LineNos)]
      /\ Filled(disk', logFile', <<>>) = Files
  <2>1. CASE logFile \in Names
    <3>1. disk' = [disk EXCEPT ![logFile] = @ \o buffer]
      BY <2>1, NamesAreNames DEF FlushedDisk
    <3>2. disk \in [Names -> Seq(LineNos)] /\ buffer \in Seq(LineNos)
      BY <1>1
    <3>3. ASSUME NEW g
          PROVE  Filled([disk EXCEPT ![logFile] = @ \o buffer], g, <<>>)
                   = Filled(disk, logFile, buffer)
      BY <2>1, <3>2, FilledFlushed
    <3>4. disk' \in [Names -> Seq(LineNos)]
      BY <2>1, <3>1, <3>2, FlushedType
    <3>5. Filled(disk', logFile', <<>>) = Filled(disk, logFile, buffer)
      BY <3>1, <3>3
    <3> QED BY <3>4, <3>5, FilesFilled
  <2>2. CASE logFile = NoFile
    <3>1. disk' = disk
      BY <2>2 DEF FlushedDisk
    <3>2. \A n \in Names : disk[n] \o <<>> = disk[n]
      BY <1>1, ConcatEmptySeq
    <3>3. Filled(disk, logFile', <<>>) = Filled(disk, logFile, <<>>)
      BY <3>2 DEF Filled
    <3> QED BY <1>1, <2>2, <3>1, <3>3, FilesFilled
  <2> QED BY <1>1, <2>1, <2>2
<1>3. <<>> \in Seq(LineNos)
  BY EmptySeq
<1>4. FilesTyped'
  BY <1>2, <1>3 DEF FilesTyped, Names, LineNos
<1>5. Files' = Filled(disk', logFile', buffer')
  BY DEF Files, Filled, Lines
<1>6. FilesExact'
  BY <1>1, <1>2, <1>5 DEF FilesExact, Holds
<1> QED BY <1>1, <1>2, <1>4, <1>6

\* The end of FileHandler::write of a FATAL line.
LEMMA FlushAndAbortKeeps ==
    ASSUME IInv, NEW t \in Threads, FlushAndAbort(t)
    PROVE  IInv'
<1>1. /\ pc[t].at = "flush"
      /\ disk' = FlushedDisk(buffer) /\ buffer' = <<>>
      /\ died' = TRUE /\ handed' = pc[t].line
      /\ UNCHANGED <<clock, handlers, pc, logFile, written, lineCount,
                     lastRollTime, lastFlushTime, lastRollPeriod, lines, failed,
                     since, setBacks>>
  BY DEF FlushAndAbort
<1>2. /\ FilesTyped' /\ FilesExact'
      /\ Holds(Filled(disk', logFile', <<>>), lines, failed)
  BY <1>1, FlushKeepsFiles
<1>3. handed' \in 0..MaxLines /\ handed' <= lines /\ lines \in Nat
  BY <1>1 DEF IInv, TypeOK, HandlersThere
<1>4. TypeOK'
  <2>1. Len(buffer') <= BufferSize
    BY <1>1, EmptySeq, Constants
  <2> QED BY <1>1, <1>3, <2>1 DEF IInv, TypeOK, Names
<1>5. HandlersThere' /\ FatalRoute'
  BY <1>1 DEF IInv, HandlersThere, FatalRoute
<1>6. Budget'
  <2>1. AwaitFile' = AwaitFile
    BY <1>1 DEF AwaitFile
  <2> QED BY <1>1, <2>1 DEF IInv, Budget
<1>7. Clocks'
  BY <1>1 DEF IInv, Clocks, PeriodOf
<1>8. FatalOnDisk'
  <2>1. disk' \in [Names -> Seq(LineNos)]
    BY <1>2 DEF FilesTyped, Names, LineNos
  <2>2. handed' \in Nat
    BY <1>3
  <2>3. \A m \in (1..handed') \ failed : \E n \in Names : Contains(disk'[n], m)
    BY <1>2, <1>3, <2>1, <2>2, HeldOnDisk
  <2> QED BY <1>1, <2>3 DEF FatalOnDisk, Names
<1> QED BY <1>2, <1>4, <1>5, <1>6, <1>7, <1>8 DEF IInv

\* addHandler of a FileHandler: a new file and an empty buffer.
LEMMA AddFileHandlerKeeps ==
    ASSUME IInv, AddFileHandler
    PROVE  IInv'
<1>1. /\ \A t \in Threads : pc[t].at = "idle"
      /\ died = FALSE /\ "file" \notin handlers
      /\ handlers' = handlers \cup {"file"}
      /\ disk' = disk /\ logFile' = GetFilename(clock)
      /\ written' = 0 /\ buffer' = <<>> /\ lineCount' = 0
      /\ lastRollTime' = clock /\ lastFlushTime' = clock
      /\ lastRollPeriod' = PeriodOf(clock)
      /\ UNCHANGED <<clock, pc, deathVars, lines, failed, since, setBacks>>
  BY DEF AddFileHandler, AllIdle, Idle, RollFile, Open, IInv, TypeOK
<1>2. /\ clock \in 1..MaxClock /\ logFile = NoFile /\ buffer = <<>>
      /\ clock \in 0..MaxClock
  BY <1>1, Constants DEF IInv, TypeOK, HandlersThere
<1>3. logFile' \in Names /\ lastRollPeriod' \in 0..MaxClock /\ logFile' # NoFile
  BY <1>1, <1>2, TimeNames, NamesAreNames
<1>4. disk' = FlushedDisk(buffer)
  BY <1>1, <1>2 DEF FlushedDisk
<1>5. FilesTyped' /\ FilesExact'
  BY <1>1, <1>4, FlushKeepsFiles
<1>6. TypeOK'
  <2>1. Len(buffer') <= BufferSize
    BY <1>1, EmptySeq, Constants
  <2>2. lineCount' \in 0..(FlushEveryNLine - 1)
    BY <1>1, Constants
  <2>3. handlers' \subseteq Handlers /\ written' \in Nat
        /\ {lastRollTime', lastFlushTime', lastRollPeriod', since'} \subseteq 0..MaxClock
    BY <1>1, <1>2, <1>3 DEF IInv, TypeOK, Handlers
  <2> QED BY <1>1, <1>3, <2>1, <2>2, <2>3 DEF IInv, TypeOK, Names, deathVars
<1>7. HandlersThere' /\ FatalRoute'
  BY <1>1, <1>3 DEF HandlersThere, FatalRoute, Handlers, Consoles
<1>8. Budget'
  <2>1. AwaitFile' = AwaitFile
    BY <1>1 DEF AwaitFile
  <2> QED BY <1>1, <2>1 DEF IInv, Budget
<1>9. Clocks'
  BY <1>1, <1>2 DEF Clocks, PeriodOf
<1>10. FatalOnDisk'
  BY <1>1, AliveFatal DEF deathVars
<1> QED BY <1>5, <1>6, <1>7, <1>8, <1>9, <1>10 DEF IInv

\* addHandler of a ConsoleHandler.
LEMMA AddConsoleHandlerKeeps ==
    ASSUME IInv, NEW c \in Consoles, AddConsoleHandler(c)
    PROVE  IInv'
<1>1. /\ \A t \in Threads : pc[t].at = "idle"
      /\ died = FALSE
      /\ handlers' = handlers \cup {c} /\ c \in Handlers /\ c # "file"
      /\ UNCHANGED <<clock, pc, fileVars, deathVars, setBacks>>
  BY DEF AddConsoleHandler, AllIdle, Idle, IInv, TypeOK, Handlers, Consoles
<1>2. UNCHANGED <<logFile, buffer, lines>>
  BY <1>1 DEF fileVars
<1>3. FilesTyped' /\ FilesExact'
  BY <1>1, FileVarsKept
<1>4. TypeOK'
  BY <1>1 DEF IInv, TypeOK, Names, fileVars, deathVars
<1>5. HandlersThere' /\ FatalRoute'
  BY <1>1, <1>2 DEF IInv, HandlersThere, FatalRoute
<1>6. Budget'
  <2>1. AwaitFile' = AwaitFile
    BY <1>1 DEF AwaitFile
  <2> QED BY <1>2, <2>1 DEF IInv, Budget
<1>7. Clocks'
  BY <1>1 DEF IInv, Clocks, fileVars, PeriodOf
<1>8. FatalOnDisk'
  BY <1>1, AliveFatal DEF deathVars
<1> QED BY <1>3, <1>4, <1>5, <1>6, <1>7, <1>8 DEF IInv

\* delHandler: a FileHandler's file is flushed and closed.
LEMMA DelHandlerKeeps ==
    ASSUME IInv, NEW h \in handlers, DelHandler(h)
    PROVE  IInv'
<1>1. /\ \A t \in Threads : pc[t].at = "idle"
      /\ died = FALSE
      /\ handlers' = handlers \ {h}
      /\ UNCHANGED <<clock, pc, deathVars, setBacks>>
  BY DEF DelHandler, AllIdle, Idle, IInv, TypeOK
<1>2. /\ FilesTyped' /\ FilesExact' /\ TypeOK' /\ Clocks' /\ lines' = lines
      /\ logFile' # NoFile <=> "file" \in handlers'
      /\ logFile' = NoFile => buffer' = <<>>
  <2>1. CASE h = "file"
    <3>1. /\ disk' = FlushedDisk(buffer) /\ buffer' = <<>>
          /\ logFile' = NoFile
          /\ UNCHANGED <<written, lineCount, lastRollTime, lastFlushTime,
                         lastRollPeriod, lines, failed, since>>
      BY <2>1 DEF DelHandler
    <3>2. FilesTyped' /\ FilesExact'
      BY <3>1, FlushKeepsFiles
    <3>3. Len(buffer') <= BufferSize
      BY <3>1, EmptySeq, Constants
    <3>4. TypeOK'
      BY <1>1, <3>1, <3>3 DEF IInv, TypeOK, Names, deathVars
    <3>5. Clocks'
      BY <1>1, <3>1 DEF IInv, Clocks, PeriodOf
    <3> QED BY <1>1, <2>1, <3>1, <3>2, <3>4, <3>5
  <2>2. CASE h # "file"
    <3>1. UNCHANGED fileVars
      BY <2>2 DEF DelHandler
    <3>2. FilesTyped' /\ FilesExact'
      BY <3>1, FileVarsKept
    <3>3. TypeOK' /\ Clocks'
      BY <1>1, <3>1 DEF IInv, TypeOK, Clocks, PeriodOf, Names, fileVars, deathVars
    <3>4. UNCHANGED <<logFile, buffer, lines>>
      BY <3>1 DEF fileVars
    <3> QED BY <1>1, <2>2, <3>2, <3>3, <3>4 DEF IInv, HandlersThere
  <2> QED BY <2>1, <2>2
<1>3. HandlersThere' /\ FatalRoute'
  BY <1>1, <1>2 DEF HandlersThere, FatalRoute, Handlers, Consoles
<1>4. Budget'
  <2>1. AwaitFile' = AwaitFile
    BY <1>1 DEF AwaitFile
  <2> QED BY <1>2, <2>1 DEF IInv, Budget
<1>5. FatalOnDisk'
  BY <1>1, AliveFatal DEF deathVars
<1> QED BY <1>2, <1>3, <1>4, <1>5 DEF IInv

\* The clock goes on, or is set back.
LEMMA ClockKeeps ==
    ASSUME IInv, Tick \/ SetBack
    PROVE  IInv'
<1>1. /\ died = FALSE
      /\ UNCHANGED <<handlers, pc, fileVars, deathVars>>
      /\ \/ clock < MaxClock /\ clock' = clock + 1 /\ setBacks' = setBacks
         \/ clock > 1 /\ clock' = clock - 1 /\ setBacks' = setBacks + 1
            /\ setBacks < MaxSetBacks
  BY DEF Tick, SetBack, IInv, TypeOK
<1>2. /\ clock \in 1..MaxClock /\ setBacks \in 0..MaxSetBacks
      /\ lastRollTime \in 0..MaxClock /\ lastFlushTime \in 0..MaxClock
      /\ MaxClock \in Nat /\ MaxSetBacks \in Nat
  BY Constants DEF IInv, TypeOK
<1>3. clock' \in 1..MaxClock /\ setBacks' \in 0..MaxSetBacks
  BY <1>1, <1>2
<1>4. FilesTyped' /\ FilesExact'
  BY <1>1, FileVarsKept
<1>5. TypeOK'
  BY <1>1, <1>3 DEF IInv, TypeOK, Names, fileVars, deathVars
<1>6. HandlersThere' /\ FatalRoute'
  BY <1>1 DEF IInv, HandlersThere, FatalRoute, fileVars
<1>7. Budget'
  <2>1. AwaitFile' = AwaitFile
    BY <1>1 DEF AwaitFile
  <2> QED BY <1>1, <2>1 DEF IInv, Budget, fileVars
<1>8. Clocks'
  <2>1. UNCHANGED <<lastRollTime, lastFlushTime, lastRollPeriod, buffer, since>>
    BY <1>1 DEF fileVars
  <2>2. setBacks' = 0 => setBacks = 0 /\ clock <= clock'
    BY <1>1, <1>2
  <2>3. setBacks' = 0 => lastRollTime' <= clock' /\ lastFlushTime' <= clock'
    BY <1>2, <1>3, <2>1, <2>2 DEF IInv, Clocks
  <2> QED BY <2>1, <2>2, <2>3 DEF IInv, Clocks, PeriodOf
<1>9. FatalOnDisk'
  BY <1>1, AliveFatal DEF deathVars
<1> QED BY <1>4, <1>5, <1>6, <1>7, <1>8, <1>9 DEF IInv

\* The invariant is inductive.
LEMMA InitInv == Init => IInv
<1> SUFFICES ASSUME Init PROVE IInv
  OBVIOUS
<1>1. TypeOK
  <2>1. Idle \in [at : Handlers \cup {"idle", "flush"},
                  level : Levels, line : 0..MaxLines]
    BY Constants DEF Idle, Levels, DEBUG
  <2>2. Len(buffer) <= BufferSize
    BY EmptySeq, Constants DEF Init
  <2>3. pc \in [Threads -> [at : Handlers \cup {"idle", "flush"},
                            level : Levels, line : 0..MaxLines]]
    BY <2>1 DEF Init
  <2>4. /\ 1 \in 1..MaxClock /\ 0 \in 0..MaxSetBacks /\ 0 \in Nat
        /\ 0 \in 0..(FlushEveryNLine - 1) /\ 0 \in 0..MaxLines
        /\ {0} \subseteq 0..MaxClock
    BY Constants
  <2>5. /\ clock \in 1..MaxClock /\ setBacks \in 0..MaxSetBacks
        /\ handlers \subseteq Handlers
        /\ logFile \in Names \cup {NoFile}
        /\ written \in Nat /\ lineCount \in 0..(FlushEveryNLine - 1)
    BY <2>4 DEF Init
  <2>6. {lastRollTime, lastFlushTime, lastRollPeriod, since} \subseteq 0..MaxClock
    BY <2>4 DEF Init
  <2>7. /\ lines \in 0..MaxLines /\ failed \subseteq 1..MaxLines
        /\ died \in BOOLEAN /\ handed \in 0..MaxLines
    BY <2>4 DEF Init
  <2> QED BY <2>2, <2>3, <2>5, <2>6, <2>7 DEF TypeOK
<1>2. <<>> \in Seq(LineNos)
  BY EmptySeq
<1>3. FilesTyped
  BY <1>2 DEF Init, FilesTyped
<1>4. HandlersThere /\ FatalRoute
  BY DEF Init, HandlersThere, FatalRoute, Idle, Handlers, Consoles
<1>5. Budget
  <2>1. AwaitFile = {}
    BY DEF Init, AwaitFile, Idle
  <2> QED BY <2>1, FS_EmptySet, Constants DEF Init, Budget
<1>6. FilesExact
  <2>1. \A n \in Names : Files[n] = <<>>
    BY NamesAreNames DEF Init, Files, Lines
  <2>2. \A n \in Names : ToSet(Files[n]) = {} /\ DOMAIN Files[n] = {}
    BY <2>1 DEF ToSet
  <2>3. (1..lines) \ failed = {} /\ failed \subseteq 1..lines
    BY DEF Init
  <2> QED BY <2>2, <2>3 DEF FilesExact, Holds
<1>7. Clocks
  BY Constants DEF Init, Clocks, PeriodOf
<1>8. FatalOnDisk
  BY DEF Init, FatalOnDisk
<1> QED BY <1>1, <1>3, <1>4, <1>5, <1>6, <1>7, <1>8 DEF IInv

\* Every step keeps the invariant.
LEMMA NextInv == IInv /\ [Next]_vars => IInv'
<1> SUFFICES ASSUME IInv, [Next]_vars PROVE IInv'
  OBVIOUS
<1>1. CASE Next
  <2>1. ASSUME NEW t \in Threads, ThreadStep(t) PROVE IInv'
    BY <2>1, WriteConsoleKeeps, WriteFileKeeps, FlushAndAbortKeeps DEF ThreadStep
  <2>2. ASSUME NEW t \in Threads, NEW level \in Levels, Write(t, level) PROVE IInv'
    BY <2>2, WriteKeeps
  <2>3. ASSUME NEW h \in handlers, DelHandler(h) PROVE IInv'
    BY <2>3, DelHandlerKeeps
  <2>4. ASSUME NEW c \in Consoles, AddConsoleHandler(c) PROVE IInv'
    BY <2>4, AddConsoleHandlerKeeps
  <2> QED BY <1>1, <2>1, <2>2, <2>3, <2>4, AddFileHandlerKeeps, ClockKeeps DEF Next
<1>2. CASE UNCHANGED vars
  <2>1. UNCHANGED <<clock, handlers, pc, fileVars, deathVars, setBacks>>
    BY <1>2 DEF vars
  <2>2. FilesTyped' /\ FilesExact'
    BY <2>1, FileVarsKept
  <2>3. AwaitFile' = AwaitFile
    BY <2>1 DEF AwaitFile
  <2>4. TypeOK' /\ Clocks'
    BY <2>1 DEF IInv, TypeOK, Clocks, PeriodOf, Names, fileVars, deathVars
  <2>5. HandlersThere' /\ FatalRoute' /\ Budget'
    BY <2>1, <2>3 DEF IInv, HandlersThere, FatalRoute, Budget, fileVars
  <2>6. FatalOnDisk => FatalOnDisk'
    BY <2>1 DEF FatalOnDisk, Names, fileVars, deathVars
  <2> QED BY <2>2, <2>4, <2>5, <2>6 DEF IInv
<1> QED BY <1>1, <1>2

---------------------------------------------------------------------------
(* The theorems.                                                           *)

\* FileHandler: rolling, flushing, closing and opening again lose and repeat no
\* line fwrite took, and keep the order within each file, whatever the names of
\* the files and however the clock is set.
THEOREM LoggerLinesKept == Spec => []LinesKept
<1>1. IInv => LinesKept
  <2> SUFFICES ASSUME IInv PROVE LinesKept
    OBVIOUS
  <2>1. \A n \in Names : Files[n] = Lines(n)
    BY DEF Files
  <2>2. Holds(Files, lines, failed)
    BY DEF IInv, FilesExact
  <2>3. UNION {ToSet(Lines(n)) : n \in Names} = UNION {ToSet(Files[n]) : n \in Names}
    BY <2>1
  <2> QED BY <2>1, <2>2, <2>3 DEF IInv, LinesKept, Holds
<1> QED BY <1>1, InitInv, NextInv, PTL DEF Spec

\* When a FATAL line ends the process and no ConsoleHandler comes before the
\* FileHandler in handlers_, the lines up to it are on disk.
THEOREM LoggerFatalOnDisk == Spec => []FatalOnDisk
<1>1. IInv => FatalOnDisk
  BY DEF IInv
<1> QED BY <1>1, InitInv, NextInv, PTL DEF Spec

\* A line is handed to the FileHandler by append alone.
LEMMA LinesGrow ==
    ASSUME IInv, Next, lines' # lines
    PROVE  /\ \E ok \in BOOLEAN : AppendLine(ok)
           /\ lines < MaxLines /\ clock' = clock /\ setBacks' = setBacks
<1>1. ASSUME NEW t \in Threads, ThreadStep(t)
      PROVE  \E ok \in BOOLEAN : WriteFile(t, ok)
  BY <1>1 DEF ThreadStep, WriteConsole, FlushAndAbort, fileVars
<1>2. PICK t \in Threads : \E ok \in BOOLEAN : WriteFile(t, ok)
  BY <1>1 DEF Next, Write, AddFileHandler, AddConsoleHandler, DelHandler, Tick,
              SetBack, fileVars
<1>3. PICK ok \in BOOLEAN : WriteFile(t, ok)
  BY <1>2
<1>4. lines < MaxLines
  BY <1>3, RoomForLine DEF WriteFile
<1> QED BY <1>3, <1>4 DEF WriteFile, fileVars

\* append: the file is below fileRollSize_ unless it was opened this second, and
\* at every flushEveryNLine_-th line nothing in the buffer is older than
\* flushInterval_ if the clock was never set back.
THEOREM LoggerRollsAndFlushes == Spec => RollsAndFlushes
<1> DEFINE A == lines' # lines =>
         /\ clock > lastRollTime => written' < FileRollSize
         /\ lineCount' = 0 /\ written' < FileRollSize /\ setBacks = 0
               => buffer' = <<>> \/ clock - since' <= FlushInterval
<1>1. IInv /\ [Next]_vars => [A]_vars
  <2> SUFFICES ASSUME IInv, Next, lines' # lines
               PROVE  /\ clock > lastRollTime => written' < FileRollSize
                      /\ lineCount' = 0 /\ written' < FileRollSize /\ setBacks = 0
                           => buffer' = <<>> \/ clock - since' <= FlushInterval
    OBVIOUS
  <2>1. PICK ok \in BOOLEAN : AppendLine(ok)
    BY LinesGrow
  <2> DEFINE m == lines + 1
             spill == ok /\ Len(buffer) = BufferSize
             kept == IF spill THEN <<>> ELSE buffer
             b == IF ok THEN Append(kept, m) ELSE kept
             d == IF spill THEN FlushedDisk(buffer) ELSE disk
             w == IF ok THEN written + 1 ELSE written
             e == [d EXCEPT ![logFile] = @ \o b]
             rolls == Due(w) = "roll" /\ clock > lastRollTime
             flushes == Due(w) = "flush"
  <2>2. /\ since' = IF kept = <<>> THEN clock ELSE since
        /\ lineCount' = NextLineCount(w)
        /\ rolls => RollFile(e)
        /\ ~rolls => /\ written' = w
                     /\ buffer' = IF flushes THEN <<>> ELSE b
    BY <2>1, Zenon DEF AppendLine
  <2>3. /\ clock \in Nat /\ lastRollTime \in Nat /\ lastFlushTime \in Nat
        /\ since \in Nat /\ written \in Nat
        /\ lineCount \in 0..(FlushEveryNLine - 1)
    BY DEF IInv, TypeOK
  <2>4. w \in Nat /\ (kept # <<>> => buffer # <<>>)
    BY <2>3
  <2> HIDE DEF b, d, e, kept, w
  <2>5. CASE rolls
    <3>1. written' = 0 /\ buffer' = <<>>
      BY <2>2, <2>5 DEF RollFile
    <3> QED BY <3>1, Constants
  <2>6. CASE ~rolls
    <3>1. written' = w /\ buffer' = IF flushes THEN <<>> ELSE b
      BY <2>2, <2>6
    <3>2. clock > lastRollTime => w < FileRollSize
      BY <2>3, <2>4, <2>6, Constants DEF Due
    <3>3. ASSUME lineCount' = 0, w < FileRollSize, setBacks = 0, ~flushes
          PROVE  clock - since' <= FlushInterval
      <4>1. (lineCount + 1) % FlushEveryNLine = 0
        BY <2>2, <2>4, <3>3, Constants DEF NextLineCount
      <4>2. lineCount + 1 >= FlushEveryNLine
        BY <2>3, <4>1, Constants
      <4>3. Due(w) = IF PeriodOf(clock) # lastRollPeriod THEN "roll"
                     ELSE IF clock - lastFlushTime > FlushInterval THEN "flush"
                     ELSE "nothing"
        BY <2>3, <2>4, <3>3, <4>2, Constants DEF Due
      <4>4. /\ lastRollPeriod = PeriodOf(lastRollTime)
            /\ lastRollTime <= clock
            /\ buffer # <<>> => lastFlushTime <= since
            /\ lastFlushTime <= clock
        BY <3>3 DEF IInv, Clocks
      <4>5. PeriodOf(clock) = lastRollPeriod
        BY <2>3, <2>6, <4>3, <4>4
      <4>6. ~(clock - lastFlushTime > FlushInterval)
        BY <3>3, <4>3, <4>5
      <4>7. lastFlushTime <= since'
        BY <2>2, <2>4, <4>4
      <4>8. since' \in Nat
        BY <2>2, <2>3
      <4>9. clock \in Nat /\ lastFlushTime \in Nat /\ FlushInterval \in Nat
        BY <2>3, Constants
      <4> HIDE DEF rolls, flushes
      <4>10. \A c \in Nat : lastFlushTime <= c => clock - c <= FlushInterval
        BY <4>6, <4>9
      <4> QED BY <4>7, <4>8, <4>10
    <3> QED BY <3>1, <3>2, <3>3
  <2> QED BY <2>5, <2>6
<1>2. Spec => []IInv
  BY InitInv, NextInv, PTL DEF Spec
<1> QED BY <1>1, <1>2, PTL DEF Spec, RollsAndFlushes
=============================================================================
