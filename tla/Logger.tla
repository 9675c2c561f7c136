------------------------------- MODULE Logger -------------------------------
(***************************************************************************)
(* stnl::Logger with a FileHandler and ConsoleHandlers whose names sort    *)
(* before and after the FileHandler's: threads hand log lines to the       *)
(* handlers in the order of their names, and the FileHandler buffers,      *)
(* flushes and rolls its file by size and by period.                       *)
(* asyncLogger_ is not set; with it, write() only calls                    *)
(* AsyncLogging::append, which is module AsyncLogging.                     *)
(* A line is its number in the order in which the FileHandler gets them,   *)
(* and counts one towards the sizes.                                       *)
(***************************************************************************)
EXTENDS Integers, Sequences, FiniteSets, SequencesExt

CONSTANTS
    Threads,
    FileRollSize,       \* fileRollSize_
    FlushEveryNLine,    \* flushEveryNLine_
    FlushInterval,      \* flushInterval_, in seconds
    BufferSize,         \* LogFileBufferSize
    Minute, Period,     \* seconds in a minute, rollPeriodPerSeconds_
    MaxLines,           \* bound: lines the FileHandler gets
    MaxClock,           \* bound on time()
    MaxSetBacks,        \* bound: how often the clock is set back
    MaxErrors           \* bound: lines fwrite fails to take

ASSUME LoggerAssumption ==
    /\ IsFiniteSet(Threads)
    /\ {FileRollSize, FlushEveryNLine, BufferSize, Minute, Period, MaxClock}
       \subseteq Nat \ {0}
    /\ {FlushInterval, MaxLines, MaxSetBacks, MaxErrors} \subseteq Nat

VARIABLES
    clock,          \* time(NULL)
    handlers,       \* handlers_
    pc,             \* the line a thread is writing and the handler it is at
    logFile,        \* the file of logFile_: its name, or NoFile
    written,        \* writtenBytes_ of logFile_
    buffer,         \* lines in the stdio buffer of logFile_
    lineCount,      \* lineCount_
    lastRollTime, lastFlushTime, lastRollPeriod,
    disk,           \* the lines in each file
    died,           \* the process aborted
    handed,         \* history: how many lines the FileHandler had got then
    lines,          \* history: how many lines the FileHandler got
    failed,         \* history: lines fwrite did not take
    since,          \* history: when the first line in buffer was put there
    setBacks        \* history: how often the clock was set back

fileVars == <<logFile, written, buffer, lineCount, lastRollTime,
              lastFlushTime, lastRollPeriod, disk, lines, failed, since>>
deathVars == <<died, handed>>
vars == <<clock, handlers, pc, fileVars, deathVars, setBacks>>

\* LogLevel: below the level of the handlers, at it, and FATAL.
DEBUG == 0
INFO == 1
FATAL == 2
Levels == {DEBUG, INFO, FATAL}

Idle == [at |-> "idle", level |-> DEBUG, line |-> 0]
NoFile == -1

\* getFilename: the name tells files apart by the minute.
GetFilename(now) == now \div Minute
Names == 0..(MaxClock \div Minute)
PeriodOf(now) == (now \div Period) * Period

Init ==
    /\ clock = 1
    /\ handlers = {}
    /\ pc = [t \in Threads |-> Idle]
    /\ logFile = NoFile /\ written = 0 /\ buffer = <<>> /\ lineCount = 0
    /\ lastRollTime = 0 /\ lastFlushTime = 0 /\ lastRollPeriod = 0
    /\ disk = [n \in Names |-> <<>>]
    /\ died = FALSE /\ handed = 0
    /\ lines = 0 /\ failed = {} /\ since = 0 /\ setBacks = 0

---------------------------------------------------------------------------
(* LogFile and FileHandler.                                                *)

\* The lines on disk once what is in buffer b has been written out.
FlushedDisk(b) ==
    IF logFile = NoFile THEN disk ELSE [disk EXCEPT ![logFile] = @ \o b]

\* Mutant: the new file is opened for writing, not for appending.
OpenTruncating(d) == [d EXCEPT ![GetFilename(clock)] = <<>>]

\* LogFile's constructor opens with "ae": an existing file keeps its lines.
Open(d) == d

\* rollFile past its test: a new LogFile; closing the old one leaves d on disk.
RollFile(d) ==
    /\ disk' = Open(d)
    /\ logFile' = GetFilename(clock)
    /\ written' = 0 /\ buffer' = <<>>
    /\ lastRollTime' = clock /\ lastFlushTime' = clock
    /\ lastRollPeriod' = PeriodOf(clock)

\* Mutant: the period is compared, the size is not.
DueNotBySize(w) ==
    IF lineCount + 1 < FlushEveryNLine THEN "nothing"
    ELSE IF PeriodOf(clock) # lastRollPeriod THEN "roll"
    ELSE IF clock - lastFlushTime > FlushInterval THEN "flush"
    ELSE "nothing"

\* append(): what is due once the file has w lines.
Due(w) ==
    IF w >= FileRollSize THEN "roll"
    ELSE IF lineCount + 1 < FlushEveryNLine THEN "nothing"
    ELSE IF PeriodOf(clock) # lastRollPeriod THEN "roll"
    ELSE IF clock - lastFlushTime > FlushInterval THEN "flush"
    ELSE "nothing"

\* append(): lineCount_ once the file has w lines.
NextLineCount(w) ==
    IF w >= FileRollSize THEN lineCount
    ELSE (lineCount + 1) % FlushEveryNLine

\* FileHandler::append(context) for the next line, under mutex_.  stdio writes
\* a full buffer out first; the line is lost if fwrite fails.
AppendLine(ok) ==
    LET m == lines + 1
        spill == ok /\ Len(buffer) = BufferSize
        kept == IF spill THEN <<>> ELSE buffer
        b == IF ok THEN Append(kept, m) ELSE kept
        d == IF spill THEN FlushedDisk(buffer) ELSE disk
        w == IF ok THEN written + 1 ELSE written
        due == Due(w)
    IN
    /\ lines' = m
    /\ failed' = IF ok THEN failed ELSE failed \cup {m}
    /\ since' = IF kept = <<>> THEN clock ELSE since
    /\ lineCount' = NextLineCount(w)
    /\ IF due = "roll" /\ clock > lastRollTime
       THEN RollFile([d EXCEPT ![logFile] = @ \o b])
       ELSE /\ written' = w
            /\ buffer' = IF due = "flush" THEN <<>> ELSE b
            /\ disk' = IF due = "flush" THEN [d EXCEPT ![logFile] = @ \o b]
                                        ELSE d
            /\ lastFlushTime' = IF due = "flush" THEN clock ELSE lastFlushTime
            /\ UNCHANGED <<logFile, lastRollTime, lastRollPeriod>>

---------------------------------------------------------------------------
(* Logger: the thread's way through handlers_.                             *)

\* The order of handlers_, a std::map by name: a ConsoleHandler that comes before
\* the FileHandler, as "Console Logger" does before "File Logger", the
\* FileHandler, and a ConsoleHandler that comes after it.
Order == <<"before", "file", "after">>
Consoles == {"before", "after"}
Handlers == Consoles \cup {"file"}

\* The handler a thread is at after those before position i.
HandlerFrom(i, H) ==
    LET later == {j \in i..Len(Order) : Order[j] \in H}
    IN IF later = {} THEN "idle"
       ELSE Order[CHOOSE j \in later : \A k \in later : j <= k]

NextHandler(h) ==
    HandlerFrom(1 + CHOOSE i \in DOMAIN Order : Order[i] = h, handlers)

\* The thread is done with handler h.
Proceed(t) ==
    pc' = [pc EXCEPT ![t] = IF NextHandler(pc[t].at) = "idle" THEN Idle
                            ELSE [@ EXCEPT !.at = NextHandler(pc[t].at)]]

AllIdle == \A t \in Threads : pc[t] = Idle

\* ~LogRecorder: Logger::write and handlerWrite, which adds a ConsoleHandler if
\* there is no handler; a FileHandler added later may have a name on either side
\* of "DefaultConsoleHandler".  handlers_ has no lock: nobody else uses it then.
Write(t, level) ==
    /\ pc[t] = Idle /\ ~died
    /\ lines + Cardinality({u \in Threads : pc[u] # Idle}) < MaxLines
    /\ handlers = {} => AllIdle
    /\ \E c \in Consoles : handlers' = IF handlers = {} THEN {c} ELSE handlers
    /\ pc' = [pc EXCEPT ![t] = [at |-> HandlerFrom(1, handlers'),
                                level |-> level, line |-> 0]]
    /\ UNCHANGED <<clock, fileVars, deathVars, setBacks>>

\* ConsoleHandler::write.
WriteConsole(t) ==
    /\ pc[t].at \in Consoles /\ ~died
    /\ IF pc[t].level = FATAL
       THEN died' = TRUE /\ handed' = lines /\ UNCHANGED pc
       ELSE Proceed(t) /\ UNCHANGED deathVars
    /\ UNCHANGED <<clock, handlers, fileVars, setBacks>>

\* FileHandler::write, but for what it does after a FATAL line.
WriteFile(t, ok) ==
    /\ pc[t].at = "file" /\ ~died
    /\ ok \/ Cardinality(failed) < MaxErrors
    /\ IF pc[t].level < INFO
       THEN Proceed(t) /\ UNCHANGED fileVars
       ELSE /\ AppendLine(ok)
            /\ IF pc[t].level = FATAL
               THEN pc' = [pc EXCEPT ![t].at = "flush", ![t].line = lines']
               ELSE Proceed(t)
    /\ UNCHANGED <<clock, handlers, deathVars, setBacks>>

\* Mutant: abort() without flush().
AbortNoFlush(t) ==
    /\ pc[t].at = "flush" /\ ~died
    /\ died' = TRUE /\ handed' = pc[t].line
    /\ UNCHANGED <<clock, handlers, pc, setBacks, fileVars>>

\* The end of FileHandler::write of a FATAL line: flush() and abort().
FlushAndAbort(t) ==
    /\ pc[t].at = "flush" /\ ~died
    /\ disk' = FlushedDisk(buffer)
    /\ buffer' = <<>>
    /\ died' = TRUE /\ handed' = pc[t].line
    /\ UNCHANGED <<clock, handlers, pc, logFile, written, lineCount,
                   lastRollTime, lastFlushTime, lastRollPeriod, lines, failed,
                   since, setBacks>>

\* addHandler of a new FileHandler, whose constructor rolls.  emplace ignores a
\* handler whose name is there.
AddFileHandler ==
    /\ AllIdle /\ ~died /\ "file" \notin handlers
    /\ handlers' = handlers \cup {"file"}
    /\ RollFile(disk)
    /\ lineCount' = 0
    /\ UNCHANGED <<clock, pc, deathVars, lines, failed, since, setBacks>>

AddConsoleHandler(c) ==
    /\ AllIdle /\ ~died /\ c \notin handlers
    /\ handlers' = handlers \cup {c}
    /\ UNCHANGED <<clock, pc, fileVars, deathVars, setBacks>>

\* delHandler; the FileHandler closes its file.
DelHandler(h) ==
    /\ AllIdle /\ ~died /\ h \in handlers
    /\ handlers' = handlers \ {h}
    /\ IF h = "file"
       THEN /\ disk' = FlushedDisk(buffer) /\ buffer' = <<>>
            /\ logFile' = NoFile
            /\ UNCHANGED <<written, lineCount, lastRollTime, lastFlushTime,
                           lastRollPeriod, lines, failed, since>>
       ELSE UNCHANGED fileVars
    /\ UNCHANGED <<clock, pc, deathVars, setBacks>>

Tick ==
    /\ clock < MaxClock /\ ~died
    /\ clock' = clock + 1
    /\ UNCHANGED <<handlers, pc, fileVars, deathVars, setBacks>>

SetBack ==
    /\ setBacks < MaxSetBacks /\ clock > 1 /\ ~died
    /\ clock' = clock - 1
    /\ setBacks' = setBacks + 1
    /\ UNCHANGED <<handlers, pc, fileVars, deathVars>>

---------------------------------------------------------------------------
ThreadStep(t) ==
    \/ WriteConsole(t)
    \/ \E ok \in BOOLEAN : WriteFile(t, ok)
    \/ FlushAndAbort(t)

Next ==
    \/ \E t \in Threads : ThreadStep(t) \/ \E level \in Levels : Write(t, level)
    \/ AddFileHandler
    \/ \E c \in Consoles : AddConsoleHandler(c)
    \/ \E h \in handlers : DelHandler(h)
    \/ Tick \/ SetBack

Spec == Init /\ [][Next]_vars

---------------------------------------------------------------------------
(* Properties.                                                             *)

\* The type of every variable.
TypeOK ==
    /\ clock \in 1..MaxClock /\ setBacks \in 0..MaxSetBacks
    /\ handlers \subseteq Handlers
    /\ pc \in [Threads -> [at : Handlers \cup {"idle", "flush"},
                           level : Levels, line : 0..MaxLines]]
    /\ logFile \in Names \cup {NoFile}
    /\ written \in Nat /\ Len(buffer) <= BufferSize
    /\ lineCount \in 0..(FlushEveryNLine - 1)
    /\ {lastRollTime, lastFlushTime, lastRollPeriod, since} \subseteq 0..MaxClock
    /\ lines \in 0..MaxLines /\ failed \subseteq 1..MaxLines
    /\ died \in BOOLEAN /\ handed \in 0..MaxLines

\* What a file holds, with what is on its way there.
Lines(n) == IF n = logFile THEN disk[n] \o buffer ELSE disk[n]

\* Rolling loses and repeats nothing, also when the new file has the old one's
\* name because the minute, or after the clock was set back an earlier minute,
\* is not over: each line fwrite took is in one file, and each file is in order.
LinesKept ==
    /\ TypeOK
    /\ UNION {ToSet(Lines(n)) : n \in Names} = (1..lines) \ failed
    /\ \A m, n \in Names : m # n => ToSet(Lines(m)) \cap ToSet(Lines(n)) = {}
    /\ \A n \in Names : \A i, j \in DOMAIN Lines(n) :
          i < j => Lines(n)[i] < Lines(n)[j]

\* When a FATAL line ends the process, the lines the FileHandler got up to it
\* are on disk, whatever other threads write or roll at the same time, unless a
\* ConsoleHandler comes before the FileHandler in handlers_: that one aborts
\* before the FileHandler has got the line and without a flush of its file.
FatalOnDisk ==
    died /\ "before" \notin handlers =>
        \A m \in (1..handed) \ failed : \E n \in Names : Contains(disk[n], m)

\* A file grows past fileRollSize_ only within the second it was opened in, or
\* after the clock was set back; and every flushEveryNLine_-th line of a file
\* leaves nothing in the buffer that is older than flushInterval_, if the clock
\* is not set back.
RollsAndFlushes ==
    [][lines' # lines =>
         /\ clock > lastRollTime => written' < FileRollSize
         /\ lineCount' = 0 /\ written' < FileRollSize /\ setBacks = 0
               => buffer' = <<>> \/ clock - since' <= FlushInterval]_vars

=============================================================================
