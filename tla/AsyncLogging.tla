---------------------------- MODULE AsyncLogging ----------------------------
(***************************************************************************)
(* gg_lib::AsyncLogging: threads append log lines to a buffer under a      *)
(* mutex, and the logger thread exchanges the full buffers for empty ones  *)
(* and writes them to the log file.  Four buffers go round: two in front,  *)
(* two in the hands of the logger; more are made when lines come faster    *)
(* than they are written, and if there are too many all but two of a batch *)
(* are dropped.  The files are module LogFile's.                           *)
(*                                                                         *)
(* A line is its number in the order of append(); all lines have the same  *)
(* length.  What is done with mutex_ held is one step.  The clock that     *)
(* LogFile reads is the system's, which may be set: any reading may show   *)
(* any of the times.                                                       *)
(***************************************************************************)
EXTENDS Naturals, Sequences, SequencesExt

CONSTANTS
  Capacity,        \* lines that fit into a buffer
  MaxToWrite,      \* more buffers than this are not written: 16 in the code
  MaxLines,        \* bound: lines appended
  RollSize, Period, FlushInterval,   \* of LogFile
  Times,           \* bound: what the clock may show
  MaxFailures,     \* bound: how often fwrite fails
  null             \* a BufferPtr that points to nothing

ASSUME LoggingAssumption ==
  /\ Capacity \in Nat \ {0}
  /\ MaxToWrite \in Nat \ {0, 1}
  /\ MaxLines \in Nat
  /\ RollSize \in Nat /\ FlushInterval \in Nat
  /\ Period \in Nat \ {0}
  /\ Times \subseteq Nat \ {0}
  /\ MaxFailures \in Nat
  /\ null \notin Seq(Nat)

VARIABLES
  running_, currentBuffer_, nextBuffer_, buffers_,
  Buffer1, Buffer2, toWrite,    \* the locals of threadFunc
  pc,              \* where the logger thread is
  owner,           \* how far start() and stop() are
  next,            \* the buffer of toWrite that is written next
  numLines,        \* lines appended so far
  output,          \* the LogFile
  appendTime,      \* the time it last read, by the end of an append
  dropped,         \* lines dropped because there were too many buffers
  lost,            \* lines lost because the file failed
  failures         \* how often fwrite failed

vars == <<running_, currentBuffer_, nextBuffer_, buffers_, Buffer1, Buffer2, toWrite, pc, owner,
          next, numLines, output, appendTime, dropped, lost, failures>>
front == <<currentBuffer_, nextBuffer_, buffers_, numLines>>
back == <<Buffer1, Buffer2, toWrite, next>>
faults == <<lost, failures>>
written == <<output, appendTime, dropped, faults>>

Log == INSTANCE LogFile

Notice == 0        \* the line that says that lines were dropped

Init ==
  /\ running_ = FALSE
  /\ currentBuffer_ = <<>>
  /\ nextBuffer_ = <<>>
  /\ buffers_ = <<>>
  /\ Buffer1 = null
  /\ Buffer2 = null
  /\ toWrite = <<>>
  /\ pc = "none"
  /\ owner = "new"
  /\ next = 1
  /\ numLines = 0
  /\ output = [names |-> <<>>, files |-> <<>>]
  /\ appendTime = 0
  /\ dropped = {}
  /\ lost = {}
  /\ failures = 0

\* cond_.notify_one(): only the logger thread ever waits.
Notify == pc' = IF pc = "waiting" THEN "woken" ELSE pc

-----------------------------------------------------------------------------
(* The front end.                                                          *)

\* append: at the end of the current buffer, or in the next or a new one.
append ==
  /\ numLines < MaxLines
  /\ numLines' = numLines + 1
  /\ IF Len(currentBuffer_) < Capacity
       THEN /\ currentBuffer_' = Append(currentBuffer_, numLines')
            /\ UNCHANGED <<nextBuffer_, buffers_, pc>>
       ELSE /\ buffers_' = Append(buffers_, currentBuffer_)
            /\ currentBuffer_' = Append(IF nextBuffer_ # null THEN nextBuffer_ ELSE <<>>, numLines')
            /\ nextBuffer_' = null
            /\ Notify
  /\ UNCHANGED <<running_, back, owner, written>>

-----------------------------------------------------------------------------
(* start and stop.                                                         *)

\* start up to latch_.wait().
start ==
  /\ owner = "new"
  /\ owner' = "starting"
  /\ running_' = TRUE
  /\ pc' = "begin"
  /\ UNCHANGED <<front, back, written>>

stop ==
  /\ owner = "started"
  /\ owner' = "stopping"
  /\ running_' = FALSE
  /\ UNCHANGED <<pc, front, back, written>>

\* The notify_one of stop, made without the mutex.
stopNotifies ==
  /\ owner = "stopping"
  /\ owner' = "joining"
  /\ Notify
  /\ UNCHANGED <<running_, front, back, written>>

\* thread_.join().
stopJoins ==
  /\ owner = "joining"
  /\ pc = "done"
  /\ owner' = "stopped"
  /\ UNCHANGED <<running_, pc, front, back, written>>

-----------------------------------------------------------------------------
(* threadFunc.                                                             *)

\* latch_.countDown(), the LogFile and the two buffers of the logger.
Begin ==
  /\ pc = "begin"
  /\ pc' = "loop"
  /\ owner' = "started"
  /\ \E now \in Times : output' = Log!Opened(now) /\ appendTime' = now
  /\ Buffer1' = <<>>
  /\ Buffer2' = <<>>
  /\ UNCHANGED <<running_, toWrite, next, front, dropped, faults>>

\* The test of the while loop, and the flush after its end.
CheckRunning ==
  /\ pc = "loop"
  /\ pc' = IF running_ THEN "lock" ELSE "done"
  /\ output' = IF running_ THEN output ELSE Log!flush(output)
  /\ UNCHANGED <<running_, owner, front, back, appendTime, dropped, faults>>

\* Nothing is full: wait_for.
Wait ==
  /\ pc = "lock"
  /\ buffers_ = <<>>
  /\ pc' = "waiting"
  /\ UNCHANGED <<running_, owner, front, back, written>>

\* A faulty wait without a time limit.
Timeout_Never == FALSE

\* flushInterval_ is over.
Timeout ==
  /\ pc = "waiting"
  /\ pc' = "woken"
  /\ UNCHANGED <<running_, owner, front, back, written>>

\* A faulty exchange that hands over the second buffer although it is not needed.
SpareBuffer_Always ==
  /\ nextBuffer_' = Buffer2
  /\ Buffer2' = null

\* A new next buffer, if append has used it.
SpareBuffer ==
  IF nextBuffer_ = null
    THEN nextBuffer_' = Buffer2 /\ Buffer2' = null
    ELSE UNCHANGED <<nextBuffer_, Buffer2>>

\* The buffers are exchanged, the current one included, however little it holds.
Swap ==
  /\ pc = "woken" \/ (pc = "lock" /\ buffers_ # <<>>)
  /\ toWrite' = Append(buffers_, currentBuffer_)
  /\ buffers_' = <<>>
  /\ currentBuffer_' = Buffer1
  /\ Buffer1' = null
  /\ SpareBuffer
  /\ next' = 1
  /\ pc' = "drop"
  /\ UNCHANGED <<running_, owner, numLines, written>>

TooMany == Len(toWrite) > MaxToWrite

\* output.append(...), of which n lines are written, none if the file has failed.
Written(lines, n) ==
  /\ n < Len(lines) => failures < MaxFailures
  /\ failures' = IF n < Len(lines) /\ ~output.err_ THEN failures + 1 ELSE failures
  /\ \E now, again \in Times :
       /\ output' = Log!append_unlocked(output, lines, n, now, again)
       /\ appendTime' = IF Log!Rolls(Log!file_append(output, lines, n), now) THEN again ELSE now
  /\ lost' = lost \cup ToSet(SubSeq(lines, IF output.err_ THEN 1 ELSE n + 1, Len(lines)))

\* A faulty drop that says nothing.
Drop_Silent ==
  /\ pc = "drop"
  /\ pc' = "write"
  /\ toWrite' = IF TooMany THEN SubSeq(toWrite, 1, 2) ELSE toWrite
  /\ dropped' = IF TooMany THEN dropped \cup ToSet(FlattenSeq(SubSeq(toWrite, 3, Len(toWrite))))
                           ELSE dropped
  /\ UNCHANGED <<running_, owner, next, front, Buffer1, Buffer2, output, appendTime, faults>>

\* Of too many buffers all but the first two are dropped.
Drop ==
  /\ pc = "drop"
  /\ pc' = "write"
  /\ IF TooMany
       THEN /\ toWrite' = SubSeq(toWrite, 1, 2)
            /\ dropped' = dropped \cup ToSet(FlattenSeq(SubSeq(toWrite, 3, Len(toWrite))))
            /\ \E n \in 0..1 : Written(<<Notice>>, n)
       ELSE UNCHANGED <<toWrite, written>>
  /\ UNCHANGED <<running_, owner, next, front, Buffer1, Buffer2>>

\* The for loop writes its next buffer.
Write ==
  /\ pc = "write"
  /\ next <= Len(toWrite)
  /\ \E n \in 0..Len(toWrite[next]) : Written(toWrite[next], n)
  /\ next' = next + 1
  /\ UNCHANGED <<running_, pc, owner, front, Buffer1, Buffer2, toWrite, dropped>>

\* The last of the first two buffers written becomes the first spare one, and the
\* one before it the second; they are taken from the end and emptied.  The file is
\* flushed.
Refill ==
  LET two == SubSeq(toWrite, 1, IF Len(toWrite) > 2 THEN 2 ELSE Len(toWrite))
      rest == IF Buffer1 = null THEN SubSeq(two, 1, Len(two) - 1) ELSE two
  IN
  /\ pc = "write"
  /\ next > Len(toWrite)
  /\ pc' = "loop"
  /\ Buffer1' = IF Buffer1 # null THEN Buffer1 ELSE IF two = <<>> THEN null ELSE <<>>
  /\ Buffer2' = IF Buffer2 # null THEN Buffer2 ELSE IF rest = <<>> THEN null ELSE <<>>
  /\ toWrite' = <<>>
  /\ output' = Log!flush(output)
  /\ UNCHANGED <<running_, owner, next, front, appendTime, dropped, faults>>

-----------------------------------------------------------------------------

Logger == Begin \/ CheckRunning \/ Wait \/ Timeout \/ Swap \/ Drop \/ Write \/ Refill

Owner == start \/ stop \/ stopNotifies \/ stopJoins

Next == append \/ Owner \/ Logger

Spec == Init /\ [][Next]_vars

\* The logger thread runs, its waits end, and a stop() that was begun goes on.
Fairness == WF_vars(Logger) /\ WF_vars(stopNotifies) /\ WF_vars(stopJoins)

FairSpec == Spec /\ Fairness

-----------------------------------------------------------------------------
(* Correctness.                                                            *)

Lines == 1..MaxLines

\* The logger has two empty buffers to give whenever it is about to exchange
\* them, nothing is left to write then, and there is something to write and to
\* empty afterwards (the assertions of threadFunc, AsyncLogging.cc:57-59, 73, 95,
\* 102): append() never finds currentBuffer_ null.
BuffersGoRound ==
  /\ pc \in {"loop", "lock", "waiting", "woken"} =>
       Buffer1 = <<>> /\ Buffer2 = <<>> /\ toWrite = <<>>
  /\ pc \in {"drop", "write"} =>
       /\ Buffer1 = null
       /\ Len(toWrite) >= (IF Buffer2 = null THEN 2 ELSE 1)

Logged == FlattenSeq(output.files)

\* The lines in the files, those the logger is about to write and those in front, in
\* this order.
Kept ==
  Logged \o FlattenSeq(SubSeq(toWrite, next, Len(toWrite))) \o FlattenSeq(buffers_) \o currentBuffer_

\* They are all lines in the order of append(), each of them once, but for those of
\* dropped buffers and of writes that failed, and a drop is announced in the files
\* unless that write failed (AsyncLogging.cc:32-46, 60-88, FileUtil.cc:88-107).
LinesInOrder ==
  /\ \A i, j \in DOMAIN Kept : i < j /\ Notice \notin {Kept[i], Kept[j]} => Kept[i] < Kept[j]
  /\ ToSet(Kept) \ {Notice} = 1..numLines \ (dropped \cup lost)
  /\ dropped # {} => Notice \in ToSet(Logged) \cup lost

\* Whatever the clock does, no two files have the same name; after an append the
\* current file is not too long and of the period of the append, unless it is too
\* young to be rolled; and it is flushed whenever the logger is not writing
\* (FileUtil.cc:157-188, AsyncLogging.cc:108-111).
FilesRoll ==
  pc \notin {"none", "begin"} =>
    /\ \A i, j \in DOMAIN output.names : i < j => output.names[i] < output.names[j]
    /\ Log!writtenBytes(output) > RollSize \/ Log!startOf(appendTime) # output.startOfPeriod_
         => appendTime <= output.lastRoll_
    /\ pc \notin {"drop", "write"} => ~output.buffered

\* stop() returns although its notification may come before the logger waits:
\* the wait has a time limit (AsyncLogging.h:35-39, AsyncLogging.cc:56-64).
StopReturns == (owner = "stopping") ~> (owner = "stopped")

\* While the logger runs, a line that was appended is written in the end, dropped
\* or lost (AsyncLogging.cc:56-110).
LineIsWritten ==
  \A line \in Lines :
    (owner = "started" /\ line <= numLines)
      ~> (owner # "started" \/ line \in ToSet(Logged) \/ line \in dropped \cup lost)
=============================================================================
