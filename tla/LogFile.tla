------------------------------ MODULE LogFile -------------------------------
(***************************************************************************)
(* gg_lib::LogFile: a log that goes on in a new file when the current one  *)
(* is too long or a new period has begun, but not more than once a second: *)
(* a file is named after the second in which it was made.  LogFile has no  *)
(* thread of its own; its calls are operators on a record of its members,  *)
(* for module AsyncLogging.                                                *)
(*                                                                         *)
(* A file is a sequence of lines, all of one length, and holds what was    *)
(* taken by fwrite; `buffered` says that some of it may still be in the    *)
(* buffer of the FILE.  fwrite may fail after any number of lines, and     *)
(* then nothing more is written to that file; the lines it took before it  *)
(* failed are not counted in writtenBytes_.  fopen does not fail.          *)
(***************************************************************************)
EXTENDS Naturals, Sequences

CONSTANTS
  RollSize,        \* rollSize_, in lines
  Period,          \* kRollPerSeconds_
  FlushInterval    \* flushInterval_

startOf(now) == (now \div Period) * Period

\* getLogFileName, rollFile, and the AppendFile it makes.  The old file is closed.
rollFile(l, now) ==
  IF now > l.lastRoll_
    THEN [names |-> Append(l.names, now),
          files |-> Append(l.files, <<>>),
          lastRoll_ |-> now,
          lastFlush_ |-> now,
          startOfPeriod_ |-> startOf(now),
          err_ |-> FALSE,
          writtenBytes_ |-> 0,
          buffered |-> FALSE]
    ELSE l

\* The constructor.
Opened(now) ==
  rollFile([names |-> <<>>, files |-> <<>>, lastRoll_ |-> 0, lastFlush_ |-> 0,
            startOfPeriod_ |-> 0, err_ |-> FALSE, writtenBytes_ |-> 0, buffered |-> FALSE], now)

\* AppendFile::append on the current file, of which fwrite takes n lines.
file_append(l, lines, n) ==
  IF l.err_ THEN l
  ELSE [l EXCEPT !.files[Len(l.files)] = @ \o SubSeq(lines, 1, n),
                 !.buffered = TRUE,
                 !.err_ = n < Len(lines),
                 !.writtenBytes_ = IF n < Len(lines) THEN @ ELSE @ + n]

writtenBytes(l) == l.writtenBytes_

flush(l) == [l EXCEPT !.buffered = FALSE]

\* A faulty append that rolls without looking at the time.
append_unlocked_RollAlways(l, lines, n, now, again) ==
  LET w == file_append(l, lines, n)
  IN IF writtenBytes(w) > RollSize THEN rollFile([w EXCEPT !.lastRoll_ = 0], again) ELSE w

\* The current file is to be rolled.
Rolls(l, now) == writtenBytes(l) > RollSize \/ startOf(now) # l.startOfPeriod_

\* append_unlocked: the lines go to the current file, then it is rolled or flushed.  The
\* clock is read for the period, and once again for the name of a new file.
append_unlocked(l, lines, n, now, again) ==
  LET w == file_append(l, lines, n)
  IN IF Rolls(w, now) THEN rollFile(w, again)
     ELSE IF now > w.lastFlush_ + FlushInterval THEN flush([w EXCEPT !.lastFlush_ = now])
     ELSE w
=============================================================================
