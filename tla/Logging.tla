------------------------------ MODULE Logging -------------------------------
(***************************************************************************)
(* gg_lib::Logger: threads write log lines, each stamped with the clock    *)
(* and the zone.  A thread keeps the text of the last second it formatted  *)
(* (t_lastSecond, t_time) and the name of the zone it prints (t_zoneAbbr); *)
(* zone and level are common to all.  The clock may be set to any instant. *)
(*                                                                         *)
(* Level, message and stream are the thread's own until the line is handed *)
(* to g_output, so that a log statement is one step.  What is not its own  *)
(* is the zone: formatTime tests g_logTimeZone and then uses it, without a *)
(* lock, and a setTimeZone of another thread in between would free the     *)
(* data it uses.  Programs that race there are left out: whoever sets the  *)
(* zone does so while no other thread is in a log statement.               *)
(***************************************************************************)
EXTENDS TimeZone, FiniteSets

CONSTANTS
  Threads,
  Instants,          \* values of the clock, in seconds
  Zones,             \* names of zones ...
  ZoneData,          \* ... and their rules
  Messages,          \* what a log statement may write: sequences of parts
  Header, Location,  \* the parts before a message and after it
  kSmallBuffer, kMaxNumericSize

LS == INSTANCE LogStream

UTC == "UTC"         \* no zone is set: gmtime_r, and the name GMT

ASSUME LoggerAssumption ==
  /\ UTC \notin Zones
  /\ Instants \subseteq Nat
  /\ \A z \in Zones : IsZone(ZoneData[z])
  /\ kMaxNumericSize \in Nat /\ kSmallBuffer \in Nat
  /\ Header \in Seq(LS!Parts) /\ Location \in Seq(LS!Parts) /\ Messages \subseteq Seq(LS!Parts)

VARIABLES
  clock,             \* the clock
  g_logTimeZone, g_logLevel,
  zoneAbbr,          \* Data::zoneAbbr of every zone, the cached name, or ""
  t_lastSecond, t_time, t_zoneAbbr,     \* per thread
  stampZone,         \* the zone in which t_time was computed
  nameZone,          \* the zone that t_zoneAbbr is a name of
  aborted,
  lastLine           \* the line written last

threadVars == <<t_lastSecond, t_time, t_zoneAbbr, stampZone, nameZone>>
loggerVars == <<clock, g_logTimeZone, g_logLevel, zoneAbbr, threadVars, aborted, lastLine>>

\* Everything but the line, which is never read.
View == <<clock, g_logTimeZone, g_logLevel, zoneAbbr, threadVars, aborted>>

Levels == <<"INFO", "WARN", "FATAL">>     \* TRACE and DEBUG are like INFO, ERROR is like WARN

NoLine == [thread |-> "none"]

\* t_time is empty at first.
Blank == [tm |-> "blank"]

LoggerInit ==
  /\ clock \in Instants
  /\ g_logTimeZone = UTC
  /\ g_logLevel = 1
  /\ zoneAbbr = [z \in Zones |-> ""]
  /\ t_lastSecond = [t \in Threads |-> 0]
  /\ t_time = [t \in Threads |-> Blank]
  /\ t_zoneAbbr = [t \in Threads |-> "GMT"]
  /\ stampZone = [t \in Threads |-> UTC]
  /\ nameZone = [t \in Threads |-> UTC]
  /\ aborted = FALSE
  /\ lastLine = NoLine

Tick ==
  /\ ~aborted
  /\ clock' \in Instants \ {clock}
  /\ UNCHANGED <<g_logTimeZone, g_logLevel, zoneAbbr, threadVars, aborted, lastLine>>

\* Each zone finds its name once.
getZoneAbbr(z) ==
  IF zoneAbbr[z] # "" THEN zoneAbbr[z] ELSE findLocalTime(ZoneData[z], clock, TRUE).abbr

\* setTimeZone: the zone is set for all, its name for the calling thread.
setTimeZone(t, z) ==
  /\ ~aborted
  /\ g_logTimeZone' = z
  /\ zoneAbbr' = [zoneAbbr EXCEPT ![z] = getZoneAbbr(z)]
  /\ t_zoneAbbr' = [t_zoneAbbr EXCEPT ![t] = getZoneAbbr(z)]
  /\ nameZone' = [nameZone EXCEPT ![t] = z]
  /\ UNCHANGED <<clock, g_logLevel, t_lastSecond, t_time, stampZone, aborted, lastLine>>

setLogLevel(level) ==
  /\ ~aborted
  /\ g_logLevel' = level
  /\ UNCHANGED <<clock, g_logTimeZone, zoneAbbr, threadVars, aborted, lastLine>>

LocalTime(z) == IF z = UTC THEN gmtime(clock) ELSE toLocalTime(ZoneData[z], clock).tm

\* A faulty formatTime that formats a second only if it is later than the last.
formatTime_Later(t) ==
  IF clock > t_lastSecond[t]
    THEN /\ t_lastSecond' = [t_lastSecond EXCEPT ![t] = clock]
         /\ t_time' = [t_time EXCEPT ![t] = LocalTime(g_logTimeZone)]
         /\ stampZone' = [stampZone EXCEPT ![t] = g_logTimeZone]
    ELSE UNCHANGED <<t_lastSecond, t_time, stampZone>>

\* Impl::formatTime: a new second is formatted.
formatTime(t) ==
  IF clock # t_lastSecond[t]
    THEN /\ t_lastSecond' = [t_lastSecond EXCEPT ![t] = clock]
         /\ t_time' = [t_time EXCEPT ![t] = LocalTime(g_logTimeZone)]
         /\ stampZone' = [stampZone EXCEPT ![t] = g_logTimeZone]
    ELSE UNCHANGED <<t_lastSecond, t_time, stampZone>>

\* A log statement.  The macros up to LOG_INFO ask for the level; FATAL flushes and
\* aborts.
LogStatement(t, level, message) ==
  /\ ~aborted
  /\ Levels[level] = "INFO" => g_logLevel <= level
  /\ formatTime(t)
  /\ LET parts == Header \o message \o Location
     IN lastLine' = [thread |-> t, at |-> clock, time |-> t_time'[t], abbr |-> t_zoneAbbr[t],
                 parts |-> parts, buffer |-> LS!Stream(parts)]
  /\ aborted' = (Levels[level] = "FATAL")
  /\ UNCHANGED <<clock, g_logTimeZone, g_logLevel, zoneAbbr, t_zoneAbbr, nameZone>>

LoggerNext ==
  \/ Tick
  \/ \E t \in Threads, z \in Zones : setTimeZone(t, z)
  \/ \E level \in DOMAIN Levels : setLogLevel(level)
  \/ \E t \in Threads, level \in DOMAIN Levels, message \in Messages : LogStatement(t, level, message)

LoggerSpec == LoggerInit /\ [][LoggerNext]_loggerVars

-----------------------------------------------------------------------------
(* Properties.                                                             *)

\* The rule after transition i; before all transitions it is the first.
Rule(zone, i) == zone.localtimes[IF i = 0 THEN 1 ELSE zone.transitions[i].localtimeIdx + 1]

\* The rules of a zone last for two hours or more, and the clock is set back only by one
\* hour, at the end of daylight saving time.
OneHourDst(zone) ==
  \A i \in DOMAIN zone.transitions :
    /\ \A j \in 1 .. i - 1 : zone.transitions[j].gmttime + 7200 <= zone.transitions[i].gmttime
    /\ \/ Rule(zone, i).gmtOffset >= Rule(zone, i - 1).gmtOffset
       \/ /\ Rule(zone, i).gmtOffset = Rule(zone, i - 1).gmtOffset - 3600
          /\ Rule(zone, i - 1).isDst /\ ~Rule(zone, i).isDst

\* The instants around the clock's: seconds, and the hours of a change of the clock.
Nearby == {clock + d : d \in {-3601, -3600, -1801, -1, 0, 1, 1799, 3599, 3600, 86399}}

\* A time survives being broken down and put together again: in UTC, where the
\* arithmetic on Julian days gives the date, the weekday and the day of the year that
\* counting years and months gives; and in a zone with one-hour daylight saving time,
\* also in the hour that is there twice (TimeZone.cc:151-224, Date.cc:8-26).
TimesReadBack ==
  \A t \in Nearby :
    /\ toUtcTime(t) = gmtime(t)
    /\ fromUtcTime(toUtcTime(t)) = t
    /\ \A z \in Zones :
         OneHourDst(ZoneData[z]) => fromLocalTime(ZoneData[z], toLocalTime(ZoneData[z], t)) = t

\* The rules a zone ever has.
Rules(z) ==
  IF z = UTC THEN {[gmtOffset |-> 0, isDst |-> FALSE, abbr |-> "GMT"]}
  ELSE {ZoneData[z].localtimes[i] : i \in DOMAIN ZoneData[z].localtimes}

Abbr(z) == IF z = UTC THEN "GMT" ELSE findLocalTime(ZoneData[z], clock, TRUE).abbr

\* The line that t writes tells the time.
TellsTime(t) ==
  lastLine'.thread = t /\ clock # 0
    /\ stampZone'[t] = nameZone[t] /\ t_zoneAbbr[t] = Abbr(nameZone[t])
  => \E r \in Rules(nameZone[t]) :
       r.abbr = lastLine'.abbr /\ timegm(lastLine'.time) - r.gmtOffset = clock

\* The date and time on a line and the name of the zone next to it tell when it was
\* written, even if the clock was set back, provided that the thread had its name from
\* the zone it used for this second and that the zone has not changed its name since
\* (Logging.cc:115-118, 135-153).  At second 0 a thread that has not logged has no time.
StampsTellTime == [][\A t \in Threads : lastLine' # lastLine => TellsTime(t)]_loggerVars

\* Entry i of a buffer follows the one before it, and has its part as a whole or, if it is
\* text, as much as there was room for.
Fits(parts, b, i) ==
  LET part == parts[b[i].part]
  IN /\ b[i].part \in DOMAIN parts
     /\ i > 1 => b[i - 1].part < b[i].part
     /\ b[i].end = (IF i = 1 THEN 0 ELSE b[i - 1].end) + b[i].took
     /\ \/ b[i].took = part.len
        \/ b[i].took < part.len /\ part.kind = "text" /\ b[i].end = kSmallBuffer

\* Part i is in no entry.
Missing(b, i) == \A j \in DOMAIN b : b[j].part # i

Whole(parts, b) ==
  /\ LS!length(b) <= kSmallBuffer
  /\ \A i \in DOMAIN b : Fits(parts, b, i)
  /\ \A i \in DOMAIN parts :
       Missing(b, i) => parts[i].kind = "number" /\ LS!avail(b) < kMaxNumericSize

\* A line never outgrows its buffer.  It has its parts in their order, one after the
\* other; a number is there as a whole or not at all; only the text that comes to the end
\* of the buffer is cut; and the line ends with its place in the source and a newline
\* unless it is full (LogStream.cc:51-118, FixedBuffer.h:23-28, Logging.cc:162-164).
LinesWhole == [][lastLine' # lastLine => Whole(lastLine'.parts, lastLine'.buffer)]_loggerVars
=============================================================================
