------------------------------ MODULE TimeZone ------------------------------
(***************************************************************************)
(* gg_lib::TimeZone.  Seconds count from 1970; a broken-down time (struct  *)
(* tm) is a record.  A zone has the moments at which its rule changes and  *)
(* the rules, localtimes; localtimeIdx counts from 0.  Dates outside 1902  *)
(* to 2037 do not fit the integers of TLC.                                 *)
(***************************************************************************)
EXTENDS Date, Sequences, SequencesExt

kSecondsPerDay == 24 * 60 * 60

-----------------------------------------------------------------------------
(* gmtime_r and timegm of the C library: the calendar by its definition,   *)
(* years and months counted off.                                           *)

IsLeap(year) == year % 4 = 0 /\ (year % 100 # 0 \/ year % 400 = 0)

\* Leap years before a year.
Leaps(year) == (year - 1) \div 4 - (year - 1) \div 100 + (year - 1) \div 400

DaysBeforeYear(year) == 365 * (year - 1970) + Leaps(year) - Leaps(1970)

DaysBeforeMonth(year, month) ==
  <<0, 31, 59, 90, 120, 151, 181, 212, 243, 273, 304, 334>>[month]
    + (IF month > 2 /\ IsLeap(year) THEN 1 ELSE 0)

fillHMS(seconds) ==
  [hour |-> seconds \div 3600, min |-> (seconds \div 60) % 60, sec |-> seconds % 60]

\* The year that day number days is in; 400 years have 146097 days.
YearOf(days) ==
  LET guess == 1970 + (400 * days) \div 146097
  IN CHOOSE y \in guess - 1 .. guess + 1 :
       DaysBeforeYear(y) <= days /\ days < DaysBeforeYear(y + 1)

\* The month of day number yday of a year.
MonthOf(year, yday) == Max({m \in 1 .. 12 : DaysBeforeMonth(year, m) <= yday})

gmtime(t) ==
  LET days == t \div kSecondsPerDay
      year == YearOf(days)
      yday == days - DaysBeforeYear(year)
      month == MonthOf(year, yday)
  IN [year |-> year, mon |-> month, mday |-> yday - DaysBeforeMonth(year, month) + 1,
      wday |-> (days + 4) % 7, yday |-> yday, time |-> fillHMS(t % kSecondsPerDay)]

timegm(tm) ==
  (DaysBeforeYear(tm.year) + DaysBeforeMonth(tm.year, tm.mon) + tm.mday - 1) * kSecondsPerDay
    + tm.time.hour * 3600 + tm.time.min * 60 + tm.time.sec

-----------------------------------------------------------------------------

\* readTimeZoneFile, from the three tables of a TZif file.
Zone(trans, localtimeIdx, localtimes) ==
  [transitions |->
     [i \in DOMAIN trans |->
        [gmttime |-> trans[i], localtimeIdx |-> localtimeIdx[i],
         localtime |-> trans[i] + localtimes[localtimeIdx[i] + 1].gmtOffset]],
   localtimes |-> localtimes]

\* TimeZone(eastOfUtc, name).
FixedZone(eastOfUtc, name) ==
  [transitions |-> <<>>, localtimes |-> <<[gmtOffset |-> eastOfUtc, isDst |-> FALSE, abbr |-> name]>>]

\* What the constructors make of a sound file.
IsZone(zone) ==
  /\ zone.localtimes \in Seq([gmtOffset : Int, isDst : BOOLEAN, abbr : STRING]) \ {<<>>}
  /\ zone.transitions \in Seq([gmttime : Int, localtimeIdx : Nat, localtime : Int])
  /\ \A i \in DOMAIN zone.transitions :
       LET tr == zone.transitions[i]
       IN /\ tr.localtimeIdx + 1 \in DOMAIN zone.localtimes
          /\ tr.localtime = tr.gmttime + zone.localtimes[tr.localtimeIdx + 1].gmtOffset

\* Comp: what a time is compared with.
Moment(zone, i, compareGmt) ==
  IF compareGmt THEN zone.transitions[i].gmttime ELSE zone.transitions[i].localtime

\* The transition that lower_bound finds, or the one before it.
transI(zone, t, compareGmt) ==
  LET notLess == {i \in DOMAIN zone.transitions : Moment(zone, i, compareGmt) >= t}
  IN IF notLess = {} THEN Len(zone.transitions)
     ELSE IF Moment(zone, Min(notLess), compareGmt) = t THEN Min(notLess) ELSE Min(notLess) - 1

\* The rule that holds at t.
findLocalTime(zone, t, compareGmt) ==
  IF zone.transitions = <<>> \/ t < Moment(zone, 1, compareGmt) THEN zone.localtimes[1]
  ELSE zone.localtimes[zone.transitions[transI(zone, t, compareGmt)].localtimeIdx + 1]

toLocalTime(zone, seconds) ==
  LET local == findLocalTime(zone, seconds, TRUE)
  IN [tm |-> gmtime(seconds + local.gmtOffset), isdst |-> local.isDst, abbr |-> local.abbr]

\* A faulty fromLocalTime that does not ask which of two hours with the same name is meant.
fromLocalTime_OneHour(zone, local) ==
  timegm(local.tm) - findLocalTime(zone, timegm(local.tm), FALSE).gmtOffset

\* When the clock is set back an hour begins twice; the transition is found for both,
\* and the first, in daylight saving time, is an hour earlier.
fromLocalTime(zone, local) ==
  LET seconds == timegm(local.tm)
      offset == findLocalTime(zone, seconds, FALSE).gmtOffset
      try == toLocalTime(zone, seconds - offset)
      again == /\ local.isdst /\ ~try.isdst
               /\ try.tm.time.hour = local.tm.time.hour
               /\ try.tm.time.min = local.tm.time.min
  IN seconds - offset - (IF again THEN 3600 ELSE 0)

\* The remainder and the quotient of C++ have the sign of the dividend.
toUtcTime(t) ==
  LET abs == IF t < 0 THEN -t ELSE t
      sign == IF t < 0 THEN -1 ELSE 1
      rest == sign * (abs % kSecondsPerDay)
      quotient == sign * (abs \div kSecondsPerDay)
      seconds == IF rest < 0 THEN rest + kSecondsPerDay ELSE rest
      day == kJulianDayOf1970_01_01 + (IF rest < 0 THEN quotient - 1 ELSE quotient)
      ymd == getYearMonthDay(day)
  IN [year |-> ymd.year, mon |-> ymd.month, mday |-> ymd.day, wday |-> weekDay(day),
      yday |-> day - getJulianDay(ymd.year, 1, 1), time |-> fillHMS(seconds)]

fromUtcTime(tm) ==
  (getJulianDay(tm.year, tm.mon, tm.mday) - kJulianDayOf1970_01_01) * kSecondsPerDay
    + tm.time.hour * 3600 + tm.time.min * 60 + tm.time.sec
=============================================================================
