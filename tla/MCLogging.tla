----------------------------- MODULE MCLogging ------------------------------
(***************************************************************************)
(* Logging with two zones, around the hour that New York has twice in the  *)
(* autumn of 2006.                                                         *)
(***************************************************************************)
EXTENDS Logging, TLC

CONSTANTS t1, t2

MCThreads == {t1, t2}

Symmetry == Permutations(MCThreads)

\* 2 April 2006, 7:00, and 29 October 2006, 6:00, in UTC.
Spring == 1143961200
Autumn == 1162101600

EST == [gmtOffset |-> -18000, isDst |-> FALSE, abbr |-> "EST"]
EDT == [gmtOffset |-> -14400, isDst |-> TRUE, abbr |-> "EDT"]

MCZones == {"NewYork", "Shanghai"}

MCZoneData ==
  ("NewYork" :> Zone(<<Spring, Autumn>>, <<1, 0>>, <<EST, EDT>>))
    @@ ("Shanghai" :> FixedZone(28800, "CST"))

\* The epoch, with the end of a year before it; a leap day; New York's summer time at its
\* start and just before its end.
MCInstants == {0, 951826800, Spring, Autumn - 1}

Text(n) == [kind |-> "text", len |-> n]
Number(n) == [kind |-> "number", len |-> n]

MCHeader == <<Text(3)>>
MCLocation == <<Text(3)>>

\* With the header, 4 characters are left for the first message's number, 6 for the
\* second's, and 2 for the third's, which is left out although the text after it fits.
MCMessages ==
  {<<Text(7), Number(1), Text(2)>>, <<Text(5), Number(3), Text(9)>>, <<Text(9), Number(1), Text(2)>>}
=============================================================================
