------------------------------ MODULE MCCron ------------------------------
(***************************************************************************)
(* A small calendar for Cron: hours of 2 minutes, days of 2 hours, weeks   *)
(* of 2 days, a year with a month of 2 and one of 3 days.  As in the real  *)
(* one, a month is no shorter than a week and the weekdays move from year  *)
(* to year.                                                                *)
(***************************************************************************)
EXTENDS Cron

CONSTANT LastStart

Horizon == LastStart + 82

MCTime   == 0 .. Horizon
MCStarts == 0 .. LastStart

ofDay(u) == (u \div 4) % 5

MCShown(f, u) ==
    CASE f = "minute" -> u % 2
      [] f = "hour" -> (u \div 2) % 2
      [] f = "dayOfMonth" -> IF ofDay(u) < 2 THEN ofDay(u) + 1 ELSE ofDay(u) - 1
      [] f = "month" -> IF ofDay(u) < 2 THEN 1 ELSE 2
      [] f = "dayOfWeek" -> (u \div 4) % 2

\* Midnight, n days after the day of u.
midnight(u, n) == (u \div 4 + n) * 4

MCNextDay(u)   == midnight(u, 1)
MCNextMonth(u) == midnight(u, IF ofDay(u) < 2 THEN 2 - ofDay(u) ELSE 5 - ofDay(u))

\* Truncate works on the time since UTC's zero, time.Date on the local clock.
MCInAnHour(z, u) ==
    LET next == ((u - z + 2) \div 2) * 2 + z
    IN  next - (next % 2)

MCInFourYears(u) == u + 4 * 20

MCWholeHours(z) == z % 2 = 0

MCFieldMin == [minute |-> 0, hour |-> 0, dayOfMonth |-> 1, month |-> 1, dayOfWeek |-> 0]
MCFieldMax == [minute |-> 1, hour |-> 1, dayOfMonth |-> 3, month |-> 2, dayOfWeek |-> 1]

star        == [form |-> "star", lo |-> 0, hi |-> 0, step |-> 1]
value(v)    == [star EXCEPT !.form = "value", !.lo = v]
range(a, b) == [star EXCEPT !.form = "range", !.lo = a, !.hi = b]
every(p, n) == [p EXCEPT !.step = n]

clockField == {{star}, {value(0)}, {value(1)}, {every(star, 2)}}

\* Lists, ranges and steps in every position that can tell them apart, and each mistake
\* Parse reports.
MCTexts ==
    [n : {5},
     fields : [minute : clockField \cup {{value(2)}},
               hour : clockField \cup {{value(0), value(1)}},
               dayOfMonth : {{star}, {value(1)}, {value(3)}, {range(2, 3)}, {every(star, 2)},
                             {value(1), value(0)}, {range(3, 2)}},
               month : {{star}, {value(1)}, {value(2)}, {[star EXCEPT !.form = "text"]}},
               dayOfWeek : {{star}, {value(0)}, {value(1)}, {every(star, 0)}}]]
    \cup [n : {4}, fields : {[f \in FieldName |-> {star}]}]

=============================================================================
