-------------------------------- MODULE Cron --------------------------------
(***************************************************************************)
(* Cron expressions: Parse and Next of src/pkg/cron/parser.go.             *)
(*                                                                         *)
(* A time is a number of minutes on the local clock.  What Go's package    *)
(* time says of it (its fields, the start of the next month, of the next   *)
(* day, ...) comes in through the constants; every turn of the loop in     *)
(* Next is a step.  No zone changes its offset (no summer time).           *)
(*                                                                         *)
(* Operators named Bug... are plausible mistakes, used by no specification.*)
(***************************************************************************)
EXTENDS Integers

CONSTANTS
    Time,             \* the times looked at
    Starts,           \* the minutes in which Next is called
    Texts,            \* the expressions that are parsed
    FieldMin,         \* the range of each field
    FieldMax,
    Shown(_, _),      \* Shown(f, t): the field f of time t
    NextMonth(_),     \* midnight of the first day of the next month
    NextDay(_),       \* the next midnight
    Zones,            \* the offsets from UTC of local clocks, in minutes
    InAnHour(_, _),   \* t + 1h, truncated to an hour of UTC, then to one of the local clock
    InFourYears(_),   \* the same date and time, four years on
    WholeHours(_)     \* whether a zone is a whole number of hours from UTC

FieldName == {"minute", "hour", "dayOfMonth", "month", "dayOfWeek"}

ASSUME TimeAssumption ==
    /\ Time \subseteq Nat /\ Starts \subseteq Nat
    /\ \A s \in Starts :
          InFourYears(s + 1) \in Nat /\ 0 .. (InFourYears(s + 1) - 1) \subseteq Time

\* A month and a day are stretches of time.  InAnHour passes over nothing but the rest of
\* an hour, and may also stay where it is or go back within the hour.
ASSUME CalendarAssumption ==
    \A m \in Time :
        /\ NextMonth(m) \in Nat /\ NextMonth(m) > m
        /\ \A u \in m .. (NextMonth(m) - 1) : Shown("month", u) = Shown("month", m)
        /\ NextDay(m) \in Nat /\ NextDay(m) > m
        /\ \A u \in m .. (NextDay(m) - 1) :
              /\ Shown("dayOfMonth", u) = Shown("dayOfMonth", m)
              /\ Shown("dayOfWeek", u) = Shown("dayOfWeek", m)
        /\ \A z \in Zones :
              /\ InAnHour(z, m) \in Nat
              /\ \A u \in m .. (InAnHour(z, m) - 1) : Shown("hour", u) = Shown("hour", m)
              /\ \A u \in InAnHour(z, m) .. m, f \in FieldName \ {"minute"} :
                    Shown(f, u) = Shown(f, m)

\* A field is split at its commas into at least one part, whose numbers may be any.
ASSUME TextAssumption ==
    /\ \A f \in FieldName : FieldMin[f] \in Int /\ FieldMax[f] \in Int
    /\ \A x \in Texts, f \in FieldName :
          /\ x.fields[f] # {}
          /\ \A part \in x.fields[f] : part.lo \in Int /\ part.hi \in Int /\ part.step \in Int

VARIABLES
    pc,     \* "parse", "search", or how it ended: "error", "found", "none"
    text,   \* the expression as written: its number of fields, and each as a set of parts
    e,      \* Expression: the set of values each field allows
    start,  \* the minute Next was called in
    zone,   \* of the process
    t       \* the loop variable of Next

vars == <<pc, text, e, start, zone, t>>

-----------------------------------------------------------------------------
(* Parse *)

\* The ends of a part: a star stands for the whole range, a value for itself.
lo(part, f) == IF part.form = "star" THEN FieldMin[f] ELSE part.lo
hi(part, f) == IF part.form = "star" THEN FieldMax[f]
               ELSE IF part.form = "value" THEN part.lo ELSE part.hi

\* The end of a range is not checked.
BugNoUpperBound(part, f) ==
    /\ part.form # "text"
    /\ part.step > 0
    /\ lo(part, f) >= FieldMin[f] /\ lo(part, f) <= hi(part, f)

\* parsePart returns no error: numbers, a positive step, a range in bounds.
partOk(part, f) ==
    /\ part.form # "text"
    /\ part.step > 0
    /\ lo(part, f) >= FieldMin[f] /\ hi(part, f) <= FieldMax[f]
    /\ lo(part, f) <= hi(part, f)

fillRangeStep(low, high, step) == {i \in low .. high : (i - low) % step = 0}

parsePart(part, f) == fillRangeStep(lo(part, f), hi(part, f), part.step)

parseField(parts, f) == UNION {parsePart(part, f) : part \in parts}

Parse ==
    /\ pc = "parse"
    /\ IF text.n = 5 /\ \A f \in FieldName : \A part \in text.fields[f] : partOk(part, f)
       THEN /\ pc' = "search"
            /\ e' = [f \in FieldName |-> parseField(text.fields[f], f)]
       ELSE /\ pc' = "error"
            /\ e' = e
    /\ UNCHANGED <<text, start, zone, t>>

-----------------------------------------------------------------------------
(* Next *)

limit == InFourYears(start + 1)

allows(f, u) == Shown(f, u) \in e[f]

dayAllowed(u) == allows("dayOfMonth", u) \/ allows("dayOfWeek", u)

matches(u) ==
    allows("month", u) /\ dayAllowed(u) /\ allows("hour", u) /\ allows("minute", u)

\* The loop goes on: `goal' is the next time to look at.
goOn(goal) ==
    /\ t' = goal
    /\ UNCHANGED <<pc, text, e, start, zone>>

inSearch == pc = "search" /\ t < limit

skipMonth ==
    /\ inSearch
    /\ ~allows("month", t)
    /\ goOn(NextMonth(t))

\* The day is advanced and the time of day kept.
BugKeepTimeOfDay ==
    /\ inSearch
    /\ allows("month", t) /\ ~dayAllowed(t)
    /\ goOn(t + NextDay(NextDay(t)) - NextDay(t))

skipDay ==
    /\ inSearch
    /\ allows("month", t) /\ ~dayAllowed(t)
    /\ goOn(NextDay(t))

skipHour ==
    /\ inSearch
    /\ allows("month", t) /\ dayAllowed(t) /\ ~allows("hour", t)
    /\ goOn(InAnHour(zone, t))

\* The loop does not move when only the minute does not fit.
BugMinuteStays ==
    /\ inSearch
    /\ allows("month", t) /\ dayAllowed(t) /\ allows("hour", t) /\ ~allows("minute", t)
    /\ goOn(t)

skipMinute ==
    /\ inSearch
    /\ allows("month", t) /\ dayAllowed(t) /\ allows("hour", t) /\ ~allows("minute", t)
    /\ goOn(t + 1)

\* Next returns: t matches, or it is past the limit and the zero time goes back.
return ==
    /\ pc = "search"
    /\ t >= limit \/ matches(t)
    /\ pc' = IF t < limit THEN "found" ELSE "none"
    /\ UNCHANGED <<text, e, start, zone, t>>

\* Next is called with any reading of the clock in the minute `start'.
Init ==
    /\ pc = "parse"
    /\ text \in Texts
    /\ e = [f \in FieldName |-> {}]
    /\ start \in Starts /\ zone \in Zones
    /\ t = start + 1

Next ==
    \/ Parse
    \/ skipMonth
    \/ skipDay
    \/ skipHour
    \/ skipMinute
    \/ return

Spec == Init /\ [][Next]_vars

\* One goroutine runs the loop; nothing blocks it.
FairSpec == Spec /\ WF_vars(Next)

-----------------------------------------------------------------------------
(* Properties *)

\* TypeOK: the shape of the state; an expression that was accepted allows something in
\* every field, and nothing a clock cannot show (parseField, parsePart).
TypeOK ==
    /\ pc \in {"parse", "search", "error", "found", "none"}
    /\ start \in Nat /\ zone \in Zones /\ t \in Nat
    /\ pc \notin {"parse", "error"} =>
          \A f \in FieldName : e[f] # {} /\ e[f] \subseteq FieldMin[f] .. FieldMax[f]

\* NextIsFirst: "Find the next future moment that matches the cron expression" - what Next
\* returns matches, lies after the time it was given, and nothing in between matches,
\* whichever months, days and hours the loop jumped over.
NextIsFirst ==
    /\ pc = "found" => t > start /\ matches(t) /\ \A u \in (start + 1) .. (t - 1) : ~matches(u)
    /\ pc = "none" => \A u \in (start + 1) .. (limit - 1) : ~matches(u)

\* NextReturns: "search up to 4 years to avoid infinite loop" - Next comes back, in a zone
\* that is a whole number of hours from UTC.  (advanceHour truncates to hours of UTC: in a
\* zone off by half an hour the loop may stay in one hour for ever.)
NextReturns == WholeHours(zone) ~> pc \in {"error", "found", "none"}

=============================================================================
