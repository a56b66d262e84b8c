----------------------------- MODULE CronProofs -----------------------------
(* Proofs about module Cron, for any expressions, zones and calendar. *)
EXTENDS Cron, TLAPS

\* Before the given time only the hour keeps the loop from returning, up to that time.
HeldByHour(u) == allows("month", u) /\ dayAllowed(u) /\ ~allows("hour", u)

SearchInv ==
    /\ start \in Starts /\ zone \in Zones /\ t \in Nat
    /\ pc = "parse" => t = start + 1
    /\ pc = "search" =>
          /\ \A u \in (start + 1) .. (t - 1) : ~matches(u)
          /\ \A u \in t .. start : HeldByHour(u)
    /\ NextIsFirst

LEMMA LimitOK ==
    ASSUME SearchInv
    PROVE  /\ start \in Nat /\ limit \in Nat
           /\ \A u \in Nat : u < limit => u \in Time
  BY TimeAssumption DEF SearchInv, limit

LEMMA CronInit == Init => SearchInv
  BY TimeAssumption DEF Init, SearchInv, NextIsFirst

LEMMA ParseOK == ASSUME SearchInv, Parse PROVE SearchInv'
  <1>1. /\ pc = "parse" /\ pc' \in {"search", "error"} /\ UNCHANGED <<start, zone, t>>
    BY DEF Parse
  <1>2. t = start + 1 /\ start \in Nat
    BY <1>1, LimitOK DEF SearchInv
  <1> QED BY <1>1, <1>2 DEF SearchInv, NextIsFirst

\* The loop may go on to any time it does not pass a match on the way to.
LEMMA GoOnOK ==
    ASSUME SearchInv, inSearch, NEW goal \in Nat, goOn(goal),
           \A u \in t .. (goal - 1) : ~matches(u),
           \A u \in goal .. start : HeldByHour(u)
    PROVE  SearchInv'
  <1>1. /\ pc = "search" /\ t' = goal /\ UNCHANGED <<pc, e, start, zone>>
    BY DEF inSearch, goOn
  <1>2. t \in Nat /\ start \in Nat /\ \A u \in (start + 1) .. (t - 1) : ~matches(u)
    BY <1>1, LimitOK DEF SearchInv
  <1>3. \A u : (matches(u)' <=> matches(u)) /\ (HeldByHour(u)' <=> HeldByHour(u))
    BY <1>1 DEF matches, HeldByHour, dayAllowed, allows
  <1>4. \A u \in (start + 1) .. (goal - 1) : ~matches(u)
    BY <1>2
  <1> QED BY <1>1, <1>3, <1>4 DEF SearchInv, NextIsFirst

\* Outside its hour the loop never is before the time it was given.
LEMMA AheadUnlessHeld ==
    ASSUME SearchInv, pc = "search", ~HeldByHour(t)
    PROVE  t > start
  BY LimitOK DEF SearchInv

LEMMA SkipMonthOK == ASSUME SearchInv, skipMonth PROVE SearchInv'
  <1>1. inSearch /\ ~allows("month", t) /\ goOn(NextMonth(t)) /\ t \in Time /\ t > start
    BY LimitOK, AheadUnlessHeld DEF skipMonth, inSearch, HeldByHour, SearchInv
  <1>2. /\ NextMonth(t) \in Nat /\ NextMonth(t) > t
        /\ \A u \in t .. (NextMonth(t) - 1) : Shown("month", u) = Shown("month", t)
    BY <1>1, CalendarAssumption
  <1>3. \A u \in t .. (NextMonth(t) - 1) : ~matches(u)
    BY <1>1, <1>2 DEF matches, allows
  <1>4. \A u \in NextMonth(t) .. start : HeldByHour(u)
    BY <1>1, <1>2, LimitOK DEF SearchInv
  <1> QED BY <1>1, <1>2, <1>3, <1>4, GoOnOK

LEMMA SkipDayOK == ASSUME SearchInv, skipDay PROVE SearchInv'
  <1>1. inSearch /\ ~dayAllowed(t) /\ goOn(NextDay(t)) /\ t \in Time /\ t > start
    BY LimitOK, AheadUnlessHeld DEF skipDay, inSearch, HeldByHour, SearchInv
  <1>2. /\ NextDay(t) \in Nat /\ NextDay(t) > t
        /\ \A u \in t .. (NextDay(t) - 1) :
              /\ Shown("dayOfMonth", u) = Shown("dayOfMonth", t)
              /\ Shown("dayOfWeek", u) = Shown("dayOfWeek", t)
    BY <1>1, CalendarAssumption
  <1>3. \A u \in t .. (NextDay(t) - 1) : ~matches(u)
    BY <1>1, <1>2 DEF matches, dayAllowed, allows
  <1>4. \A u \in NextDay(t) .. start : HeldByHour(u)
    BY <1>1, <1>2, LimitOK DEF SearchInv
  <1> QED BY <1>1, <1>2, <1>3, <1>4, GoOnOK

\* The hour is the one jump that may go back.
LEMMA SkipHourOK == ASSUME SearchInv, skipHour PROVE SearchInv'
  <1> DEFINE goal == InAnHour(zone, t)
  <1>1. inSearch /\ HeldByHour(t) /\ goOn(goal) /\ t \in Time /\ t \in Nat /\ zone \in Zones
    BY LimitOK DEF skipHour, inSearch, HeldByHour, SearchInv
  <1>2. /\ goal \in Nat
        /\ \A u \in t .. (goal - 1) : Shown("hour", u) = Shown("hour", t)
        /\ \A u \in goal .. t, f \in FieldName \ {"minute"} : Shown(f, u) = Shown(f, t)
    BY <1>1, CalendarAssumption
  <1> HIDE DEF goal
  <1>3. \A u \in t .. (goal - 1) : ~matches(u)
    BY <1>1, <1>2 DEF HeldByHour, matches, allows
  <1>4. \A u \in goal .. t : HeldByHour(u)
    BY <1>1, <1>2 DEF HeldByHour, dayAllowed, allows, FieldName
  <1>5. \A u \in goal .. start : HeldByHour(u)
    <2>1. start \in Nat /\ \A u \in t .. start : HeldByHour(u)
      BY <1>1, LimitOK DEF SearchInv, inSearch
    <2> QED BY <1>1, <1>2, <1>4, <2>1
  <1> QED BY <1>1, <1>2, <1>3, <1>5, GoOnOK

LEMMA SkipMinuteOK == ASSUME SearchInv, skipMinute PROVE SearchInv'
  <1>1. /\ inSearch /\ ~matches(t) /\ goOn(t + 1) /\ t \in Nat /\ t > start /\ start \in Nat
    BY LimitOK, AheadUnlessHeld DEF skipMinute, inSearch, HeldByHour, matches, SearchInv
  <1>2. t + 1 \in Nat /\ \A u \in t .. (t + 1 - 1) : ~matches(u)
    BY <1>1
  <1>3. \A u \in (t + 1) .. start : HeldByHour(u)
    BY <1>1
  <1> QED BY <1>1, <1>2, <1>3, GoOnOK

LEMMA ReturnOK == ASSUME SearchInv, return PROVE SearchInv'
  <1>1. /\ pc = "search" /\ (t >= limit \/ matches(t))
        /\ pc' = IF t < limit THEN "found" ELSE "none"
        /\ UNCHANGED <<e, start, zone, t>>
    BY DEF return
  <1>2. /\ t \in Nat /\ start \in Nat /\ limit \in Nat
        /\ \A u \in (start + 1) .. (t - 1) : ~matches(u)
    BY <1>1, LimitOK DEF SearchInv
  <1>3. \A u : matches(u)' <=> matches(u)
    BY <1>1 DEF matches, dayAllowed, allows
  <1>4. limit' = limit
    BY <1>1 DEF limit
  <1>5. CASE t < limit
    <2>1. matches(t)
      BY <1>1, <1>2, <1>5
    <2>2. t > start
      BY <1>1, <2>1, AheadUnlessHeld DEF matches, HeldByHour
    <2> QED BY <1>1, <1>2, <1>3, <1>5, <2>1, <2>2 DEF SearchInv, NextIsFirst
  <1>6. CASE ~(t < limit)
    <2>1. \A u \in (start + 1) .. (limit - 1) : ~matches(u)
      BY <1>2, <1>6
    <2> QED BY <1>1, <1>3, <1>4, <1>6, <2>1 DEF SearchInv, NextIsFirst
  <1> QED BY <1>5, <1>6

LEMMA CronNext == SearchInv /\ [Next]_vars => SearchInv'
  <1> SUFFICES ASSUME SearchInv, [Next]_vars PROVE SearchInv'
    OBVIOUS
  <1>1. CASE UNCHANGED vars
    <2>1. UNCHANGED <<pc, e, start, zone, t>>
      BY <1>1 DEF vars
    <2>2. \A u : (matches(u)' <=> matches(u)) /\ (HeldByHour(u)' <=> HeldByHour(u))
      BY <2>1 DEF matches, HeldByHour, dayAllowed, allows
    <2>3. limit' = limit
      BY <2>1 DEF limit
    <2> QED BY <2>1, <2>2, <2>3 DEF SearchInv, NextIsFirst
  <1> QED
    BY <1>1, ParseOK, SkipMonthOK, SkipDayOK, SkipHourOK, SkipMinuteOK, ReturnOK DEF Next

\* For every calendar in which months, days and hours are stretches of time, and in every
\* zone, the moment Next returns is the first that matches after the time it was given.
THEOREM FirstMatchIsReturned == Spec => []NextIsFirst
  <1>1. SearchInv => NextIsFirst
    BY DEF SearchInv
  <1> QED BY <1>1, CronInit, CronNext, PTL DEF Spec

-----------------------------------------------------------------------------
(* What Parse accepts *)

LEMMA PartAllowsSome ==
    ASSUME NEW f \in FieldName, NEW part, partOk(part, f),
           part.lo \in Int, part.hi \in Int, part.step \in Int
    PROVE  /\ parsePart(part, f) # {}
           /\ parsePart(part, f) \subseteq FieldMin[f] .. FieldMax[f]
  <1> DEFINE low == lo(part, f)
             high == hi(part, f)
  <1>1. /\ low \in Int /\ high \in Int /\ low <= high
        /\ FieldMin[f] \in Int /\ FieldMax[f] \in Int
        /\ low >= FieldMin[f] /\ high <= FieldMax[f]
        /\ part.step \in Nat /\ part.step > 0
    BY TextAssumption DEF partOk, lo, hi
  <1>2. parsePart(part, f) = {i \in low .. high : (i - low) % part.step = 0}
    BY DEF parsePart, fillRangeStep
  <1> HIDE DEF low, high
  <1>3. low \in low .. high /\ low - low = 0
    BY <1>1
  <1>4. \A step \in Nat : step > 0 => 0 % step = 0
    OBVIOUS
  <1>5. low \in parsePart(part, f)
    BY <1>1, <1>2, <1>3, <1>4
  <1>6. parsePart(part, f) \subseteq FieldMin[f] .. FieldMax[f]
    BY <1>1, <1>2
  <1> QED BY <1>5, <1>6

LEMMA FieldAllowsSome ==
    ASSUME text \in Texts, NEW f \in FieldName, \A part \in text.fields[f] : partOk(part, f)
    PROVE  /\ parseField(text.fields[f], f) # {}
           /\ parseField(text.fields[f], f) \subseteq FieldMin[f] .. FieldMax[f]
  <1>1. /\ text.fields[f] # {}
        /\ \A part \in text.fields[f] : part.lo \in Int /\ part.hi \in Int /\ part.step \in Int
    BY TextAssumption
  <1>2. \A part \in text.fields[f] : /\ parsePart(part, f) # {}
                                     /\ parsePart(part, f) \subseteq FieldMin[f] .. FieldMax[f]
    BY <1>1, PartAllowsSome
  <1> QED BY <1>1, <1>2 DEF parseField

ExpressionInv == text \in Texts /\ TypeOK

LEMMA ExpressionInit == Init => ExpressionInv
  BY TimeAssumption DEF Init, ExpressionInv, TypeOK

LEMMA ExpressionNext == SearchInv' /\ ExpressionInv /\ [Next]_vars => ExpressionInv'
  <1> SUFFICES ASSUME SearchInv', ExpressionInv, [Next]_vars PROVE ExpressionInv'
    OBVIOUS
  <1>1. start' \in Nat /\ zone' \in Zones /\ t' \in Nat
    BY TimeAssumption DEF SearchInv
  <1>2. text' = text
    BY DEF Next, Parse, skipMonth, skipDay, skipHour, skipMinute, goOn, return, vars
  <1>3. CASE Parse
    <2>1. CASE pc' = "error"
      BY <1>1, <1>2, <2>1 DEF ExpressionInv, TypeOK
    <2>2. CASE pc' # "error"
      <3>1. /\ \A f \in FieldName : \A part \in text.fields[f] : partOk(part, f)
            /\ pc' = "search" /\ e' = [f \in FieldName |-> parseField(text.fields[f], f)]
        BY <1>3, <2>2 DEF Parse
      <3>2. \A f \in FieldName : e'[f] # {} /\ e'[f] \subseteq FieldMin[f] .. FieldMax[f]
        BY <3>1, FieldAllowsSome DEF ExpressionInv
      <3> QED BY <1>1, <1>2, <3>1, <3>2 DEF ExpressionInv, TypeOK
    <2> QED BY <2>1, <2>2
  <1>4. CASE ~Parse
    <2>1. e' = e /\ (pc' = pc \/ (pc = "search" /\ pc' \in {"found", "none"}))
      BY <1>4 DEF Next, skipMonth, skipDay, skipHour, skipMinute, goOn, return, vars
    <2> QED BY <1>1, <1>2, <2>1 DEF ExpressionInv, TypeOK
  <1> QED BY <1>3, <1>4

\* Whatever lists, ranges and steps a text has: what Parse accepts allows something in every
\* field and nothing outside its range.
THEOREM CronTypes == Spec => []TypeOK
  <1>1. ExpressionInv => TypeOK
    BY DEF ExpressionInv
  <1> QED BY <1>1, CronInit, CronNext, ExpressionInit, ExpressionNext, PTL DEF Spec

=============================================================================
