--------------------------- MODULE ExecutionPlanning ---------------------------
(****************************************************************************)
(* When and in how many slices an order is executed (signals/execution.py), *)
(* and the calendar of the expiries.  Times are minutes of the day, shares  *)
(* of the daily volume are percents.                                        *)
(****************************************************************************)
EXTENDS Question, FiniteSets, FiniteSetsExt

CONSTANTS ExpiryYears,     \* the years whose days are asked about
          Participations   \* the percents of the daily volume

ASSUME PlanningAssumption ==
    ExpiryYears \subseteq {y \in Nat : y >= 2024} /\ Participations \subseteq Nat

Hour(h, m) == 60 * h + m
MarketOpen == Hour(9, 15)
MarketClose == Hour(15, 30)
Slot(start, end) == [start |-> start, end |-> end]
Within(t, w) == w.start <= t /\ t < w.end

AvoidWindows == {Slot(Hour(9, 15), Hour(9, 30)), Slot(Hour(15, 20), Hour(15, 30))}
OptimalWindows == {Slot(Hour(10, 30), Hour(11, 30)), Slot(Hour(14, 0), Hour(14, 45))}
ExpiryHour == Slot(Hour(14, 30), Hour(15, 30))

IsGoodTimeToTrade(t) ==
    MarketOpen <= t /\ t < MarketClose /\ \A w \in AvoidWindows : ~Within(t, w)

TrancheConfig(tier) ==
    CASE tier = "large" -> [tranches |-> 1, interval |-> 0]
      [] tier = "small" -> [tranches |-> 4, interval |-> 8]
      [] OTHER          -> [tranches |-> 2, interval |-> 10]

PlanWindows(expiry) ==
    IF expiry THEN {w \in OptimalWindows : w.end <= ExpiryHour.start} ELSE OptimalWindows

\* One slice more for each percent of the volume, up to 10; a small cap has 3 to 5.
Tranches(tier, share) ==
    LET base   == TrancheConfig(tier).tranches
        sliced == IF share > 1 THEN Max({base, Min({base + share, 10})}) ELSE base
    IN  IF tier = "small" THEN Max({3, Min({sliced, 5})}) ELSE sliced

PlanExecution(q) ==
    [windows  |-> PlanWindows(q.expiry),
     avoid    |-> IF q.expiry THEN {ExpiryHour} ELSE {},
     tranches |-> Tranches(q.tier, q.share),
     interval |-> IF q.tier = "large" /\ q.share > 1 THEN 5 ELSE TrancheConfig(q.tier).interval]

--------------------------------------------------------------------------------
(* The calendar.  A date is [y, m, d]; day 0 is the first of 2024, a Monday. *)

Leap(y) == y % 4 = 0
MonthLength(y, m) == CASE m = 2 -> (IF Leap(y) THEN 29 ELSE 28)
                       [] m \in {4, 6, 9, 11} -> 30
                       [] OTHER -> 31
TotalOf(lengths) == FoldFunction(+, 0, lengths)
DayNumber(t) ==
    LET years == [y \in 2024..(t.y - 1) |-> IF Leap(y) THEN 366 ELSE 365]
        months == [k \in 1..(t.m - 1) |-> MonthLength(t.y, k)]
    IN  TotalOf(years) + TotalOf(months) + t.d - 1
IsWeeklyExpiry(t) == DayNumber(t) % 7 = 3

LastThursdayOfMonth(y, m) ==
    LET last == [y |-> y, m |-> m, d |-> MonthLength(y, m)]
    IN  [last EXCEPT !.d = @ - (((DayNumber(last) % 7) - 3) % 7)]

IsExpiryDay(t) == t = LastThursdayOfMonth(t.y, t.m)

NextExpiry(t) ==
    IF t.d <= LastThursdayOfMonth(t.y, t.m).d THEN LastThursdayOfMonth(t.y, t.m)
    ELSE IF t.m = 12 THEN LastThursdayOfMonth(t.y + 1, 1)
    ELSE LastThursdayOfMonth(t.y, t.m + 1)

--------------------------------------------------------------------------------
Dates == {t \in [y : ExpiryYears, m : 1..12, d : 1..31] : t.d <= MonthLength(t.y, t.m)}

PlanningQuestions ==
    {[topic |-> "plan", tier |-> tier, share |-> share, expiry |-> expiry] :
        tier \in {"large", "mid", "small"}, share \in Participations, expiry \in BOOLEAN}
    \union {[topic |-> "expiry", date |-> t] : t \in Dates}

AnswerPlan == Reply("plan", PlanExecution(asked))
AnswerExpiry == Reply("expiry", NextExpiry(asked.date))
PlanningAnswers == AnswerPlan \/ AnswerExpiry

\* The two halves of the engine agree: at any minute of a window a plan recommends, one
\* may trade, and the plan itself does not say to avoid it (plan_execution,
\* is_good_time_to_trade).
PlannedTimesAreGood ==
    Answered("plan") =>
        /\ answer[1].windows # {}
        /\ \A w \in answer[1].windows : \A t \in w.start..(w.end - 1) :
             IsGoodTimeToTrade(t) /\ \A a \in answer[1].avoid : ~Within(t, a)

\* The slices of an illiquid order end before the shortest window does; those of a
\* liquid one of many percents may not, and are not held to it (plan_execution).
SmallCapsFitTheWindow ==
    Answered("plan") /\ asked.tier # "mid" =>
        \A w \in OptimalWindows : (answer[1].tranches - 1) * answer[1].interval <= w.end - w.start

\* The next expiry is the first expiry day from a date on, the date itself included,
\* across the ends of months and years, and is a Thursday (next_expiry, is_expiry_day).
NextExpiryIsTheFirst ==
    Answered("expiry") =>
        /\ IsExpiryDay(answer[1]) /\ IsWeeklyExpiry(answer[1])
        /\ DayNumber(answer[1]) >= DayNumber(asked.date)
        /\ \A t \in {u \in [y : {asked.date.y, answer[1].y}, m : {asked.date.m, answer[1].m}, d : 1..31] :
                       u.d <= MonthLength(u.y, u.m)} :
             IsExpiryDay(t) /\ DayNumber(t) >= DayNumber(asked.date)
               => DayNumber(t) >= DayNumber(answer[1])
================================================================================
