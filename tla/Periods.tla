------------------------------ MODULE Periods ------------------------------
(***************************************************************************)
(* The calendar of app.py: the periods of the reports, and the window a    *)
(* question names.  Both are built from local dates.  As time goes by,     *)
(* every hour someone may name a period, and parse_time_window turns it    *)
(* into a window.                                                          *)
(***************************************************************************)
EXTENDS Integers, FiniteSets, FiniteSetsExt

CONSTANTS
    WeekDays,      \* the days of a week
    MonthStarts,   \* the days on which a month begins
    FirstHour,
    LastHour,      \* bound on the time
    Counts         \* the numbers of hours one may ask for

ASSUME WeekAssumption == WeekDays \in Nat \ {0} /\ MonthStarts \subseteq Nat

Types == {"DAILY", "WEEKLY", "MONTHLY"}

\* The day on which the period that holds the day began.
PeriodStart(type, day) ==
    CASE type = "DAILY"   -> day
      [] type = "WEEKLY"  -> day - (day % WeekDays)
      [] type = "MONTHLY" -> Max({m \in MonthStarts : m <= day})

\* period_bounds, whose end is the first day that is not in the period.
PeriodBounds(type, start) ==
    [type |-> type, from |-> start,
     to   |-> CASE type = "DAILY"   -> start + 1
                [] type = "WEEKLY"  -> start + WeekDays
                [] type = "MONTHLY" -> Min({m \in MonthStarts : m > start})]

PreviousCompletedPeriod(type, day) ==
    PeriodBounds(type, PeriodStart(type, PeriodStart(type, day) - 1))

-----------------------------------------------------------------------------
\* The window of a question asked at an hour.
HoursPerDay == 24
Midnight(day) == HoursPerDay * day

\* Mutant, used by no specification: the day of a clock an hour ahead of the local one.
BugDayOf(hour) == (hour + 1) \div HoursPerDay

DayOf(hour) == hour \div HoursPerDay

NightStart == 18  \* ASK_NIGHT_START_HOUR
NightEnd == 6     \* ASK_NIGHT_END_HOUR
Noon == 12

Phrases == {"last hours", "last night", "this morning", "yesterday", "today", "last week",
            "this week", "last month", "this month", "nothing"}

Whole(period) == [from |-> Midnight(period.from), to |-> Midnight(period.to)]

\* parse_time_window, where "last hours" stands for a number of any unit.
AskedWindow(phrase, count, hour) ==
    LET today == DayOf(hour)
        since(from) == [from |-> from, to |-> hour]
    IN  CASE phrase = "last hours"   -> since(hour - count)
          [] phrase = "last night"   -> [from |-> Midnight(today - 1) + NightStart,
                                         to   |-> Min({Midnight(today) + NightEnd, hour})]
          [] phrase = "this morning" -> [from |-> Midnight(today) + NightEnd,
                                         to   |-> Min({Midnight(today) + Noon, hour})]
          [] phrase = "yesterday"    -> Whole(PreviousCompletedPeriod("DAILY", today))
          [] phrase = "last week"    -> Whole(PreviousCompletedPeriod("WEEKLY", today))
          [] phrase = "last month"   -> Whole(PreviousCompletedPeriod("MONTHLY", today))
          [] phrase = "today"        -> since(Midnight(today))
          [] phrase = "this week"    -> since(Midnight(PeriodStart("WEEKLY", today)))
          [] phrase = "this month"   -> since(Midnight(PeriodStart("MONTHLY", today)))
          [] phrase = "nothing"      -> since(hour - HoursPerDay)

\* The one window that ends before it begins: this morning, asked before it.
Inverted(phrase, hour) == phrase = "this morning" /\ hour < Midnight(DayOf(hour)) + NightEnd

-----------------------------------------------------------------------------
\* The questions asked of app.py's own analysis.

ASSUME HoursAssumption ==
    /\ {FirstHour, LastHour} \subseteq Nat /\ Counts \subseteq Nat
    /\ Cardinality({m \in MonthStarts : Midnight(m) <= FirstHour}) > 1

VARIABLE hour

QuestionsInit == hour = FirstHour

HourPasses ==
    /\ hour < LastHour
    /\ hour' = hour + 1

QuestionsNext == HourPasses

SoFar == [DAILY |-> "today", WEEKLY |-> "this week", MONTHLY |-> "this month"]
Previous == [DAILY |-> "yesterday", WEEKLY |-> "last week", MONTHLY |-> "last month"]

\* Whenever it is asked: a window lies in the past and begins before it ends, but for
\* this morning asked before it; the period in progress begins where the one before it
\* ends, which is the period of the report that is due; and the night ends where the
\* morning begins.
WindowsAgree ==
    LET asked(phrase) == AskedWindow(phrase, 0, hour) IN
    /\ \A phrase \in Phrases, n \in Counts :
           LET w == AskedWindow(phrase, n, hour)
           IN  w.to <= hour /\ (w.from <= w.to \/ Inverted(phrase, hour))
    /\ \A t \in Types :
           LET last == asked(Previous[t])
           IN  /\ last.to = asked(SoFar[t]).from
               /\ last = Whole(PeriodBounds(t, DayOf(last.from)))
               /\ DayOf(last.from) = PeriodStart(t, DayOf(last.to) - 1)
    /\ ~Inverted("this morning", hour) => asked("last night").to = asked("this morning").from
=============================================================================
