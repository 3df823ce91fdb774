------------------------------ MODULE Schedule ------------------------------
(***************************************************************************)
(* The windows of a policy's schedule against the running clock:           *)
(*                                                                         *)
(*   internal/core/domain/timewindow.go                                    *)
(*                                                                         *)
(* A day has DayLength minutes and a week DaysPerWeek days, so that TLC    *)
(* can walk through the whole week with every window; the code has 1440    *)
(* and 7.  now is a minute of the week in UTC.  A time zone is its present *)
(* offset, which daylight saving changes.                                  *)
(***************************************************************************)
EXTENDS Integers

CONSTANTS
    DayLength,    \* minutes of a day
    DaysPerWeek,  \* days of a week
    Zones,        \* the time zones that LoadLocation knows
    BadZone,      \* a name that it does not know
    WindowSets,   \* the sets of windows that schedules are written with
    MaxShifts     \* bound: changes of an offset

VARIABLES
    schedule,  \* the windows and the power state inside them
    now,       \* the minute of the week
    offset,    \* how far each zone is ahead of UTC
    shifts     \* what is left of MaxShifts

vars == <<schedule, now, offset, shifts>>

Power == {"on", "off"}
Week == DayLength * DaysPerWeek
Minutes == 0..(DayLength - 1)
Days == 0..(DaysPerWeek - 1)

Windows ==
    [start : Minutes, end : Minutes, days : SUBSET Days, zone : Zones \cup {BadZone}]

ASSUME ScheduleAssumption ==
    /\ DayLength \in Nat \ {0}
    /\ DaysPerWeek \in Nat \ {0}
    /\ BadZone \notin Zones
    /\ \A ws \in WindowSets : ws \subseteq Windows
    /\ MaxShifts \in Nat

-----------------------------------------------------------------------------
(* timewindow.go *)

Opposite(state) == IF state = "on" THEN "off" ELSE "on"

\* now.In(loc): the wall clock of a zone, its weekday and its minute.
Local(zone) == (now + offset[zone]) % Week
Weekday(zone) == Local(zone) \div DayLength
MinuteOf(zone) == Local(zone) % DayLength

CrossesMidnight(w) == w.start > w.end

\* Mutant: the day before Sunday falls out of the week.
PreviousWeekdayNoWrap(day) == day - 1

PreviousWeekday(day) == IF day = 0 THEN DaysPerWeek - 1 ELSE day - 1

\* Mutant: the early segment counts for the day it falls on.
IsDayMatchToday(w) == w.days # {} => Weekday(w.zone) \in w.days

\* The part of a window after midnight belongs to the day before.
IsDayMatch(w) ==
    w.days # {} =>
        IF CrossesMidnight(w) /\ MinuteOf(w.zone) < w.end
        THEN PreviousWeekday(Weekday(w.zone)) \in w.days
        ELSE Weekday(w.zone) \in w.days

IsInWindow(w) ==
    /\ w.zone \in Zones
    /\ IsDayMatch(w)
    /\ IF CrossesMidnight(w)
       THEN MinuteOf(w.zone) >= w.start \/ MinuteOf(w.zone) < w.end
       ELSE MinuteOf(w.zone) >= w.start /\ MinuteOf(w.zone) < w.end

IsInAnyWindow(windows) == \E w \in windows : IsInWindow(w)

EvaluateSchedule(s) ==
    IF s.windows = {} \/ IsInAnyWindow(s.windows)
    THEN s.desired ELSE Opposite(s.desired)

-----------------------------------------------------------------------------
Tick ==
    /\ now' = (now + 1) % Week
    /\ UNCHANGED <<schedule, offset, shifts>>

\* Daylight saving begins or ends in a zone.
ShiftClock(zone) ==
    /\ shifts > 0
    /\ shifts' = shifts - 1
    /\ \E by \in {1, Week - 1} :
          offset' = [offset EXCEPT ![zone] = (@ + by) % Week]
    /\ UNCHANGED <<schedule, now>>

Init ==
    /\ schedule \in [windows : WindowSets, desired : Power]
    /\ now = 0
    /\ offset = [z \in Zones |-> 0]
    /\ shifts = MaxShifts

Next ==
    \/ Tick
    \/ \E z \in Zones : ShiftClock(z)

Spec == Init /\ [][Next]_vars

-----------------------------------------------------------------------------
(* Properties *)

\* The reference: a window is a run of minutes that starts on each of its days
\* (on every day, if it lists none) and may reach into the next day.
Open(w) ==
    /\ w.zone \in Zones
    /\ \E d \in IF w.days = {} THEN Days ELSE w.days :
          (Local(w.zone) - (d * DayLength + w.start)) % Week
              < (w.end - w.start) % DayLength

\* IsInWindow, with its two cases and its special treatment of the hours after
\* midnight, is the reference, across midnight and across the end of the week.
WindowsAreIntervals ==
    \A w \in schedule.windows : IsInWindow(w) <=> Open(w)

\* As the clock runs, a schedule changes state only at the start or the end of
\* one of its windows: not at midnight, not when the week begins again
\* (isDayMatch, previousWeekday).
SwitchesAtBoundaries ==
    [][/\ now' # now
       /\ EvaluateSchedule(schedule)' # EvaluateSchedule(schedule)
       => \E w \in schedule.windows :
             /\ w.zone \in Zones
             /\ MinuteOf(w.zone)' \in {w.start, w.end}]_vars
=============================================================================
