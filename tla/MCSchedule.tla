----------------------------- MODULE MCSchedule -----------------------------
(* Instances of Schedule for TLC: every single window, and every pair of    *)
(* windows that are both open on one day alone or on every day.             *)
EXTENDS Schedule

OneDay ==
    {w \in Windows : w.zone \in Zones /\ w.days \in {{}, {0}, {DaysPerWeek - 1}}}

MCWindowSets ==
    {{}} \cup {{w} : w \in Windows} \cup {{v, w} : v \in OneDay, w \in OneDay}
=============================================================================
