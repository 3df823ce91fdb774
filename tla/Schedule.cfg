SPECIFICATION Spec
CONSTANTS
    DayLength = 4
    DaysPerWeek = 3
    Zones = {"UTC"}
    BadZone = "Nowhere"
    WindowSets <- MCWindowSets
    MaxShifts = 1
INVARIANT WindowsAreIntervals
PROPERTY SwitchesAtBoundaries
