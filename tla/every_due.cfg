\* Two runs serve two schedules of dates; two runs, one of which may die, serve one of dates and a meter.
CONSTANTS
    Schedules = {s1, s2}
    Generators = {g1, g2}
    PlanEditors = {e1}
    NoRun = NoRun
    NoPlan = NoPlan
    StartDates = {0}
    Intervals = {1}
    MeterIntervals = {0, 1}
    LastDay = 1
    MaxReading = 0
    Unlucky = {g1}
    MaxGenerations = 1
    alone = s1
SPECIFICATION DuesSpec
PROPERTIES EveryDueIsServed PausedStaysQuiet
