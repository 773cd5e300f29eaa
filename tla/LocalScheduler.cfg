CONSTANTS
    r1 = r1
    r2 = r2
    Schedules = {s1}
    Triggers <- MCTriggers
    Runners = {r1, r2}
    MaxTime = 4
    Beginnings <- MCBeginnings
CHECK_DEADLOCK FALSE
SPECIFICATION FairSpec
PROPERTIES FiresAsAgreed DueSchedulesFire
