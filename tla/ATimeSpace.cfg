SPECIFICATION Spec
CONSTANTS
    Sites <- MCSites
    Days <- MCDays
    Dates <- MCDates
    Wanted <- MCWanted
INVARIANT OfTheTimeAndPlace
