CONSTANTS
    Zones = {0, 1}
    LastStart = 19
    Time <- MCTime
    Starts <- MCStarts
    Texts <- MCTexts
    FieldMin <- MCFieldMin
    FieldMax <- MCFieldMax
    Shown <- MCShown
    NextMonth <- MCNextMonth
    NextDay <- MCNextDay
    InAnHour <- MCInAnHour
    InFourYears <- MCInFourYears
    WholeHours <- MCWholeHours
SPECIFICATION FairSpec
INVARIANTS TypeOK NextIsFirst
PROPERTY NextReturns
CHECK_DEADLOCK FALSE
