SPECIFICATION CalendarSpec
CONSTANTS
    Day = 2
    Offset = 1
    Drafts <- MCDrafts
    Availabilities <- MCAvailabilities
    Times <- MCTimes
    Windows <- MCWindowsInOrder
    Filters <- MCFilters
    Texts <- MCTexts
    Horizon <- MCHorizon
    MaxEdits = 3
INVARIANTS
    QueriesFindOverlaps
    IndexesAgree
    ExtractsShowTheWindow
    FreeBusyIsTrue
CHECK_DEADLOCK FALSE
