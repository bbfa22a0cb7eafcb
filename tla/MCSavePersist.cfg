\* Every combination of faults.
SPECIFICATION FairSpec
CONSTANTS
    Keys = {game, place}
    MaxChanges = 4
    MaxStarts = 3
    Broken = Broken
INVARIANTS
    SavedSurvives
    QuietSaved
PROPERTIES
    NoOlderSave
    ChangesAreSaved
\* The program may have been closed for the last time.
CHECK_DEADLOCK FALSE
