CONSTANTS
    Players = {ann}
    Lines <- MCLines
    Waits = {1, 4, 9}
    MaxReloads = 1
SPECIFICATION FairSpec
INVARIANTS OneTimetable NoneLeftBehind
PROPERTIES BoardsInTime RideTakesItsTime LandsWhereBound LeavingGoesBack
    WaitersLeave RidersLand
