CONSTANTS
    Players = {ann, bob}
    Leavers = {bob}
    Rooms <- MCRooms
    MaxStays = 2
    MaxReloads = 1
SPECIFICATION FairSpec
INVARIANTS OneGuest GateShut GuestsKnow
PROPERTY Reopens
CHECK_DEADLOCK FALSE
