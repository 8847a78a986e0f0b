CONSTANTS
    ann = ann
    bob = bob
    first = first
    second = second
    Players = {ann, bob}
    Parties = {}
    Drops = {first, second}
    Killer <- MCKiller
    PlayerDrops = {}
    FreeForAll = {}
    OnlyOne = {first, second}
    Points = {}
    ReactorFood = {}
    IronMen = {}
    Unneeded = {}
    Nobody = Nobody
SPECIFICATION Spec
INVARIANT OnlyOneGranted
