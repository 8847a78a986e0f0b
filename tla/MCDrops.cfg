CONSTANTS
    ann = ann
    bob = bob
    first = first
    second = second
    Players = {ann, bob, cat}
    Parties = {party}
    Drops = {first, second}
    Killer <- MCKiller
    PlayerDrops = {first}
    FreeForAll = {}
    OnlyOne = {}
    Points = {second}
    ReactorFood = {first}
    IronMen = {bob}
    Unneeded <- MCUnneeded
    Nobody = Nobody
SPECIFICATION Spec
INVARIANT GrantedOnce
