CONSTANTS
    ann = ann
    bob = bob
    first = first
    second = second
    Players = {ann, bob}
    Parties = {}
    Drops = {first, second, card}
    Killer <- MCKiller
    PlayerDrops = {}
    FreeForAll = {second}
    OnlyOne = {first, second}
    Points = {card}
    ReactorFood = {}
    IronMen = {}
    Unneeded = {}
    Nobody = Nobody
SPECIFICATION FairSpec
PROPERTIES AllServed GrantedLeaves
