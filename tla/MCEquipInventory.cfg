CONSTANTS
    pants = pants
    overall = overall
    overall2 = overall2
    twoHanded = twoHanded
    shield = shield
    ring = ring
    Items = {pants, overall, overall2, twoHanded, shield, ring}
    Originals = {pants, overall, twoHanded, shield, ring}
    NoItem = NoItem
    Restricted = {twoHanded, shield, ring}
    Kind <- MCKind
    Id <- MCId
    StartWorn <- MCStartWorn
    StartLimit = 1
    MaxLimit = 2
    LastSlot = 2
SPECIFICATION Spec
INVARIANTS PositionIsSlot OnePlace NoClash SlotsFit WornRingsOn
 
