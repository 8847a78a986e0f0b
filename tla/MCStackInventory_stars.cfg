CONSTANTS
    Ids = {1, 2}
    Rechargeable = {2}
    SlotMax <- MCSlotMax
    Expirations = {never, friday}
    Limit = 3
    MaxQuantity = 4
    Empty = Empty
SPECIFICATION Spec
INVARIANT StarsAllTaken
