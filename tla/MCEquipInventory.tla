-------------------------- MODULE MCEquipInventory --------------------------
\* A small instance of EquipInventory: a character created in pants finds an overall,
\* a two-handed weapon, a shield and a ring, and can make a copy of the overall.
EXTENDS EquipInventory

CONSTANTS pants, overall, overall2, twoHanded, shield, ring

MCKind == [i \in Items |->
    CASE i = pants -> "Pants"
      [] i \in {overall, overall2} -> "Overall"
      [] i = twoHanded -> "TwoHanded"
      [] i = shield -> "Shield"
      [] OTHER -> "Ring"]

MCId == [i \in Items |->
    CASE i = pants -> 6
      [] i \in {overall, overall2} -> 5
      [] i = twoHanded -> 2
      [] i = shield -> 3
      [] OTHER -> 7]

MCStartWorn == [s \in WornSlots |-> IF s = -6 THEN pants ELSE NoItem]
=============================================================================
