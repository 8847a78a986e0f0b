-------------------------- MODULE MCStackInventory --------------------------
\* Potions (id 1) that stack up to three and stars (id 2), in three slots.
EXTENDS StackInventory

MCSlotMax == [id \in Ids |-> 3]
=============================================================================
