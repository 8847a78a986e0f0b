--------------------------- MODULE EquipInventory ---------------------------
(***************************************************************************)
(* The equipment of one character: the EQUIP bag, the EQUIPPED slots and   *)
(* the moves between them (MapleInventoryManipulator.equip, unequip, move, *)
(* drop, addFromDrop over MapleInventory).  The packet handlers of one     *)
(* client run one after the other on its Netty event loop, so each handler *)
(* is one step.                                                            *)
(*                                                                         *)
(* A slot of the bag is a positive number, a slot of the body a negative   *)
(* one, as in the code.  An inventory is a function of its slots, with     *)
(* NoItem where the code's map has no key.  An item carries a position of  *)
(* its own (Item.position) next to the key it is stored under.             *)
(*                                                                         *)
(* An original is an equip of quantity 1.  A drop of quantity 0 splits it: *)
(* it stays where it is, and a copy of quantity 0 appears on the map, which *)
(* can be picked up and worn.  No request changes the quantity of an equip *)
(* that stays in play, so originals and copies are told apart by constants.*)
(*                                                                         *)
(* Left out: attributes, requirements (canWearEquipment may refuse for     *)
(* them: the request is then as if never made, as is one for a weapon worn *)
(* for show over a weapon it does not fit), mounts, the pendant timer, and *)
(* equips of which one may be held (pickupRestricted), whose second copy a *)
(* pick-up refuses and a sort may lose.                                    *)
(***************************************************************************)
EXTENDS Integers, FiniteSets, Functions

CONSTANTS
    Items,      \* the equips that may come into play
    Originals,  \* those that exist from the start; the rest bounds the copies
    Kind,       \* the kind of each item (the "islot" text of its data)
    Id,         \* item ids, the order SortItemHandler sorts by
    Restricted, \* items that vanish when dropped (isDropRestricted or cash)
    NoItem,     \* the value of an empty slot
    StartWorn,  \* what the character wears when created or loaded
    StartLimit, \* the bag's slot limit then
    MaxLimit,   \* the largest slot limit (96 in gainSlots)
    LastSlot    \* bound on the slots a request names: unequip checks none

\* Rings are those with a ring id: wedding rings and, for cash, couple rings.
\* A costume is a top or an overall for cash.
RingKinds == {"Ring", "CashRing"}
Kinds == {"Top", "Overall", "Pants", "Shield", "OneHanded", "TwoHanded",
          "Costume", "PetEquip"} \cup RingKinds
WornSlots == {-5, -6, -10, -11, -12, -13, -105, -112, -113}
BagSlots == 1 .. LastSlot

\* EquipSlot: the slots of the body that take a kind of item.  A cash item
\* goes 100 lower; one whose kind EquipSlot does not know goes anywhere.
Allowed(kind) ==
    CASE kind \in {"Top", "Overall"} -> {-5}
      [] kind = "Pants" -> {-6}
      [] kind = "Shield" -> {-10}
      [] kind \in {"OneHanded", "TwoHanded"} -> {-11}
      [] kind = "Ring" -> {-12, -13}
      [] kind = "CashRing" -> {-112, -113}
      [] kind = "Costume" -> {-105}
      [] OTHER -> WornSlots

\* Pairs of items that cannot be worn together.
Clash(i, j) ==
    \/ Kind[i] = "Overall" /\ Kind[j] = "Pants"
    \/ Kind[i] = "TwoHanded" /\ Kind[j] = "Shield"

ASSUME LimitAssumption ==
    /\ MaxLimit \in Nat /\ LastSlot \in Nat
    /\ MaxLimit <= LastSlot
    /\ StartLimit \in 0 .. MaxLimit

ASSUME ItemAssumption ==
    /\ NoItem \notin Items
    /\ Kind \in [Items -> Kinds]
    /\ Id \in [Items -> Nat]
    /\ Originals \subseteq Items
    /\ Restricted \subseteq Items

ASSUME StartAssumption ==
    /\ StartWorn \in [WornSlots -> Originals \cup {NoItem}]
    /\ \A s \in WornSlots : StartWorn[s] # NoItem => s \in Allowed(Kind[StartWorn[s]])
    /\ \A s, t \in WornSlots : StartWorn[s] # NoItem /\ StartWorn[t] # NoItem =>
            /\ StartWorn[s] = StartWorn[t] => s = t
            /\ ~ Clash(StartWorn[s], StartWorn[t])

VARIABLES
    bag,        \* the EQUIP inventory
    worn,       \* the EQUIPPED inventory
    position,   \* Item.position of every item
    slotLimit,  \* slotLimit of the EQUIP inventory
    ringOn,     \* MapleRing.equipped
    ground,     \* items lying on the map
    gone,       \* items destroyed by a scroll or by a drop that may not be
    made        \* the originals and the copies made so far

vars == <<bag, worn, position, slotLimit, ringOn, ground, gone, made>>

-----------------------------------------------------------------------------
(* MapleInventory                                                           *)

Occupied == {s \in BagSlots : bag[s] # NoItem}
Held == Range(bag) \ {NoItem}
Worn == Range(worn) \ {NoItem}

IsFull == Cardinality(Occupied) >= slotLimit

FreeSlots == {s \in 1 .. slotLimit : bag[s] = NoItem}

\* getNextFreeSlot, when the bag is not full: the first slot with no key.
NextFreeSlot == CHOOSE s \in FreeSlots : \A t \in FreeSlots : s <= t

\* Item.setPosition followed by addFromDB, which stores under that position.
Place(pos, i, s) == [j \in Items |-> IF j = i THEN s ELSE pos[j]]

-----------------------------------------------------------------------------
(* MapleInventoryManipulator                                                *)

\* Mutant: an overall does not take the pants off.
DisplacedNotPants(i, dst) ==
    {s \in WornSlots :
        /\ worn[s] # NoItem
        /\ \/ dst = -6 /\ s = -5 /\ Kind[worn[s]] = "Overall"
           \/ dst = -10 /\ s = -11 /\ Kind[worn[s]] = "TwoHanded"
           \/ dst = -11 /\ s = -10 /\ Kind[i] = "TwoHanded"}

\* equip: the worn slot that is emptied first because its item cannot stay on
\* with item i in slot dst (an overall and pants, a two-handed weapon and a shield).
Displaced(i, dst) ==
    {s \in WornSlots :
        /\ worn[s] # NoItem
        /\ \/ dst = -6 /\ s = -5 /\ Kind[worn[s]] = "Overall"
           \/ dst = -5 /\ s = -6 /\ Kind[i] = "Overall"
           \/ dst = -10 /\ s = -11 /\ Kind[worn[s]] = "TwoHanded"
           \/ dst = -11 /\ s = -10 /\ Kind[i] = "TwoHanded"}

\* Mutant: target.setPosition(src) is forgotten.
ExchangeKeepsPosition(b, w, pos, src, dst) ==
    /\ bag' = [b EXCEPT ![src] = w[dst]]
    /\ worn' = [w EXCEPT ![dst] = b[src]]
    /\ position' = Place(pos, b[src], dst)

\* The exchange at the end of equip: what was worn in dst goes to slot src of
\* the bag, whose item is worn instead.
Exchange(b, w, pos, src, dst) ==
    /\ bag' = [b EXCEPT ![src] = w[dst]]
    /\ worn' = [w EXCEPT ![dst] = b[src]]
    /\ position' = Place(Place(pos, b[src], dst), w[dst], src)

EquipOver(src, dst) ==
    /\ Displaced(bag[src], dst) = {}
    /\ Exchange(bag, worn, position, src, dst)

\* The nested call of unequip, then the exchange.  A full bag refuses.
EquipDisplacing(src, dst) ==
    \E s \in Displaced(bag[src], dst) :
        /\ ~ IsFull
        /\ Exchange([bag EXCEPT ![NextFreeSlot] = worn[s]],
                    [worn EXCEPT ![s] = NoItem],
                    Place(position, worn[s], NextFreeSlot),
                    src, dst)

\* Mutants: the slot is not checked; the ring is not marked.
EquipAnywhere(src, dst) ==
    /\ bag[src] # NoItem
    /\ EquipOver(src, dst) \/ EquipDisplacing(src, dst)
    /\ ringOn' = [ringOn EXCEPT ![bag[src]] = Kind[bag[src]] \in RingKinds]
    /\ UNCHANGED <<slotLimit, ground, gone, made>>

EquipRingUnmarked(src, dst) ==
    /\ bag[src] # NoItem
    /\ dst \in Allowed(Kind[bag[src]])
    /\ EquipOver(src, dst) \/ EquipDisplacing(src, dst)
    /\ UNCHANGED <<ringOn, slotLimit, ground, gone, made>>

Equip(src, dst) ==
    /\ bag[src] # NoItem
    /\ dst \in Allowed(Kind[bag[src]])
    /\ EquipOver(src, dst) \/ EquipDisplacing(src, dst)
    /\ ringOn' = [ringOn EXCEPT ![bag[src]] = Kind[bag[src]] \in RingKinds]
    /\ UNCHANGED <<slotLimit, ground, gone, made>>

\* Mutant: a taken slot of the bag does not refuse.
UnequipOver(src, dst) ==
    /\ worn[src] # NoItem
    /\ bag' = [bag EXCEPT ![dst] = worn[src]]
    /\ worn' = [worn EXCEPT ![src] = NoItem]
    /\ position' = Place(position, worn[src], dst)
    /\ ringOn' = [ringOn EXCEPT ![worn[src]] = FALSE]
    /\ UNCHANGED <<slotLimit, ground, gone, made>>

\* unequip: refused when the slot of the bag is taken (src is negative here).
Unequip(src, dst) ==
    /\ worn[src] # NoItem
    /\ bag[dst] = NoItem
    /\ bag' = [bag EXCEPT ![dst] = worn[src]]
    /\ worn' = [worn EXCEPT ![src] = NoItem]
    /\ position' = Place(position, worn[src], dst)
    /\ ringOn' = [ringOn EXCEPT ![worn[src]] = FALSE]
    /\ UNCHANGED <<slotLimit, ground, gone, made>>

\* Two equips of one id that fit on one stack: slotMax is 1, so one is a copy.
Merges(i, j) == Id[i] = Id[j] /\ ~ ({i, j} \subseteq Originals)

\* move within the bag.  Equips are swapped; where MapleInventory.move then finds
\* that the two fit on one stack, it removes the slot the source came from, which
\* by now holds the target (or, on its own slot, the copy itself).
Move(src, dst) ==
    /\ dst <= slotLimit
    /\ bag[src] # NoItem
    /\ bag' = IF bag[dst] # NoItem /\ Merges(bag[src], bag[dst])
              THEN [bag EXCEPT ![dst] = bag[src], ![src] = NoItem]
              ELSE [bag EXCEPT ![src] = bag[dst], ![dst] = bag[src]]
    /\ position' = Place(Place(position, bag[dst], src), bag[src], dst)
    /\ UNCHANGED <<worn, slotLimit, ringOn, ground, gone, made>>

\* Where a dropped equip goes: the map, or nowhere when it may not be dropped.
Discard(i) ==
    /\ ground' = IF i \in Restricted THEN ground ELSE ground \cup {i}
    /\ gone' = IF i \in Restricted THEN gone \cup {i} ELSE gone
    /\ UNCHANGED <<position, slotLimit, ringOn, made>>

\* Mutant: removeSlot is forgotten.
DropKeepsSlot(src) ==
    /\ bag[src] # NoItem
    /\ UNCHANGED <<bag, worn>>
    /\ Discard(bag[src])

\* drop of the one equip in a slot of the bag (src > 0) or of the body (src < 0):
\* an original with a quantity of 1 or more, a copy with 0.
DropFromBag(src) ==
    /\ bag[src] # NoItem
    /\ bag' = [bag EXCEPT ![src] = NoItem]
    /\ worn' = worn
    /\ Discard(bag[src])

DropWorn(src) ==
    /\ worn[src] # NoItem
    /\ worn' = [worn EXCEPT ![src] = NoItem]
    /\ bag' = bag
    /\ Discard(worn[src])

\* drop of an original with a quantity of 0, less than it has: the branch that
\* splits a stack.  The split half of a ring or of a restricted item disappears.
DropNone(i, copy) ==
    /\ i \in Originals \ Restricted /\ copy \in Items \ (made \cup Restricted)
    /\ i \in Held \cup Worn /\ Kind[i] \notin RingKinds
    /\ Id[copy] = Id[i] /\ Kind[copy] = Kind[i]
    /\ made' = made \cup {copy}
    /\ ground' = ground \cup {copy}
    /\ UNCHANGED <<bag, worn, position, slotLimit, ringOn, gone>>

\* addFromDrop with MapleInventory.addItem: a full bag refuses the item.
AddFromDrop(i) ==
    /\ i \in ground
    /\ ~ IsFull
    /\ bag' = [bag EXCEPT ![NextFreeSlot] = i]
    /\ position' = Place(position, i, NextFreeSlot)
    /\ ground' = ground \ {i}
    /\ UNCHANGED <<worn, slotLimit, ringOn, gone, made>>

\* A failed scroll destroys the equip it was used on, by the position the item
\* has.  A copy stays: its quantity would fall below 0, which Equip refuses.
ScrollDestroys(i) ==
    /\ i \in Originals
    /\ \/ /\ position[i] < 0
          /\ i \in Worn
          /\ worn' = [worn EXCEPT ![position[i]] = NoItem]
          /\ bag' = bag
       \/ /\ position[i] > 0
          /\ i \in Held
          /\ bag' = [bag EXCEPT ![position[i]] = NoItem]
          /\ worn' = worn
    /\ gone' = gone \cup {i}
    /\ UNCHANGED <<position, slotLimit, ringOn, ground, made>>

\* sortItems: the order of ids, and any order among items of one id.
Rankings == {rank \in Bijection(Held, 1 .. Cardinality(Held)) :
                \A i, j \in Held : Id[i] < Id[j] => rank[i] < rank[j]}

\* SortItemHandler: every item leaves the bag, from slots over the limit too, and
\* comes back in that order, each to the next free slot within the limit; one
\* that finds none is not put back.
SortItems ==
    /\ \E rank \in Rankings :
        /\ bag' = [s \in BagSlots |->
                     IF s <= slotLimit /\ \E i \in Held : rank[i] = s
                     THEN CHOOSE i \in Held : rank[i] = s
                     ELSE NoItem]
        /\ position' = [i \in Items |-> IF i \in Held THEN rank[i] ELSE position[i]]
    /\ UNCHANGED <<worn, slotLimit, ringOn, ground, gone, made>>

\* MapleCharacter.gainSlots
GainSlots(n) ==
    /\ slotLimit < MaxLimit
    /\ slotLimit' = IF slotLimit + n > MaxLimit THEN MaxLimit ELSE slotLimit + n
    /\ UNCHANGED <<bag, worn, position, ringOn, ground, gone, made>>

-----------------------------------------------------------------------------
Init ==
    /\ bag = [s \in BagSlots |-> NoItem]
    /\ worn = StartWorn
    /\ position = [i \in Items |-> IF \E s \in WornSlots : StartWorn[s] = i
                                   THEN CHOOSE s \in WornSlots : StartWorn[s] = i
                                   ELSE 0]
    /\ slotLimit = StartLimit
    /\ ringOn = [i \in Items |-> Kind[i] \in RingKinds /\ \E s \in WornSlots : StartWorn[s] = i]
    /\ ground = {i \in Originals : \A s \in WornSlots : StartWorn[s] # i}
    /\ gone = {}
    /\ made = Originals

Next ==
    \/ \E src \in BagSlots, dst \in WornSlots : Equip(src, dst)
    \/ \E src \in WornSlots, dst \in BagSlots : Unequip(src, dst)
    \/ \E src \in BagSlots, dst \in BagSlots : Move(src, dst)
    \/ \E src \in BagSlots : DropFromBag(src)
    \/ \E src \in WornSlots : DropWorn(src)
    \/ \E i, copy \in Items : DropNone(i, copy)
    \/ \E i \in Items : AddFromDrop(i)
    \/ \E i \in Items : ScrollDestroys(i)
    \/ SortItems
    \/ \E n \in 1 .. MaxLimit : GainSlots(n)

Spec == Init /\ [][Next]_vars

-----------------------------------------------------------------------------
TypeOK ==
    /\ bag \in [BagSlots -> Items \cup {NoItem}]
    /\ worn \in [WornSlots -> Items \cup {NoItem}]
    /\ position \in [Items -> Int]
    /\ slotLimit \in 0 .. MaxLimit
    /\ ringOn \in [Items -> BOOLEAN]
    /\ ground \in SUBSET Items
    /\ gone \in SUBSET Items
    /\ made \in SUBSET Items

\* The position an item carries is the slot it is stored under, in the bag and on
\* the body.  removeItem, drop and the scroll code find an item again by it.
PositionIsSlot ==
    /\ \A s \in BagSlots : bag[s] # NoItem => position[bag[s]] = s
    /\ \A s \in WornSlots : worn[s] # NoItem => position[worn[s]] = s

Present == Held \cup Worn \cup ground

\* No sequence of requests doubles an item, an original or a copy: it is in the
\* bag, on the body or on the map, in one of these only (and by PositionIsSlot in
\* one slot only), and nothing destroyed or not yet made is in any.
OnePlace ==
    /\ Held \cap Worn = {} /\ Held \cap ground = {} /\ Worn \cap ground = {}
    /\ Present \cap gone = {}
    /\ Present \cup gone \cup Originals \subseteq made

\* The bag is full up to its limit, and empty beyond it.
FullToLimit == \A s \in BagSlots : bag[s] # NoItem <=> s <= slotLimit

\* No request makes an original, and none loses one but by a scroll, by the drop
\* of what may not be dropped, by a sort of a bag that an unequip has filled over
\* its limit (which leaves it full), or by moving a copy of it, which stays, onto
\* it: not the nested unequip, the exchange, an unequip over the limit, the drop
\* that copies, nor a sort of a bag that merely uses slots over the limit.
OriginalsKept ==
    /\ Originals \cap Present' \subseteq Present
    /\ \A i \in Originals \cap (Present \ (Present' \cup gone')) :
          /\ i \in Held /\ worn' = worn
          /\ \/ Cardinality(Held) > slotLimit /\ FullToLimit'
             \/ \E copy \in (Held \cap Held') \ Originals : Id[copy] = Id[i]

Conserved == [][OriginalsKept]_vars

\* The rule the nested unequip calls of equip enforce: never an overall with
\* pants, never a two-handed weapon with a shield, whatever the order in which
\* they were put on and however full the bag was.
NoClash == \A s, t \in WornSlots :
    worn[s] # NoItem /\ worn[t] # NoItem => ~ Clash(worn[s], worn[t])

\* Everything worn is in a slot made for it.
SlotsFit == \A s \in WornSlots : worn[s] # NoItem => s \in Allowed(Kind[worn[s]])

\* A ring on the body is marked equipped (the converse does not hold: equip
\* does not reset the ring it takes off, nor does drop).
WornRingsOn == \A s \in WornSlots :
    worn[s] # NoItem /\ Kind[worn[s]] \in RingKinds => ringOn[worn[s]]
=============================================================================
