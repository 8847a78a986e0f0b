------------------------ MODULE EquipInventory_proofs ------------------------
(***************************************************************************)
(* Proofs about EquipInventory, for every set of items and every limit.    *)
(*                                                                         *)
(* None of the invariants is inductive alone.  An exchange keeps an item   *)
(* only if the slot it leaves holds nothing else under the same position;  *)
(* the nested unequip of equip succeeds only if a bag that is not full has *)
(* a free slot; a copy is a new item only if whatever is in play was made. *)
(* IInv is their conjunction, and every step from it keeps the originals   *)
(* (OriginalsKept), whatever slots over the limit were filled.             *)
(***************************************************************************)
EXTENDS EquipInventory, FiniteSetTheorems, WellFoundedInduction, TLAPS

IInv ==
    /\ TypeOK
    /\ PositionIsSlot
    /\ OnePlace
    /\ SlotsFit
    /\ NoClash
    /\ WornRingsOn

-----------------------------------------------------------------------------
(* Facts about the inventory operators                                      *)

\* A finite set of integers that is not empty has a least element: the one
\* with the smallest set of elements below it.
LEMMA LeastElement ==
    ASSUME NEW S, S \subseteq Int, IsFiniteSet(S), S # {}
    PROVE  \E m \in S : \A n \in S : m <= n
  <1> DEFINE Below(m) == {n \in S : n < m}
             Belows == {Below(m) : m \in S}
  <1>1. Belows \subseteq FiniteSubsetsOf(S) /\ Belows # {}
    <2>1. \A m \in S : Below(m) \in SUBSET S
      OBVIOUS
    <2> HIDE DEF Below
    <2>2. Belows \subseteq SUBSET S
      BY <2>1
    <2>3. Belows # {}
      OBVIOUS
    <2> QED
      BY <2>2, <2>3, FS_FiniteSubsetsOfFinite
  <1>2. PICK B \in Belows : \A C \in Belows : ~ (<<C, B>> \in StrictSubsetOrdering(S))
    <2> HIDE DEF Belows
    <2> QED
      BY <1>1, FS_StrictSubsetOrderingWellFounded, WFMin
  <1>3. PICK m \in S : B = Below(m)
    BY <1>2
  <1>4. ASSUME NEW n \in S, n < m
        PROVE  FALSE
    <2>1. \A i, j, k \in Int : i < j /\ j < k => i < k
      OBVIOUS
    <2>2. n \in Int /\ m \in Int
      OBVIOUS
    <2>3. Below(n) \subseteq Below(m)
      BY <1>4, <2>1, <2>2
    <2>4. n \in Below(m) /\ n \notin Below(n)
      BY <1>4, <2>2
    <2>5. <<Below(n), Below(m)>> \in StrictSubsetOrdering(S)
      BY <2>3, <2>4 DEF StrictSubsetOrdering
    <2> QED
      BY <1>2, <1>3, <2>5
  <1> QED
    BY <1>4

\* getNextFreeSlot never fails on a bag for which isFull answered no: fewer
\* items than slots leave a slot between 1 and the limit without a key.
LEMMA FreeSlotExists ==
    ASSUME TypeOK, ~ IsFull
    PROVE  /\ NextFreeSlot \in FreeSlots
           /\ NextFreeSlot \in BagSlots
           /\ bag[NextFreeSlot] = NoItem
           /\ NextFreeSlot <= slotLimit
  <1>1. slotLimit \in Nat /\ slotLimit <= LastSlot /\ LastSlot \in Nat
    BY LimitAssumption DEF TypeOK
  <1>2. /\ IsFiniteSet(Occupied)
        /\ Cardinality(Occupied) \in Nat
    <2>1. IsFiniteSet(BagSlots)
      BY <1>1, FS_Interval DEF BagSlots
    <2>2. Occupied \in SUBSET BagSlots
      BY DEF Occupied
    <2> QED
      BY <2>1, <2>2, FS_Subset, FS_CardinalityType
  <1>3. ~ (1 .. slotLimit \subseteq Occupied)
    <2>1. SUFFICES ASSUME 1 .. slotLimit \subseteq Occupied
                   PROVE  FALSE
      OBVIOUS
    <2>2. Cardinality(1 .. slotLimit) = slotLimit
      BY <1>1, FS_Interval
    <2>3. Cardinality(1 .. slotLimit) <= Cardinality(Occupied)
      BY <2>1, <1>2, FS_Subset
    <2> QED
      BY <1>1, <1>2, <2>2, <2>3 DEF IsFull
  <1>4. FreeSlots # {}
    BY <1>1, <1>3 DEF FreeSlots, Occupied, BagSlots
  <1>5. FreeSlots \subseteq Int
    BY <1>1 DEF FreeSlots
  <1>6. IsFiniteSet(FreeSlots)
    <2>1. FreeSlots \in SUBSET (1 .. slotLimit)
      BY DEF FreeSlots
    <2>2. IsFiniteSet(1 .. slotLimit)
      BY <1>1, FS_Interval
    <2> QED
      BY <2>1, <2>2, FS_Subset
  <1>7. \E s \in FreeSlots : \A t \in FreeSlots : s <= t
    BY <1>4, <1>5, <1>6, LeastElement
  <1>8. NextFreeSlot \in FreeSlots
    BY <1>7 DEF NextFreeSlot
  <1> QED
    BY <1>1, <1>8 DEF FreeSlots, BagSlots

-----------------------------------------------------------------------------
(* Facts about a pair of inventories and the positions of their items       *)

In(inv) == Range(inv) \ {NoItem}

\* Inventories b and w that hold every item in one slot at most, its position.
Tidy(b, w, pos) ==
    /\ b \in [BagSlots -> Items \cup {NoItem}]
    /\ w \in [WornSlots -> Items \cup {NoItem}]
    /\ pos \in [Items -> Int]
    /\ \A s \in BagSlots : b[s] # NoItem => pos[b[s]] = s
    /\ \A s \in WornSlots : w[s] # NoItem => pos[w[s]] = s

LEMMA SlotsDiffer == BagSlots \cap WornSlots = {} /\ BagSlots \subseteq Int /\ WornSlots \subseteq Int
  BY LimitAssumption DEF BagSlots, WornSlots

\* An item is never in two slots of tidy inventories.
LEMMA TidyInjective ==
    ASSUME NEW b, NEW w, NEW pos, Tidy(b, w, pos)
    PROVE  /\ \A s, t \in BagSlots : b[s] # NoItem /\ b[s] = b[t] => s = t
           /\ \A s, t \in WornSlots : w[s] # NoItem /\ w[s] = w[t] => s = t
           /\ \A s \in BagSlots, t \in WornSlots : b[s] # NoItem => b[s] # w[t]
  BY SlotsDiffer DEF Tidy

\* The two ways in which equip and unequip move items, as relations between
\* inventories with positions before (b, w, pos) and after (b1, w1, p1).
TakenOff(b, w, pos, src, dst, b1, w1, p1) ==
    /\ src \in WornSlots /\ w[src] # NoItem
    /\ dst \in BagSlots /\ b[dst] = NoItem
    /\ b1 = [b EXCEPT ![dst] = w[src]]
    /\ w1 = [w EXCEPT ![src] = NoItem]
    /\ p1 = Place(pos, w[src], dst)

Exchanged(b, w, pos, src, dst, b1, w1, p1) ==
    /\ src \in BagSlots /\ b[src] # NoItem
    /\ dst \in WornSlots
    /\ b1 = [b EXCEPT ![src] = w[dst]]
    /\ w1 = [w EXCEPT ![dst] = b[src]]
    /\ p1 = Place(Place(pos, b[src], dst), w[dst], src)

\* Taking an item off into a free slot of the bag keeps both inventories tidy.
LEMMA TakeOff ==
    ASSUME NEW b, NEW w, NEW pos, NEW src, NEW dst, NEW b1, NEW w1, NEW p1,
           Tidy(b, w, pos),
           TakenOff(b, w, pos, src, dst, b1, w1, p1)
    PROVE  /\ Tidy(b1, w1, p1)
           /\ In(b1) = In(b) \cup {w[src]}
           /\ In(w1) = In(w) \ {w[src]}
  <1> USE SlotsDiffer, ItemAssumption DEF TakenOff
  <1>1. /\ b1 \in [BagSlots -> Items \cup {NoItem}]
        /\ w1 \in [WornSlots -> Items \cup {NoItem}]
        /\ p1 \in [Items -> Int]
    BY DEF Tidy, Place
  <1>2. \A s \in BagSlots : b1[s] # NoItem => p1[b1[s]] = s
    BY TidyInjective DEF Tidy, Place
  <1>3. \A s \in WornSlots : w1[s] # NoItem => p1[w1[s]] = s
    BY TidyInjective DEF Tidy, Place
  <1>4. In(b1) = In(b) \cup {w[src]}
    BY DEF Tidy, In, Range
  <1>5. In(w1) = In(w) \ {w[src]}
    BY TidyInjective DEF Tidy, In, Range
  <1> QED
    BY <1>1, <1>2, <1>3, <1>4, <1>5 DEF Tidy

\* The exchange at the end of equip keeps both inventories tidy and loses nothing.
LEMMA ExchangeTidy ==
    ASSUME NEW b, NEW w, NEW pos, NEW src, NEW dst, NEW b1, NEW w1, NEW p1,
           Tidy(b, w, pos),
           Exchanged(b, w, pos, src, dst, b1, w1, p1)
    PROVE  /\ Tidy(b1, w1, p1)
           /\ In(b1) = (In(b) \ {b[src]}) \cup ({w[dst]} \ {NoItem})
           /\ In(w1) = (In(w) \ {w[dst]}) \cup {b[src]}
  <1> USE SlotsDiffer, ItemAssumption DEF Exchanged
  <1>1. /\ b1 \in [BagSlots -> Items \cup {NoItem}]
        /\ w1 \in [WornSlots -> Items \cup {NoItem}]
        /\ p1 \in [Items -> Int]
    BY DEF Tidy, Place
  <1>2. \A s \in BagSlots : b1[s] # NoItem => p1[b1[s]] = s
    BY TidyInjective DEF Tidy, Place
  <1>3. \A s \in WornSlots : w1[s] # NoItem => p1[w1[s]] = s
    BY TidyInjective DEF Tidy, Place
  <1>4. In(b1) = (In(b) \ {b[src]}) \cup ({w[dst]} \ {NoItem})
    BY TidyInjective DEF Tidy, In, Range
  <1>5. In(w1) = (In(w) \ {w[dst]}) \cup {b[src]}
    BY TidyInjective DEF Tidy, In, Range
  <1> QED
    BY <1>1, <1>2, <1>3, <1>4, <1>5 DEF Tidy

\* TypeOK and PositionIsSlot say that the character's inventories are tidy.
LEMMA InvTidy ==
    /\ IInv => Tidy(bag, worn, position)
    /\ Held = In(bag) /\ Worn = In(worn)
    /\ Held' = In(bag') /\ Worn' = In(worn')
    /\ Tidy(bag', worn', position') => PositionIsSlot'
  BY DEF IInv, TypeOK, PositionIsSlot, Tidy, In, Held, Worn

\* An item is in one slot of the bag or of the body, and in Items.
LEMMA WhereHeld ==
    ASSUME IInv
    PROVE  /\ \A i \in Held : i \in Items /\ \E s \in BagSlots : bag[s] = i
           /\ \A i \in Worn : i \in Items /\ \E s \in WornSlots : worn[s] = i
           /\ \A s \in BagSlots : bag[s] # NoItem => bag[s] \in Held
           /\ \A s \in WornSlots : worn[s] # NoItem => worn[s] \in Worn
           /\ NoItem \notin Held \cup Worn
  BY DEF IInv, TypeOK, Held, Worn, Range

\* A step that only carries items between the bag and the body loses nothing.
LEMMA OnlyCarried ==
    ASSUME IInv,
           Held' \cup Worn' = Held \cup Worn, Held' \cap Worn' = {},
           ground' = ground, gone' = gone, made' = made
    PROVE  OnePlace' /\ OriginalsKept
  BY DEF IInv, OnePlace, Present, OriginalsKept

-----------------------------------------------------------------------------
(* The steps                                                                *)

LEMMA UnequipStep ==
    ASSUME IInv, NEW src \in WornSlots, NEW dst \in BagSlots, Unequip(src, dst)
    PROVE  IInv' /\ OriginalsKept
  <1>1. /\ Tidy(bag', worn', position')
        /\ Held' = Held \cup {worn[src]}
        /\ Worn' = Worn \ {worn[src]}
    <2>1. Tidy(bag, worn, position)
      BY InvTidy
    <2>2. /\ Tidy(bag', worn', position')
          /\ In(bag') = In(bag) \cup {worn[src]}
          /\ In(worn') = In(worn) \ {worn[src]}
      <3>1. TakenOff(bag, worn, position, src, dst, bag', worn', position')
        BY DEF Unequip, TakenOff
      <3> QED
        BY <2>1, <3>1, TakeOff
    <2> QED
      BY <2>2, InvTidy
  <1>2. TypeOK'
    BY <1>1 DEF Unequip, IInv, TypeOK, Tidy
  <1>3. worn[src] \in Worn
    BY WhereHeld DEF Unequip
  <1>4. OnePlace' /\ OriginalsKept
    <2>1. Held' \cup Worn' = Held \cup Worn /\ Held' \cap Worn' = {}
      BY <1>1, <1>3 DEF IInv, OnePlace
    <2> QED
      BY <2>1, OnlyCarried DEF Unequip
  <1>5. SlotsFit' /\ NoClash'
    BY DEF Unequip, IInv, TypeOK, SlotsFit, NoClash
  <1>6. WornRingsOn'
    BY InvTidy, TidyInjective DEF Unequip, IInv, TypeOK, WornRingsOn
  <1> QED
    BY <1>1, <1>2, <1>4, <1>5, <1>6, InvTidy DEF IInv

\* A move swaps two items with their positions, or leaves only the one that was
\* moved in dst: the target is lost then, an original only when a copy is moved.
LEMMA MoveStep ==
    ASSUME IInv, NEW src \in BagSlots, NEW dst \in BagSlots, Move(src, dst)
    PROVE  IInv' /\ OriginalsKept
  <1>1. Tidy(bag, worn, position) /\ bag[src] \in Items /\ bag[src] # NoItem
    BY InvTidy, ItemAssumption DEF IInv, TypeOK, Move
  <1>2. /\ worn' = worn /\ ground' = ground /\ gone' = gone /\ made' = made
        /\ slotLimit' = slotLimit /\ ringOn' = ringOn
        /\ Worn' = Worn
    BY DEF Move, Worn
  <1>3. TypeOK'
    BY <1>1, SlotsDiffer DEF Move, IInv, TypeOK, Place
  <1>4. PositionIsSlot'
    <2>1. \A s \in BagSlots : bag'[s] # NoItem => position'[bag'[s]] = s
      BY <1>1, TidyInjective, ItemAssumption, SlotsDiffer DEF Tidy, Place, Move
    <2>2. \A s \in WornSlots : worn'[s] # NoItem => position'[worn'[s]] = s
      BY <1>1, TidyInjective, ItemAssumption, SlotsDiffer DEF Tidy, Place, Move
    <2> QED
      BY <2>1, <2>2 DEF PositionIsSlot
  <1>5. SlotsFit' /\ NoClash' /\ WornRingsOn'
    BY <1>2 DEF IInv, SlotsFit, NoClash, WornRingsOn
  <1>6. CASE bag[dst] # NoItem /\ Merges(bag[src], bag[dst])
    <2>1. bag' = [bag EXCEPT ![dst] = bag[src], ![src] = NoItem]
      BY <1>6 DEF Move
    <2>2. Held' \subseteq Held
      BY <1>1, <2>1 DEF Tidy, Held, Range
    <2>3. Held \ {bag[dst]} \subseteq Held'
      <3>1. ASSUME NEW s \in BagSlots, bag[s] # NoItem, bag[s] # bag[dst]
            PROVE  \E t \in BagSlots : bag'[t] = bag[s]
        BY <1>1, <2>1, <3>1 DEF Tidy
      <3> QED
        BY <1>1, <1>3, <3>1 DEF Tidy, Held, Range, TypeOK
    <2>4. OnePlace'
      BY <1>2, <2>2 DEF IInv, OnePlace, Present
    <2>5. OriginalsKept
      <3>1. Present' \subseteq Present /\ Present \ Present' \subseteq {bag[dst]}
        BY <1>2, <2>2, <2>3 DEF Present
      <3>2. bag[src] \in Held /\ bag[dst] \in Held /\ Id[bag[src]] = Id[bag[dst]]
        BY <1>1, <1>6, WhereHeld DEF Merges
      <3>3. ASSUME bag[dst] \in Originals \cap (Present \ Present')
            PROVE  bag[src] \in (Held \cap Held') \ Originals
        <4>1. bag[src] \notin Originals /\ bag[src] # bag[dst]
          BY <1>6, <3>3 DEF Merges
        <4> QED
          BY <2>3, <3>2, <4>1
      <3> QED
        BY <1>2, <3>1, <3>2, <3>3 DEF OriginalsKept
    <2> QED
      BY <1>3, <1>4, <1>5, <2>4, <2>5 DEF IInv
  <1>7. CASE ~ (bag[dst] # NoItem /\ Merges(bag[src], bag[dst]))
    <2>1. Held' = Held
      BY <1>1, <1>7 DEF Held, Range, Tidy, Move
    <2>2. OnePlace' /\ OriginalsKept
      BY <1>2, <2>1, OnlyCarried DEF IInv, OnePlace
    <2> QED
      BY <1>3, <1>4, <1>5, <2>2 DEF IInv
  <1> QED
    BY <1>6, <1>7

\* A drop empties one slot and leaves the item on the map or destroys it.
LEMMA DropFromBagStep ==
    ASSUME IInv, NEW src \in BagSlots, DropFromBag(src)
    PROVE  IInv' /\ OriginalsKept
  <1> USE DEF DropFromBag, Discard
  <1>1. Tidy(bag, worn, position) /\ bag[src] \in Held /\ bag[src] \in Items
    BY InvTidy, WhereHeld
  <1>2. TypeOK'
    BY <1>1, ItemAssumption DEF IInv, TypeOK
  <1>3. PositionIsSlot'
    BY DEF IInv, TypeOK, PositionIsSlot
  <1>4. Held' = Held \ {bag[src]} /\ Worn' = Worn
    BY <1>1, TidyInjective, ItemAssumption DEF Held, Worn, Range, Tidy
  <1>5. OnePlace' /\ OriginalsKept
    BY <1>1, <1>4 DEF IInv, OnePlace, Present, OriginalsKept
  <1>6. SlotsFit' /\ NoClash' /\ WornRingsOn'
    BY DEF IInv, TypeOK, SlotsFit, NoClash, WornRingsOn
  <1> QED
    BY <1>2, <1>3, <1>5, <1>6 DEF IInv

LEMMA DropWornStep ==
    ASSUME IInv, NEW src \in WornSlots, DropWorn(src)
    PROVE  IInv' /\ OriginalsKept
  <1> USE DEF DropWorn, Discard
  <1>1. Tidy(bag, worn, position) /\ worn[src] \in Worn /\ worn[src] \in Items
    BY InvTidy, WhereHeld
  <1>2. TypeOK'
    BY <1>1, ItemAssumption DEF IInv, TypeOK
  <1>3. PositionIsSlot'
    BY DEF IInv, TypeOK, PositionIsSlot
  <1>4. Held' = Held /\ Worn' = Worn \ {worn[src]}
    BY <1>1, TidyInjective, ItemAssumption DEF Held, Worn, Range, Tidy
  <1>5. OnePlace' /\ OriginalsKept
    BY <1>1, <1>4 DEF IInv, OnePlace, Present, OriginalsKept
  <1>6. SlotsFit' /\ NoClash' /\ WornRingsOn'
    BY DEF IInv, TypeOK, SlotsFit, NoClash, WornRingsOn
  <1> QED
    BY <1>2, <1>3, <1>5, <1>6 DEF IInv

\* The drop that copies brings nothing but a copy into play.
LEMMA DropNoneStep ==
    ASSUME IInv, NEW i \in Items, NEW copy \in Items, DropNone(i, copy)
    PROVE  IInv' /\ OriginalsKept
  <1> USE DEF DropNone
  <1>1. Held' = Held /\ Worn' = Worn
    BY DEF Held, Worn
  <1>2. TypeOK' /\ PositionIsSlot'
    BY DEF IInv, TypeOK, PositionIsSlot
  <1>3. copy \notin Present /\ copy \notin gone /\ copy \notin Originals
    BY DEF IInv, OnePlace
  <1>4. OnePlace' /\ OriginalsKept
    BY <1>1, <1>3 DEF IInv, OnePlace, Present, OriginalsKept
  <1>5. SlotsFit' /\ NoClash' /\ WornRingsOn'
    BY DEF IInv, SlotsFit, NoClash, WornRingsOn
  <1> QED
    BY <1>2, <1>4, <1>5 DEF IInv

\* A picked up item enters the free slot that isFull promised.
LEMMA AddFromDropStep ==
    ASSUME IInv, NEW i \in Items, AddFromDrop(i)
    PROVE  IInv' /\ OriginalsKept
  <1> USE DEF AddFromDrop
  <1>1. /\ Tidy(bag, worn, position)
        /\ NextFreeSlot \in BagSlots
        /\ bag[NextFreeSlot] = NoItem
    BY InvTidy, FreeSlotExists DEF IInv
  <1> HIDE DEF NextFreeSlot
  <1>2. i \notin Held /\ i \notin Worn /\ i \notin gone
    BY DEF IInv, OnePlace, Present
  <1>3. TypeOK'
    BY <1>1, SlotsDiffer DEF IInv, TypeOK, Place
  <1>4. PositionIsSlot'
    BY <1>1, <1>2, WhereHeld, ItemAssumption DEF IInv, TypeOK, PositionIsSlot, Place
  <1>5. Held' = Held \cup {i} /\ Worn' = Worn
    BY <1>1, ItemAssumption DEF Held, Worn, Range, Tidy
  <1>6. OnePlace' /\ OriginalsKept
    BY <1>2, <1>5 DEF IInv, OnePlace, Present, OriginalsKept
  <1>7. SlotsFit' /\ NoClash' /\ WornRingsOn'
    BY DEF IInv, SlotsFit, NoClash, WornRingsOn
  <1> QED
    BY <1>3, <1>4, <1>6, <1>7 DEF IInv

\* A destroyed item is found again by its position, which PositionIsSlot makes its slot.
LEMMA ScrollDestroysStep ==
    ASSUME IInv, NEW i \in Items, ScrollDestroys(i)
    PROVE  IInv' /\ OriginalsKept
  <1> USE DEF ScrollDestroys
  <1>1. Tidy(bag, worn, position)
    BY InvTidy
  <1>2. CASE /\ position[i] < 0
             /\ i \in Worn
             /\ worn' = [worn EXCEPT ![position[i]] = NoItem]
             /\ bag' = bag
    <2>1. position[i] \in WornSlots /\ worn[position[i]] = i
      BY <1>1, <1>2, WhereHeld, ItemAssumption DEF Tidy
    <2>2. Held' = Held /\ Worn' = Worn \ {i}
      BY <1>1, <1>2, <2>1, TidyInjective, ItemAssumption DEF Held, Worn, Range, Tidy
    <2>3. TypeOK' /\ PositionIsSlot'
      BY <1>2, ItemAssumption DEF IInv, TypeOK, PositionIsSlot
    <2>4. OnePlace' /\ OriginalsKept
      BY <1>2, <2>2 DEF IInv, OnePlace, Present, OriginalsKept
    <2>5. SlotsFit' /\ NoClash' /\ WornRingsOn'
      BY <1>2 DEF IInv, TypeOK, SlotsFit, NoClash, WornRingsOn
    <2> QED
      BY <2>3, <2>4, <2>5 DEF IInv
  <1>3. CASE /\ position[i] > 0
             /\ i \in Held
             /\ bag' = [bag EXCEPT ![position[i]] = NoItem]
             /\ worn' = worn
    <2>1. position[i] \in BagSlots /\ bag[position[i]] = i
      BY <1>1, <1>3, WhereHeld, ItemAssumption DEF Tidy
    <2>2. Held' = Held \ {i} /\ Worn' = Worn
      BY <1>1, <1>3, <2>1, TidyInjective, ItemAssumption DEF Held, Worn, Range, Tidy
    <2>3. TypeOK' /\ PositionIsSlot'
      BY <1>3, ItemAssumption DEF IInv, TypeOK, PositionIsSlot
    <2>4. OnePlace' /\ OriginalsKept
      BY <1>3, <2>2 DEF IInv, OnePlace, Present, OriginalsKept
    <2>5. SlotsFit' /\ NoClash' /\ WornRingsOn'
      BY <1>3 DEF IInv, TypeOK, SlotsFit, NoClash, WornRingsOn
    <2> QED
      BY <2>3, <2>4, <2>5 DEF IInv
  <1> QED
    BY <1>2, <1>3

LEMMA GainSlotsStep ==
    ASSUME IInv, NEW n \in 1 .. MaxLimit, GainSlots(n)
    PROVE  IInv' /\ OriginalsKept
  <1> USE DEF GainSlots
  <1>1. TypeOK'
    BY LimitAssumption DEF IInv, TypeOK
  <1>2. Held' = Held /\ Worn' = Worn
    BY DEF Held, Worn
  <1>3. OnePlace' /\ OriginalsKept
    BY <1>2, OnlyCarried DEF IInv, OnePlace
  <1>4. PositionIsSlot' /\ SlotsFit' /\ NoClash' /\ WornRingsOn'
    BY DEF IInv, PositionIsSlot, SlotsFit, NoClash, WornRingsOn
  <1> QED
    BY <1>1, <1>3, <1>4 DEF IInv

\* What equip leaves on the body once the displaced item is off clashes with
\* nothing that the new item in dst brings, whatever the slots w still fills.
LEMMA NothingClashes ==
    ASSUME NEW w, w \in [WornSlots -> Items \cup {NoItem}],
           NEW i \in Items, NEW dst \in Allowed(Kind[i]),
           \A s \in WornSlots : w[s] # NoItem => s \in Allowed(Kind[w[s]]),
           \A s, t \in WornSlots : w[s] # NoItem /\ w[t] # NoItem => ~ Clash(w[s], w[t]),
           \A s \in WornSlots : w[s] # NoItem =>
                /\ ~ (dst = -6 /\ s = -5 /\ Kind[w[s]] = "Overall")
                /\ ~ (dst = -5 /\ s = -6 /\ Kind[i] = "Overall")
                /\ ~ (dst = -10 /\ s = -11 /\ Kind[w[s]] = "TwoHanded")
                /\ ~ (dst = -11 /\ s = -10 /\ Kind[i] = "TwoHanded"),
           NEW w1, w1 = [w EXCEPT ![dst] = i]
    PROVE  /\ \A s \in WornSlots : w1[s] # NoItem => s \in Allowed(Kind[w1[s]])
           /\ \A s, t \in WornSlots : w1[s] # NoItem /\ w1[t] # NoItem => ~ Clash(w1[s], w1[t])
  <1>1. /\ Kind[i] \in Kinds
        /\ \A s \in WornSlots : w[s] # NoItem => Kind[w[s]] \in Kinds
    BY ItemAssumption
  <1>2. \A s \in WornSlots : w[s] # NoItem /\ s # dst => ~ Clash(i, w[s]) /\ ~ Clash(w[s], i)
    BY <1>1 DEF Clash, Allowed, Kinds, WornSlots
  <1>3. ~ Clash(i, i)
    BY DEF Clash
  <1>4. \A s \in WornSlots : w1[s] # NoItem => s \in Allowed(Kind[w1[s]])
    OBVIOUS
  <1>5. \A s, t \in WornSlots : w1[s] # NoItem /\ w1[t] # NoItem => ~ Clash(w1[s], w1[t])
    BY <1>2, <1>3
  <1> QED
    BY <1>4, <1>5

LEMMA EquipOverStep ==
    ASSUME IInv, NEW src \in BagSlots, NEW dst \in WornSlots,
           Equip(src, dst), EquipOver(src, dst)
    PROVE  IInv' /\ OriginalsKept
  <1>1. Tidy(bag, worn, position) /\ bag[src] \in Items
    BY InvTidy DEF Equip, IInv, TypeOK
  <1>2. /\ Tidy(bag', worn', position')
        /\ In(bag') = (In(bag) \ {bag[src]}) \cup ({worn[dst]} \ {NoItem})
        /\ In(worn') = (In(worn) \ {worn[dst]}) \cup {bag[src]}
    <2>1. Exchanged(bag, worn, position, src, dst, bag', worn', position')
      BY <1>1 DEF Equip, EquipOver, Exchange, Exchanged
    <2> QED
      BY <1>1, <2>1, ExchangeTidy
  <1>3. TypeOK'
    <2>1. ringOn' \in [Items -> BOOLEAN]
      <3>1. (Kind[bag[src]] \in RingKinds) \in BOOLEAN
        OBVIOUS
      <3>2. ringOn' = [ringOn EXCEPT ![bag[src]] = Kind[bag[src]] \in RingKinds]
        BY DEF Equip
      <3> HIDE DEF RingKinds
      <3> QED
        BY <3>1, <3>2, ZenonT(30) DEF IInv, TypeOK
    <2> QED
      BY <1>2, <2>1 DEF Equip, IInv, TypeOK, Tidy
  <1>4. bag[src] \in Held /\ (worn[dst] # NoItem => worn[dst] \in Worn) /\ NoItem \notin Held \cup Worn
    BY WhereHeld DEF Equip
  <1>5. OnePlace' /\ OriginalsKept
    <2>1. /\ Held' = (Held \ {bag[src]}) \cup ({worn[dst]} \ {NoItem})
          /\ Worn' = (Worn \ {worn[dst]}) \cup {bag[src]}
      BY <1>2, InvTidy
    <2>2. Held' \cup Worn' = Held \cup Worn /\ Held' \cap Worn' = {}
      BY <1>4, <2>1 DEF IInv, OnePlace
    <2> QED
      BY <2>2, OnlyCarried DEF Equip
  <1>6. SlotsFit' /\ NoClash'
    BY <1>1, NothingClashes DEF Equip, EquipOver, Exchange, IInv, TypeOK, SlotsFit, NoClash, Displaced
  <1>7. WornRingsOn'
    BY <1>1 DEF Equip, EquipOver, Exchange, IInv, TypeOK, WornRingsOn
  <1> QED
    BY <1>2, <1>3, <1>5, <1>6, <1>7, InvTidy DEF IInv

LEMMA EquipDisplacingStep ==
    ASSUME IInv, NEW src \in BagSlots, NEW dst \in WornSlots,
           Equip(src, dst), EquipDisplacing(src, dst)
    PROVE  IInv' /\ OriginalsKept
  <1> USE DEF Equip
  <1>1. PICK s \in Displaced(bag[src], dst) :
            /\ ~ IsFull
            /\ Exchange([bag EXCEPT ![NextFreeSlot] = worn[s]],
                        [worn EXCEPT ![s] = NoItem],
                        Place(position, worn[s], NextFreeSlot),
                        src, dst)
    BY DEF EquipDisplacing
  <1> DEFINE free == NextFreeSlot
             b == [bag EXCEPT ![free] = worn[s]]
             w == [worn EXCEPT ![s] = NoItem]
             p == Place(position, worn[s], free)
  <1>2. /\ free \in BagSlots
        /\ bag[free] = NoItem
    BY <1>1, FreeSlotExists DEF IInv
  <1> HIDE DEF free
  <1>3. /\ s \in WornSlots
        /\ worn[s] # NoItem
        /\ s # dst
        /\ src # free
    BY <1>2 DEF Displaced
  <1>4. Tidy(bag, worn, position) /\ bag[src] \in Items
    BY InvTidy DEF IInv, TypeOK
  <1>5. /\ Tidy(b, w, p)
        /\ In(b) = Held \cup {worn[s]}
        /\ In(w) = Worn \ {worn[s]}
    <2>1. TakenOff(bag, worn, position, s, free, b, w, p)
      BY <1>2, <1>3 DEF TakenOff
    <2> HIDE DEF b, w, p
    <2> QED
      BY <1>4, <2>1, TakeOff, InvTidy
  <1>6. b[src] = bag[src] /\ w[dst] = worn[dst]
    BY <1>2, <1>3, <1>4 DEF Tidy
  <1>7. /\ bag' = [b EXCEPT ![src] = w[dst]]
        /\ worn' = [w EXCEPT ![dst] = b[src]]
        /\ position' = Place(Place(p, b[src], dst), w[dst], src)
    BY <1>1 DEF Exchange, free
  <1> HIDE DEF b, w, p
  <1>8. /\ Tidy(bag', worn', position')
        /\ In(bag') = (In(b) \ {b[src]}) \cup ({w[dst]} \ {NoItem})
        /\ In(worn') = (In(w) \ {w[dst]}) \cup {b[src]}
    <2>1. Exchanged(b, w, p, src, dst, bag', worn', position')
      BY <1>6, <1>7 DEF Exchanged
    <2> QED
      BY <1>5, <2>1, ExchangeTidy
  <1>9. TypeOK'
    <2>1. ringOn' \in [Items -> BOOLEAN]
      <3>1. (Kind[bag[src]] \in RingKinds) \in BOOLEAN
        OBVIOUS
      <3>2. ringOn' = [ringOn EXCEPT ![bag[src]] = Kind[bag[src]] \in RingKinds]
        BY DEF Equip
      <3> HIDE DEF RingKinds
      <3> QED
        BY <3>1, <3>2, ZenonT(30) DEF IInv, TypeOK
    <2> QED
      BY <1>8, <2>1 DEF IInv, TypeOK, Tidy
  <1>10. /\ bag[src] \in Held
         /\ worn[dst] # NoItem => worn[dst] \in Worn
         /\ worn[s] \in Worn
         /\ NoItem \notin Held \cup Worn
    BY <1>3, WhereHeld
  <1>11. worn[dst] # worn[s]
    BY <1>3, <1>4, TidyInjective
  <1>12. OnePlace' /\ OriginalsKept
    <2>1. /\ Held' = ((Held \cup {worn[s]}) \ {bag[src]}) \cup ({worn[dst]} \ {NoItem})
          /\ Worn' = ((Worn \ {worn[s]}) \ {worn[dst]}) \cup {bag[src]}
      BY <1>5, <1>6, <1>8, InvTidy
    <2>2. bag[src] # worn[s] /\ Held \cap Worn = {}
      BY <1>10 DEF IInv, OnePlace
    <2>3. Held' \cup Worn' = Held \cup Worn /\ Held' \cap Worn' = {}
      BY <1>10, <1>11, <2>1, <2>2
    <2> QED
      BY <2>3, OnlyCarried
  <1>13. SlotsFit' /\ NoClash'
    <2>1. \A t \in WornSlots : w[t] # NoItem => w[t] = worn[t] /\ t # s
      BY <1>3, <1>4 DEF w, Tidy
    <2>2. Displaced(bag[src], dst) = {s}
      BY <1>1 DEF Displaced
    <2>3. w \in [WornSlots -> Items \cup {NoItem}]
      BY <1>5 DEF Tidy
    <2>4. \A t \in WornSlots : w[t] # NoItem =>
                /\ ~ (dst = -6 /\ t = -5 /\ Kind[w[t]] = "Overall")
                /\ ~ (dst = -5 /\ t = -6 /\ Kind[bag[src]] = "Overall")
                /\ ~ (dst = -10 /\ t = -11 /\ Kind[w[t]] = "TwoHanded")
                /\ ~ (dst = -11 /\ t = -10 /\ Kind[bag[src]] = "TwoHanded")
      BY <1>3, <2>1, <2>2 DEF Displaced
    <2>5. /\ \A t \in WornSlots : w[t] # NoItem => t \in Allowed(Kind[w[t]])
          /\ \A t, u \in WornSlots : w[t] # NoItem /\ w[u] # NoItem => ~ Clash(w[t], w[u])
      BY <2>1 DEF IInv, SlotsFit, NoClash
    <2>6. dst \in Allowed(Kind[bag[src]]) /\ worn' = [w EXCEPT ![dst] = bag[src]]
      BY <1>6, <1>7
    <2>7. /\ \A t \in WornSlots : worn'[t] # NoItem => t \in Allowed(Kind[worn'[t]])
          /\ \A t, u \in WornSlots : worn'[t] # NoItem /\ worn'[u] # NoItem
                => ~ Clash(worn'[t], worn'[u])
      BY <1>4, <2>3, <2>4, <2>5, <2>6, NothingClashes
    <2> QED
      BY <2>7 DEF SlotsFit, NoClash
  <1>14. WornRingsOn'
    BY <1>3, <1>4, <1>6, <1>7 DEF IInv, TypeOK, WornRingsOn, Tidy, w
  <1> QED
    BY <1>8, <1>9, <1>12, <1>13, <1>14, InvTidy DEF IInv

-----------------------------------------------------------------------------
(* The sort                                                                 *)

LEMMA HeldFinite ==
    ASSUME IInv
    PROVE  Cardinality(Held) \in Nat
  <1> DEFINE f == [i \in Held |-> position[i]]
  <1>1. Tidy(bag, worn, position) /\ LastSlot \in Nat
    BY InvTidy, LimitAssumption
  <1>2. \A i \in Held : position[i] \in 1 .. LastSlot /\ bag[position[i]] = i
    <2> SUFFICES ASSUME NEW i \in Held
                 PROVE  position[i] \in 1 .. LastSlot /\ bag[position[i]] = i
      OBVIOUS
    <2>1. PICK s \in BagSlots : bag[s] = i
      BY WhereHeld
    <2>2. position[i] = s
      BY <1>1, <2>1, WhereHeld DEF Tidy
    <2> QED
      BY <2>1, <2>2 DEF BagSlots
  <1>3. f \in Injection(Held, 1 .. LastSlot)
    BY <1>2 DEF Injection, IsInjective
  <1>4. IsFiniteSet(1 .. LastSlot)
    BY <1>1, FS_Interval
  <1> HIDE DEF f
  <1> QED
    BY <1>3, <1>4, FS_Injection, FS_CardinalityType

\* Only an item of a rank over the limit is not put back.
LEMMA SortItemsStep ==
    ASSUME IInv, SortItems
    PROVE  IInv' /\ OriginalsKept
  <1>1. PICK rank \in Rankings :
            /\ bag' = [s \in BagSlots |->
                         IF s <= slotLimit /\ \E i \in Held : rank[i] = s
                         THEN CHOOSE i \in Held : rank[i] = s
                         ELSE NoItem]
            /\ position' = [i \in Items |-> IF i \in Held THEN rank[i] ELSE position[i]]
    BY DEF SortItems
  <1>2. /\ \A i \in Held : rank[i] \in 1 .. Cardinality(Held)
        /\ \A i, j \in Held : rank[i] = rank[j] => i = j
    BY DEF Rankings, Bijection, Injection, IsInjective
  <1>3. /\ slotLimit \in Nat /\ slotLimit <= LastSlot /\ LastSlot \in Nat
        /\ Cardinality(Held) \in Nat
    BY LimitAssumption, HeldFinite DEF IInv, TypeOK
  <1>4. \A s \in BagSlots : bag'[s] # NoItem => bag'[s] \in Held /\ rank[bag'[s]] = s
    BY <1>1
  <1>5. \A i \in Held : rank[i] <= slotLimit => rank[i] \in BagSlots /\ bag'[rank[i]] = i
    BY <1>1, <1>2, <1>3 DEF BagSlots
  <1>6. TypeOK'
    <2>1. bag' \in [BagSlots -> Items \cup {NoItem}]
      BY <1>1, <1>4, WhereHeld
    <2>2. position' \in [Items -> Int]
      BY <1>1, <1>2, <1>3 DEF IInv, TypeOK
    <2> QED
      BY <2>1, <2>2 DEF SortItems, IInv, TypeOK
  <1>7. Held' \subseteq Held /\ Worn' = Worn
    BY <1>4, <1>6 DEF SortItems, Held, Worn, Range, TypeOK
  <1>8. \A i \in Held : rank[i] <= slotLimit => i \in Held'
    BY <1>5, <1>6, WhereHeld DEF Held, Range, TypeOK
  <1>9. PositionIsSlot'
    <2>1. \A s \in BagSlots : bag'[s] # NoItem => position'[bag'[s]] = s
      BY <1>1, <1>4, WhereHeld
    <2>2. \A s \in WornSlots : worn[s] # NoItem => worn[s] \in Items /\ worn[s] \notin Held
      BY WhereHeld DEF IInv, OnePlace
    <2>3. \A s \in WornSlots : worn'[s] # NoItem => position'[worn'[s]] = s
      BY <1>1, <2>2 DEF SortItems, IInv, PositionIsSlot
    <2> QED
      BY <2>1, <2>3 DEF PositionIsSlot
  <1>10. ground' = ground /\ gone' = gone /\ made' = made
    BY DEF SortItems
  <1>11. OnePlace'
    BY <1>7, <1>10 DEF IInv, OnePlace, Present
  <1>12. OriginalsKept
    <2>1. Present' \subseteq Present
      BY <1>7, <1>10 DEF Present
    <2>2. ASSUME NEW i \in Present \ Present'
          PROVE  i \in Held /\ Cardinality(Held) > slotLimit /\ FullToLimit'
      <3>1. i \in Held /\ ~ (rank[i] <= slotLimit)
        BY <1>7, <1>8, <1>10, <2>2 DEF Present
      <3>2. Cardinality(Held) > slotLimit
        BY <1>2, <1>3, <3>1
      <3>3. ASSUME NEW s \in BagSlots
            PROVE  bag'[s] # NoItem <=> s <= slotLimit
        <4>1. ASSUME s <= slotLimit
              PROVE  bag'[s] # NoItem
          <5>1. s \in 1 .. Cardinality(Held)
            BY <1>3, <3>2, <4>1 DEF BagSlots
          <5>2. PICK j \in Held : rank[j] = s
            BY <5>1 DEF Rankings, Bijection, Surjection
          <5> QED
            BY <1>5, <4>1, <5>2, WhereHeld
        <4>2. ASSUME bag'[s] # NoItem
              PROVE  s <= slotLimit
          BY <1>1, <4>2
        <4> QED
          BY <4>1, <4>2
      <3> QED
        BY <3>1, <3>2, <3>3 DEF FullToLimit, SortItems
    <2> QED
      BY <2>1, <2>2 DEF OriginalsKept, SortItems
  <1>13. SlotsFit' /\ NoClash' /\ WornRingsOn'
    BY DEF SortItems, IInv, SlotsFit, NoClash, WornRingsOn
  <1> QED
    BY <1>6, <1>9, <1>11, <1>13, <1>12 DEF IInv

-----------------------------------------------------------------------------
(* The theorems                                                             *)

LEMMA Initial == Init => IInv
  <1> SUFFICES ASSUME Init PROVE IInv
    OBVIOUS
  <1> USE DEF Init
  <1>1. TypeOK
    <2>1. position \in [Items -> Int]
      <3>1. ASSUME NEW i \in Items
            PROVE  position[i] \in Int
        <4>1. CASE \E s \in WornSlots : StartWorn[s] = i
          <5>1. (CHOOSE s \in WornSlots : StartWorn[s] = i) \in WornSlots
            BY <4>1
          <5> QED
            BY <4>1, <5>1, SlotsDiffer
        <4>2. CASE ~ \E s \in WornSlots : StartWorn[s] = i
          BY <4>2
        <4> QED
          BY <4>1, <4>2
      <3> QED
        BY <3>1
    <2>2. ringOn \in [Items -> BOOLEAN]
      BY Zenon
    <2>3. ground \in SUBSET Items
      BY ItemAssumption
    <2> QED
      BY <2>1, <2>2, <2>3, LimitAssumption, ItemAssumption, StartAssumption DEF TypeOK
  <1>2. PositionIsSlot
    BY StartAssumption, ItemAssumption DEF PositionIsSlot
  <1>3. Held = {} /\ Worn \subseteq Originals /\ Worn \cap ground = {}
    BY StartAssumption, ItemAssumption DEF Held, Worn, Range
  <1>4. OnePlace
    BY <1>3 DEF OnePlace, Present
  <1>5. SlotsFit /\ NoClash
    BY StartAssumption DEF SlotsFit, NoClash
  <1>6. WornRingsOn
    BY StartAssumption, ItemAssumption DEF WornRingsOn
  <1> QED
    BY <1>1, <1>2, <1>4, <1>5, <1>6 DEF IInv

\* Every step from the invariant keeps it, and keeps the originals.
LEMMA Inductive == IInv /\ [Next]_vars => IInv' /\ [OriginalsKept]_vars
  <1> SUFFICES ASSUME IInv, [Next]_vars PROVE IInv' /\ [OriginalsKept]_vars
    OBVIOUS
  <1>1. ASSUME NEW src \in BagSlots, NEW dst \in WornSlots, Equip(src, dst)
        PROVE  IInv' /\ OriginalsKept
    BY <1>1, EquipOverStep, EquipDisplacingStep DEF Equip
  <1>2. ASSUME NEW src \in WornSlots, NEW dst \in BagSlots, Unequip(src, dst)
        PROVE  IInv' /\ OriginalsKept
    BY <1>2, UnequipStep
  <1>3. ASSUME NEW src \in BagSlots, NEW dst \in BagSlots, Move(src, dst)
        PROVE  IInv' /\ OriginalsKept
    BY <1>3, MoveStep
  <1>4. ASSUME NEW src \in BagSlots, DropFromBag(src)
        PROVE  IInv' /\ OriginalsKept
    BY <1>4, DropFromBagStep
  <1>5. ASSUME NEW src \in WornSlots, DropWorn(src)
        PROVE  IInv' /\ OriginalsKept
    BY <1>5, DropWornStep
  <1>6. ASSUME NEW i \in Items, NEW copy \in Items, DropNone(i, copy)
        PROVE  IInv' /\ OriginalsKept
    BY <1>6, DropNoneStep
  <1>7. ASSUME NEW i \in Items, AddFromDrop(i)
        PROVE  IInv' /\ OriginalsKept
    BY <1>7, AddFromDropStep
  <1>8. ASSUME NEW i \in Items, ScrollDestroys(i)
        PROVE  IInv' /\ OriginalsKept
    BY <1>8, ScrollDestroysStep
  <1>9. CASE SortItems
    BY <1>9, SortItemsStep
  <1>10. ASSUME NEW n \in 1 .. MaxLimit, GainSlots(n)
         PROVE  IInv' /\ OriginalsKept
    BY <1>10, GainSlotsStep
  <1>11. CASE UNCHANGED vars
    <2>1. Held' = Held /\ Worn' = Worn
      BY <1>11 DEF vars, Held, Worn
    <2> QED
      BY <1>11, <2>1 DEF vars, IInv, TypeOK, PositionIsSlot, OnePlace, Present, SlotsFit,
                         NoClash, WornRingsOn
  <1> QED
    BY <1>1, <1>2, <1>3, <1>4, <1>5, <1>6, <1>7, <1>8, <1>9, <1>10, <1>11 DEF Next

\* Every reachable state satisfies the inductive invariant, whatever the items,
\* their kinds, the starting clothes, the slot limits and the slots requested.
THEOREM Invariance == Spec => []IInv
  BY Initial, Inductive, PTL DEF Spec

\* No request makes an original equip, and none loses one but by a scroll, by the
\* drop of what may not be dropped, by a sort of a bag that holds more than its
\* limit, or by moving a copy of it onto it.
THEOREM ConservedHolds == Spec => Conserved
  BY Invariance, Inductive, PTL DEF Spec, Conserved

\* No item, an original or a copy, is ever in two of the bag, the body and the map.
THEOREM OnePlaceHolds == Spec => []OnePlace
  BY Invariance, PTL DEF IInv

\* The body never shows an overall with pants or a two-handed weapon with a
\* shield: the nested unequip of equip is always carried out or the request refused.
THEOREM NoClashHolds == Spec => []NoClash
  BY Invariance, PTL DEF IInv

\* The position an item carries is always the slot it is stored under.
THEOREM PositionIsSlotHolds == Spec => []PositionIsSlot
  BY Invariance, PTL DEF IInv

\* What the maps of the inventories hold, and the slot limit, stay within their types.
THEOREM TypeCorrect == Spec => []TypeOK
  BY Invariance, PTL DEF IInv

\* What is worn is worn where its kind may be worn: equip asks canWearEquipment, and the
\* nested unequip puts nothing on the body.
THEOREM SlotsFitHolds == Spec => []SlotsFit
  BY Invariance, PTL DEF IInv

\* Every ring on the body is marked equipped, whichever way it came there.
THEOREM WornRingsOnHolds == Spec => []WornRingsOn
  BY Invariance, PTL DEF IInv
=============================================================================
