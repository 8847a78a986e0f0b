--------------------------- MODULE StackInventory ---------------------------
(***************************************************************************)
(* One inventory of stackable items (USE, SETUP, ETC) of a character:      *)
(* MapleInventory and the operations of MapleInventoryManipulator on it.   *)
(* Handlers of one client run one after the other: one step each.          *)
(*                                                                         *)
(* A stack is an item id, a quantity and an expiration, which stands for   *)
(* everything softEquals compares.  The order of the LinkedHashMap behind  *)
(* listById is left open: every order of the slots is considered.          *)
(*                                                                         *)
(* ledger is what the character should hold of each id: a history variable *)
(* kept by what each call promises, not by what it does to the slots.      *)
(***************************************************************************)
EXTENDS Integers, Sequences, FiniteSets, Functions

CONSTANTS
    Ids,          \* item ids
    SlotMax,      \* the largest stack of each id (getSlotMax)
    Rechargeable, \* throwing stars and bullets: never stacked, kept when empty
    Expirations,  \* expirations and flags an item may have
    Limit,        \* slotLimit
    MaxQuantity,  \* bound on the quantities of one request
    Empty         \* a slot with no key

ASSUME ConstantsAssumption ==
    /\ SlotMax \in [Ids -> Nat \ {0}]
    /\ Rechargeable \subseteq Ids
    /\ Limit \in Nat /\ MaxQuantity \in Nat
    /\ Empty \notin [id : Ids, quantity : Nat, expiration : Expirations]

VARIABLES
    inv,    \* slot -> stack
    ledger  \* id -> quantity the character should hold

vars == <<inv, ledger>>

Slots == 1 .. Limit
Stack == [id : Ids, quantity : Nat, expiration : Expirations]
Inventories == [Slots -> Stack \cup {Empty}]

\* A running call: the inventory so far and the quantity still to place or take.
Call(v, q) == [inv |-> v, left |-> q]
Calls == [inv : Inventories, left : Nat]

\* A for loop: what is left of c when the body has run for each slot of order.
After(body, c, order) ==
    LET run[i \in 0 .. Len(order)] ==
            IF i = 0 THEN c ELSE body[<<run[i - 1], order[i]>>]
    IN  run[Len(order)]

\* The slots from 1 to slotLimit.
Ascending == [s \in Slots |-> s]

\* The sum of a quantity over the slots.
Adding(f) == [p \in Int \X Slots |-> p[1] + f[p[2]]]
Total(f) == After(Adding(f), 0, Ascending)

\* The stacks that reach the character: drops, purchases, rewards.
Incoming == {k \in [id : Ids, quantity : 0 .. MaxQuantity, expiration : Expirations] :
             k.quantity > 0 \/ k.id \in Rechargeable}
NewStack(id, q, e) == [id |-> id, quantity |-> q, expiration |-> e]
Smaller(a, b) == IF a < b THEN a ELSE b

Occupied(v) == {s \in Slots : v[s] # Empty}
FreeSlots(v) == Slots \ Occupied(v)
IsFull(v) == FreeSlots(v) = {}
NextFreeSlot(v) == CHOOSE s \in FreeSlots(v) : \A t \in FreeSlots(v) : s <= t

\* listById: the slots that hold an id, in any order.
SlotsOf(v, id) == {s \in Occupied(v) : v[s].id = id}
Orders(slots) == Bijection(1 .. Cardinality(slots), slots)
ListById(v, id) == Orders(SlotsOf(v, id))

\* countById
Held(v, id) == [s \in Slots |-> IF s \in SlotsOf(v, id) THEN v[s].quantity ELSE 0]
CountById(v, id) == Total(Held(v, id))

-----------------------------------------------------------------------------
(* MapleInventory.hasRoom                                                   *)

\* What is free on the stacks that equal k in everything.
SpaceOn(v, k) ==
    [s \in Slots |-> IF s \in SlotsOf(v, k.id) /\ v[s].expiration = k.expiration
                     THEN SlotMax[k.id] - v[s].quantity ELSE 0]

\* Mutant: the slots required are rounded down.
HasRoomRoundedDown(v, k) ==
    LET max == SlotMax[k.id]
        newQ == k.quantity - Total(SpaceOn(v, k))
    IN  /\ ~ (IsFull(v) /\ (max = 1 \/ k.id \in Rechargeable))
        /\ newQ <= 0 \/ Cardinality(FreeSlots(v)) >= newQ \div max

\* The quantity left when every equal stack is filled fits in the free slots.
HasRoom(v, k) ==
    LET max == SlotMax[k.id]
        newQ == k.quantity - Total(SpaceOn(v, k))
    IN  /\ ~ (IsFull(v) /\ (max = 1 \/ k.id \in Rechargeable))
        /\ newQ <= 0 \/ Cardinality(FreeSlots(v)) * max >= newQ

-----------------------------------------------------------------------------
(* MapleInventoryManipulator.addFromDrop                                    *)

\* Put what fits on a stack of the same id, whatever its expiration.
TopUp(call, s, max) ==
    LET add == Smaller(call.left, IF call.inv[s].quantity < max
                                  THEN max - call.inv[s].quantity ELSE 0)
    IN  Call([call.inv EXCEPT ![s].quantity = @ + add], call.left - add)

\* Open a new stack in a free slot while something is left.
OpenStack(call, s, k) ==
    LET add == IF k.id \in Rechargeable THEN call.left
               ELSE Smaller(call.left, SlotMax[k.id])
    IN  Call([call.inv EXCEPT ![s] = NewStack(k.id, add, k.expiration)], call.left - add)

Filling(k) == [p \in Calls \X Slots |->
    IF p[2] \in SlotsOf(p[1].inv, k.id) THEN TopUp(p[1], p[2], SlotMax[k.id]) ELSE p[1]]
Opening(k) == [p \in Calls \X Slots |->
    IF p[1].left > 0 /\ p[2] \in FreeSlots(p[1].inv) THEN OpenStack(p[1], p[2], k) ELSE p[1]]

AddFromDrop(v, k, order) ==
    LET filled == IF k.id \in Rechargeable THEN Call(v, k.quantity)
                  ELSE After(Filling(k), Call(v, k.quantity), order)
    IN  IF k.id \in Rechargeable /\ k.quantity = 0
        THEN IF IsFull(v) THEN Call(v, 1) ELSE Call([v EXCEPT ![NextFreeSlot(v)] = k], 0)
        ELSE After(Opening(k), filled, Ascending)

-----------------------------------------------------------------------------
(* Removing                                                                 *)

\* MapleInventory.removeItem: a stack brought to zero leaves, unless allowZero.
Reduce(v, s, q, allowZero) ==
    IF v[s].quantity - q <= 0 /\ ~ allowZero THEN [v EXCEPT ![s] = Empty]
    ELSE [v EXCEPT ![s].quantity = IF @ - q < 0 THEN 0 ELSE @ - q]

TakeFrom(call, s, allowZero) ==
    IF call.left = 0 THEN call
    ELSE LET q == Smaller(call.inv[s].quantity, call.left)
         IN  Call(Reduce(call.inv, s, q, allowZero), call.left - q)

Taking(id) == [p \in Calls \X Slots |->
    IF p[2] \in SlotsOf(p[1].inv, id) THEN TakeFrom(p[1], p[2], FALSE) ELSE p[1]]
Throwing(id) == [p \in Calls \X Slots |->
    IF p[2] \in SlotsOf(p[1].inv, id) /\ p[1].inv[p[2]].quantity > 0
    THEN TakeFrom(p[1], p[2], id \in Rechargeable) ELSE p[1]]

\* Mutant: the rest of the inventory is not looked at.
RemoveItemSlotOnly(v, slot, q, order) ==
    TakeFrom(Call(v, q), slot, FALSE)

\* MapleInventoryManipulator.removeItem: the slot first, then (unless the item
\* is rechargeable) every other stack of the id.
RemoveItem(v, slot, q, order) ==
    LET first == TakeFrom(Call(v, q), slot, FALSE)
        left == IF v[slot].id \in Rechargeable THEN 0 ELSE first.left
    IN  After(Taking(v[slot].id), Call(first.inv, left), order)

\* removeById: the slots in ascending order, an empty set of stars included.
RemoveById(v, id, q) == After(Taking(id), Call(v, q), Ascending).inv

\* removeStarById: throwing stars leave an empty set in place, arrows do not.
\* When fewer are left than asked for, only the first stack is used up.
RemoveStarById(v, id, q) ==
    LET sets == {s \in SlotsOf(v, id) : v[s].quantity > 0}
        head == CHOOSE s \in sets : \A t \in sets : s <= t
    IN  IF sets = {} THEN v
        ELSE IF CountById(v, id) < q
        THEN Reduce(v, head, v[head].quantity, id \in Rechargeable)
        ELSE After(Throwing(id), Call(v, q), Ascending).inv

-----------------------------------------------------------------------------
(* The operations                                                           *)

\* pickUpItem and the shops: addFromDrop where canHoldItem answered yes.
PickUp(k) ==
    /\ HasRoom(inv, k)
    /\ \E order \in ListById(inv, k.id) : inv' = AddFromDrop(inv, k, order).inv
    /\ ledger' = [ledger EXCEPT ![k.id] = @ + k.quantity]

\* A handler consumes from the slot the client named (removeItem).
Consume(slot, q) ==
    /\ inv[slot] # Empty
    /\ \E order \in ListById(inv, inv[slot].id) :
          inv' = RemoveItem(inv, slot, q, order).inv
    /\ ledger' = [ledger EXCEPT ![inv[slot].id] =
          @ - Smaller(q, IF inv[slot].id \in Rechargeable THEN inv[slot].quantity ELSE @)]

\* Quests and shops take by id (removeById).
Take(id, q) ==
    /\ SlotsOf(inv, id) # {}
    /\ inv' = RemoveById(inv, id, q)
    /\ ledger' = [ledger EXCEPT ![id] = @ - Smaller(q, @)]

\* An attack: TryDoingShootAttack looks for a stack that is not empty, then
\* consumes q, which may be more than there is.  What is taken then is not what
\* removeStarById says (StarsAllTaken): the ledger follows the code.
Throw(id, q) ==
    /\ \E s \in SlotsOf(inv, id) : inv[s].quantity > 0
    /\ inv' = RemoveStarById(inv, id, q)
    /\ ledger' = [ledger EXCEPT ![id] =
          IF q <= @ THEN @ - q ELSE CountById(RemoveStarById(inv, id, q), id)]

Stackable(s, t) ==
    /\ inv[s] # Empty /\ inv[t] # Empty
    /\ inv[s].id = inv[t].id /\ inv[s].id \notin Rechargeable
    /\ inv[s].expiration = inv[t].expiration

\* What a stack gains when it is moved onto its own slot: source and target are
\* one object, which is filled to the maximum, or removed when twice its quantity
\* does not exceed it.  The ledger is told, as it is told of any other gain.
OwnSlotGain(s) ==
    LET k == inv[s]
    IN  IF k.quantity + k.quantity > SlotMax[k.id] THEN SlotMax[k.id] - k.quantity
        ELSE - k.quantity

LedgerAfterMove(src, dst) ==
    IF src = dst /\ Stackable(src, dst)
    THEN [ledger EXCEPT ![inv[src].id] = @ + OwnSlotGain(src)]
    ELSE ledger

\* Mutant: the stack is not cut at its maximum.
MoveOverMax(src, dst) ==
    /\ inv[src] # Empty
    /\ IF ~ Stackable(src, dst)
       THEN inv' = [inv EXCEPT ![src] = inv[dst], ![dst] = inv[src]]
       ELSE inv' = [inv EXCEPT ![dst].quantity = inv[src].quantity + inv[dst].quantity,
                               ![src] = Empty]
    /\ ledger' = LedgerAfterMove(src, dst)

\* MapleInventory.move.  Neither it nor its callers ask whether the two slots differ.
Move(src, dst) ==
    /\ inv[src] # Empty
    /\ IF ~ Stackable(src, dst)
       THEN inv' = [inv EXCEPT ![src] = inv[dst], ![dst] = inv[src]]
       ELSE LET max == SlotMax[inv[src].id]
                sum == inv[src].quantity + inv[dst].quantity
            IN  inv' = IF sum > max
                       THEN [inv EXCEPT ![src].quantity = sum - max, ![dst].quantity = max]
                       ELSE [inv EXCEPT ![dst].quantity = sum, ![src] = Empty]
    /\ ledger' = LedgerAfterMove(src, dst)

\* drop: part of a stack, or all of it when the request asks for as much or more.
\* A quantity of 0 leaves an ordinary stack as it is and throws a whole set of stars
\* away; the empty stack it puts on the map adds nothing when it is picked up.
Drop(src, q) ==
    /\ inv[src] # Empty
    /\ LET k == inv[src]
           split == q < k.quantity /\ k.id \notin Rechargeable
       IN  /\ k.id \in Rechargeable \/ CountById(inv, k.id) >= q
           /\ inv' = [inv EXCEPT ![src] = IF split THEN [k EXCEPT !.quantity = @ - q] ELSE Empty]
           /\ ledger' = [ledger EXCEPT ![k.id] = @ - IF split THEN q ELSE k.quantity]

\* SortItemHandler: clone every stack, remove each by its position, and add the
\* clones back in an order of their ids.
SortedSeqs(slots, v) ==
    {q \in Orders(slots) : \A i, j \in DOMAIN q : i < j => v[q[i]].id <= v[q[j]].id}

PuttingBack(v) == [p \in Calls \X Slots |->
    Call(AddFromDrop(p[1].inv, v[p[2]], Ascending).inv, 0)]

SortItems ==
    /\ \E q \in SortedSeqs(Occupied(inv), inv) :
          inv' = After(PuttingBack(inv), Call([s \in Slots |-> Empty], 0), q).inv
    /\ UNCHANGED ledger

-----------------------------------------------------------------------------
Init ==
    /\ inv = [s \in Slots |-> Empty]
    /\ ledger = [id \in Ids |-> 0]

Next ==
    \/ \E k \in Incoming : PickUp(k)
    \/ \E s \in Slots, q \in 1 .. MaxQuantity : Consume(s, q)
    \/ \E id \in Ids, q \in 1 .. MaxQuantity : Take(id, q)
    \/ \E id \in Ids, q \in 1 .. MaxQuantity : Throw(id, q)
    \/ \E s, t \in Slots : Move(s, t)
    \/ \E s \in Slots, q \in 0 .. MaxQuantity : Drop(s, q)
    \/ SortItems

Spec == Init /\ [][Next]_vars

-----------------------------------------------------------------------------
\* Stacks that are topped up, opened, merged, split, taken from several slots and
\* sorted hold together exactly what was picked up and not yet given away: a
\* removal takes the amount asked for (or all there is), and no operation makes or
\* loses an item, save a move of a stack onto its own slot, which makes or loses
\* just OwnSlotGain, and an attack that asks for more stars than there are.
LedgerAgrees == \A id \in Ids : CountById(inv, id) = ledger[id]

\* No stack of ordinary items is empty or above its maximum.
StacksBounded == \A s \in Occupied(inv) :
    inv[s].id \notin Rechargeable => inv[s].quantity \in 1 .. SlotMax[inv[s].id]

\* canHoldItem (hasRoom) keeps its promise to addFromDrop, though it counts only
\* stacks that are equal in everything and addFromDrop fills all of the id, and
\* though it reckons free slots in fractions: what has room is added in full.
HasRoomIsSound == \A k \in Incoming :
    HasRoom(inv, k) => \A order \in ListById(inv, k.id) : AddFromDrop(inv, k, order).left = 0

\* removeStarById says, where fewer stars are left than asked for:
\* "We have no more stars, just take them all."
StarsAllTaken == \A id \in Ids, q \in 1 .. MaxQuantity :
    CountById(inv, id) < q => CountById(RemoveStarById(inv, id, q), id) = 0
=============================================================================
