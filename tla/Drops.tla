------------------------------- MODULE Drops -------------------------------
(***************************************************************************)
(* The drops that lie on one map, and everybody who takes them away:       *)
(*                                                                         *)
(*  - players, each served by an event loop of its own                     *)
(*    (SendDropPickUpRequest), which synchronize on the drop's monitor;    *)
(*  - the channel's update thread (MapleMap.update), which expires old     *)
(*    drops under the drop's itemLock, another lock;                       *)
(*  - a reactor (ItemAction), which consumes the drop it was waiting for,  *)
(*    under itemLock too.                                                  *)
(*                                                                         *)
(* A step is what a thread does up to its next access of pickedUp or of    *)
(* the map's objects.  The maps whose pick-up takes no lock at all         *)
(* (happyville and the guild quest) are not modelled.                      *)
(***************************************************************************)
EXTENDS Integers, FiniteSets

CONSTANTS
    Players, Parties,
    Drops,
    Killer,      \* drop -> the player it was dropped for (chrid)
    PlayerDrops, \* thrown down by a player (isPlayerDrop)
    FreeForAll,  \* drop type 2
    OnlyOne,     \* onlyOnePickup: picking one up expires the others
    Points,      \* NX cards: credited and removed early, then marked
    ReactorFood, \* what the reactor on the map waits for
    IronMen,     \* players that share nothing
    Unneeded,    \* <<player, drop>> that the quest and pet rules refuse
    Nobody

ASSUME ConstantsAssumption ==
    /\ Killer \in [Drops -> Players]
    /\ Players \cap Parties = {} /\ Nobody \notin Players \cup Parties
    /\ OnlyOne \cap Points = {}

VARIABLES
    onMap,    \* mapobjects: the drops that getMapObject finds
    pickedUp, \* MapleMapItem.pickedUp
    owner,    \* MapleMapItem.ownerid: a party or a player
    age,      \* how long ago: one monster's drops fall together
    monitor,  \* drop -> the player inside synchronized (mapitem)
    pc, want, \* each player's request: where it is and for which drop
    others,   \* the drops an onlyOnePickup grant has still to expire
    party,    \* MapleCharacter.partyid
    granted,  \* history: how often a drop was given to a player
    scan,     \* the update thread: drops still to visit, drops to delete
    reactor   \* the reactor's task: the drop it found and what comes next

players == <<pc, want, others>>
vars == <<onMap, pickedUp, owner, age, monitor, players, party, granted, scan, reactor>>

\* Ages: the bounds are 900 ms, 5 s, 10 s and the delete time.
Falling == 0
Landed == 1
Cold == 2
Free == 3
Expired == 4

-----------------------------------------------------------------------------
(* A player picks up: SendDropPickUpRequest.pickUpItem                      *)

DropOwner(p, d) == owner[d] \in {p, party[p]}

\* The waiting times, and the iron man rule.
MayTake(p, d) ==
    /\ d \in PlayerDrops => age >= Cold \/ DropOwner(p, d)
    /\ d \notin PlayerDrops =>
          /\ age # Falling
          /\ DropOwner(p, d) \/ d \in FreeForAll \/ age >= Free
    /\ p \in IronMen \/ Killer[d] \in IronMen => DropOwner(p, d)
    /\ <<p, d>> \notin Unneeded

\* handlePacket: the drop is found on the map; canHoldItem says yes.
Request(p, d) ==
    /\ pc[p] = "idle" /\ d \in onMap
    /\ pc' = [pc EXCEPT ![p] = "waiting"]
    /\ want' = [want EXCEPT ![p] = d]
    /\ UNCHANGED <<onMap, pickedUp, owner, age, monitor, others, party, granted, scan, reactor>>

\* Mutant: isPickedUp is not asked again inside the monitor.
EnterUnchecked(p) ==
    /\ pc[p] = "waiting" /\ monitor[want[p]] = Nobody
    /\ IF MayTake(p, want[p])
       THEN /\ monitor' = [monitor EXCEPT ![want[p]] = p]
            /\ pc' = [pc EXCEPT ![p] = "inside"]
       ELSE /\ pc' = [pc EXCEPT ![p] = "idle"]
            /\ UNCHANGED monitor
    /\ UNCHANGED <<onMap, pickedUp, owner, age, want, others, party, granted, scan, reactor>>

\* synchronized (mapitem): an answer of no leaves the monitor at once.
Enter(p) ==
    /\ pc[p] = "waiting" /\ monitor[want[p]] = Nobody
    /\ IF ~ pickedUp[want[p]] /\ MayTake(p, want[p])
       THEN /\ monitor' = [monitor EXCEPT ![want[p]] = p]
            /\ pc' = [pc EXCEPT ![p] = "inside"]
       ELSE /\ pc' = [pc EXCEPT ![p] = "idle"]
            /\ UNCHANGED monitor
    /\ UNCHANGED <<onMap, pickedUp, owner, age, want, others, party, granted, scan, reactor>>

\* The meso, the item or the points reach the player.
Grant(p) ==
    /\ pc[p] = "inside"
    /\ granted' = [granted EXCEPT ![want[p]] = @ + 1]
    /\ others' = [others EXCEPT ![p] =
          IF want[p] \in OnlyOne THEN (onMap \cap OnlyOne) \ {want[p]} ELSE {}]
    /\ pc' = [pc EXCEPT ![p] = IF want[p] \in Points THEN "remove"
                               ELSE IF want[p] \in OnlyOne THEN "expire" ELSE "mark"]
    /\ UNCHANGED <<onMap, pickedUp, owner, age, monitor, want, party, scan, reactor>>

\* The inventory filled up since canHoldItem said yes outside the monitor.
GiveUp(p) ==
    /\ pc[p] = "inside" /\ want[p] \notin Points
    /\ pc' = [pc EXCEPT ![p] = "idle"]
    /\ monitor' = [monitor EXCEPT ![want[p]] = Nobody]
    /\ UNCHANGED <<onMap, pickedUp, owner, age, want, others, party, granted, scan, reactor>>

\* Mutant: the other drop's monitor is taken first.
ExpireOtherLocked(p) ==
    /\ pc[p] = "expire"
    /\ IF others[p] = {}
       THEN /\ pc' = [pc EXCEPT ![p] = "mark"]
            /\ UNCHANGED <<others, pickedUp, onMap>>
       ELSE \E d \in others[p] :
            /\ monitor[d] = Nobody
            /\ pickedUp' = [pickedUp EXCEPT ![d] = TRUE]
            /\ onMap' = onMap \ {d}
            /\ others' = [others EXCEPT ![p] = @ \ {d}]
            /\ UNCHANGED pc
    /\ UNCHANGED <<owner, age, monitor, want, party, granted, scan, reactor>>

\* Every other onlyOnePickup drop goes, without a lock of its own.
ExpireOther(p) ==
    /\ pc[p] = "expire"
    /\ IF others[p] = {}
       THEN /\ pc' = [pc EXCEPT ![p] = "mark"]
            /\ UNCHANGED <<others, pickedUp, onMap>>
       ELSE \E d \in others[p] :
            /\ pickedUp' = [pickedUp EXCEPT ![d] = TRUE]
            /\ onMap' = onMap \ {d}
            /\ others' = [others EXCEPT ![p] = @ \ {d}]
            /\ UNCHANGED pc
    /\ UNCHANGED <<owner, age, monitor, want, party, granted, scan, reactor>>

\* The monitor is left with the later of the two steps.
Leave(p, d) ==
    /\ pc' = [pc EXCEPT ![p] = "idle"]
    /\ monitor' = [monitor EXCEPT ![d] = Nobody]

\* setPickedUp(true)
Mark(p) ==
    /\ pc[p] = "mark"
    /\ pickedUp' = [pickedUp EXCEPT ![want[p]] = TRUE]
    /\ IF want[p] \in Points THEN Leave(p, want[p])
       ELSE /\ pc' = [pc EXCEPT ![p] = "remove"] /\ UNCHANGED monitor
    /\ UNCHANGED <<onMap, owner, age, want, others, party, granted, scan, reactor>>

\* Mutant: the points are credited but the card stays on the map.
RemoveForgotten(p) ==
    /\ pc[p] = "remove"
    /\ onMap' = IF want[p] \in Points THEN onMap ELSE onMap \ {want[p]}
    /\ IF want[p] \in Points
       THEN pc' = [pc EXCEPT ![p] = "mark"] /\ UNCHANGED monitor
       ELSE Leave(p, want[p])
    /\ UNCHANGED <<pickedUp, owner, age, want, others, party, granted, scan, reactor>>

\* removeMapObject(ob); points are marked only after it.
Remove(p) ==
    /\ pc[p] = "remove"
    /\ onMap' = onMap \ {want[p]}
    /\ IF want[p] \in Points
       THEN pc' = [pc EXCEPT ![p] = "mark"] /\ UNCHANGED monitor
       ELSE Leave(p, want[p])
    /\ UNCHANGED <<pickedUp, owner, age, want, others, party, granted, scan, reactor>>

-----------------------------------------------------------------------------
(* MapleMap.update                                                          *)

NoScan == [on |-> FALSE, todo |-> {}, delete |-> {}]

ScanStart ==
    /\ ~ scan.on
    /\ scan' = [on |-> TRUE, todo |-> onMap, delete |-> {}]
    /\ UNCHANGED <<onMap, pickedUp, owner, age, monitor, players, party, granted, reactor>>

\* A drop that somebody else has just marked ends the whole update: its list of
\* what to delete is thrown away.
ScanVisit(d) ==
    /\ d \in scan.todo
    /\ LET rest == [scan EXCEPT !.todo = @ \ {d}]
       IN  IF age < Expired THEN scan' = rest /\ UNCHANGED pickedUp
           ELSE IF pickedUp[d] THEN scan' = NoScan /\ UNCHANGED pickedUp
           ELSE /\ scan' = [rest EXCEPT !.delete = @ \cup {d}]
                /\ pickedUp' = [pickedUp EXCEPT ![d] = TRUE]
    /\ UNCHANGED <<onMap, owner, age, monitor, players, party, granted, reactor>>

ScanEnd ==
    /\ scan.on /\ scan.todo = {}
    /\ onMap' = onMap \ scan.delete
    /\ scan' = NoScan
    /\ UNCHANGED <<pickedUp, owner, age, monitor, players, party, granted, reactor>>

-----------------------------------------------------------------------------
(* server.reactors.actions.ItemAction                                       *)

Resting == [step |-> "rest", drop |-> Nobody]

\* check and findFirst: a drop that matches and is not picked up.
ReactorFinds(d) ==
    /\ reactor = Resting
    /\ d \in onMap \cap ReactorFood /\ ~ pickedUp[d]
    /\ reactor' = [step |-> "found", drop |-> d]
    /\ UNCHANGED <<onMap, pickedUp, owner, age, monitor, players, party, granted, scan>>

\* Under itemLock; whether the drop is still there is not asked again.
ReactorTakes ==
    /\ reactor.step = "found"
    /\ pickedUp' = [pickedUp EXCEPT ![reactor.drop] = TRUE]
    /\ reactor' = [reactor EXCEPT !.step = "took"]
    /\ UNCHANGED <<onMap, owner, age, monitor, players, party, granted, scan>>

ReactorRemoves ==
    /\ reactor.step = "took"
    /\ onMap' = onMap \ {reactor.drop}
    /\ reactor' = Resting
    /\ UNCHANGED <<pickedUp, owner, age, monitor, players, party, granted, scan>>

-----------------------------------------------------------------------------
(* The clock and the parties                                                *)

TimePasses ==
    /\ age < Expired
    /\ age' = age + 1
    /\ UNCHANGED <<onMap, pickedUp, owner, monitor, players, party, granted, scan, reactor>>

JoinsOrLeaves(p) ==
    /\ \E q \in Parties \cup {Nobody} :
          (q = Nobody) # (party[p] = Nobody) /\ party' = [party EXCEPT ![p] = q]
    /\ UNCHANGED <<onMap, pickedUp, owner, age, monitor, players, granted, scan, reactor>>

\* The constructor: the owner is the killer's party, if he has one.
OwnerFor(p) == IF party[p] = Nobody THEN p ELSE party[p]

\* The drops have just been spawned.
Init ==
    /\ onMap = Drops
    /\ pickedUp = [d \in Drops |-> FALSE]
    /\ party \in [Players -> Parties \cup {Nobody}]
    /\ owner = [d \in Drops |-> OwnerFor(Killer[d])]
    /\ age = Falling
    /\ monitor = [d \in Drops |-> Nobody]
    /\ pc = [p \in Players |-> "idle"]
    /\ want = [p \in Players |-> Nobody]
    /\ others = [p \in Players |-> {}]
    /\ granted = [d \in Drops |-> 0]
    /\ scan = NoScan
    /\ reactor = Resting

PickUpStep(p) == Grant(p) \/ GiveUp(p) \/ ExpireOther(p) \/ Mark(p) \/ Remove(p)

Next ==
    \/ \E p \in Players : (\E d \in Drops : Request(p, d)) \/ Enter(p) \/ PickUpStep(p)
    \/ ScanStart \/ (\E d \in Drops : ScanVisit(d)) \/ ScanEnd
    \/ (\E d \in Drops : ReactorFinds(d)) \/ ReactorTakes \/ ReactorRemoves
    \/ TimePasses \/ (\E p \in Players : JoinsOrLeaves(p))

\* An event loop goes on with the request it is serving.  Entering is strongly
\* fair: a thread that waits for a monitor is in its queue and is handed it.
Fairness ==
    \A p \in Players : WF_vars(PickUpStep(p)) /\ SF_vars(Enter(p))

Spec == Init /\ [][Next]_vars
FairSpec == Spec /\ Fairness

-----------------------------------------------------------------------------
TypeOK ==
    /\ onMap \subseteq Drops
    /\ pickedUp \in [Drops -> BOOLEAN]
    /\ owner \in [Drops -> Players \cup Parties]
    /\ age \in Falling .. Expired
    /\ monitor \in [Drops -> Players \cup {Nobody}]
    /\ pc \in [Players -> {"idle", "waiting", "inside", "expire", "mark", "remove"}]
    /\ want \in [Players -> Drops \cup {Nobody}]
    /\ others \in [Players -> SUBSET Drops]
    /\ party \in [Players -> Parties \cup {Nobody}]
    /\ granted \in [Drops -> Nat]
    /\ scan \in [on : BOOLEAN, todo : SUBSET Drops, delete : SUBSET Drops]
    /\ reactor \in [step : {"rest", "found", "took"}, drop : Drops \cup {Nobody}]

\* A drop reaches at most one player: the look at the map, the question whether
\* it is picked up, the grant and the mark are four steps, taken while other
\* players, the update thread and a reactor take theirs.
GrantedOnce == \A d \in Drops : granted[d] <= 1

\* Whoever asks for a drop gets an answer: the monitors are never waited for in
\* a circle, though an onlyOnePickup grant works on drops others have locked.
AllServed == \A p \in Players : pc[p] = "waiting" ~> pc[p] = "idle"

\* A drop that was given away leaves the map, whichever thread marked it first.
GrantedLeaves == \A d \in Drops : granted[d] > 0 ~> d \notin onMap

\* "Loop through drops on the map, and expire all of the other only one pickup
\* items": of those that lie together one is given away.
OnlyOneGranted == \A d, e \in OnlyOne : granted[d] > 0 /\ granted[e] > 0 => d = e

=============================================================================
