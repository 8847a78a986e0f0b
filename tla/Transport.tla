------------------------------ MODULE Transport ------------------------------
(***************************************************************************)
(* The rides that follow a timetable: the boats of Ellinia and Orbis, the  *)
(* trains, the flights, the genie and the subway.  Each is an event script *)
(* of its own EventManager (scripts/event/Boats.js and its likes): timers  *)
(* close the gate, carry the lounges to the decks, and carry the decks to  *)
(* the shore.  Travellers talk to an usher, who lets them into the lounge, *)
(* or to a purser, who lets them out.  An administrator may load the event *)
(* scripts anew at any moment (Channel.reloadEventScriptManager).          *)
(*                                                                         *)
(* The timer tasks run on TimerManager's pool: two of them may run at      *)
(* once, and players act between any two of their steps.  Time counts in   *)
(* minutes and moves only when no task is due or running: a task is taken  *)
(* to last less than a minute.  The clock leaps to the next timer that is  *)
(* due, as nothing but timers depends on it.                               *)
(***************************************************************************)
EXTENDS Integers, FiniteSets, Sequences

CONSTANTS
    Players,
    Lines,          \* the rides: a record for each script (see TransportLines)
    Waits,          \* how long before the next departure the scripts are loaded
    MaxReloads      \* how often the event scripts are loaded anew

Tasks == {"stopEntry", "takeoff", "arrived"}
Never == -1         \* a timer that is not set
Managers == 1 .. MaxReloads + 1

\* What the scripts' tables have in common: warps go from lounges to vehicles and from
\* vehicles to the shore; a cabin is on board like its deck (a leg without a cabin has
\* its deck twice); nobody but an usher lets a player into a lounge, and nobody at all
\* onto a vehicle.
LineShape(ln) ==
    LET lounges == {ln.boarding[i].from : i \in DOMAIN ln.boarding}
        vehicles == {ln.landing[i].from : i \in DOMAIN ln.landing}
        doors == {ln.legs[i].door : i \in DOMAIN ln.legs}
    IN /\ ln.close \in Nat /\ ln.begin \in Nat /\ ln.ride \in Nat \ {0} /\ ln.align \in Nat \ {0}
       /\ ln.close < ln.begin
       /\ ln.rearms \in {"takeoff", "arrived"} /\ ln.opens \in BOOLEAN
       /\ ln.boarding \in Seq([from : Nat, to : Nat]) /\ ln.landing \in Seq([from : Nat, to : Nat])
       /\ lounges \cap vehicles = {}
       /\ \A i \in DOMAIN ln.boarding : ln.boarding[i].to \in vehicles
       /\ \A i \in DOMAIN ln.landing : ln.landing[i].to \notin lounges \cup vehicles \cup doors
       /\ 0 \notin DOMAIN ln.legs
       /\ \A i \in DOMAIN ln.legs :
             /\ ln.legs[i].keeps \in BOOLEAN /\ ln.legs[i].asks \in BOOLEAN
             /\ {ln.legs[i].deck, ln.legs[i].cabin} \subseteq vehicles
             /\ ln.legs[i].door \in Nat \ vehicles
             /\ {ln.legs[i].pier, ln.legs[i].purser.then, ln.legs[i].purser.other}
                    \subseteq Nat \ (lounges \cup vehicles \cup doors)

ASSUME TransportAssumption ==
    /\ MaxReloads \in Nat
    /\ Waits \subseteq Nat \ {0}
    /\ \A script \in DOMAIN Lines : LineShape(Lines[script])

VARIABLES
    event,      \* the script this behaviour is about
    gen,        \* the EventManager in use: the number of loads so far
    entry,      \* the managers' property "entry"
    due,        \* minutes until each manager's timers are due
    running,    \* the tasks under way: the next warp, who is still to be moved
    torn,       \* a reload found a task under way
    online, loc, talk,
    bound,      \* the leg whose usher let the player in last, 0 if none did
    flown       \* minutes on board

vars == <<event, gen, entry, due, running, torn, online, loc, talk, bound, flown>>
travellers == <<online, loc, talk, bound, flown>>

Idle == [at |-> 0, list |-> {}, stood |-> {}]
Silent == [about |-> "nothing", leg |-> 0, gen |-> 0]

line == Lines[event]
Legs == DOMAIN line.legs
Leg(i) == line.legs[i]
Lounges == {line.boarding[i].from : i \in DOMAIN line.boarding}
Vehicles == {line.landing[i].from : i \in DOMAIN line.landing}
Doors == {Leg(i).door : i \in Legs}
Ashore(p) == loc[p] \notin Lounges \cup Vehicles \cup Doors

Waiting(p) == p \in online /\ loc[p] \in Lounges
Aboard(p) == p \in online /\ loc[p] \in Vehicles

(***************************************************************************)
(* The timetable                                                           *)
(***************************************************************************)

\* What init sets up: the gate closes a minute before the first departure, which
\* is the next one by the clock on the wall.
Timetable(wait) == [t \in Tasks |->
    CASE t = "stopEntry" -> wait - 1
      [] t = "takeoff" -> wait
      [] OTHER -> Never]

Unset == [t \in Tasks |-> Never]

Init ==
    /\ event \in DOMAIN Lines
    /\ gen = 1
    /\ entry = [g \in Managers |-> IF g = 1 /\ line.opens THEN "true" ELSE "unset"]
    /\ \E wait \in Waits \cap 1 .. line.align :
          due = [g \in Managers |-> IF g = 1 THEN Timetable(wait) ELSE Unset]
    /\ running = [g \in Managers |-> [t \in Tasks |-> Idle]]
    /\ torn = FALSE
    /\ online = Players
    /\ loc \in [Players -> {Leg(i).pier : i \in Legs}]
    /\ talk = [p \in Players |-> Silent]
    /\ bound = [p \in Players |-> 0]
    /\ flown = [p \in Players |-> 0]

UnderWay(g, t) == running[g][t] # Idle
Due(g, t) == due[g][t] = 0

Quiet == \A g \in Managers, t \in Tasks : ~UnderWay(g, t) /\ ~Due(g, t)

Capped(n) == IF n > line.ride THEN line.ride ELSE n

Pending == {due[g][t] : g \in Managers, t \in Tasks} \ {Never}

\* The time until the next timer goes by.
Elapse ==
    /\ Quiet
    /\ \E n \in Pending :
          /\ \A m \in Pending : n <= m
          /\ due' = [g \in Managers |-> [t \in Tasks |->
                        IF due[g][t] = Never THEN Never ELSE due[g][t] - n]]
          /\ flown' = [p \in Players |->
                        IF loc[p] \in Vehicles THEN Capped(flown[p] + n) ELSE flown[p]]
    /\ UNCHANGED <<event, gen, entry, running, torn, online, loc, talk, bound>>

\* Mutant: the second lounge is warped to the deck of the first.
WarpsSame(t) ==
    IF t = "takeoff" THEN <<line.boarding[1], [line.boarding[2] EXCEPT !.to = line.boarding[1].to]>>
    ELSE line.landing

Warps(t) == IF t = "takeoff" THEN line.boarding ELSE line.landing
Sources(t) == {Warps(t)[i].from : i \in DOMAIN Warps(t)}

StopEntry(g) ==
    /\ Due(g, "stopEntry")
    /\ entry' = [entry EXCEPT ![g] = "false"]
    /\ due' = [due EXCEPT ![g]["stopEntry"] = Never]
    /\ UNCHANGED <<event, gen, running, torn, travellers>>

\* takeoff and arrived begin.  The pool starts what was scheduled first: the plane's
\* arrival before the departure that is due with it.  The plane opens its gate again
\* as it takes off.
Begin(g, t) ==
    /\ t # "stopEntry"
    /\ Due(g, t)
    /\ t = "takeoff" => ~Due(g, "arrived")
    /\ ~UnderWay(g, t)
    /\ due' = [due EXCEPT ![g][t] = Never]
    /\ running' = [running EXCEPT ![g][t] =
          [at |-> 1, list |-> {}, stood |-> {p \in online : loc[p] \in Sources(t)}]]
    /\ entry' = IF t = "takeoff" /\ line.rearms = "takeoff" THEN [entry EXCEPT ![g] = "true"] ELSE entry
    /\ UNCHANGED <<event, gen, torn, travellers>>

\* Mutant: a player in a conversation is not moved.
CopySilent(g, t) ==
    LET run == running[g][t] IN
    /\ run.at \in DOMAIN Warps(t)
    /\ run.list = {}
    /\ running' = [running EXCEPT ![g][t] =
          [at |-> run.at + 1,
           list |-> {p \in online : loc[p] = Warps(t)[run.at].from /\ talk[p] = Silent},
           stood |-> run.stood]]
    /\ UNCHANGED <<event, gen, entry, due, torn, travellers>>

\* warpEveryone copies the characters of the map it empties ...
Copy(g, t) ==
    LET run == running[g][t] IN
    /\ run.at \in DOMAIN Warps(t)
    /\ run.list = {}
    /\ running' = [running EXCEPT ![g][t] =
          [at |-> run.at + 1,
           list |-> {p \in online : loc[p] = Warps(t)[run.at].from},
           stood |-> run.stood]]
    /\ UNCHANGED <<event, gen, entry, due, torn, travellers>>

\* ... and moves them one after the other, wherever they are by then.
Carry(g, t, p) ==
    LET run == running[g][t] IN
    /\ p \in run.list
    /\ running' = [running EXCEPT ![g][t] =
          [at |-> run.at, list |-> run.list \ {p}, stood |-> run.stood]]
    /\ loc' = [loc EXCEPT ![p] = Warps(t)[run.at - 1].to]
    /\ flown' = [flown EXCEPT ![p] = 0]
    /\ UNCHANGED <<event, gen, entry, due, torn, online, talk, bound>>

Done(g, t) == /\ UnderWay(g, t)
              /\ running[g][t].list = {}
              /\ running[g][t].at > Len(Warps(t))

\* scheduleNew; em.schedule replaces a timer of the same name.
Rearmed(timers) == [timers EXCEPT !["stopEntry"] = line.close, !["takeoff"] = line.begin]

\* Mutant: the ride is given the time until the departure.
EndTakeoffEarly(g) ==
    /\ Done(g, "takeoff")
    /\ running' = [running EXCEPT ![g]["takeoff"] = Idle]
    /\ due' = [due EXCEPT ![g] =
          LET timers == [@ EXCEPT !["arrived"] = line.begin]
          IN IF line.rearms = "takeoff" THEN Rearmed(timers) ELSE timers]
    /\ UNCHANGED <<event, gen, entry, torn, travellers>>

\* Mutant: the plane's departure forgets to schedule the arrival.
EndTakeoffForgets(g) ==
    /\ Done(g, "takeoff")
    /\ running' = [running EXCEPT ![g]["takeoff"] = Idle]
    /\ due' = [due EXCEPT ![g] = IF line.rearms = "takeoff" THEN Rearmed(@)
                                 ELSE [@ EXCEPT !["arrived"] = line.ride]]
    /\ UNCHANGED <<event, gen, entry, torn, travellers>>

EndTakeoff(g) ==
    /\ Done(g, "takeoff")
    /\ running' = [running EXCEPT ![g]["takeoff"] = Idle]
    /\ due' = [due EXCEPT ![g] =
          LET timers == [@ EXCEPT !["arrived"] = line.ride]
          IN IF line.rearms = "takeoff" THEN Rearmed(timers) ELSE timers]
    /\ UNCHANGED <<event, gen, entry, torn, travellers>>

\* Mutant: scheduleNew opens the gate but schedules no departure.
EndArrivedOnce(g) ==
    /\ Done(g, "arrived")
    /\ running' = [running EXCEPT ![g]["arrived"] = Idle]
    /\ entry' = IF line.rearms = "arrived" THEN [entry EXCEPT ![g] = "true"] ELSE entry
    /\ UNCHANGED <<event, gen, due, torn, travellers>>

EndArrived(g) ==
    /\ Done(g, "arrived")
    /\ running' = [running EXCEPT ![g]["arrived"] = Idle]
    /\ IF line.rearms = "arrived"
       THEN /\ entry' = [entry EXCEPT ![g] = "true"]
            /\ due' = [due EXCEPT ![g] = Rearmed(@)]
       ELSE UNCHANGED <<entry, due>>
    /\ UNCHANGED <<event, gen, torn, travellers>>

\* Mutant: the reload leaves the old manager's timers alone.
ReloadUncancelled ==
    /\ gen <= MaxReloads
    /\ gen' = gen + 1
    /\ torn' = (torn \/ \E g \in Managers, t \in Tasks : UnderWay(g, t))
    /\ entry' = [entry EXCEPT ![gen + 1] = IF line.opens THEN "true" ELSE "unset"]
    /\ \E wait \in Waits \cap 1 .. line.align : due' = [due EXCEPT ![gen + 1] = Timetable(wait)]
    /\ UNCHANGED <<event, running, travellers>>

\* The old manager's timers are cancelled, a task under way goes on with the old
\* manager; the new one sets up its own timetable.
Reload ==
    /\ gen <= MaxReloads
    /\ gen' = gen + 1
    /\ torn' = (torn \/ \E g \in Managers, t \in Tasks : UnderWay(g, t))
    /\ entry' = [entry EXCEPT ![gen + 1] = IF line.opens THEN "true" ELSE "unset"]
    /\ \E wait \in Waits \cap 1 .. line.align :
          due' = [due EXCEPT ![gen] = Unset, ![gen + 1] = Timetable(wait)]
    /\ UNCHANGED <<event, running, travellers>>

(***************************************************************************)
(* The travellers                                                          *)
(***************************************************************************)

\* A player who moves on his own account is no longer one the tasks under way found.
MovesAway(p) == running' = [g \in Managers |-> [t \in Tasks |->
                    [running[g][t] EXCEPT !.stood = @ \ {p}]]]

Stroll(p, i) ==
    /\ p \in online
    /\ Ashore(p)
    /\ talk[p] = Silent
    /\ loc' = [loc EXCEPT ![p] = Leg(i).pier]
    /\ MovesAway(p)
    /\ UNCHANGED <<event, gen, entry, due, torn, online, talk, bound, flown>>

\* start(): most ushers talk about boarding only while the gate is open.
AskUsher(p, i) ==
    /\ p \in online
    /\ loc[p] = Leg(i).pier
    /\ talk[p] = Silent
    /\ Leg(i).asks => entry[gen] = "true"
    /\ talk' = [talk EXCEPT ![p] =
          [about |-> "boarding", leg |-> i, gen |-> IF Leg(i).keeps THEN gen ELSE 0]]
    /\ UNCHANGED <<event, gen, entry, due, running, torn, online, loc, bound, flown>>

\* The manager whose gate the usher asks about when the answer comes.
Asked(p) == IF Leg(talk[p].leg).keeps THEN talk[p].gen ELSE gen

\* Mutant: the gate is not asked again.
BoardUnasked(p) ==
    /\ p \in online
    /\ talk[p].about = "boarding"
    /\ loc' = [loc EXCEPT ![p] = Leg(talk[p].leg).door]
    /\ bound' = [bound EXCEPT ![p] = talk[p].leg]
    /\ flown' = [flown EXCEPT ![p] = 0]
    /\ talk' = [talk EXCEPT ![p] = Silent]
    /\ MovesAway(p)
    /\ UNCHANGED <<event, gen, entry, due, torn, online>>

\* action(): the gate is asked again, then the player goes in.
Board(p) ==
    /\ p \in online
    /\ talk[p].about = "boarding"
    /\ entry[Asked(p)] = "true"
    /\ loc' = [loc EXCEPT ![p] = Leg(talk[p].leg).door]
    /\ bound' = [bound EXCEPT ![p] = talk[p].leg]
    /\ flown' = [flown EXCEPT ![p] = 0]
    /\ talk' = [talk EXCEPT ![p] = Silent]
    /\ MovesAway(p)
    /\ UNCHANGED <<event, gen, entry, due, torn, online>>

AskPurser(p) ==
    /\ p \in online
    /\ talk[p] = Silent
    /\ loc[p] \in Doors
    /\ \E i \in Legs :
          /\ Leg(i).door = loc[p]
          /\ talk' = [talk EXCEPT ![p] = [about |-> "leaving", leg |-> i, gen |-> 0]]
    /\ UNCHANGED <<event, gen, entry, due, running, torn, online, loc, bound, flown>>

\* Where a purser sends a player who is on that map by now.
SentTo(purser, map) == IF map = purser.here THEN purser.then ELSE purser.other

\* The answer to the purser comes when it comes: nothing ends a conversation when a
\* player is carried to another map.
Leave(p) ==
    /\ p \in online
    /\ talk[p].about = "leaving"
    /\ loc[p] \notin Leg(talk[p].leg).purser.sells
    /\ loc' = [loc EXCEPT ![p] = SentTo(Leg(talk[p].leg).purser, @)]
    /\ flown' = [flown EXCEPT ![p] = 0]
    /\ talk' = [talk EXCEPT ![p] = Silent]
    /\ MovesAway(p)
    /\ UNCHANGED <<event, gen, entry, due, torn, online, bound>>

\* "No", or a yes that comes too late or means something else by now.
Decline(p) ==
    /\ p \in online
    /\ talk[p] # Silent
    /\ talk' = [talk EXCEPT ![p] = Silent]
    /\ UNCHANGED <<event, gen, entry, due, running, torn, online, loc, bound, flown>>

\* Between the deck and the cabin; flown goes on counting.
Walk(p) ==
    /\ p \in online
    /\ \E i \in Legs :
          /\ Leg(i).deck # Leg(i).cabin
          /\ \/ loc[p] = Leg(i).deck /\ loc' = [loc EXCEPT ![p] = Leg(i).cabin]
             \/ loc[p] = Leg(i).cabin /\ loc' = [loc EXCEPT ![p] = Leg(i).deck]
    /\ MovesAway(p)
    /\ UNCHANGED <<event, gen, entry, due, torn, online, talk, bound, flown>>

Logout(p) ==
    /\ p \in online
    /\ online' = online \ {p}
    /\ talk' = [talk EXCEPT ![p] = Silent]
    /\ running' = [g \in Managers |-> [t \in Tasks |->
          [running[g][t] EXCEPT !.list = @ \ {p}, !.stood = @ \ {p}]]]
    /\ UNCHANGED <<event, gen, entry, due, torn, loc, bound, flown>>

\* The data of the map decides whether a player comes back where he left or on shore.
Login(p) ==
    /\ p \notin online
    /\ online' = online \cup {p}
    /\ \/ UNCHANGED <<loc, flown>>
       \/ /\ bound[p] # 0
          /\ loc' = [loc EXCEPT ![p] = Leg(bound[p]).pier]
          /\ flown' = [flown EXCEPT ![p] = 0]
    /\ UNCHANGED <<event, gen, entry, due, running, torn, talk, bound>>

TaskStep(g, t) == Begin(g, t) \/ Copy(g, t) \/ \E p \in Players : Carry(g, t, p)

System ==
    \/ Elapse
    \/ \E g \in Managers : StopEntry(g) \/ EndTakeoff(g) \/ EndArrived(g)
    \/ \E g \in Managers, t \in Tasks \ {"stopEntry"} : TaskStep(g, t)

Travel(p) ==
    \/ \E i \in Legs : Stroll(p, i) \/ AskUsher(p, i)
    \/ Board(p) \/ AskPurser(p) \/ Leave(p) \/ Decline(p)
    \/ Walk(p) \/ Logout(p) \/ Login(p)

Next == System \/ Reload \/ \E p \in Players : Travel(p)

\* The pool's threads run what is due; nobody is obliged to travel.
Spec == Init /\ [][Next]_vars
FairSpec == Spec /\ WF_vars(System)

(***************************************************************************)
(* Properties                                                              *)
(***************************************************************************)

TypeOK ==
    /\ event \in DOMAIN Lines
    /\ gen \in Managers
    /\ entry \in [Managers -> {"true", "false", "unset"}]
    /\ due \in [Managers -> [Tasks -> {Never} \cup Nat]]
    /\ running \in [Managers -> [Tasks -> [at : Nat, list : SUBSET online, stood : SUBSET online]]]
    /\ torn \in BOOLEAN
    /\ online \subseteq Players
    /\ loc \in [Players -> Nat]
    /\ talk \in [Players -> [about : {"nothing", "boarding", "leaving"}, leg : {0} \cup Legs,
                             gen : {0} \cup Managers]]
    /\ bound \in [Players -> {0} \cup Legs]
    /\ flown \in [Players -> 0 .. line.ride]

Expected(g, t) == due[g][t] # Never \/ UnderWay(g, t)
InFlight == Expected(gen, "arrived") \/ UnderWay(gen, "takeoff")

\* The timetable neither stops nor doubles: the manager in use always expects
\* its next departure or arrival, and not both (a plane always expects the next
\* departure); the managers replaced by a reload expect nothing any more.  Only a
\* reload in the middle of a task tears it: the task re-arms the old timetable.
OneTimetable ==
    torn \/ /\ \A g \in Managers \ {gen} : \A t \in Tasks : ~Expected(g, t)
            /\ IF line.rearms = "takeoff" THEN Expected(gen, "takeoff")
               ELSE Expected(gen, "takeoff") # Expected(gen, "arrived")

\* When a task has carried everybody, nobody who was there when it began and has
\* stayed where he was is still there: a departure empties every lounge, an
\* arrival every deck and cabin, although players walk between the copied maps
\* and are moved only after the copy.
NoneLeftBehind ==
    torn \/ \A g \in Managers, t \in Tasks :
        Done(g, t) => \A p \in running[g][t].stood : loc[p] \notin Sources(t)

\* A plane takes off and lands in the same minute, and so does a torn timetable: the
\* three properties below are then false.
Orderly == ~torn /\ line.rearms = "arrived"

\* Nobody is let into the lounge of a ride that has left or is leaving: the gate
\* closes before the departure, at every load of the scripts too.  (The usher of the
\* subway who keeps the manager of before a reload asks a gate that nothing closes
\* any more.)
BoardsInTime ==
    [][\A p \in Players :
          loc'[p] \in Doors \ {loc[p]} /\ Orderly => ~InFlight \/ Asked(p) # gen]_vars

\* An arrival lands nobody who has been on board for less than the ride's time.
RideTakesItsTime ==
    [][\A g \in Managers, p \in Players :
          Carry(g, "arrived", p) /\ loc[p] \in Vehicles /\ Orderly => flown[p] = line.ride]_vars

\* Whoever is on board when an arrival lands him lands where the usher who let him in promised.
LandsWhereBound ==
    [][\A g \in Managers, p \in Players :
          Carry(g, "arrived", p) /\ loc[p] \in Vehicles /\ Orderly => loc'[p] = Leg(bound[p]).landing]_vars

Looks(purser) == purser.then # purser.other

\* A passenger who answers the purser goes back to the pier he came from, though the
\* answer may come when he has long been carried on board.  The pursers of the trains
\* and of the subway look where the player is by then, and take a player on board for
\* one who came from the other side: "back to Ludi" (npc/2041001.js:47) is then the
\* far end of the ride.
LeavingGoesBack ==
    [][\A p \in Players : Leave(p) /\ ~Ashore(p) =>
          \/ loc'[p] = Leg(bound[p]).pier
          \/ loc[p] \in Vehicles /\ Looks(Leg(talk[p].leg).purser)]_vars

\* Nobody waits in a lounge for ever.  (The lounge the usher of Ellinia fills is
\* not one that a departure empties: Lounges is what the script names.)
WaitersLeave == \A p \in Players : []<>~Waiting(p)

\* A passenger who does not walk about on board for ever is landed or leaves.
RidersLand == \A p \in Players : <>[]Aboard(p) => []<><<Walk(p)>>_vars
=============================================================================
