-------------------------- MODULE Transport_proofs --------------------------
(***************************************************************************)
(* What holds of the rides for any timetable of their kind, any travellers *)
(* and any number of reloads.  While no reload tears the timetable, one    *)
(* manager is at work and it is in one of four phases: on the ground,      *)
(* taking off, in flight, landing.  Each has its own timers, its own gate, *)
(* and its own bound on how long those on board have been there.  Where    *)
(* everybody ends up depends on the tables too: what they must agree on is *)
(* RoutesMatch, and those of the six scripts do.                           *)
(***************************************************************************)
EXTENDS Transport, TransportLines, SequenceTheorems, TLAPS

\* A conversation is about a leg, and an usher who keeps a manager has one.
TalkOK == \A p \in Players : talk[p].about # "nothing" =>
    /\ talk[p].leg \in Legs
    /\ talk[p].about = "boarding" /\ Leg(talk[p].leg).keeps => talk[p].gen \in Managers

\* A task that is not under way is about nobody.
TasksOK == \A g \in Managers, t \in Tasks :
    /\ running[g][t].at = 0 => running[g][t].list = {} /\ running[g][t].stood = {}
    /\ t = "stopEntry" => running[g][t].at = 0

\* Who is still to be moved was copied from the map before the next one.
ListsOK == \A g \in Managers, t \in Tasks :
    running[g][t].list # {} => running[g][t].at - 1 \in DOMAIN Warps(t)

Base == TypeOK /\ TalkOK /\ TasksOK /\ ListsOK

\* The managers that are not in use neither expect nor do anything.
OnlyNow == \A g \in Managers \ {gen} : \A t \in Tasks : due[g][t] = Never /\ running[g][t].at = 0

NoneRuns == running[gen]["takeoff"].at = 0 /\ running[gen]["arrived"].at = 0

OnGround ==
    /\ NoneRuns
    /\ due[gen]["takeoff"] # Never /\ due[gen]["arrived"] = Never
    /\ due[gen]["stopEntry"] = Never => entry[gen] = "false"
    /\ due[gen]["stopEntry"] # Never => due[gen]["stopEntry"] < due[gen]["takeoff"]

NoDeparture == /\ due[gen]["stopEntry"] = Never /\ due[gen]["takeoff"] = Never
               /\ entry[gen] = "false"

TakingOff ==
    /\ NoDeparture /\ due[gen]["arrived"] = Never
    /\ running[gen]["takeoff"].at # 0 /\ running[gen]["arrived"].at = 0

InTheAir ==
    /\ NoDeparture /\ due[gen]["arrived"] # Never
    /\ NoneRuns
    /\ \A p \in Players : loc[p] \in Vehicles => flown[p] + due[gen]["arrived"] >= line.ride

Landing ==
    /\ NoDeparture /\ due[gen]["arrived"] = Never
    /\ running[gen]["takeoff"].at = 0 /\ running[gen]["arrived"].at # 0
    /\ \A p \in Players : loc[p] \in Vehicles => flown[p] = line.ride

Phases == IF line.rearms = "arrived" THEN OnGround \/ TakingOff \/ InTheAir \/ Landing
          ELSE due[gen]["takeoff"] # Never \/ running[gen]["takeoff"].at # 0

\* Who was found on a map and stayed is copied by now or on a map still to be copied.
Found == \A g \in Managers, t \in Tasks : \A p \in running[g][t].stood :
    loc[p] \in Sources(t) =>
        \/ p \in running[g][t].list
        \/ \E i \in DOMAIN Warps(t) : i >= running[g][t].at /\ loc[p] = Warps(t)[i].from

\* A departure carries nobody whom an arrival under way has found on board.
Apart == \A g \in Managers, p \in Players :
    /\ p \in running[g]["takeoff"].list => loc[p] \notin Vehicles /\ p \notin running[g]["arrived"].stood
    /\ p \in running[g]["arrived"].stood => loc[p] \notin Lounges

Order == OnlyNow /\ Phases /\ Found /\ Apart
IInv == Base /\ (torn \/ Order)

-----------------------------------------------------------------------------
(***************************************************************************)
(* The line                                                                *)
(***************************************************************************)

\* What the tables have in common, said of the line in use.
LEMMA LineFacts ==
  ASSUME event \in DOMAIN Lines
  PROVE  /\ line.close \in Nat /\ line.begin \in Nat /\ line.ride \in Nat /\ line.align \in Nat
         /\ line.close < line.begin
         /\ line.rearms \in {"takeoff", "arrived"}
         /\ line.boarding \in Seq([from : Nat, to : Nat]) /\ line.landing \in Seq([from : Nat, to : Nat])
         /\ Lounges \cap Vehicles = {} /\ Doors \cap Vehicles = {} /\ Doors \subseteq Nat
         /\ \A i \in DOMAIN line.boarding : line.boarding[i].to \in Vehicles
         /\ \A i \in DOMAIN line.landing : line.landing[i].to \notin Lounges \cup Vehicles \cup Doors
<1>1. LineShape(line)
  BY TransportAssumption DEF line
<1>2. /\ Lounges = {line.boarding[i].from : i \in DOMAIN line.boarding}
      /\ Vehicles = {line.landing[i].from : i \in DOMAIN line.landing}
      /\ Doors = {line.legs[i].door : i \in DOMAIN line.legs}
  BY DEF Lounges, Vehicles, Doors, Legs, Leg
<1>3. /\ Lounges \cap Vehicles = {}
      /\ \A i \in DOMAIN line.boarding : line.boarding[i].to \in Vehicles
      /\ \A i \in DOMAIN line.landing : line.landing[i].to \notin Lounges \cup Vehicles \cup Doors
      /\ \A i \in DOMAIN line.legs : line.legs[i].door \in Nat \ Vehicles
  BY <1>1, <1>2 DEF LineShape
<1>4. Doors \cap Vehicles = {} /\ Doors \subseteq Nat
  BY <1>2, <1>3
<1>5. QED
  BY <1>1, <1>3, <1>4 DEF LineShape

\* Of its legs.
LEMMA LegFacts ==
  ASSUME event \in DOMAIN Lines, NEW i \in Legs
  PROVE  /\ i # 0
         /\ Leg(i).keeps \in BOOLEAN
         /\ Leg(i).deck \in Vehicles /\ Leg(i).cabin \in Vehicles
         /\ Leg(i).door \in Doors /\ Leg(i).door \notin Vehicles /\ Leg(i).door \in Nat
         /\ \A map \in {Leg(i).pier, Leg(i).purser.then, Leg(i).purser.other} :
               map \in Nat /\ map \notin Lounges \cup Vehicles \cup Doors
<1>1. LineShape(line)
  BY TransportAssumption DEF line
<1>2. QED
  BY <1>1 DEF LineShape, Lounges, Vehicles, Doors, Legs, Leg

\* Of the two tables of warps.
LEMMA WarpFacts ==
  ASSUME event \in DOMAIN Lines, NEW t \in Tasks
  PROVE  /\ Len(Warps(t)) \in Nat /\ DOMAIN Warps(t) = 1 .. Len(Warps(t))
         /\ \A i \in DOMAIN Warps(t) : Warps(t)[i].from \in Sources(t) /\ Warps(t)[i].to \in Nat
         /\ Sources(t) \subseteq Nat
         /\ t = "takeoff" => /\ Sources(t) = Lounges
                             /\ \A i \in DOMAIN Warps(t) : Warps(t)[i].to \in Vehicles
         /\ t # "takeoff" => /\ Sources(t) = Vehicles
                             /\ \A i \in DOMAIN Warps(t) :
                                   Warps(t)[i].to \notin Lounges \cup Vehicles \cup Doors
<1>1. Warps(t) \in Seq([from : Nat, to : Nat])
  BY LineFacts DEF Warps
<1>2. Len(Warps(t)) \in Nat /\ DOMAIN Warps(t) = 1 .. Len(Warps(t))
  BY <1>1
<1>3. \A i \in DOMAIN Warps(t) : Warps(t)[i] \in [from : Nat, to : Nat]
  BY <1>1, <1>2, ElementOfSeq
<1>4. \A i \in DOMAIN Warps(t) : Warps(t)[i].from \in Sources(t) /\ Warps(t)[i].to \in Nat
  BY <1>3 DEF Sources
<1>5. Sources(t) \subseteq Nat
  BY <1>3 DEF Sources
<1>6. QED
  BY <1>2, <1>4, <1>5, LineFacts DEF Warps, Sources, Lounges, Vehicles

\* Decks and lounges are maps, and so numbers.
LEMMA MapsAreNumbers ==
  ASSUME event \in DOMAIN Lines
  PROVE  Vehicles \subseteq Nat
BY WarpFacts DEF Tasks

\* No step changes the line.
LEMMA SameLine ==
  ASSUME event' = event
  PROVE  /\ line' = line /\ Legs' = Legs /\ Lounges' = Lounges /\ Vehicles' = Vehicles /\ Doors' = Doors
         /\ \A t : Warps(t)' = Warps(t) /\ Sources(t)' = Sources(t)
         /\ \A i : Leg(i)' = Leg(i)
BY DEF line, Legs, Lounges, Vehicles, Doors, Warps, Sources, Leg

\* A task is under way when it has begun with the next warp; the others are idle.
LEMMA UnderWayAt ==
  ASSUME Base, NEW g \in Managers, NEW t \in Tasks
  PROVE  UnderWay(g, t) <=> running[g][t].at # 0
<1>1. running[g][t] \in [at : Nat, list : SUBSET online, stood : SUBSET online]
  BY DEF Base, TypeOK
<1>2. CASE running[g][t].at = 0
  <2>1. running[g][t].list = {} /\ running[g][t].stood = {}
    BY <1>2 DEF Base, TasksOK
  <2>2. running[g][t] = Idle
    BY <1>1, <1>2, <2>1 DEF Idle
  <2>3. QED
    BY <1>2, <2>2 DEF UnderWay
<1>3. CASE running[g][t].at # 0
  BY <1>3 DEF UnderWay, Idle
<1>4. QED
  BY <1>2, <1>3

-----------------------------------------------------------------------------
(***************************************************************************)
(* The beginning                                                           *)
(***************************************************************************)

\* A timetable begins on the ground.
LEMMA InitIInv == ASSUME Init PROVE IInv
<1>1. PICK wait \in Waits \cap 1 .. line.align :
          due = [g \in Managers |-> IF g = 1 THEN Timetable(wait) ELSE Unset]
  BY DEF Init
<1>2. wait \in Nat /\ wait - 1 \in Nat /\ 1 \in Managers
  BY TransportAssumption DEF Managers
<1>3. event \in DOMAIN Lines
  BY DEF Init
<1>4. \A p \in Players : loc[p] \in Nat /\ loc[p] \notin Lounges \cup Vehicles
  <2>1. \A i \in Legs : Leg(i).pier \in Nat /\ Leg(i).pier \notin Lounges \cup Vehicles
    BY <1>3, LegFacts
  <2>2. QED
    BY <2>1 DEF Init
<1>5. TypeOK
  <2>1. due \in [Managers -> [Tasks -> {Never} \cup Nat]]
    BY <1>1, <1>2 DEF Timetable, Unset, Tasks
  <2>2. running \in [Managers -> [Tasks -> [at : Nat, list : SUBSET online, stood : SUBSET online]]]
    BY DEF Init, Idle
  <2>3. talk \in [Players -> [about : {"nothing", "boarding", "leaving"}, leg : {0} \cup Legs,
                              gen : {0} \cup Managers]]
    BY DEF Init, Silent
  <2>4. loc \in [Players -> Nat]
    BY <1>4 DEF Init
  <2>5. flown \in [Players -> 0 .. line.ride] /\ bound \in [Players -> {0} \cup Legs]
    BY <1>3, LineFacts DEF Init
  <2>6. entry \in [Managers -> {"true", "false", "unset"}]
    BY DEF Init
  <2>7. QED
    BY <1>2, <1>3, <2>1, <2>2, <2>3, <2>4, <2>5, <2>6 DEF TypeOK, Init
<1>6. Base
  <2>1. \A g \in Managers, t \in Tasks : running[g][t] = Idle
    BY DEF Init
  <2>2. TalkOK /\ TasksOK /\ ListsOK
    BY <2>1 DEF Init, TalkOK, TasksOK, ListsOK, Silent, Idle
  <2>3. QED
    BY <1>5, <2>2 DEF Base
<1>7. Order
  <2>1. \A g \in Managers, t \in Tasks : running[g][t].at = 0 /\ running[g][t].stood = {} /\ running[g][t].list = {}
    BY DEF Init, Idle
  <2>2. OnlyNow
    BY <1>1, <2>1 DEF OnlyNow, Init, Unset
  <2>3. OnGround
    BY <1>1, <1>2, <2>1 DEF OnGround, NoneRuns, Timetable, Tasks, Never, Init
  <2>4. Phases
    BY <2>3 DEF Phases, OnGround
  <2>5. QED
    BY <2>1, <2>2, <2>4 DEF Order, Found, Apart, Tasks
<1>8. QED
  BY <1>6, <1>7 DEF IInv

-----------------------------------------------------------------------------
(***************************************************************************)
(* The travellers                                                          *)
(***************************************************************************)

\* Lists that only get shorter are still of the map before the next one.
LEMMA KeepsLists ==
  ASSUME ListsOK, event' = event,
         \A g \in Managers, t \in Tasks : /\ running'[g][t].at = running[g][t].at
                                          /\ running'[g][t].list \subseteq running[g][t].list
  PROVE  ListsOK'
<1> SUFFICES ASSUME NEW g \in Managers, NEW t \in Tasks, running'[g][t].list # {}
             PROVE  running'[g][t].at - 1 \in DOMAIN Warps(t)
  BY SameLine DEF ListsOK
<1>1. QED
  BY DEF ListsOK

\* One player moves, by any way but onto a vehicle, and is forgotten by the tasks that
\* found him; or nobody moves at all.
LEMMA Drift ==
  ASSUME IInv, Base', NEW p \in Players,
         UNCHANGED <<event, gen, entry, due, torn>>,
         \A g \in Managers, t \in Tasks :
            /\ running'[g][t].at = running[g][t].at
            /\ running[g][t].list \ {p} \subseteq running'[g][t].list
            /\ running'[g][t].list \subseteq running[g][t].list
            /\ running'[g][t].stood \subseteq running[g][t].stood
            /\ p \in running'[g][t].stood => loc'[p] = loc[p] /\ running'[g][t].list = running[g][t].list,
         \A q \in Players \ {p} : loc'[q] = loc[q] /\ flown'[q] = flown[q],
         loc'[p] \in Vehicles => loc[p] \in Vehicles /\ flown'[p] = flown[p]
  PROVE  IInv'
<1>1. CASE torn
  BY <1>1 DEF IInv
<1>2. CASE ~torn
  <2>1. /\ line' = line /\ Lounges' = Lounges /\ Vehicles' = Vehicles
        /\ \A t : Warps(t)' = Warps(t) /\ Sources(t)' = Sources(t)
    BY SameLine
  <2>2. Base /\ Order /\ gen \in Managers
    BY <1>2 DEF IInv, Base, TypeOK
  <2>3. OnlyNow'
    BY <2>2 DEF Order, OnlyNow
  <2>4. \A q \in Players : loc'[q] \in Vehicles => loc[q] \in Vehicles /\ flown'[q] = flown[q]
    OBVIOUS
  <2>5. NoneRuns <=> NoneRuns'
    BY <2>2 DEF NoneRuns, Tasks
  <2>6. OnGround => OnGround'
    BY <2>5 DEF OnGround
  <2>7. TakingOff => TakingOff'
    BY <2>2 DEF TakingOff, NoDeparture, Tasks
  <2>8. InTheAir => InTheAir'
    BY <2>1, <2>4, <2>5 DEF InTheAir, NoDeparture
  <2>9. Landing => Landing'
    BY <2>1, <2>2, <2>4 DEF Landing, NoDeparture, Tasks
  <2>10. Phases'
    <3>1. Phases
      BY <2>2 DEF Order
    <3>2. running'[gen]["takeoff"].at = running[gen]["takeoff"].at
      BY <2>2 DEF Tasks
    <3>3. QED
      BY <2>1, <2>6, <2>7, <2>8, <2>9, <3>1, <3>2 DEF Phases
  <2>11. Found'
    <3> SUFFICES ASSUME NEW g \in Managers, NEW t \in Tasks, NEW q \in running'[g][t].stood,
                        loc'[q] \in Sources(t)
                 PROVE  \/ q \in running'[g][t].list
                        \/ \E i \in DOMAIN Warps(t) :
                              i >= running'[g][t].at /\ loc'[q] = Warps(t)[i].from
      BY <2>1 DEF Found
    <3>1. q \in running[g][t].stood /\ q \in Players
      BY <2>2 DEF Base, TypeOK
    <3>2. loc'[q] = loc[q]
      BY <3>1
    <3>3. \/ q \in running[g][t].list
          \/ \E i \in DOMAIN Warps(t) : i >= running[g][t].at /\ loc[q] = Warps(t)[i].from
      BY <2>2, <3>1, <3>2 DEF Order, Found
    <3>4. QED
      BY <3>2, <3>3
  <2>12. Apart'
    <3> SUFFICES ASSUME NEW g \in Managers, NEW q \in Players
                 PROVE  /\ q \in running'[g]["takeoff"].list =>
                              loc'[q] \notin Vehicles /\ q \notin running'[g]["arrived"].stood
                        /\ q \in running'[g]["arrived"].stood => loc'[q] \notin Lounges
      BY <2>1 DEF Apart
    <3>1. /\ q \in running[g]["takeoff"].list =>
                loc[q] \notin Vehicles /\ q \notin running[g]["arrived"].stood
          /\ q \in running[g]["arrived"].stood => loc[q] \notin Lounges
      BY <2>2 DEF Order, Apart
    <3>2. /\ running'[g]["takeoff"].list \subseteq running[g]["takeoff"].list
          /\ running'[g]["arrived"].stood \subseteq running[g]["arrived"].stood
          /\ q \in running'[g]["arrived"].stood => loc'[q] = loc[q]
      BY DEF Tasks
    <3>3. QED
      BY <2>4, <3>1, <3>2
  <2>13. QED
    BY <2>3, <2>10, <2>11, <2>12 DEF IInv, Order
<1>3. QED
  BY <1>1, <1>2

\* What MovesAway does to the tasks.
LEMMA MovesAwayFrom ==
  ASSUME Base, NEW p \in Players, MovesAway(p)
  PROVE  /\ \A g \in Managers, t \in Tasks :
                /\ running'[g][t].at = running[g][t].at
                /\ running'[g][t].list = running[g][t].list
                /\ running'[g][t].stood = running[g][t].stood \ {p}
         /\ running' \in [Managers -> [Tasks -> [at : Nat, list : SUBSET online, stood : SUBSET online]]]
<1>1. running \in [Managers -> [Tasks -> [at : Nat, list : SUBSET online, stood : SUBSET online]]]
  BY DEF Base, TypeOK
<1>2. \A g \in Managers, t \in Tasks :
          running'[g][t] = [running[g][t] EXCEPT !.stood = @ \ {p}]
  BY DEF MovesAway
<1>3. \A g \in Managers, t \in Tasks :
          /\ running'[g][t].at = running[g][t].at
          /\ running'[g][t].list = running[g][t].list
          /\ running'[g][t].stood = running[g][t].stood \ {p}
          /\ running'[g][t] \in [at : Nat, list : SUBSET online, stood : SUBSET online]
  <2> SUFFICES ASSUME NEW g \in Managers, NEW t \in Tasks
               PROVE  /\ running'[g][t].at = running[g][t].at
                      /\ running'[g][t].list = running[g][t].list
                      /\ running'[g][t].stood = running[g][t].stood \ {p}
                      /\ running'[g][t] \in [at : Nat, list : SUBSET online, stood : SUBSET online]
    OBVIOUS
  <2>1. running[g][t] \in [at : Nat, list : SUBSET online, stood : SUBSET online]
    BY <1>1
  <2>2. running'[g][t] = [running[g][t] EXCEPT !.stood = @ \ {p}]
    BY <1>2
  <2>3. QED
    BY <2>1, <2>2
<1>4. running' = [g \in Managers |-> [t \in Tasks |-> running'[g][t]]]
  BY DEF MovesAway
<1>5. QED
  BY <1>3, <1>4

\* A player who moves on his own account to a map that is no vehicle, or from one to
\* another, keeps the invariant.
LEMMA OwnMove ==
  ASSUME IInv, NEW p \in Players, NEW map \in Nat, MovesAway(p),
         UNCHANGED <<event, gen, entry, due, torn, online>>,
         loc' = [loc EXCEPT ![p] = map],
         flown' \in [Players -> 0 .. line.ride],
         \A q \in Players \ {p} : flown'[q] = flown[q],
         map \in Vehicles => loc[p] \in Vehicles /\ flown'[p] = flown[p],
         bound' \in [Players -> {0} \cup Legs],
         talk' = talk \/ talk' = [talk EXCEPT ![p] = Silent]
  PROVE  IInv'
<1>1. Base
  BY DEF IInv
<1>2. /\ \A g \in Managers, t \in Tasks :
            /\ running'[g][t].at = running[g][t].at
            /\ running'[g][t].list = running[g][t].list
            /\ running'[g][t].stood = running[g][t].stood \ {p}
      /\ running' \in [Managers -> [Tasks -> [at : Nat, list : SUBSET online, stood : SUBSET online]]]
  BY <1>1, MovesAwayFrom
<1>3. /\ line' = line /\ Legs' = Legs
      /\ \A i : Leg(i)' = Leg(i)
  BY SameLine
<1>4. TypeOK
  BY <1>1 DEF Base
<1>5. TypeOK'
  <2>1. loc' \in [Players -> Nat]
    BY <1>4 DEF TypeOK
  <2>2. talk' \in [Players -> [about : {"nothing", "boarding", "leaving"}, leg : {0} \cup Legs,
                               gen : {0} \cup Managers]]
    <3>1. talk \in [Players -> [about : {"nothing", "boarding", "leaving"}, leg : {0} \cup Legs,
                                gen : {0} \cup Managers]]
      BY <1>4 DEF TypeOK
    <3>2. Silent \in [about : {"nothing", "boarding", "leaving"}, leg : {0} \cup Legs,
                      gen : {0} \cup Managers]
      BY DEF Silent
    <3>3. QED
      BY <3>1, <3>2
  <2>3. QED
    BY <1>2, <1>3, <1>4, <2>1, <2>2 DEF TypeOK
<1>6. TalkOK'
  <2> SUFFICES ASSUME NEW q \in Players, talk'[q].about # "nothing"
               PROVE  /\ talk'[q].leg \in Legs
                      /\ talk'[q].about = "boarding" /\ Leg(talk'[q].leg).keeps => talk'[q].gen \in Managers
    BY <1>3 DEF TalkOK
  <2>1. talk'[q] = talk[q]
    BY <1>4 DEF TypeOK, Silent
  <2>2. QED
    BY <1>1, <2>1 DEF Base, TalkOK
<1>7. TasksOK'
  <2>1. TasksOK
    BY <1>1 DEF Base
  <2> SUFFICES ASSUME NEW g \in Managers, NEW t \in Tasks
               PROVE  /\ running'[g][t].at = 0 => running'[g][t].list = {} /\ running'[g][t].stood = {}
                      /\ t = "stopEntry" => running'[g][t].at = 0
    BY DEF TasksOK
  <2>2. /\ running'[g][t].at = running[g][t].at
        /\ running'[g][t].list = running[g][t].list
        /\ running'[g][t].stood = running[g][t].stood \ {p}
    BY <1>2
  <2>3. QED
    BY <2>1, <2>2 DEF TasksOK
<1>8. \A q \in Players \ {p} : loc'[q] = loc[q]
  BY <1>4 DEF TypeOK
<1>9. loc'[p] = map
  BY <1>4 DEF TypeOK
<1>10. ListsOK'
  BY <1>1, <1>2, KeepsLists DEF Base
<1>11. Base'
  BY <1>5, <1>6, <1>7, <1>10 DEF Base
<1>12. QED
  BY <1>2, <1>8, <1>9, <1>11, Drift

\* A player who only talks.
LEMMA OnlyTalks ==
  ASSUME IInv, NEW p \in Players, NEW answer,
         UNCHANGED <<event, gen, entry, due, running, torn, online, loc, bound, flown>>,
         talk' = [talk EXCEPT ![p] = answer],
         answer \in [about : {"nothing", "boarding", "leaving"}, leg : {0} \cup Legs, gen : {0} \cup Managers],
         answer.about # "nothing" => answer.leg \in Legs,
         answer.about = "boarding" /\ Leg(answer.leg).keeps => answer.gen \in Managers
  PROVE  IInv'
<1>1. TypeOK /\ TalkOK /\ TasksOK
  BY DEF IInv, Base
<1>2. /\ line' = line /\ Legs' = Legs
      /\ \A i : Leg(i)' = Leg(i)
  BY SameLine
<1>3. TypeOK'
  BY <1>1, <1>2 DEF TypeOK
<1>4. TalkOK'
  <2> SUFFICES ASSUME NEW q \in Players, talk'[q].about # "nothing"
               PROVE  /\ talk'[q].leg \in Legs
                      /\ talk'[q].about = "boarding" /\ Leg(talk'[q].leg).keeps => talk'[q].gen \in Managers
    BY <1>2 DEF TalkOK
  <2>1. talk'[q] = IF q = p THEN answer ELSE talk[q]
    BY <1>1 DEF TypeOK
  <2>2. QED
    BY <1>1, <2>1 DEF TalkOK
<1>5. TasksOK'
  BY <1>1 DEF TasksOK
<1>6. ListsOK'
  BY KeepsLists DEF IInv, Base
<1>7. Base'
  BY <1>3, <1>4, <1>5, <1>6 DEF Base
<1>8. QED
  BY <1>7, Drift

\* Leaving the game: the tasks forget the player, and the list of those to be moved does.
LEMMA LogoutIInv ==
  ASSUME IInv, NEW p \in Players, Logout(p)
  PROVE  IInv'
<1>1. TypeOK /\ TalkOK /\ TasksOK
  BY DEF IInv, Base
<1>2. /\ UNCHANGED <<event, gen, entry, due, torn, loc, bound, flown>>
      /\ online' = online \ {p} /\ talk' = [talk EXCEPT ![p] = Silent]
      /\ running' = [g \in Managers |-> [t \in Tasks |->
            [running[g][t] EXCEPT !.list = @ \ {p}, !.stood = @ \ {p}]]]
  BY DEF Logout
<1>3. /\ line' = line /\ Legs' = Legs
      /\ \A i : Leg(i)' = Leg(i)
  BY <1>2, SameLine
<1>4. \A g \in Managers, t \in Tasks :
          /\ running'[g][t].at = running[g][t].at
          /\ running'[g][t].list = running[g][t].list \ {p}
          /\ running'[g][t].stood = running[g][t].stood \ {p}
          /\ running'[g][t] \in [at : Nat, list : SUBSET online', stood : SUBSET online']
  <2> SUFFICES ASSUME NEW g \in Managers, NEW t \in Tasks
               PROVE  /\ running'[g][t].at = running[g][t].at
                      /\ running'[g][t].list = running[g][t].list \ {p}
                      /\ running'[g][t].stood = running[g][t].stood \ {p}
                      /\ running'[g][t] \in [at : Nat, list : SUBSET online', stood : SUBSET online']
    OBVIOUS
  <2>1. running[g][t] \in [at : Nat, list : SUBSET online, stood : SUBSET online]
    BY <1>1 DEF TypeOK
  <2>2. running'[g][t] = [at |-> running[g][t].at, list |-> running[g][t].list \ {p},
                          stood |-> running[g][t].stood \ {p}]
    BY <1>2, <2>1
  <2>3. QED
    BY <1>2, <2>1, <2>2
<1>5. running' \in [Managers -> [Tasks -> [at : Nat, list : SUBSET online', stood : SUBSET online']]]
  <2>1. running' = [g \in Managers |-> [t \in Tasks |-> running'[g][t]]]
    BY <1>2
  <2>2. QED
    BY <1>4, <2>1
<1>6. /\ talk' \in [Players -> [about : {"nothing", "boarding", "leaving"}, leg : {0} \cup Legs,
                                gen : {0} \cup Managers]]
      /\ \A q \in Players : talk'[q] = IF q = p THEN Silent ELSE talk[q]
  <2>1. talk \in [Players -> [about : {"nothing", "boarding", "leaving"}, leg : {0} \cup Legs,
                              gen : {0} \cup Managers]]
    BY <1>1 DEF TypeOK
  <2>2. Silent \in [about : {"nothing", "boarding", "leaving"}, leg : {0} \cup Legs,
                    gen : {0} \cup Managers]
    BY DEF Silent
  <2>3. QED
    BY <1>2, <2>1, <2>2
<1>7. TypeOK'
  BY <1>1, <1>2, <1>3, <1>5, <1>6 DEF TypeOK
<1>8. TalkOK'
  BY <1>1, <1>2, <1>3, <1>6 DEF TalkOK, Silent
<1>9. TasksOK'
  <2> SUFFICES ASSUME NEW g \in Managers, NEW t \in Tasks
               PROVE  /\ running'[g][t].at = 0 => running'[g][t].list = {} /\ running'[g][t].stood = {}
                      /\ t = "stopEntry" => running'[g][t].at = 0
    BY DEF TasksOK
  <2>1. QED
    BY <1>1, <1>4 DEF TasksOK
<1>10. ListsOK'
  <2>1. ListsOK
    BY DEF IInv, Base
  <2>2. event' = event
    BY <1>2
  <2>3. \A g \in Managers, t \in Tasks : /\ running'[g][t].at = running[g][t].at
                                         /\ running'[g][t].list \subseteq running[g][t].list
    BY <1>4
  <2>4. QED
    BY <2>1, <2>2, <2>3, KeepsLists
<1>11. Base'
  BY <1>7, <1>8, <1>9, <1>10 DEF Base
<1>12. \A g \in Managers, t \in Tasks :
            /\ running'[g][t].at = running[g][t].at
            /\ running[g][t].list \ {p} \subseteq running'[g][t].list
            /\ running'[g][t].list \subseteq running[g][t].list
            /\ running'[g][t].stood \subseteq running[g][t].stood
            /\ p \in running'[g][t].stood => loc'[p] = loc[p] /\ running'[g][t].list = running[g][t].list
  BY <1>4
<1>13. QED
  BY <1>2, <1>11, <1>12, Drift

\* Coming back: where the player left, or on the pier.  No task knows of him.
LEMMA LoginIInv ==
  ASSUME IInv, NEW p \in Players, Login(p)
  PROVE  IInv'
<1>1. TypeOK /\ TalkOK /\ TasksOK
  BY DEF IInv, Base
<1>2. event \in DOMAIN Lines /\ line.ride \in Nat
  BY <1>1, LineFacts DEF TypeOK
<1>3. UNCHANGED <<event, gen, entry, due, running, torn, talk, bound>> /\ online' = online \cup {p} /\ p \notin online
  BY DEF Login
<1>4. /\ line' = line /\ Legs' = Legs
      /\ \A i : Leg(i)' = Leg(i)
  BY <1>3, SameLine
<1>5. /\ loc' \in [Players -> Nat] /\ flown' \in [Players -> 0 .. line.ride]
      /\ \A q \in Players \ {p} : loc'[q] = loc[q] /\ flown'[q] = flown[q]
      /\ loc'[p] \in Vehicles => loc[p] \in Vehicles /\ flown'[p] = flown[p]
  <2>1. loc \in [Players -> Nat] /\ flown \in [Players -> 0 .. line.ride] /\ 0 \in 0 .. line.ride
    BY <1>1, <1>2 DEF TypeOK
  <2>2. CASE UNCHANGED <<loc, flown>>
    BY <2>1, <2>2
  <2>3. CASE /\ bound[p] # 0
             /\ loc' = [loc EXCEPT ![p] = Leg(bound[p]).pier]
             /\ flown' = [flown EXCEPT ![p] = 0]
    <3>1. bound[p] \in Legs
      BY <1>1, <2>3 DEF TypeOK
    <3>2. Leg(bound[p]).pier \in Nat /\ Leg(bound[p]).pier \notin Vehicles
      BY <1>2, <3>1, LegFacts
    <3>3. QED
      BY <2>1, <2>3, <3>2
  <2>4. QED
    BY <2>2, <2>3 DEF Login
<1>6. \A g \in Managers, t \in Tasks :
          /\ running[g][t] \in [at : Nat, list : SUBSET online, stood : SUBSET online]
          /\ p \notin running[g][t].stood
  BY <1>1, <1>3 DEF TypeOK
<1>7. TypeOK'
  <2>1. running' \in [Managers -> [Tasks -> [at : Nat, list : SUBSET online', stood : SUBSET online']]]
    <3>1. \A g \in Managers, t \in Tasks :
              running[g][t] \in [at : Nat, list : SUBSET online', stood : SUBSET online']
      BY <1>3, <1>6
    <3>2. running \in [Managers -> [Tasks -> [at : Nat, list : SUBSET online, stood : SUBSET online]]]
      BY <1>1 DEF TypeOK
    <3>3. QED
      BY <1>3, <3>1, <3>2
  <2>2. QED
    BY <1>1, <1>3, <1>4, <1>5, <2>1 DEF TypeOK
<1>8. TalkOK' /\ TasksOK' /\ ListsOK'
  BY <1>1, <1>3, <1>4, KeepsLists DEF IInv, Base, TalkOK, TasksOK
<1>9. Base'
  BY <1>7, <1>8 DEF Base
<1>10. QED
  BY <1>3, <1>5, <1>6, <1>9, Drift

\* What a player may do keeps the invariant.
LEMMA TravelIInv ==
  ASSUME IInv, NEW p \in Players, Travel(p)
  PROVE  IInv'
<1>1. TypeOK /\ TalkOK /\ TasksOK /\ Base
  BY DEF IInv, Base
<1>2. event \in DOMAIN Lines /\ line.ride \in Nat /\ gen \in Managers
  BY <1>1, LineFacts DEF TypeOK
<1>3. /\ flown \in [Players -> 0 .. line.ride] /\ bound \in [Players -> {0} \cup Legs]
      /\ flown[p] \in 0 .. line.ride
      /\ [flown EXCEPT ![p] = 0] \in [Players -> 0 .. line.ride]
      /\ [flown EXCEPT ![p] = 0][p] = 0
      /\ \A q \in Players \ {p} : [flown EXCEPT ![p] = 0][q] = flown[q]
  BY <1>1, <1>2 DEF TypeOK
<1>4. Silent \in [about : {"nothing", "boarding", "leaving"}, leg : {0} \cup Legs, gen : {0} \cup Managers]
  BY DEF Silent
<1>5. ASSUME NEW i \in Legs, Stroll(p, i) PROVE IInv'
  <2>1. Leg(i).pier \in Nat /\ Leg(i).pier \notin Vehicles
    BY <1>2, LegFacts
  <2>2. QED
    BY <1>3, <1>5, <2>1, OwnMove DEF Stroll
<1>6. ASSUME NEW i \in Legs, AskUsher(p, i) PROVE IInv'
  <2> DEFINE answer == [about |-> "boarding", leg |-> i, gen |-> IF Leg(i).keeps THEN gen ELSE 0]
  <2>1. answer \in [about : {"nothing", "boarding", "leaving"}, leg : {0} \cup Legs, gen : {0} \cup Managers]
    BY <1>2
  <2>2. answer.leg \in Legs /\ (Leg(answer.leg).keeps => answer.gen \in Managers)
    BY <1>2
  <2>3. talk' = [talk EXCEPT ![p] = answer]
    BY <1>6 DEF AskUsher
  <2>4. UNCHANGED <<event, gen, entry, due, running, torn, online, loc, bound, flown>>
    BY <1>6 DEF AskUsher
  <2> HIDE DEF answer
  <2>5. QED
    BY <2>1, <2>2, <2>3, <2>4, OnlyTalks
<1>7. CASE Board(p)
  <2> DEFINE leg == talk[p].leg
  <2>1. leg \in Legs
    BY <1>1, <1>7 DEF TalkOK, Board
  <2>2. Leg(leg).door \in Nat /\ Leg(leg).door \notin Vehicles
    BY <1>2, <2>1, LegFacts
  <2>3. [bound EXCEPT ![p] = leg] \in [Players -> {0} \cup Legs]
    BY <1>3, <2>1
  <2>4. /\ MovesAway(p) /\ UNCHANGED <<event, gen, entry, due, torn, online>>
        /\ loc' = [loc EXCEPT ![p] = Leg(leg).door] /\ flown' = [flown EXCEPT ![p] = 0]
        /\ bound' = [bound EXCEPT ![p] = leg] /\ talk' = [talk EXCEPT ![p] = Silent]
    BY <1>7 DEF Board
  <2> HIDE DEF leg
  <2>5. QED
    BY <1>3, <2>2, <2>3, <2>4, OwnMove
<1>8. CASE AskPurser(p)
  <2>1. PICK i \in Legs : talk' = [talk EXCEPT ![p] = [about |-> "leaving", leg |-> i, gen |-> 0]]
    BY <1>8 DEF AskPurser
  <2> DEFINE answer == [about |-> "leaving", leg |-> i, gen |-> 0]
  <2>2. answer \in [about : {"nothing", "boarding", "leaving"}, leg : {0} \cup Legs, gen : {0} \cup Managers]
    OBVIOUS
  <2>3. answer.leg \in Legs /\ answer.about = "leaving"
    OBVIOUS
  <2>4. talk' = [talk EXCEPT ![p] = answer]
    BY <2>1
  <2>5. UNCHANGED <<event, gen, entry, due, running, torn, online, loc, bound, flown>>
    BY <1>8 DEF AskPurser
  <2> HIDE DEF answer
  <2>6. QED
    BY <2>2, <2>3, <2>4, <2>5, OnlyTalks
<1>9. CASE Leave(p)
  <2> DEFINE map == SentTo(Leg(talk[p].leg).purser, loc[p])
  <2>1. talk[p].leg \in Legs
    BY <1>1, <1>9 DEF TalkOK, Leave
  <2>2. map \in Nat /\ map \notin Vehicles
    BY <1>2, <2>1, LegFacts DEF SentTo
  <2>3. /\ MovesAway(p) /\ UNCHANGED <<event, gen, entry, due, torn, online, bound>>
        /\ loc' = [loc EXCEPT ![p] = map] /\ flown' = [flown EXCEPT ![p] = 0]
        /\ talk' = [talk EXCEPT ![p] = Silent]
    BY <1>9 DEF Leave
  <2> HIDE DEF map
  <2>4. QED
    BY <1>3, <2>2, <2>3, OwnMove
<1>10. CASE Decline(p)
  <2>1. /\ UNCHANGED <<event, gen, entry, due, running, torn, online, loc, bound, flown>>
        /\ talk' = [talk EXCEPT ![p] = Silent]
    BY <1>10 DEF Decline
  <2>2. Silent.about = "nothing"
    BY DEF Silent
  <2>3. QED
    BY <1>4, <2>1, <2>2, OnlyTalks
<1>11. CASE Walk(p)
  <2>1. PICK map \in Vehicles : loc[p] \in Vehicles /\ loc' = [loc EXCEPT ![p] = map]
    <3>1. PICK i \in Legs :
            \/ loc[p] = Leg(i).deck /\ loc' = [loc EXCEPT ![p] = Leg(i).cabin]
            \/ loc[p] = Leg(i).cabin /\ loc' = [loc EXCEPT ![p] = Leg(i).deck]
      BY <1>11 DEF Walk
    <3>2. Leg(i).deck \in Vehicles /\ Leg(i).cabin \in Vehicles
      BY <1>2, LegFacts
    <3>3. QED
      BY <3>1, <3>2
  <2>2. map \in Nat
    BY <1>2, MapsAreNumbers
  <2>3. MovesAway(p) /\ UNCHANGED <<event, gen, entry, due, torn, online, talk, bound, flown>>
    BY <1>11 DEF Walk
  <2>4. QED
    BY <1>3, <2>1, <2>2, <2>3, OwnMove
<1>12. CASE Logout(p)
  BY <1>1, <1>12, LogoutIInv
<1>13. CASE Login(p)
  BY <1>1, <1>13, LoginIInv
<1>14. QED
  BY <1>5, <1>6, <1>7, <1>8, <1>9, <1>10, <1>11, <1>12, <1>13 DEF Travel

-----------------------------------------------------------------------------
(***************************************************************************)
(* The timers and their tasks                                              *)
(***************************************************************************)

\* While nothing is torn, what runs or is due runs or is due for the manager in use.
LEMMA NowOnly ==
  ASSUME IInv, ~torn, NEW g \in Managers, NEW t \in Tasks,
         running[g][t].at # 0 \/ due[g][t] # Never
  PROVE  g = gen
BY DEF IInv, Order, OnlyNow

\* What a task's record must be for Base to hold.
Sound(g, t) ==
    /\ running[g][t].at = 0 => running[g][t].list = {} /\ running[g][t].stood = {}
    /\ t = "stopEntry" => running[g][t].at = 0
    /\ running[g][t].list # {} => running[g][t].at - 1 \in DOMAIN Warps(t)

\* A step of one task keeps Base.
LEMMA TaskBase ==
  ASSUME Base, NEW g \in Managers, NEW t \in Tasks,
         running' \in [Managers -> [Tasks -> [at : Nat, list : SUBSET online, stood : SUBSET online]]],
         \A g2 \in Managers, t2 \in Tasks :
            ~(g2 = g /\ t2 = t) => running'[g2][t2] = running[g2][t2],
         Sound(g, t)',
         UNCHANGED <<event, gen, torn, online, talk, bound>>,
         due' \in [Managers -> [Tasks -> {Never} \cup Nat]],
         entry' \in [Managers -> {"true", "false", "unset"}],
         loc' \in [Players -> Nat],
         flown' \in [Players -> 0 .. line.ride]
  PROVE  Base'
<1>1. TypeOK /\ TalkOK /\ TasksOK /\ ListsOK
  BY DEF Base
<1>2. /\ line' = line /\ Legs' = Legs
      /\ \A i : Leg(i)' = Leg(i)
      /\ \A t2 : Warps(t2)' = Warps(t2)
  BY SameLine
<1>3. TypeOK'
  BY <1>1, <1>2 DEF TypeOK
<1>4. TalkOK'
  BY <1>1, <1>2 DEF TalkOK
<1>5. ASSUME NEW g2 \in Managers, NEW t2 \in Tasks
      PROVE  /\ running'[g2][t2].at = 0 => running'[g2][t2].list = {} /\ running'[g2][t2].stood = {}
             /\ t2 = "stopEntry" => running'[g2][t2].at = 0
             /\ running'[g2][t2].list # {} => running'[g2][t2].at - 1 \in DOMAIN Warps(t2)
  <2>1. CASE g2 = g /\ t2 = t
    BY <1>2, <2>1 DEF Sound
  <2>2. CASE ~(g2 = g /\ t2 = t)
    <3>1. running'[g2][t2] = running[g2][t2]
      BY <2>2
    <3>2. /\ running[g2][t2].at = 0 => running[g2][t2].list = {} /\ running[g2][t2].stood = {}
          /\ t2 = "stopEntry" => running[g2][t2].at = 0
          /\ running[g2][t2].list # {} => running[g2][t2].at - 1 \in DOMAIN Warps(t2)
      BY <1>1 DEF TasksOK, ListsOK
    <3>3. QED
      BY <3>1, <3>2
  <2>3. QED
    BY <2>1, <2>2
<1>6. TasksOK' /\ ListsOK'
  BY <1>2, <1>5 DEF TasksOK, ListsOK
<1>7. QED
  BY <1>3, <1>4, <1>6 DEF Base

\* The gate closes.
LEMMA StopEntryIInv ==
  ASSUME IInv, NEW g \in Managers, StopEntry(g)
  PROVE  IInv'
<1>1. TypeOK /\ TalkOK /\ TasksOK /\ ListsOK
  BY DEF IInv, Base
<1>2. /\ due[g]["stopEntry"] = 0
      /\ entry' = [entry EXCEPT ![g] = "false"] /\ due' = [due EXCEPT ![g]["stopEntry"] = Never]
      /\ UNCHANGED <<event, gen, running, torn, online, loc, talk, bound, flown>>
  BY DEF StopEntry, Due, travellers
<1>3. /\ line' = line /\ Legs' = Legs /\ Vehicles' = Vehicles /\ Lounges' = Lounges
      /\ \A i : Leg(i)' = Leg(i)
      /\ \A t : Warps(t)' = Warps(t) /\ Sources(t)' = Sources(t)
  BY <1>2, SameLine
<1>4. /\ due' \in [Managers -> [Tasks -> {Never} \cup Nat]]
      /\ \A g2 \in Managers, t \in Tasks :
            due'[g2][t] = IF g2 = g /\ t = "stopEntry" THEN Never ELSE due[g2][t]
      /\ entry' \in [Managers -> {"true", "false", "unset"}]
      /\ entry'[g] = "false"
  BY <1>1, <1>2 DEF TypeOK, Tasks
<1>5. TypeOK'
  BY <1>1, <1>2, <1>3, <1>4 DEF TypeOK
<1>6. Base'
  BY <1>1, <1>2, <1>3, <1>5 DEF Base, TalkOK, TasksOK, ListsOK
<1>7. CASE ~torn
  <2>1. g = gen
    BY <1>2, <1>7, NowOnly DEF Tasks, Never
  <2>2. OnlyNow /\ Phases /\ Found /\ Apart
    BY <1>7 DEF IInv, Order
  <2>3. OnlyNow'
    BY <1>2, <1>4, <2>1, <2>2 DEF OnlyNow
  <2>4. Phases'
    <3>1. CASE line.rearms = "arrived"
      <4>1. OnGround
        BY <1>2, <2>1, <2>2, <3>1 DEF Phases, TakingOff, InTheAir, Landing, NoDeparture, Never
      <4>2. OnGround'
        BY <1>2, <1>4, <2>1, <4>1 DEF OnGround, NoneRuns, Tasks
      <4>3. QED
        BY <1>3, <3>1, <4>2 DEF Phases
    <3>2. CASE line.rearms # "arrived"
      BY <1>2, <1>3, <1>4, <2>1, <2>2, <3>2 DEF Phases, Tasks
    <3>3. QED
      BY <3>1, <3>2
  <2>5. Found' /\ Apart'
    BY <1>2, <1>3, <2>2 DEF Found, Apart
  <2>6. QED
    BY <1>6, <2>3, <2>4, <2>5 DEF IInv, Order
<1>8. QED
  BY <1>2, <1>6, <1>7 DEF IInv

\* A departure or an arrival begins.
LEMMA BeginIInv ==
  ASSUME IInv, NEW g \in Managers, NEW t \in Tasks, Begin(g, t)
  PROVE  IInv'
<1> DEFINE run == [at |-> 1, list |-> {}, stood |-> {p \in online : loc[p] \in Sources(t)}]
<1>1. TypeOK /\ TalkOK /\ TasksOK /\ ListsOK /\ Base
  BY DEF IInv, Base
<1>2. /\ t # "stopEntry" /\ due[g][t] = 0
      /\ t = "takeoff" => due[g]["arrived"] # 0
      /\ due' = [due EXCEPT ![g][t] = Never]
      /\ running' = [running EXCEPT ![g][t] = run]
      /\ entry' = IF t = "takeoff" /\ line.rearms = "takeoff" THEN [entry EXCEPT ![g] = "true"] ELSE entry
      /\ UNCHANGED <<event, gen, torn, online, loc, talk, bound, flown>>
  BY DEF Begin, Due, travellers
<1>3. running[g][t].at = 0
  BY <1>1, UnderWayAt DEF Begin
<1>4. /\ line' = line /\ Vehicles' = Vehicles /\ Lounges' = Lounges
      /\ \A t2 : Warps(t2)' = Warps(t2) /\ Sources(t2)' = Sources(t2)
  BY <1>2, SameLine
<1>5. event \in DOMAIN Lines /\ line.ride \in Nat
  BY <1>1, LineFacts DEF TypeOK
<1>6. /\ due' \in [Managers -> [Tasks -> {Never} \cup Nat]]
      /\ \A g2 \in Managers, t2 \in Tasks :
            due'[g2][t2] = IF g2 = g /\ t2 = t THEN Never ELSE due[g2][t2]
  BY <1>1, <1>2 DEF TypeOK
<1>7. /\ run \in [at : Nat, list : SUBSET online, stood : SUBSET online]
      /\ run.at = 1 /\ run.list = {} /\ run.stood = {p \in online : loc[p] \in Sources(t)}
  OBVIOUS
<1>8. /\ entry' \in [Managers -> {"true", "false", "unset"}]
      /\ loc' \in [Players -> Nat] /\ flown' \in [Players -> 0 .. line.ride]
  BY <1>1, <1>2 DEF TypeOK
<1> HIDE DEF run
<1>9. /\ running' \in [Managers -> [Tasks -> [at : Nat, list : SUBSET online, stood : SUBSET online]]]
      /\ \A g2 \in Managers, t2 \in Tasks :
            running'[g2][t2] = IF g2 = g /\ t2 = t THEN run ELSE running[g2][t2]
  <2>1. running \in [Managers -> [Tasks -> [at : Nat, list : SUBSET online, stood : SUBSET online]]]
    BY <1>1 DEF TypeOK
  <2>2. running' = [running EXCEPT ![g][t] = run]
    BY <1>2
  <2>3. run \in [at : Nat, list : SUBSET online, stood : SUBSET online]
    BY <1>7
  <2>4. QED
    BY <2>1, <2>2, <2>3
<1>10. Base'
  <2>1. Sound(g, t)'
    BY <1>2, <1>7, <1>9 DEF Sound
  <2>2. QED
    BY <1>1, <1>2, <1>6, <1>8, <1>9, <2>1, TaskBase
<1>11. CASE ~torn
  <2>1. g = gen
    BY <1>2, <1>11, NowOnly DEF Never
  <2>2. OnlyNow /\ Phases /\ Found /\ Apart
    BY <1>11 DEF IInv, Order
  <2>3. OnlyNow'
    BY <1>2, <1>6, <1>9, <2>1, <2>2 DEF OnlyNow
  <2>4. Phases'
    <3>1. CASE line.rearms = "arrived" /\ t = "takeoff"
      <4>1. OnGround
        BY <1>2, <2>1, <2>2, <3>1 DEF Phases, TakingOff, InTheAir, Landing, NoDeparture, Never
      <4>2. due[gen]["stopEntry"] = Never /\ entry[gen] = "false"
        <5>1. due[gen]["stopEntry"] \in {Never} \cup Nat
          BY <1>1, <2>1 DEF TypeOK, Tasks
        <5>2. QED
          BY <1>2, <2>1, <3>1, <4>1, <5>1 DEF OnGround
      <4>3. TakingOff'
        BY <1>2, <1>6, <1>7, <1>9, <2>1, <3>1, <4>1, <4>2 DEF OnGround, TakingOff, NoDeparture, NoneRuns, Tasks
      <4>4. QED
        BY <1>4, <3>1, <4>3 DEF Phases
    <3>2. CASE line.rearms = "arrived" /\ t = "arrived"
      <4>1. InTheAir
        BY <1>2, <2>1, <2>2, <3>2 DEF Phases, OnGround, TakingOff, Landing, Never
      <4>2. \A p \in Players : loc[p] \in Vehicles => flown[p] = line.ride
        <5> SUFFICES ASSUME NEW p \in Players, loc[p] \in Vehicles PROVE flown[p] = line.ride
          OBVIOUS
        <5>1. flown[p] \in 0 .. line.ride
          BY <1>1 DEF TypeOK
        <5>2. flown[p] + 0 >= line.ride
          BY <1>2, <2>1, <3>2, <4>1 DEF InTheAir
        <5>3. QED
          BY <1>5, <5>1, <5>2
      <4>3. Landing'
        BY <1>2, <1>4, <1>6, <1>7, <1>9, <2>1, <3>2, <4>1, <4>2 DEF InTheAir, Landing, NoDeparture, NoneRuns, Tasks
      <4>4. QED
        BY <1>4, <3>2, <4>3 DEF Phases
    <3>3. CASE line.rearms # "arrived"
      BY <1>2, <1>4, <1>6, <1>7, <1>9, <2>1, <2>2, <3>3 DEF Phases, Tasks
    <3>4. QED
      BY <1>2, <3>1, <3>2, <3>3 DEF Tasks
  <2>5. Found'
    <3> SUFFICES ASSUME NEW g2 \in Managers, NEW t2 \in Tasks, NEW p \in running'[g2][t2].stood,
                        loc[p] \in Sources(t2)
                 PROVE  \/ p \in running'[g2][t2].list
                        \/ \E i \in DOMAIN Warps(t2) :
                              i >= running'[g2][t2].at /\ loc[p] = Warps(t2)[i].from
      BY <1>2, <1>4 DEF Found
    <3>1. CASE g2 = g /\ t2 = t
      <4>1. PICK i \in DOMAIN Warps(t) : loc[p] = Warps(t)[i].from
        BY <3>1 DEF Sources
      <4>2. i >= 1
        BY <1>5, WarpFacts
      <4>3. QED
        BY <1>7, <1>9, <3>1, <4>1, <4>2
    <3>2. CASE ~(g2 = g /\ t2 = t)
      BY <1>9, <2>2, <3>2 DEF Found
    <3>3. QED
      BY <3>1, <3>2
  <2>6. Apart'
    <3> SUFFICES ASSUME NEW g2 \in Managers, NEW p \in Players
                 PROVE  /\ p \in running'[g2]["takeoff"].list =>
                              loc[p] \notin Vehicles /\ p \notin running'[g2]["arrived"].stood
                        /\ p \in running'[g2]["arrived"].stood => loc[p] \notin Lounges
      BY <1>2, <1>4 DEF Apart
    <3>1. /\ p \in running[g2]["takeoff"].list =>
                loc[p] \notin Vehicles /\ p \notin running[g2]["arrived"].stood
          /\ p \in running[g2]["arrived"].stood => loc[p] \notin Lounges
      BY <2>2 DEF Apart
    <3>2. CASE t = "arrived" /\ g2 = g
      <4>1. Sources("arrived") = Vehicles /\ Lounges \cap Vehicles = {}
        BY <1>5, LineFacts, WarpFacts DEF Tasks
      <4>2. p \in running'[g2]["arrived"].stood => loc[p] \in Vehicles
        BY <1>7, <1>9, <3>2, <4>1
      <4>3. running'[g2]["takeoff"] = running[g2]["takeoff"]
        BY <1>9, <3>2 DEF Tasks
      <4>4. QED
        BY <3>1, <4>1, <4>2, <4>3
    <3>3. CASE ~(t = "arrived" /\ g2 = g)
      <4>1. running'[g2]["arrived"] = running[g2]["arrived"]
        BY <1>9, <3>3 DEF Tasks
      <4>2. running'[g2]["takeoff"].list \subseteq running[g2]["takeoff"].list
        BY <1>7, <1>9 DEF Tasks
      <4>3. QED
        BY <3>1, <4>1, <4>2
    <3>4. QED
      BY <3>2, <3>3
  <2>7. QED
    BY <1>10, <2>3, <2>4, <2>5, <2>6 DEF IInv, Order
<1>12. QED
  BY <1>2, <1>10, <1>11 DEF IInv

\* A step that neither begins nor ends a task, touches no timer, and carries players onto
\* a vehicle only while a departure is under way, leaves the phase as it is.
LEMMA SamePhase ==
  ASSUME IInv, ~torn, UNCHANGED <<event, gen, entry, due>>,
         \A g \in Managers, t \in Tasks : running'[g][t].at = 0 <=> running[g][t].at = 0,
         \A q \in Players : loc'[q] \in Vehicles =>
            \/ loc[q] \in Vehicles /\ flown'[q] = flown[q]
            \/ running[gen]["takeoff"].at # 0
  PROVE  OnlyNow' /\ Phases'
<1>1. OnlyNow /\ Phases /\ gen \in Managers
  BY DEF IInv, Order, Base, TypeOK
<1>2. line' = line /\ Vehicles' = Vehicles
  BY SameLine
<1>3. OnlyNow'
  BY <1>1 DEF OnlyNow
<1>4. /\ running'[gen]["takeoff"].at = 0 <=> running[gen]["takeoff"].at = 0
      /\ running'[gen]["arrived"].at = 0 <=> running[gen]["arrived"].at = 0
  BY <1>1 DEF Tasks
<1>5. OnGround => OnGround'
  BY <1>4 DEF OnGround, NoneRuns
<1>6. TakingOff => TakingOff'
  BY <1>4 DEF TakingOff, NoDeparture
<1>7. InTheAir => InTheAir'
  BY <1>2, <1>4 DEF InTheAir, NoDeparture, NoneRuns
<1>8. Landing => Landing'
  BY <1>2, <1>4 DEF Landing, NoDeparture
<1>9. QED
  BY <1>1, <1>2, <1>3, <1>4, <1>5, <1>6, <1>7, <1>8 DEF Phases

\* A task copies the map it is to empty.
LEMMA CopyIInv ==
  ASSUME IInv, NEW g \in Managers, NEW t \in Tasks, Copy(g, t)
  PROVE  IInv'
<1> DEFINE at == running[g][t].at
           here == {p \in online : loc[p] = Warps(t)[at].from}
           run == [at |-> at + 1, list |-> here, stood |-> running[g][t].stood]
<1>1. TypeOK /\ TasksOK /\ Base
  BY DEF IInv, Base
<1>2. /\ at \in DOMAIN Warps(t) /\ running[g][t].list = {}
      /\ running' = [running EXCEPT ![g][t] = run]
      /\ UNCHANGED <<event, gen, entry, due, torn, online, loc, talk, bound, flown>>
  BY DEF Copy, travellers
<1>3. /\ event \in DOMAIN Lines
      /\ running \in [Managers -> [Tasks -> [at : Nat, list : SUBSET online, stood : SUBSET online]]]
      /\ running[g][t] \in [at : Nat, list : SUBSET online, stood : SUBSET online]
  BY <1>1 DEF TypeOK
<1>4. DOMAIN Warps(t) = 1 .. Len(Warps(t)) /\ Len(Warps(t)) \in Nat
  BY <1>3, WarpFacts
<1>5. at \in Nat /\ at # 0 /\ t # "stopEntry"
  BY <1>1, <1>2, <1>4 DEF TasksOK
<1>6. /\ run \in [at : Nat, list : SUBSET online, stood : SUBSET online]
      /\ run.at = at + 1 /\ run.list = here /\ run.stood = running[g][t].stood
  BY <1>3, <1>5
<1> HIDE DEF run
<1>7. /\ running' \in [Managers -> [Tasks -> [at : Nat, list : SUBSET online, stood : SUBSET online]]]
      /\ \A g2 \in Managers, t2 \in Tasks :
            running'[g2][t2] = IF g2 = g /\ t2 = t THEN run ELSE running[g2][t2]
  <2>1. running \in [Managers -> [Tasks -> [at : Nat, list : SUBSET online, stood : SUBSET online]]]
    BY <1>1 DEF TypeOK
  <2>2. running' = [running EXCEPT ![g][t] = run]
    BY <1>2
  <2>3. run \in [at : Nat, list : SUBSET online, stood : SUBSET online]
    BY <1>6
  <2>4. QED
    BY <2>1, <2>2, <2>3
<1>8. /\ line' = line /\ Vehicles' = Vehicles /\ Lounges' = Lounges
       /\ \A t2 : Warps(t2)' = Warps(t2) /\ Sources(t2)' = Sources(t2)
  BY <1>2, SameLine
<1>9. Base'
  <2>1. Sound(g, t)'
    <3>1. running'[g][t].at = at + 1
      BY <1>6, <1>7
    <3>2. at + 1 # 0 /\ at + 1 - 1 \in DOMAIN Warps(t) /\ DOMAIN Warps(t)' = DOMAIN Warps(t)
      BY <1>2, <1>5, <1>8
    <3>3. QED
      BY <1>5, <3>1, <3>2 DEF Sound
  <2>2. /\ due' \in [Managers -> [Tasks -> {Never} \cup Nat]]
        /\ entry' \in [Managers -> {"true", "false", "unset"}]
        /\ loc' \in [Players -> Nat] /\ flown' \in [Players -> 0 .. line.ride]
    BY <1>1, <1>2 DEF TypeOK
  <2>3. UNCHANGED <<event, gen, torn, online, talk, bound>>
    BY <1>2
  <2>4. \A g2 \in Managers, t2 \in Tasks :
           ~(g2 = g /\ t2 = t) => running'[g2][t2] = running[g2][t2]
    BY <1>7
  <2>5. QED
    BY <1>1, <1>7, <2>1, <2>2, <2>3, <2>4, TaskBase
<1>10. CASE ~torn
  <2>1. Found /\ Apart
    BY <1>10 DEF IInv, Order
  <2>2. OnlyNow' /\ Phases'
    <3>1. \A g2 \in Managers, t2 \in Tasks : running'[g2][t2].at = 0 <=> running[g2][t2].at = 0
      BY <1>5, <1>6, <1>7
    <3>2. QED
      BY <1>2, <1>10, <3>1, SamePhase
  <2>3. Found'
    <3> SUFFICES ASSUME NEW g2 \in Managers, NEW t2 \in Tasks, NEW p \in running'[g2][t2].stood,
                        loc[p] \in Sources(t2)
                 PROVE  \/ p \in running'[g2][t2].list
                        \/ \E i \in DOMAIN Warps(t2) :
                              i >= running'[g2][t2].at /\ loc[p] = Warps(t2)[i].from
      <4> SUFFICES \A g2 \in Managers, t2 \in Tasks : \A p \in running'[g2][t2].stood :
                      loc'[p] \in Sources(t2) =>
                        \/ p \in running'[g2][t2].list
                        \/ \E i \in DOMAIN Warps(t2) :
                              i >= running'[g2][t2].at /\ loc'[p] = Warps(t2)[i].from
        BY <1>8 DEF Found
      <4> QED
        BY <1>2
    <3>1. p \in running[g2][t2].stood
      BY <1>6, <1>7
    <3>2. \/ p \in running[g2][t2].list
          \/ \E i \in DOMAIN Warps(t2) : i >= running[g2][t2].at /\ loc[p] = Warps(t2)[i].from
      BY <2>1, <3>1 DEF Found
    <3>3. CASE g2 = g /\ t2 = t
      <4>1. PICK i \in DOMAIN Warps(t) : i >= at /\ loc[p] = Warps(t)[i].from
        BY <1>2, <3>2, <3>3
      <4>2. CASE i = at
        <5>1. p \in online
          BY <1>3, <3>1, <3>3
        <5>2. QED
          BY <1>6, <1>7, <3>3, <4>1, <4>2, <5>1
      <4>3. CASE i # at
        <5>1. i >= at + 1
          BY <1>4, <1>5, <4>1, <4>3
        <5>2. QED
          BY <1>6, <1>7, <3>3, <4>1, <5>1
      <4>4. QED
        BY <4>2, <4>3
    <3>4. CASE ~(g2 = g /\ t2 = t)
      BY <1>7, <3>2, <3>4
    <3>5. QED
      BY <3>3, <3>4
  <2>4. Apart'
    <3> SUFFICES ASSUME NEW g2 \in Managers, NEW p \in Players
                 PROVE  /\ p \in running'[g2]["takeoff"].list =>
                              loc[p] \notin Vehicles /\ p \notin running'[g2]["arrived"].stood
                        /\ p \in running'[g2]["arrived"].stood => loc[p] \notin Lounges
      BY <1>2, <1>8 DEF Apart
    <3>1. /\ p \in running[g2]["takeoff"].list =>
                loc[p] \notin Vehicles /\ p \notin running[g2]["arrived"].stood
          /\ p \in running[g2]["arrived"].stood => loc[p] \notin Lounges
      BY <2>1 DEF Apart
    <3>2. running'[g2]["arrived"].stood = running[g2]["arrived"].stood
      BY <1>6, <1>7 DEF Tasks
    <3>3. CASE g2 = g /\ t = "takeoff"
      <4>1. p \in running'[g2]["takeoff"].list => loc[p] = Warps(t)[at].from
        BY <1>6, <1>7, <3>3
      <4>2. Warps(t)[at].from \in Lounges /\ Lounges \cap Vehicles = {}
        BY <1>2, <1>3, <3>3, WarpFacts, LineFacts
      <4>3. QED
        BY <3>1, <3>2, <4>1, <4>2
    <3>4. CASE ~(g2 = g /\ t = "takeoff")
      <4>1. running'[g2]["takeoff"] = running[g2]["takeoff"]
        BY <1>7, <3>4 DEF Tasks
      <4>2. QED
        BY <3>1, <3>2, <4>1
    <3>5. QED
      BY <3>3, <3>4
  <2>5. QED
    BY <1>9, <2>2, <2>3, <2>4 DEF IInv, Order
<1>11. QED
  BY <1>2, <1>9, <1>10 DEF IInv

\* A task moves one of those it copied.
LEMMA CarryIInv ==
  ASSUME IInv, NEW g \in Managers, NEW t \in Tasks, NEW p \in Players, Carry(g, t, p)
  PROVE  IInv'
<1> DEFINE to == Warps(t)[running[g][t].at - 1].to
           rest == running[g][t].list \ {p}
           run == [at |-> running[g][t].at, list |-> rest, stood |-> running[g][t].stood]
<1>1. TypeOK /\ TasksOK /\ ListsOK /\ Base
  BY DEF IInv, Base
<1>2. /\ p \in running[g][t].list
      /\ running' = [running EXCEPT ![g][t] = run]
      /\ loc' = [loc EXCEPT ![p] = to] /\ flown' = [flown EXCEPT ![p] = 0]
      /\ UNCHANGED <<event, gen, entry, due, torn, online, talk, bound>>
  BY DEF Carry
<1>3. /\ event \in DOMAIN Lines
      /\ running[g][t] \in [at : Nat, list : SUBSET online, stood : SUBSET online]
      /\ loc \in [Players -> Nat] /\ flown \in [Players -> 0 .. line.ride]
  BY <1>1 DEF TypeOK
<1>4. /\ running[g][t].at - 1 \in DOMAIN Warps(t)
      /\ running[g][t].at # 0 /\ t # "stopEntry"
  BY <1>1, <1>2 DEF TasksOK, ListsOK
<1>5. /\ to \in Nat
      /\ t = "takeoff" => to \in Vehicles
      /\ t = "arrived" => to \notin Lounges \cup Vehicles
  BY <1>3, <1>4, WarpFacts
<1>6. /\ run \in [at : Nat, list : SUBSET online, stood : SUBSET online]
      /\ run.at = running[g][t].at /\ run.list = rest /\ run.stood = running[g][t].stood
  BY <1>3
<1> HIDE DEF run
<1>7. /\ running' \in [Managers -> [Tasks -> [at : Nat, list : SUBSET online, stood : SUBSET online]]]
      /\ \A g2 \in Managers, t2 \in Tasks :
            running'[g2][t2] = IF g2 = g /\ t2 = t THEN run ELSE running[g2][t2]
  <2>1. running \in [Managers -> [Tasks -> [at : Nat, list : SUBSET online, stood : SUBSET online]]]
    BY <1>1 DEF TypeOK
  <2>2. running' = [running EXCEPT ![g][t] = run]
    BY <1>2
  <2>3. run \in [at : Nat, list : SUBSET online, stood : SUBSET online]
    BY <1>6
  <2>4. QED
    BY <2>1, <2>2, <2>3
<1>8. /\ line' = line /\ Vehicles' = Vehicles /\ Lounges' = Lounges
      /\ \A t2 : Warps(t2)' = Warps(t2) /\ Sources(t2)' = Sources(t2)
  BY <1>2, SameLine
<1> HIDE DEF to
<1>9. /\ loc' \in [Players -> Nat] /\ flown' \in [Players -> 0 .. line.ride]
      /\ loc'[p] = to
      /\ \A q \in Players \ {p} : loc'[q] = loc[q] /\ flown'[q] = flown[q]
  BY <1>2, <1>3, <1>5, LineFacts
<1>10. Base'
  <2>1. Sound(g, t)'
    <3>1. running'[g][t].at = running[g][t].at
      BY <1>6, <1>7
    <3>2. DOMAIN Warps(t)' = DOMAIN Warps(t)
      BY <1>8
    <3>3. QED
      BY <1>4, <3>1, <3>2 DEF Sound
  <2>2. /\ due' \in [Managers -> [Tasks -> {Never} \cup Nat]]
        /\ entry' \in [Managers -> {"true", "false", "unset"}]
    BY <1>1, <1>2 DEF TypeOK
  <2>3. UNCHANGED <<event, gen, torn, online, talk, bound>>
    BY <1>2
  <2>4. \A g2 \in Managers, t2 \in Tasks :
           ~(g2 = g /\ t2 = t) => running'[g2][t2] = running[g2][t2]
    BY <1>7
  <2>5. QED
    BY <1>1, <1>7, <1>9, <2>1, <2>2, <2>3, <2>4, TaskBase
<1>11. CASE ~torn
  <2>1. OnlyNow /\ Found /\ Apart
    BY <1>11 DEF IInv, Order
  <2>2. g = gen
    BY <1>4, <1>11, NowOnly
  <2>3. \A g2 \in Managers, t2 \in Tasks :
           /\ running'[g2][t2].at = running[g2][t2].at
           /\ running'[g2][t2].stood = running[g2][t2].stood
           /\ running'[g2][t2].list \subseteq running[g2][t2].list
           /\ \A q \in Players \ {p} : q \in running[g2][t2].list => q \in running'[g2][t2].list
    BY <1>6, <1>7
  <2>4. OnlyNow' /\ Phases'
    <3>1. \A q \in Players : loc'[q] \in Vehicles =>
             \/ loc[q] \in Vehicles /\ flown'[q] = flown[q]
             \/ running[gen]["takeoff"].at # 0
      BY <1>4, <1>5, <1>9, <2>2 DEF Tasks
    <3>2. \A g2 \in Managers, t2 \in Tasks : running'[g2][t2].at = 0 <=> running[g2][t2].at = 0
      BY <2>3
    <3>3. QED
      BY <1>2, <1>11, <3>1, <3>2, SamePhase
  <2>5. t = "takeoff" => \A g2 \in Managers : p \notin running[g2]["arrived"].stood
    <3> SUFFICES ASSUME t = "takeoff", NEW g2 \in Managers PROVE p \notin running[g2]["arrived"].stood
      OBVIOUS
    <3>1. CASE g2 = g
      BY <1>2, <2>1, <3>1 DEF Apart
    <3>2. CASE g2 # g
      BY <1>1, <2>1, <2>2, <3>2 DEF OnlyNow, TasksOK, Tasks
    <3>3. QED
      BY <3>1, <3>2
  <2>6. Found'
    <3> SUFFICES ASSUME NEW g2 \in Managers, NEW t2 \in Tasks, NEW q \in running'[g2][t2].stood,
                        loc'[q] \in Sources(t2)
                 PROVE  \/ q \in running'[g2][t2].list
                        \/ \E i \in DOMAIN Warps(t2) :
                              i >= running'[g2][t2].at /\ loc'[q] = Warps(t2)[i].from
      BY <1>8 DEF Found
    <3>1. q \in running[g2][t2].stood /\ q \in Players
      BY <1>1, <2>3 DEF TypeOK
    <3>2. CASE q # p
      <4>1. loc'[q] = loc[q]
        BY <1>9, <3>1, <3>2
      <4>2. \/ q \in running[g2][t2].list
            \/ \E i \in DOMAIN Warps(t2) : i >= running[g2][t2].at /\ loc[q] = Warps(t2)[i].from
        BY <2>1, <3>1, <4>1 DEF Found
      <4>3. QED
        BY <2>3, <3>1, <3>2, <4>1, <4>2
    <3>3. CASE q = p
      <4>1. to \in Sources(t2)
        BY <1>9, <3>3
      <4>2. Sources(t2) \in {Lounges, Vehicles} /\ Lounges \cap Vehicles = {}
        BY <1>3, WarpFacts, LineFacts
      <4>3. t = "takeoff"
        BY <1>4, <1>5, <4>1, <4>2 DEF Tasks
      <4>4. t2 # "takeoff"
        BY <1>3, <1>5, <4>1, <4>2, <4>3, WarpFacts
      <4>5. t2 # "arrived"
        BY <2>5, <3>1, <3>3, <4>3
      <4>6. t2 # "stopEntry"
        BY <1>1, <3>1 DEF TasksOK
      <4>7. QED
        BY <4>4, <4>5, <4>6 DEF Tasks
    <3>4. QED
      BY <3>2, <3>3
  <2>7. Apart'
    <3> SUFFICES ASSUME NEW g2 \in Managers, NEW q \in Players
                 PROVE  /\ q \in running'[g2]["takeoff"].list =>
                              loc'[q] \notin Vehicles /\ q \notin running'[g2]["arrived"].stood
                        /\ q \in running'[g2]["arrived"].stood => loc'[q] \notin Lounges
      BY <1>8 DEF Apart
    <3>1. /\ q \in running[g2]["takeoff"].list =>
                loc[q] \notin Vehicles /\ q \notin running[g2]["arrived"].stood
          /\ q \in running[g2]["arrived"].stood => loc[q] \notin Lounges
      BY <2>1 DEF Apart
    <3>2. /\ running'[g2]["arrived"].stood = running[g2]["arrived"].stood
          /\ running'[g2]["takeoff"].list \subseteq running[g2]["takeoff"].list
      BY <2>3 DEF Tasks
    <3>3. CASE q # p
      BY <1>9, <3>1, <3>2, <3>3
    <3>4. CASE q = p /\ t = "takeoff"
      <4>1. q \notin running'[g2]["takeoff"].list
        <5>1. CASE g2 = g
          BY <1>6, <1>7, <3>4, <5>1
        <5>2. CASE g2 # g
          BY <1>1, <2>1, <2>2, <3>2, <5>2 DEF OnlyNow, TasksOK, Tasks
        <5>3. QED
          BY <5>1, <5>2
      <4>2. QED
        BY <2>5, <3>2, <3>4, <4>1
    <3>5. CASE q = p /\ t = "arrived"
      BY <1>5, <1>9, <3>1, <3>2, <3>5
    <3>6. QED
      BY <1>4, <3>3, <3>4, <3>5 DEF Tasks
  <2>8. QED
    BY <1>10, <2>4, <2>6, <2>7 DEF IInv, Order
<1>12. QED
  BY <1>2, <1>10, <1>11 DEF IInv

\* A task that is over leaves nothing behind.
LEMMA EndedIdle ==
  ASSUME Base, NEW g \in Managers, NEW t \in Tasks, running' = [running EXCEPT ![g][t] = Idle],
         event' = event
  PROVE  /\ running' \in [Managers -> [Tasks -> [at : Nat, list : SUBSET online, stood : SUBSET online]]]
         /\ running'[g][t].at = 0 /\ running'[g][t].list = {} /\ running'[g][t].stood = {}
         /\ \A g2 \in Managers, t2 \in Tasks :
               ~(g2 = g /\ t2 = t) => running'[g2][t2] = running[g2][t2]
         /\ Sound(g, t)'
<1>1. /\ Idle \in [at : Nat, list : SUBSET online, stood : SUBSET online]
      /\ Idle.at = 0 /\ Idle.list = {} /\ Idle.stood = {}
  BY DEF Idle
<1>2. /\ running' \in [Managers -> [Tasks -> [at : Nat, list : SUBSET online, stood : SUBSET online]]]
      /\ \A g2 \in Managers, t2 \in Tasks :
            running'[g2][t2] = IF g2 = g /\ t2 = t THEN Idle ELSE running[g2][t2]
  <2>1. running \in [Managers -> [Tasks -> [at : Nat, list : SUBSET online, stood : SUBSET online]]]
    BY DEF Base, TypeOK
  <2>2. QED
    BY <1>1, <2>1
<1>3. running'[g][t].at = 0 /\ running'[g][t].list = {} /\ running'[g][t].stood = {}
  BY <1>1, <1>2
<1>4. Sound(g, t)'
  BY <1>3 DEF Sound
<1>5. QED
  BY <1>2, <1>3, <1>4

\* Whoever a task found stays found, or the task is over.
LEMMA EndedFinds ==
  ASSUME IInv, ~torn, NEW g \in Managers, NEW t \in Tasks, UNCHANGED <<event, gen, loc>>,
         running'[g][t].list = {}, running'[g][t].stood = {},
         \A g2 \in Managers, t2 \in Tasks :
            ~(g2 = g /\ t2 = t) => running'[g2][t2] = running[g2][t2]
  PROVE  Found' /\ Apart'
<1>1. Found /\ Apart
  BY DEF IInv, Order
<1>2. /\ Vehicles' = Vehicles /\ Lounges' = Lounges
      /\ \A t2 : Warps(t2)' = Warps(t2) /\ Sources(t2)' = Sources(t2)
  BY SameLine
<1>3. Found'
  <2> SUFFICES ASSUME NEW g2 \in Managers, NEW t2 \in Tasks, NEW p \in running'[g2][t2].stood,
                      loc'[p] \in Sources(t2)
               PROVE  \/ p \in running'[g2][t2].list
                      \/ \E i \in DOMAIN Warps(t2) :
                            i >= running'[g2][t2].at /\ loc'[p] = Warps(t2)[i].from
    BY <1>2 DEF Found
  <2>1. running'[g2][t2] = running[g2][t2]
    OBVIOUS
  <2>2. QED
    BY <1>1, <2>1 DEF Found
<1>4. Apart'
  <2> SUFFICES ASSUME NEW g2 \in Managers, NEW q \in Players
               PROVE  /\ q \in running'[g2]["takeoff"].list =>
                            loc'[q] \notin Vehicles /\ q \notin running'[g2]["arrived"].stood
                      /\ q \in running'[g2]["arrived"].stood => loc'[q] \notin Lounges
    BY <1>2 DEF Apart
  <2>1. /\ running'[g2]["takeoff"].list \subseteq running[g2]["takeoff"].list
        /\ running'[g2]["arrived"].stood \subseteq running[g2]["arrived"].stood
    <3>1. running'[g2]["takeoff"].list \subseteq running[g2]["takeoff"].list
      BY DEF Tasks
    <3>2. running'[g2]["arrived"].stood \subseteq running[g2]["arrived"].stood
      BY DEF Tasks
    <3>3. QED
      BY <3>1, <3>2
  <2>2. QED
    BY <1>1, <2>1 DEF Apart
<1>5. QED
  BY <1>3, <1>4

\* The departure is over: the arrival is due when the ride's time has gone by.
LEMMA EndTakeoffIInv ==
  ASSUME IInv, NEW g \in Managers, EndTakeoff(g)
  PROVE  IInv'
<1>1. TypeOK /\ Base
  BY DEF IInv, Base
<1>2. /\ UnderWay(g, "takeoff")
      /\ running' = [running EXCEPT ![g]["takeoff"] = Idle]
      /\ UNCHANGED <<event, gen, entry, torn, online, loc, talk, bound, flown>>
  BY DEF EndTakeoff, Done, travellers
<1>3. running[g]["takeoff"].at # 0
  BY <1>1, <1>2, UnderWayAt DEF Tasks
<1>4. /\ event \in DOMAIN Lines
      /\ line.ride \in Nat /\ line.begin \in Nat /\ line.close \in Nat
  BY <1>1, LineFacts DEF TypeOK
<1>5. /\ running' \in [Managers -> [Tasks -> [at : Nat, list : SUBSET online, stood : SUBSET online]]]
      /\ running'[g]["takeoff"].at = 0
      /\ running'[g]["takeoff"].list = {} /\ running'[g]["takeoff"].stood = {}
      /\ \A g2 \in Managers, t2 \in Tasks :
            ~(g2 = g /\ t2 = "takeoff") => running'[g2][t2] = running[g2][t2]
      /\ Sound(g, "takeoff")'
  BY <1>1, <1>2, EndedIdle DEF Tasks
<1>6. /\ due' \in [Managers -> [Tasks -> {Never} \cup Nat]]
      /\ \A g2 \in Managers \ {g} : due'[g2] = due[g2]
      /\ due'[g]["arrived"] = line.ride
      /\ line.rearms = "takeoff" => due'[g]["takeoff"] = line.begin
      /\ line.rearms # "takeoff" => /\ due'[g]["takeoff"] = due[g]["takeoff"]
                                    /\ due'[g]["stopEntry"] = due[g]["stopEntry"]
  <2>1. due \in [Managers -> [Tasks -> {Never} \cup Nat]]
    BY <1>1 DEF TypeOK
  <2> DEFINE timers == [due[g] EXCEPT !["arrived"] = line.ride]
  <2>2. /\ timers \in [Tasks -> {Never} \cup Nat] /\ timers["arrived"] = line.ride
        /\ timers["takeoff"] = due[g]["takeoff"] /\ timers["stopEntry"] = due[g]["stopEntry"]
    BY <1>4, <2>1 DEF Tasks
  <2>3. due' = [due EXCEPT ![g] = IF line.rearms = "takeoff" THEN Rearmed(timers) ELSE timers]
    BY DEF EndTakeoff
  <2> HIDE DEF timers
  <2>4. /\ Rearmed(timers) \in [Tasks -> {Never} \cup Nat]
        /\ Rearmed(timers)["arrived"] = line.ride /\ Rearmed(timers)["takeoff"] = line.begin
    BY <1>4, <2>2 DEF Rearmed, Tasks
  <2> DEFINE after == IF line.rearms = "takeoff" THEN Rearmed(timers) ELSE timers
  <2>5. /\ after \in [Tasks -> {Never} \cup Nat] /\ after["arrived"] = line.ride
        /\ line.rearms = "takeoff" => after["takeoff"] = line.begin
        /\ line.rearms # "takeoff" => /\ after["takeoff"] = due[g]["takeoff"]
                                      /\ after["stopEntry"] = due[g]["stopEntry"]
    BY <2>2, <2>4
  <2>6. due' = [due EXCEPT ![g] = after]
    BY <2>3
  <2> HIDE DEF after
  <2>7. QED
    BY <2>1, <2>5, <2>6
<1>7. Base'
  <2>1. /\ entry' \in [Managers -> {"true", "false", "unset"}]
        /\ loc' \in [Players -> Nat] /\ flown' \in [Players -> 0 .. line.ride]
    BY <1>1, <1>2 DEF TypeOK
  <2>2. UNCHANGED <<event, gen, torn, online, talk, bound>>
    BY <1>2
  <2>3. QED
    BY <1>1, <1>5, <1>6, <2>1, <2>2, TaskBase DEF Tasks
<1>8. CASE ~torn
  <2>1. OnlyNow /\ Phases /\ g = gen
    BY <1>3, <1>8, NowOnly DEF IInv, Order, Tasks
  <2>2. line' = line /\ Vehicles' = Vehicles
    BY <1>2, SameLine
  <2>3. OnlyNow'
    BY <1>2, <1>5, <1>6, <2>1 DEF OnlyNow
  <2>4. Phases'
    <3>1. CASE line.rearms = "arrived"
      <4>1. TakingOff
        BY <1>3, <2>1, <3>1 DEF Phases, OnGround, InTheAir, Landing, NoneRuns
      <4>2. \A p \in Players : flown[p] + line.ride >= line.ride
        BY <1>1, <1>4 DEF TypeOK
      <4>3. /\ due'[gen]["stopEntry"] = Never /\ due'[gen]["takeoff"] = Never
            /\ due'[gen]["arrived"] = line.ride /\ line.ride # Never /\ entry'[gen] = "false"
        BY <1>2, <1>4, <1>6, <2>1, <3>1, <4>1 DEF TakingOff, NoDeparture, Never
      <4>4. running'[gen]["takeoff"].at = 0 /\ running'[gen]["arrived"].at = 0
        BY <1>5, <2>1, <4>1 DEF TakingOff, Tasks
      <4>5. InTheAir'
        BY <1>2, <2>2, <4>2, <4>3, <4>4 DEF InTheAir, NoDeparture, NoneRuns
      <4>6. QED
        BY <2>2, <3>1, <4>5 DEF Phases
    <3>2. CASE line.rearms = "takeoff"
      BY <1>2, <1>4, <1>6, <2>1, <2>2, <3>2 DEF Phases, Never
    <3>3. QED
      BY <1>4, <3>1, <3>2, LineFacts
  <2>5. Found' /\ Apart'
    BY <1>2, <1>5, <1>8, EndedFinds DEF Tasks
  <2>6. QED
    BY <1>7, <2>3, <2>4, <2>5 DEF IInv, Order
<1>9. QED
  BY <1>2, <1>7, <1>8 DEF IInv

\* The arrival is over: the gate is open, and closes before the next departure.
LEMMA EndArrivedIInv ==
  ASSUME IInv, NEW g \in Managers, EndArrived(g)
  PROVE  IInv'
<1>1. TypeOK /\ Base
  BY DEF IInv, Base
<1>2. /\ UnderWay(g, "arrived")
      /\ running' = [running EXCEPT ![g]["arrived"] = Idle]
      /\ UNCHANGED <<event, gen, torn, online, loc, talk, bound, flown>>
  BY DEF EndArrived, Done, travellers
<1>3. running[g]["arrived"].at # 0
  BY <1>1, <1>2, UnderWayAt DEF Tasks
<1>4. /\ event \in DOMAIN Lines
      /\ line.begin \in Nat /\ line.close \in Nat /\ line.close < line.begin
  BY <1>1, LineFacts DEF TypeOK
<1>5. /\ running' \in [Managers -> [Tasks -> [at : Nat, list : SUBSET online, stood : SUBSET online]]]
      /\ running'[g]["arrived"].at = 0
      /\ running'[g]["arrived"].list = {} /\ running'[g]["arrived"].stood = {}
      /\ \A g2 \in Managers, t2 \in Tasks :
            ~(g2 = g /\ t2 = "arrived") => running'[g2][t2] = running[g2][t2]
      /\ Sound(g, "arrived")'
  BY <1>1, <1>2, EndedIdle DEF Tasks
<1>6. /\ due \in [Managers -> [Tasks -> {Never} \cup Nat]]
      /\ entry \in [Managers -> {"true", "false", "unset"}]
  BY <1>1 DEF TypeOK
<1>7. CASE line.rearms = "arrived"
  <2>1. entry' = [entry EXCEPT ![g] = "true"] /\ due' = [due EXCEPT ![g] = Rearmed(due[g])]
    BY <1>7 DEF EndArrived
  <2>2. /\ Rearmed(due[g]) \in [Tasks -> {Never} \cup Nat]
        /\ Rearmed(due[g])["stopEntry"] = line.close /\ Rearmed(due[g])["takeoff"] = line.begin
        /\ Rearmed(due[g])["arrived"] = due[g]["arrived"]
    BY <1>4, <1>6 DEF Rearmed, Tasks
  <2>3. /\ due' \in [Managers -> [Tasks -> {Never} \cup Nat]]
        /\ entry' \in [Managers -> {"true", "false", "unset"}]
        /\ \A g2 \in Managers \ {g} : due'[g2] = due[g2]
        /\ due'[g]["stopEntry"] = line.close /\ due'[g]["takeoff"] = line.begin
        /\ due'[g]["arrived"] = due[g]["arrived"]
    BY <1>6, <2>1, <2>2
  <2>4. Base'
    <3>1. loc' \in [Players -> Nat] /\ flown' \in [Players -> 0 .. line.ride]
      BY <1>1, <1>2 DEF TypeOK
    <3>2. UNCHANGED <<event, gen, torn, online, talk, bound>>
      BY <1>2
    <3>3. QED
      BY <1>1, <1>5, <2>3, <3>1, <3>2, TaskBase DEF Tasks
  <2>5. CASE ~torn
    <3>1. OnlyNow /\ Phases /\ g = gen
      BY <1>3, <2>5, NowOnly DEF IInv, Order, Tasks
    <3>2. line' = line
      BY <1>2, SameLine
    <3>3. OnlyNow'
      BY <1>2, <1>5, <2>3, <3>1 DEF OnlyNow
    <3>4. Landing
      BY <1>3, <1>7, <3>1 DEF Phases, OnGround, TakingOff, InTheAir, NoneRuns
    <3>5. running'[gen]["takeoff"].at = 0 /\ running'[gen]["arrived"].at = 0
      BY <1>5, <3>1, <3>4 DEF Landing, Tasks
    <3>6. OnGround'
      BY <1>2, <1>4, <2>3, <3>1, <3>4, <3>5 DEF OnGround, NoneRuns, Landing, Never
    <3>7. Phases'
      BY <1>7, <3>2, <3>6 DEF Phases
    <3>8. Found' /\ Apart'
      BY <1>2, <1>5, <2>5, EndedFinds DEF Tasks
    <3>9. QED
      BY <2>4, <3>3, <3>7, <3>8 DEF IInv, Order
  <2>6. QED
    BY <1>2, <2>4, <2>5 DEF IInv
<1>8. CASE line.rearms # "arrived"
  <2>1. UNCHANGED <<entry, due>>
    BY <1>8 DEF EndArrived
  <2>2. Base'
    <3>1. loc' \in [Players -> Nat] /\ flown' \in [Players -> 0 .. line.ride]
      BY <1>1, <1>2 DEF TypeOK
    <3>2. UNCHANGED <<event, gen, torn, online, talk, bound>>
      BY <1>2
    <3>3. QED
      BY <1>1, <1>5, <1>6, <2>1, <3>1, <3>2, TaskBase DEF Tasks
  <2>3. CASE ~torn
    <3>1. OnlyNow /\ Phases /\ g = gen
      BY <1>3, <2>3, NowOnly DEF IInv, Order, Tasks
    <3>2. line' = line
      BY <1>2, SameLine
    <3>3. OnlyNow'
      BY <1>2, <1>5, <2>1, <3>1 DEF OnlyNow
    <3>4. Phases'
      <4>1. running'[gen]["takeoff"] = running[gen]["takeoff"]
        BY <1>5, <3>1 DEF Tasks
      <4>2. QED
        BY <1>2, <1>8, <2>1, <3>1, <3>2, <4>1 DEF Phases
    <3>5. Found' /\ Apart'
      BY <1>2, <1>5, <2>3, EndedFinds DEF Tasks
    <3>6. QED
      BY <2>2, <3>3, <3>4, <3>5 DEF IInv, Order
  <2>4. QED
    BY <1>2, <2>2, <2>3 DEF IInv
<1>9. QED
  BY <1>7, <1>8

\* Time goes by: whoever is on board has been there the longer, and the arrival is the
\* nearer by as much.
LEMMA ElapseIInv ==
  ASSUME IInv, Elapse
  PROVE  IInv'
<1>1. TypeOK /\ TalkOK /\ TasksOK /\ ListsOK /\ Base
  BY DEF IInv, Base
<1>2. PICK n \in Pending :
        /\ \A m \in Pending : n <= m
        /\ due' = [g \in Managers |-> [t \in Tasks |->
                      IF due[g][t] = Never THEN Never ELSE due[g][t] - n]]
        /\ flown' = [p \in Players |->
                      IF loc[p] \in Vehicles THEN Capped(flown[p] + n) ELSE flown[p]]
  BY DEF Elapse
<1>3. Quiet /\ UNCHANGED <<event, gen, entry, running, torn, online, loc, talk, bound>>
  BY DEF Elapse
<1>4. /\ line' = line /\ Legs' = Legs /\ Vehicles' = Vehicles /\ Lounges' = Lounges
      /\ \A i : Leg(i)' = Leg(i)
      /\ \A t : Warps(t)' = Warps(t) /\ Sources(t)' = Sources(t)
  BY <1>3, SameLine
<1>5. \A g \in Managers, t \in Tasks :
         /\ due[g][t] \in {Never} \cup Nat /\ due[g][t] # 0
         /\ due[g][t] # Never => due[g][t] \in Pending
  BY <1>1, <1>3 DEF TypeOK, Quiet, Due, Pending
<1>6. n \in Nat /\ n # 0
  BY <1>5 DEF Pending
<1>7. /\ due' \in [Managers -> [Tasks -> {Never} \cup Nat]]
      /\ \A g \in Managers, t \in Tasks :
            /\ due[g][t] = Never => due'[g][t] = Never
            /\ due[g][t] # Never => due'[g][t] = due[g][t] - n /\ due'[g][t] \in Nat
  <2>1. \A g \in Managers, t \in Tasks : due[g][t] # Never => due[g][t] - n \in Nat
    BY <1>2, <1>5, <1>6 DEF Never
  <2>2. QED
    BY <1>2, <2>1
<1>8. line.ride \in Nat /\ flown \in [Players -> 0 .. line.ride]
  BY <1>1, LineFacts DEF TypeOK
<1>9. flown' \in [Players -> 0 .. line.ride]
  BY <1>2, <1>6, <1>8 DEF Capped
<1>10. TypeOK'
  BY <1>1, <1>3, <1>4, <1>7, <1>9 DEF TypeOK
<1>11. Base'
  BY <1>1, <1>3, <1>4, <1>10 DEF Base, TalkOK, TasksOK, ListsOK
<1>12. CASE ~torn
  <2>1. OnlyNow /\ Phases /\ Found /\ Apart /\ gen \in Managers
    BY <1>1, <1>12 DEF IInv, Order, TypeOK
  <2>2. \A t \in Tasks : running[gen][t].at = 0
    BY <1>1, <1>3, <2>1, UnderWayAt DEF Quiet
  <2>3. OnlyNow'
    BY <1>3, <1>7, <2>1 DEF OnlyNow
  <2>4. \A t \in Tasks : /\ due[gen][t] = Never => due'[gen][t] = Never
                         /\ due[gen][t] # Never => due'[gen][t] = due[gen][t] - n /\ due'[gen][t] \in Nat
                         /\ due[gen][t] \in {Never} \cup Nat
    BY <1>5, <1>7, <2>1
  <2>5. OnGround => OnGround'
    BY <1>3, <1>6, <2>4 DEF OnGround, NoneRuns, Tasks, Never
  <2>6. InTheAir => InTheAir'
    <3> SUFFICES ASSUME InTheAir PROVE InTheAir'
      OBVIOUS
    <3>1. \A p \in Players : loc[p] \in Vehicles => flown'[p] + due'[gen]["arrived"] >= line.ride
      <4> SUFFICES ASSUME NEW p \in Players, loc[p] \in Vehicles
                   PROVE  flown'[p] + due'[gen]["arrived"] >= line.ride
        OBVIOUS
      <4>1. flown'[p] = Capped(flown[p] + n) /\ flown[p] \in 0 .. line.ride
        BY <1>2, <1>8
      <4>2. /\ due'[gen]["arrived"] = due[gen]["arrived"] - n /\ due'[gen]["arrived"] \in Nat
            /\ due[gen]["arrived"] \in Nat
        BY <2>4 DEF InTheAir, Tasks
      <4>3. flown[p] + due[gen]["arrived"] >= line.ride
        BY DEF InTheAir
      <4>4. QED
        BY <1>6, <1>8, <4>1, <4>2, <4>3 DEF Capped
    <3>2. NoDeparture'
      BY <1>3, <2>4 DEF InTheAir, NoDeparture, Tasks
    <3>3. due'[gen]["arrived"] # Never /\ NoneRuns'
      BY <1>3, <2>4 DEF InTheAir, NoneRuns, Tasks, Never
    <3>4. QED
      BY <1>3, <1>4, <3>1, <3>2, <3>3 DEF InTheAir
  <2>7. Phases'
    <3>1. ~TakingOff /\ ~Landing
      BY <2>2 DEF TakingOff, Landing, Tasks
    <3>2. line.rearms # "arrived" => due'[gen]["takeoff"] # Never
      BY <2>1, <2>2, <2>4 DEF Phases, Tasks, Never
    <3>3. QED
      BY <1>3, <1>4, <2>1, <2>5, <2>6, <3>1, <3>2 DEF Phases
  <2>8. Found' /\ Apart'
    BY <1>3, <1>4, <2>1 DEF Found, Apart
  <2>9. QED
    BY <1>11, <2>3, <2>7, <2>8 DEF IInv, Order
<1>13. QED
  BY <1>3, <1>11, <1>12 DEF IInv

\* The scripts are loaded anew: between two tasks this begins a new timetable on the
\* ground, during one it tears the old.
LEMMA ReloadIInv ==
  ASSUME IInv, Reload
  PROVE  IInv'
<1>1. TypeOK /\ TalkOK /\ TasksOK /\ ListsOK /\ Base
  BY DEF IInv, Base
<1>2. PICK wait \in Waits \cap 1 .. line.align :
         due' = [due EXCEPT ![gen] = Unset, ![gen + 1] = Timetable(wait)]
  BY DEF Reload
<1>3. /\ gen <= MaxReloads /\ gen' = gen + 1
      /\ torn' = (torn \/ \E g \in Managers, t \in Tasks : UnderWay(g, t))
      /\ entry' = [entry EXCEPT ![gen + 1] = IF line.opens THEN "true" ELSE "unset"]
      /\ UNCHANGED <<event, running, online, loc, talk, bound, flown>>
  BY DEF Reload, travellers
<1>4. gen \in Nat /\ gen \in Managers /\ gen + 1 \in Managers /\ gen + 1 # gen
  BY <1>1, <1>3, TransportAssumption DEF TypeOK, Managers
<1>5. wait \in Nat /\ wait - 1 \in Nat
  BY TransportAssumption
<1>6. /\ line' = line /\ Legs' = Legs /\ Vehicles' = Vehicles /\ Lounges' = Lounges
      /\ \A i : Leg(i)' = Leg(i)
      /\ \A t : Warps(t)' = Warps(t) /\ Sources(t)' = Sources(t)
  BY <1>3, SameLine
<1>7. /\ Unset \in [Tasks -> {Never} \cup Nat] /\ Timetable(wait) \in [Tasks -> {Never} \cup Nat]
      /\ \A t \in Tasks : Unset[t] = Never
      /\ Timetable(wait)["stopEntry"] = wait - 1 /\ Timetable(wait)["takeoff"] = wait
      /\ Timetable(wait)["arrived"] = Never
  BY <1>5 DEF Unset, Timetable, Tasks
<1>8. /\ due' \in [Managers -> [Tasks -> {Never} \cup Nat]]
      /\ due'[gen] = Unset /\ due'[gen + 1] = Timetable(wait)
      /\ \A g \in Managers : g # gen /\ g # gen + 1 => due'[g] = due[g]
  <2>1. due \in [Managers -> [Tasks -> {Never} \cup Nat]]
    BY <1>1 DEF TypeOK
  <2> HIDE DEF Unset, Timetable
  <2>2. QED
    BY <1>2, <1>4, <1>7, <2>1
<1>9. entry' \in [Managers -> {"true", "false", "unset"}] /\ torn' \in BOOLEAN
  BY <1>1, <1>3 DEF TypeOK
<1>10. TypeOK'
  BY <1>1, <1>3, <1>4, <1>6, <1>8, <1>9 DEF TypeOK
<1>11. Base'
  BY <1>1, <1>3, <1>6, <1>10 DEF Base, TalkOK, TasksOK, ListsOK
<1>12. CASE ~torn'
  <2>1. OnlyNow /\ ~torn
    BY <1>3, <1>12 DEF IInv, Order
  <2>2. \A g \in Managers, t \in Tasks : /\ running[g][t].at = 0
                                         /\ running[g][t].list = {} /\ running[g][t].stood = {}
    BY <1>1, <1>3, <1>12, UnderWayAt DEF TasksOK
  <2>3. OnlyNow'
    <3> SUFFICES ASSUME NEW g \in Managers, g # gen + 1, NEW t \in Tasks
                 PROVE  due'[g][t] = Never /\ running[g][t].at = 0
      BY <1>3 DEF OnlyNow
    <3>1. CASE g = gen
      BY <1>7, <1>8, <2>2, <3>1
    <3>2. CASE g # gen
      BY <1>8, <2>1, <2>2, <3>2 DEF OnlyNow
    <3>3. QED
      BY <3>1, <3>2
  <2>4. Phases'
    <3>1. /\ due'[gen'] = Timetable(wait)
          /\ running'[gen']["takeoff"].at = 0 /\ running'[gen']["arrived"].at = 0
      BY <1>3, <1>4, <1>8, <2>2 DEF Tasks
    <3> HIDE DEF Timetable
    <3>2. OnGround'
      BY <1>5, <1>7, <3>1 DEF OnGround, NoneRuns, Never
    <3>3. due'[gen']["takeoff"] # Never
      BY <3>2 DEF OnGround
    <3>4. QED
      BY <1>6, <3>2, <3>3 DEF Phases
  <2>5. Found' /\ Apart'
    BY <1>3, <2>2 DEF Found, Apart, Tasks
  <2>6. QED
    BY <1>11, <2>3, <2>4, <2>5 DEF IInv, Order
<1>13. QED
  BY <1>11, <1>12 DEF IInv

-----------------------------------------------------------------------------
(***************************************************************************)
(* What holds of every behaviour                                           *)
(***************************************************************************)

\* Every step keeps what has been found out.
LEMMA NextIInv == ASSUME IInv, [Next]_vars PROVE IInv'
<1>1. ASSUME NEW g \in Managers, StopEntry(g) \/ EndTakeoff(g) \/ EndArrived(g) PROVE IInv'
  BY <1>1, StopEntryIInv, EndTakeoffIInv, EndArrivedIInv
<1>2. ASSUME NEW g \in Managers, NEW t \in Tasks, TaskStep(g, t) PROVE IInv'
  BY <1>2, BeginIInv, CopyIInv, CarryIInv DEF TaskStep
<1>3. ASSUME NEW p \in Players, Travel(p) PROVE IInv'
  BY <1>3, TravelIInv
<1>4. CASE UNCHANGED vars
  <2>1. UNCHANGED <<event, gen, entry, due, running, torn, online, loc, talk, bound, flown>>
    BY <1>4 DEF vars
  <2>2. /\ line' = line /\ Legs' = Legs /\ Vehicles' = Vehicles /\ Lounges' = Lounges
        /\ \A i : Leg(i)' = Leg(i)
        /\ \A t : Warps(t)' = Warps(t) /\ Sources(t)' = Sources(t)
    BY <2>1, SameLine
  <2>3. Base'
    BY <2>1, <2>2 DEF IInv, Base, TypeOK, TalkOK, TasksOK, ListsOK
  <2>4. CASE ~torn
    <3>1. OnlyNow' /\ Phases'
      BY <2>1, <2>4, SamePhase
    <3>2. Found' /\ Apart'
      BY <2>1, <2>2, <2>4 DEF IInv, Order, Found, Apart
    <3>3. QED
      BY <2>3, <3>1, <3>2 DEF IInv, Order
  <2>5. QED
    BY <2>1, <2>3, <2>4 DEF IInv
<1>5. QED
  BY <1>1, <1>2, <1>3, <1>4, ElapseIInv, ReloadIInv DEF Next, System

\* One timetable in one of its phases, for every timetable, traveller and reload.
THEOREM Invariance == Spec => []IInv
<1>1. Init => IInv
  BY InitIInv
<1>2. IInv /\ [Next]_vars => IInv'
  BY NextIInv
<1>3. QED
  BY <1>1, <1>2, PTL DEF Spec

\* TypeOK: the scripts' properties, timers and tasks, and where the travellers are, stay
\* within their types.
THEOREM TypeCorrect == Spec => []TypeOK
<1>1. IInv => TypeOK
  BY DEF IInv, Base
<1>2. QED
  BY <1>1, Invariance, PTL

\* OneTimetable: the manager in use expects its next departure or its arrival, the
\* replaced ones nothing, unless a reload tore the timetable.
THEOREM OneTimetableHolds == Spec => []OneTimetable
<1>1. ASSUME IInv, ~torn
      PROVE  /\ \A g \in Managers \ {gen} : \A t \in Tasks : ~Expected(g, t)
             /\ IF line.rearms = "takeoff" THEN Expected(gen, "takeoff")
                ELSE Expected(gen, "takeoff") # Expected(gen, "arrived")
  <2>1. Base /\ OnlyNow /\ Phases /\ gen \in Managers /\ line.rearms \in {"takeoff", "arrived"}
    BY <1>1, LineFacts DEF IInv, Order, Base, TypeOK
  <2>2. \A g \in Managers, t \in Tasks : Expected(g, t) <=> due[g][t] # Never \/ running[g][t].at # 0
    BY <2>1, UnderWayAt DEF Expected
  <2>3. \A g \in Managers \ {gen} : \A t \in Tasks : ~Expected(g, t)
    BY <2>1, <2>2 DEF OnlyNow
  <2>4. /\ Expected(gen, "takeoff") <=> due[gen]["takeoff"] # Never \/ running[gen]["takeoff"].at # 0
        /\ Expected(gen, "arrived") <=> due[gen]["arrived"] # Never \/ running[gen]["arrived"].at # 0
    BY <2>1, <2>2 DEF Tasks
  <2>5. Expected(gen, "takeoff") \in BOOLEAN /\ Expected(gen, "arrived") \in BOOLEAN
    BY DEF Expected, UnderWay
  <2>6. CASE line.rearms = "arrived"
    <3>1. OnGround \/ TakingOff \/ InTheAir \/ Landing
      BY <2>1, <2>6 DEF Phases
    <3>2. Expected(gen, "takeoff") <=> ~Expected(gen, "arrived")
      BY <2>4, <3>1 DEF OnGround, TakingOff, InTheAir, Landing, NoneRuns, NoDeparture
    <3>3. QED
      BY <2>3, <2>5, <2>6, <3>2
  <2>7. CASE line.rearms = "takeoff"
    BY <2>1, <2>3, <2>4, <2>7 DEF Phases
  <2>8. QED
    BY <2>1, <2>6, <2>7
<1>2. IInv => OneTimetable
  BY <1>1 DEF OneTimetable
<1>3. QED
  BY <1>2, Invariance, PTL

\* The manager in use has task t before it: its timer is set, or it has begun.
Awaits(t) == due[gen][t] # Never \/ running[gen][t].at # 0

\* A plane waits for its next departure, the others for it or for an arrival.
Rolls == Awaits("takeoff") \/ (line.rearms = "arrived" /\ Awaits("arrived"))

\* A step that takes nothing from the manager in use.
LEMMA KeepsRolling ==
  ASSUME Rolls, UNCHANGED <<event, gen>>,
         \A t \in {"takeoff", "arrived"} : Awaits(t) => Awaits(t)'
  PROVE  Rolls'
BY SameLine DEF Rolls

\* Tasks are copied and carried without being forgotten, and what ends one sets the next.
LEMMA TaskRolls ==
  ASSUME IInv, Rolls, NEW g \in Managers,
         \/ StopEntry(g) \/ EndTakeoff(g) \/ EndArrived(g)
         \/ \E t \in Tasks \ {"stopEntry"} : TaskStep(g, t)
  PROVE  Rolls'
<1> USE DEF Never
<1>1. /\ due \in [Managers -> [Tasks -> {Never} \cup Nat]] /\ gen \in Managers
      /\ running \in [Managers -> [Tasks -> [at : Nat, list : SUBSET online, stood : SUBSET online]]]
      /\ event \in DOMAIN Lines
  BY DEF IInv, Base, TypeOK
<1>2. line.begin \in Nat /\ line.close \in Nat /\ line.ride \in Nat /\ line.rearms \in {"takeoff", "arrived"}
  BY <1>1, LineFacts
<1>3. CASE StopEntry(g)
  BY <1>1, <1>3, KeepsRolling DEF StopEntry, Awaits, Tasks
<1>4. CASE EndTakeoff(g)
  <2>1. UNCHANGED <<event, gen>> /\ line' = line
    BY <1>4, SameLine DEF EndTakeoff
  <2> DEFINE timers == [due[g] EXCEPT !["arrived"] = line.ride]
  <2>2. /\ due' = [due EXCEPT ![g] = IF line.rearms = "takeoff" THEN Rearmed(timers) ELSE timers]
        /\ running' = [running EXCEPT ![g]["takeoff"] = Idle]
    BY <1>4 DEF EndTakeoff
  <2>3. CASE g = gen
    <3>1. timers \in [Tasks -> {Never} \cup Nat] /\ timers["arrived"] = line.ride
      BY <1>1, <1>2 DEF Tasks
    <3> HIDE DEF timers
    <3>2. CASE line.rearms = "takeoff"
      <4>1. due'[gen]["takeoff"] = line.begin
        BY <1>1, <2>2, <2>3, <3>1, <3>2 DEF Rearmed, Tasks
      <4>2. QED
        BY <1>2, <2>1, <4>1 DEF Rolls, Awaits
    <3>3. CASE line.rearms = "arrived"
      <4>1. due'[gen]["arrived"] = line.ride
        BY <1>1, <2>2, <2>3, <3>1, <3>3
      <4>2. QED
        BY <1>2, <2>1, <3>3, <4>1 DEF Rolls, Awaits
    <3>4. QED
      BY <1>2, <3>2, <3>3
  <2>4. CASE g # gen
    <3>1. due'[gen] = due[gen] /\ running'[gen] = running[gen]
      BY <1>1, <2>2, <2>4
    <3>2. QED
      BY <2>1, <3>1, KeepsRolling DEF Awaits
  <2>5. QED
    BY <2>3, <2>4
<1>5. CASE EndArrived(g)
  <2>1. UNCHANGED <<event, gen>> /\ line' = line
    BY <1>5, SameLine DEF EndArrived
  <2>2. /\ running' = [running EXCEPT ![g]["arrived"] = Idle]
        /\ line.rearms = "arrived" => due' = [due EXCEPT ![g] = Rearmed(@)]
        /\ line.rearms # "arrived" => due' = due
    BY <1>5 DEF EndArrived
  <2>3. CASE g = gen /\ line.rearms = "arrived"
    <3>1. due'[gen]["takeoff"] = line.begin
      BY <1>1, <2>2, <2>3 DEF Rearmed, Tasks
    <3>2. QED
      BY <1>2, <2>1, <3>1 DEF Rolls, Awaits
  <2>4. CASE line.rearms # "arrived"
    <3>1. due' = due /\ running'[gen]["takeoff"] = running[gen]["takeoff"]
      BY <1>1, <2>2, <2>4 DEF Tasks
    <3>2. QED
      BY <2>1, <2>4, <3>1 DEF Rolls, Awaits
  <2>5. CASE g # gen
    <3>1. due'[gen] = due[gen] /\ running'[gen] = running[gen]
      BY <1>1, <2>2, <2>5
    <3>2. QED
      BY <2>1, <3>1, KeepsRolling DEF Awaits
  <2>6. QED
    BY <2>3, <2>4, <2>5
<1>6. ASSUME NEW t \in Tasks \ {"stopEntry"}, TaskStep(g, t) PROVE Rolls'
  <2>1. CASE Begin(g, t)
    <3>1. /\ due' = [due EXCEPT ![g][t] = Never] /\ UNCHANGED <<event, gen>>
          /\ running' = [running EXCEPT ![g][t] =
                [at |-> 1, list |-> {}, stood |-> {p \in online : loc[p] \in Sources(t)}]]
      BY <2>1 DEF Begin
    <3>2. ASSUME NEW u \in {"takeoff", "arrived"}, Awaits(u) PROVE Awaits(u)'
      <4>1. CASE g = gen /\ u = t
        <5>1. running'[gen][u].at = 1
          BY <1>1, <3>1, <4>1 DEF Tasks
        <5>2. QED
          BY <3>1, <5>1 DEF Awaits
      <4>2. CASE g # gen \/ u # t
        <5>1. due'[gen][u] = due[gen][u] /\ running'[gen][u] = running[gen][u]
          BY <1>1, <3>1, <4>2 DEF Tasks
        <5>2. QED
          BY <3>1, <3>2, <5>1 DEF Awaits
      <4>3. QED
        BY <4>1, <4>2
    <3>3. QED
      BY <3>1, <3>2, KeepsRolling
  <2>2. CASE ~Begin(g, t)
    <3>1. /\ UNCHANGED <<event, gen, due>> /\ running[g][t].at \in Nat
          /\ \A h \in Managers, u \in Tasks : h # g \/ u # t => running'[h][u] = running[h][u]
          /\ running'[g][t].at \in {running[g][t].at, running[g][t].at + 1}
      <4>1. running[g][t].at \in Nat
        BY <1>1
      <4>2. CASE Copy(g, t)
        BY <1>1, <4>1, <4>2 DEF Copy
      <4>3. ASSUME NEW p \in Players, Carry(g, t, p)
            PROVE  /\ UNCHANGED <<event, gen, due>>
                   /\ \A h \in Managers, u \in Tasks : h # g \/ u # t => running'[h][u] = running[h][u]
                   /\ running'[g][t].at = running[g][t].at
        BY <1>1, <4>3 DEF Carry
      <4>4. QED
        BY <1>6, <2>2, <4>1, <4>2, <4>3 DEF TaskStep
    <3>2. \A u \in Tasks : running[gen][u].at # 0 => running'[gen][u].at # 0
      <4> SUFFICES ASSUME NEW u \in Tasks, running[gen][u].at # 0
                   PROVE  running'[gen][u].at # 0
        OBVIOUS
      <4>1. CASE g = gen /\ u = t
        BY <3>1, <4>1
      <4>2. CASE g # gen \/ u # t
        BY <1>1, <3>1, <4>2
      <4>3. QED
        BY <4>1, <4>2
    <3>3. QED
      BY <3>1, <3>2, KeepsRolling DEF Awaits, Tasks
  <2>3. QED
    BY <2>1, <2>2
<1>7. QED
  BY <1>3, <1>4, <1>5, <1>6

\* Who logs out leaves the tasks where they are.
LEMMA LogoutLeaves ==
  ASSUME TypeOK, NEW p \in Players, Logout(p), NEW g \in Managers, NEW t \in Tasks
  PROVE  running'[g][t].at = running[g][t].at
<1>1. running' = [h \in Managers |-> [u \in Tasks |->
         [running[h][u] EXCEPT !.list = @ \ {p}, !.stood = @ \ {p}]]]
  BY DEF Logout
<1>2. running[g][t] \in [at : Nat, list : SUBSET online, stood : SUBSET online]
  BY DEF TypeOK
<1>3. running'[g][t] = [at |-> running[g][t].at, list |-> running[g][t].list \ {p},
                        stood |-> running[g][t].stood \ {p}]
  BY <1>1, <1>2
<1>4. QED
  BY <1>3

\* Travellers take nothing from the timetable.
LEMMA TravelRolls ==
  ASSUME IInv, Rolls, NEW p \in Players, Travel(p)
  PROVE  Rolls'
<1>1. Base /\ gen \in Managers
  BY DEF IInv, Base, TypeOK
<1>2. UNCHANGED <<event, gen, due>> /\ (MovesAway(p) \/ UNCHANGED running \/ Logout(p))
  <2>1. ASSUME NEW i \in Legs, Stroll(p, i) \/ AskUsher(p, i)
        PROVE  UNCHANGED <<event, gen, due>> /\ (MovesAway(p) \/ UNCHANGED running)
    BY <2>1 DEF Stroll, AskUsher
  <2>2. ASSUME Board(p) \/ AskPurser(p) \/ Leave(p) \/ Decline(p) \/ Walk(p) \/ Login(p)
        PROVE  UNCHANGED <<event, gen, due>> /\ (MovesAway(p) \/ UNCHANGED running)
    BY <2>2 DEF Board, AskPurser, Leave, Decline, Walk, Login
  <2>3. ASSUME Logout(p) PROVE UNCHANGED <<event, gen, due>>
    BY <2>3 DEF Logout
  <2>4. QED
    BY <2>1, <2>2, <2>3 DEF Travel
<1>3. \A t \in Tasks : running'[gen][t].at = running[gen][t].at
  <2>1. CASE MovesAway(p)
    BY <1>1, <2>1, MovesAwayFrom
  <2>2. CASE Logout(p)
    BY <1>1, <2>2, LogoutLeaves DEF Base
  <2>3. QED
    BY <1>2, <2>1, <2>2
<1>4. QED
  BY <1>2, <1>3, KeepsRolling DEF Awaits, Tasks

LEMMA NextRolls ==
  ASSUME IInv, Rolls, [Next]_vars
  PROVE  Rolls'
<1>1. ASSUME NEW g \in Managers, StopEntry(g) \/ EndTakeoff(g) \/ EndArrived(g) PROVE Rolls'
  BY <1>1, TaskRolls
<1>2. ASSUME NEW g \in Managers, NEW t \in Tasks \ {"stopEntry"}, TaskStep(g, t) PROVE Rolls'
  BY <1>2, TaskRolls
<1>3. ASSUME NEW p \in Players, Travel(p) PROVE Rolls'
  BY <1>3, TravelRolls
<1>4. CASE Elapse
  <2>1. PICK n \in Pending :
          /\ \A m \in Pending : n <= m
          /\ due' = [g \in Managers |-> [t \in Tasks |->
                        IF due[g][t] = Never THEN Never ELSE due[g][t] - n]]
    BY <1>4 DEF Elapse
  <2>2. gen \in Managers /\ \A t \in Tasks : due[gen][t] \in {Never} \cup Nat
    BY DEF IInv, Base, TypeOK
  <2>3. n \in Nat
    BY DEF IInv, Base, TypeOK, Pending
  <2>4. \A t \in Tasks : due[gen][t] # Never => due[gen][t] - n # Never
    <3>1. \A t \in Tasks : due[gen][t] # Never => due[gen][t] \in Pending /\ n <= due[gen][t]
      BY <2>1, <2>2 DEF Pending
    <3>2. QED
      BY <2>2, <2>3, <3>1 DEF Never
  <2>5. \A t \in Tasks : due[gen][t] # Never => due'[gen][t] # Never
    BY <2>1, <2>2, <2>4
  <2>6. UNCHANGED <<event, gen, running>>
    BY <1>4 DEF Elapse
  <2>7. QED
    BY <2>5, <2>6, KeepsRolling DEF Awaits, Tasks
<1>5. CASE Reload
  <2>1. PICK wait \in Waits \cap 1 .. line.align :
           due' = [due EXCEPT ![gen] = Unset, ![gen + 1] = Timetable(wait)]
    BY <1>5 DEF Reload
  <2>2. gen' = gen + 1 /\ gen + 1 \in Managers /\ due \in [Managers -> [Tasks -> {Never} \cup Nat]]
    BY <1>5, TransportAssumption DEF Reload, IInv, Base, TypeOK, Managers
  <2>3. wait \in Nat /\ Timetable(wait)["takeoff"] = wait
    BY TransportAssumption DEF Timetable, Tasks
  <2>4. due'[gen'] = Timetable(wait)
    BY <2>1, <2>2
  <2>5. QED
    BY <2>3, <2>4 DEF Rolls, Awaits, Never
<1>6. CASE UNCHANGED vars
  BY <1>6, KeepsRolling DEF vars, Awaits
<1>7. QED
  BY <1>1, <1>2, <1>3, <1>4, <1>5, <1>6 DEF Next, System

\* The timetable of the manager in use never stops: it has its next departure before it, or
\* an arrival (a plane always its departure), and when nothing is due or under way there is a
\* timer to wait for.
GoesOn ==
    /\ Expected(gen, "takeoff") \/ (line.rearms = "arrived" /\ Expected(gen, "arrived"))
    /\ Quiet => Pending # {}

\* takeoff, arrived, scheduleNew: whatever a reload tears, and whatever the replaced managers'
\* tasks set for themselves, no cycle of the manager in use ends without setting the next.  It
\* is what WaitersLeave and RidersLand ask of the timetable, but for the fairness of the pool.
THEOREM GoesOnHolds == Spec => []GoesOn
<1>1. Init => Rolls
  <2> SUFFICES ASSUME Init PROVE Rolls
    OBVIOUS
  <2>1. PICK wait \in Waits \cap 1 .. line.align :
            due = [g \in Managers |-> IF g = 1 THEN Timetable(wait) ELSE Unset]
    BY DEF Init
  <2>2. gen = 1 /\ 1 \in Managers
    BY TransportAssumption DEF Init, Managers
  <2>3. wait \in Nat /\ Timetable(wait)["takeoff"] = wait
    BY TransportAssumption DEF Timetable, Tasks
  <2>4. due[gen] = Timetable(wait)
    BY <2>1, <2>2
  <2>5. QED
    BY <2>3, <2>4 DEF Rolls, Awaits, Never
<1>2. IInv /\ Rolls /\ [Next]_vars => Rolls'
  BY NextRolls
<1>3. IInv /\ Rolls => GoesOn
  <2> SUFFICES ASSUME IInv, Rolls PROVE GoesOn
    OBVIOUS
  <2>1. gen \in Managers /\ \A t \in {"takeoff", "arrived"} : Awaits(t) => Expected(gen, t)
    BY UnderWayAt DEF IInv, Base, TypeOK, Awaits, Expected, Tasks
  <2>2. Quiet => Pending # {}
    <3> SUFFICES ASSUME Quiet PROVE Pending # {}
      OBVIOUS
    <3>1. PICK t \in {"takeoff", "arrived"} : Expected(gen, t)
      BY <2>1 DEF Rolls
    <3>2. t \in Tasks /\ ~UnderWay(gen, t)
      BY <2>1 DEF Quiet, Tasks
    <3>3. due[gen][t] # Never
      BY <3>1, <3>2 DEF Expected
    <3>4. QED
      BY <2>1, <3>2, <3>3 DEF Pending
  <2>3. QED
    BY <2>1, <2>2 DEF Rolls, GoesOn
<1>4. QED
  BY Invariance, <1>1, <1>2, <1>3, PTL DEF Spec

\* NoneLeftBehind: when a task has carried everybody, nobody it found who has stayed
\* where he was is still there.
THEOREM NoneLeftBehindHolds == Spec => []NoneLeftBehind
<1>1. ASSUME IInv, ~torn, NEW g \in Managers, NEW t \in Tasks, Done(g, t),
             NEW p \in running[g][t].stood, loc[p] \in Sources(t)
      PROVE  FALSE
  <2>1. running[g][t].list = {} /\ running[g][t].at > Len(Warps(t))
    BY <1>1 DEF Done
  <2>2. running[g][t].at \in Nat /\ event \in DOMAIN Lines
    BY <1>1 DEF IInv, Base, TypeOK
  <2>3. PICK i \in DOMAIN Warps(t) : i >= running[g][t].at
    BY <1>1, <2>1 DEF IInv, Order, Found
  <2>4. QED
    BY <2>1, <2>2, <2>3, WarpFacts
<1>2. IInv => NoneLeftBehind
  BY <1>1 DEF NoneLeftBehind
<1>3. QED
  BY <1>2, Invariance, PTL

\* The gate of the manager in use is open only while its ride is on the ground.
LEMMA OpenOnGround ==
  ASSUME IInv, Orderly, entry[gen] = "true"
  PROVE  ~InFlight
<1>1. Base /\ Phases /\ gen \in Managers /\ line.rearms = "arrived" /\ ~torn
  BY DEF IInv, Order, Base, TypeOK, Orderly
<1>2. OnGround
  BY <1>1 DEF Phases, TakingOff, InTheAir, Landing, NoDeparture
<1>3. ~UnderWay(gen, "takeoff") /\ ~UnderWay(gen, "arrived")
  BY <1>1, <1>2, UnderWayAt DEF OnGround, NoneRuns, Tasks
<1>4. QED
  BY <1>2, <1>3 DEF InFlight, Expected, OnGround

\* BoardsInTime: nobody is let into the lounge of a ride that has left or is leaving.
THEOREM BoardsInTimeHolds == Spec => BoardsInTime
<1> DEFINE InTime == \A p \in Players :
              loc'[p] \in Doors \ {loc[p]} /\ Orderly => ~InFlight \/ Asked(p) # gen
<1>1. ASSUME IInv, Next, NEW p \in Players, loc'[p] \in Doors, loc'[p] # loc[p], Orderly, Asked(p) = gen
      PROVE  ~InFlight
  <2>1. /\ event \in DOMAIN Lines /\ loc \in [Players -> Nat]
        /\ bound \in [Players -> {0} \cup Legs]
        /\ Doors \cap Vehicles = {}
        /\ TalkOK /\ TasksOK /\ ListsOK
    BY <1>1, LineFacts DEF IInv, Base, TypeOK
  <2>2. ~UNCHANGED loc
    BY <1>1
  <2>3. ASSUME NEW g \in Managers, NEW t \in Tasks, NEW q \in Players, Carry(g, t, q) PROVE FALSE
    <3>1. running[g][t].at - 1 \in DOMAIN Warps(t) /\ t # "stopEntry"
      BY <2>1, <2>3 DEF Carry, TasksOK, ListsOK
    <3>2. Warps(t)[running[g][t].at - 1].to \notin Doors
      BY <2>1, <3>1, WarpFacts
    <3>3. QED
      BY <1>1, <2>1, <2>3, <3>2 DEF Carry
  <2>4. ASSUME NEW q \in Players, Board(q) PROVE ~InFlight
    <3>1. q = p
      BY <1>1, <2>1, <2>4 DEF Board
    <3>2. entry[gen] = "true"
      BY <1>1, <2>4, <3>1 DEF Board
    <3>3. QED
      BY <1>1, <3>2, OpenOnGround
  <2>5. ASSUME NEW q \in Players, Travel(q), ~Board(q) PROVE FALSE
    <3>1. PICK map \in Nat \ Doors : loc' = [loc EXCEPT ![q] = map]
      <4>1. ASSUME NEW i \in Legs, Stroll(q, i) PROVE \E map \in Nat \ Doors : loc' = [loc EXCEPT ![q] = map]
        BY <2>1, <4>1, LegFacts DEF Stroll
      <4>2. ASSUME Leave(q) PROVE \E map \in Nat \ Doors : loc' = [loc EXCEPT ![q] = map]
        <5>1. talk[q].leg \in Legs
          BY <2>1, <4>2 DEF TalkOK, Leave
        <5>2. SentTo(Leg(talk[q].leg).purser, loc[q]) \in Nat \ Doors
          BY <2>1, <5>1, LegFacts DEF SentTo
        <5>3. QED
          BY <4>2, <5>2 DEF Leave
      <4>3. ASSUME Walk(q) PROVE \E map \in Nat \ Doors : loc' = [loc EXCEPT ![q] = map]
        <5>1. PICK i \in Legs : \/ loc' = [loc EXCEPT ![q] = Leg(i).cabin]
                                \/ loc' = [loc EXCEPT ![q] = Leg(i).deck]
          BY <4>3 DEF Walk
        <5>2. Leg(i).cabin \in Nat \ Doors /\ Leg(i).deck \in Nat \ Doors
          BY <2>1, LegFacts, MapsAreNumbers
        <5>3. QED
          BY <5>1, <5>2
      <4>4. ASSUME Login(q) PROVE \E map \in Nat \ Doors : loc' = [loc EXCEPT ![q] = map]
        <5>1. bound[q] # 0 /\ loc' = [loc EXCEPT ![q] = Leg(bound[q]).pier]
          BY <2>2, <4>4 DEF Login
        <5>2. bound[q] \in Legs
          BY <2>1, <5>1
        <5>3. QED
          BY <2>1, <5>1, <5>2, LegFacts
      <4>5. QED
        BY <2>2, <2>5, <4>1, <4>2, <4>3, <4>4 DEF Travel, AskUsher, AskPurser, Decline, Logout
    <3>2. QED
      BY <1>1, <2>1, <3>1
  <2>6. QED
    BY <1>1, <2>2, <2>3, <2>4, <2>5
       DEF Next, System, TaskStep, Elapse, StopEntry, EndTakeoff, EndArrived, Begin, Copy, Reload, travellers
<1>2. IInv /\ [Next]_vars => [InTime]_vars
  BY <1>1
<1>3. QED
  BY <1>2, Invariance, PTL DEF Spec, BoardsInTime

\* RideTakesItsTime: an arrival lands nobody who has been on board for less than the
\* ride's time.
THEOREM RideTakesItsTimeHolds == Spec => RideTakesItsTime
<1> DEFINE InFull == \A g \in Managers, p \in Players :
              Carry(g, "arrived", p) /\ loc[p] \in Vehicles /\ Orderly => flown[p] = line.ride
<1>1. ASSUME IInv, NEW g \in Managers, NEW p \in Players, Carry(g, "arrived", p), loc[p] \in Vehicles, Orderly
      PROVE  flown[p] = line.ride
  <2>1. TasksOK /\ Phases /\ ~torn /\ line.rearms = "arrived" /\ "arrived" \in Tasks
    BY <1>1 DEF IInv, Base, Order, Orderly, Tasks
  <2>2. running[g]["arrived"].at # 0
    BY <1>1, <2>1 DEF Carry, TasksOK
  <2>3. g = gen
    BY <1>1, <2>1, <2>2, NowOnly
  <2>4. Landing
    BY <2>1, <2>2, <2>3 DEF Phases, OnGround, TakingOff, InTheAir, NoneRuns
  <2>5. QED
    BY <1>1, <2>4 DEF Landing
<1>2. IInv /\ [Next]_vars => [InFull]_vars
  BY <1>1
<1>3. QED
  BY <1>2, Invariance, PTL DEF Spec, RideTakesItsTime

-----------------------------------------------------------------------------
(***************************************************************************)
(* Where a ride goes                                                       *)
(***************************************************************************)

Cabins(leg) == {leg.deck, leg.cabin}

\* What a leg and the rows of its table must agree on for a passenger to arrive where he
\* meant to: the departure carries its lounge to its vehicles, the arrival its vehicles
\* to its landing, and its purser knows its pier.
RowsMatch(ln, leg) ==
    /\ \A j \in DOMAIN ln.boarding : ln.boarding[j].from = leg.door => ln.boarding[j].to \in Cabins(leg)
    /\ \A j \in DOMAIN ln.landing : ln.landing[j].from \in Cabins(leg) => ln.landing[j].to = leg.landing
    /\ SentTo(leg.purser, leg.door) = leg.pier
    /\ ~Looks(leg.purser) => leg.purser.then = leg.pier

\* Each leg has its own door and its own vehicles besides.
RoutesMatch(ln) == \A i \in DOMAIN ln.legs :
    /\ RowsMatch(ln, ln.legs[i])
    /\ \A k \in DOMAIN ln.legs : k # i => /\ ln.legs[k].door # ln.legs[i].door
                                          /\ Cabins(ln.legs[k]) \cap Cabins(ln.legs[i]) = {}

\* Whoever is behind a door came through it, and whoever talks to a purser talks to the
\* one of his own leg; an usher is asked outside.
Ticket(p) ==
    /\ loc[p] \in Doors \cup Lounges => bound[p] \in Legs /\ loc[p] = Leg(bound[p]).door
    /\ talk[p].about = "leaving" => talk[p].leg = bound[p]
    /\ talk[p].about = "boarding" => loc[p] \notin Doors \cup Lounges
Passage == \A p \in Players : Ticket(p)

\* Whoever is on board is on a vehicle of his leg; whom a departure is about to move it
\* moves to one, and he can change his leg no more; whom an arrival moves from a vehicle
\* it moves to the landing of his leg.
Berth(p) ==
    /\ loc[p] \in Vehicles => bound[p] \in Legs /\ loc[p] \in Cabins(Leg(bound[p]))
    /\ \A g \in Managers :
          /\ p \in running[g]["takeoff"].list =>
                /\ bound[p] \in Legs
                /\ Warps("takeoff")[running[g]["takeoff"].at - 1].from = Leg(bound[p]).door
                /\ talk[p].about = "boarding" => Asked(p) = gen
          /\ p \in running[g]["arrived"].list /\ loc[p] \in Vehicles =>
                Warps("arrived")[running[g]["arrived"].at - 1].to = Leg(bound[p]).landing
Berths == Orderly => \A p \in Players : Berth(p)

\* What a passenger relies on, said of the line in use.
LEMMA RouteFacts ==
  ASSUME event \in DOMAIN Lines, RoutesMatch(line), NEW i \in Legs
  PROVE  /\ \A k \in Legs : k # i => /\ Leg(k).door # Leg(i).door
                                     /\ Cabins(Leg(k)) \cap Cabins(Leg(i)) = {}
         /\ \A j \in DOMAIN Warps("takeoff") :
               Warps("takeoff")[j].from = Leg(i).door => Warps("takeoff")[j].to \in Cabins(Leg(i))
         /\ \A j \in DOMAIN Warps("arrived") :
               Warps("arrived")[j].from \in Cabins(Leg(i)) => Warps("arrived")[j].to = Leg(i).landing
         /\ SentTo(Leg(i).purser, Leg(i).door) = Leg(i).pier
         /\ ~Looks(Leg(i).purser) => Leg(i).purser.then = Leg(i).pier
BY DEF RoutesMatch, RowsMatch, Legs, Leg, Warps

\* The ticket a step leaves a player with.
LEMMA NewTicket ==
  ASSUME event' = event, NEW p \in Players,
         loc'[p] \in Doors \cup Lounges => bound'[p] \in Legs /\ loc'[p] = Leg(bound'[p]).door,
         talk'[p].about = "leaving" => talk'[p].leg = bound'[p],
         talk'[p].about = "boarding" => loc'[p] \notin Doors \cup Lounges
  PROVE  Ticket(p)'
<1>1. Doors' = Doors /\ Lounges' = Lounges /\ Legs' = Legs /\ line' = line
  BY SameLine
<1>2. Leg(bound[p])' = Leg(bound'[p])
  BY <1>1 DEF Leg
<1>3. QED
  BY <1>1, <1>2 DEF Ticket

\* A step that lets a player be where he was, in his conversation, keeps his ticket.
LEMMA SameTicket ==
  ASSUME event' = event, NEW p \in Players, Ticket(p),
         loc'[p] = loc[p], talk'[p] = talk[p], bound'[p] = bound[p]
  PROVE  Ticket(p)'
BY SameLine DEF Ticket

\* What a player does himself keeps his ticket, and does nothing to another's.
LEMMA TravelTicket ==
  ASSUME IInv, Passage, RoutesMatch(line), NEW p \in Players, Travel(p)
  PROVE  Passage'
<1>0. /\ loc[p] \in Doors \cup Lounges => bound[p] \in Legs /\ loc[p] = Leg(bound[p]).door
      /\ talk[p].about = "leaving" => talk[p].leg = bound[p]
      /\ talk[p].about = "boarding" => loc[p] \notin Doors \cup Lounges
  BY DEF Passage, Ticket
<1>1. TypeOK /\ TalkOK /\ event \in DOMAIN Lines
  BY DEF IInv, Base, TypeOK
<1>2. /\ event' = event
      /\ \A q \in Players \ {p} : loc'[q] = loc[q] /\ talk'[q] = talk[q] /\ bound'[q] = bound[q]
  BY <1>1 DEF TypeOK, Travel, Stroll, AskUsher, Board, AskPurser, Leave, Decline, Walk, Logout, Login
<1>3. \A q \in Players \ {p} : Ticket(q)'
  BY <1>2, SameTicket DEF Passage
<1> SUFFICES Ticket(p)'
  BY <1>3 DEF Passage
<1>4. \A i \in Legs : Leg(i).door \in Doors
  BY <1>1, LegFacts
<1>5. /\ loc \in [Players -> Nat] /\ bound \in [Players -> {0} \cup Legs]
      /\ talk \in [Players -> [about : {"nothing", "boarding", "leaving"}, leg : {0} \cup Legs,
                               gen : {0} \cup Managers]]
      /\ Silent.about = "nothing"
  BY <1>1 DEF TypeOK, Silent
<1>6. \A i \in Legs : Leg(i).pier \notin Doors \cup Lounges
  BY <1>1, LegFacts
<1>7. ASSUME NEW i \in Legs, Stroll(p, i) PROVE Ticket(p)'
  <2>1. loc'[p] = Leg(i).pier /\ talk'[p].about = "nothing" /\ bound' = bound
    BY <1>5, <1>7 DEF Stroll
  <2>2. QED
    BY <1>2, <1>6, <2>1, NewTicket
<1>8. ASSUME NEW i \in Legs, AskUsher(p, i) PROVE Ticket(p)'
  <2>1. loc[p] = Leg(i).pier /\ talk'[p].about = "boarding" /\ loc' = loc
    BY <1>5, <1>8 DEF AskUsher
  <2>2. QED
    BY <1>2, <1>6, <2>1, NewTicket
<1>9. CASE Board(p)
  <2>1. talk[p].leg \in Legs
    BY <1>1, <1>9 DEF TalkOK, Board
  <2>2. loc'[p] = Leg(talk[p].leg).door /\ bound'[p] = talk[p].leg /\ talk'[p].about = "nothing"
    BY <1>5, <1>9 DEF Board
  <2>3. QED
    BY <1>2, <2>1, <2>2, NewTicket
<1>10. CASE AskPurser(p)
  <2>1. PICK i \in Legs : /\ Leg(i).door = loc[p]
                          /\ talk' = [talk EXCEPT ![p] = [about |-> "leaving", leg |-> i, gen |-> 0]]
    BY <1>10 DEF AskPurser
  <2>2. talk'[p].about = "leaving" /\ talk'[p].leg = i
    BY <1>5, <2>1
  <2>3. loc[p] \in Doors /\ loc' = loc /\ bound' = bound
    BY <1>10 DEF AskPurser
  <2>4. bound[p] \in Legs /\ loc[p] = Leg(bound[p]).door
    BY <1>0, <2>3
  <2>5. i = bound[p]
    BY <1>1, <2>1, <2>4, RouteFacts
  <2>6. QED
    BY <1>2, <2>2, <2>3, <2>4, <2>5, NewTicket
<1>11. CASE Leave(p)
  <2>1. talk[p].leg \in Legs
    BY <1>1, <1>11 DEF TalkOK, Leave
  <2>2. SentTo(Leg(talk[p].leg).purser, loc[p]) \notin Doors \cup Lounges
    BY <1>1, <2>1, LegFacts DEF SentTo
  <2>3. loc'[p] = SentTo(Leg(talk[p].leg).purser, loc[p]) /\ talk'[p].about = "nothing"
    BY <1>5, <1>11 DEF Leave
  <2>4. QED
    BY <1>2, <2>2, <2>3, NewTicket
<1>12. CASE Decline(p) \/ Logout(p)
  <2>1. loc' = loc /\ bound' = bound /\ talk'[p].about = "nothing"
    BY <1>5, <1>12 DEF Decline, Logout
  <2>2. QED
    BY <1>0, <1>2, <2>1, NewTicket
<1>13. CASE Walk(p)
  <2>1. PICK i \in Legs : loc'[p] \in {Leg(i).deck, Leg(i).cabin}
    BY <1>5, <1>13 DEF Walk
  <2>2. loc'[p] \notin Doors \cup Lounges
    BY <1>1, <2>1, LegFacts, LineFacts
  <2>3. loc[p] \notin Doors \cup Lounges /\ talk' = talk /\ bound' = bound
    BY <1>1, <1>13, LegFacts, LineFacts DEF Walk
  <2>4. QED
    BY <1>0, <1>2, <2>2, <2>3, NewTicket
<1>14. CASE Login(p)
  <2>1. /\ talk' = talk /\ bound' = bound
        /\ loc' = loc \/ (bound[p] # 0 /\ loc'[p] = Leg(bound[p]).pier)
    BY <1>5, <1>14 DEF Login
  <2>2. CASE loc' = loc
    BY <1>0, <1>2, <2>1, <2>2, NewTicket
  <2>3. CASE bound[p] # 0 /\ loc'[p] = Leg(bound[p]).pier
    <3>1. loc'[p] \notin Doors \cup Lounges
      BY <1>5, <1>6, <2>3
    <3>2. QED
      BY <1>0, <1>2, <2>1, <3>1, NewTicket
  <2>4. QED
    BY <2>1, <2>2, <2>3
<1>15. QED
  BY <1>7, <1>8, <1>9, <1>10, <1>11, <1>12, <1>13, <1>14 DEF Travel

\* So does every step: nobody is carried behind a door.
LEMMA NextPassage ==
  ASSUME IInv, Passage, RoutesMatch(line), [Next]_vars
  PROVE  Passage'
<1>1. CASE /\ event' = event /\ UNCHANGED <<loc, talk, bound>>
  BY <1>1, SameTicket DEF Passage
<1>2. ASSUME NEW g \in Managers, NEW t \in Tasks, NEW p \in Players, Carry(g, t, p) PROVE Passage'
  <2>1. TypeOK /\ TasksOK /\ ListsOK /\ event \in DOMAIN Lines /\ loc \in [Players -> Nat]
    BY DEF IInv, Base, TypeOK
  <2>2. event' = event /\ talk' = talk /\ bound' = bound
    BY <1>2 DEF Carry
  <2>3. running[g][t].at - 1 \in DOMAIN Warps(t) /\ t # "stopEntry"
    BY <1>2, <2>1 DEF Carry, TasksOK, ListsOK
  <2>4. Warps(t)[running[g][t].at - 1].to \notin Doors \cup Lounges
    BY <2>1, <2>3, WarpFacts, LineFacts DEF Tasks
  <2>5. loc'[p] \notin Doors \cup Lounges /\ \A q \in Players \ {p} : loc'[q] = loc[q]
    BY <1>2, <2>1, <2>4 DEF Carry
  <2>6. \A q \in Players \ {p} : Ticket(q)'
    BY <2>2, <2>5, SameTicket DEF Passage
  <2>7. Ticket(p)'
    BY <2>2, <2>5, NewTicket DEF Passage, Ticket
  <2>8. QED
    BY <2>6, <2>7 DEF Passage
<1>3. ASSUME NEW p \in Players, Travel(p) PROVE Passage'
  BY <1>3, TravelTicket
<1>4. CASE Elapse \/ Reload \/ (\E g \in Managers : StopEntry(g) \/ EndTakeoff(g) \/ EndArrived(g))
  <2>1. event' = event /\ UNCHANGED <<loc, talk, bound>>
    BY <1>4 DEF Elapse, Reload, StopEntry, EndTakeoff, EndArrived, travellers
  <2>2. QED
    BY <1>1, <2>1
<1>5. ASSUME NEW g \in Managers, NEW t \in Tasks, Begin(g, t) \/ Copy(g, t) PROVE Passage'
  <2>1. event' = event /\ UNCHANGED <<loc, talk, bound>>
    BY <1>5 DEF Begin, Copy, travellers
  <2>2. QED
    BY <1>1, <2>1
<1>6. CASE UNCHANGED vars
  BY <1>1, <1>6 DEF vars
<1>7. QED
  BY <1>2, <1>3, <1>4, <1>5, <1>6 DEF Next, System, TaskStep

\* The berth a step leaves a player with.
LEMMA NewBerth ==
  ASSUME event' = event, gen' = gen, NEW p \in Players,
         loc'[p] \in Vehicles => bound'[p] \in Legs /\ loc'[p] \in Cabins(Leg(bound'[p])),
         \A g \in Managers :
            /\ p \in running'[g]["takeoff"].list =>
                  /\ bound'[p] \in Legs
                  /\ Warps("takeoff")[running'[g]["takeoff"].at - 1].from = Leg(bound'[p]).door
                  /\ talk'[p].about = "boarding" =>
                        gen = IF Leg(talk'[p].leg).keeps THEN talk'[p].gen ELSE gen
            /\ p \in running'[g]["arrived"].list /\ loc'[p] \in Vehicles =>
                  Warps("arrived")[running'[g]["arrived"].at - 1].to = Leg(bound'[p]).landing
  PROVE  Berth(p)'
<1>1. Vehicles' = Vehicles /\ Legs' = Legs /\ line' = line /\ \A t : Warps(t)' = Warps(t)
  BY SameLine
<1>2. Leg(bound[p])' = Leg(bound'[p]) /\ Leg(talk[p].leg)' = Leg(talk'[p].leg)
  BY <1>1 DEF Leg
<1>3. Warps("takeoff")' = Warps("takeoff") /\ Warps("arrived")' = Warps("arrived")
  BY <1>1
<1>4. QED
  BY <1>1, <1>2, <1>3 DEF Berth, Asked, Cabins

\* A player whom no task has on its lists any more than before, and who stays where he
\* is, keeps his berth.
LEMMA SameBerth ==
  ASSUME event' = event, gen' = gen, NEW p \in Players, Berth(p),
         loc'[p] = loc[p], talk'[p] = talk[p], bound'[p] = bound[p],
         \A g \in Managers, t \in Tasks :
            p \in running'[g][t].list => /\ p \in running[g][t].list
                                         /\ running'[g][t].at = running[g][t].at
  PROVE  Berth(p)'
<1>1. /\ loc[p] \in Vehicles => bound[p] \in Legs /\ loc[p] \in Cabins(Leg(bound[p]))
      /\ \A g \in Managers :
            /\ p \in running[g]["takeoff"].list =>
                  /\ bound[p] \in Legs
                  /\ Warps("takeoff")[running[g]["takeoff"].at - 1].from = Leg(bound[p]).door
                  /\ talk[p].about = "boarding" =>
                        gen = IF Leg(talk[p].leg).keeps THEN talk[p].gen ELSE gen
            /\ p \in running[g]["arrived"].list /\ loc[p] \in Vehicles =>
                  Warps("arrived")[running[g]["arrived"].at - 1].to = Leg(bound[p]).landing
  BY DEF Berth, Asked
<1>2. "takeoff" \in Tasks /\ "arrived" \in Tasks
  BY DEF Tasks
<1>3. QED
  BY <1>1, <1>2, NewBerth

\* Nobody is to be moved by two tasks, nor by a task of a manager that is not in use; the
\* gate is shut while anybody is.
LEMMA ListedNow ==
  ASSUME IInv, Orderly, NEW g \in Managers, NEW t \in Tasks, running[g][t].list # {}
  PROVE  /\ g = gen /\ entry[gen] = "false" /\ running[g][t].at - 1 \in DOMAIN Warps(t)
         /\ t \in {"takeoff", "arrived"}
         /\ \A t2 \in Tasks : t2 # t => running[g][t2].list = {}
<1>1. /\ TasksOK /\ ListsOK /\ OnlyNow /\ Phases /\ line.rearms = "arrived" /\ ~torn
      /\ gen \in Managers
  BY DEF IInv, Base, Order, Orderly, TypeOK
<1>2. running[g][t].at # 0 /\ t \in {"takeoff", "arrived"} /\ running[g][t].at - 1 \in DOMAIN Warps(t)
  BY <1>1 DEF TasksOK, ListsOK, Tasks
<1>3. g = gen
  BY <1>1, <1>2, NowOnly
<1>4. (TakingOff /\ t = "takeoff") \/ (Landing /\ t = "arrived")
  BY <1>1, <1>2, <1>3 DEF Phases, OnGround, TakingOff, InTheAir, Landing, NoneRuns
<1>5. running[gen]["stopEntry"].list = {}
  BY <1>1 DEF TasksOK, Tasks
<1>6. /\ TakingOff => running[gen]["arrived"].list = {}
      /\ Landing => running[gen]["takeoff"].list = {}
  BY <1>1 DEF TasksOK, Tasks, TakingOff, Landing
<1>7. QED
  BY <1>2, <1>3, <1>4, <1>5, <1>6 DEF TakingOff, Landing, NoDeparture, Tasks

\* Whom a task copies it finds in the lounge of his leg or on his vehicle.
LEMMA CopyBerths ==
  ASSUME IInv, Passage, RoutesMatch(line), Orderly, \A p \in Players : Berth(p),
         NEW g \in Managers, NEW t \in Tasks, Copy(g, t), NEW p \in Players
  PROVE  Berth(p)'
<1> DEFINE at == running[g][t].at
<1>1. TypeOK /\ TasksOK /\ event \in DOMAIN Lines /\ Berth(p)
  BY DEF IInv, Base, TypeOK
<1>2. /\ at \in DOMAIN Warps(t) /\ running[g][t].list = {}
      /\ UNCHANGED <<event, gen, entry, due, torn, online, loc, talk, bound, flown>>
      /\ running' = [running EXCEPT ![g][t] =
            [at |-> at + 1, list |-> {q \in online : loc[q] = Warps(t)[at].from},
             stood |-> running[g][t].stood]]
  BY DEF Copy, travellers
<1>3. /\ running'[g][t].at = at + 1
      /\ running'[g][t].list = {q \in online : loc[q] = Warps(t)[at].from}
      /\ \A g2 \in Managers, t2 \in Tasks :
            ~(g2 = g /\ t2 = t) => running'[g2][t2] = running[g2][t2]
  BY <1>1, <1>2 DEF TypeOK
<1>4. CASE loc[p] # Warps(t)[at].from
  <2>1. \A g2 \in Managers, t2 \in Tasks :
           p \in running'[g2][t2].list => /\ p \in running[g2][t2].list
                                          /\ running'[g2][t2].at = running[g2][t2].at
    BY <1>3, <1>4
  <2>2. QED
    BY <1>1, <1>2, <2>1, SameBerth
<1>5. CASE loc[p] = Warps(t)[at].from
  <2>1. at \in Nat /\ at # 0 /\ t # "stopEntry" /\ at + 1 - 1 = at /\ loc[p] \in Sources(t)
    BY <1>1, <1>2, <1>5, WarpFacts DEF TasksOK
  <2>2. CASE t = "takeoff"
    <3>1. loc[p] \in Lounges /\ loc[p] \notin Vehicles
      BY <1>1, <2>1, <2>2, WarpFacts, LineFacts DEF Tasks
    <3>2. bound[p] \in Legs /\ loc[p] = Leg(bound[p]).door /\ talk[p].about # "boarding"
      BY <3>1 DEF Passage, Ticket
    <3>3. \A g2 \in Managers : p \in running'[g2]["takeoff"].list =>
             Warps("takeoff")[running'[g2]["takeoff"].at - 1].from = Leg(bound[p]).door
      <4>1. TAKE g2 \in Managers
      <4>2. CASE g2 = g
        BY <1>3, <1>5, <2>1, <2>2, <3>2, <4>2
      <4>3. CASE g2 # g
        BY <1>1, <1>3, <4>3 DEF Berth, Tasks
      <4>4. QED
        BY <4>2, <4>3
    <3>4. QED
      BY <1>2, <3>1, <3>2, <3>3, NewBerth
  <2>3. CASE t = "arrived"
    <3>1. loc[p] \in Vehicles
      BY <1>1, <2>1, <2>3, WarpFacts DEF Tasks
    <3>2. bound[p] \in Legs /\ loc[p] \in Cabins(Leg(bound[p]))
      BY <1>1, <3>1 DEF Berth
    <3>3. \A g2 \in Managers : p \in running'[g2]["arrived"].list =>
             Warps("arrived")[running'[g2]["arrived"].at - 1].to = Leg(bound[p]).landing
      <4>1. TAKE g2 \in Managers
      <4>2. CASE g2 = g
        <5>1. Warps("arrived")[at].to = Leg(bound[p]).landing
          BY <1>1, <1>2, <1>5, <2>3, <3>2, RouteFacts
        <5>2. QED
          BY <1>3, <2>1, <2>3, <4>2, <5>1
      <4>3. CASE g2 # g
        BY <1>1, <1>3, <3>1, <4>3 DEF Berth, Tasks
      <4>4. QED
        BY <4>2, <4>3
    <3>4. \A g2 \in Managers : running'[g2]["takeoff"] = running[g2]["takeoff"]
      BY <1>3, <2>3 DEF Tasks
    <3>5. \A g2 \in Managers : p \in running'[g2]["takeoff"].list =>
             /\ Warps("takeoff")[running'[g2]["takeoff"].at - 1].from = Leg(bound[p]).door
             /\ talk[p].about = "boarding" => Asked(p) = gen
      BY <1>1, <3>4 DEF Berth
    <3>6. QED
      BY <1>2, <3>2, <3>3, <3>5, NewBerth DEF Asked
  <2>4. QED
    BY <2>1, <2>2, <2>3 DEF Tasks
<1>6. QED
  BY <1>4, <1>5

\* Whom a departure moves comes aboard a vehicle of his leg.
LEMMA CarryBerths ==
  ASSUME IInv, RoutesMatch(line), Orderly, \A p \in Players : Berth(p),
         NEW g \in Managers, NEW t \in Tasks, NEW q \in Players, Carry(g, t, q), NEW p \in Players
  PROVE  Berth(p)'
<1> DEFINE at == running[g][t].at
           to == Warps(t)[at - 1].to
<1>1. TypeOK /\ event \in DOMAIN Lines /\ Berth(p) /\ gen \in Managers
  BY DEF IInv, Base, TypeOK
<1>2. /\ q \in running[g][t].list
      /\ UNCHANGED <<event, gen, entry, due, torn, online, talk, bound>>
      /\ loc' = [loc EXCEPT ![q] = to]
      /\ running' = [running EXCEPT ![g][t] =
            [at |-> at, list |-> running[g][t].list \ {q}, stood |-> running[g][t].stood]]
  BY DEF Carry
<1>3. \A g2 \in Managers, t2 \in Tasks : /\ running'[g2][t2].at = running[g2][t2].at
                                         /\ running'[g2][t2].list \subseteq running[g2][t2].list
  BY <1>1, <1>2 DEF TypeOK
<1>4. CASE p # q
  <2>1. loc'[p] = loc[p]
    BY <1>1, <1>2, <1>4 DEF TypeOK
  <2>2. QED
    BY <1>1, <1>2, <1>3, <2>1, SameBerth
<1>5. CASE p = q
  <2>1. loc'[p] = to /\ at - 1 \in DOMAIN Warps(t)
    BY <1>1, <1>2, <1>5, ListedNow DEF TypeOK
  <2>2. /\ g = gen /\ t \in {"takeoff", "arrived"}
        /\ \A t2 \in Tasks : t2 # t => running[g][t2].list = {}
    BY <1>2, ListedNow
  <2>3. \A g2 \in Managers : running[g2]["takeoff"].list # {} => g2 = gen
    BY ListedNow DEF Tasks
  <2>4. \A g2 \in Managers : running[g2]["arrived"].list # {} => g2 = gen
    BY ListedNow DEF Tasks
  <2>5. CASE t = "takeoff"
    <3>1. bound[p] \in Legs /\ Warps("takeoff")[at - 1].from = Leg(bound[p]).door
      BY <1>1, <1>2, <1>5, <2>5 DEF Berth
    <3>2. loc'[p] \in Cabins(Leg(bound[p]))
      BY <1>1, <2>1, <2>5, <3>1, RouteFacts
    <3>3. \A g2 \in Managers : p \notin running'[g2]["arrived"].list
      BY <1>3, <2>2, <2>4, <2>5 DEF Tasks
    <3>4. QED
      <4>1. \A g2 \in Managers : p \in running'[g2]["takeoff"].list =>
               /\ Warps("takeoff")[running'[g2]["takeoff"].at - 1].from = Leg(bound[p]).door
               /\ talk[p].about = "boarding" => Asked(p) = gen
        BY <1>1, <1>3, <3>1 DEF Berth, Tasks
      <4>2. QED
        BY <1>2, <3>1, <3>2, <3>3, <4>1, NewBerth DEF Asked
  <2>6. CASE t = "arrived"
    <3>1. to \notin Vehicles
      BY <1>1, <2>1, <2>6, WarpFacts DEF Tasks
    <3>2. \A g2 \in Managers : p \notin running'[g2]["takeoff"].list
      BY <1>3, <2>2, <2>3, <2>6 DEF Tasks
    <3>3. QED
      BY <1>2, <2>1, <3>1, <3>2, NewBerth
  <2>7. QED
    BY <2>2, <2>5, <2>6
<1>6. QED
  BY <1>4, <1>5

\* Nobody gets another berth by his own doing: he walks between deck and cabin, and
\* whoever is about to be moved finds the gate shut.
LEMMA TravelBerths ==
  ASSUME IInv, Passage, RoutesMatch(line), Orderly, \A q \in Players : Berth(q),
         NEW p \in Players, Travel(p), NEW q \in Players
  PROVE  Berth(q)'
<1>0. /\ loc[p] \in Vehicles => bound[p] \in Legs /\ loc[p] \in Cabins(Leg(bound[p]))
      /\ \A g \in Managers :
            /\ p \in running[g]["takeoff"].list =>
                  /\ bound[p] \in Legs
                  /\ Warps("takeoff")[running[g]["takeoff"].at - 1].from = Leg(bound[p]).door
                  /\ talk[p].about = "boarding" =>
                        gen = IF Leg(talk[p].leg).keeps THEN talk[p].gen ELSE gen
            /\ p \in running[g]["arrived"].list /\ loc[p] \in Vehicles =>
                  Warps("arrived")[running[g]["arrived"].at - 1].to = Leg(bound[p]).landing
  BY DEF Berth, Asked
<1>1. Base /\ TypeOK /\ TalkOK /\ event \in DOMAIN Lines /\ Berth(q) /\ gen \in Managers
  BY DEF IInv, Base, TypeOK
<1>2. /\ loc \in [Players -> Nat] /\ bound \in [Players -> {0} \cup Legs]
      /\ talk \in [Players -> [about : {"nothing", "boarding", "leaving"}, leg : {0} \cup Legs,
                               gen : {0} \cup Managers]]
      /\ Silent.about = "nothing"
  BY <1>1 DEF TypeOK, Silent
<1>3. /\ event' = event /\ gen' = gen
      /\ \A r \in Players \ {p} : loc'[r] = loc[r] /\ talk'[r] = talk[r] /\ bound'[r] = bound[r]
  BY <1>2 DEF Travel, Stroll, AskUsher, Board, AskPurser, Leave, Decline, Walk, Logout, Login
<1>4. \A g \in Managers, t \in Tasks : /\ running'[g][t].at = running[g][t].at
                                       /\ running'[g][t].list \subseteq running[g][t].list
  <2>1. CASE UNCHANGED running
    BY <2>1
  <2>2. CASE MovesAway(p)
    BY <1>1, <2>2, MovesAwayFrom
  <2>3. CASE Logout(p)
    <3>1. TAKE g \in Managers, t \in Tasks
    <3>2. running[g][t] \in [at : Nat, list : SUBSET online, stood : SUBSET online]
      BY <1>1 DEF TypeOK
    <3>3. running'[g][t] = [running[g][t] EXCEPT !.list = @ \ {p}, !.stood = @ \ {p}]
      BY <2>3 DEF Logout
    <3>4. QED
      BY <3>2, <3>3
  <2>4. QED
    BY <2>1, <2>2, <2>3 DEF Travel, Stroll, AskUsher, Board, AskPurser, Leave, Decline, Walk, Login
<1> SUFFICES ASSUME q = p PROVE Berth(p)'
  BY <1>1, <1>3, <1>4, SameBerth
<1>5. \A g \in Managers :
         /\ p \in running'[g]["takeoff"].list => p \in running[g]["takeoff"].list
         /\ p \in running'[g]["arrived"].list => p \in running[g]["arrived"].list
         /\ running'[g]["takeoff"].at = running[g]["takeoff"].at
         /\ running'[g]["arrived"].at = running[g]["arrived"].at
  BY <1>4 DEF Tasks
<1>6. CASE /\ bound'[p] = bound[p]
           /\ loc'[p] \in Vehicles => loc[p] \in Vehicles /\ loc'[p] \in Cabins(Leg(bound[p]))
           /\ talk'[p].about = "boarding" =>
                 gen = IF Leg(talk'[p].leg).keeps THEN talk'[p].gen ELSE gen
  BY <1>0, <1>3, <1>5, <1>6, NewBerth
<1>7. CASE /\ bound'[p] = bound[p] /\ talk' = talk
           /\ loc'[p] \in Vehicles => loc[p] \in Vehicles /\ loc'[p] \in Cabins(Leg(bound[p]))
  BY <1>0, <1>3, <1>5, <1>7, NewBerth
<1>8. ASSUME NEW i \in Legs, Stroll(p, i) PROVE Berth(p)'
  <2>1. loc'[p] = Leg(i).pier /\ talk' = talk /\ bound' = bound
    BY <1>2, <1>8 DEF Stroll
  <2>2. QED
    BY <1>1, <1>7, <2>1, LegFacts
<1>9. ASSUME NEW i \in Legs, AskUsher(p, i) PROVE Berth(p)'
  <2>1. /\ loc' = loc /\ bound' = bound /\ loc[p] = Leg(i).pier
        /\ talk'[p] = [about |-> "boarding", leg |-> i, gen |-> IF Leg(i).keeps THEN gen ELSE 0]
    BY <1>2, <1>9 DEF AskUsher
  <2>2. QED
    BY <1>1, <1>6, <2>1, LegFacts
<1>10. CASE Board(p)
  <2>1. talk[p].leg \in Legs /\ talk[p].about = "boarding" /\ entry[Asked(p)] = "true"
    BY <1>1, <1>10 DEF TalkOK, Board
  <2>2. loc'[p] = Leg(talk[p].leg).door
    BY <1>2, <1>10 DEF Board
  <2>3. loc'[p] \notin Vehicles
    BY <1>1, <2>1, <2>2, LegFacts
  <2>4. ASSUME NEW g \in Managers, p \in running'[g]["takeoff"].list PROVE FALSE
    <3>1. p \in running[g]["takeoff"].list
      BY <1>5, <2>4
    <3>2. Asked(p) = gen
      BY <1>0, <2>1, <3>1 DEF Asked
    <3>3. entry[gen] = "false"
      BY <3>1, ListedNow DEF Tasks
    <3>4. QED
      BY <2>1, <3>2, <3>3
  <2>5. QED
    BY <1>3, <2>3, <2>4, NewBerth
<1>11. CASE AskPurser(p) \/ Decline(p) \/ Logout(p)
  <2>1. ASSUME AskPurser(p) PROVE talk'[p].about # "boarding"
    <3>1. PICK i \in Legs : talk' = [talk EXCEPT ![p] = [about |-> "leaving", leg |-> i, gen |-> 0]]
      BY <2>1 DEF AskPurser
    <3>2. QED
      BY <1>2, <3>1
  <2>2. loc' = loc /\ bound' = bound /\ talk'[p].about # "boarding"
    BY <1>2, <1>11, <2>1 DEF AskPurser, Decline, Logout
  <2>3. QED
    BY <1>0, <1>6, <2>2
<1>12. CASE Leave(p)
  <2>1. talk[p].leg \in Legs
    BY <1>1, <1>12 DEF TalkOK, Leave
  <2>2. SentTo(Leg(talk[p].leg).purser, loc[p]) \notin Vehicles
    BY <1>1, <2>1, LegFacts DEF SentTo
  <2>3. /\ loc'[p] = SentTo(Leg(talk[p].leg).purser, loc[p]) /\ talk'[p].about # "boarding"
        /\ bound' = bound
    BY <1>2, <1>12 DEF Leave
  <2>4. QED
    BY <1>6, <2>2, <2>3
<1>13. CASE Walk(p)
  <2>1. PICK i \in Legs : loc[p] \in Cabins(Leg(i)) /\ loc'[p] \in Cabins(Leg(i))
    BY <1>2, <1>13 DEF Walk, Cabins
  <2>2. loc[p] \in Vehicles
    BY <1>1, <2>1, LegFacts DEF Cabins
  <2>3. bound[p] \in Legs /\ loc[p] \in Cabins(Leg(bound[p]))
    BY <1>0, <2>2
  <2>4. i = bound[p]
    BY <1>1, <2>1, <2>3, RouteFacts
  <2>5. bound' = bound /\ talk' = talk
    BY <1>13 DEF Walk
  <2>6. QED
    BY <1>7, <2>1, <2>2, <2>4, <2>5
<1>14. CASE Login(p)
  <2>1. /\ talk' = talk /\ bound' = bound
        /\ loc' = loc \/ (bound[p] # 0 /\ loc'[p] = Leg(bound[p]).pier)
    BY <1>2, <1>14 DEF Login
  <2>2. bound[p] # 0 => bound[p] \in Legs
    BY <1>2
  <2>3. QED
    BY <1>0, <1>1, <1>7, <2>1, <2>2, LegFacts
<1>15. QED
  BY <1>8, <1>9, <1>10, <1>11, <1>12, <1>13, <1>14 DEF Travel

\* Every step keeps the berths, while nothing tears the timetable.
LEMMA NextBerths ==
  ASSUME IInv, Passage, RoutesMatch(line), Berths, [Next]_vars
  PROVE  Berths'
<1>1. event' = event /\ line' = line /\ (torn => torn')
  <2>1. System => event' = event /\ torn' = torn
    BY DEF System, TaskStep, Elapse, StopEntry, EndTakeoff, EndArrived, Begin, Copy, Carry
  <2>2. \A q \in Players : Travel(q) => event' = event /\ torn' = torn
    BY DEF Travel, Stroll, AskUsher, Board, AskPurser, Leave, Decline, Walk, Logout, Login
  <2>3. Reload => event' = event /\ (torn => torn')
    BY DEF Reload
  <2>4. UNCHANGED vars => event' = event /\ torn' = torn
    BY DEF vars
  <2>5. event' = event /\ (torn => torn')
    BY <2>1, <2>2, <2>3, <2>4 DEF Next
  <2>6. QED
    BY <2>5, SameLine
<1> SUFFICES ASSUME Orderly', NEW p \in Players PROVE Berth(p)'
  BY DEF Berths
<1>2. /\ Orderly /\ \A q \in Players : Berth(q)
      /\ TypeOK /\ TasksOK /\ Base /\ gen \in Managers
  BY <1>1 DEF Orderly, Berths, IInv, Base, TypeOK
<1>3. CASE UNCHANGED <<gen, loc, talk, bound, running>>
  BY <1>1, <1>2, <1>3, SameBerth
<1>4. ASSUME NEW g \in Managers, NEW t \in Tasks, running' = [running EXCEPT ![g][t] = Idle],
             UNCHANGED <<gen, loc, talk, bound>>
      PROVE  Berth(p)'
  <2>1. \A g2 \in Managers, t2 \in Tasks :
           p \in running'[g2][t2].list => /\ p \in running[g2][t2].list
                                          /\ running'[g2][t2].at = running[g2][t2].at
    <3>1. /\ running'[g][t].list = {}
          /\ \A g2 \in Managers, t2 \in Tasks :
                ~(g2 = g /\ t2 = t) => running'[g2][t2] = running[g2][t2]
      <4>1. running \in [Managers -> [Tasks -> [at : Nat, list : SUBSET online, stood : SUBSET online]]]
        BY <1>2 DEF TypeOK
      <4>2. QED
        BY <1>4, <4>1 DEF Idle
    <3>2. QED
      BY <3>1
  <2>2. QED
    BY <1>1, <1>2, <1>4, <2>1, SameBerth
<1>5. CASE Elapse \/ \E g \in Managers : StopEntry(g)
  BY <1>3, <1>5 DEF Elapse, StopEntry, travellers
<1>6. ASSUME NEW g \in Managers, EndTakeoff(g) \/ EndArrived(g) PROVE Berth(p)'
  BY <1>4, <1>6 DEF EndTakeoff, EndArrived, travellers, Tasks
<1>7. ASSUME NEW g \in Managers, NEW t \in Tasks, Begin(g, t) PROVE Berth(p)'
  <2>1. /\ UNCHANGED <<gen, loc, talk, bound>>
        /\ running' = [running EXCEPT ![g][t] =
              [at |-> 1, list |-> {}, stood |-> {r \in online : loc[r] \in Sources(t)}]]
    BY <1>7 DEF Begin, travellers
  <2>2. \A g2 \in Managers, t2 \in Tasks :
           p \in running'[g2][t2].list => /\ p \in running[g2][t2].list
                                          /\ running'[g2][t2].at = running[g2][t2].at
    BY <1>2, <2>1 DEF TypeOK
  <2>3. QED
    BY <1>1, <1>2, <2>1, <2>2, SameBerth
<1>8. CASE Reload
  <2>1. /\ \A g \in Managers, t \in Tasks : ~UnderWay(g, t)
        /\ UNCHANGED <<loc, talk, bound, running>>
    BY <1>8 DEF Reload, Orderly, travellers
  <2>2. \A g \in Managers : running'[g]["takeoff"].list = {} /\ running'[g]["arrived"].list = {}
    BY <1>2, <2>1, UnderWayAt DEF TasksOK, Tasks
  <2>3. loc[p] \in Vehicles => bound[p] \in Legs /\ loc[p] \in Cabins(Leg(bound[p]))
    BY <1>2 DEF Berth
  <2>4. Vehicles' = Vehicles /\ Legs' = Legs /\ Leg(bound[p])' = Leg(bound'[p])
    BY <1>1, SameLine DEF Leg
  <2>5. QED
    BY <2>1, <2>2, <2>3, <2>4 DEF Berth, Cabins
<1>9. ASSUME NEW g \in Managers, NEW t \in Tasks, Copy(g, t) PROVE Berth(p)'
  BY <1>2, <1>9, CopyBerths
<1>10. ASSUME NEW g \in Managers, NEW t \in Tasks, NEW q \in Players, Carry(g, t, q) PROVE Berth(p)'
  BY <1>2, <1>10, CarryBerths
<1>11. ASSUME NEW q \in Players, Travel(q) PROVE Berth(p)'
  BY <1>2, <1>11, TravelBerths
<1>12. CASE UNCHANGED vars
  BY <1>3, <1>12 DEF vars
<1>13. QED
  BY <1>5, <1>6, <1>7, <1>8, <1>9, <1>10, <1>11, <1>12 DEF Next, System, TaskStep

-----------------------------------------------------------------------------
(***************************************************************************)
(* Where a passenger ends up                                               *)
(***************************************************************************)

\* At first nobody is behind a door or on board, and nobody talks.
LEMMA InitRoutes == ASSUME Init PROVE Passage /\ Berths
<1>1. event \in DOMAIN Lines
  BY DEF Init
<1>2. \A p \in Players : loc[p] \notin Doors \cup Lounges \cup Vehicles /\ talk[p].about = "nothing"
  BY <1>1, LegFacts DEF Init, Silent
<1>3. \A g \in Managers, t \in Tasks : running[g][t].list = {}
  BY DEF Init, Idle
<1>4. Passage
  BY <1>2 DEF Passage, Ticket
<1>5. \A g \in Managers : running[g]["takeoff"].list = {} /\ running[g]["arrived"].list = {}
  BY <1>3 DEF Tasks
<1>6. QED
  BY <1>2, <1>4, <1>5 DEF Berths, Berth

RouteInv == RoutesMatch(line) /\ IInv /\ Passage /\ Berths

\* Every behaviour on lines whose tables match keeps the tickets and the berths.
LEMMA RoutesKept ==
  ASSUME \A script \in DOMAIN Lines : RoutesMatch(Lines[script])
  PROVE  Spec => []RouteInv
<1>1. Init => RouteInv
  BY InitIInv, InitRoutes DEF RouteInv, Init, line
<1>2. RouteInv /\ [Next]_vars => RouteInv'
  <2> SUFFICES ASSUME RouteInv, [Next]_vars PROVE RouteInv'
    OBVIOUS
  <2>1. IInv' /\ Passage' /\ Berths'
    BY NextIInv, NextPassage, NextBerths DEF RouteInv
  <2>2. event' \in DOMAIN Lines
    BY <2>1 DEF IInv, Base, TypeOK
  <2>3. QED
    BY <2>1, <2>2 DEF RouteInv, line
<1>3. QED
  BY <1>1, <1>2, PTL DEF Spec

\* LandsWhereBound: whoever is on board when an arrival moves him lands where the usher
\* who let him in promised, however long the tasks take and whatever he does meanwhile.
THEOREM LandsWhereBoundHolds ==
  ASSUME \A script \in DOMAIN Lines : RoutesMatch(Lines[script])
  PROVE  Spec => LandsWhereBound
<1> DEFINE Lands == \A g \in Managers, p \in Players :
              Carry(g, "arrived", p) /\ loc[p] \in Vehicles /\ Orderly => loc'[p] = Leg(bound[p]).landing
<1>1. ASSUME RouteInv, NEW g \in Managers, NEW p \in Players,
             Carry(g, "arrived", p), loc[p] \in Vehicles, Orderly
      PROVE  loc'[p] = Leg(bound[p]).landing
  <2>1. Berth(p) /\ loc \in [Players -> Nat]
    BY <1>1 DEF RouteInv, Berths, IInv, Base, TypeOK
  <2>2. /\ p \in running[g]["arrived"].list
        /\ loc'[p] = Warps("arrived")[running[g]["arrived"].at - 1].to
    BY <1>1, <2>1 DEF Carry
  <2>3. QED
    BY <1>1, <2>1, <2>2 DEF Berth
<1>2. RouteInv /\ [Next]_vars => [Lands]_vars
  BY <1>1
<1>3. QED
  BY <1>2, RoutesKept, PTL DEF Spec, LandsWhereBound

\* LeavingGoesBack: the purser sends a passenger back to the pier he came from, also when
\* he answers long after he has been moved, but for the pursers who look where he is.
THEOREM LeavingGoesBackHolds ==
  ASSUME \A script \in DOMAIN Lines : RoutesMatch(Lines[script])
  PROVE  Spec => LeavingGoesBack
<1> DEFINE Back == \A p \in Players : Leave(p) /\ ~Ashore(p) =>
              \/ loc'[p] = Leg(bound[p]).pier
              \/ loc[p] \in Vehicles /\ Looks(Leg(talk[p].leg).purser)
<1>1. ASSUME RouteInv, NEW p \in Players, Leave(p), ~Ashore(p),
             ~(loc[p] \in Vehicles /\ Looks(Leg(talk[p].leg).purser))
      PROVE  loc'[p] = Leg(bound[p]).pier
  <2>1. Ticket(p) /\ TalkOK /\ loc \in [Players -> Nat] /\ event \in DOMAIN Lines /\ RoutesMatch(line)
    BY <1>1 DEF RouteInv, Passage, IInv, Base, TypeOK
  <2>2. /\ talk[p].leg = bound[p] /\ bound[p] \in Legs
        /\ loc'[p] = SentTo(Leg(bound[p]).purser, loc[p])
    BY <1>1, <2>1 DEF Leave, Ticket, TalkOK
  <2>3. CASE Looks(Leg(bound[p]).purser)
    <3>1. loc[p] \in Doors \cup Lounges
      BY <1>1, <2>2, <2>3 DEF Ashore
    <3>2. loc[p] = Leg(bound[p]).door
      BY <2>1, <3>1 DEF Ticket
    <3>3. QED
      BY <2>1, <2>2, <3>2, RouteFacts
  <2>4. CASE ~Looks(Leg(bound[p]).purser)
    BY <2>1, <2>2, <2>4, RouteFacts DEF Looks, SentTo
  <2>5. QED
    BY <2>3, <2>4
<1>2. RouteInv /\ [Next]_vars => [Back]_vars
  BY <1>1
<1>3. QED
  BY <1>2, RoutesKept, PTL DEF Spec, LeavingGoesBack

-----------------------------------------------------------------------------
(***************************************************************************)
(* The six tables                                                          *)
(***************************************************************************)

TheRides == {Boats, Trains, Cabin, Genie, Subway, AirPlane}

\* A table of two legs matches when the legs do, each with the rows that concern it.
LEMMA TwoLegs ==
  ASSUME NEW ln, NEW one, NEW two, ln.legs = <<one, two>>,
         one.door # two.door, Cabins(one) \cap Cabins(two) = {},
         RowsMatch(ln, one), RowsMatch(ln, two)
  PROVE  RoutesMatch(ln)
<1>1. DOMAIN ln.legs = {1, 2} /\ ln.legs[1] = one /\ ln.legs[2] = two
  OBVIOUS
<1>2. \A i \in DOMAIN ln.legs : ln.legs[i] \in {one, two}
  BY <1>1
<1>3. \A i, k \in DOMAIN ln.legs : k # i => /\ ln.legs[k].door # ln.legs[i].door
                                            /\ Cabins(ln.legs[k]) \cap Cabins(ln.legs[i]) = {}
  BY <1>1
<1>4. \A i \in DOMAIN ln.legs : RowsMatch(ln, ln.legs[i])
  BY <1>2
<1>5. QED
  BY <1>3, <1>4 DEF RoutesMatch

\* The tables of the six scripts match: their departures and arrivals, ushers and pursers
\* agree on every leg.
THEOREM TablesMatch == \A ln \in TheRides : RoutesMatch(ln)
<1> USE DEF Cabins, SentTo, Looks, JourneyOf, Warp, Usher, Purser, Always
<1>1. RoutesMatch(Boats)
  <2> DEFINE one == Boats.legs[1]
             two == Boats.legs[2]
  <2>1. Boats.legs = <<one, two>>
    BY SMT DEF Boats
  <2>2. one.door # two.door /\ Cabins(one) \cap Cabins(two) = {}
    BY SMT DEF Boats, ElliniaBoatUsher, OrbisBoatUsher, ElliniaBoatPurser, OrbisBoatPurser
  <2>3. RowsMatch(Boats, one)
    BY SMT DEF RowsMatch, Boats, ElliniaBoatUsher, OrbisBoatUsher, ElliniaBoatPurser, OrbisBoatPurser
  <2>4. RowsMatch(Boats, two)
    BY SMT DEF RowsMatch, Boats, ElliniaBoatUsher, OrbisBoatUsher, ElliniaBoatPurser, OrbisBoatPurser
  <2> HIDE DEF one, two, Cabins
  <2>5. QED
    BY <2>1, <2>2, <2>3, <2>4, TwoLegs, SMT
<1>2. RoutesMatch(Trains)
  <2> DEFINE one == Trains.legs[1]
             two == Trains.legs[2]
  <2>1. Trains.legs = <<one, two>>
    BY SMT DEF Trains
  <2>2. one.door # two.door /\ Cabins(one) \cap Cabins(two) = {}
    BY SMT DEF Trains, OrbisTrainUsher, LudibriumTrainUsher, TrainPurser
  <2>3. RowsMatch(Trains, one)
    BY SMT DEF RowsMatch, Trains, OrbisTrainUsher, LudibriumTrainUsher, TrainPurser
  <2>4. RowsMatch(Trains, two)
    BY SMT DEF RowsMatch, Trains, OrbisTrainUsher, LudibriumTrainUsher, TrainPurser
  <2> HIDE DEF one, two, Cabins
  <2>5. QED
    BY <2>1, <2>2, <2>3, <2>4, TwoLegs, SMT
<1>3. RoutesMatch(Cabin)
  <2> DEFINE one == Cabin.legs[1]
             two == Cabin.legs[2]
  <2>1. Cabin.legs = <<one, two>>
    BY SMT DEF Cabin
  <2>2. one.door # two.door /\ Cabins(one) \cap Cabins(two) = {}
    BY SMT DEF Cabin, OrbisFlightUsher, LeafreFlightUsher, OrbisFlightPurser, LeafreFlightPurser
  <2>3. RowsMatch(Cabin, one)
    BY SMT DEF RowsMatch, Cabin, OrbisFlightUsher, LeafreFlightUsher, OrbisFlightPurser, LeafreFlightPurser
  <2>4. RowsMatch(Cabin, two)
    BY SMT DEF RowsMatch, Cabin, OrbisFlightUsher, LeafreFlightUsher, OrbisFlightPurser, LeafreFlightPurser
  <2> HIDE DEF one, two, Cabins
  <2>5. QED
    BY <2>1, <2>2, <2>3, <2>4, TwoLegs, SMT
<1>4. RoutesMatch(Genie)
  <2> DEFINE one == Genie.legs[1]
             two == Genie.legs[2]
  <2>1. Genie.legs = <<one, two>>
    BY SMT DEF Genie
  <2>2. one.door # two.door /\ Cabins(one) \cap Cabins(two) = {}
    BY SMT DEF Genie, OrbisGenieUsher, AriantGenieUsher, OrbisGeniePurser, AriantGeniePurser
  <2>3. RowsMatch(Genie, one)
    BY SMT DEF RowsMatch, Genie, OrbisGenieUsher, AriantGenieUsher, OrbisGeniePurser, AriantGeniePurser
  <2>4. RowsMatch(Genie, two)
    BY SMT DEF RowsMatch, Genie, OrbisGenieUsher, AriantGenieUsher, OrbisGeniePurser, AriantGeniePurser
  <2> HIDE DEF one, two, Cabins
  <2>5. QED
    BY <2>1, <2>2, <2>3, <2>4, TwoLegs, SMT
<1>5. RoutesMatch(Subway)
  <2> DEFINE one == Subway.legs[1]
             two == Subway.legs[2]
  <2>1. Subway.legs = <<one, two>>
    BY SMT DEF Subway
  <2>2. one.door # two.door /\ Cabins(one) \cap Cabins(two) = {}
    BY SMT DEF Subway, KerningSubwayUsher, NewLeafSubwayUsher, SubwayPurser
  <2>3. RowsMatch(Subway, one)
    BY SMT DEF RowsMatch, Subway, KerningSubwayUsher, NewLeafSubwayUsher, SubwayPurser
  <2>4. RowsMatch(Subway, two)
    BY SMT DEF RowsMatch, Subway, KerningSubwayUsher, NewLeafSubwayUsher, SubwayPurser
  <2> HIDE DEF one, two, Cabins
  <2>5. QED
    BY <2>1, <2>2, <2>3, <2>4, TwoLegs, SMT
<1>6. RoutesMatch(AirPlane)
  <2> DEFINE one == AirPlane.legs[1]
             two == AirPlane.legs[2]
  <2>1. AirPlane.legs = <<one, two>>
    BY SMT DEF AirPlane
  <2>2. one.door # two.door /\ Cabins(one) \cap Cabins(two) = {}
    BY SMT DEF AirPlane, SingaporeUsher, KerningPlaneUsher, SingaporePurser, KerningPlanePurser
  <2>3. RowsMatch(AirPlane, one)
    BY SMT DEF RowsMatch, AirPlane, SingaporeUsher, KerningPlaneUsher, SingaporePurser, KerningPlanePurser
  <2>4. RowsMatch(AirPlane, two)
    BY SMT DEF RowsMatch, AirPlane, SingaporeUsher, KerningPlaneUsher, SingaporePurser, KerningPlanePurser
  <2> HIDE DEF one, two, Cabins
  <2>5. QED
    BY <2>1, <2>2, <2>3, <2>4, TwoLegs, SMT
<1>7. QED
  BY <1>1, <1>2, <1>3, <1>4, <1>5, <1>6 DEF TheRides

\* On the rides of the server, with any travellers and any number of reloads, passengers
\* land where they were bound and go back where they came from.
THEOREM RidesGoWhereTheySay ==
  ASSUME \A script \in DOMAIN Lines : Lines[script] \in TheRides
  PROVE  Spec => LandsWhereBound /\ LeavingGoesBack
<1>1. \A script \in DOMAIN Lines : RoutesMatch(Lines[script])
  BY TablesMatch
<1>2. QED
  BY <1>1, LandsWhereBoundHolds, LeavingGoesBackHolds
=============================================================================
