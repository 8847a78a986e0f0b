--------------------------- MODULE TransportLines ---------------------------
(***************************************************************************)
(* The timetables, lounges, ushers and pursers of the rides, as the scripts *)
(* give them.  Maps are their numbers.                                     *)
(***************************************************************************)
EXTENDS Naturals, Sequences

\* An usher lets a player into the map "door".  One that keeps its manager fetches it
\* once, in start(); one that asks looks at the gate before it talks about boarding.
Usher(door, keeps, asks) == [door |-> door, keeps |-> keeps, asks |-> asks]

ElliniaBoatUsher == Usher(101000301, FALSE, TRUE)
OrbisBoatUsher == Usher(200000112, FALSE, TRUE)
OrbisTrainUsher == Usher(200000122, FALSE, TRUE)
LudibriumTrainUsher == Usher(220000111, FALSE, TRUE)
OrbisFlightUsher == Usher(200000132, FALSE, TRUE)
LeafreFlightUsher == Usher(240000111, FALSE, TRUE)
OrbisGenieUsher == Usher(200000152, FALSE, TRUE)
AriantGenieUsher == Usher(260000110, FALSE, TRUE)
KerningSubwayUsher == Usher(600010004, FALSE, TRUE)
NewLeafSubwayUsher == Usher(600010002, TRUE, TRUE)
SingaporeUsher == Usher(540010001, FALSE, FALSE)
KerningPlaneUsher == Usher(540010100, FALSE, FALSE)

\* A purser sends a player who is on the map "here" to "then" and any other player to
\* "other"; on the maps where it sells tickets it sends nobody away.
Purser(here, then, other, sells) == [here |-> here, then |-> then, other |-> other, sells |-> sells]
Always(to) == Purser(0, to, to, {})

ElliniaBoatPurser == Always(101000300)
OrbisBoatPurser == Always(200000111)
TrainPurser == Purser(200000122, 200000121, 220000110, {})
OrbisFlightPurser == Always(200000131)
LeafreFlightPurser == Always(240000110)
\* Mutant: the copy of the Orbis script that was never adapted.
AriantGeniePurserCopied == Always(200000151)

OrbisGeniePurser == Always(200000151)
AriantGeniePurser == Always(260000100)
SubwayPurser == Purser(600010002, 600010001, 103000100, {103000100, 600010001})
SingaporePurser == Always(540010000)
KerningPlanePurser == Always(103000000)

Warp(from, to) == [from |-> from, to |-> to]

\* A leg without a cabin has its deck twice.
JourneyOf(usher, purser, lounge, deck, cabin, pier, landing) ==
    [door |-> usher.door, keeps |-> usher.keeps, asks |-> usher.asks, purser |-> purser,
     lounge |-> lounge, deck |-> deck, cabin |-> cabin, pier |-> pier, landing |-> landing]

\* The departure from Ellinia empties 104020111; its usher fills 101000301.
Boats == [close |-> 4, begin |-> 5, ride |-> 10, align |-> 15, rearms |-> "arrived", opens |-> TRUE,
    boarding |-> <<Warp(200000112, 200090000), Warp(104020111, 200090010)>>,
    landing |-> <<Warp(200090010, 200000100), Warp(200090011, 200000100),
                  Warp(200090000, 104020110), Warp(200090001, 104020110)>>,
    legs |-> <<JourneyOf(ElliniaBoatUsher, ElliniaBoatPurser, 104020111, 200090010, 200090011, 101000300, 200000100),
               JourneyOf(OrbisBoatUsher, OrbisBoatPurser, 200000112, 200090000, 200090001, 200000111, 104020110)>>]

Trains == [close |-> 4, begin |-> 5, ride |-> 10, align |-> 10, rearms |-> "arrived", opens |-> TRUE,
    boarding |-> <<Warp(200000122, 200090100), Warp(220000111, 200090110)>>,
    landing |-> <<Warp(200090110, 200000100), Warp(200090100, 220000100)>>,
    legs |-> <<JourneyOf(OrbisTrainUsher, TrainPurser, 200000122, 200090100, 200090100, 200000121, 220000100),
               JourneyOf(LudibriumTrainUsher, TrainPurser, 220000111, 200090110, 200090110, 220000110, 200000100)>>]

Cabin == [close |-> 4, begin |-> 5, ride |-> 15, align |-> 10, rearms |-> "arrived", opens |-> TRUE,
    boarding |-> <<Warp(200000132, 200090200), Warp(240000111, 200090210)>>,
    landing |-> <<Warp(200090210, 200000100), Warp(200090200, 240000100)>>,
    legs |-> <<JourneyOf(OrbisFlightUsher, OrbisFlightPurser, 200000132, 200090200, 200090200, 200000131, 240000100),
               JourneyOf(LeafreFlightUsher, LeafreFlightPurser, 240000111, 200090210, 200090210, 240000110, 200000100)>>]

Genie == [close |-> 4, begin |-> 5, ride |-> 10, align |-> 10, rearms |-> "arrived", opens |-> TRUE,
    boarding |-> <<Warp(200000152, 200090400), Warp(260000110, 200090410)>>,
    landing |-> <<Warp(200090410, 200000100), Warp(200090400, 260000100)>>,
    legs |-> <<JourneyOf(OrbisGenieUsher, OrbisGeniePurser, 200000152, 200090400, 200090400, 200000151, 260000100),
               JourneyOf(AriantGenieUsher, AriantGeniePurser, 260000110, 200090410, 200090410, 260000100, 200000100)>>]

Subway == [close |-> 1, begin |-> 2, ride |-> 3, align |-> 5, rearms |-> "arrived", opens |-> TRUE,
    boarding |-> <<Warp(600010004, 600010005), Warp(600010002, 600010003)>>,
    landing |-> <<Warp(600010003, 103000100), Warp(600010005, 600010001)>>,
    legs |-> <<JourneyOf(KerningSubwayUsher, SubwayPurser, 600010004, 600010005, 600010005, 103000100, 600010001),
               JourneyOf(NewLeafSubwayUsher, SubwayPurser, 600010002, 600010003, 600010003, 600010001, 103000100)>>]

\* The plane sets up no property, and its next timetable starts with the departure.
AirPlane == [close |-> 4, begin |-> 5, ride |-> 5, align |-> 10, rearms |-> "takeoff", opens |-> FALSE,
    boarding |-> <<Warp(540010100, 540010101), Warp(540010001, 540010002)>>,
    landing |-> <<Warp(540010101, 540010000), Warp(540010002, 103000000)>>,
    legs |-> <<JourneyOf(KerningPlaneUsher, KerningPlanePurser, 540010100, 540010101, 540010101, 103000000, 540010000),
               JourneyOf(SingaporeUsher, SingaporePurser, 540010001, 540010002, 540010002, 540010000, 103000000)>>]
=============================================================================
