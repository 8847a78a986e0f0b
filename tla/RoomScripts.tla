----------------------------- MODULE RoomScripts -----------------------------
(***************************************************************************)
(* The rooms for one guest, as their event scripts give them: the maps a   *)
(* guest may walk on, the one he enters by, where he is sent when his stay *)
(* ends, whether playerEntry schedules "timeout", and whether the script   *)
(* has a function of that name.                                            *)
(***************************************************************************)
EXTENDS Naturals

Room(entry, others, exit, schedules, answers) ==
    [entry |-> entry, maps |-> {entry} \cup others, exit |-> exit,
     schedules |-> schedules, answers |-> answers]

EvanDoll == Room(910600000, {}, 106010102, FALSE, FALSE)
DualSecret == Room(910350100, {}, 103000003, TRUE, TRUE)
Pottery == Room(925110000, {}, 251010403, TRUE, TRUE)
EvanCave == Room(914100022, {}, 922030000, TRUE, TRUE)
EvanCaveAttack == Room(914100023, {914100021}, 914100010, TRUE, TRUE)
EvanSafe == Room(922030010, {922030011}, 220011000, TRUE, TRUE)
\* Its timer finds no function to call.
EvanSafeBlock == Room(922030020, {922030021, 922030022}, 220011000, TRUE, FALSE)
EvanRage == Room(922030001, {}, 220000300, TRUE, TRUE)
=============================================================================
