---------------------------- MODULE MCEventRooms ----------------------------
\* The rooms that differ: no timer, a timer, and several maps with a timer nobody answers.
EXTENDS EventRooms, RoomScripts

MCRooms == [EvanDoll |-> EvanDoll, DualSecret |-> DualSecret, EvanSafeBlock |-> EvanSafeBlock]
=============================================================================
