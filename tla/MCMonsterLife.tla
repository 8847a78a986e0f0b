---------------------------- MODULE MCMonsterLife ----------------------------
\* Two spawn points and the monsters they make.
EXTENDS MonsterLife, TLC

CONSTANTS ann, bob, boss, heir, den, field

MCHome == [m \in Monsters |-> IF m \in {boss, heir} THEN den ELSE field]
MCSymmetry == Permutations({ann, bob})
=============================================================================
