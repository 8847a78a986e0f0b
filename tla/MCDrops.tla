------------------------------ MODULE MCDrops ------------------------------
\* A monster's drops and the players around it.
EXTENDS Drops

CONSTANTS ann, bob, first, second

\* Everything was dropped for ann, who does not need the second drop's quest.
MCKiller == [d \in Drops |-> ann]
MCUnneeded == {<<ann, second>>}
=============================================================================
