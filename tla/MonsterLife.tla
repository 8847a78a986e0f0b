---------------------------- MODULE MonsterLife ----------------------------
(***************************************************************************)
(* The monsters of one map, from spawn point to spawn point:               *)
(*                                                                         *)
(*  - players attack on event loops of their own (MapleMap.damageMonster,  *)
(*    under the monster's monsterLock, then killMonster without it);       *)
(*  - skills of monsters heal, and items catch, without any lock;          *)
(*  - the channel's update thread poisons, again without the lock, and     *)
(*    respawns (MapleMap.update).                                          *)
(*                                                                         *)
(* A step is what a thread does up to its next access of hp, of a counter  *)
(* or of the map's objects.  A monster is an object of the program; one    *)
(* that has left the map and that no thread works on stands for a new one. *)
(*                                                                         *)
(* Left out: bosses made of several monsters, monsters on a timer, event   *)
(* instances, the kill of a whole map, mp, what the killer is given (kills *)
(* counts how often he is), and maps without players.                      *)
(***************************************************************************)
EXTENDS Integers, FiniteSets

CONSTANTS
    Players, Updater,
    Monsters,     \* bound: as many objects exist at a time
    Points,       \* monsterSpawn
    Home,         \* monster -> the spawn point that makes it
    Timed,        \* points with a mobTime
    Immobile,     \* points whose monster does not move
    PointCap,     \* the cap of the other points (2)
    MaxHp,
    Damages,      \* what one attack may do
    PoisonDamage,
    Poisoned,     \* monsters that can be poisoned
    HealHp,
    Healed,       \* monsters that a skill can heal
    Bursting,     \* monsters with a selfDestruction hp
    BurstHp,
    Catchable,    \* monsters that an item can catch
    MaxDrift,     \* bound: how far counters and hp go below zero
    Nobody

Workers == Players \cup {Updater}
Singles == Timed \cup Immobile

\* Monsters that nothing but players' attacks brings down.
Ordinary == Monsters \ (Poisoned \cup Healed \cup Bursting \cup Catchable)

ASSUME ConstantsAssumption ==
    /\ Home \in [Monsters -> Points] /\ Singles \subseteq Points
    /\ IsFiniteSet(Monsters) /\ IsFiniteSet(Points)
    /\ MaxHp \in Nat \ {0} /\ BurstHp \in 1 .. MaxHp
    /\ Damages \subseteq Nat \ {0} /\ PoisonDamage \in Nat \ {0} /\ HealHp \in Nat
    /\ PointCap \in Nat /\ MaxDrift \in Nat
    /\ Updater \notin Players /\ Nobody \notin Workers \cup Monsters

\* A spawn point makes monsters of one kind (SpawnPoint.monster is the id of them all).
ASSUME KindsAssumption ==
    \A m, n \in Monsters : Home[m] = Home[n] => (m \in Ordinary <=> n \in Ordinary)

VARIABLES
    onMap,   \* the monsters among mapobjects
    hp,      \* MapleMonster.hp
    lock,    \* monsterLock
    at, mob, \* each thread: what it does next and to which monster
    amount,  \* its damage or rDamage
    seen,    \* the hp it has read and is about to replace
    count,   \* spawnedMonstersOnMap
    spawned, \* point -> SpawnPoint.spawnedMonsters
    ready,   \* point -> nextPossibleSpawn has come
    todo,    \* what the update thread has still to visit
    want,    \* numShouldSpawn - spawned
    kills    \* history: how often killBy ran for this monster

threads == <<at, mob, amount, seen>>
respawning == <<spawned, ready, todo, want>>
vars == <<onMap, hp, lock, threads, count, respawning, kills>>

Goto(w, step) ==
    /\ at' = [at EXCEPT ![w] = step]
    /\ UNCHANGED mob

\* The work on a monster is done.
Return(w, step) ==
    /\ at' = [at EXCEPT ![w] = step]
    /\ mob' = [mob EXCEPT ![w] = Nobody]

\* A thread turns to a monster.
Take(w, m, step) ==
    /\ at' = [at EXCEPT ![w] = step]
    /\ mob' = [mob EXCEPT ![w] = m]

Smaller(a, b) == IF a < b THEN a ELSE b
Clamped(n) == IF n < 0 THEN 0 ELSE n

\* Bound: past it no thread begins to heal or poison.  (No ordinary monster comes there.)
Shallow(m) == hp[m] >= 0 - MaxDrift /\ \A w \in Workers : seen[w] >= 0 - MaxDrift

-----------------------------------------------------------------------------
(* MapleMap.damageMonster                                                   *)

\* The handler has found the monster on the map; isAlive is asked.
Attack(p, m, damage) ==
    /\ at[p] = "idle" /\ m \in onMap /\ hp[m] > 0
    /\ Take(p, m, "lock")
    /\ amount' = [amount EXCEPT ![p] = damage]
    /\ UNCHANGED <<onMap, hp, lock, seen, count, respawning, kills>>

\* Mutant: isAlive is not asked again under the lock.
LockUnchecked(p) ==
    /\ at[p] = "lock" /\ lock[mob[p]] = Nobody
    /\ lock' = [lock EXCEPT ![mob[p]] = p] /\ Goto(p, "damage")
    /\ UNCHANGED <<onMap, hp, amount, seen, count, respawning, kills>>

\* monsterLock.lock(), and isAlive asked again.
Lock(p) ==
    /\ at[p] = "lock" /\ lock[mob[p]] = Nobody
    /\ IF hp[mob[p]] > 0
       THEN lock' = [lock EXCEPT ![mob[p]] = p] /\ Goto(p, "damage") /\ UNCHANGED amount
       ELSE /\ Return(p, "idle") /\ amount' = [amount EXCEPT ![p] = 0]
            /\ UNCHANGED lock
    /\ UNCHANGED <<onMap, hp, seen, count, respawning, kills>>

\* MapleMonster.damage: rDamage, then hp -= rDamage, a read and a write.
Damage(w) ==
    /\ at[w] = "damage"
    /\ amount' = [amount EXCEPT ![w] = Clamped(Smaller(@, hp[mob[w]]))]
    /\ Goto(w, "load")
    /\ UNCHANGED <<onMap, hp, lock, seen, count, respawning, kills>>

LoadHp(w) ==
    /\ at[w] = "load"
    /\ seen' = [seen EXCEPT ![w] = hp[mob[w]]]
    /\ Goto(w, "store")
    /\ UNCHANGED <<onMap, hp, lock, amount, count, respawning, kills>>

StoreHp(w) ==
    /\ at[w] = "store"
    /\ hp' = [hp EXCEPT ![mob[w]] = seen[w] - amount[w]]
    /\ IF w = Updater THEN Return(w, "scan") ELSE Goto(w, "unlock")
    /\ amount' = [amount EXCEPT ![w] = 0]
    /\ seen' = [seen EXCEPT ![w] = 0]
    /\ UNCHANGED <<onMap, lock, count, respawning, kills>>

\* Mutant: a monster at hp 0 is not yet dead.
UnlockBelowZero(p) ==
    /\ at[p] = "unlock"
    /\ lock' = [lock EXCEPT ![mob[p]] = Nobody]
    /\ \/ hp[mob[p]] < 0 /\ Goto(p, "killBy")
       \/ ~ hp[mob[p]] < 0 /\ mob[p] \in Bursting /\ Goto(p, "burst")
       \/ ~ hp[mob[p]] < 0 /\ mob[p] \notin Bursting /\ Return(p, "idle")
    /\ UNCHANGED <<onMap, hp, amount, seen, count, respawning, kills>>

\* killed is decided under the lock; the kill comes after it.
Unlock(p) ==
    /\ at[p] = "unlock"
    /\ lock' = [lock EXCEPT ![mob[p]] = Nobody]
    /\ \/ hp[mob[p]] <= 0 /\ Goto(p, "killBy")
       \/ ~ hp[mob[p]] <= 0 /\ mob[p] \in Bursting /\ Goto(p, "burst")
       \/ ~ hp[mob[p]] <= 0 /\ mob[p] \notin Bursting /\ Return(p, "idle")
    /\ UNCHANGED <<onMap, hp, amount, seen, count, respawning, kills>>

\* selfDestruction, without the lock.
Burst(p) ==
    /\ at[p] = "burst"
    /\ IF hp[mob[p]] <= BurstHp THEN Goto(p, "killBy") ELSE Return(p, "idle")
    /\ UNCHANGED <<onMap, hp, lock, amount, seen, count, respawning, kills>>

-----------------------------------------------------------------------------
(* MapleMap.killMonster                                                     *)

\* Mutant: the spawn point's listener is not called.
KillByUnheard(p) ==
    /\ at[p] = "killBy"
    /\ kills' = [kills EXCEPT ![mob[p]] = @ + 1]
    /\ Goto(p, "uncount")
    /\ UNCHANGED <<onMap, hp, lock, amount, seen, count, respawning>>

\* killBy shares out the experience and calls the spawn point's listener.
KillBy(p) ==
    /\ at[p] = "killBy"
    /\ LET s == Home[mob[p]]
       IN  /\ spawned' = [spawned EXCEPT ![s] = @ - 1]
           /\ ready' = [ready EXCEPT ![s] = FALSE]
    /\ kills' = [kills EXCEPT ![mob[p]] = @ + 1]
    /\ Goto(p, "uncount")
    /\ UNCHANGED <<onMap, hp, lock, amount, seen, count, todo, want>>

\* Mutant: the counter is left alone.
UncountForgotten(p) ==
    /\ at[p] = "uncount"
    /\ Goto(p, "zero")
    /\ UNCHANGED <<onMap, hp, lock, amount, seen, count, respawning, kills>>

Uncount(p) ==
    /\ at[p] = "uncount"
    /\ count' = count - 1
    /\ Goto(p, "zero")
    /\ UNCHANGED <<onMap, hp, lock, amount, seen, respawning, kills>>

\* setHp(0)
ZeroHp(p) ==
    /\ at[p] = "zero"
    /\ hp' = [hp EXCEPT ![mob[p]] = 0]
    /\ Goto(p, "remove")
    /\ UNCHANGED <<onMap, lock, amount, seen, count, respawning, kills>>

\* removeMapObject; what is dropped then is Drops' business.
Remove(p) ==
    /\ at[p] = "remove"
    /\ onMap' = onMap \ {mob[p]}
    /\ Return(p, "idle")
    /\ UNCHANGED <<hp, lock, amount, seen, count, respawning, kills>>

\* UseCatchItemHandler: killMonster for no player, from whatever hp allows it.
\* killBy is skipped: the spawn point never hears of it.
Catch(p, m) ==
    /\ at[p] = "idle" /\ m \in onMap \cap Catchable
    /\ Take(p, m, "uncount")
    /\ UNCHANGED <<onMap, hp, lock, amount, seen, count, respawning, kills>>

-----------------------------------------------------------------------------
(* MapleMonster.heal, by a skill that a player's client announces           *)

Heal(p, m) ==
    /\ at[p] = "idle" /\ m \in onMap \cap Healed /\ Shallow(m)
    /\ Take(p, m, "heal")
    /\ seen' = [seen EXCEPT ![p] = hp[m]]
    /\ UNCHANGED <<onMap, hp, lock, amount, count, respawning, kills>>

HealStore(p) ==
    /\ at[p] = "heal"
    /\ hp' = [hp EXCEPT ![mob[p]] = Smaller(seen[p] + HealHp, MaxHp)]
    /\ Return(p, "idle")
    /\ seen' = [seen EXCEPT ![p] = 0]
    /\ UNCHANGED <<onMap, lock, amount, count, respawning, kills>>

-----------------------------------------------------------------------------
(* The update thread                                                        *)

\* MapleMap.update goes through the objects, weakly consistent.
ScanStart ==
    /\ at[Updater] = "idle"
    /\ todo' = onMap /\ Goto(Updater, "scan")
    /\ UNCHANGED <<onMap, hp, lock, amount, seen, count, spawned, ready, want, kills>>

\* MapleMonster.update: poison leaves one hp of what it reads (three reads of hp
\* are one here), but takes it away in MapleMonster.damage, which reads again.
ScanVisit(m) ==
    /\ at[Updater] = "scan" /\ m \in todo
    /\ todo' = todo \ {m}
    /\ \/ UNCHANGED threads
       \/ /\ m \in Poisoned /\ hp[m] > 1 /\ Shallow(m)
          /\ Take(Updater, m, "damage")
          /\ amount' = [amount EXCEPT ![Updater] = Smaller(PoisonDamage, hp[m] - 1)]
          /\ UNCHANGED seen
    /\ UNCHANGED <<onMap, hp, lock, count, spawned, ready, want, kills>>

\* The scan has come to a drop whose time is over and that somebody has marked
\* (Drops): update returns, and neither the rest of the scan nor respawn follows.
\* It may do so at every update, as long as that drop lies there.
ScanReturns ==
    /\ at[Updater] = "scan"
    /\ todo' = {} /\ Goto(Updater, "idle")
    /\ UNCHANGED <<onMap, hp, lock, amount, seen, count, spawned, ready, want, kills>>

\* The ten seconds since the last respawn are not over.
RespawnLater ==
    /\ at[Updater] = "scan" /\ todo = {}
    /\ Goto(Updater, "idle")
    /\ UNCHANGED <<onMap, hp, lock, amount, seen, count, respawning, kills>>

\* respawn: as many as there are points, less what is counted on the map.
RespawnStart ==
    /\ at[Updater] = "scan" /\ todo = {}
    /\ want' = Cardinality(Points) - count
    /\ todo' = IF want' > 0 THEN Points ELSE {}
    /\ Goto(Updater, "respawn")
    /\ UNCHANGED <<onMap, hp, lock, amount, seen, count, spawned, ready, kills>>

\* Mutant: a point with a mobTime forgets its monster.
ShouldSpawnAgain(s) == ready[s] /\ spawned[s] <= PointCap

ShouldSpawn(s) == ready[s] /\ spawned[s] <= IF s \in Singles THEN 0 ELSE PointCap

\* Bound: past it only ordinary monsters appear.
Drifts == count >= 0 - MaxDrift /\ \A s \in Points : spawned[s] >= 0 - MaxDrift

\* The objects that a new monster may be: nothing knows of them.
Fresh(s) == {m \in Monsters :
    /\ Home[m] = s /\ m \notin onMap /\ \A w \in Workers : mob[w] # m
    /\ m \in Ordinary \/ Drifts}

\* shouldSpawn, getMonster and the first half of spawnMonster.
RespawnVisit(s) ==
    /\ at[Updater] = "respawn" /\ s \in todo /\ want > 0
    /\ todo' = todo \ {s}
    /\ IF ShouldSpawn(s) /\ Fresh(s) # {}
       THEN \E m \in Fresh(s) :
            /\ spawned' = [spawned EXCEPT ![s] = @ + 1]
            /\ ready' = [ready EXCEPT ![s] = s \in Timed]
            /\ onMap' = onMap \cup {m}
            /\ hp' = [hp EXCEPT ![m] = MaxHp]
            /\ kills' = [kills EXCEPT ![m] = 0]
            /\ Goto(Updater, "count")
       ELSE UNCHANGED <<spawned, ready, onMap, hp, kills, at, mob>>
    /\ UNCHANGED <<lock, amount, seen, count, want>>

\* spawnedMonstersOnMap.incrementAndGet(), when everybody can see the monster.
RespawnCount ==
    /\ at[Updater] = "count"
    /\ count' = count + 1 /\ want' = want - 1
    /\ Goto(Updater, "respawn")
    /\ UNCHANGED <<onMap, hp, lock, amount, seen, spawned, ready, todo, kills>>

RespawnEnd ==
    /\ at[Updater] = "respawn" /\ (todo = {} \/ want <= 0)
    /\ todo' = {} /\ Goto(Updater, "idle")
    /\ UNCHANGED <<onMap, hp, lock, amount, seen, count, spawned, ready, want, kills>>

TimePasses(s) ==
    /\ ~ ready[s] /\ ready' = [ready EXCEPT ![s] = TRUE]
    /\ UNCHANGED <<onMap, hp, lock, threads, count, spawned, todo, want, kills>>

-----------------------------------------------------------------------------
\* The map has just been loaded.
Init ==
    /\ onMap = {} /\ hp = [m \in Monsters |-> 0]
    /\ lock = [m \in Monsters |-> Nobody]
    /\ at = [w \in Workers |-> "idle"] /\ mob = [w \in Workers |-> Nobody]
    /\ amount = [w \in Workers |-> 0] /\ seen = [w \in Workers |-> 0]
    /\ count = 0
    /\ spawned = [s \in Points |-> 0] /\ ready = [s \in Points |-> TRUE]
    /\ todo = {} /\ want = 0
    /\ kills = [m \in Monsters |-> 0]

\* What an event loop does once it has begun.
Goes(p) ==
    \/ Lock(p) \/ Damage(p) \/ LoadHp(p) \/ StoreHp(p) \/ Unlock(p) \/ Burst(p)
    \/ KillBy(p) \/ Uncount(p) \/ ZeroHp(p) \/ Remove(p) \/ HealStore(p)

Updates ==
    \/ ScanStart \/ (\E m \in Monsters : ScanVisit(m))
    \/ Damage(Updater) \/ LoadHp(Updater) \/ StoreHp(Updater)
    \/ ScanReturns \/ RespawnLater \/ RespawnStart \/ (\E s \in Points : RespawnVisit(s)) \/ RespawnCount \/ RespawnEnd

Next ==
    \/ \E p \in Players, m \in Monsters :
          (\E d \in Damages : Attack(p, m, d)) \/ Heal(p, m) \/ Catch(p, m)
    \/ \E p \in Players : Goes(p)
    \/ Updates
    \/ \E s \in Points : TimePasses(s)

\* Threads that have begun go on; the update thread runs every 100 ms; mobTimes
\* end.  monsterLock may be unfair, and no update need come as far as respawn.
Fairness ==
    /\ \A p \in Players : WF_vars(Goes(p))
    /\ WF_vars(Updates)
    /\ \A s \in Points : WF_vars(TimePasses(s))

Spec == Init /\ [][Next]_vars
FairSpec == Spec /\ Fairness

-----------------------------------------------------------------------------
Steps == {"idle", "lock", "damage", "load", "store", "unlock", "burst", "killBy", "uncount",
          "zero", "remove", "heal", "scan", "respawn", "count"}

TypeOK ==
    /\ onMap \subseteq Monsters
    /\ hp \in [Monsters -> Int] /\ \A m \in Monsters : hp[m] <= MaxHp
    /\ lock \in [Monsters -> Players \cup {Nobody}]
    /\ at \in [Workers -> Steps] /\ mob \in [Workers -> Monsters \cup {Nobody}]
    /\ amount \in [Workers -> Nat] /\ seen \in [Workers -> Int]
    /\ count \in Int /\ want \in Int
    /\ spawned \in [Points -> Int] /\ ready \in [Points -> BOOLEAN]
    /\ todo \subseteq Monsters \cup Points
    /\ kills \in [Monsters -> Nat]

\* Whoever brings a monster down, and nobody else, kills it, though the kill
\* comes after the lock: it is shared out and dropped once.  (Of the monsters
\* that are not ordinary this is false.)
KilledOnce == \A m \in Ordinary : kills[m] <= 1

\* The counter that respawn goes by never exceeds the monsters on the map, even
\* where monsters are killed twice or caught: no map stays empty because of
\* monsters that are counted and not there.
NeverOvercounted == count <= Cardinality(onMap)

\* A point with a mobTime, or of an immobile monster, has one monster at a time
\* that is alive, whatever else is dying.
SinglesAlone == \A s \in Singles :
    Cardinality({m \in onMap \cap Ordinary : Home[m] = s /\ hp[m] > 0}) <= 1

\* An ordinary monster that was brought down leaves the map.
CorpseLeaves == \A m \in Ordinary : m \in onMap /\ hp[m] <= 0 ~> m \notin onMap

\* While there are players on it a map does not stay empty, if its updates come as
\* far as respawn again and again (ScanReturns may keep them from it for ever):
\* no counter of a spawn point or of the map, however its kills interleaved with
\* respawn, forbids for ever to put a monster there.
Refilled == []<><<RespawnStart>>_vars => (onMap = {} ~> onMap # {})
=============================================================================
