------------------------- MODULE MonsterLife_proofs -------------------------
(***************************************************************************)
(* For every set of players, monsters and spawn points an ordinary monster *)
(* is killed at most once.  The kill is decided under monsterLock and done *)
(* after it, so the argument is about claims: whoever has seen a monster   *)
(* at hp 0 under the lock has the only claim to it, nobody has been paid   *)
(* for it yet, and its hp never rises again to let another one in.         *)
(***************************************************************************)
EXTENDS MonsterLife, FiniteSetTheorems, TLAPS

Hitting == {"damage", "load", "store"}
Locked == Hitting \cup {"unlock"}
Killing == {"killBy", "uncount", "zero", "remove"}

\* Players work on monsters, with the lock where they should have it, and only
\* monsters that are not ordinary burst, are healed or are poisoned.
Working ==
    /\ \A p \in Players :
        /\ at[p] \in {"idle", "lock", "burst", "heal"} \cup Locked \cup Killing
        /\ at[p] # "idle" => mob[p] \in Monsters
        /\ at[p] \in Locked => lock[mob[p]] = p
        /\ at[p] \in {"burst", "heal"} => mob[p] \notin Ordinary
    /\ at[Updater] \in Hitting => mob[Updater] \in Monsters \ Ordinary
    /\ at[Updater] \in {"idle", "scan", "respawn", "count"} \cup Hitting

\* Nobody has seen more hp than a monster can have.
SeenBounded == \A w \in Workers : seen[w] <= MaxHp

\* A monster lives while it is hit and is dead while it is killed.
HitAlive == \A p \in Players :
    at[p] \in Hitting /\ mob[p] \in Ordinary => hp[mob[p]] > 0
KilledDead == \A p \in Players :
    at[p] \in Killing /\ mob[p] \in Ordinary => hp[mob[p]] <= 0

\* p will kill the monster he works on.
Claims(p) ==
    /\ mob[p] \in Ordinary
    /\ at[p] = "killBy" \/ (at[p] = "unlock" /\ hp[mob[p]] <= 0)

OneClaim == \A p, q \in Players : Claims(p) /\ Claims(q) /\ mob[p] = mob[q] => p = q
Unpaid == \A p \in Players : Claims(p) => kills[mob[p]] = 0
AliveUnpaid == \A m \in Ordinary : hp[m] > 0 => kills[m] = 0

IInv ==
    /\ TypeOK /\ Working /\ SeenBounded
    /\ HitAlive /\ KilledDead /\ OneClaim /\ Unpaid /\ AliveUnpaid /\ KilledOnce

-----------------------------------------------------------------------------
\* The update thread is no player, and nobody is not a thread.
LEMMA Threads ==
  /\ Workers = Players \cup {Updater} /\ Updater \notin Players
  /\ Nobody \notin Players /\ Nobody # Updater /\ Nobody \notin Monsters
BY ConstantsAssumption DEF Workers

\* The numbers among the constants.
LEMMA Numbers ==
  /\ MaxHp \in Nat /\ MaxHp > 0 /\ HealHp \in Nat /\ PoisonDamage \in Nat
  /\ \A d \in Damages : d \in Nat
BY ConstantsAssumption

\* Damage is a number, whatever the hp.
LEMMA DamageIsNat == \A a, b \in Int : Clamped(Smaller(a, b)) \in Nat
BY DEF Clamped, Smaller

LEMMA OrdinaryMonsters == Ordinary \subseteq Monsters
BY DEF Ordinary

\* The initial states satisfy the invariant.
LEMMA InitInv == Init => IInv
<1> SUFFICES ASSUME Init PROVE IInv
  OBVIOUS
<1> USE Threads, Numbers, OrdinaryMonsters DEF Init
<1>1. TypeOK
  BY DEF TypeOK, Steps
<1>2. Working /\ SeenBounded
  BY DEF Working, SeenBounded, Hitting, Locked, Killing
<1>3. HitAlive /\ KilledDead /\ OneClaim /\ Unpaid /\ AliveUnpaid /\ KilledOnce
  BY DEF HitAlive, KilledDead, OneClaim, Unpaid, AliveUnpaid, KilledOnce, Claims, Hitting, Killing
<1> QED
  BY <1>1, <1>2, <1>3 DEF IInv

\* The part of the invariant that is about the deaths of ordinary monsters.
Deaths == HitAlive /\ KilledDead /\ OneClaim /\ Unpaid /\ AliveUnpaid /\ KilledOnce

\* A step that leaves ordinary monsters' hp and kills alone, and after which no
\* player hits, kills or claims what he did not before, disturbs no death.
LEMMA Undisturbed ==
  ASSUME IInv, kills' = kills, \A m \in Ordinary : hp'[m] = hp[m],
         \A p \in Players :
            \/ at'[p] = at[p] /\ mob'[p] = mob[p]
            \/ at'[p] \notin Locked \cup Killing
            \/ mob'[p] \notin Ordinary
            \/ mob'[p] = mob[p] /\ at[p] \in Hitting /\ at'[p] \in Hitting
            \/ mob'[p] = mob[p] /\ at[p] \in Killing /\ at'[p] \in Killing \ {"killBy"}
  PROVE  Deaths'
<1>1. \A p \in Players : Claims(p)' => Claims(p) /\ mob'[p] = mob[p]
  BY DEF Claims, Locked, Hitting, Killing
<1>2. HitAlive' /\ KilledDead'
  BY DEF IInv, HitAlive, KilledDead, Locked, Hitting, Killing
<1>3. OneClaim' /\ Unpaid'
  BY <1>1 DEF IInv, OneClaim, Unpaid
<1>4. AliveUnpaid' /\ KilledOnce'
  BY DEF IInv, AliveUnpaid, KilledOnce
<1> QED
  BY <1>2, <1>3, <1>4 DEF Deaths

LEMMA AttackStep ==
  ASSUME IInv, NEW p \in Players, NEW m \in Monsters, NEW d \in Damages, Attack(p, m, d)
  PROVE  IInv'
<1> USE Threads
<1>1. /\ at' = [at EXCEPT ![p] = "lock"] /\ mob' = [mob EXCEPT ![p] = m]
      /\ amount' = [amount EXCEPT ![p] = d]
      /\ UNCHANGED <<onMap, hp, lock, seen, count, respawning, kills>>
  BY DEF Attack, Take
<1>2. TypeOK'
  BY <1>1, Numbers DEF IInv, TypeOK, Steps, respawning
<1>3. Working' /\ SeenBounded'
  BY <1>1 DEF IInv, TypeOK, Working, SeenBounded, Hitting, Locked, Killing
<1>4. Deaths'
  BY <1>1, Undisturbed DEF IInv, TypeOK, Locked, Hitting, Killing
<1> QED
  BY <1>2, <1>3, <1>4 DEF IInv, Deaths

\* The lock is taken only of a monster that is alive.
LEMMA LockStep ==
  ASSUME IInv, NEW p \in Players, Lock(p)
  PROVE  IInv'
<1> USE Threads
<1> DEFINE m == mob[p]
<1>1. at[p] = "lock" /\ m \in Monsters /\ lock[m] = Nobody
  BY DEF IInv, Working, Lock
<1>2. CASE hp[m] > 0
  <2>1. /\ lock' = [lock EXCEPT ![m] = p] /\ at' = [at EXCEPT ![p] = "damage"]
        /\ UNCHANGED <<mob, amount, onMap, hp, seen, count, respawning, kills>>
    BY <1>2 DEF Lock, Goto
  <2>2. TypeOK'
    BY <1>1, <2>1 DEF IInv, TypeOK, Steps, respawning
  <2>3. Working' /\ SeenBounded'
    BY <1>1, <2>1 DEF IInv, TypeOK, Working, SeenBounded, Hitting, Locked, Killing
  <2>4. Deaths'
    BY <1>1, <1>2, <2>1 DEF IInv, TypeOK, Deaths, HitAlive, KilledDead, OneClaim, Unpaid,
       AliveUnpaid, KilledOnce, Claims, Hitting, Killing
  <2> QED
    BY <2>2, <2>3, <2>4 DEF IInv, Deaths
<1>3. CASE ~ hp[m] > 0
  <2>1. /\ at' = [at EXCEPT ![p] = "idle"] /\ mob' = [mob EXCEPT ![p] = Nobody]
        /\ amount' = [amount EXCEPT ![p] = 0]
        /\ UNCHANGED <<lock, onMap, hp, seen, count, respawning, kills>>
    BY <1>3 DEF Lock, Return
  <2>2. TypeOK'
    BY <1>1, <2>1 DEF IInv, TypeOK, Steps, respawning
  <2>3. Working' /\ SeenBounded'
    BY <1>1, <2>1 DEF IInv, TypeOK, Working, SeenBounded, Hitting, Locked, Killing
  <2>4. Deaths'
    BY <2>1, Undisturbed DEF IInv, TypeOK, Locked, Hitting, Killing
  <2> QED
    BY <2>2, <2>3, <2>4 DEF IInv, Deaths
<1> QED
  BY <1>2, <1>3

\* What a thread does to a monster it hits, of a type that both kinds share.
LEMMA Hit ==
  ASSUME IInv, NEW w \in Workers, at[w] \in Hitting
  PROVE  mob[w] \in Monsters /\ (w = Updater => mob[w] \notin Ordinary)
BY Threads DEF IInv, Working, Hitting

LEMMA DamageStep ==
  ASSUME IInv, NEW w \in Workers, Damage(w)
  PROVE  IInv'
<1> USE Threads
<1>1. at[w] = "damage" /\ mob[w] \in Monsters /\ (w = Updater => mob[w] \notin Ordinary)
  BY Hit DEF Damage, Hitting
<1>2. /\ amount' = [amount EXCEPT ![w] = Clamped(Smaller(amount[w], hp[mob[w]]))]
      /\ at' = [at EXCEPT ![w] = "load"]
      /\ UNCHANGED <<mob, onMap, hp, lock, seen, count, respawning, kills>>
  BY DEF Damage, Goto
<1>3. TypeOK'
  <2>1. amount[w] \in Int /\ hp[mob[w]] \in Int
    BY <1>1 DEF IInv, TypeOK
  <2>2. Clamped(Smaller(amount[w], hp[mob[w]])) \in Nat
    BY <2>1, DamageIsNat
  <2> QED
    BY <1>1, <1>2, <2>2 DEF IInv, TypeOK, Steps, respawning
<1>4. Working' /\ SeenBounded'
  BY <1>1, <1>2 DEF IInv, TypeOK, Working, SeenBounded, Hitting, Locked, Killing
<1>5. Deaths'
  BY <1>1, <1>2, Undisturbed DEF IInv, TypeOK, Locked, Hitting, Killing
<1> QED
  BY <1>3, <1>4, <1>5 DEF IInv, Deaths

LEMMA LoadHpStep ==
  ASSUME IInv, NEW w \in Workers, LoadHp(w)
  PROVE  IInv'
<1> USE Threads
<1>1. at[w] = "load" /\ mob[w] \in Monsters /\ (w = Updater => mob[w] \notin Ordinary)
  BY Hit DEF LoadHp, Hitting
<1>2. /\ seen' = [seen EXCEPT ![w] = hp[mob[w]]]
      /\ at' = [at EXCEPT ![w] = "store"]
      /\ UNCHANGED <<mob, onMap, hp, lock, amount, count, respawning, kills>>
  BY DEF LoadHp, Goto
<1>3. TypeOK'
  BY <1>1, <1>2 DEF IInv, TypeOK, Steps, respawning
<1>4. Working' /\ SeenBounded'
  BY <1>1, <1>2 DEF IInv, TypeOK, Working, SeenBounded, Hitting, Locked, Killing
<1>5. Deaths'
  BY <1>1, <1>2, Undisturbed DEF IInv, TypeOK, Locked, Hitting, Killing
<1> QED
  BY <1>3, <1>4, <1>5 DEF IInv, Deaths

\* A hit may bring an ordinary monster down: it was alive, so nobody was paid for
\* it, nobody claims it, and whoever else hits it would hold the same lock.
LEMMA StoreHpStep ==
  ASSUME IInv, NEW w \in Workers, StoreHp(w)
  PROVE  IInv'
<1> USE Threads
<1> DEFINE m == mob[w]
           left == seen[w] - amount[w]
<1>1. at[w] = "store" /\ m \in Monsters /\ (w = Updater => m \notin Ordinary)
  BY Hit DEF StoreHp, Hitting
<1>2. /\ hp' = [hp EXCEPT ![m] = left]
      /\ amount' = [amount EXCEPT ![w] = 0] /\ seen' = [seen EXCEPT ![w] = 0]
      /\ UNCHANGED <<onMap, lock, count, respawning, kills>>
  BY DEF StoreHp
<1>3. left \in Int /\ left <= MaxHp
  BY Numbers DEF IInv, TypeOK, SeenBounded
<1>4. CASE w = Updater
  <2>1. at' = [at EXCEPT ![w] = "scan"] /\ mob' = [mob EXCEPT ![w] = Nobody]
    BY <1>4 DEF StoreHp, Return
  <2>2. TypeOK'
    BY <1>1, <1>2, <1>3, <2>1 DEF IInv, TypeOK, Steps, respawning
  <2>3. Working' /\ SeenBounded'
    BY <1>1, <1>2, <1>4, <2>1, Numbers DEF IInv, TypeOK, Working, SeenBounded, Hitting, Locked, Killing
  <2>4. Deaths'
    BY <1>1, <1>2, <1>4, <2>1, OrdinaryMonsters, Undisturbed DEF IInv, TypeOK
  <2> QED
    BY <2>2, <2>3, <2>4 DEF IInv, Deaths
<1>5. CASE w \in Players
  <2>1. at' = [at EXCEPT ![w] = "unlock"] /\ mob' = mob
    BY <1>5 DEF StoreHp, Goto
  <2>2. TypeOK'
    BY <1>1, <1>2, <1>3, <2>1 DEF IInv, TypeOK, Steps, respawning
  <2>3. Working' /\ SeenBounded'
    <3>1. Working'
      BY <1>1, <1>2, <1>5, <2>1 DEF IInv, TypeOK, Working, Hitting, Locked, Killing
    <3>2. SeenBounded'
      BY <1>2, Numbers DEF IInv, TypeOK, SeenBounded
    <3> QED
      BY <3>1, <3>2
  <2>4. CASE m \notin Ordinary
    <3>1. \A o \in Ordinary : hp'[o] = hp[o]
      BY <1>2, <2>4, OrdinaryMonsters DEF IInv, TypeOK
    <3>2. \A q \in Players : (at'[q] = at[q] /\ mob'[q] = mob[q]) \/ mob'[q] \notin Ordinary
      BY <2>1, <2>4 DEF IInv, TypeOK
    <3>3. Deaths'
      BY <1>2, <3>1, <3>2, Undisturbed
    <3> QED
      BY <2>2, <2>3, <3>3 DEF IInv, Deaths
  <2>5. CASE m \in Ordinary
    <3>1. hp[m] > 0 /\ kills[m] = 0
      BY <1>1, <1>5, <2>5 DEF IInv, HitAlive, AliveUnpaid, Hitting
    <3>2. \A q \in Players \ {w} : mob[q] = m => at[q] \notin Locked \cup Killing
      BY <1>1, <1>5, <2>5, <3>1 DEF IInv, Working, KilledDead, TypeOK, Locked, Hitting
    <3>3. \A q \in Players \ {w} : Claims(q)' => Claims(q) /\ mob[q] # m
      BY <1>2, <2>1, <2>5, <3>2, OrdinaryMonsters DEF Claims, IInv, TypeOK, Locked, Killing
    <3>4. HitAlive' /\ KilledDead'
      BY <1>1, <1>2, <1>5, <2>1, <3>2, OrdinaryMonsters
      DEF IInv, TypeOK, HitAlive, KilledDead, Locked, Hitting, Killing
    <3>5. OneClaim' /\ Unpaid'
      BY <1>2, <1>5, <2>1, <3>1, <3>3 DEF IInv, OneClaim, Unpaid
    <3>6. AliveUnpaid' /\ KilledOnce'
      BY <1>1, <1>2, <3>1, OrdinaryMonsters DEF IInv, TypeOK, AliveUnpaid, KilledOnce
    <3> QED
      BY <2>2, <2>3, <3>4, <3>5, <3>6 DEF IInv
  <2> QED
    BY <2>2, <2>3, <2>4, <2>5 DEF IInv, Deaths
<1> QED
  BY <1>4, <1>5 DEF Workers

\* Only whoever holds the lock decides, so he is the only one to claim.
LEMMA UnlockStep ==
  ASSUME IInv, NEW p \in Players, Unlock(p)
  PROVE  IInv'
<1> USE Threads
<1> DEFINE m == mob[p]
<1>1. at[p] = "unlock" /\ m \in Monsters /\ lock[m] = p
  BY DEF IInv, Working, Unlock, Locked
<1>2. lock' = [lock EXCEPT ![m] = Nobody] /\ UNCHANGED <<onMap, hp, amount, seen, count, respawning, kills>>
  BY DEF Unlock
<1>3. \A q \in Players \ {p} : at[q] \in Locked => mob[q] # m
  BY <1>1 DEF IInv, Working
<1>4. CASE hp[m] <= 0
  <2>1. at' = [at EXCEPT ![p] = "killBy"] /\ mob' = mob
    BY <1>4 DEF Unlock, Goto
  <2>2. TypeOK'
    BY <1>1, <1>2, <2>1 DEF IInv, TypeOK, Steps, respawning
  <2>3. Working' /\ SeenBounded'
    BY <1>1, <1>2, <1>3, <2>1 DEF IInv, TypeOK, Working, SeenBounded, Hitting, Locked, Killing
  <2>4. \A q \in Players : Claims(q)' => Claims(q) /\ mob'[q] = mob[q]
    BY <1>1, <1>2, <1>4, <2>1 DEF Claims, IInv, TypeOK
  <2>5. OneClaim' /\ Unpaid'
    BY <1>2, <2>4 DEF IInv, OneClaim, Unpaid
  <2>6. HitAlive' /\ KilledDead' /\ AliveUnpaid' /\ KilledOnce'
    BY <1>1, <1>2, <1>4, <2>1
    DEF IInv, TypeOK, HitAlive, KilledDead, AliveUnpaid, KilledOnce, Hitting, Killing
  <2> QED
    BY <2>2, <2>3, <2>5, <2>6 DEF IInv
<1>5. CASE ~ hp[m] <= 0
  <2>1. PICK s \in {"burst", "idle"} :
          /\ at' = [at EXCEPT ![p] = s]
          /\ s = "burst" => mob' = mob /\ m \in Bursting
          /\ s = "idle" => mob' = [mob EXCEPT ![p] = Nobody]
    BY <1>5 DEF Unlock, Goto, Return
  <2>2. mob' \in [Workers -> Monsters \cup {Nobody}] /\ (s = "burst" => m \notin Ordinary)
    BY <2>1 DEF IInv, TypeOK, Ordinary
  <2>3. TypeOK'
    BY <1>1, <1>2, <2>1, <2>2 DEF IInv, TypeOK, Steps, respawning
  <2>4. Working' /\ SeenBounded'
    <3>1. CASE s = "burst"
      BY <1>1, <1>2, <1>3, <2>1, <2>2, <3>1 DEF IInv, TypeOK, Working, SeenBounded, Hitting, Locked, Killing
    <3>2. CASE s = "idle"
      BY <1>1, <1>2, <1>3, <2>1, <3>2 DEF IInv, TypeOK, Working, SeenBounded, Hitting, Locked, Killing
    <3> QED
      BY <3>1, <3>2
  <2>5. \A q \in Players : (at'[q] = at[q] /\ mob'[q] = mob[q]) \/ at'[q] \notin Locked \cup Killing
    BY <2>1 DEF IInv, TypeOK, Locked, Hitting, Killing
  <2>6. Deaths'
    BY <1>2, <2>5, Undisturbed
  <2> QED
    BY <2>3, <2>4, <2>6 DEF IInv, Deaths
<1> QED
  BY <1>4, <1>5

LEMMA BurstStep ==
  ASSUME IInv, NEW p \in Players, Burst(p)
  PROVE  IInv'
<1> USE Threads
<1>1. at[p] = "burst" /\ mob[p] \in Monsters /\ mob[p] \notin Ordinary
  BY DEF IInv, Working, Burst
<1>2. PICK s \in {"killBy", "idle"} :
        /\ at' = [at EXCEPT ![p] = s]
        /\ s = "killBy" => mob' = mob
        /\ s = "idle" => mob' = [mob EXCEPT ![p] = Nobody]
  BY DEF Burst, Goto, Return
<1>3. UNCHANGED <<onMap, hp, lock, amount, seen, count, respawning, kills>>
  BY DEF Burst
<1>4. mob' \in [Workers -> Monsters \cup {Nobody}]
  BY <1>2 DEF IInv, TypeOK
<1>5. TypeOK'
  BY <1>2, <1>3, <1>4 DEF IInv, TypeOK, Steps, respawning
<1>6. Working' /\ SeenBounded'
  <2>1. CASE s = "killBy"
    BY <1>1, <1>2, <1>3, <2>1 DEF IInv, TypeOK, Working, SeenBounded, Hitting, Locked, Killing
  <2>2. CASE s = "idle"
    BY <1>1, <1>2, <1>3, <2>2 DEF IInv, TypeOK, Working, SeenBounded, Hitting, Locked, Killing
  <2> QED
    BY <2>1, <2>2
<1>7. \A q \in Players : (at'[q] = at[q] /\ mob'[q] = mob[q]) \/ mob'[q] \notin Ordinary
  BY <1>1, <1>2, OrdinaryMonsters DEF IInv, TypeOK
<1>8. Deaths'
  BY <1>3, <1>7, Undisturbed
<1> QED
  BY <1>5, <1>6, <1>8 DEF IInv, Deaths

\* The only claim to the monster is honoured, and no other is left.
LEMMA KillByStep ==
  ASSUME IInv, NEW p \in Players, KillBy(p)
  PROVE  IInv'
<1> USE Threads
<1> DEFINE m == mob[p]
<1>1. at[p] = "killBy" /\ m \in Monsters
  BY DEF IInv, Working, KillBy
<1>2. /\ spawned' = [spawned EXCEPT ![Home[m]] = spawned[Home[m]] - 1]
      /\ ready' = [ready EXCEPT ![Home[m]] = FALSE]
      /\ kills' = [kills EXCEPT ![m] = kills[m] + 1]
      /\ at' = [at EXCEPT ![p] = "uncount"]
      /\ UNCHANGED <<mob, onMap, hp, lock, amount, seen, count, todo, want>>
  BY DEF KillBy, Goto
<1>3. TypeOK'
  <2>1. Home[m] \in Points
    BY <1>1, ConstantsAssumption
  <2>2. kills' \in [Monsters -> Nat]
    BY <1>1, <1>2 DEF IInv, TypeOK
  <2>3. spawned' \in [Points -> Int] /\ ready' \in [Points -> BOOLEAN]
    BY <1>2, <2>1 DEF IInv, TypeOK
  <2>4. at' \in [Workers -> Steps]
    BY <1>2 DEF IInv, TypeOK, Steps
  <2> QED
    BY <1>2, <2>2, <2>3, <2>4 DEF IInv, TypeOK
<1>4. Working' /\ SeenBounded'
  BY <1>1, <1>2 DEF IInv, TypeOK, Working, SeenBounded, Hitting, Locked, Killing
<1>5. HitAlive' /\ KilledDead'
  BY <1>1, <1>2 DEF IInv, TypeOK, HitAlive, KilledDead, Hitting, Killing
<1>6. \A q \in Players : Claims(q)' => Claims(q) /\ q # p /\ mob[q] # m
  BY <1>1, <1>2 DEF IInv, TypeOK, OneClaim, Claims
<1>7. OneClaim' /\ Unpaid'
  BY <1>2, <1>6, OrdinaryMonsters DEF IInv, TypeOK, OneClaim, Unpaid, Claims
<1>8. m \in Ordinary => kills[m] = 0 /\ ~ hp[m] > 0
  BY <1>1 DEF IInv, TypeOK, Unpaid, KilledDead, Claims, Killing
<1>9. AliveUnpaid' /\ KilledOnce'
  BY <1>1, <1>2, <1>8, OrdinaryMonsters DEF IInv, TypeOK, AliveUnpaid, KilledOnce
<1> QED
  BY <1>3, <1>4, <1>5, <1>7, <1>9 DEF IInv

LEMMA UncountStep ==
  ASSUME IInv, NEW p \in Players, Uncount(p)
  PROVE  IInv'
<1> USE Threads
<1>1. /\ at[p] = "uncount" /\ count' = count - 1 /\ at' = [at EXCEPT ![p] = "zero"]
      /\ UNCHANGED <<mob, onMap, hp, lock, amount, seen, respawning, kills>>
  BY DEF Uncount, Goto
<1>2. TypeOK'
  BY <1>1 DEF IInv, TypeOK, Steps, respawning
<1>3. Working' /\ SeenBounded'
  BY <1>1 DEF IInv, TypeOK, Working, SeenBounded, Hitting, Locked, Killing
<1>4. Deaths'
  BY <1>1, Undisturbed DEF IInv, TypeOK, Locked, Hitting, Killing
<1> QED
  BY <1>2, <1>3, <1>4 DEF IInv, Deaths

\* setHp(0) is for monsters that are dead already.
LEMMA ZeroHpStep ==
  ASSUME IInv, NEW p \in Players, ZeroHp(p)
  PROVE  IInv'
<1> USE Threads
<1> DEFINE m == mob[p]
<1>1. at[p] = "zero" /\ m \in Monsters
  BY DEF IInv, Working, ZeroHp
<1>2. /\ hp' = [hp EXCEPT ![m] = 0] /\ at' = [at EXCEPT ![p] = "remove"]
      /\ UNCHANGED <<mob, onMap, lock, amount, seen, count, respawning, kills>>
  BY DEF ZeroHp, Goto
<1>3. TypeOK'
  BY <1>1, <1>2, Numbers DEF IInv, TypeOK, Steps, respawning
<1>4. Working' /\ SeenBounded'
  BY <1>1, <1>2 DEF IInv, TypeOK, Working, SeenBounded, Hitting, Locked, Killing
<1>5. m \in Ordinary => hp[m] <= 0
  BY <1>1 DEF IInv, KilledDead, Killing
<1>6. \A o \in Ordinary : hp[o] \in Int /\ (hp'[o] > 0 <=> hp[o] > 0) /\ (hp'[o] <= 0 <=> hp[o] <= 0)
  BY <1>1, <1>2, <1>5, OrdinaryMonsters DEF IInv, TypeOK
<1>7. \A q \in Players : (at'[q] = at[q] \/ (q = p /\ at'[q] = "remove")) /\ mob'[q] = mob[q]
  BY <1>2 DEF IInv, TypeOK
<1>8. \A q \in Players : Claims(q)' => Claims(q) /\ mob'[q] = mob[q]
  BY <1>6, <1>7 DEF Claims
<1>9. OneClaim' /\ Unpaid'
  BY <1>2, <1>8 DEF IInv, OneClaim, Unpaid
<1>10. HitAlive' /\ KilledDead'
  BY <1>1, <1>6, <1>7 DEF IInv, HitAlive, KilledDead, Hitting, Killing
<1>11. AliveUnpaid' /\ KilledOnce'
  BY <1>2, <1>6 DEF IInv, AliveUnpaid, KilledOnce
<1> QED
  BY <1>3, <1>4, <1>9, <1>10, <1>11 DEF IInv

LEMMA RemoveStep ==
  ASSUME IInv, NEW p \in Players, Remove(p)
  PROVE  IInv'
<1> USE Threads
<1>1. /\ onMap' = onMap \ {mob[p]}
      /\ at' = [at EXCEPT ![p] = "idle"] /\ mob' = [mob EXCEPT ![p] = Nobody]
      /\ UNCHANGED <<hp, lock, amount, seen, count, respawning, kills>>
  BY DEF Remove, Return
<1>2. TypeOK'
  BY <1>1 DEF IInv, TypeOK, Steps, respawning
<1>3. Working' /\ SeenBounded'
  BY <1>1 DEF IInv, TypeOK, Working, SeenBounded, Hitting, Locked, Killing
<1>4. Deaths'
  BY <1>1, Undisturbed DEF IInv, TypeOK, Locked, Hitting, Killing
<1> QED
  BY <1>2, <1>3, <1>4 DEF IInv, Deaths

LEMMA CatchStep ==
  ASSUME IInv, NEW p \in Players, NEW m \in Monsters, Catch(p, m)
  PROVE  IInv'
<1> USE Threads
<1>1. /\ m \notin Ordinary
      /\ at' = [at EXCEPT ![p] = "uncount"] /\ mob' = [mob EXCEPT ![p] = m]
      /\ UNCHANGED <<onMap, hp, lock, amount, seen, count, respawning, kills>>
  BY DEF Catch, Take, Ordinary
<1>2. TypeOK'
  BY <1>1 DEF IInv, TypeOK, Steps, respawning
<1>3. Working' /\ SeenBounded'
  BY <1>1 DEF IInv, TypeOK, Working, SeenBounded, Hitting, Locked, Killing
<1>4. Deaths'
  BY <1>1, Undisturbed DEF IInv, TypeOK
<1> QED
  BY <1>2, <1>3, <1>4 DEF IInv, Deaths

LEMMA HealStep ==
  ASSUME IInv, NEW p \in Players, NEW m \in Monsters, Heal(p, m)
  PROVE  IInv'
<1> USE Threads
<1>1. /\ m \notin Ordinary /\ seen' = [seen EXCEPT ![p] = hp[m]]
      /\ at' = [at EXCEPT ![p] = "heal"] /\ mob' = [mob EXCEPT ![p] = m]
      /\ UNCHANGED <<onMap, hp, lock, amount, count, respawning, kills>>
  BY DEF Heal, Take, Ordinary
<1>2. TypeOK'
  BY <1>1 DEF IInv, TypeOK, Steps, respawning
<1>3. Working' /\ SeenBounded'
  BY <1>1 DEF IInv, TypeOK, Working, SeenBounded, Hitting, Locked, Killing
<1>4. Deaths'
  BY <1>1, Undisturbed DEF IInv, TypeOK
<1> QED
  BY <1>2, <1>3, <1>4 DEF IInv, Deaths

\* Only monsters that are not ordinary are healed, and never beyond the maximum.
LEMMA HealStoreStep ==
  ASSUME IInv, NEW p \in Players, HealStore(p)
  PROVE  IInv'
<1> USE Threads
<1> DEFINE m == mob[p]
           healed == Smaller(seen[p] + HealHp, MaxHp)
<1>1. at[p] = "heal" /\ m \in Monsters /\ m \notin Ordinary
  BY DEF IInv, Working, HealStore
<1>2. /\ hp' = [hp EXCEPT ![m] = healed] /\ seen' = [seen EXCEPT ![p] = 0]
      /\ at' = [at EXCEPT ![p] = "idle"] /\ mob' = [mob EXCEPT ![p] = Nobody]
      /\ UNCHANGED <<onMap, lock, amount, count, respawning, kills>>
  BY DEF HealStore, Return
<1>3. healed \in Int /\ healed <= MaxHp
  BY Numbers DEF IInv, TypeOK, Smaller
<1> HIDE DEF healed
<1>4. TypeOK'
  BY <1>1, <1>2, <1>3 DEF IInv, TypeOK, Steps, respawning
<1>5. Working' /\ SeenBounded'
  BY <1>1, <1>2, Numbers DEF IInv, TypeOK, Working, SeenBounded, Hitting, Locked, Killing
<1>6. /\ \A o \in Ordinary : hp'[o] = hp[o]
      /\ \A q \in Players : (at'[q] = at[q] /\ mob'[q] = mob[q]) \/ at'[q] \notin Locked \cup Killing
  BY <1>1, <1>2, OrdinaryMonsters DEF IInv, TypeOK, Locked, Hitting, Killing
<1>7. Deaths'
  BY <1>2, <1>6, Undisturbed
<1> QED
  BY <1>4, <1>5, <1>7 DEF IInv, Deaths

-----------------------------------------------------------------------------
\* Steps by which the update thread only gets on with its work.
LEMMA GetsOn ==
  ASSUME IInv, TypeOK', NEW s \in {"idle", "scan", "respawn", "count"},
         at' = [at EXCEPT ![Updater] = s], UNCHANGED <<mob, hp, lock, seen, kills>>
  PROVE  IInv'
<1> USE Threads
<1>1. Working' /\ SeenBounded'
  BY DEF IInv, TypeOK, Working, SeenBounded, Hitting, Locked, Killing
<1>2. \A q \in Players : at'[q] = at[q] /\ mob'[q] = mob[q]
  BY DEF IInv, TypeOK
<1>3. Deaths'
  BY <1>2, Undisturbed
<1> QED
  BY <1>1, <1>3 DEF IInv, Deaths

LEMMA GetsOnSteps ==
  ASSUME IInv, ScanStart \/ ScanReturns \/ RespawnLater \/ RespawnStart \/ RespawnCount \/ RespawnEnd
  PROVE  IInv'
<1> USE Threads
<1>1. CASE ScanStart
  <2>1. TypeOK'
    BY <1>1 DEF IInv, TypeOK, ScanStart, Goto, Steps
  <2> QED
    BY <1>1, <2>1, GetsOn DEF ScanStart, Goto
<1>2. CASE RespawnLater
  <2>1. TypeOK'
    BY <1>2 DEF IInv, TypeOK, RespawnLater, Goto, Steps, respawning
  <2> QED
    BY <1>2, <2>1, GetsOn DEF RespawnLater, Goto
<1>3. CASE RespawnStart
  <2>1. want' \in Int /\ todo' \in SUBSET (Monsters \cup Points)
    <3>1. Cardinality(Points) \in Nat
      BY ConstantsAssumption, FS_CardinalityType
    <3>2. want' = Cardinality(Points) - count /\ (todo' = Points \/ todo' = {})
      BY <1>3 DEF RespawnStart
    <3>3. count \in Int
      BY DEF IInv, TypeOK
    <3>4. want' \in Int
      BY <3>1, <3>2, <3>3
    <3> QED
      BY <3>2, <3>4
  <2>2. TypeOK'
    BY <1>3, <2>1 DEF IInv, TypeOK, RespawnStart, Goto, Steps
  <2> QED
    BY <1>3, <2>2, GetsOn DEF RespawnStart, Goto
<1>4. CASE RespawnCount
  <2>1. TypeOK'
    BY <1>4 DEF IInv, TypeOK, RespawnCount, Goto, Steps
  <2> QED
    BY <1>4, <2>1, GetsOn DEF RespawnCount, Goto
<1>5. CASE RespawnEnd
  <2>1. TypeOK'
    BY <1>5 DEF IInv, TypeOK, RespawnEnd, Goto, Steps
  <2> QED
    BY <1>5, <2>1, GetsOn DEF RespawnEnd, Goto
<1>6. CASE ScanReturns
  <2>1. TypeOK'
    BY <1>6 DEF IInv, TypeOK, ScanReturns, Goto, Steps
  <2> QED
    BY <1>6, <2>1, GetsOn DEF ScanReturns, Goto
<1> QED
  BY <1>1, <1>2, <1>3, <1>4, <1>5, <1>6

\* Poison is only for monsters that are not ordinary.
LEMMA ScanVisitStep ==
  ASSUME IInv, NEW m \in Monsters, ScanVisit(m)
  PROVE  IInv'
<1> USE Threads
<1>1. todo' = todo \ {m} /\ at[Updater] = "scan"
      /\ UNCHANGED <<onMap, hp, lock, count, spawned, ready, want, kills>>
  BY DEF ScanVisit
<1>2. CASE UNCHANGED threads
  <2>1. UNCHANGED <<at, mob, amount, seen>>
    BY <1>2 DEF threads
  <2>2. TypeOK' /\ Working' /\ SeenBounded'
    BY <1>1, <2>1 DEF IInv, TypeOK, Working, SeenBounded
  <2>3. Deaths'
    BY <1>1, <2>1, Undisturbed
  <2> QED
    BY <2>2, <2>3 DEF IInv, Deaths
<1>3. CASE /\ m \in Poisoned /\ hp[m] > 1
           /\ Take(Updater, m, "damage")
           /\ amount' = [amount EXCEPT ![Updater] = Smaller(PoisonDamage, hp[m] - 1)]
           /\ UNCHANGED seen
  <2>1. at' = [at EXCEPT ![Updater] = "damage"] /\ mob' = [mob EXCEPT ![Updater] = m] /\ m \notin Ordinary
    BY <1>3 DEF Take, Ordinary
  <2>2. Smaller(PoisonDamage, hp[m] - 1) \in Nat
    BY <1>3, Numbers DEF IInv, TypeOK, Smaller
  <2>3. TypeOK'
    BY <1>1, <1>3, <2>1, <2>2 DEF IInv, TypeOK, Steps
  <2>4. Working' /\ SeenBounded'
    BY <1>1, <1>3, <2>1 DEF IInv, TypeOK, Working, SeenBounded, Hitting, Locked, Killing
  <2>5. \A q \in Players : at'[q] = at[q] /\ mob'[q] = mob[q]
    BY <2>1 DEF IInv, TypeOK
  <2>6. Deaths'
    BY <1>1, <2>5, Undisturbed
  <2> QED
    BY <2>3, <2>4, <2>6 DEF IInv, Deaths
<1> QED
  BY <1>2, <1>3 DEF ScanVisit

\* A new monster is one that no thread works on, so nothing that is claimed or
\* killed changes; its own kills begin again.
LEMMA RespawnVisitStep ==
  ASSUME IInv, NEW s \in Points, RespawnVisit(s)
  PROVE  IInv'
<1> USE Threads
<1>1. todo' = todo \ {s} /\ UNCHANGED <<lock, amount, seen, count, want>> /\ at[Updater] = "respawn"
  BY DEF RespawnVisit
<1>2. CASE ShouldSpawn(s) /\ Fresh(s) # {}
  <2>1. PICK m \in Fresh(s) :
          /\ spawned' = [spawned EXCEPT ![s] = spawned[s] + 1]
          /\ ready' = [ready EXCEPT ![s] = s \in Timed]
          /\ onMap' = onMap \cup {m}
          /\ hp' = [hp EXCEPT ![m] = MaxHp]
          /\ kills' = [kills EXCEPT ![m] = 0]
          /\ Goto(Updater, "count")
    BY <1>2 DEF RespawnVisit
  <2>2. m \in Monsters /\ \A w \in Workers : mob[w] # m
    BY DEF Fresh
  <2>3. at' = [at EXCEPT ![Updater] = "count"] /\ mob' = mob
    BY <2>1 DEF Goto
  <2>4. TypeOK'
    <3>1. (s \in Timed) \in BOOLEAN
      OBVIOUS
    <3>2. spawned' \in [Points -> Int] /\ ready' \in [Points -> BOOLEAN]
      BY <2>1, <3>1 DEF IInv, TypeOK
    <3>3. /\ hp' \in [Monsters -> Int] /\ \A o \in Monsters : hp'[o] <= MaxHp
          /\ kills' \in [Monsters -> Nat] /\ onMap' \subseteq Monsters
      BY <2>1, <2>2, Numbers DEF IInv, TypeOK
    <3>4. at' \in [Workers -> Steps]
      BY <2>3 DEF IInv, TypeOK, Steps
    <3> QED
      BY <1>1, <2>3, <3>2, <3>3, <3>4 DEF IInv, TypeOK
  <2>5. Working' /\ SeenBounded'
    BY <1>1, <2>3 DEF IInv, TypeOK, Working, SeenBounded, Hitting, Locked, Killing
  <2>6. \A q \in Players : at'[q] = at[q] /\ mob'[q] = mob[q] /\ mob[q] # m
    BY <2>2, <2>3 DEF IInv, TypeOK
  <2>7. \A o \in Ordinary \ {m} : hp'[o] = hp[o] /\ kills'[o] = kills[o]
    BY <2>1, <2>2, OrdinaryMonsters DEF IInv, TypeOK
  <2>8. \A q \in Players : Claims(q)' <=> Claims(q)
    BY <2>6, <2>7 DEF Claims
  <2>9. HitAlive' /\ KilledDead'
    BY <2>6, <2>7 DEF IInv, HitAlive, KilledDead
  <2>10. OneClaim' /\ Unpaid'
    BY <2>6, <2>7, <2>8 DEF IInv, OneClaim, Unpaid, Claims
  <2>11. kills'[m] = 0
    BY <2>1, <2>2 DEF IInv, TypeOK
  <2>12. AliveUnpaid' /\ KilledOnce'
    BY <2>7, <2>11 DEF IInv, AliveUnpaid, KilledOnce
  <2> QED
    BY <2>4, <2>5, <2>9, <2>10, <2>12 DEF IInv
<1>3. CASE ~ (ShouldSpawn(s) /\ Fresh(s) # {})
  <2>1. UNCHANGED <<spawned, ready, onMap, hp, kills, at, mob>>
    BY <1>3 DEF RespawnVisit
  <2>2. TypeOK' /\ Working' /\ SeenBounded'
    BY <1>1, <2>1 DEF IInv, TypeOK, Working, SeenBounded
  <2>3. Deaths'
    BY <1>1, <2>1, Undisturbed
  <2> QED
    BY <2>2, <2>3 DEF IInv, Deaths
<1> QED
  BY <1>2, <1>3

LEMMA TimePassesStep ==
  ASSUME IInv, NEW s \in Points, TimePasses(s)
  PROVE  IInv'
<1>1. /\ ready' = [ready EXCEPT ![s] = TRUE]
      /\ UNCHANGED <<onMap, hp, lock, at, mob, amount, seen, count, spawned, todo, want, kills>>
  BY DEF TimePasses, threads
<1>2. TypeOK' /\ Working' /\ SeenBounded'
  BY <1>1 DEF IInv, TypeOK, Working, SeenBounded
<1>3. Deaths'
  BY <1>1, Undisturbed
<1> QED
  BY <1>2, <1>3 DEF IInv, Deaths

-----------------------------------------------------------------------------
LEMMA NextStep == IInv /\ [Next]_vars => IInv'
<1> SUFFICES ASSUME IInv, [Next]_vars PROVE IInv'
  OBVIOUS
<1>1. ASSUME NEW p \in Players, NEW m \in Monsters,
             (\E d \in Damages : Attack(p, m, d)) \/ Heal(p, m) \/ Catch(p, m)
      PROVE  IInv'
  BY <1>1, AttackStep, HealStep, CatchStep
<1>2. ASSUME NEW p \in Players, Goes(p) PROVE IInv'
  <2>1. p \in Workers
    BY Threads
  <2> QED
    BY <1>2, <2>1, LockStep, DamageStep, LoadHpStep, StoreHpStep, UnlockStep, BurstStep,
       KillByStep, UncountStep, ZeroHpStep, RemoveStep, HealStoreStep DEF Goes
<1>3. CASE Updates
  <2>1. Updater \in Workers
    BY Threads
  <2> QED
    BY <1>3, <2>1, GetsOnSteps, ScanVisitStep, DamageStep, LoadHpStep, StoreHpStep,
       RespawnVisitStep DEF Updates
<1>4. ASSUME NEW s \in Points, TimePasses(s) PROVE IInv'
  BY <1>4, TimePassesStep
<1>5. CASE UNCHANGED vars
  <2>1. UNCHANGED <<onMap, hp, lock, at, mob, amount, seen, count, spawned, ready, todo, want, kills>>
    BY <1>5 DEF vars, threads, respawning
  <2>2. TypeOK' /\ Working' /\ SeenBounded'
    BY <2>1 DEF IInv, TypeOK, Working, SeenBounded
  <2>3. Deaths'
    BY <2>1, Undisturbed
  <2> QED
    BY <2>2, <2>3 DEF IInv, Deaths
<1> QED
  BY <1>1, <1>2, <1>3, <1>4, <1>5 DEF Next

\* Every reachable state satisfies the inductive invariant.
THEOREM Invariance == Spec => []IInv
<1>1. IInv /\ [Next]_vars => IInv'
  BY NextStep
<1> QED
  BY InitInv, <1>1, PTL DEF Spec

\* MapleMap and MapleMonster keep the type invariant, whatever the interleaving;
\* in particular no healing raises hp above its maximum.
THEOREM TypeCorrect == Spec => []TypeOK
<1>1. IInv => TypeOK
  BY DEF IInv
<1> QED
  BY <1>1, Invariance, PTL

\* damageMonster and killMonster kill an ordinary monster at most once, though the
\* kill is done after monsterLock is given back.
THEOREM KilledOnceHolds == Spec => []KilledOnce
<1>1. IInv => KilledOnce
  BY DEF IInv
<1> QED
  BY <1>1, Invariance, PTL

-----------------------------------------------------------------------------
(***************************************************************************)
(* The counters respawn goes by.  A spawn point counts the monsters that   *)
(* were spawned and not killed; the map counts those that no killer has    *)
(* taken off the counter yet.                                              *)
(***************************************************************************)

\* Points of ordinary monsters.
Plain == {s \in Points : \A m \in Monsters : Home[m] = s => m \in Ordinary}

\* The monsters of a point for which nobody has been paid.
Unkilled(s) == {m \in onMap : Home[m] = s /\ kills[m] = 0}

\* An ordinary monster is on the map while it lives, and until who claims it has killed it;
\* who goes on after the kill goes on with one that is paid for.
AliveOnMap == \A m \in Ordinary : hp[m] > 0 => m \in onMap
ClaimOnMap == \A p \in Players : Claims(p) => mob[p] \in onMap
Paid == \A p \in Players :
    at[p] \in Killing \ {"killBy"} /\ mob[p] \in Ordinary => kills[mob[p]] > 0

\* SpawnPoint.spawnedMonsters is what it says, and one at most where it matters.
Counts == \A s \in Plain :
    /\ spawned[s] = Cardinality(Unkilled(s))
    /\ s \in Singles => spawned[s] <= 1

\* The monsters that no killer has taken off the counter.
Standing == {m \in onMap : \A p \in Players : ~ (at[p] \in {"zero", "remove"} /\ mob[p] = m)}

\* The monster that respawn has shown and not counted yet.
Uncounted == IF at[Updater] = "count" THEN 1 ELSE 0

Undercount == count + Uncounted <= Cardinality(Standing)

CInv == IInv /\ AliveOnMap /\ ClaimOnMap /\ Paid /\ Counts /\ Undercount

\* There are finitely many monsters.
LEMMA Finite ==
  ASSUME TypeOK
  PROVE  /\ IsFiniteSet(onMap) /\ IsFiniteSet(Standing)
         /\ \A s : IsFiniteSet(Unkilled(s)) /\ Cardinality(Unkilled(s)) \in Nat
         /\ Cardinality(Standing) \in Nat
<1>1. IsFiniteSet(onMap)
  BY ConstantsAssumption, FS_Subset DEF TypeOK
<1>2. IsFiniteSet(Standing)
  BY <1>1, FS_Subset DEF Standing
<1>3. \A s : IsFiniteSet(Unkilled(s))
  <2> SUFFICES ASSUME NEW s PROVE IsFiniteSet(Unkilled(s))
    OBVIOUS
  <2>1. Unkilled(s) \subseteq onMap
    BY DEF Unkilled
  <2> QED
    BY <1>1, <2>1, FS_Subset
<1> QED
  BY <1>1, <1>2, <1>3, FS_CardinalityType

\* A step that brings no ordinary monster and kills none leaves the points' counters right.
LEMMA SameCounts ==
  ASSUME CInv, UNCHANGED <<spawned, kills>>, onMap' \subseteq Monsters,
         \A m \in Ordinary : kills[m] = 0 => (m \in onMap' <=> m \in onMap)
  PROVE  Counts'
<1>1. \A s \in Plain : Unkilled(s)' = Unkilled(s)
  BY DEF Unkilled, CInv, IInv, TypeOK, Plain
<1>2. ASSUME NEW s \in Plain
      PROVE  spawned'[s] = Cardinality(Unkilled(s)') /\ (s \in Singles => spawned'[s] <= 1)
  BY <1>1 DEF Counts, CInv
<1> QED
  BY <1>2 DEF Counts

\* A step that takes away no monster that stands and lets nobody go on to take one away
\* leaves the map's counter right.
LEMMA SameStanding ==
  ASSUME CInv, UNCHANGED count, onMap' \subseteq Monsters, Standing \subseteq onMap',
         (at[Updater] = "count") <=> (at'[Updater] = "count"),
         \A p \in Players : at'[p] \in {"zero", "remove"} => at[p] \in {"zero", "remove"} /\ mob'[p] = mob[p]
  PROVE  Undercount'
<1>1. Standing \subseteq Standing'
  BY DEF Standing
<1>2. IsFiniteSet(Standing')
  <2>1. Standing' \subseteq Monsters
    BY DEF Standing
  <2> QED
    BY <2>1, ConstantsAssumption, FS_Subset
<1>3. Cardinality(Standing) <= Cardinality(Standing') /\ Cardinality(Standing') \in Nat /\ Cardinality(Standing) \in Nat
  BY <1>1, <1>2, Finite, FS_Subset, FS_CardinalityType DEF CInv, IInv
<1>4. count \in Int /\ Uncounted' = Uncounted /\ Uncounted \in Nat
  BY DEF Uncounted, CInv, IInv, TypeOK
<1> QED
  BY <1>3, <1>4 DEF Undercount, CInv

\* Most steps touch no counter.
LEMMA Quiet ==
  ASSUME CInv, IInv', UNCHANGED <<onMap, count, spawned, kills>>,
         (at[Updater] = "count") <=> (at'[Updater] = "count"),
         \A m \in Ordinary : hp'[m] > 0 => hp[m] > 0,
         \A p \in Players : at'[p] \in Killing \ {"killBy"} =>
            \/ /\ at[p] \in Killing \ {"killBy"} /\ mob'[p] = mob[p]
               /\ at'[p] \in {"zero", "remove"} => at[p] \in {"zero", "remove"}
            \/ at'[p] = "uncount" /\ mob'[p] \notin Ordinary,
         \A p \in Players : Claims(p)' => mob'[p] \in onMap
  PROVE  CInv'
<1>1. onMap' \subseteq Monsters /\ Standing \subseteq onMap'
  BY DEF CInv, IInv, TypeOK, Standing
<1>2. Counts'
  BY <1>1, SameCounts
<1>3. \A p \in Players : at'[p] \in {"zero", "remove"} => at[p] \in {"zero", "remove"} /\ mob'[p] = mob[p]
  BY DEF Killing
<1>4. Undercount'
  BY <1>1, <1>3, SameStanding
<1>5. AliveOnMap' /\ ClaimOnMap' /\ Paid'
  BY DEF CInv, AliveOnMap, ClaimOnMap, Paid
<1> QED
  BY <1>2, <1>4, <1>5 DEF CInv

\* Who claims a monster whose hp and whose threads stay as they are claimed it before.
LEMMA SameClaims ==
  ASSUME CInv, NEW p \in Players, at'[p] = at[p], mob'[p] = mob[p], hp'[mob[p]] = hp[mob[p]]
  PROVE  Claims(p)' => mob'[p] \in onMap
BY DEF CInv, ClaimOnMap, Claims

\* A player's steps that leave the hp of ordinary monsters alone, and in which he claims
\* nothing that he did not claim before.
LEMMA QuietPlayer ==
  ASSUME CInv, IInv', NEW p \in Players, UNCHANGED <<onMap, count, spawned, kills>>,
         \A q \in Workers \ {p} : at'[q] = at[q] /\ mob'[q] = mob[q],
         \A m \in Ordinary : hp'[m] = hp[m],
         \/ at'[p] \notin {"unlock"} \cup Killing
         \/ at[p] = "unlock" /\ at'[p] = "killBy" /\ mob'[p] = mob[p] /\ hp[mob[p]] <= 0
         \/ mob'[p] \notin Ordinary /\ at'[p] \in {"killBy", "uncount"}
  PROVE  CInv'
<1>1. Updater \in Workers \ {p} /\ \A q \in Players : q \in Workers
  BY Threads
<1>2. ASSUME NEW q \in Players
      PROVE  Claims(q)' => mob'[q] \in onMap
  <2>1. CASE q = p
    BY <2>1 DEF CInv, ClaimOnMap, Claims, Killing
  <2>2. CASE q # p
    BY <1>1, <2>2, SameClaims DEF Claims, CInv, ClaimOnMap
  <2> QED
    BY <2>1, <2>2
<1>3. Counts'
  BY SameCounts DEF CInv, IInv, TypeOK
<1>4. ASSUME NEW q \in Players, at'[q] \in {"zero", "remove"}
      PROVE  at[q] \in {"zero", "remove"} /\ mob'[q] = mob[q]
  BY <1>1, <1>4 DEF Killing
<1>5. Undercount'
  BY <1>1, <1>4, SameStanding DEF Standing, CInv, IInv, TypeOK
<1>6. AliveOnMap' /\ ClaimOnMap'
  BY <1>2 DEF CInv, AliveOnMap, ClaimOnMap
<1>7. Paid'
  BY <1>1 DEF CInv, Paid, Killing
<1> QED
  BY <1>3, <1>5, <1>6, <1>7 DEF CInv

-----------------------------------------------------------------------------
(* Every step keeps the counters right.                                     *)

\* Before there are monsters.
LEMMA InitCounts == Init => CInv
<1> SUFFICES ASSUME Init PROVE CInv
  OBVIOUS
<1> USE Threads, Numbers, OrdinaryMonsters DEF Init
<1>1. IInv
  BY InitInv
<1>2. AliveOnMap /\ ClaimOnMap /\ Paid
  BY DEF AliveOnMap, ClaimOnMap, Paid, Claims, Killing
<1>3. (\A s : Unkilled(s) = {}) /\ Standing = {} /\ Uncounted = 0
  BY DEF Unkilled, Standing, Uncounted
<1>4. Cardinality({}) = 0
  BY FS_EmptySet
<1>5. Counts
  <2> SUFFICES ASSUME NEW s \in Plain
               PROVE  spawned[s] = Cardinality(Unkilled(s)) /\ (s \in Singles => spawned[s] <= 1)
    BY DEF Counts
  <2>1. Cardinality(Unkilled(s)) = 0
    BY <1>3, <1>4
  <2>2. spawned[s] = 0
    BY DEF Plain
  <2> QED
    BY <2>1, <2>2
<1>6. Undercount
  <2>1. Cardinality(Standing) = 0
    BY <1>3, <1>4
  <2> QED
    BY <1>3, <2>1 DEF Undercount
<1> QED
  BY <1>1, <1>2, <1>5, <1>6 DEF CInv

\* Players' steps that bring nobody nearer to a kill.
LEMMA PlayerCounts ==
  ASSUME CInv, IInv', NEW p \in Players,
         \/ \E m \in Monsters : (\E d \in Damages : Attack(p, m, d)) \/ Heal(p, m) \/ Catch(p, m)
         \/ Lock(p) \/ Damage(p) \/ LoadHp(p) \/ Unlock(p) \/ Burst(p) \/ HealStore(p)
  PROVE  CInv'
<1> USE Threads
<1>1. TypeOK /\ Working
  BY DEF CInv, IInv
<1>2. UNCHANGED <<onMap, count, spawned, kills>>
  BY DEF Attack, Heal, Catch, Lock, Damage, LoadHp, Unlock, Burst, HealStore, respawning
<1>3. \A q \in Workers \ {p} : at'[q] = at[q] /\ mob'[q] = mob[q]
  BY <1>1 DEF TypeOK, Attack, Heal, Catch, Lock, Damage, LoadHp, Unlock, Burst, HealStore, Goto, Return, Take
<1>4. \A m \in Ordinary : hp'[m] = hp[m]
  <2>1. CASE HealStore(p)
    <3>1. mob[p] \notin Ordinary
      BY <1>1, <2>1 DEF Working, HealStore
    <3> QED
      BY <1>1, <2>1, <3>1, OrdinaryMonsters DEF HealStore, TypeOK
  <2>2. CASE ~HealStore(p)
    BY <2>2 DEF Attack, Heal, Catch, Lock, Damage, LoadHp, Unlock, Burst
  <2> QED
    BY <2>1, <2>2
<1>5. \/ at'[p] \notin {"unlock"} \cup Killing
      \/ at[p] = "unlock" /\ at'[p] = "killBy" /\ mob'[p] = mob[p] /\ hp[mob[p]] <= 0
      \/ mob'[p] \notin Ordinary /\ at'[p] \in {"killBy", "uncount"}
  <2>1. CASE Unlock(p)
    BY <1>1, <2>1 DEF TypeOK, Unlock, Goto, Return, Killing
  <2>2. CASE Burst(p)
    BY <1>1, <2>2 DEF TypeOK, Working, Burst, Goto, Return, Killing
  <2>3. CASE \E m \in Monsters : Catch(p, m)
    BY <1>1, <2>3 DEF TypeOK, Catch, Take, Ordinary
  <2>4. CASE \E m \in Monsters : (\E d \in Damages : Attack(p, m, d)) \/ Heal(p, m)
    BY <1>1, <2>4 DEF TypeOK, Attack, Heal, Take, Killing
  <2>5. CASE Lock(p) \/ Damage(p) \/ LoadHp(p) \/ HealStore(p)
    BY <1>1, <2>5 DEF TypeOK, Lock, Damage, LoadHp, HealStore, Goto, Return, Killing
  <2> QED
    BY <2>1, <2>2, <2>3, <2>4, <2>5
<1> QED
  BY <1>2, <1>3, <1>4, <1>5, QuietPlayer

\* A hit leaves the monster on the map.
LEMMA StoreHpCounts ==
  ASSUME CInv, IInv', NEW w \in Workers, StoreHp(w)
  PROVE  CInv'
<1> USE Threads
<1> DEFINE m == mob[w]
<1>1. /\ at[w] = "store" /\ m \in Monsters /\ (w = Updater => m \notin Ordinary)
      /\ \A o \in Monsters \ {m} : hp'[o] = hp[o]
      /\ UNCHANGED <<onMap, lock, count, spawned, kills>>
  BY Hit DEF StoreHp, Hitting, CInv, IInv, TypeOK, respawning
<1>2. /\ \A q \in Workers \ {w} : at'[q] = at[q] /\ mob'[q] = mob[q]
      /\ at'[w] = IF w = Updater THEN "scan" ELSE "unlock"
      /\ w # Updater => mob'[w] = m
  BY DEF StoreHp, CInv, IInv, TypeOK, Goto, Return
<1>3. m \in Ordinary => w \in Players /\ hp[m] > 0 /\ m \in onMap /\ lock[m] = w
  BY <1>1 DEF CInv, IInv, HitAlive, AliveOnMap, Hitting, Working, Locked, Workers
<1>4. ASSUME NEW q \in Players, Claims(q)'
      PROVE  mob'[q] \in onMap
  <2>1. CASE q = w
    BY <1>2, <1>3, <1>4, <2>1 DEF Claims
  <2>2. CASE q # w
    <3>1. at'[q] = at[q] /\ mob'[q] = mob[q] /\ mob[q] \in Ordinary
      BY <1>2, <1>4, <2>2 DEF Claims
    <3>2. CASE mob[q] = m
      BY <1>3, <3>1, <3>2
    <3>3. CASE mob[q] # m
      <4>1. hp'[mob[q]] = hp[mob[q]]
        BY <1>1, <3>1, <3>3, OrdinaryMonsters
      <4> QED
        BY <1>4, <3>1, <4>1, SameClaims
    <3> QED
      BY <3>2, <3>3
  <2> QED
    BY <2>1, <2>2
<1>5. \A o \in Ordinary : hp'[o] > 0 => hp[o] > 0
  BY <1>1, <1>3, OrdinaryMonsters
<1>6. \A q \in Players : at'[q] \in Killing \ {"killBy"} => at'[q] = at[q] /\ mob'[q] = mob[q]
  BY <1>1, <1>2 DEF Killing
<1>7. (at[Updater] = "count") <=> (at'[Updater] = "count")
  BY <1>1, <1>2
<1> QED
  BY <1>1, <1>4, <1>5, <1>6, <1>7, Quiet

\* setHp(0) brings down nobody's claim.
LEMMA ZeroHpCounts ==
  ASSUME CInv, IInv', NEW p \in Players, ZeroHp(p)
  PROVE  CInv'
<1> USE Threads
<1> DEFINE m == mob[p]
<1>1. /\ at[p] = "zero" /\ m \in Monsters /\ hp'[m] = 0 /\ at'[p] = "remove" /\ mob' = mob
      /\ \A o \in Monsters \ {m} : hp'[o] = hp[o]
      /\ \A q \in Workers \ {p} : at'[q] = at[q]
      /\ UNCHANGED <<onMap, count, spawned, kills>>
  BY DEF ZeroHp, Goto, CInv, IInv, Working, TypeOK, respawning
<1>2. m \in Ordinary => hp[m] <= 0
  BY <1>1 DEF CInv, IInv, KilledDead, Killing
<1>3. \A q \in Players : Claims(q)' => Claims(q)
  BY <1>1, <1>2, OrdinaryMonsters DEF Claims
<1>4. \A q \in Players : Claims(q)' => mob'[q] \in onMap
  BY <1>1, <1>3 DEF CInv, ClaimOnMap
<1>5. \A o \in Ordinary : hp'[o] > 0 => hp[o] > 0
  BY <1>1, OrdinaryMonsters
<1>6. \A q \in Players : at'[q] \in Killing \ {"killBy"} =>
         /\ at[q] \in Killing \ {"killBy"} /\ mob'[q] = mob[q]
         /\ at'[q] \in {"zero", "remove"} => at[q] \in {"zero", "remove"}
  BY <1>1 DEF Killing
<1> QED
  BY <1>1, <1>4, <1>5, <1>6, Quiet

\* The listener takes off the point's counter the monster that is paid for.
LEMMA KillByCounts ==
  ASSUME CInv, IInv', NEW p \in Players, KillBy(p)
  PROVE  CInv'
<1> USE Threads
<1> DEFINE m == mob[p]
<1>1. /\ at[p] = "killBy" /\ m \in Monsters /\ at'[p] = "uncount" /\ mob' = mob
      /\ kills'[m] = kills[m] + 1 /\ kills[m] \in Nat
      /\ \A o \in Monsters \ {m} : kills'[o] = kills[o]
      /\ spawned'[Home[m]] = spawned[Home[m]] - 1
      /\ \A s \in Points \ {Home[m]} : spawned'[s] = spawned[s]
      /\ \A q \in Workers \ {p} : at'[q] = at[q]
      /\ UNCHANGED <<onMap, hp, count>>
  BY ConstantsAssumption DEF KillBy, Goto, CInv, IInv, Working, TypeOK, Killing
<1>2. m \in Ordinary => Claims(p) /\ m \in onMap /\ kills[m] = 0
  BY <1>1 DEF Claims, CInv, ClaimOnMap, IInv, Unpaid
<1>3. ASSUME NEW s \in Plain
      PROVE  spawned'[s] = Cardinality(Unkilled(s)') /\ (s \in Singles => spawned'[s] <= 1)
  <2>1. CASE s = Home[m]
    <3>1. m \in Unkilled(s) /\ Unkilled(s)' = Unkilled(s) \ {m}
      BY <1>1, <1>2, <2>1 DEF Plain, Unkilled, CInv, IInv, TypeOK
    <3>2. Cardinality(Unkilled(s)') = Cardinality(Unkilled(s)) - 1
      BY <3>1, Finite, FS_RemoveElement DEF CInv, IInv
    <3>3. spawned[s] = Cardinality(Unkilled(s)) /\ (s \in Singles => spawned[s] <= 1) /\ spawned[s] \in Int
      BY DEF CInv, IInv, TypeOK, Counts, Plain
    <3> QED
      BY <1>1, <2>1, <3>2, <3>3
  <2>2. CASE s # Home[m]
    <3>1. Unkilled(s)' = Unkilled(s)
      BY <1>1, <2>2 DEF Unkilled, CInv, IInv, TypeOK
    <3>2. spawned'[s] = spawned[s]
      BY <1>1, <2>2 DEF Plain
    <3> QED
      BY <3>1, <3>2 DEF CInv, Counts
  <2> QED
    BY <2>1, <2>2
<1>4. Counts'
  BY <1>3 DEF Counts
<1>5. \A q \in Players : at'[q] \in {"zero", "remove"} => at[q] \in {"zero", "remove"} /\ mob'[q] = mob[q]
  BY <1>1
<1>6. Undercount'
  BY <1>1, <1>5, SameStanding DEF Standing, CInv, IInv, TypeOK
<1>7. AliveOnMap' /\ ClaimOnMap'
  BY <1>1 DEF CInv, AliveOnMap, ClaimOnMap, Claims
<1>8. Paid'
  BY <1>1, OrdinaryMonsters DEF CInv, IInv, TypeOK, Paid, Killing
<1> QED
  BY <1>4, <1>6, <1>7, <1>8 DEF CInv

\* The map's counter goes down by one, and so do the monsters that stand, or not at all if
\* another has taken this one off the counter before.
LEMMA UncountCounts ==
  ASSUME CInv, IInv', NEW p \in Players, Uncount(p)
  PROVE  CInv'
<1> USE Threads
<1>1. /\ at[p] = "uncount" /\ at'[p] = "zero" /\ count' = count - 1
      /\ \A q \in Workers \ {p} : at'[q] = at[q]
      /\ UNCHANGED <<mob, onMap, hp, spawned, kills>>
  BY DEF Uncount, Goto, CInv, IInv, TypeOK, respawning
<1>2. Standing' = Standing \ {mob[p]}
  BY <1>1 DEF Standing
<1>3. Cardinality(Standing') >= Cardinality(Standing) - 1
  <2>1. IsFiniteSet(Standing) /\ Cardinality(Standing) \in Nat
    BY Finite DEF CInv, IInv
  <2>2. \/ Cardinality(Standing') = Cardinality(Standing) - 1
        \/ Cardinality(Standing') = Cardinality(Standing)
    BY <1>2, <2>1, FS_RemoveElement
  <2> QED
    BY <2>1, <2>2
<1>4. /\ Cardinality(Standing) \in Nat /\ Cardinality(Standing') \in Nat /\ count \in Int
      /\ Uncounted' = Uncounted /\ Uncounted \in Nat
  BY <1>1, <1>2, Finite, FS_RemoveElement, FS_CardinalityType DEF Uncounted, CInv, IInv, TypeOK
<1>5. Undercount'
  BY <1>1, <1>3, <1>4 DEF Undercount, CInv
<1>6. Counts'
  BY <1>1, SameCounts DEF CInv, IInv, TypeOK
<1>7. AliveOnMap' /\ ClaimOnMap' /\ Paid'
  BY <1>1 DEF CInv, AliveOnMap, ClaimOnMap, Claims, Paid, Killing
<1> QED
  BY <1>5, <1>6, <1>7 DEF CInv

\* What is removed from the map is paid for, or of a point that does not count right anyway.
LEMMA RemoveCounts ==
  ASSUME CInv, IInv', NEW p \in Players, Remove(p)
  PROVE  CInv'
<1> USE Threads
<1> DEFINE m == mob[p]
<1>1. /\ at[p] = "remove" /\ at'[p] = "idle" /\ onMap' = onMap \ {m} /\ m \in Monsters
      /\ \A q \in Workers \ {p} : at'[q] = at[q] /\ mob'[q] = mob[q]
      /\ UNCHANGED <<hp, count, spawned, kills>>
  BY DEF Remove, Return, CInv, IInv, Working, TypeOK, respawning
<1>2. m \in Ordinary => hp[m] <= 0 /\ kills[m] > 0
  BY <1>1 DEF CInv, IInv, KilledDead, Paid, Killing
<1>3. onMap' \subseteq Monsters /\ \A o \in Ordinary : kills[o] = 0 => (o \in onMap' <=> o \in onMap)
  BY <1>1, <1>2 DEF CInv, IInv, TypeOK
<1>4. Counts'
  BY <1>1, <1>3, SameCounts
<1>5. Standing \subseteq onMap'
  BY <1>1 DEF Standing
<1>6. \A q \in Players : at'[q] \in {"zero", "remove"} => at[q] \in {"zero", "remove"} /\ mob'[q] = mob[q]
  BY <1>1
<1>7. Undercount'
  BY <1>1, <1>3, <1>5, <1>6, SameStanding
<1>8. AliveOnMap'
  BY <1>1, <1>2, OrdinaryMonsters DEF CInv, AliveOnMap, IInv, TypeOK
<1>9. ClaimOnMap'
  <2> SUFFICES ASSUME NEW q \in Players, Claims(q)'
               PROVE  mob'[q] \in onMap'
    BY DEF ClaimOnMap
  <2>1. q # p /\ Claims(q) /\ mob'[q] = mob[q] /\ mob[q] \in Ordinary
    BY <1>1 DEF Claims
  <2>2. mob[q] \in onMap /\ kills[mob[q]] = 0
    BY <2>1 DEF CInv, ClaimOnMap, IInv, Unpaid
  <2> QED
    BY <1>1, <1>2, <2>1, <2>2
<1>10. Paid'
  BY <1>1 DEF CInv, Paid, Killing
<1> QED
  BY <1>4, <1>7, <1>8, <1>9, <1>10 DEF CInv

\* The update thread's other steps.
LEMMA UpdaterCounts ==
  ASSUME CInv, IInv',
         \/ ScanStart \/ (\E m \in Monsters : ScanVisit(m)) \/ ScanReturns \/ RespawnLater \/ RespawnStart \/ RespawnEnd
         \/ Damage(Updater) \/ LoadHp(Updater)
  PROVE  CInv'
<1> USE Threads
<1>1. /\ UNCHANGED <<onMap, hp, count, spawned, kills>>
      /\ \A q \in Players : at'[q] = at[q] /\ mob'[q] = mob[q]
      /\ at[Updater] # "count" /\ at'[Updater] # "count"
  <2>1. CASE ScanStart \/ ScanReturns \/ RespawnLater \/ RespawnStart \/ RespawnEnd
    BY <2>1 DEF ScanStart, ScanReturns, RespawnLater, RespawnStart, RespawnEnd, Goto, respawning, CInv, IInv, TypeOK
  <2>2. CASE Damage(Updater) \/ LoadHp(Updater)
    BY <2>2 DEF Damage, LoadHp, Goto, respawning, CInv, IInv, TypeOK
  <2>3. ASSUME NEW m \in Monsters, ScanVisit(m)
        PROVE  /\ UNCHANGED <<onMap, hp, count, spawned, kills>>
               /\ \A q \in Players : at'[q] = at[q] /\ mob'[q] = mob[q]
               /\ at[Updater] # "count" /\ at'[Updater] # "count"
    BY <2>3 DEF ScanVisit, Take, threads, CInv, IInv, TypeOK
  <2> QED
    BY <2>1, <2>2, <2>3
<1>2. \A q \in Players : Claims(q)' => mob'[q] \in onMap
  BY <1>1 DEF Claims, CInv, ClaimOnMap
<1>3. \A q \in Players : at'[q] \in Killing \ {"killBy"} =>
         /\ at[q] \in Killing \ {"killBy"} /\ mob'[q] = mob[q]
         /\ at'[q] \in {"zero", "remove"} => at[q] \in {"zero", "remove"}
  BY <1>1
<1> QED
  BY <1>1, <1>2, <1>3, Quiet

\* A monster appears at a point that counts fewer than its cap; if it may have one only,
\* all those of its monsters that are on the map have been killed.
LEMMA RespawnVisitCounts ==
  ASSUME CInv, IInv', NEW s \in Points, RespawnVisit(s)
  PROVE  CInv'
<1> USE Threads
<1>1. at[Updater] = "respawn" /\ UNCHANGED count
  BY DEF RespawnVisit
<1>2. CASE ShouldSpawn(s) /\ Fresh(s) # {}
  <2>1. PICK m \in Fresh(s) :
          /\ spawned' = [spawned EXCEPT ![s] = spawned[s] + 1]
          /\ onMap' = onMap \cup {m}
          /\ hp' = [hp EXCEPT ![m] = MaxHp]
          /\ kills' = [kills EXCEPT ![m] = 0]
          /\ Goto(Updater, "count")
    BY <1>2 DEF RespawnVisit
  <2>2. m \in Monsters /\ Home[m] = s /\ m \notin onMap /\ \A w \in Workers : mob[w] # m
    BY DEF Fresh
  <2>3. /\ mob' = mob /\ at'[Updater] = "count" /\ \A q \in Players : at'[q] = at[q]
        /\ kills'[m] = 0 /\ \A o \in Monsters \ {m} : hp'[o] = hp[o] /\ kills'[o] = kills[o]
        /\ spawned'[s] = spawned[s] + 1 /\ \A r \in Points \ {s} : spawned'[r] = spawned[r]
    BY <2>1, <2>2 DEF Goto, CInv, IInv, TypeOK
  <2>4. ASSUME NEW r \in Plain
        PROVE  spawned'[r] = Cardinality(Unkilled(r)') /\ (r \in Singles => spawned'[r] <= 1)
    <3>1. r \in Points /\ spawned[r] = Cardinality(Unkilled(r)) /\ spawned[r] \in Int
      BY DEF CInv, IInv, TypeOK, Counts, Plain
    <3>2. CASE r = s
      <4>1. Unkilled(r)' = Unkilled(r) \cup {m} /\ m \notin Unkilled(r)
        BY <2>1, <2>2, <2>3, <3>2 DEF Unkilled, CInv, IInv, TypeOK
      <4>2. Cardinality(Unkilled(r)') = Cardinality(Unkilled(r)) + 1
        BY <4>1, Finite, FS_AddElement DEF CInv, IInv
      <4>3. r \in Singles => spawned[r] <= 0
        BY <1>2, <3>2 DEF ShouldSpawn
      <4> QED
        BY <2>3, <3>1, <3>2, <4>2, <4>3
    <3>3. CASE r # s
      <4>1. Unkilled(r)' = Unkilled(r)
        BY <2>1, <2>2, <2>3, <3>3 DEF Unkilled, CInv, IInv, TypeOK
      <4> QED
        BY <2>3, <3>1, <3>3, <4>1 DEF CInv, Counts
    <3> QED
      BY <3>2, <3>3
  <2>5. Counts'
    BY <2>4 DEF Counts
  <2>6. Undercount'
    <3>1. Standing' = Standing \cup {m} /\ m \notin Standing
      BY <2>1, <2>2, <2>3 DEF Standing, Workers
    <3>2. Cardinality(Standing') = Cardinality(Standing) + 1 /\ Cardinality(Standing) \in Nat
      BY <3>1, Finite, FS_AddElement DEF CInv, IInv
    <3>3. Uncounted = 0 /\ Uncounted' = 1 /\ count \in Int
      BY <1>1, <2>3 DEF Uncounted, CInv, IInv, TypeOK
    <3> QED
      BY <1>1, <3>2, <3>3 DEF Undercount, CInv
  <2>7. AliveOnMap'
    BY <2>1, <2>3, OrdinaryMonsters DEF CInv, AliveOnMap
  <2>8. \A q \in Players : mob[q] # m
    BY <2>2
  <2>9. \A q \in Players : Claims(q)' => Claims(q)
    BY <2>3, <2>8, OrdinaryMonsters DEF Claims
  <2>10. ClaimOnMap'
    BY <2>1, <2>3, <2>9 DEF CInv, ClaimOnMap
  <2>11. Paid'
    BY <2>3, <2>8, OrdinaryMonsters DEF CInv, Paid
  <2> QED
    BY <2>5, <2>6, <2>7, <2>10, <2>11 DEF CInv
<1>3. CASE ~ (ShouldSpawn(s) /\ Fresh(s) # {})
  <2>1. UNCHANGED <<spawned, onMap, hp, kills, at, mob>>
    BY <1>3 DEF RespawnVisit
  <2> QED
    BY <1>1, <2>1, Quiet DEF Claims, CInv, ClaimOnMap, Killing
<1> QED
  BY <1>2, <1>3

\* The monster that has been shown is counted.
LEMMA RespawnCountCounts ==
  ASSUME CInv, IInv', RespawnCount
  PROVE  CInv'
<1> USE Threads
<1>1. /\ at[Updater] = "count" /\ at'[Updater] = "respawn" /\ count' = count + 1
      /\ \A q \in Players : at'[q] = at[q]
      /\ UNCHANGED <<mob, onMap, hp, spawned, kills>>
  BY DEF RespawnCount, Goto, CInv, IInv, TypeOK
<1>2. Standing' = Standing /\ Uncounted = 1 /\ Uncounted' = 0
  BY <1>1 DEF Standing, Uncounted
<1>3. count \in Int /\ Cardinality(Standing) \in Nat
  BY Finite DEF CInv, IInv, TypeOK
<1>4. Undercount'
  BY <1>1, <1>2, <1>3 DEF Undercount, CInv
<1>5. Counts'
  BY <1>1, SameCounts DEF CInv, IInv, TypeOK
<1>6. AliveOnMap' /\ ClaimOnMap' /\ Paid'
  BY <1>1 DEF CInv, AliveOnMap, ClaimOnMap, Claims, Paid
<1> QED
  BY <1>4, <1>5, <1>6 DEF CInv

LEMMA NextCounts == CInv /\ [Next]_vars => CInv'
<1> SUFFICES ASSUME CInv, [Next]_vars PROVE CInv'
  OBVIOUS
<1> USE Threads
<1>1. IInv'
  BY NextStep DEF CInv
<1>2. ASSUME NEW p \in Players, NEW m \in Monsters,
             (\E d \in Damages : Attack(p, m, d)) \/ Heal(p, m) \/ Catch(p, m)
      PROVE  CInv'
  BY <1>1, <1>2, PlayerCounts
<1>3. ASSUME NEW p \in Players, Goes(p) PROVE CInv'
  <2>1. p \in Workers
    OBVIOUS
  <2> QED
    BY <1>1, <1>3, <2>1, PlayerCounts, StoreHpCounts, KillByCounts, UncountCounts, ZeroHpCounts, RemoveCounts
    DEF Goes
<1>4. CASE Updates
  <2>1. Updater \in Workers
    OBVIOUS
  <2> QED
    BY <1>1, <1>4, <2>1, UpdaterCounts, StoreHpCounts, RespawnVisitCounts, RespawnCountCounts DEF Updates
<1>5. ASSUME NEW s \in Points, TimePasses(s) PROVE CInv'
  <2>1. UNCHANGED <<onMap, hp, count, spawned, kills, at, mob>>
    BY <1>5 DEF TimePasses, threads
  <2> QED
    BY <1>1, <2>1, Quiet DEF Claims, CInv, ClaimOnMap, Killing
<1>6. CASE UNCHANGED vars
  <2>1. UNCHANGED <<onMap, hp, count, spawned, kills, at, mob>>
    BY <1>6 DEF vars, threads, respawning
  <2> QED
    BY <1>1, <2>1, Quiet DEF Claims, CInv, ClaimOnMap, Killing
<1> QED
  BY <1>2, <1>3, <1>4, <1>5, <1>6 DEF Next

\* The counters are right in every reachable state.
THEOREM CountsInvariance == Spec => []CInv
<1>1. CInv /\ [Next]_vars => CInv'
  BY NextCounts
<1> QED
  BY InitCounts, <1>1, PTL DEF Spec

\* SpawnPoint.shouldSpawn: a point with a mobTime, or of an immobile monster, never has two
\* living ordinary monsters, though it counts its monsters down in the middle of a kill.
THEOREM SinglesAloneHolds == Spec => []SinglesAlone
<1>1. CInv => SinglesAlone
  <2> SUFFICES ASSUME CInv, NEW s \in Singles
               PROVE  Cardinality({m \in onMap \cap Ordinary : Home[m] = s /\ hp[m] > 0}) <= 1
    BY DEF SinglesAlone
  <2> DEFINE A == {m \in onMap \cap Ordinary : Home[m] = s /\ hp[m] > 0}
  <2>1. s \in Points
    BY ConstantsAssumption
  <2>2. CASE s \in Plain
    <3>1. A \subseteq Unkilled(s)
      BY DEF Unkilled, CInv, IInv, AliveUnpaid
    <3>2. spawned[s] = Cardinality(Unkilled(s)) /\ spawned[s] <= 1
      BY <2>2 DEF CInv, Counts
    <3>3. IsFiniteSet(Unkilled(s)) /\ IsFiniteSet(A) /\ Cardinality(A) <= Cardinality(Unkilled(s))
      BY <3>1, Finite, FS_Subset DEF CInv, IInv
    <3>4. Cardinality(A) \in Nat /\ Cardinality(Unkilled(s)) \in Nat
      BY <3>3, FS_CardinalityType
    <3> QED
      BY <3>2, <3>3, <3>4
  <2>3. CASE s \notin Plain
    <3>1. A = {}
      BY <2>1, <2>3, OrdinaryMonsters, KindsAssumption DEF Plain
    <3>2. Cardinality(A) = 0
      BY <3>1, FS_EmptySet
    <3> QED
      BY <3>2
  <2> QED
    BY <2>2, <2>3
<1> QED
  BY <1>1, CountsInvariance, PTL

\* MapleMap.spawnedMonstersOnMap never exceeds the monsters on the map, though kills without
\* the lock count a monster down twice: respawn never believes a map full that is not.
THEOREM NeverOvercountedHolds == Spec => []NeverOvercounted
<1>1. CInv => NeverOvercounted
  <2> SUFFICES ASSUME CInv PROVE count <= Cardinality(onMap)
    BY DEF NeverOvercounted
  <2>1. Standing \subseteq onMap /\ IsFiniteSet(onMap) /\ IsFiniteSet(Standing)
    BY Finite DEF Standing, CInv, IInv
  <2>2. /\ Cardinality(Standing) <= Cardinality(onMap)
        /\ Cardinality(Standing) \in Nat /\ Cardinality(onMap) \in Nat
    BY <2>1, FS_Subset, FS_CardinalityType
  <2>3. count \in Int /\ Uncounted \in Nat
    BY DEF CInv, IInv, TypeOK, Uncounted
  <2> QED
    BY <2>2, <2>3 DEF CInv, Undercount
<1> QED
  BY <1>1, CountsInvariance, PTL
-----------------------------------------------------------------------------
(* The safety half of CorpseLeaves: nobody walks away from a dead monster.   *)

Undertaking == Killing \cup {"unlock"}

\* An ordinary monster that lies dead on the map has a player who is bringing it away:
\* he has decided on the kill, or is about to find out under the lock that he must.
Undertaken == \A m \in onMap \cap Ordinary :
    hp[m] <= 0 => \E p \in Players : mob[p] = m /\ at[p] \in Undertaking

\* A step by which no ordinary monster appears or dies, and no undertaker leaves his monster.
LEMMA StillUndertaken ==
  ASSUME Undertaken, onMap' \cap Ordinary \subseteq onMap,
         \A m \in onMap \cap Ordinary : hp'[m] <= 0 => hp[m] <= 0,
         \A p \in Players : at[p] \in Undertaking => at'[p] \in Undertaking /\ mob'[p] = mob[p]
  PROVE  Undertaken'
<1> SUFFICES ASSUME NEW m \in onMap' \cap Ordinary, hp'[m] <= 0
             PROVE  \E p \in Players : mob'[p] = m /\ at'[p] \in Undertaking
  BY DEF Undertaken, Undertaking, Killing
<1>1. PICK p \in Players : mob[p] = m /\ at[p] \in Undertaking
  BY DEF Undertaken
<1> QED
  BY <1>1

\* A player's step, unless it ends a hit, the lock or a kill.
LEMMA PlayerUndertakes ==
  ASSUME IInv, Undertaken, NEW p \in Players,
         \/ \E m \in Monsters : (\E d \in Damages : Attack(p, m, d)) \/ Heal(p, m) \/ Catch(p, m)
         \/ Lock(p) \/ Damage(p) \/ LoadHp(p) \/ Burst(p)
         \/ KillBy(p) \/ Uncount(p) \/ ZeroHp(p) \/ HealStore(p)
  PROVE  Undertaken'
<1> USE Threads
<1>1. CASE \E m \in Monsters : (\E d \in Damages : Attack(p, m, d)) \/ Heal(p, m) \/ Catch(p, m)
  <2>1. at[p] = "idle" /\ UNCHANGED <<onMap, hp>>
        /\ \A q \in Players \ {p} : at'[q] = at[q] /\ mob'[q] = mob[q]
    BY <1>1 DEF Attack, Heal, Catch, Take, IInv, TypeOK
  <2> QED
    BY <2>1, StillUndertaken DEF Undertaking, Killing
<1>2. CASE Lock(p) \/ Damage(p) \/ LoadHp(p) \/ Burst(p)
  <2>1. at[p] \notin Undertaking /\ UNCHANGED <<onMap, hp>>
        /\ \A q \in Players \ {p} : at'[q] = at[q] /\ mob'[q] = mob[q]
    BY <1>2 DEF Lock, Damage, LoadHp, Burst, Goto, Return, IInv, TypeOK, Undertaking, Killing
  <2> QED
    BY <2>1, StillUndertaken
<1>3. CASE KillBy(p) \/ Uncount(p)
  <2>1. at'[p] \in Undertaking /\ UNCHANGED <<onMap, hp, mob>>
        /\ \A q \in Players \ {p} : at'[q] = at[q]
    BY <1>3 DEF KillBy, Uncount, Goto, IInv, TypeOK, Undertaking, Killing
  <2> QED
    BY <2>1, StillUndertaken
<1>4. CASE ZeroHp(p)
  <2>1. /\ at[p] = "zero" /\ at'[p] = "remove" /\ UNCHANGED <<onMap, mob>>
        /\ \A q \in Players \ {p} : at'[q] = at[q]
        /\ \A o \in Monsters \ {mob[p]} : hp'[o] = hp[o]
    BY <1>4 DEF ZeroHp, Goto, IInv, TypeOK
  <2>2. mob[p] \in Ordinary => hp[mob[p]] <= 0
    BY <2>1 DEF IInv, KilledDead, Killing
  <2> QED
    BY <2>1, <2>2, OrdinaryMonsters, StillUndertaken DEF Undertaking, Killing
<1>5. CASE HealStore(p)
  <2>1. /\ at[p] = "heal" /\ UNCHANGED onMap
        /\ \A q \in Players \ {p} : at'[q] = at[q] /\ mob'[q] = mob[q]
        /\ \A o \in Monsters \ {mob[p]} : hp'[o] = hp[o]
    BY <1>5 DEF HealStore, Return, IInv, TypeOK
  <2>2. mob[p] \notin Ordinary
    BY <2>1 DEF IInv, Working
  <2> QED
    BY <2>1, <2>2, OrdinaryMonsters, StillUndertaken DEF Undertaking, Killing
<1> QED
  BY <1>1, <1>2, <1>3, <1>4, <1>5

\* Whoever brings a monster down still holds its lock: he is its undertaker.
LEMMA StoreHpUndertakes ==
  ASSUME IInv, Undertaken, NEW w \in Workers, StoreHp(w)
  PROVE  Undertaken'
<1> USE Threads
<1>1. /\ at[w] = "store" /\ mob[w] \in Monsters /\ (w = Updater => mob[w] \notin Ordinary)
      /\ UNCHANGED onMap /\ \A o \in Monsters \ {mob[w]} : hp'[o] = hp[o]
  BY Hit DEF StoreHp, Hitting, IInv, TypeOK
<1>2. CASE w = Updater
  <2>1. \A q \in Players : at'[q] = at[q] /\ mob'[q] = mob[q]
    BY <1>2 DEF StoreHp, Return, IInv, TypeOK
  <2> QED
    BY <1>1, <1>2, <2>1, OrdinaryMonsters, StillUndertaken
<1>3. CASE w \in Players
  <2>1. at'[w] = "unlock" /\ mob' = mob /\ \A q \in Players \ {w} : at'[q] = at[q]
    BY <1>3 DEF StoreHp, Goto, IInv, TypeOK
  <2> SUFFICES ASSUME NEW m \in onMap \cap Ordinary, hp'[m] <= 0
               PROVE  \E q \in Players : mob'[q] = m /\ at'[q] \in Undertaking
    BY <1>1 DEF Undertaken, Undertaking, Killing
  <2>2. CASE m = mob[w]
    BY <1>3, <2>1, <2>2 DEF Undertaking
  <2>3. CASE m # mob[w]
    <3>1. hp'[m] = hp[m]
      BY <1>1, <2>3, OrdinaryMonsters
    <3>2. PICK q \in Players : mob[q] = m /\ at[q] \in Undertaking
      BY <3>1 DEF Undertaken
    <3> QED
      BY <2>1, <2>3, <3>2
  <2> QED
    BY <2>2, <2>3
<1> QED
  BY <1>2, <1>3 DEF Workers

\* killed is decided by the very test that says the monster is dead.
LEMMA UnlockUndertakes ==
  ASSUME IInv, Undertaken, NEW p \in Players, Unlock(p)
  PROVE  Undertaken'
<1> USE Threads
<1>1. /\ UNCHANGED <<onMap, hp>> /\ mob[p] \in Monsters /\ hp[mob[p]] \in Int
      /\ \A q \in Players \ {p} : at'[q] = at[q] /\ mob'[q] = mob[q]
  BY DEF Unlock, Goto, Return, IInv, TypeOK, Working, Locked
<1>2. CASE hp[mob[p]] <= 0
  <2>1. at'[p] = "killBy" /\ mob' = mob
    BY <1>2 DEF Unlock, Goto, IInv, TypeOK
  <2> QED
    BY <1>1, <2>1, StillUndertaken DEF Undertaking, Killing
<1>3. CASE ~ hp[mob[p]] <= 0
  <2> SUFFICES ASSUME NEW m \in onMap \cap Ordinary, hp[m] <= 0
               PROVE  \E q \in Players : mob'[q] = m /\ at'[q] \in Undertaking
    BY <1>1 DEF Undertaken, Undertaking, Killing
  <2>1. PICK q \in Players : mob[q] = m /\ at[q] \in Undertaking
    BY DEF Undertaken
  <2>2. q # p
    BY <1>3, <2>1
  <2> QED
    BY <1>1, <2>1, <2>2
<1> QED
  BY <1>2, <1>3

\* Only the monster that he works on leaves with its undertaker.
LEMMA RemoveUndertakes ==
  ASSUME IInv, Undertaken, NEW p \in Players, Remove(p)
  PROVE  Undertaken'
<1> USE Threads
<1>1. /\ onMap' = onMap \ {mob[p]} /\ UNCHANGED hp
      /\ \A q \in Players \ {p} : at'[q] = at[q] /\ mob'[q] = mob[q]
  BY DEF Remove, Return, IInv, TypeOK
<1> SUFFICES ASSUME NEW m \in onMap' \cap Ordinary, hp'[m] <= 0
             PROVE  \E q \in Players : mob'[q] = m /\ at'[q] \in Undertaking
  BY DEF Undertaken, Undertaking, Killing
<1>2. PICK q \in Players : mob[q] = m /\ at[q] \in Undertaking
  BY <1>1 DEF Undertaken
<1> QED
  BY <1>1, <1>2

\* What the update thread does; the monsters that it puts on the map are alive.
LEMMA UpdaterUndertakes ==
  ASSUME IInv, Undertaken,
         \/ ScanStart \/ (\E m \in Monsters : ScanVisit(m)) \/ ScanReturns \/ RespawnLater \/ RespawnStart
         \/ (\E s \in Points : RespawnVisit(s)) \/ RespawnCount \/ RespawnEnd
         \/ Damage(Updater) \/ LoadHp(Updater)
  PROVE  Undertaken'
<1> USE Threads
<1>1. CASE \/ ScanStart \/ ScanReturns \/ RespawnLater \/ RespawnStart \/ RespawnCount \/ RespawnEnd
           \/ Damage(Updater) \/ LoadHp(Updater)
  <2>1. UNCHANGED <<onMap, hp, mob>> /\ \A q \in Players : at'[q] = at[q]
    BY <1>1 DEF ScanStart, ScanReturns, RespawnLater, RespawnStart, RespawnCount, RespawnEnd, Damage, LoadHp,
       Goto, IInv, TypeOK
  <2> QED
    BY <2>1, StillUndertaken
<1>2. ASSUME NEW m \in Monsters, ScanVisit(m) PROVE Undertaken'
  <2>1. UNCHANGED <<onMap, hp>> /\ \A q \in Players : at'[q] = at[q] /\ mob'[q] = mob[q]
    BY <1>2 DEF ScanVisit, Take, threads, IInv, TypeOK
  <2> QED
    BY <2>1, StillUndertaken
<1>3. ASSUME NEW s \in Points, RespawnVisit(s) PROVE Undertaken'
  <2>1. CASE UNCHANGED <<onMap, hp, at, mob>>
    BY <2>1, StillUndertaken
  <2>2. CASE \E m \in Fresh(s) : /\ onMap' = onMap \cup {m} /\ hp' = [hp EXCEPT ![m] = MaxHp]
                                 /\ Goto(Updater, "count")
    <3>1. PICK m \in Fresh(s) : /\ onMap' = onMap \cup {m} /\ hp' = [hp EXCEPT ![m] = MaxHp]
                                /\ Goto(Updater, "count")
      BY <2>2
    <3>2. /\ m \in Monsters /\ mob' = mob /\ \A q \in Players : at'[q] = at[q]
          /\ hp'[m] = MaxHp /\ \A o \in Monsters \ {m} : hp'[o] = hp[o]
      BY <3>1 DEF Fresh, Goto, IInv, TypeOK
    <3> SUFFICES ASSUME NEW o \in onMap' \cap Ordinary, hp'[o] <= 0
                 PROVE  \E q \in Players : mob'[q] = o /\ at'[q] \in Undertaking
      BY DEF Undertaken, Undertaking, Killing
    <3>3. o # m
      BY <3>2, Numbers
    <3>4. o \in onMap /\ hp[o] <= 0
      BY <3>1, <3>2, <3>3, OrdinaryMonsters
    <3>5. PICK q \in Players : mob[q] = o /\ at[q] \in Undertaking
      BY <3>4 DEF Undertaken
    <3> QED
      BY <3>2, <3>5
  <2> QED
    BY <1>3, <2>1, <2>2 DEF RespawnVisit
<1> QED
  BY <1>1, <1>2, <1>3

\* MapleMap.damageMonster, killMonster: every ordinary monster that lies dead on the map has a
\* player who is about to remove it: none is left behind by a thread that took it for alive.
THEOREM UndertakenHolds == Spec => []Undertaken
<1>1. Init => Undertaken
  BY DEF Init, Undertaken
<1>2. IInv /\ Undertaken /\ [Next]_vars => Undertaken'
  <2> SUFFICES ASSUME IInv, Undertaken, [Next]_vars PROVE Undertaken'
    OBVIOUS
  <2> USE Threads
  <2>1. ASSUME NEW p \in Players, NEW m \in Monsters,
               (\E d \in Damages : Attack(p, m, d)) \/ Heal(p, m) \/ Catch(p, m)
        PROVE  Undertaken'
    BY <2>1, PlayerUndertakes
  <2>2. ASSUME NEW p \in Players, Goes(p) PROVE Undertaken'
    <3>1. p \in Workers
      OBVIOUS
    <3> QED
      BY <2>2, <3>1, PlayerUndertakes, StoreHpUndertakes, UnlockUndertakes, RemoveUndertakes DEF Goes
  <2>3. CASE Updates
    <3>1. Updater \in Workers
      OBVIOUS
    <3> QED
      BY <2>3, <3>1, UpdaterUndertakes, StoreHpUndertakes DEF Updates
  <2>4. ASSUME NEW s \in Points, TimePasses(s) PROVE Undertaken'
    <3>1. UNCHANGED <<onMap, hp, at, mob>>
      BY <2>4 DEF TimePasses, threads
    <3> QED
      BY <3>1, StillUndertaken
  <2>5. CASE UNCHANGED vars
    <3>1. UNCHANGED <<onMap, hp, at, mob>>
      BY <2>5 DEF vars, threads
    <3> QED
      BY <3>1, StillUndertaken
  <2> QED
    BY <2>1, <2>2, <2>3, <2>4, <2>5 DEF Next
<1> QED
  BY <1>1, <1>2, Invariance, PTL DEF Spec
-----------------------------------------------------------------------------
(* The safety half of Refilled: no counter keeps an empty map empty.         *)

\* On an empty map the counter of the map and those of the points allow every monster.
EmptyAllows == onMap = {} =>
    /\ count <= 0
    /\ \A s \in Plain : ready[s] => ShouldSpawn(s)

\* MapleMap.respawn on an empty map goes through every spawn point, for as many monsters as
\* there are points at least, and each point of ordinary monsters whose time has come allows
\* one.  (A point whose monsters are caught may refuse: nobody tells it of them.)
RefillsEmpty ==
    [][RespawnStart /\ onMap = {} =>
          /\ want' >= Cardinality(Points) /\ todo' = Points
          /\ \A s \in Plain : ready'[s] => ShouldSpawn(s)']_vars

\* In whatever order kills, removals and an earlier respawn have run, neither
\* spawnedMonstersOnMap nor a point's spawnedMonsters is left too high once nothing is left.
THEOREM EmptyAllowsHolds == Spec => []EmptyAllows
<1>1. CInv => EmptyAllows
  <2> SUFFICES ASSUME CInv, onMap = {} PROVE EmptyAllows
    BY DEF EmptyAllows
  <2>1. count <= 0
    <3>1. Standing = {}
      BY DEF Standing
    <3>2. Cardinality(Standing) = 0
      BY <3>1, FS_EmptySet
    <3>3. count \in Int /\ Uncounted \in Nat
      BY DEF CInv, IInv, TypeOK, Uncounted
    <3> QED
      BY <3>2, <3>3 DEF CInv, Undercount
  <2>2. ASSUME NEW s \in Plain, ready[s] PROVE ShouldSpawn(s)
    <3>1. Unkilled(s) = {}
      BY DEF Unkilled
    <3>2. Cardinality(Unkilled(s)) = 0
      BY <3>1, FS_EmptySet
    <3>3. spawned[s] = 0
      BY <3>2 DEF CInv, Counts
    <3> QED
      BY <2>2, <3>3, ConstantsAssumption DEF ShouldSpawn
  <2> QED
    BY <2>1, <2>2 DEF EmptyAllows
<1> QED
  BY <1>1, CountsInvariance, PTL

THEOREM RefillsEmptyHolds == Spec => RefillsEmpty
<1>1. ASSUME EmptyAllows, IInv, RespawnStart, onMap = {}
      PROVE  /\ want' >= Cardinality(Points) /\ todo' = Points
             /\ \A s \in Plain : ready'[s] => ShouldSpawn(s)'
  <2>1. Cardinality(Points) \in Nat
    BY ConstantsAssumption, FS_CardinalityType
  <2>2. count \in Int /\ count <= 0
    BY <1>1 DEF EmptyAllows, IInv, TypeOK
  <2>3. want' = Cardinality(Points) - count /\ todo' = IF want' > 0 THEN Points ELSE {}
    BY <1>1 DEF RespawnStart
  <2>4. want' >= Cardinality(Points)
    BY <2>1, <2>2, <2>3
  <2>5. todo' = Points
    <3>1. CASE want' > 0
      BY <2>3, <3>1
    <3>2. CASE ~ want' > 0
      <4>1. Cardinality(Points) = 0
        BY <2>1, <2>2, <2>3, <3>2
      <4>2. Points = {}
        BY <4>1, ConstantsAssumption, FS_EmptySet
      <4> QED
        BY <2>3, <4>2
    <3> QED
      BY <3>1, <3>2
  <2>6. \A s \in Plain : ready'[s] => ShouldSpawn(s)'
    BY <1>1 DEF RespawnStart, EmptyAllows, ShouldSpawn
  <2> QED
    BY <2>4, <2>5, <2>6
<1>2. EmptyAllows /\ IInv /\ [Next]_vars =>
        [RespawnStart /\ onMap = {} =>
            /\ want' >= Cardinality(Points) /\ todo' = Points
            /\ \A s \in Plain : ready'[s] => ShouldSpawn(s)']_vars
  BY <1>1
<1> QED
  BY <1>2, EmptyAllowsHolds, Invariance, PTL DEF Spec, RefillsEmpty
=============================================================================
