CONSTANTS
    boss = boss
    heir = heir
    den = den
    field = field
    ann = ann
    bob = bob
    Players = {ann, bob}
    Updater = Updater
    Monsters = {pest}
    Points = {field}
    Home <- MCHome
    Timed = {}
    Immobile = {}
    PointCap = 2
    MaxHp = 2
    Damages = {1, 2}
    PoisonDamage = 1
    HealHp = 1
    Poisoned = {pest}
    Healed = {pest}
    Bursting = {pest}
    BurstHp = 1
    Catchable = {pest}
    MaxDrift = 1
    Nobody = Nobody
SPECIFICATION Spec
INVARIANTS NeverOvercounted
SYMMETRY MCSymmetry
