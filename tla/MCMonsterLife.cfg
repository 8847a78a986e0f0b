CONSTANTS
    boss = boss
    heir = heir
    den = den
    field = field
    ann = ann
    bob = bob
    Players = {ann, bob}
    Updater = Updater
    Monsters = {boss, heir, rat}
    Points = {den, field}
    Home <- MCHome
    Timed = {den}
    Immobile = {}
    PointCap = 2
    MaxHp = 1
    Damages = {1}
    PoisonDamage = 1
    HealHp = 1
    Poisoned = {}
    Healed = {}
    Bursting = {}
    BurstHp = 1
    Catchable = {}
    MaxDrift = 1
    Nobody = Nobody
SPECIFICATION FairSpec
INVARIANTS KilledOnce SinglesAlone
PROPERTIES CorpseLeaves Refilled
