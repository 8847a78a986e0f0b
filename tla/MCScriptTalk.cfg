CONSTANTS
    Quests <- MCQuests
    Npcs <- MCNpcs
    MaxStatus = 12
    GoRound <- MCGoRound
    FallSilent <- MCFallSilent
    ActOnRefusal <- MCActOnRefusal
    RewardMidway <- MCRewardMidway
    UnevenTrades <- MCUnevenTrades
SPECIFICATION FairSpec
INVARIANTS RewardMovesTheQuest OnlyForwardActs EvenTrades AlwaysAnswered
PROPERTY DialogEnds
CHECK_DEADLOCK FALSE
