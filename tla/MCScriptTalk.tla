----------------------------- MODULE MCScriptTalk -----------------------------
\* Every conversation, and the scripts that are known not to keep a rule.
EXTENDS ScriptWalks, LongQuests, BriefQuests, VictoriaNpcs, OssyriaNpcs, AriantNpcs,
  WorldNpcs, MasteriaNpcs, Bystanders, FarBystanders, TLC

MCQuests == LongQuestsTable @@ BriefQuestsTable
MCNpcs ==
  VictoriaNpcsTable @@ OssyriaNpcsTable @@ AriantNpcsTable @@ WorldNpcsTable @@ MasteriaNpcsTable
    @@ BystandersTable @@ FarBystandersTable

\* A way forward leads back to a page that was shown before: a list that is offered
\* again, a quiz, a lesson.
MCGoRound ==
    {"N1012100", "N1022000", "N1022104", "N1022105", "N1032001", "N1032113",
     "N1032114", "N1052001", "N1052113", "N1052114", "N1090000", "N1095001",
     "N1095002", "N2003", "N2010009", "N2101014", "N9040002", "N9201050"}

\* After some answer the script neither says anything nor disposes of itself: the
\* counter has run past the last branch, or no branch of a condition is taken.
MCFallSilent ==
    {"Q20008", "Q20016", "Q20017", "Q2017", "Q20720", "Q21101", "Q21401", "Q22504",
     "Q22510s", "Q22541s", "Q22582e", "Q2293", "Q2332", "Q2334", "Q2335", "Q2342",
     "Q2363e", "Q2369e", "Q2374e", "Q2568", "Q29002", "Q29400", "Q29503", "Q29934s",
     "Q29935s", "Q29936s", "Q29937s", "Q3301", "Q3303", "Q3306", "Q4659", "Q8189",
     "Q8248", "Q8255", "N1002002", "N1012008", "N1012100", "N1012112", "N1012113",
     "N1012121", "N1052001", "N1052007", "N1052115", "N1061014", "N1092094",
     "N1092095", "N1202000", "N12101", "N1300013", "N2001001", "N2001002",
     "N2001003", "N2001004", "N2010007", "N2013002", "N2030000", "N2030008",
     "N2030013", "N2030016", "N2071010", "N2083004", "N2083006", "N2101013",
     "N2101014", "N2111020", "N2111021", "N2111022", "N2111023", "N2141001",
     "N22000", "N2540005", "N9000001", "N9000004", "N9000022", "N9000030",
     "N9000033", "N9000040", "N9001108", "N9040009", "N9110000", "N9120013",
     "N9120201", "N9201033", "N9201057", "N9201067", "N9201107", "N9201108",
     "N9201109", "N9201111", "N9201113", "N9270018", "N9270043", "N9270047"}

\* A player who says no, or goes back to the page where the script acts, makes it
\* act.
MCActOnRefusal ==
    {"Q1021", "Q20001", "Q20201", "Q20202", "Q20203", "Q20204", "Q20205", "Q20700",
     "Q21010", "Q21017", "Q21018", "Q21100", "Q21716", "Q22003", "Q22500",
     "Q22541s", "Q22567e", "Q2334", "Q2570", "N1012100", "N1022000", "N1032001",
     "N1052001", "N1090000", "N1092094", "N1092095", "N1103005", "N1202000",
     "N2020008", "N2020009", "N2020010", "N2020011", "N2020013", "N9000030",
     "N9000055"}

\* A reward that does not move the quest: handed out on the way to the page that
\* does, or for another reason than the quest.
MCRewardMidway ==
    {"Q1021", "Q20001", "Q2236", "Q2335", "Q29924", "Q3114", "Q7103"}

\* Room is not looked for, the meso is not counted, or the script fails after it
\* has taken its price.
MCUnevenTrades ==
    {"Q20013", "Q20526", "Q2053", "Q21013", "Q2230", "Q2236", "Q2363e", "Q28003",
     "Q4659", "Q6006", "Q6030", "Q6031", "Q6032", "Q8185", "Q8189", "N1012007",
     "N1012008", "N1012100", "N1022000", "N1032001", "N1032100", "N1032102",
     "N1052001", "N1052006", "N1052007", "N1072004", "N1072005", "N1090000",
     "N1092090", "N1092091", "N1092094", "N1092095", "N20000", "N2010000",
     "N2020005", "N2030008", "N2041009", "N2071012", "N2083005", "N2084001",
     "N2084002", "N2103003", "N2103004", "N2103005", "N2103006", "N2103009",
     "N2103010", "N2103011", "N2103012", "N22000", "N9000012", "N9000022",
     "N9000055", "N9000062", "N9010002", "N9201001", "N9201023", "N9201024",
     "N9201025", "N9201026", "N9201027", "N9201043", "N9201067"}

===============================================================================
