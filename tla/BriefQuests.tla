--------------------------- MODULE BriefQuests ---------------------------
(***************************************************************************)
(* The quests whose script shows one page or none (scripts/quest): what    *)
(* the starting and the ending npc of each says and does.                  *)
(***************************************************************************)
EXTENDS ScriptRows

medalQuest ==
  [start |-> Talk(Leave, Leave, {Fails(0, <<"start", "complete">>)}),
   end |-> Talk(Leave, Leave, {Fails(0, <<"complete">>)})]

unidentifiedQuest ==
  [start |-> Talk(Leave, Leave, {Ends(0, <<>>)}),
   end |-> NoTalk]

Q2001 ==
  [start |-> NoTalk,
   end |-> Talk(Leave, Leave, {Says(0, "next"), Fails(1, <<>>), Ends(1, <<>>)})]

Q2017 ==
  [start |-> Talk(Leave, Leave, {Does(0, <<"complete">>, "none")}),
   end |-> NoTalk]

Q2034 ==
  [start |-> NoTalk,
   end |-> Talk(Leave, Leave, {Says(0, "next"), Fails(1, <<>>), Ends(1, <<>>)})]

Q2124 ==
  [start |-> NoTalk,
   end |-> Talk(Leave, Leave, {Ends(0, <<"has", "take", "complete">>), Ends(0, <<>>)})]

Q2126 ==
  [start |-> NoTalk,
   end |-> Talk(Leave, Leave, {Ends(0, <<"has", "take", "complete">>), Ends(0, <<>>)})]

Q2127 ==
  [start |-> NoTalk,
   end |-> Talk(Leave, Leave, {Ends(0, <<"complete">>)})]

Q2148 ==
  [start |-> Talk(Leave, Leave, {Ends(0, <<"complete">>)}),
   end |-> Talk(Leave, Leave, {Ends(0, <<>>)})]

Q2149 ==
  [start |-> Talk(Leave, Leave, {Ends(0, <<"complete">>)}),
   end |-> Talk(Leave, Leave, {Ends(0, <<>>)})]

Q2150 ==
  [start |-> Talk(Leave, Leave, {Ends(0, <<"complete">>)}),
   end |-> Talk(Leave, Leave, {Ends(0, <<>>)})]

Q2151 ==
  [start |-> Talk(Leave, Leave, {Ends(0, <<"complete">>)}),
   end |-> Talk(Leave, Leave, {Ends(0, <<>>)})]

Q2152 ==
  [start |-> Talk(Leave, Leave, {Ends(0, <<"complete">>)}),
   end |-> Talk(Leave, Leave, {Ends(0, <<>>)})]

Q2186 ==
  [start |-> NoTalk,
   end |-> Talk(Leave, Leave, {Ends(0, <<"has", "fits", "take", "exp", "give", "complete">>), Ends(0, <<>>)})]

Q2197 ==
  [start |-> Talk(Leave, Leave, {Ends(0, <<"complete">>)}),
   end |-> Talk(Leave, Leave, {Ends(0, <<"complete">>)})]

Q2214 ==
  [start |-> NoTalk,
   end |-> Talk(Leave, Leave, {Fails(0, <<>>)})]

Q2215 ==
  [start |-> NoTalk,
   end |-> Talk(Leave, Leave, {Fails(0, <<>>)})]

Q2216 ==
  [start |-> Talk(Leave, Leave, {Ends(0, <<"exp", "complete">>),
        Ends(0, <<"exp", "complete", "has", "take">>)}),
   end |-> NoTalk]

Q2217 ==
  [start |-> Talk(Leave, Leave, {Ends(0, <<"exp", "complete">>),
        Ends(0, <<"exp", "complete", "has", "take">>)}),
   end |-> NoTalk]

Q2218 ==
  [start |-> Talk(Leave, Leave, {Ends(0, <<"exp", "complete">>),
        Ends(0, <<"exp", "complete", "has", "take">>)}),
   end |-> NoTalk]

Q2219 ==
  [start |-> Talk(Leave, Leave, {Ends(0, <<"exp", "complete">>),
        Ends(0, <<"exp", "complete", "has", "take">>)}),
   end |-> NoTalk]

Q2228 ==
  [start |-> Talk(Leave, Leave, {Says(0, "next"), Fails(1, <<>>)}),
   end |-> NoTalk]

Q2236 ==
  [start |-> Talk(Leave, Leave, {Says(0, "ask"), Ends(1, <<"give", "start">>),
        Ends(1, <<"has", "take", "give", "start">>)}),
   end |-> Talk(Leave, Leave, {Ends(0, <<"exp", "complete">>), Ends(0, <<"give", "note">>),
        Ends(0, <<"has", "take", "give", "note">>)})]

Q2238 ==
  [start |-> Talk(Leave, Leave, {Ends(0, <<"start">>)}),
   end |-> NoTalk]

Q2245 ==
  [start |-> Talk(Leave, Leave, {Ends(0, <<"event", "start">>), Ends(0, <<"event">>), Ends(0, <<>>)}),
   end |-> NoTalk]

Q2251 ==
  [start |-> NoTalk,
   end |-> Talk(Leave, Leave, {Ends(0, <<"has", "take", "exp", "complete">>), Ends(0, <<>>)})]

Q2254 ==
  [start |-> Talk(Leave, Leave, {Ends(0, <<"start">>)}),
   end |-> Talk(Leave, Leave, {Ends(0, <<"complete">>)})]

Q2257 ==
  [start |-> NoTalk,
   end |-> Talk(Leave, Leave, {Says(0, "next"), Ends(1, <<"complete">>)})]

Q2291 ==
  [start |-> NoTalk,
   end |-> Talk(Leave, Leave, {Says(0, "next"), Ends(0, <<>>), Ends(1, <<"event", "take", "complete">>),
        Ends(1, <<"event">>)})]

Q2313 ==
  [start |-> Talk(Leave, Leave, {Says(0, "ask"), Ends(1, <<"start">>)}),
   end |-> Talk(Leave, Leave, {Ends(0, <<"complete", "exp">>)})]

Q2332 ==
  [start |-> Talk(Leave, Leave, {Fails(0, <<"start">>), Ends(0, <<>>)}),
   end |-> Talk(Leave, Leave, {To(-1, Mute(0))})]

Q2338 ==
  [start |-> Talk(Leave, Leave, {Says(0, "next"), Ends(0, <<>>), Ends(1, <<"fits", "give", "complete">>),
        Ends(1, <<>>)}),
   end |-> NoTalk]

Q2342 ==
  [start |-> Talk(Leave, Leave, {Ends(0, <<"fits", "start", "give", "complete">>), Ends(0, <<>>)}),
   end |-> Talk(Leave, Leave, {To(-1, Mute(0))})]

Q3108 ==
  [start |-> Talk(Leave, Leave, {Ends(0, <<"complete">>)}),
   end |-> NoTalk]

Q3114 ==
  [start |-> NoTalk,
   end |-> Talk(Leave, Leave, {Ends(0, <<"fits", "give">>), Says(0, "next"), Ends(0, <<>>), Fails(1, <<>>)})]

Q3239 ==
  [start |-> NoTalk,
   end |-> Talk(Leave, Leave, {Ends(0, <<>>), Says(0, "ok")})]

Q3301 ==
  [start |-> Talk(Leave, Leave, {To(-1, Mute(0))}),
   end |-> Talk(Leave, Leave, {Says(0, "menu"), Ends(0, <<>>), Ends(1, <<"has", "take", "complete">>)})]

Q3303 ==
  [start |-> Talk(Leave, Leave, {To(-1, Mute(0))}),
   end |-> Talk(Leave, Leave, {Says(0, "menu"), Ends(0, <<>>), Ends(1, <<"has", "take", "complete">>)})]

Q3306 ==
  [start |-> Talk(Leave, -1, {Says(0, "ask"), Ends(1, <<"start">>)}),
   end |-> Talk(Leave, Leave, {Ends(0, <<"fits", "has", "rich", "take", "pay", "give", "complete">>),
        Ends(0, <<>>)})]

Q3311 ==
  [start |-> NoTalk,
   end |-> Talk(Leave, Leave, {Ends(0, <<"exp", "complete">>), Ends(0, <<>>)})]

Q3314 ==
  [start |-> NoTalk,
   end |-> Talk(Leave, Leave, {Fails(0, <<>>)})]

Q3320 ==
  [start |-> Talk(Leave, Leave, {Says(0, "ask"), Ends(1, <<"start", "warp">>)}),
   end |-> NoTalk]

Q3345 ==
  [start |-> NoTalk,
   end |-> Talk(Leave, Leave, {Ends(0, <<"complete", "exp">>), Ends(0, <<>>)})]

Q3354 ==
  [start |-> Talk(Leave, Leave, {Says(0, "ask"), Ends(1, <<"start">>)}),
   end |-> NoTalk]

Q3382 ==
  [start |-> NoTalk,
   end |-> Talk(Leave, Leave, {Ends(0, <<"has", "fits", "take", "give", "complete">>), Fails(0, <<>>),
        Ends(0, <<>>)})]

Q3414 ==
  [start |-> NoTalk,
   end |-> Talk(Leave, Leave, {Says(0, "next"), Fails(1, <<>>), Ends(1, <<>>)})]

Q3414_free10rate ==
  [start |-> NoTalk,
   end |-> Talk(Leave, Leave, {Says(0, "next"), Fails(1, <<>>)})]

Q3437 ==
  [start |-> NoTalk,
   end |-> Talk(Leave, Leave, {Says(0, "next"), Fails(1, <<>>), Ends(1, <<>>)})]

Q3452 ==
  [start |-> NoTalk,
   end |-> Talk(Leave, Leave, {Says(0, "next"), Ends(1, <<"fits", "take", "give", "exp", "complete">>),
        Ends(1, <<>>)})]

Q3454 ==
  [start |-> NoTalk,
   end |-> Talk(Leave, Leave, {Ends(0, <<"fits", "take", "give", "complete">>), Ends(0, <<>>)})]

Q3507 ==
  [start |-> NoTalk,
   end |-> Talk(Leave, Leave, {Ends(0, <<"complete">>), Ends(0, <<>>)})]

Q3514 ==
  [start |-> Talk(Leave, Leave, {Ends(0, <<"rich", "fits", "give", "pay", "start">>), Ends(0, <<>>)}),
   end |-> Talk(Leave, Leave, {Fails(0, <<>>)})]

Q3523 ==
  [start |-> Talk(Leave, Leave, {Ends(0, <<"start", "complete">>)}),
   end |-> NoTalk]

Q3524 ==
  [start |-> Talk(Leave, Leave, {Ends(0, <<"start", "complete">>)}),
   end |-> NoTalk]

Q3525 ==
  [start |-> Talk(Leave, Leave, {Ends(0, <<"start", "complete">>)}),
   end |-> NoTalk]

Q3526 ==
  [start |-> Talk(Leave, Leave, {Ends(0, <<"start", "complete">>)}),
   end |-> NoTalk]

Q3527 ==
  [start |-> Talk(Leave, Leave, {Ends(0, <<"start", "complete">>)}),
   end |-> NoTalk]

Q3529 ==
  [start |-> Talk(Leave, Leave, {Says(0, "ok")}),
   end |-> NoTalk]

Q3539 ==
  [start |-> Talk(Leave, Leave, {Ends(0, <<"start", "complete">>)}),
   end |-> NoTalk]

Q3714 ==
  [start |-> Talk(Leave, Leave, {Says(0, "next"), Ends(0, <<>>),
        Ends(1, <<"fits", "take", "give", "exp", "complete">>), Ends(1, <<>>)}),
   end |-> NoTalk]

Q3833 ==
  [start |-> NoTalk,
   end |-> Talk(Leave, Leave, {Says(0, "ok")})]

Q3926 ==
  [start |-> NoTalk,
   end |-> Talk(Leave, Leave, {Ends(0, <<"exp", "complete">>), Ends(0, <<>>)})]

Q3929 ==
  [start |-> NoTalk,
   end |-> Talk(Leave, Leave, {Ends(0, <<"exp", "complete">>), Fails(0, <<>>)})]

Q3941 ==
  [start |-> Talk(Leave, Leave, {Fails(0, <<>>)}),
   end |-> Talk(Leave, Leave, {Fails(0, <<>>)})]

Q4647 ==
  [start |-> Talk(Leave, Leave, {Ends(0, <<>>)}),
   end |-> Talk(Leave, Leave, {Ends(0, <<"has", "skill", "take", "complete">>), Ends(0, <<>>)})]

Q4659 ==
  [start |-> Talk(Leave, Leave, {To(-1, Mute(0))}),
   end |-> Talk(Leave, Leave, {Says(0, "next"), Ends(0, <<>>), Fails(1, <<"take", "pay">>), Fails(1, <<>>),
        Ends(1, <<>>)})]

Q6006 ==
  [start |-> Talk(Leave, Leave, {Ends(0, <<>>)}),
   end |-> Talk(Leave, Leave, {Ends(0, <<"take", "pay", "give", "complete">>)})]

Q8221 ==
  [start |-> Talk(Leave, Leave, {Says(0, "ask"), Ends(1, <<"start">>)}),
   end |-> NoTalk]

Q8222 ==
  [start |-> Talk(Leave, Leave, {Ends(0, <<"start">>)}),
   end |-> Talk(Leave, Leave, {Ends(0, <<"has", "exp", "complete", "take">>), Ends(0, <<>>)})]

Q8223 ==
  [start |-> Talk(Leave, Leave, {Says(0, "ask"), Ends(1, <<"start">>)}),
   end |-> NoTalk]

Q8224 ==
  [start |-> Talk(Leave, Leave, {Says(0, "ask"), Ends(1, <<"start">>)}),
   end |-> NoTalk]

Q8225 ==
  [start |-> Talk(Leave, Leave, {Says(0, "ask"), Ends(1, <<"start">>)}),
   end |-> NoTalk]

Q8226 ==
  [start |-> Talk(Leave, Leave, {Says(0, "ask"), Ends(1, <<"start">>)}),
   end |-> NoTalk]

Q8227 ==
  [start |-> Talk(Leave, Leave, {Says(0, "ask"), Ends(1, <<"fits", "give", "start">>), Ends(1, <<>>)}),
   end |-> Talk(Leave, Leave, {Ends(0, <<"has", "take", "complete">>), Ends(0, <<>>)})]

Q8228 ==
  [start |-> Talk(Leave, Leave, {Says(0, "ask"), Ends(1, <<"fits", "give", "start">>), Ends(1, <<>>)}),
   end |-> Talk(Leave, Leave, {Ends(0, <<"has", "take", "complete">>), Ends(0, <<>>)})]

Q8230 ==
  [start |-> Talk(Leave, Leave, {Says(0, "ask"), Ends(1, <<"start">>)}),
   end |-> Talk(Leave, Leave, {Ends(0, <<"complete">>), Ends(0, <<>>)})]

Q8231 ==
  [start |-> Talk(Leave, Leave, {Says(0, "ask"), Ends(1, <<"start">>)}),
   end |-> NoTalk]

Q8232 ==
  [start |-> Talk(Leave, Leave, {Says(0, "ask"), Ends(1, <<"start">>)}),
   end |-> NoTalk]

Q8233 ==
  [start |-> Talk(Leave, Leave, {Says(0, "ask"), Ends(1, <<"start">>)}),
   end |-> NoTalk]

Q8234 ==
  [start |-> Talk(Leave, Leave, {Says(0, "ask"), Ends(1, <<"start">>)}),
   end |-> NoTalk]

Q8235 ==
  [start |-> Talk(Leave, Leave, {Says(0, "ask"), Ends(1, <<"start">>)}),
   end |-> NoTalk]

Q8236 ==
  [start |-> Talk(Leave, Leave, {Says(0, "ask"), Ends(1, <<"start">>)}),
   end |-> NoTalk]

Q8237 ==
  [start |-> Talk(Leave, Leave, {Says(0, "ask"), Ends(1, <<"start">>)}),
   end |-> NoTalk]

Q8238 ==
  [start |-> Talk(Leave, Leave, {Says(0, "ask"), Ends(1, <<"start">>)}),
   end |-> NoTalk]

Q8239 ==
  [start |-> Talk(Leave, Leave, {Says(0, "ask"), Ends(1, <<"start">>)}),
   end |-> Talk(Leave, Leave, {Ends(0, <<"give", "exp", "complete">>)})]

Q8248 ==
  [start |-> Talk(Leave, Leave, {Does(0, <<"start", "complete">>, "none")}),
   end |-> Talk(Leave, Leave, {Does(0, <<"complete">>, "none")})]

Q8255 ==
  [start |-> Talk(Leave, Leave, {Does(0, <<"start", "complete">>, "none")}),
   end |-> Talk(Leave, Leave, {Does(0, <<"complete">>, "none")})]

Q10940 ==
  [start |-> Talk(Leave, Leave, {Says(0, "ask"), Ends(1, <<"start", "complete", "give">>)}),
   end |-> NoTalk]

Q20100 ==
  [start |-> Talk(Leave, Leave, {Says(0, "ask"), Ends(1, <<"start", "complete">>)}),
   end |-> NoTalk]

Q20101 ==
  [start |-> NoTalk,
   end |-> Talk(Leave, Leave, {Says(0, "ask"), Fails(1, <<>>)})]

Q20102 ==
  [start |-> NoTalk,
   end |-> Talk(Leave, Leave, {Says(0, "ask"), Fails(1, <<>>)})]

Q20103 ==
  [start |-> NoTalk,
   end |-> Talk(Leave, Leave, {Says(0, "ask"), Fails(1, <<>>)})]

Q20104 ==
  [start |-> NoTalk,
   end |-> Talk(Leave, Leave, {Says(0, "ask"), Fails(1, <<>>)})]

Q20105 ==
  [start |-> NoTalk,
   end |-> Talk(Leave, Leave, {Says(0, "ask"), Fails(1, <<>>)})]

Q20200 ==
  [start |-> Talk(Leave, Leave, {Says(0, "ask"), Ends(1, <<"start", "complete">>)}),
   end |-> NoTalk]

Q20400 ==
  [start |-> Talk(Leave, Leave, {Says(0, "next"), Ends(1, <<"complete">>)}),
   end |-> NoTalk]

Q20401 ==
  [start |-> Talk(Leave, Leave, {Says(0, "next"), Ends(1, <<"complete">>)}),
   end |-> NoTalk]

Q20406 ==
  [start |-> Talk(Leave, Leave, {Says(0, "next"), Ends(1, <<"complete">>)}),
   end |-> NoTalk]

Q20527 ==
  [start |-> Talk(Leave, Leave, {Ends(0, <<"complete">>), Ends(0, <<>>)}),
   end |-> NoTalk]

Q20600 ==
  [start |-> Talk(Leave, Leave, {Says(0, "ask"), Ends(1, <<"start">>)}),
   end |-> Talk(Leave, Leave, {Ends(0, <<>>)})]

Q20610 ==
  [start |-> Talk(Leave, Leave, {Says(0, "ask"), Ends(1, <<"start">>)}),
   end |-> Talk(Leave, Leave, {Ends(0, <<>>)})]

Q20710 ==
  [start |-> Talk(Leave, Leave, {Says(0, "ask"), Ends(1, <<"start">>)}),
   end |-> NoTalk]

Q20720 ==
  [start |-> Talk(Leave, Leave, {Says(0, "ask"), Ends(1, <<"start">>)}),
   end |-> Talk(Leave, Leave, {To(-1, Mute(0))})]

Q21400 ==
  [start |-> Talk(Leave, Leave, {Says(0, "ask"), Ends(1, <<"start">>)}),
   end |-> NoTalk]

Q21728 ==
  [start |-> NoTalk,
   end |-> Talk(Leave, Leave, {Ends(0, <<"exp", "complete">>), Ends(0, <<>>)})]

Q21729 ==
  [start |-> Talk(Leave, Leave, {Says(0, "next"), Ends(1, <<"start">>)}),
   end |-> NoTalk]

Q21739 ==
  [start |-> NoTalk,
   end |-> Talk(Leave, Leave, {Says(0, "next"), Ends(1, <<"exp", "complete">>)})]

Q21750 ==
  [start |-> NoTalk,
   end |-> Talk(Leave, Leave, {Says(0, "next"), Ends(1, <<"complete">>)})]

Q21753 ==
  [start |-> Talk(Leave, Leave, {Says(0, "next"), Ends(1, <<"start">>)}),
   end |-> NoTalk]

Q21754 ==
  [start |-> Talk(Leave, Leave, {Says(0, "next"), Ends(0, <<>>), Ends(1, <<"start", "give">>)}),
   end |-> NoTalk]

Q21757 ==
  [start |-> NoTalk,
   end |-> Talk(Leave, Leave, {Says(0, "next"), Ends(1, <<"exp", "take", "complete">>)})]

Q21767 ==
  [start |-> Talk(Leave, Leave, {Ends(0, <<"start">>), Says(0, "next"), Ends(1, <<"give", "start">>)}),
   end |-> NoTalk]

Q22101s ==
  [start |-> Talk(Leave, Leave, {Ends(0, <<"job", "sp", "complete">>)}),
   end |-> NoTalk]

Q22102s ==
  [start |-> Talk(Leave, Leave, {Ends(0, <<"job", "sp", "skill", "start", "complete">>)}),
   end |-> NoTalk]

Q22103s ==
  [start |-> Talk(Leave, Leave, {Ends(0, <<"job", "sp", "start", "complete">>)}),
   end |-> NoTalk]

Q22104s ==
  [start |-> Talk(Leave, Leave, {Ends(0, <<"job", "sp", "start", "complete">>)}),
   end |-> NoTalk]

Q22105s ==
  [start |-> Talk(Leave, Leave, {Ends(0, <<"job", "sp", "skill", "start", "complete">>)}),
   end |-> NoTalk]

Q22106s ==
  [start |-> Talk(Leave, Leave, {Ends(0, <<"job", "sp", "start", "complete">>)}),
   end |-> NoTalk]

Q22107s ==
  [start |-> Talk(Leave, Leave, {Ends(0, <<"job", "sp", "start", "complete">>)}),
   end |-> NoTalk]

Q22108s ==
  [start |-> Talk(Leave, Leave, {Ends(0, <<"job", "sp", "start", "complete">>)}),
   end |-> NoTalk]

Q22109s ==
  [start |-> Talk(Leave, Leave, {Ends(0, <<"job", "sp", "start", "complete">>)}),
   end |-> NoTalk]

Q22502 ==
  [start |-> Talk(Leave, Leave, {Says(0, "ask"), Ends(1, <<"start">>)}),
   end |-> NoTalk]

Q28002 ==
  [start |-> Talk(Leave, Leave, {Says(0, "ask"), Ends(1, <<"start", "complete">>)}),
   end |-> Talk(Leave, Leave, {Ends(0, <<"complete">>)})]

Q28003 ==
  [start |-> Talk(Leave, Leave, {Says(0, "ask"), Ends(1, <<"start", "give">>)}),
   end |-> Talk(Leave, Leave, {Ends(0, <<"take", "give", "complete">>)})]

Q29900 ==
  [start |-> Talk(Leave, Leave, {Ends(0, <<"start">>)}),
   end |-> Talk(Leave, Leave, {Says(0, "next"), Ends(1, <<"fits", "give", "complete">>), Ends(1, <<>>)})]

Q29901 ==
  [start |-> Talk(Leave, Leave, {Ends(0, <<"start">>)}),
   end |-> Talk(Leave, Leave, {Says(0, "next"), Ends(1, <<"fits", "give", "complete">>), Ends(1, <<>>)})]

Q29902 ==
  [start |-> Talk(Leave, Leave, {Ends(0, <<"start">>)}),
   end |-> Talk(Leave, Leave, {Says(0, "next"), Ends(1, <<"fits", "give", "complete">>), Ends(1, <<>>)})]

Q29903 ==
  [start |-> Talk(Leave, Leave, {Ends(0, <<"start">>)}),
   end |-> Talk(Leave, Leave, {Says(0, "next"), Ends(1, <<"fits", "give", "complete">>), Ends(1, <<>>)})]

Q29906 ==
  [start |-> Talk(Leave, Leave, {Ends(0, <<"start">>), Ends(0, <<>>)}),
   end |-> Talk(Leave, Leave, {Ends(0, <<"fits", "give", "start", "complete">>), Ends(0, <<>>)})]

Q29907 ==
  [start |-> Talk(Leave, Leave, {Ends(0, <<"start">>), Ends(0, <<>>)}),
   end |-> Talk(Leave, Leave, {Ends(0, <<"fits", "give", "start", "complete">>), Ends(0, <<>>)})]

Q29908 ==
  [start |-> Talk(Leave, Leave, {Ends(0, <<"start">>), Ends(0, <<>>)}),
   end |-> Talk(Leave, Leave, {Ends(0, <<"fits", "give", "start", "complete">>), Ends(0, <<>>)})]

Q29909 ==
  [start |-> Talk(Leave, Leave, {Ends(0, <<"start">>), Ends(0, <<>>)}),
   end |-> Talk(Leave, Leave, {Ends(0, <<"fits", "give", "start", "complete">>), Ends(0, <<>>)})]

Q29915 ==
  [start |-> Talk(Leave, Leave, {Ends(0, <<>>)}),
   end |-> Talk(Leave, Leave, {Ends(0, <<>>)})]

Q29924 ==
  [start |-> Talk(Leave, Leave, {Fails(0, <<"fits", "give">>), Fails(0, <<>>), Ends(0, <<>>)}),
   end |-> Talk(Leave, Leave, {Fails(0, <<"fits", "give">>), Fails(0, <<>>), Ends(0, <<>>)})]

Q29925 ==
  [start |-> Talk(Leave, Leave, {Ends(0, <<>>)}),
   end |-> Talk(Leave, Leave, {Ends(0, <<>>)})]

Q29926 ==
  [start |-> Talk(Leave, Leave, {Ends(0, <<>>)}),
   end |-> Talk(Leave, Leave, {Ends(0, <<>>)})]

Q29927 ==
  [start |-> Talk(Leave, Leave, {Ends(0, <<>>)}),
   end |-> Talk(Leave, Leave, {Ends(0, <<>>)})]

Q29928 ==
  [start |-> Talk(Leave, Leave, {Ends(0, <<>>)}),
   end |-> Talk(Leave, Leave, {Ends(0, <<>>)})]

Q29934s ==
  [start |-> Talk(Leave, Leave, {Does(0, <<"start", "complete", "give">>, "none")}),
   end |-> NoTalk]

Q29935s ==
  [start |-> Talk(Leave, Leave, {Does(0, <<"start", "complete">>, "none")}),
   end |-> NoTalk]

Q29936s ==
  [start |-> Talk(Leave, Leave, {Does(0, <<"start", "complete">>, "none")}),
   end |-> NoTalk]

Q29937s ==
  [start |-> Talk(Leave, Leave, {Does(0, <<"start", "complete">>, "none")}),
   end |-> NoTalk]

BriefQuestsTable ==
  [medalQuest |-> medalQuest, unidentifiedQuest |-> unidentifiedQuest, Q2001 |-> Q2001,
   Q2017 |-> Q2017, Q2034 |-> Q2034, Q2124 |-> Q2124, Q2126 |-> Q2126, Q2127 |-> Q2127,
   Q2148 |-> Q2148, Q2149 |-> Q2149, Q2150 |-> Q2150, Q2151 |-> Q2151, Q2152 |-> Q2152,
   Q2186 |-> Q2186, Q2197 |-> Q2197, Q2214 |-> Q2214, Q2215 |-> Q2215, Q2216 |-> Q2216,
   Q2217 |-> Q2217, Q2218 |-> Q2218, Q2219 |-> Q2219, Q2228 |-> Q2228, Q2236 |-> Q2236,
   Q2238 |-> Q2238, Q2245 |-> Q2245, Q2251 |-> Q2251, Q2254 |-> Q2254, Q2257 |-> Q2257,
   Q2291 |-> Q2291, Q2313 |-> Q2313, Q2332 |-> Q2332, Q2338 |-> Q2338, Q2342 |-> Q2342,
   Q3108 |-> Q3108, Q3114 |-> Q3114, Q3239 |-> Q3239, Q3301 |-> Q3301, Q3303 |-> Q3303,
   Q3306 |-> Q3306, Q3311 |-> Q3311, Q3314 |-> Q3314, Q3320 |-> Q3320, Q3345 |-> Q3345,
   Q3354 |-> Q3354, Q3382 |-> Q3382, Q3414 |-> Q3414, Q3414_free10rate |-> Q3414_free10rate,
   Q3437 |-> Q3437, Q3452 |-> Q3452, Q3454 |-> Q3454, Q3507 |-> Q3507, Q3514 |-> Q3514,
   Q3523 |-> Q3523, Q3524 |-> Q3524, Q3525 |-> Q3525, Q3526 |-> Q3526, Q3527 |-> Q3527,
   Q3529 |-> Q3529, Q3539 |-> Q3539, Q3714 |-> Q3714, Q3833 |-> Q3833, Q3926 |-> Q3926,
   Q3929 |-> Q3929, Q3941 |-> Q3941, Q4647 |-> Q4647, Q4659 |-> Q4659, Q6006 |-> Q6006,
   Q8221 |-> Q8221, Q8222 |-> Q8222, Q8223 |-> Q8223, Q8224 |-> Q8224, Q8225 |-> Q8225,
   Q8226 |-> Q8226, Q8227 |-> Q8227, Q8228 |-> Q8228, Q8230 |-> Q8230, Q8231 |-> Q8231,
   Q8232 |-> Q8232, Q8233 |-> Q8233, Q8234 |-> Q8234, Q8235 |-> Q8235, Q8236 |-> Q8236,
   Q8237 |-> Q8237, Q8238 |-> Q8238, Q8239 |-> Q8239, Q8248 |-> Q8248, Q8255 |-> Q8255,
   Q10940 |-> Q10940, Q20100 |-> Q20100, Q20101 |-> Q20101, Q20102 |-> Q20102, Q20103 |-> Q20103,
   Q20104 |-> Q20104, Q20105 |-> Q20105, Q20200 |-> Q20200, Q20400 |-> Q20400, Q20401 |-> Q20401,
   Q20406 |-> Q20406, Q20527 |-> Q20527, Q20600 |-> Q20600, Q20610 |-> Q20610, Q20710 |-> Q20710,
   Q20720 |-> Q20720, Q21400 |-> Q21400, Q21728 |-> Q21728, Q21729 |-> Q21729, Q21739 |-> Q21739,
   Q21750 |-> Q21750, Q21753 |-> Q21753, Q21754 |-> Q21754, Q21757 |-> Q21757, Q21767 |-> Q21767,
   Q22101s |-> Q22101s, Q22102s |-> Q22102s, Q22103s |-> Q22103s, Q22104s |-> Q22104s,
   Q22105s |-> Q22105s, Q22106s |-> Q22106s, Q22107s |-> Q22107s, Q22108s |-> Q22108s,
   Q22109s |-> Q22109s, Q22502 |-> Q22502, Q28002 |-> Q28002, Q28003 |-> Q28003,
   Q29900 |-> Q29900, Q29901 |-> Q29901, Q29902 |-> Q29902, Q29903 |-> Q29903, Q29906 |-> Q29906,
   Q29907 |-> Q29907, Q29908 |-> Q29908, Q29909 |-> Q29909, Q29915 |-> Q29915, Q29924 |-> Q29924,
   Q29925 |-> Q29925, Q29926 |-> Q29926, Q29927 |-> Q29927, Q29928 |-> Q29928,
   Q29934s |-> Q29934s, Q29935s |-> Q29935s, Q29936s |-> Q29936s, Q29937s |-> Q29937s]

===============================================================================
