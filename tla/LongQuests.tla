--------------------------- MODULE LongQuests ---------------------------
(***************************************************************************)
(* The quests whose script shows more than a page (scripts/quest): what    *)
(* the starting and the ending npc of each says and does. ScriptRows tells *)
(* how a table reads.                                                      *)
(***************************************************************************)
EXTENDS ScriptRows

Q1021 ==
  [start |-> Talk(-1, Leave, Text(0, <<"next", "both", "ask">>) \cup {Does(3, <<"give", "start">>, "next"),
        Does(3, <<"start">>, "next"), Fails(3, <<>>), Says(4, "both"), Ends(5, <<>>)}),
   end |-> Talk(-1, Leave, Text(0, <<"next", "both", "both">>) \cup {Ends(0, <<>>),
        Ends(3, <<"fits", "exp", "give", "complete">>), Fails(3, <<>>)})]

Q2053 ==
  [start |-> Talk(Leave, Leave, {Says(0, "ask"), Does(1, <<"start">>, "next"), Ends(2, <<>>)}),
   end |-> Talk(Leave, Leave, {Says(0, "next"), Does(1, <<"complete", "take", "give", "exp">>, "ok")})]

Q2156 ==
  [start |-> Talk(-1, -1, Text(0, <<"next", "both", "ask">>) \cup {Ends(3, <<"start">>)}),
   end |-> Talk(-1, Leave, Text(0, <<"next", "both">>) \cup {Ends(0, <<>>),
        Ends(2, <<"complete", "take", "exp", "meso", "fame">>)})]

Q2230 ==
  [start |-> Talk(Leave, -1, Text(0, <<"next", "ask">>) \cup {Does(2, <<"start", "give">>, "ok")}),
   end |-> Talk(-1, Leave, Text(0, <<"menu", "next", "both", "both", "both", "ask">>) \cup
        {Ends(6, <<"give", "take", "complete">>)})]

Q2258 ==
  [start |-> Talk(Leave, Leave, Text(0, <<"ask", "next">>) \cup {Ends(2, <<"start">>)}),
   end |-> Talk(Leave, Leave, {Says(0, "next"), Ends(1, <<"complete">>)})]

Q2259 ==
  [start |-> Talk(Leave, Leave, {Says(0, "next"), Ends(1, <<"start">>)}),
   end |-> Talk(Leave, Leave, {Says(0, "next"), Ends(0, <<>>), Ends(1, <<"complete">>)})]

Q2260 ==
  [start |-> Talk(Leave, Leave, {Says(0, "next"), Ends(1, <<"start">>)}),
   end |-> Talk(Leave, Leave, {Says(0, "next"), Ends(0, <<>>), Ends(1, <<"complete">>)})]

Q2293 ==
  [start |-> Talk(Leave, Leave, {Ends(0, <<"start">>)}),
   end |-> Talk(Leave, -1, Text(0, <<"menu", "number">>) \cup {To(-1, Says(1, "ok")),
        Ends(2, <<"exp", "complete">>), Mute(2), Ends(2, <<>>)})]

Q2300 ==
  [start |-> Talk(Leave, 1, Text(2, <<"next", "ask">>) \cup {Says(0, "ask"), On({"yes"}, Says(1, "next")),
        On({"no"}, Ends(1, <<>>)), On({"yes"}, Ends(4, <<"fits", "give", "warp", "start">>)),
        On({"yes"}, Ends(4, <<"warp", "start">>)), On({"no"}, Says(4, "next")), Ends(4, <<>>),
        Ends(5, <<"give", "start">>), Ends(5, <<"start">>)}),
   end |-> Talk(-1, Leave, Text(0, <<"next", "both">>) \cup {Ends(0, <<>>),
        Ends(2, <<"take", "exp", "complete", "quest">>)})]

Q2301 ==
  [start |-> Talk(Leave, 1, Text(2, <<"next", "ask">>) \cup {Says(0, "ask"), On({"yes"}, Says(1, "next")),
        On({"no"}, Ends(1, <<>>)), On({"yes"}, Ends(4, <<"fits", "give", "warp", "start">>)),
        On({"yes"}, Ends(4, <<"warp", "start">>)), On({"no"}, Says(4, "next")), Ends(4, <<>>),
        Ends(5, <<"give", "start">>), Ends(5, <<"start">>)}),
   end |-> Talk(-1, Leave, Text(0, <<"next", "both">>) \cup {Ends(0, <<>>),
        Ends(2, <<"take", "exp", "complete", "quest">>)})]

Q2302 ==
  [start |-> Talk(Leave, 1, Text(2, <<"next", "ask">>) \cup {Says(0, "ask"), On({"yes"}, Says(1, "next")),
        On({"no"}, Ends(1, <<>>)), On({"yes"}, Ends(4, <<"fits", "give", "warp", "start">>)),
        On({"yes"}, Ends(4, <<"warp", "start">>)), On({"no"}, Says(4, "next")), Ends(4, <<>>),
        Ends(5, <<"give", "start">>), Ends(5, <<"start">>)}),
   end |-> Talk(-1, Leave, Text(0, <<"next", "both">>) \cup {Ends(0, <<>>),
        Ends(2, <<"take", "exp", "complete", "quest">>)})]

Q2303 ==
  [start |-> Talk(Leave, 1, Text(2, <<"next", "ask">>) \cup {Says(0, "ask"), On({"yes"}, Says(1, "next")),
        On({"no"}, Ends(1, <<>>)), On({"yes"}, Ends(4, <<"fits", "give", "warp", "start">>)),
        On({"yes"}, Ends(4, <<"warp", "start">>)), On({"no"}, Says(4, "next")), Ends(4, <<>>),
        Ends(5, <<"give", "start">>), Ends(5, <<"start">>)}),
   end |-> Talk(-1, Leave, Text(0, <<"next", "both">>) \cup {Ends(0, <<>>),
        Ends(2, <<"take", "exp", "complete", "quest">>)})]

Q2304 ==
  [start |-> Talk(Leave, 1, Text(2, <<"next", "ask">>) \cup {Says(0, "ask"), On({"yes"}, Says(1, "next")),
        On({"no"}, Ends(1, <<>>)), On({"yes"}, Ends(4, <<"fits", "give", "warp", "start">>)),
        On({"yes"}, Ends(4, <<"warp", "start">>)), On({"no"}, Says(4, "next")), Ends(4, <<>>),
        Ends(5, <<"give", "start">>), Ends(5, <<"start">>)}),
   end |-> Talk(-1, Leave, Text(0, <<"next", "both">>) \cup {Ends(0, <<>>),
        Ends(2, <<"take", "exp", "complete", "quest">>)})]

Q2305 ==
  [start |-> Talk(Leave, 1, Text(2, <<"next", "ask">>) \cup {Says(0, "ask"), On({"yes"}, Says(1, "next")),
        On({"no"}, Ends(1, <<>>)), On({"yes"}, Ends(4, <<"fits", "give", "warp", "start">>)),
        On({"yes"}, Ends(4, <<"warp", "start">>)), On({"no"}, Says(4, "next")), Ends(4, <<>>),
        Ends(5, <<"give", "start">>), Ends(5, <<"start">>)}),
   end |-> Talk(-1, Leave, Text(0, <<"next", "both">>) \cup {Ends(0, <<>>),
        Ends(2, <<"take", "exp", "complete", "quest">>)})]

Q2306 ==
  [start |-> Talk(Leave, 1, Text(2, <<"next", "ask">>) \cup {Says(0, "ask"), On({"yes"}, Says(1, "next")),
        On({"no"}, Ends(1, <<>>)), On({"yes"}, Ends(4, <<"fits", "give", "warp", "start">>)),
        On({"yes"}, Ends(4, <<"warp", "start">>)), On({"no"}, Says(4, "next")), Ends(4, <<>>),
        Ends(5, <<"give", "start">>), Ends(5, <<"start">>)}),
   end |-> Talk(-1, Leave, Text(0, <<"next", "both">>) \cup {Ends(0, <<>>),
        Ends(2, <<"take", "exp", "complete", "quest">>)})]

Q2307 ==
  [start |-> Talk(Leave, 1, Text(2, <<"next", "ask">>) \cup {Says(0, "ask"), On({"yes"}, Says(1, "next")),
        On({"no"}, Ends(1, <<>>)), On({"yes"}, Ends(4, <<"fits", "give", "warp", "start">>)),
        On({"yes"}, Ends(4, <<"warp", "start">>)), On({"no"}, Says(4, "next")), Ends(4, <<>>),
        Ends(5, <<"give", "start">>), Ends(5, <<"start">>)}),
   end |-> Talk(-1, Leave, Text(0, <<"next", "both">>) \cup {Ends(0, <<>>),
        Ends(2, <<"take", "exp", "complete", "quest">>)})]

Q2308 ==
  [start |-> Talk(Leave, 1, Text(2, <<"next", "ask">>) \cup {Says(0, "ask"), On({"yes"}, Says(1, "next")),
        On({"no"}, Ends(1, <<>>)), On({"yes"}, Ends(4, <<"fits", "give", "warp", "start">>)),
        On({"yes"}, Ends(4, <<"warp", "start">>)), On({"no"}, Says(4, "next")), Ends(4, <<>>),
        Ends(5, <<"give", "start">>), Ends(5, <<"start">>)}),
   end |-> Talk(-1, Leave, Text(0, <<"next", "both">>) \cup {Ends(0, <<>>),
        Ends(2, <<"take", "exp", "complete", "quest">>)})]

Q2309 ==
  [start |-> Talk(Leave, 1, Text(2, <<"next", "ask">>) \cup {Says(0, "ask"), On({"yes"}, Says(1, "next")),
        On({"no"}, Ends(1, <<>>)), On({"yes"}, Ends(4, <<"fits", "give", "warp", "start">>)),
        On({"yes"}, Ends(4, <<"warp", "start">>)), On({"no"}, Says(4, "next")), Ends(4, <<>>),
        Ends(5, <<"give", "start">>), Ends(5, <<"start">>)}),
   end |-> Talk(-1, Leave, Text(0, <<"next", "both">>) \cup {Ends(0, <<>>),
        Ends(2, <<"take", "exp", "complete", "quest">>)})]

Q2310 ==
  [start |-> Talk(Leave, 1, Text(2, <<"next", "ask">>) \cup {Says(0, "ask"), On({"yes"}, Says(1, "next")),
        On({"no"}, Ends(1, <<>>)), On({"yes"}, Ends(4, <<"fits", "give", "warp", "start">>)),
        On({"yes"}, Ends(4, <<"warp", "start">>)), On({"no"}, Says(4, "next")), Ends(4, <<>>),
        Ends(5, <<"give", "start">>), Ends(5, <<"start">>)}),
   end |-> Talk(-1, Leave, Text(0, <<"next", "both">>) \cup {Ends(0, <<>>),
        Ends(2, <<"take", "exp", "complete", "quest">>)})]

Q2312 ==
  [start |-> Talk(Leave, Leave, {Says(0, "ask"), Ends(1, <<"start">>)}),
   end |-> Talk(Leave, Leave, {Says(0, "ok")})]

Q2314 ==
  [start |-> Talk(Leave, Leave, Text(0, <<"ask", "next">>) \cup {Ends(2, <<"exp", "complete">>)}),
   end |-> Talk(Leave, Leave, {Says(0, "ok")})]

Q2315 ==
  [start |-> Talk(Leave, Leave, {Says(0, "ask"), Ends(1, <<"start">>)}),
   end |-> Talk(Leave, Leave, {Says(0, "ok")})]

Q2316 ==
  [start |-> Talk(Leave, Leave, {Says(0, "ask"), Ends(1, <<"start">>)}),
   end |-> Talk(Leave, Leave, {Says(0, "ok")})]

Q2317 ==
  [start |-> Talk(Leave, Leave, {Says(0, "ask"), Ends(1, <<"start">>)}),
   end |-> Talk(Leave, Leave, {Says(0, "ok")})]

Q2318 ==
  [start |-> Talk(Leave, Leave, {Says(0, "ask"), Ends(1, <<"start">>)}),
   end |-> Talk(Leave, Leave, {Says(0, "ok")})]

Q2319 ==
  [start |-> Talk(Leave, Leave, {Says(0, "ask"), Ends(1, <<"start", "give">>)}),
   end |-> Talk(Leave, Leave, {Says(0, "ok")})]

Q2320 ==
  [start |-> Talk(Leave, Leave, {Says(0, "ask"), Ends(1, <<"start", "give">>)}),
   end |-> Talk(Leave, Leave, {Says(0, "ok")})]

Q2321 ==
  [start |-> Talk(Leave, Leave, {Says(0, "ask"), Ends(1, <<"start">>)}),
   end |-> Talk(Leave, Leave, {Says(0, "ok")})]

Q2322 ==
  [start |-> Talk(Leave, Leave, Text(0, <<"ask", "next">>) \cup {Ends(2, <<"exp", "complete">>)}),
   end |-> Talk(Leave, Leave, {Says(0, "ok")})]

Q2325 ==
  [start |-> NoTalk,
   end |-> Talk(-1, Leave, Text(0, <<"next", "both">>) \cup {Ends(2, <<"complete", "exp">>)})]

Q2327 ==
  [start |-> Talk(-1, Leave, Text(0, <<"next", "both">>) \cup {Ends(2, <<"start">>)}),
   end |-> NoTalk]

Q2333 ==
  [start |-> Talk(Leave, Leave, Text(0, <<"ask", "next">>) \cup {Ends(2, <<"start">>)}),
   end |-> Talk(Leave, Leave, {Says(0, "next"), Ends(1, <<"exp", "complete">>)})]

Q2334 ==
  [start |-> Talk(-1, Leave, Text(1, <<"both", "both", "both", "both", "both">>) \cup
        {Does(0, <<"start">>, "next"), Ends(6, <<"start", "exp", "complete">>)}),
   end |-> Talk(Leave, Leave, {To(-1, Mute(0))})]

Q2335 ==
  [start |-> Talk(Leave, -1, Text(0, <<"next", "ask">>) \cup {Does(2, <<"fits", "give">>, "next"),
        Ends(2, <<>>), Ends(3, <<"start">>)}),
   end |-> Talk(Leave, Leave, {To(-1, Mute(0))})]

Q2363e ==
  [start |-> NoTalk,
   end |-> Talk(Leave, Leave, {Says(0, "ask"),
        Does(1, <<"has", "take", "give", "complete", "job", "sp">>, "next"), Mute(1)})]

Q2369e ==
  [start |-> NoTalk,
   end |-> Talk(Leave, Leave, Text(2, <<"next", "next", "next", "next", "ok">>) \cup {Says(0, "next"),
        Does(1, <<"has", "fits", "take", "give", "complete", "job", "sp", "skill">>, "next"), Fails(1, <<>>),
        Mute(1)})]

Q2374e ==
  [start |-> NoTalk,
   end |-> Talk(-1, Leave, Text(0, <<"next", "both">>) \cup
        {Does(2, <<"has", "fits", "take", "give", "complete", "job", "skill">>, "ok"), Fails(2, <<>>),
        Mute(2)})]

Q2560 ==
  [start |-> Talk(-1, Leave, Text(0, <<"next", "both", "ask">>) \cup {Ends(3, <<"start">>)}),
   end |-> NoTalk]

Q2561 ==
  [start |-> Talk(-1, Leave, Text(0, <<"next", "both", "both", "both", "next", "both", "ask">>) \cup
        {Does(7, <<"give", "start">>, "next"), Ends(8, <<>>)}),
   end |-> NoTalk]

Q2568 ==
  [start |-> Talk(Leave, Leave, {Says(0, "ask"), Ends(1, <<"start", "warp">>)}),
   end |-> Talk(Leave, Leave, {Says(0, "next")})]

Q2570 ==
  [start |-> NoTalk,
   end |-> Talk(-1, 1, Text(0, <<"next", "both", "both", "both", "both", "ask">>) \cup
        {Fails(6, <<"give", "job", "complete", "quest", "skill">>)})]

Q2573 ==
  [start |-> Talk(Leave, Leave, Text(0, <<"next", "ask">>) \cup {Ends(2, <<"warp", "complete">>)}),
   end |-> NoTalk]

Q3116s ==
  [start |-> Talk(Leave, -1, Text(0, <<"next", "ask", "next">>) \cup {Ends(3, <<"start">>)}),
   end |-> NoTalk]

Q3321 ==
  [start |-> Talk(-1, Leave, Text(0, <<"next", "both", "ask", "next", "next">>) \cup {Ends(5, <<"start">>)}),
   end |-> NoTalk]

Q3353 ==
  [start |-> Talk(Leave, Leave, Text(0, <<"next", "ask">>) \cup {Ends(2, <<"warp", "start">>)}),
   end |-> NoTalk]

Q3360 ==
  [start |-> Talk(Leave, Leave, Text(0, <<"next", "ask">>) \cup {Fails(2, <<"start">>)}),
   end |-> Talk(Leave, Leave, {Ends(0, <<"complete">>), Ends(0, <<>>)})]

Q3927 ==
  [start |-> NoTalk,
   end |-> Talk(Leave, Leave, Text(0, <<"menu", "menu", "ok">>) \cup {Ends(0, <<>>), Ends(1, <<>>),
        Ends(2, <<>>)})]

Q3933 ==
  [start |-> Talk(Leave, Leave, Text(0, <<"next", "ask", "next">>) \cup {Fails(3, <<>>)}),
   end |-> NoTalk]

Q3953 ==
  [start |-> NoTalk,
   end |-> Talk(Leave, Leave, Text(0, <<"menu", "menu", "menu", "menu">>) \cup
        {Ends(4, <<"take", "exp", "complete">>)})]

Q6030 ==
  [start |-> NoTalk,
   end |-> Talk(-1, Leave, Text(0, <<"next", "both", "both", "both", "both">>) \cup
        {Ends(5, <<"pay", "complete">>)})]

Q6031 ==
  [start |-> NoTalk,
   end |-> Talk(-1, Leave, Text(0, <<"next", "both", "both", "both", "both">>) \cup
        {Ends(5, <<"pay", "complete">>)})]

Q6032 ==
  [start |-> NoTalk,
   end |-> Talk(-1, Leave, Text(0, <<"next", "both", "both", "both">>) \cup {Ends(4, <<"pay", "complete">>)})]

Q6033 ==
  [start |-> NoTalk,
   end |-> Talk(Leave, Leave, Text(0, <<"next", "next">>) \cup {Ends(1, <<>>),
        Ends(2, <<"skill", "exp", "complete">>)})]

Q6036 ==
  [start |-> NoTalk,
   end |-> Talk(Leave, Leave, Text(0, <<"next", "next">>) \cup {Ends(1, <<>>),
        Ends(2, <<"take", "skill", "exp", "complete">>)})]

Q6410 ==
  [start |-> NoTalk,
   end |-> Talk(Leave, Leave, Text(0, <<"next", "next">>) \cup {Ends(0, <<>>),
        Ends(2, <<"exp", "skill", "complete">>)})]

Q7103 ==
  [start |-> Talk(-1, Leave, Text(0, <<"ask", "next", "both", "ask">>) \cup
        {Does(3, <<"fits", "give">>, "ask"), Ends(3, <<>>), Ends(4, <<"start">>)}),
   end |-> NoTalk]

Q8185 ==
  [start |-> NoTalk,
   end |-> Talk(-1, Leave, Text(0, <<"next", "both", "ask", "both">>) \cup {Ends(0, <<>>),
        Fails(4, <<"take", "pay">>), Ends(4, <<>>)})]

Q8189 ==
  [start |-> NoTalk,
   end |-> Talk(-1, -1, Text(0, <<"ask", "both">>) \cup {Ends(0, <<>>), Fails(2, <<"pay", "take">>),
        Ends(2, <<>>)})]

Q8219 ==
  [start |-> Talk(Leave, Leave, {Says(0, "ask"), Ends(1, <<"start">>)}),
   end |-> Talk(Leave, Leave, Text(0, <<"next", "ok">>))]

Q8229 ==
  [start |-> Talk(Leave, Leave, {Says(0, "ask"), Ends(1, <<"fits", "give", "start">>), Ends(1, <<"start">>),
        Ends(1, <<>>)}),
   end |-> Talk(Leave, Leave, {Ends(0, <<>>), Says(0, "ok")})]

Q20000 ==
  [start |-> Talk(Leave, Leave, Text(0, <<"next", "next", "ok">>)),
   end |-> NoTalk]

Q20001 ==
  [start |-> Talk(-1, -1, Text(0, <<"next", "both", "both", "both", "both", "both", "both", "both", "ask">>) \cup
        Text(10, <<"both", "both", "prev">>) \cup
        {On({"back"}, Does(9, <<"exp", "give", "start", "complete">>, "next")),
        On({"yes"}, Does(9, <<"start", "complete">>, "next"))}),
   end |-> NoTalk]

Q20002 ==
  [start |-> Talk(Leave, -1, Text(0, <<"next", "next", "ask">>) \cup
        {Ends(3, <<"exp", "give", "start", "complete">>)}),
   end |-> NoTalk]

Q20008 ==
  [start |-> Talk(Leave, Leave, {Says(0, "menu"), Does(1, <<"start", "complete">>, "menu"), Ends(1, <<>>)}),
   end |-> NoTalk]

Q20010 ==
  [start |-> Talk(-1, Leave, Text(0, <<"next", "both", "ok">>)),
   end |-> Talk(Leave, Leave, {Says(0, "next"), Ends(1, <<"complete">>),
        Ends(1, <<"fits", "give", "exp", "complete">>), Fails(1, <<>>)})]

Q20011 ==
  [start |-> Talk(-1, Leave, Text(0, <<"next", "both", "ask">>) \cup {Ends(3, <<"start">>)}),
   end |-> Talk(-1, Leave, Text(0, <<"next", "both">>) \cup {Ends(2, <<"give", "complete", "exp">>)})]

Q20012 ==
  [start |-> Talk(-1, Leave, Text(0, <<"next", "both", "ask">>) \cup {Ends(3, <<"start">>)}),
   end |-> Talk(Leave, Leave, {Says(0, "next"), Ends(1, <<"take", "complete", "exp">>)})]

Q20013 ==
  [start |-> Talk(-1, Leave, Text(2, <<"both", "both", "ask">>) \cup {Says(0, "next"),
        On({"yes"}, Says(1, "both")), On({"back"}, Ends(1, <<>>)), Ends(5, <<"start">>)}),
   end |-> Talk(-1, Leave, Text(0, <<"next", "both">>) \cup
        {Ends(2, <<"take", "give", "complete", "quest", "exp">>)})]

Q20016 ==
  [start |-> Talk(-1, Leave, Text(0, <<"next", "both", "both", "both", "both", "both", "both", "both", "ask">>) \cup
        Text(10, <<"both", "both">>) \cup {On({"yes"}, Does(9, <<"start", "exp">>, "next")),
        On({"back"}, Says(9, "next")), Ends(12, <<"complete">>)}),
   end |-> Talk(Leave, Leave, {To(-1, Mute(0))})]

Q20017 ==
  [start |-> Talk(-1, Leave, Text(2, <<"both", "ask">>) \cup {Says(0, "next"), On({"yes"}, Says(1, "both")),
        On({"back"}, Ends(1, <<>>)), Ends(4, <<"quest", "start">>)}),
   end |-> Talk(Leave, Leave, {To(-1, Mute(0))})]

\* Mutant: the room for the medal is not looked at.
Q20201Unasked ==
  [start |-> NoTalk,
   end |-> Talk(-1, Leave, Text(0, <<"ask", "next", "both", "prev">>) \cup
        {In({"started"}, Does(1, <<"take", "give", "job", "complete">>, "next")),
        In({"started"}, Ends(1, <<>>))})]

Q20201 ==
  [start |-> NoTalk,
   end |-> Talk(-1, Leave, Text(0, <<"ask", "next", "both", "prev">>) \cup
        {In({"started"}, Does(1, <<"fits", "take", "give", "job", "complete">>, "next")),
        In({"started"}, Ends(1, <<>>))})]

Q20202 ==
  [start |-> NoTalk,
   end |-> Talk(-1, Leave, Text(0, <<"ask", "next", "both", "prev">>) \cup
        {In({"started"}, Does(1, <<"fits", "take", "give", "job", "complete">>, "next")),
        In({"started"}, Ends(1, <<>>))})]

Q20203 ==
  [start |-> NoTalk,
   end |-> Talk(-1, Leave, Text(0, <<"ask", "next", "both", "prev">>) \cup
        {In({"started"}, Does(1, <<"fits", "take", "give", "job", "complete">>, "next")),
        In({"started"}, Ends(1, <<>>))})]

Q20204 ==
  [start |-> NoTalk,
   end |-> Talk(-1, Leave, Text(0, <<"ask", "next", "both", "prev">>) \cup
        {In({"started"}, Does(1, <<"fits", "take", "give", "job", "complete">>, "next")),
        In({"started"}, Ends(1, <<>>))})]

Q20205 ==
  [start |-> NoTalk,
   end |-> Talk(-1, Leave, Text(0, <<"ask", "next", "both", "prev">>) \cup
        {In({"started"}, Does(1, <<"fits", "take", "give", "job", "complete">>, "next")),
        In({"started"}, Ends(1, <<>>))})]

Q20311 ==
  [start |-> Talk(Leave, Leave, Text(0, <<"next", "ask">>) \cup
        {Ends(2, <<"fits", "give", "job", "complete">>), Ends(2, <<>>)}),
   end |-> NoTalk]

Q20312 ==
  [start |-> Talk(Leave, Leave, Text(0, <<"next", "ask">>) \cup
        {Ends(2, <<"fits", "give", "job", "complete">>), Ends(2, <<>>)}),
   end |-> NoTalk]

Q20313 ==
  [start |-> Talk(Leave, Leave, Text(0, <<"next", "ask">>) \cup
        {Ends(2, <<"fits", "give", "job", "complete">>), Ends(2, <<>>)}),
   end |-> NoTalk]

Q20314 ==
  [start |-> Talk(Leave, Leave, Text(0, <<"next", "ask">>) \cup
        {Ends(2, <<"fits", "give", "job", "complete">>), Ends(2, <<>>)}),
   end |-> NoTalk]

Q20315 ==
  [start |-> Talk(Leave, Leave, Text(0, <<"next", "ask">>) \cup
        {Ends(2, <<"fits", "give", "job", "complete">>), Ends(2, <<>>)}),
   end |-> NoTalk]

Q20405 ==
  [start |-> Talk(-1, Leave, Text(0, <<"next", "both">>) \cup {Ends(2, <<"complete">>)}),
   end |-> NoTalk]

Q20408 ==
  [start |-> Talk(-1, Leave, Text(0, <<"next", "both", "ask">>) \cup
        {Does(3, <<"fits", "give", "job", "start", "complete">>, "ok"),
        Does(3, <<"fits", "give", "start", "complete">>, "ok"), Ends(3, <<>>)}),
   end |-> NoTalk]

Q20520 ==
  [start |-> Talk(Leave, Leave, Text(0, <<"next", "ask">>) \cup {Ends(2, <<"start", "complete">>)}),
   end |-> NoTalk]

Q20522 ==
  [start |-> Talk(-1, Leave, Text(0, <<"next", "both", "ask">>) \cup {Ends(3, <<"fits", "start", "give">>),
        Ends(3, <<"start">>), Ends(3, <<>>)}),
   end |-> Talk(Leave, Leave, {Says(0, "next"), Ends(1, <<"has", "complete", "take", "exp">>),
        Ends(1, <<>>)})]

Q20526 ==
  [start |-> Talk(-1, Leave, Text(0, <<"next", "both", "ask">>) \cup {Ends(3, <<"fits", "start", "give">>),
        Ends(3, <<"start">>), Ends(3, <<>>)}),
   end |-> Talk(Leave, Leave, {Says(0, "next"), Ends(1, <<"has", "fits", "give", "take", "pay", "complete">>),
        Ends(1, <<>>)})]

Q20700 ==
  [start |-> Talk(-1, Leave, Text(0, <<"next", "ask">>) \cup {Does(2, <<"complete">>, "next"),
        Says(3, "prev")}),
   end |-> Talk(Leave, Leave, {Ends(0, <<>>)})]

Q21000 ==
  [start |-> Talk(Leave, Leave, Text(2, <<"both", "both">>) \cup {Says(0, "ask"),
        Does(1, <<"start">>, "next"), Ends(4, <<>>)}),
   end |-> Talk(Leave, Leave, {Ends(0, <<"complete">>)})]

Q21001 ==
  [start |-> Talk(Leave, Leave, {Says(0, "ask"), Ends(1, <<"give", "start", "warp">>)}),
   end |-> Talk(Leave, Leave, Text(0, <<"ask", "next", "both", "both", "both", "both", "both", "both">>) \cup
        {Ends(8, <<"take", "complete", "warp">>)})]

Q21010 ==
  [start |-> Talk(1, 1, Text(0, <<"next", "both", "both", "ask">>) \cup {Does(4, <<"give", "start">>, "next"),
        Fails(4, <<>>), Says(5, "both"), Ends(6, <<>>)}),
   end |-> Talk(Leave, Leave, Text(0, <<"next", "ok">>) \cup {Ends(0, <<>>)})]

Q21011 ==
  [start |-> Talk(Leave, Leave, Text(0, <<"next", "both", "both", "ask">>) \cup {Ends(4, <<"start">>)}),
   end |-> Talk(Leave, Leave, Text(0, <<"next", "both", "both", "both", "ask">>) \cup
        {Does(5, <<"fits", "give", "exp", "complete">>, "next"), Fails(5, <<>>), Ends(6, <<>>)})]

Q21012 ==
  [start |-> Talk(Leave, Leave, Text(0, <<"next", "both", "ask">>) \cup {Does(3, <<"start">>, "next"),
        Says(4, "both"), Ends(5, <<>>)}),
   end |-> Talk(Leave, Leave, {Says(0, "ok")})]

Q21013 ==
  [start |-> Talk(Leave, Leave, Text(0, <<"menu", "ask">>) \cup {Does(2, <<"start">>, "next"),
        Ends(3, <<>>)}),
   end |-> Talk(Leave, Leave, {Says(0, "ask"), Does(1, <<"complete", "exp", "take", "give">>, "both"),
        Says(2, "next"), Ends(3, <<>>)})]

Q21015 ==
  [start |-> Talk(-1, Leave, Text(0, <<"next", "both", "ask">>) \cup {Does(3, <<"start">>, "next"),
        Ends(4, <<>>)}),
   end |-> NoTalk]

Q21016 ==
  [start |-> Talk(Leave, Leave, {Says(0, "ask"), Does(1, <<"start">>, "next"), Ends(2, <<>>)}),
   end |-> NoTalk]

Q21017 ==
  [start |-> Talk(-1, 1, Text(0, <<"next", "both", "both", "both", "both", "ask">>) \cup
        {On({"yes", "no"}, Does(6, <<"start">>, "next")), On({"back"}, Says(6, "next")), Says(7, "both"),
        Ends(8, <<>>)}),
   end |-> NoTalk]

Q21018 ==
  [start |-> Talk(Leave, 1, Text(0, <<"next", "ask">>) \cup {Does(2, <<"start">>, "next"), Ends(3, <<>>)}),
   end |-> NoTalk]

Q21100 ==
  [start |-> Talk(-1, 1, Text(0, <<"next", "both", "both", "both", "both", "both", "ask">>) \cup
        {Ends(7, <<"complete">>)}),
   end |-> NoTalk]

Q21101 ==
  [start |-> Talk(-1, Leave, {Says(0, "ask"),
        In({"notStarted"}, Does(1, <<"fits", "give", "job", "act", "complete">>, "both")),
        In({"notStarted"}, Does(1, <<"fits", "give", "job", "act", "skill", "complete">>, "both")),
        In({"notStarted"}, Mute(1)), In({"notStarted"}, Ends(1, <<>>)), Ends(2, <<>>)}),
   end |-> Talk(Leave, Leave, {To(-1, Mute(0))})]

Q21200 ==
  [start |-> Talk(Leave, Leave, {Says(0, "ask"), Ends(1, <<"start">>)}),
   end |-> Talk(Leave, Leave, Text(0, <<"next", "both", "both", "both", "both", "both", "both", "both", "both", "both", "both", "ask">>) \cup
        {Does(12, <<"complete">>, "next"), Ends(13, <<>>)})]

Q21201 ==
  [start |-> NoTalk,
   end |-> Talk(-1, Leave, Text(0, <<"next", "both", "both", "both", "both", "both", "both", "ask">>) \cup
        {Ends(8, <<"fits", "give", "job", "complete">>),
        Ends(8, <<"fits", "give", "job", "skill", "complete">>), Ends(8, <<>>)})]

Q21202 ==
  [start |-> Talk(Leave, Leave, Text(0, <<"next", "both", "both", "both", "ask", "ok">>)),
   end |-> Talk(Leave, Leave, Text(0, <<"next", "both", "ask">>) \cup {Ends(0, <<>>),
        Ends(3, <<"complete", "take">>)})]

Q21300 ==
  [start |-> Talk(Leave, Leave, Text(0, <<"next", "ask">>) \cup {Ends(2, <<"start">>)}),
   end |-> NoTalk]

Q21301 ==
  [start |-> NoTalk,
   end |-> Talk(-1, Leave, Text(0, <<"next", "both", "both", "both", "both", "both">>) \cup
        {Ends(6, <<"complete", "give">>)})]

Q21302 ==
  [start |-> NoTalk,
   end |-> Talk(Leave, Leave, Text(0, <<"next", "both">>) \cup
        {Ends(2, <<"fits", "give", "job", "complete">>),
        Ends(2, <<"fits", "give", "job", "skill", "complete">>),
        Ends(2, <<"fits", "has", "take", "give", "job", "complete">>),
        Ends(2, <<"fits", "has", "take", "give", "job", "skill", "complete">>), Ends(2, <<>>)})]

Q21303 ==
  [start |-> Talk(-1, Leave, Text(0, <<"next", "both", "both", "both">>) \cup {Ends(4, <<"start">>)}),
   end |-> NoTalk]

Q21401 ==
  [start |-> Talk(-1, Leave, Text(0, <<"next", "both", "both", "ask">>) \cup {Ends(4, <<"event", "start">>),
        Ends(4, <<"event">>)}),
   end |-> Talk(Leave, Leave, Text(0, <<"next", "ask">>) \cup
        {Does(2, <<"fits", "give", "job", "complete">>, "next"), Ends(2, <<>>)})]

Q21600 ==
  [start |-> Talk(Leave, Leave, Text(0, <<"next", "ask">>) \cup {Ends(2, <<"start">>)}),
   end |-> NoTalk]

Q21604 ==
  [start |-> Talk(Leave, Leave, Text(0, <<"next", "next">>) \cup {Ends(2, <<"start">>)}),
   end |-> NoTalk]

Q21613 ==
  [start |-> Talk(-1, Leave, Text(0, <<"next", "both", "ask">>) \cup {Ends(3, <<"event", "start">>),
        Ends(3, <<"event">>), Ends(3, <<>>)}),
   end |-> NoTalk]

Q21618 ==
  [start |-> Talk(-1, Leave, Text(0, <<"next", "both", "ask">>) \cup {Ends(3, <<"start">>)}),
   end |-> Talk(Leave, Leave, {Fails(0, <<>>)})]

Q21700 ==
  [start |-> Talk(-1, Leave, Text(0, <<"next", "both", "both", "both", "ask">>) \cup
        {Does(5, <<"give", "start">>, "next"), Ends(6, <<>>)}),
   end |-> Talk(Leave, Leave, {Ends(0, <<>>)})]

Q21703 ==
  [start |-> Talk(-1, Leave, Text(0, <<"next", "both", "both", "both", "both", "both", "ask">>) \cup
        {Ends(7, <<"start">>)}),
   end |-> Talk(-1, Leave, Text(0, <<"next", "both", "ask">>) \cup
        {Does(3, <<"complete", "skill", "exp">>, "next"), Ends(4, <<>>)})]

Q21704 ==
  [start |-> Talk(-1, Leave, {Says(0, "next"), On({"yes"}, Says(1, "both")), On({"back"}, Ends(1, <<>>)),
        Says(2, "both"), Ends(3, <<"complete", "exp">>)}),
   end |-> Talk(Leave, Leave, {Ends(0, <<>>)})]

Q21712 ==
  [start |-> Talk(Leave, Leave, Text(0, <<"next", "ask">>) \cup {Does(2, <<"start">>, "next"),
        Ends(3, <<>>)}),
   end |-> Talk(Leave, Leave, {Ends(0, <<>>)})]

Q21716 ==
  [start |-> Talk(-1, Leave, Text(0, <<"next", "both", "ask">>) \cup {Does(3, <<"start">>, "next"),
        Says(4, "prev")}),
   end |-> Talk(Leave, Leave, {Ends(0, <<>>)})]

Q21719 ==
  [start |-> Talk(-1, Leave, Text(0, <<"next", "both", "ask">>) \cup {Ends(3, <<"complete", "warp">>)}),
   end |-> Talk(Leave, Leave, {Ends(0, <<>>)})]

Q21720 ==
  [start |-> Talk(Leave, Leave, {Ends(0, <<>>)}),
   end |-> Talk(-1, Leave, Text(0, <<"next", "both", "both", "both", "both", "both", "ask">>) \cup
        Text(8, <<"both", "both", "prev">>) \cup
        {On({"yes"}, Does(7, <<"complete", "skill", "exp">>, "next")), On({"back"}, Says(7, "next"))})]

Q21733 ==
  [start |-> Talk(Leave, Leave, {Says(0, "next"), Ends(1, <<"start">>)}),
   end |-> Talk(Leave, Leave, Text(0, <<"next", "next">>) \cup {Ends(2, <<"exp", "skill", "complete">>)})]

Q21734 ==
  [start |-> Talk(Leave, Leave, {Says(0, "next"), Ends(1, <<"start">>)}),
   end |-> Talk(Leave, Leave, Text(0, <<"next", "next", "next">>) \cup
        {Ends(3, <<"exp", "skill", "complete">>)})]

Q21735 ==
  [start |-> Talk(Leave, Leave, {Says(0, "next"), Ends(1, <<"fits", "give", "start">>), Ends(1, <<"start">>),
        Ends(1, <<>>)}),
   end |-> Talk(Leave, Leave, {Says(0, "next"), Ends(0, <<>>), Ends(1, <<"take", "exp", "complete">>)})]

Q21736 ==
  [start |-> Talk(-1, Leave, Text(0, <<"next", "both", "both", "ask">>) \cup {Ends(4, <<"start">>)}),
   end |-> NoTalk]

Q21738 ==
  [start |-> Talk(Leave, Leave, Text(0, <<"text", "next">>) \cup {Ends(1, <<>>), Ends(2, <<"start">>)}),
   end |-> NoTalk]

Q21740 ==
  [start |-> Talk(Leave, Leave, {Says(0, "next"), Ends(1, <<"start">>)}),
   end |-> Talk(Leave, Leave, Text(0, <<"next", "next">>) \cup {Ends(2, <<"skill", "complete">>)})]

Q21741 ==
  [start |-> Talk(Leave, Leave, Text(0, <<"next", "ask">>) \cup {Ends(2, <<"start">>)}),
   end |-> NoTalk]

Q21742 ==
  [start |-> Talk(-1, Leave, Text(0, <<"next", "both", "both", "both", "both", "both", "ask", "next", "both">>) \cup
        {Ends(9, <<"fits", "give", "start">>), Ends(9, <<"start">>), Ends(9, <<>>)}),
   end |-> Talk(Leave, Leave, {Says(0, "next"), Ends(1, <<"take", "exp", "complete">>)})]

Q21746 ==
  [start |-> Talk(Leave, Leave, {Says(0, "next"), Fails(1, <<>>)}),
   end |-> Talk(Leave, Leave, {Says(0, "next"), Ends(1, <<"take", "exp", "complete">>)})]

Q21747 ==
  [start |-> Talk(Leave, Leave, Text(0, <<"ask", "next">>) \cup {Ends(2, <<"start">>)}),
   end |-> Talk(Leave, Leave, Text(0, <<"next", "next">>) \cup {Ends(2, <<"exp", "complete">>)})]

Q21748 ==
  [start |-> NoTalk,
   end |-> Talk(Leave, Leave, Text(0, <<"next", "next">>) \cup {Ends(2, <<"exp", "skill", "complete">>)})]

Q21749 ==
  [start |-> Talk(Leave, Leave, Text(0, <<"next", "next">>) \cup {Ends(2, <<"exp", "complete">>)}),
   end |-> NoTalk]

Q21766 ==
  [start |-> Talk(Leave, Leave, Text(0, <<"next", "next", "next", "next">>) \cup {Ends(4, <<"start">>)}),
   end |-> Talk(Leave, Leave, {Ends(0, <<"exp", "complete">>)})]

Q22000 ==
  [start |-> Talk(-1, Leave, Text(0, <<"next", "both", "both", "both", "both", "both", "both", "ask">>) \cup
        {Does(8, <<"start">>, "next"), Ends(9, <<>>)}),
   end |-> Talk(-1, Leave, Text(0, <<"next", "both">>) \cup {Ends(2, <<"complete", "exp">>)})]

Q22001 ==
  [start |-> Talk(-1, Leave, Text(0, <<"next", "both", "ask">>) \cup {Does(3, <<"give", "start">>, "next"),
        Ends(4, <<>>)}),
   end |-> NoTalk]

Q22002 ==
  [start |-> Talk(Leave, Leave, Text(0, <<"next", "ask">>) \cup {Does(2, <<"give", "start">>, "next"),
        Ends(3, <<>>)}),
   end |-> Talk(Leave, Leave, {Says(0, "next"), Ends(1, <<"give", "complete", "exp">>)})]

Q22003 ==
  [start |-> Talk(-1, 1, {Says(0, "ask"), On({"yes", "no"}, Does(1, <<"give", "start">>, "next")),
        On({"yes", "no"}, Does(1, <<"start">>, "next")), On({"back"}, Says(1, "next")), Says(2, "both"),
        Ends(3, <<>>)}),
   end |-> NoTalk]

Q22004 ==
  [start |-> Talk(Leave, Leave, Text(0, <<"next", "ask">>) \cup {Does(2, <<"start">>, "next"),
        Ends(3, <<>>)}),
   end |-> Talk(-1, Leave, {Says(0, "next"), In({"started"}, Does(1, <<"give", "complete", "exp">>, "both")),
        In({"completed"}, Says(1, "both")), Ends(2, <<>>)})]

Q22007 ==
  [start |-> NoTalk,
   end |-> Talk(Leave, Leave, Text(0, <<"next", "ask">>) \cup {Ends(2, <<"take", "complete", "exp">>)})]

Q22008 ==
  [start |-> Talk(Leave, Leave, {Says(0, "ask"), Does(1, <<"start">>, "next"), Ends(2, <<>>)}),
   end |-> Talk(-1, Leave, Text(0, <<"next", "both", "both", "both", "both", "both", "both", "both", "both", "both", "both", "both">>) \cup
        {In({"started"}, Does(12, <<"give", "complete", "exp">>, "both")),
        In({"completed"}, Says(12, "both")), Ends(13, <<>>)})]

Q22401s ==
  [start |-> Talk(-1, -1, Text(0, <<"next", "both", "both", "both", "both", "both", "both", "both", "both", "ask">>) \cup
        {Ends(10, <<"complete">>)}),
   end |-> NoTalk]

Q22403s ==
  [start |-> Talk(-1, -1, Text(0, <<"next", "both", "both", "both", "both", "both", "both", "both", "both", "ask">>) \cup
        {Does(10, <<"start">>, "next"), Ends(11, <<>>)}),
   end |-> NoTalk]

Q22406s ==
  [start |-> Talk(-1, -1, Text(0, <<"next", "both", "both", "both", "both", "both", "both", "both", "both", "both", "ask">>) \cup
        {On({"yes"}, Does(11, <<"start", "complete">>, "next")), On({"back"}, Says(11, "next")),
        Says(12, "both"), Ends(13, <<>>)}),
   end |-> NoTalk]

Q22411s ==
  [start |-> Talk(-1, -1, Text(0, <<"next", "both", "both", "both", "both", "both", "ask">>) \cup
        {Ends(7, <<"start", "complete">>)}),
   end |-> NoTalk]

Q22500 ==
  [start |-> Talk(-1, 1, Text(0, <<"next", "both", "both", "both", "both", "both", "both", "both", "both", "both", "both", "both", "ask">>) \cup
        {On({"yes", "no"}, Does(13, <<"start">>, "next")), On({"back"}, Says(13, "next")), Says(14, "both"),
        Ends(15, <<>>)}),
   end |-> NoTalk]

Q22501 ==
  [start |-> Talk(-1, Leave, Text(0, <<"next", "both", "both", "ask">>) \cup {Ends(4, <<"start">>)}),
   end |-> NoTalk]

Q22503 ==
  [start |-> Talk(-1, Leave, Text(0, <<"next", "both", "ask">>) \cup {Ends(3, <<"start">>)}),
   end |-> NoTalk]

Q22504 ==
  [start |-> Talk(-1, 1, Text(0, <<"next", "both", "ask">>) \cup {On({"yes"}, Does(3, <<"start">>, "next")),
        On({"no"}, Says(3, "next"))}),
   end |-> NoTalk]

Q22507 ==
  [start |-> Talk(-1, 1, Text(0, <<"next", "both", "both", "both", "both", "both", "both", "both", "both", "both", "both", "both", "both", "both", "ask">>) \cup
        {On({"yes"}, Does(15, <<"complete", "exp">>, "next")), On({"back", "no"}, Says(15, "next")),
        Says(16, "both"), Ends(17, <<>>)}),
   end |-> NoTalk]

Q22510s ==
  [start |-> Talk(-1, Leave, Text(2, <<"both", "both">>) \cup {Says(0, "menu"), On({"yes"}, Says(1, "ask")),
        Ends(4, <<"start", "give">>)}),
   end |-> NoTalk]

Q22512s ==
  [start |-> Talk(-1, -1, Text(0, <<"next", "both", "both", "both", "ask">>) \cup {Ends(5, <<"start">>)}),
   end |-> NoTalk]

Q22514s ==
  [start |-> Talk(-1, -1, Text(0, <<"next", "both", "both", "both", "ask">>) \cup
        {Does(5, <<"start">>, "next"), Ends(6, <<>>)}),
   end |-> NoTalk]

Q22518s ==
  [start |-> Talk(-1, -1, Text(0, <<"next", "both", "both", "both", "ask">>) \cup
        {Ends(5, <<"start", "warp">>)}),
   end |-> NoTalk]

Q22536s ==
  [start |-> Talk(Leave, -1, Text(0, <<"menu", "menu", "menu", "menu", "menu", "ask">>) \cup
        {Ends(6, <<"exp", "start", "complete">>)}),
   end |-> NoTalk]

Q22541s ==
  [start |-> Talk(-1, -1, Text(0, <<"next", "both", "both", "both", "both", "both", "ask">>) \cup
        {Does(7, <<"start">>, "next"), Says(8, "both")}),
   end |-> NoTalk]

Q22546e ==
  [start |-> NoTalk,
   end |-> Talk(-1, -1, Text(0, <<"next", "both", "ask">>) \cup Text(4, <<"both", "both", "both">>) \cup
        {On({"yes"}, Does(3, <<"complete", "take", "exp">>, "next")), On({"back"}, Says(3, "next")),
        Ends(7, <<>>)})]

Q22560s ==
  [start |-> Talk(-1, -1, Text(0, <<"next", "both", "ask">>) \cup {Does(3, <<"start">>, "next"),
        Ends(4, <<>>)}),
   end |-> NoTalk]

Q22564e ==
  [start |-> NoTalk,
   end |-> Talk(-1, Leave, Text(0, <<"next", "both", "both", "both", "both", "both", "both", "both", "both", "both", "both", "both", "both", "both", "both", "both", "both", "both", "both", "both">>) \cup
        {Ends(20, <<"exp", "sp", "complete">>)})]

Q22565s ==
  [start |-> Talk(-1, -1, Text(0, <<"next", "both", "ask">>) \cup
        {Ends(3, <<"start", "complete", "exp", "sp">>)}),
   end |-> NoTalk]

Q22567e ==
  [start |-> NoTalk,
   end |-> Talk(-1, Leave, Text(0, <<"next", "both">>) \cup
        Text(3, <<"both", "both", "both", "both", "both", "both", "both">>) \cup
        {In({"completed"}, Does(2, <<"complete">>, "both")),
        In({"started"}, Does(2, <<"exp", "sp", "take", "complete">>, "both")), Ends(10, <<>>)})]

Q22575s ==
  [start |-> Talk(-1, -1, Text(0, <<"next", "both", "both", "both", "both", "both", "ask", "next">>) \cup
        {Ends(8, <<"start">>)}),
   end |-> NoTalk]

Q22578s ==
  [start |-> Talk(-1, -1, Text(0, <<"next", "both", "next", "both", "next", "both", "next", "both", "ask">>) \cup
        {Ends(9, <<"start", "complete", "exp", "sp">>)}),
   end |-> NoTalk]

Q22581s ==
  [start |-> Talk(-1, -1, Text(0, <<"next", "both", "both", "both", "ask">>) \cup {Ends(5, <<"start">>)}),
   end |-> NoTalk]

Q22582e ==
  [start |-> NoTalk,
   end |-> Talk(-1, Leave, Text(2, <<"menu", "both">>) \cup {Says(0, "next"),
        In({"started"}, Does(1, <<"has", "complete", "exp", "take">>, "both")),
        In({"completed"}, Says(1, "both")), In({"started"}, Mute(1)), Ends(4, <<>>)})]

Q22585s ==
  [start |-> Talk(-1, -1, Text(0, <<"next", "both", "both", "both", "ask">>) \cup
        {Ends(5, <<"start", "complete", "exp", "sp">>)}),
   end |-> NoTalk]

Q22591s ==
  [start |-> Talk(-1, -1, Text(0, <<"next", "both", "both", "both", "ask">>) \cup
        {Ends(5, <<"start", "warp">>)}),
   end |-> NoTalk]

Q22593s ==
  [start |-> Talk(Leave, Leave, {Says(0, "ask"), Does(1, <<"exp", "start", "complete">>, "next"),
        Ends(2, <<>>)}),
   end |-> NoTalk]

Q22594s ==
  [start |-> Talk(-1, Leave, Text(0, <<"next", "both", "prev">>)),
   end |-> NoTalk]

Q22595s ==
  [start |-> Talk(Leave, -1, Text(0, <<"next", "ask">>) \cup {Does(2, <<"exp", "start", "complete">>, "next"),
        Ends(3, <<>>)}),
   end |-> NoTalk]

Q22602s ==
  [start |-> Talk(-1, -1, Text(0, <<"next", "both", "both", "both", "both", "both", "both", "both", "both", "both", "both", "both", "both", "ask">>) \cup
        {Ends(14, <<"give", "start", "complete">>)}),
   end |-> NoTalk]

Q22603s ==
  [start |-> Talk(-1, -1, Text(0, <<"next", "both", "both", "both", "both", "both", "both", "both", "both", "both", "both", "both", "both", "ask">>) \cup
        {Ends(14, <<"give", "start", "complete">>)}),
   end |-> NoTalk]

Q23011 ==
  [start |-> NoTalk,
   end |-> Talk(-1, 1, {Says(0, "ask"), On({"yes"}, Fails(1, <<"give", "complete", "job">>)),
        On({"back", "no"}, Says(1, "next")), Says(2, "both"), Ends(3, <<>>)})]

Q28004 ==
  [start |-> Talk(Leave, Leave, Text(0, <<"next", "ask">>) \cup {Ends(0, <<"complete">>),
        Ends(2, <<"warp">>)}),
   end |-> NoTalk]

Q29002 ==
  [start |-> Talk(Leave, -1, {Says(0, "ask"), Does(1, <<"start">>, "next")}),
   end |-> NoTalk]

Q29400 ==
  [start |-> Talk(-1, Leave, Text(0, <<"ask", "next", "both">>) \cup {Ends(3, <<"start">>)}),
   end |-> Talk(Leave, Leave, Text(0, <<"menu", "ok">>) \cup {Mute(1)})]

Q29503 ==
  [start |-> Talk(Leave, Leave, Text(0, <<"ask", "next">>) \cup {Ends(2, <<>>)}),
   end |-> Talk(Leave, Leave, {To(-1, Mute(0))})]

LongQuestsTable ==
  [Q1021 |-> Q1021, Q2053 |-> Q2053, Q2156 |-> Q2156, Q2230 |-> Q2230, Q2258 |-> Q2258,
   Q2259 |-> Q2259, Q2260 |-> Q2260, Q2293 |-> Q2293, Q2300 |-> Q2300, Q2301 |-> Q2301,
   Q2302 |-> Q2302, Q2303 |-> Q2303, Q2304 |-> Q2304, Q2305 |-> Q2305, Q2306 |-> Q2306,
   Q2307 |-> Q2307, Q2308 |-> Q2308, Q2309 |-> Q2309, Q2310 |-> Q2310, Q2312 |-> Q2312,
   Q2314 |-> Q2314, Q2315 |-> Q2315, Q2316 |-> Q2316, Q2317 |-> Q2317, Q2318 |-> Q2318,
   Q2319 |-> Q2319, Q2320 |-> Q2320, Q2321 |-> Q2321, Q2322 |-> Q2322, Q2325 |-> Q2325,
   Q2327 |-> Q2327, Q2333 |-> Q2333, Q2334 |-> Q2334, Q2335 |-> Q2335, Q2363e |-> Q2363e,
   Q2369e |-> Q2369e, Q2374e |-> Q2374e, Q2560 |-> Q2560, Q2561 |-> Q2561, Q2568 |-> Q2568,
   Q2570 |-> Q2570, Q2573 |-> Q2573, Q3116s |-> Q3116s, Q3321 |-> Q3321, Q3353 |-> Q3353,
   Q3360 |-> Q3360, Q3927 |-> Q3927, Q3933 |-> Q3933, Q3953 |-> Q3953, Q6030 |-> Q6030,
   Q6031 |-> Q6031, Q6032 |-> Q6032, Q6033 |-> Q6033, Q6036 |-> Q6036, Q6410 |-> Q6410,
   Q7103 |-> Q7103, Q8185 |-> Q8185, Q8189 |-> Q8189, Q8219 |-> Q8219, Q8229 |-> Q8229,
   Q20000 |-> Q20000, Q20001 |-> Q20001, Q20002 |-> Q20002, Q20008 |-> Q20008, Q20010 |-> Q20010,
   Q20011 |-> Q20011, Q20012 |-> Q20012, Q20013 |-> Q20013, Q20016 |-> Q20016, Q20017 |-> Q20017,
   Q20201 |-> Q20201, Q20202 |-> Q20202, Q20203 |-> Q20203, Q20204 |-> Q20204, Q20205 |-> Q20205,
   Q20311 |-> Q20311, Q20312 |-> Q20312, Q20313 |-> Q20313, Q20314 |-> Q20314, Q20315 |-> Q20315,
   Q20405 |-> Q20405, Q20408 |-> Q20408, Q20520 |-> Q20520, Q20522 |-> Q20522, Q20526 |-> Q20526,
   Q20700 |-> Q20700, Q21000 |-> Q21000, Q21001 |-> Q21001, Q21010 |-> Q21010, Q21011 |-> Q21011,
   Q21012 |-> Q21012, Q21013 |-> Q21013, Q21015 |-> Q21015, Q21016 |-> Q21016, Q21017 |-> Q21017,
   Q21018 |-> Q21018, Q21100 |-> Q21100, Q21101 |-> Q21101, Q21200 |-> Q21200, Q21201 |-> Q21201,
   Q21202 |-> Q21202, Q21300 |-> Q21300, Q21301 |-> Q21301, Q21302 |-> Q21302, Q21303 |-> Q21303,
   Q21401 |-> Q21401, Q21600 |-> Q21600, Q21604 |-> Q21604, Q21613 |-> Q21613, Q21618 |-> Q21618,
   Q21700 |-> Q21700, Q21703 |-> Q21703, Q21704 |-> Q21704, Q21712 |-> Q21712, Q21716 |-> Q21716,
   Q21719 |-> Q21719, Q21720 |-> Q21720, Q21733 |-> Q21733, Q21734 |-> Q21734, Q21735 |-> Q21735,
   Q21736 |-> Q21736, Q21738 |-> Q21738, Q21740 |-> Q21740, Q21741 |-> Q21741, Q21742 |-> Q21742,
   Q21746 |-> Q21746, Q21747 |-> Q21747, Q21748 |-> Q21748, Q21749 |-> Q21749, Q21766 |-> Q21766,
   Q22000 |-> Q22000, Q22001 |-> Q22001, Q22002 |-> Q22002, Q22003 |-> Q22003, Q22004 |-> Q22004,
   Q22007 |-> Q22007, Q22008 |-> Q22008, Q22401s |-> Q22401s, Q22403s |-> Q22403s,
   Q22406s |-> Q22406s, Q22411s |-> Q22411s, Q22500 |-> Q22500, Q22501 |-> Q22501,
   Q22503 |-> Q22503, Q22504 |-> Q22504, Q22507 |-> Q22507, Q22510s |-> Q22510s,
   Q22512s |-> Q22512s, Q22514s |-> Q22514s, Q22518s |-> Q22518s, Q22536s |-> Q22536s,
   Q22541s |-> Q22541s, Q22546e |-> Q22546e, Q22560s |-> Q22560s, Q22564e |-> Q22564e,
   Q22565s |-> Q22565s, Q22567e |-> Q22567e, Q22575s |-> Q22575s, Q22578s |-> Q22578s,
   Q22581s |-> Q22581s, Q22582e |-> Q22582e, Q22585s |-> Q22585s, Q22591s |-> Q22591s,
   Q22593s |-> Q22593s, Q22594s |-> Q22594s, Q22595s |-> Q22595s, Q22602s |-> Q22602s,
   Q22603s |-> Q22603s, Q23011 |-> Q23011, Q28004 |-> Q28004, Q29002 |-> Q29002,
   Q29400 |-> Q29400, Q29503 |-> Q29503]

===============================================================================
