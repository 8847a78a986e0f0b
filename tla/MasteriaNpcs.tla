---------------------------- MODULE MasteriaNpcs ----------------------------
(***************************************************************************)
(* The npcs of New Leaf City, of Amoria and of the late regions            *)
(* (scripts/npc, from 9200000): what each that shows a page says and does. *)
(***************************************************************************)
EXTENDS ScriptRows

N9200100 ==
  Talk(Leave, Leave, {Says(0, "menu"), Fails(1, <<>>), Ends(1, <<>>)})

N9200101 ==
  Talk(Leave, Leave, {Says(0, "menu"), Fails(1, <<>>), Ends(1, <<>>)})

N9200102 ==
  Talk(Leave, Leave, {Says(0, "menu"), Fails(1, <<>>), Ends(1, <<>>)})

N9201000 ==
  Talk(Leave, Leave, {Says(0, "menu"), Ends(1, <<"has", "take">>), Says(1, "menu"), Says(1, "next"),
        Ends(1, <<>>), Of({"next"}, Ends(2, <<"quest">>)), Of({"menu"}, Says(2, "ask")),
        Ends(3, <<"fits", "rich", "has", "take", "pay", "give">>), Ends(3, <<>>)})

N9201001 ==
  Talk(Leave, Leave, {Does(0, <<"has", "fits", "take", "give", "throw">>, "ok"), Says(0, "ask"),
        Ends(0, <<>>), Ends(1, <<"has", "fits", "take", "give">>), Ends(1, <<"quest">>), Ends(1, <<>>)})

N9201002 ==
  Talk(Leave, Leave, {Does(0, <<"throw">>, "none"), Says(0, "menu"), Ends(0, <<>>), Fails(1, <<>>)})

N9201003 ==
  Talk(-1, Leave, Text(0, <<"next", "both", "both">>) \cup {Ends(0, <<>>), On({"yes"}, Fails(1, <<"quest">>)),
        Fails(3, <<>>)})

N9201005 ==
  Talk(Leave, Leave, {Does(0, <<"throw">>, "none"), Says(0, "menu"), Fails(1, <<>>), Ends(1, <<>>)})

N9201008 ==
  Talk(Leave, Leave, {Does(0, <<"throw">>, "none"), Says(0, "menu"), Fails(1, <<>>), Ends(1, <<>>)})

N9201012 ==
  Talk(Leave, Leave, {Says(0, "menu"), Ends(0, <<>>), Fails(1, <<>>)})

N9201015 ==
  Talk(Leave, Leave, Text(0, <<"menu", "style">>) \cup {Fails(1, <<>>), Ends(2, <<"has", "take", "look">>),
        Ends(2, <<>>)})

N9201016 ==
  Talk(Leave, Leave, Text(0, <<"menu", "ask">>) \cup {Fails(1, <<>>), Ends(2, <<"has", "take", "look">>),
        Ends(2, <<>>)})

N9201017 ==
  Talk(Leave, Leave, {Says(0, "menu"), Fails(1, <<>>), Ends(1, <<>>)})

N9201018 ==
  Talk(Leave, Leave, Text(0, <<"menu", "style">>) \cup {Fails(1, <<>>),
        Does(2, <<"has", "take", "look">>, "ok"), Ends(2, <<>>)})

N9201019 ==
  Talk(Leave, Leave, Text(0, <<"menu", "ask">>) \cup {Fails(1, <<>>),
        Does(2, <<"has", "take", "look">>, "ok"), Ends(2, <<>>)})

N9201021 ==
  Talk(Leave, Leave, {Says(0, "menu"), Ends(1, <<"has", "take", "warp">>), Ends(1, <<"warp">>),
        Ends(1, <<>>)})

N9201022 ==
  Talk(Leave, Leave, {On({"open"}, To(-1, Says(0, "ask"))), On({"yes"}, Says(0, "next")),
        Ends(1, <<"warp">>)})

N9201023 ==
  Talk(Leave, Leave, {Does(0, <<"has", "fits", "take", "give", "throw">>, "ok"), Says(0, "ask"),
        Ends(0, <<>>), Ends(1, <<"has", "fits", "take", "give">>), Ends(1, <<"quest">>), Ends(1, <<>>)})

N9201024 ==
  Talk(Leave, Leave, {Does(0, <<"has", "fits", "take", "give", "throw">>, "ok"), Says(0, "ask"),
        Ends(0, <<>>), Ends(1, <<"has", "fits", "take", "give">>), Ends(1, <<"quest">>), Ends(1, <<>>)})

N9201025 ==
  Talk(Leave, Leave, {Does(0, <<"has", "fits", "take", "give", "throw">>, "ok"), Says(0, "ask"),
        Ends(0, <<>>), Ends(1, <<"has", "fits", "take", "give">>), Ends(1, <<"quest">>), Ends(1, <<>>)})

N9201026 ==
  Talk(Leave, Leave, {Does(0, <<"has", "fits", "take", "give", "throw">>, "ok"), Says(0, "ask"),
        Ends(0, <<>>), Ends(1, <<"has", "fits", "take", "give">>), Ends(1, <<"quest">>), Ends(1, <<>>)})

N9201027 ==
  Talk(Leave, Leave, {Does(0, <<"has", "fits", "take", "give", "throw">>, "ok"), Says(0, "ask"),
        Ends(0, <<>>), Ends(1, <<"has", "fits", "take", "give">>), Ends(1, <<"quest">>), Ends(1, <<>>)})

N9201033 ==
  Talk(Leave, Leave, {Says(0, "ask"), Mute(0), Ends(1, <<"warp">>)})

N9201039 ==
  Talk(Leave, 1, {Says(0, "ask"), Ends(0, <<>>), Fails(1, <<>>)})

N9201043 ==
  Talk(Leave, Leave, Text(0, <<"menu", "ask">>) \cup {Ends(1, <<>>), Ends(2, <<"take", "give">>),
        Ends(2, <<"warp", "take">>)})

N9201047 ==
  Talk(Leave, Leave, {Does(0, <<"throw">>, "none"), Says(0, "ask"), Ends(1, <<"warp">>)})

N9201049 ==
  Talk(Leave, Leave, {Says(0, "ok")})

N9201050 ==
  Talk(Leave, Leave, {Says(0, "menu"), Ends(0, <<>>), Ends(1, <<"quest">>), To(-1, Says(1, "next")),
        Ends(1, <<>>)})

N9201056 ==
  Talk(Leave, Leave, {Says(0, "ask"), Ends(1, <<"rich", "pay", "warp">>), Ends(1, <<>>)})

N9201057 ==
  Talk(Leave, Leave, {Says(0, "ask"), Mute(0), Ends(1, <<"fits", "rich", "pay", "give">>),
        Ends(1, <<"warp">>), Ends(1, <<>>)})

N9201061 ==
  Talk(Leave, Leave, {Says(0, "menu"), Fails(1, <<>>)})

N9201062 ==
  Talk(Leave, Leave, {Says(0, "menu"), Fails(1, <<>>), Ends(1, <<>>)})

N9201063 ==
  Talk(Leave, Leave, Text(0, <<"menu", "ask">>) \cup {Fails(1, <<>>), Ends(2, <<"has", "take", "look">>),
        Ends(2, <<>>)})

N9201064 ==
  Talk(Leave, Leave, Text(0, <<"menu", "style">>) \cup {Fails(1, <<>>), Ends(2, <<"has", "take", "look">>),
        Ends(2, <<>>)})

N9201065 ==
  Talk(Leave, Leave, Text(0, <<"menu", "style">>) \cup {Ends(2, <<"has", "take", "look">>), Ends(2, <<>>)})

N9201067 ==
  Talk(Leave, Leave, Text(0, <<"menu", "ask", "ok">>) \cup {Ends(0, <<>>), Ends(1, <<>>),
        Fails(2, <<"has", "fits", "give", "take">>), Mute(2)})

N9201068 ==
  Talk(Leave, Leave, {On({"yes"}, Says(0, "ask")), On({"open"}, To(-1, Says(0, "menu"))), Ends(0, <<>>),
        Ends(1, <<"has", "take", "warp">>), Ends(1, <<>>)})

N9201069 ==
  Talk(Leave, Leave, Text(0, <<"menu", "style">>) \cup {Fails(1, <<>>), Ends(2, <<"has", "take", "look">>),
        Ends(2, <<>>)})

N9201070 ==
  Talk(Leave, Leave, Text(0, <<"menu", "ask">>) \cup {Fails(1, <<>>), Ends(2, <<"has", "take", "look">>),
        Ends(2, <<>>)})

N9201074 ==
  Talk(Leave, Leave, {Says(0, "ask"), Ends(0, <<>>), Ends(1, <<"fits", "take", "give">>), Ends(1, <<>>)})

N9201097 ==
  Talk(Leave, Leave, Text(0, <<"next", "ask", "menu", "ask">>) \cup {Ends(0, <<>>),
        Ends(4, <<"has", "fits", "take", "give">>), Ends(4, <<"has", "take", "meso">>), Ends(4, <<>>)})

N9201113 ==
  Talk(Leave, Leave, {Ends(0, <<"act">>), To(1, Says(0, "menu")), To(2, Says(0, "menu")), Mute(0),
        Ends(0, <<>>), Ends(2, <<"act">>), Ends(2, <<>>), Fails(3, <<>>), Ends(3, <<>>)})

N9201128 ==
  Talk(Leave, Leave, {Says(0, "ask"), Ends(0, <<>>), Ends(1, <<"has", "take", "warp">>), Ends(1, <<"warp">>)})

N9201129 ==
  Talk(Leave, Leave, {Says(0, "ask"), Ends(0, <<>>), Ends(1, <<"warp">>)})

N9201130 ==
  Talk(Leave, Leave, {Says(0, "ask"), Ends(0, <<>>), Ends(1, <<"has", "take", "warp">>), Ends(1, <<"warp">>)})

N9201131 ==
  Talk(Leave, Leave, {Says(0, "ask"), Ends(0, <<>>), Ends(1, <<"has", "take", "warp">>), Ends(1, <<"warp">>)})

N9201132 ==
  Talk(Leave, Leave, {Says(0, "ask"), Ends(0, <<>>), Ends(1, <<"has", "take", "warp">>), Fails(1, <<>>),
        Ends(1, <<"warp">>)})

N9201133 ==
  Talk(Leave, Leave, {Does(0, <<"throw">>, "none"), Says(0, "ask"), Ends(0, <<>>), Ends(1, <<"warp">>)})

N9201135 ==
  Talk(Leave, Leave, {Does(0, <<"throw">>, "none"), Says(0, "menu"), Fails(1, <<>>), Ends(1, <<>>)})

N9201148 ==
  Talk(Leave, Leave, Text(0, <<"menu", "ask">>) \cup {Fails(1, <<>>), Fails(2, <<>>), Ends(2, <<>>)})

N9202100 ==
  Talk(Leave, Leave, Text(0, <<"next", "menu">>) \cup
        {Ends(2, <<"fits", "rich", "has", "take", "pay", "give">>),
        Ends(2, <<"fits", "rich", "pay", "give">>), Ends(2, <<>>)})

N9209005 ==
  Talk(Leave, -1, Text(0, <<"menu", "ask">>) \cup {Ends(1, <<"warp">>),
        Ends(2, <<"fits", "rich", "pay", "give">>), Ends(2, <<>>)})

N9220004 ==
  Talk(Leave, Leave, {Says(0, "menu"), Fails(1, <<>>), Ends(1, <<>>)})

N9220019 ==
  Talk(Leave, Leave, {Says(0, "ask"), Ends(0, <<>>), Ends(1, <<"warp">>)})

N9250155 ==
  Talk(Leave, -1, Text(0, <<"ask", "ask">>) \cup {Ends(-1, <<>>), Ends(2, <<"warp">>)})

N9270017 ==
  Talk(Leave, Leave, Text(0, <<"ask", "next">>) \cup {Ends(2, <<"warp">>)})

N9270018 ==
  Talk(Leave, Leave, {Says(0, "ask"), Mute(0), Ends(0, <<>>), Ends(1, <<"warp">>)})

N9270023 ==
  Talk(Leave, Leave, Text(0, <<"menu", "ask">>) \cup {Fails(1, <<>>), Ends(1, <<>>),
        Ends(2, <<"take", "look">>)})

N9270024 ==
  Talk(Leave, Leave, Text(0, <<"menu", "style">>) \cup {Fails(1, <<>>), Ends(1, <<>>),
        Ends(2, <<"take", "look">>)})

N9270025 ==
  Talk(Leave, Leave, Text(0, <<"menu", "style">>) \cup {Ends(1, <<>>), Ends(2, <<"take", "look">>)})

N9270026 ==
  Talk(Leave, Leave, Text(0, <<"menu", "ask">>) \cup {Fails(1, <<>>), Ends(1, <<>>),
        Ends(2, <<"has", "take", "look">>), Ends(2, <<>>)})

N9270036 ==
  Talk(Leave, Leave, {Says(0, "menu"), Fails(1, <<>>)})

N9270037 ==
  Talk(Leave, Leave, {Says(0, "menu"), Fails(1, <<>>)})

N9270038 ==
  Talk(Leave, Leave, {On({"yes"}, Says(0, "ask")), On({"open"}, To(-1, Says(0, "menu"))),
        Ends(1, <<"has", "warp", "take">>), Fails(1, <<>>), Ends(1, <<>>)})

N9270041 ==
  Talk(Leave, Leave, {On({"yes"}, Says(0, "ask")), On({"open"}, To(-1, Says(0, "menu"))),
        Ends(1, <<"has", "warp", "take">>), Ends(1, <<"rich", "fits", "pay", "give">>), Ends(1, <<>>)})

N9270043 ==
  Talk(Leave, 0, Text(1, <<"next", "next", "next", "next", "next", "next", "next", "next">>) \cup
        {On({"open"}, Does(0, <<"throw">>, "none")), On({"open"}, Ends(0, <<"has", "take", "act">>)),
        On({"open"}, Says(0, "ask")), Ends(1, <<"act">>), Ends(2, <<"act">>), Ends(3, <<"act">>),
        Ends(4, <<"act">>), Ends(5, <<"act">>), Ends(6, <<"act">>), Ends(7, <<"act">>), Ends(8, <<"act">>)})

N9270047 ==
  Talk(Leave, Leave, {Ends(0, <<"act">>), Does(0, <<"throw">>, "none"), To(1, Says(0, "menu")),
        To(2, Says(0, "menu")), Mute(0), Ends(0, <<>>), Ends(2, <<"act">>), Ends(2, <<>>), Fails(3, <<>>),
        Ends(3, <<>>)})

MasteriaNpcsTable ==
  [N9200100 |-> N9200100, N9200101 |-> N9200101, N9200102 |-> N9200102, N9201000 |-> N9201000,
   N9201001 |-> N9201001, N9201002 |-> N9201002, N9201003 |-> N9201003, N9201005 |-> N9201005,
   N9201008 |-> N9201008, N9201012 |-> N9201012, N9201015 |-> N9201015, N9201016 |-> N9201016,
   N9201017 |-> N9201017, N9201018 |-> N9201018, N9201019 |-> N9201019, N9201021 |-> N9201021,
   N9201022 |-> N9201022, N9201023 |-> N9201023, N9201024 |-> N9201024, N9201025 |-> N9201025,
   N9201026 |-> N9201026, N9201027 |-> N9201027, N9201033 |-> N9201033, N9201039 |-> N9201039,
   N9201043 |-> N9201043, N9201047 |-> N9201047, N9201049 |-> N9201049, N9201050 |-> N9201050,
   N9201056 |-> N9201056, N9201057 |-> N9201057, N9201061 |-> N9201061, N9201062 |-> N9201062,
   N9201063 |-> N9201063, N9201064 |-> N9201064, N9201065 |-> N9201065, N9201067 |-> N9201067,
   N9201068 |-> N9201068, N9201069 |-> N9201069, N9201070 |-> N9201070, N9201074 |-> N9201074,
   N9201097 |-> N9201097, N9201113 |-> N9201113, N9201128 |-> N9201128, N9201129 |-> N9201129,
   N9201130 |-> N9201130, N9201131 |-> N9201131, N9201132 |-> N9201132, N9201133 |-> N9201133,
   N9201135 |-> N9201135, N9201148 |-> N9201148, N9202100 |-> N9202100, N9209005 |-> N9209005,
   N9220004 |-> N9220004, N9220019 |-> N9220019, N9250155 |-> N9250155, N9270017 |-> N9270017,
   N9270018 |-> N9270018, N9270023 |-> N9270023, N9270024 |-> N9270024, N9270025 |-> N9270025,
   N9270026 |-> N9270026, N9270036 |-> N9270036, N9270037 |-> N9270037, N9270038 |-> N9270038,
   N9270041 |-> N9270041, N9270043 |-> N9270043, N9270047 |-> N9270047]

===============================================================================
