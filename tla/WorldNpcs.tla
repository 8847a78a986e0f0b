----------------------------- MODULE WorldNpcs -----------------------------
(***************************************************************************)
(* The npcs of events, of the towns of the world and those with short      *)
(* numbers (scripts/npc, up to 99999 and 3000000 to 9199999): what each    *)
(* that shows a page says and does.                                        *)
(***************************************************************************)
EXTENDS ScriptRows

N2003 ==
  Talk(-1, Leave, {On({"open"}, To(-1, Says(0, "menu"))), On({"yes", "back"}, Says(0, "next")),
        Says(1, "both"), To(-1, Says(1, "menu")), To(-1, Says(2, "menu"))})

N2007 ==
  Talk(Leave, Leave, {Says(0, "ask"), Ends(1, <<"warp">>)})

N2100 ==
  Talk(-1, 1, {Says(-1, "ask"), Says(-1, "next"), On({"open"}, To(-1, Says(0, "ask"))),
        On({"no"}, Says(0, "ask")), On({"open"}, To(-1, Says(0, "next"))), On({"yes"}, Says(0, "next")),
        On({"yes"}, Says(0, "prev")), On({"yes"}, Ends(1, <<"warp">>)), Ends(1, <<>>)})

N2101 ==
  Talk(Leave, Leave, {On({"open"}, To(-1, Says(0, "ask"))), On({"yes"}, Says(0, "next")),
        Ends(1, <<"warp">>)})

N3000 ==
  Talk(Leave, Leave, {Says(0, "menu"), Ends(1, <<"act", "give", "exp">>), Ends(1, <<"act">>), Ends(1, <<>>)})

N10200 ==
  Talk(Leave, Leave, {On({"yes"}, Says(0, "ask")), On({"open"}, To(-1, Says(0, "next"))),
        Ends(1, <<"warp">>)})

N10201 ==
  Talk(Leave, Leave, {On({"yes"}, Says(0, "ask")), On({"open"}, To(-1, Says(0, "next"))),
        Ends(1, <<"warp">>)})

N10202 ==
  Talk(Leave, Leave, {On({"yes"}, Says(0, "ask")), On({"open"}, To(-1, Says(0, "next"))),
        Ends(1, <<"warp">>)})

N10203 ==
  Talk(Leave, Leave, {On({"yes"}, Says(0, "ask")), On({"open"}, To(-1, Says(0, "next"))),
        Ends(1, <<"warp">>)})

N10204 ==
  Talk(Leave, Leave, {On({"yes"}, Says(0, "ask")), On({"open"}, To(-1, Says(0, "next"))),
        Ends(1, <<"warp">>)})

N12101 ==
  Talk(Leave, Leave, {On({"open"}, To(-1, Says(0, "next")))})

N20000 ==
  Talk(Leave, Leave, {Says(0, "menu"), Ends(1, <<"has", "give", "take">>), Ends(1, <<"has", "take", "act">>),
        Ends(1, <<"has", "take", "give">>), Ends(1, <<>>)})

N22000 ==
  Talk(-1, -1, Text(0, <<"ask", "next">>) \cup {Says(2, "both"), Says(2, "next"), Ends(2, <<>>),
        Fails(3, <<"has", "take">>), Fails(3, <<"pay">>)})

N9000000 ==
  Talk(Leave, Leave, Text(0, <<"next", "menu", "menu">>) \cup {Ends(2, <<>>), Ends(3, <<>>)})

N9000001 ==
  Talk(-1, Leave, Text(1, <<"both", "menu", "menu">>) \cup {On({"open"}, Says(0, "next")),
        Fails(3, <<"act">>), Ends(3, <<>>), Ends(4, <<>>)})

N9000002 ==
  Talk(Leave, Leave, Text(0, <<"next", "next", "next", "next">>) \cup {Ends(3, <<"fits", "give", "warp">>),
        Ends(4, <<>>)})

N9000004 ==
  Talk(Leave, Leave, {Ends(0, <<"warp">>), Says(0, "ask"), Mute(0), Ends(0, <<>>), To(9, Says(0, "ok")),
        Fails(1, <<>>)})

N9000010 ==
  Talk(Leave, Leave, {Says(0, "next"), Ends(1, <<"warp">>)})

N9000011 ==
  Talk(Leave, Leave, Text(0, <<"next", "menu", "menu">>) \cup {Fails(2, <<"note">>), Ends(2, <<"note">>),
        Fails(2, <<>>), To(9, Says(2, "menu")), Ends(2, <<>>), Ends(3, <<>>), Fails(10, <<>>),
        Ends(10, <<>>)})

N9000012 ==
  Talk(Leave, Leave, {On({"yes"}, Ends(0, <<"rich", "fits", "give", "pay">>)),
        On({"yes"}, Ends(0, <<"rich", "give", "pay">>)), On({"yes"}, Says(0, "ask")),
        On({"open"}, To(-1, Says(0, "menu"))), On({"yes"}, Ends(0, <<>>)), Fails(1, <<>>),
        Ends(1, <<"warp">>)})

N9000013 ==
  Talk(Leave, Leave, Text(0, <<"next", "menu", "menu">>) \cup {Ends(2, <<>>), Ends(3, <<>>)})

N9000021 ==
  Talk(Leave, Leave, Text(0, <<"next", "next", "ask", "ok">>))

N9000022 ==
  Talk(Leave, Leave, {Says(0, "ask"), Says(0, "menu"), Ends(0, <<>>),
        Of({"menu"}, Ends(1, <<"rich", "pay", "give">>)), Ends(1, <<"warp">>), Of({"menu"}, Mute(1)),
        Of({"menu"}, Ends(1, <<>>))})

N9000030 ==
  Talk(Leave, 0, {On({"no"}, Does(0, <<"open">>, "none")), On({"open"}, Says(0, "ask")),
        On({"no"}, Ends(0, <<>>)), To(0, Does(1, <<"open">>, "none")), Ends(1, <<>>)})

N9000033 ==
  Talk(Leave, Leave, Text(0, <<"menu", "ask", "ok">>) \cup {Ends(0, <<>>), Ends(1, <<>>),
        Fails(2, <<"fits", "give">>), Mute(2)})

N9000037 ==
  Talk(Leave, Leave, {To(-1, Does(0, <<"throw">>, "none")), Does(0, <<"throw">>, "none"), Says(0, "ask"),
        Ends(0, <<>>), Ends(1, <<"warp">>)})

N9000038 ==
  Talk(Leave, Leave, Text(0, <<"menu", "menu">>) \cup {Ends(2, <<>>)})

N9000041 ==
  Talk(Leave, Leave, {Says(0, "ok")})

N9000049 ==
  Talk(Leave, Leave, {Ends(0, <<"warp">>), Says(0, "menu"), Ends(0, <<>>), Ends(1, <<"act">>),
        Ends(1, <<"warp">>), Ends(1, <<>>)})

N9000055 ==
  Talk(Leave, 1, {Does(0, <<"act">>, "ask"), Does(0, <<"act">>, "menu"), Says(0, "ask"), Says(0, "menu"),
        On({"yes"}, Ends(1, <<"act", "warp">>)), Ends(1, <<"act">>),
        On({"yes"}, Does(1, <<"act">>, "number")), Ends(1, <<>>), On({"yes"}, Says(1, "number")),
        On({"yes"}, Ends(2, <<"act", "has", "take">>)), On({"yes"}, Fails(2, <<"act", "has", "take">>)),
        Ends(2, <<"act">>), On({"yes"}, Ends(2, <<"has", "take", "act">>)),
        On({"yes"}, Fails(2, <<"has", "take", "act">>)), Ends(2, <<>>)})

N9000060 ==
  Talk(Leave, Leave, {Says(0, "menu"), Ends(1, <<"warp">>)})

N9000062 ==
  Talk(Leave, Leave, Text(0, <<"menu", "ask", "ok">>) \cup {Ends(0, <<>>), Ends(1, <<>>),
        Fails(2, <<"has", "fits", "give", "take">>)})

N9001000 ==
  Talk(Leave, -1, Text(0, <<"menu", "menu", "number">>) \cup {On({"yes"}, Ends(1, <<>>)),
        On({"yes"}, Says(1, "ok")), Ends(3, <<"has", "take">>), Ends(3, <<>>)})

N9001108 ==
  Talk(Leave, Leave, {Does(0, <<"act">>, "next"), Says(0, "ask"), Says(0, "menu"), Says(0, "next"), Mute(0),
        Ends(1, <<"warp">>), Says(1, "ask"), Says(1, "next"), Mute(1), Says(1, "ok"), Ends(2, <<"warp">>),
        Of({"next"}, Says(2, "ask")), Says(2, "next"), Mute(2), Of({"ask"}, Ends(2, <<>>)), Fails(3, <<>>),
        Ends(3, <<"warp">>), Mute(3)})

N9010001 ==
  Talk(Leave, Leave, Text(0, <<"menu", "text">>) \cup {Fails(1, <<>>), Fails(2, <<>>)})

N9010002 ==
  Talk(Leave, Leave, {On({"open"}, To(-1, Says(0, "menu"))), On({"yes"}, Says(0, "menu")),
        Ends(1, <<"has", "give", "take">>), Says(1, "menu"), Ends(1, <<>>),
        Ends(2, <<"has", "take", "give">>), Ends(2, <<>>)})

N9010022 ==
  Talk(Leave, Leave, {Says(0, "menu"), Ends(0, <<>>), Ends(1, <<"act", "warp">>)})

N9020000 ==
  Talk(Leave, Leave, {Does(0, <<"throw">>, "none"), Fails(0, <<>>), Says(0, "ask"), Ends(1, <<"warp">>)})

N9020002 ==
  Talk(Leave, Leave, {Says(0, "ask"), Says(0, "next"), Ends(1, <<"warp">>)})

N9040000 ==
  Talk(Leave, Leave, {Says(0, "menu"), Ends(0, <<>>), Ends(1, <<"act">>), Fails(1, <<>>), Ends(1, <<>>)})

N9040001 ==
  Talk(Leave, Leave, {Says(0, "ask"), Fails(1, <<>>)})

N9040002 ==
  Talk(-1, Leave, Text(0, <<"menu", "next", "both">>) \cup {On({"yes"}, To(-1, Says(1, "next"))),
        On({"yes"}, Ends(1, <<>>)), To(0, Says(3, "menu"))})

N9040005 ==
  Talk(Leave, Leave, {Says(0, "ask"), Ends(1, <<"warp">>)})

N9060000 ==
  Talk(Leave, Leave, {On({"open"}, To(-1, Says(0, "ask"))), On({"open"}, To(-1, Says(0, "next"))),
        On({"yes"}, Says(0, "ok"))})

N9101001 ==
  Talk(Leave, Leave, Text(0, <<"next", "both">>) \cup {Ends(2, <<"warp", "exp">>)})

N9102100 ==
  Talk(Leave, Leave, {Says(0, "ask"), Ends(0, <<>>), Ends(1, <<"give">>)})

N9102101 ==
  Talk(Leave, Leave, {Says(0, "ask"), Ends(1, <<"give">>)})

N9103002 ==
  Talk(Leave, Leave, {Says(0, "ask"), Fails(1, <<>>)})

N9103003 ==
  Talk(Leave, Leave, {Says(0, "next"), Ends(1, <<"warp">>)})

N9105005 ==
  Talk(Leave, Leave, {Says(0, "ask"), Ends(1, <<"warp">>)})

N9110000 ==
  Talk(Leave, Leave, {Says(0, "ask"), Ends(0, <<>>), Ends(1, <<"warp">>), Mute(1)})

N9120003 ==
  Talk(Leave, Leave, {Says(0, "ask"), Ends(1, <<"rich", "pay", "warp">>), Ends(1, <<>>)})

N9120010 ==
  Talk(Leave, Leave, Text(0, <<"ask", "menu">>) \cup {Ends(2, <<"fits", "has", "take", "give">>),
        Ends(2, <<>>)})

N9120013 ==
  Talk(Leave, -1, Text(2, <<"menu", "menu", "menu", "menu", "menu", "next">>) \cup {Says(0, "ask"),
        Ends(0, <<>>), Does(1, <<"has", "take">>, "next"), Ends(1, <<>>), Ends(3, <<>>), Ends(4, <<>>),
        Ends(5, <<>>), Ends(6, <<>>), Ends(7, <<>>), Ends(8, <<"give">>)})

N9120015 ==
  Talk(Leave, Leave, Text(0, <<"menu", "next">>) \cup {Ends(1, <<>>), Ends(2, <<"warp">>)})

N9120100 ==
  Talk(Leave, Leave, Text(0, <<"menu", "style">>) \cup {Fails(1, <<>>), Ends(2, <<"has", "take", "look">>),
        Ends(2, <<>>)})

N9120101 ==
  Talk(Leave, Leave, Text(0, <<"menu", "ask">>) \cup {Fails(1, <<>>), Ends(2, <<"has", "take", "look">>),
        Ends(2, <<>>)})

N9120102 ==
  Talk(Leave, Leave, Text(0, <<"menu", "style">>) \cup {Fails(1, <<>>), Ends(1, <<>>),
        Ends(2, <<"has", "take", "look">>), Ends(2, <<>>)})

N9120103 ==
  Talk(Leave, Leave, {Says(0, "menu"), Fails(1, <<>>)})

N9120200 ==
  Talk(Leave, Leave, {Says(0, "ask"), Ends(1, <<"warp">>)})

N9120201 ==
  Talk(Leave, Leave, {Ends(0, <<"act">>), Does(0, <<"throw">>, "none"), To(1, Says(0, "menu")),
        To(2, Says(0, "menu")), Mute(0), Ends(0, <<>>), Ends(2, <<"act">>), Ends(2, <<>>), Fails(3, <<>>),
        Ends(3, <<>>)})

N9120203 ==
  Talk(Leave, Leave, {Says(0, "next"), Ends(1, <<"warp">>)})

WorldNpcsTable ==
  [N2003 |-> N2003, N2007 |-> N2007, N2100 |-> N2100, N2101 |-> N2101, N3000 |-> N3000,
   N10200 |-> N10200, N10201 |-> N10201, N10202 |-> N10202, N10203 |-> N10203, N10204 |-> N10204,
   N12101 |-> N12101, N20000 |-> N20000, N22000 |-> N22000, N9000000 |-> N9000000,
   N9000001 |-> N9000001, N9000002 |-> N9000002, N9000004 |-> N9000004, N9000010 |-> N9000010,
   N9000011 |-> N9000011, N9000012 |-> N9000012, N9000013 |-> N9000013, N9000021 |-> N9000021,
   N9000022 |-> N9000022, N9000030 |-> N9000030, N9000033 |-> N9000033, N9000037 |-> N9000037,
   N9000038 |-> N9000038, N9000041 |-> N9000041, N9000049 |-> N9000049, N9000055 |-> N9000055,
   N9000060 |-> N9000060, N9000062 |-> N9000062, N9001000 |-> N9001000, N9001108 |-> N9001108,
   N9010001 |-> N9010001, N9010002 |-> N9010002, N9010022 |-> N9010022, N9020000 |-> N9020000,
   N9020002 |-> N9020002, N9040000 |-> N9040000, N9040001 |-> N9040001, N9040002 |-> N9040002,
   N9040005 |-> N9040005, N9060000 |-> N9060000, N9101001 |-> N9101001, N9102100 |-> N9102100,
   N9102101 |-> N9102101, N9103002 |-> N9103002, N9103003 |-> N9103003, N9105005 |-> N9105005,
   N9110000 |-> N9110000, N9120003 |-> N9120003, N9120010 |-> N9120010, N9120013 |-> N9120013,
   N9120015 |-> N9120015, N9120100 |-> N9120100, N9120101 |-> N9120101, N9120102 |-> N9120102,
   N9120103 |-> N9120103, N9120200 |-> N9120200, N9120201 |-> N9120201, N9120203 |-> N9120203]

===============================================================================
