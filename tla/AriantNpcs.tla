----------------------------- MODULE AriantNpcs -----------------------------
(***************************************************************************)
(* The npcs of Leafre, Mu Lung, Ariant and Magatia (scripts/npc, 2080000   *)
(* to 2999999): what each that shows a page says and does.                 *)
(***************************************************************************)
EXTENDS ScriptRows

N2081000 ==
  Talk(Leave, Leave, Text(0, <<"menu", "menu", "number", "ask">>) \cup {Ends(1, <<>>), Ends(3, <<>>),
        Ends(4, <<"rich", "fits", "give", "pay">>), Ends(4, <<>>)})

N2081004 ==
  Talk(Leave, Leave, {Says(0, "menu"), Ends(1, <<"fits", "give">>), Ends(1, <<>>)})

N2081009 ==
  Talk(Leave, Leave, {Says(0, "ask"), Ends(0, <<>>), Fails(1, <<"warp">>)})

N2081010 ==
  Talk(Leave, Leave, {Says(0, "ask"), Ends(1, <<"warp">>)})

N2081100 ==
  Talk(Leave, Leave, {Says(0, "ask"), Says(0, "menu"), Ends(0, <<>>), Ends(1, <<"fits", "job", "give">>),
        Ends(1, <<"fits", "job", "skill", "give">>), Ends(1, <<"skill">>), Ends(1, <<>>)})

N2081200 ==
  Talk(Leave, Leave, {Says(0, "ask"), Says(0, "menu"), Ends(0, <<>>), Ends(1, <<"fits", "job", "give">>),
        Ends(1, <<"fits", "job", "skill", "give">>), Ends(1, <<"skill">>), Ends(1, <<>>)})

N2081300 ==
  Talk(Leave, Leave, {Says(0, "ask"), Says(0, "menu"), Ends(0, <<>>), Ends(1, <<"fits", "job", "give">>),
        Ends(1, <<"fits", "job", "skill", "give">>), Ends(1, <<"skill">>), Ends(1, <<>>)})

N2081400 ==
  Talk(Leave, Leave, {Says(0, "ask"), Says(0, "menu"), Ends(0, <<>>), Ends(1, <<"fits", "job", "give">>),
        Ends(1, <<"fits", "job", "skill", "give">>), Ends(1, <<"skill">>), Ends(1, <<>>)})

N2081500 ==
  Talk(Leave, Leave, {Says(0, "ask"), Says(0, "menu"), Ends(0, <<>>), Ends(1, <<"fits", "job", "give">>),
        Ends(1, <<"fits", "job", "skill", "give">>), Ends(1, <<"skill">>), Ends(1, <<>>)})

N2082000 ==
  Talk(Leave, Leave, Text(0, <<"menu", "menu", "ok">>) \cup {Ends(2, <<"rich", "fits", "give", "pay">>),
        Ends(2, <<"rich", "warp", "pay">>), Ends(2, <<>>)})

N2082001 ==
  Talk(Leave, Leave, {Says(0, "ask"), Ends(0, <<>>), Ends(1, <<"warp", "take">>), Ends(1, <<>>)})

N2082002 ==
  Talk(Leave, 1, {To(1, Says(0, "ask")), Says(2, "next"), Ends(3, <<"warp">>)})

N2082003 ==
  Talk(Leave, Leave, {Says(0, "menu"), Ends(1, <<"act", "warp">>)})

N2083000 ==
  Talk(Leave, Leave, {Says(0, "ask"), Ends(0, <<>>), Ends(1, <<"warp">>)})

N2083002 ==
  Talk(Leave, Leave, {Says(0, "ask"), Ends(1, <<"warp">>)})

N2083004 ==
  Talk(Leave, Leave, {Ends(0, <<"act">>), Does(0, <<"throw">>, "none"), To(1, Says(0, "menu")),
        To(2, Says(0, "menu")), Mute(0), Ends(0, <<>>), Ends(2, <<"act">>), Ends(2, <<>>), Fails(3, <<>>),
        Ends(3, <<>>)})

N2083006 ==
  Talk(Leave, Leave, {Says(0, "menu"), Ends(0, <<>>), Does(1, <<"warp">>, "none")})

N2084001 ==
  Talk(Leave, Leave, {Says(0, "menu"), Ends(1, <<"has", "meso", "take">>), Ends(1, <<"rich", "pay", "give">>),
        Ends(1, <<>>)})

N2084002 ==
  Talk(Leave, Leave, {Says(0, "menu"), Ends(1, <<"has", "meso", "take">>), Ends(1, <<"rich", "pay", "give">>),
        Ends(1, <<>>)})

N2090005 ==
  Talk(Leave, Leave, Text(0, <<"menu", "ask">>) \cup {To(1, Says(0, "ask")), Ends(2, <<"event", "meso">>),
        Ends(2, <<"event">>), Ends(2, <<"rich", "event", "pay">>), Ends(2, <<"rich", "pay", "warp">>),
        Ends(2, <<>>)})

N2090100 ==
  Talk(Leave, Leave, Text(0, <<"menu", "style">>) \cup {Fails(1, <<>>), Ends(2, <<"has", "take", "look">>),
        Ends(2, <<>>)})

N2090101 ==
  Talk(Leave, Leave, Text(0, <<"menu", "ask">>) \cup {Fails(1, <<>>), Ends(2, <<"has", "take", "look">>),
        Ends(2, <<>>)})

N2090102 ==
  Talk(Leave, Leave, Text(0, <<"menu", "style">>) \cup {Ends(2, <<"has", "take", "look">>), Ends(2, <<>>)})

N2090103 ==
  Talk(Leave, Leave, Text(0, <<"menu", "style">>) \cup {Fails(1, <<>>), Ends(1, <<>>),
        Ends(2, <<"has", "take", "look">>), Ends(2, <<>>)})

N2090104 ==
  Talk(Leave, Leave, Text(0, <<"menu", "ask">>) \cup {Fails(1, <<>>), Ends(2, <<"has", "take", "look">>),
        Ends(2, <<>>)})

N2091006 ==
  Talk(-1, Leave, {On({"yes"}, Says(-1, "ask")), Says(-1, "next"), Of({"ask"}, Ends(0, <<"act", "warp">>)),
        On({"open"}, To(-2, Says(0, "menu"))), Of({"next"}, Says(0, "prev"))})

N2091009 ==
  Talk(Leave, Leave, {Says(0, "text"), Fails(1, <<>>)})

N2093004 ==
  Talk(Leave, Leave, {Says(0, "ask"), Ends(1, <<"rich", "pay", "warp">>), Ends(1, <<>>)})

N2094001 ==
  Talk(Leave, Leave, {Does(0, <<"throw">>, "none"), Says(0, "menu"), Ends(1, <<"fits", "give", "warp">>),
        Ends(1, <<"has", "fits", "take", "give">>), Fails(1, <<>>), Ends(1, <<>>)})

N2095000 ==
  Talk(Leave, Leave, {Does(0, <<"throw">>, "none"), Says(0, "ask"), Ends(0, <<>>), Fails(1, <<>>),
        Ends(1, <<"warp">>), Ends(1, <<>>)})

N2100001 ==
  Talk(Leave, Leave, Text(0, <<"ask", "menu", "menu", "number", "ask">>) \cup
        {Ends(5, <<"fits", "rich", "has", "take", "pay", "give">>), Ends(5, <<>>)})

N2100005 ==
  Talk(Leave, Leave, {Says(0, "menu"), Fails(1, <<>>)})

N2100006 ==
  Talk(Leave, Leave, {Says(0, "menu"), Fails(1, <<>>)})

N2100007 ==
  Talk(Leave, Leave, Text(0, <<"next", "style">>) \cup {Ends(2, <<"has", "take", "look">>), Ends(2, <<>>)})

N2100008 ==
  Talk(Leave, Leave, {Says(0, "menu"), Fails(1, <<>>), Ends(1, <<>>)})

N2100009 ==
  Talk(Leave, Leave, {Says(0, "menu"), Fails(1, <<>>)})

N2101002 ==
  Talk(Leave, Leave, {Says(0, "ok")})

N2101003 ==
  Talk(Leave, Leave, {Says(0, "next"), Ends(1, <<>>)})

N2101013 ==
  Talk(Leave, Leave, Text(0, <<"next", "ask", "next">>) \cup {Does(3, <<"rich", "pay", "warp">>, "none"),
        Ends(3, <<>>)})

N2101014 ==
  Talk(Leave, Leave, Text(0, <<"menu", "text">>) \cup {Does(0, <<"throw">>, "none"), Mute(0), Ends(0, <<>>),
        Fails(1, <<>>), Mute(1), Ends(1, <<>>), Fails(2, <<>>), To(0, Says(2, "next")), Mute(2),
        Ends(2, <<>>)})

N2101018 ==
  Talk(-1, Leave, Text(0, <<"next", "both", "menu", "next">>) \cup {On({"open"}, Ends(0, <<>>)),
        Ends(4, <<"act", "warp">>)})

N2102000 ==
  Talk(Leave, Leave, {Says(0, "ask"), Ends(0, <<>>), Ends(1, <<"warp", "take">>), Ends(1, <<>>)})

N2102001 ==
  Talk(Leave, Leave, {To(1, Says(0, "ask")), Says(2, "next"), Ends(3, <<"warp">>)})

N2102002 ==
  Talk(Leave, Leave, Text(0, <<"menu", "menu", "ok">>) \cup {Ends(2, <<"rich", "fits", "give", "pay">>),
        Ends(2, <<"rich", "warp", "pay">>), Ends(2, <<>>)})

N2103001 ==
  Talk(Leave, Leave, {On({"open"}, To(-1, Does(0, <<"throw">>, "next"))), On({"yes"}, Fails(0, <<>>)),
        Ends(0, <<>>)})

N2110005 ==
  Talk(Leave, Leave, {Says(0, "ask"), Ends(1, <<"rich", "warp", "pay">>), Ends(1, <<>>)})

N2111016 ==
  Talk(Leave, Leave, {Says(0, "menu"), Fails(1, <<>>)})

N2111017 ==
  Talk(Leave, Leave, {Does(0, <<"throw">>, "none"), Ends(0, <<"warp">>), Ends(0, <<>>), Says(0, "text"),
        Fails(1, <<>>), Ends(1, <<>>)})

N2111018 ==
  Talk(Leave, Leave, {Does(0, <<"throw">>, "none"), Ends(0, <<"warp">>), Ends(0, <<>>), Says(0, "text"),
        Fails(1, <<>>), Ends(1, <<>>)})

N2111019 ==
  Talk(Leave, Leave, {Does(0, <<"throw">>, "none"), Ends(0, <<"warp">>), Ends(0, <<>>), Says(0, "text"),
        Fails(1, <<>>), Ends(1, <<>>)})

N2112001 ==
  Talk(Leave, Leave, Text(0, <<"menu", "next">>) \cup {Ends(2, <<"quest", "warp">>), Ends(2, <<"warp">>)})

N2112003 ==
  Talk(Leave, Leave, {Does(0, <<"throw">>, "none"), Says(0, "ask"), Ends(0, <<>>), Fails(1, <<>>),
        Ends(1, <<"warp">>), Ends(1, <<>>)})

N2112004 ==
  Talk(Leave, Leave, {Does(0, <<"throw">>, "none"), Says(0, "ask"), Ends(0, <<>>), Fails(1, <<>>),
        Ends(1, <<"warp">>), Ends(1, <<>>)})

N2112011 ==
  Talk(Leave, Leave, Text(0, <<"menu", "next">>) \cup {Ends(2, <<"quest", "warp">>), Ends(2, <<"warp">>)})

N2131001 ==
  Talk(Leave, Leave, Text(0, <<"menu", "number">>) \cup {Ends(1, <<>>),
        Ends(2, <<"has", "fits", "give", "take">>), Ends(2, <<>>)})

N2131003 ==
  Talk(Leave, Leave, Text(0, <<"menu", "number">>) \cup {Ends(1, <<>>),
        Ends(2, <<"has", "fits", "give", "take">>), Ends(2, <<>>)})

N2131005 ==
  Talk(Leave, Leave, Text(0, <<"menu", "number">>) \cup {Ends(1, <<>>),
        Ends(2, <<"has", "fits", "give", "take">>), Ends(2, <<>>)})

N2131006 ==
  Talk(Leave, Leave, Text(0, <<"menu", "number">>) \cup {Ends(1, <<>>),
        Ends(2, <<"has", "fits", "give", "take">>), Ends(2, <<>>)})

N2131007 ==
  Talk(Leave, Leave, Text(0, <<"menu", "number">>) \cup {Ends(1, <<>>),
        Ends(2, <<"has", "fits", "give", "take">>), Ends(2, <<>>)})

N2133001 ==
  Talk(Leave, Leave, {Does(0, <<"throw">>, "none"), Says(0, "ask"), Says(0, "next"), Fails(1, <<>>),
        Ends(1, <<"warp">>), Ends(1, <<>>)})

N2133002 ==
  Talk(Leave, Leave, {Says(0, "ask"), Ends(1, <<"take", "warp">>)})

N2133004 ==
  Talk(Leave, Leave, {Does(0, <<"throw">>, "none"), Says(0, "ask"), Fails(1, <<>>), Ends(1, <<"warp">>)})

N2141000 ==
  Talk(Leave, Leave, {Says(0, "ask"), Ends(1, <<"act">>)})

N2141001 ==
  Talk(Leave, Leave, {Ends(0, <<"act">>), Does(0, <<"throw">>, "none"), To(1, Says(0, "menu")),
        To(2, Says(0, "menu")), Mute(0), Ends(0, <<>>), Ends(2, <<"act">>), Ends(2, <<>>), Fails(3, <<>>),
        Ends(3, <<>>)})

N2540005 ==
  Talk(Leave, Leave, {Says(0, "ask"), Says(0, "menu"), Mute(0), Ends(1, <<"warp">>), Mute(1)})

AriantNpcsTable ==
  [N2081000 |-> N2081000, N2081004 |-> N2081004, N2081009 |-> N2081009, N2081010 |-> N2081010,
   N2081100 |-> N2081100, N2081200 |-> N2081200, N2081300 |-> N2081300, N2081400 |-> N2081400,
   N2081500 |-> N2081500, N2082000 |-> N2082000, N2082001 |-> N2082001, N2082002 |-> N2082002,
   N2082003 |-> N2082003, N2083000 |-> N2083000, N2083002 |-> N2083002, N2083004 |-> N2083004,
   N2083006 |-> N2083006, N2084001 |-> N2084001, N2084002 |-> N2084002, N2090005 |-> N2090005,
   N2090100 |-> N2090100, N2090101 |-> N2090101, N2090102 |-> N2090102, N2090103 |-> N2090103,
   N2090104 |-> N2090104, N2091006 |-> N2091006, N2091009 |-> N2091009, N2093004 |-> N2093004,
   N2094001 |-> N2094001, N2095000 |-> N2095000, N2100001 |-> N2100001, N2100005 |-> N2100005,
   N2100006 |-> N2100006, N2100007 |-> N2100007, N2100008 |-> N2100008, N2100009 |-> N2100009,
   N2101002 |-> N2101002, N2101003 |-> N2101003, N2101013 |-> N2101013, N2101014 |-> N2101014,
   N2101018 |-> N2101018, N2102000 |-> N2102000, N2102001 |-> N2102001, N2102002 |-> N2102002,
   N2103001 |-> N2103001, N2110005 |-> N2110005, N2111016 |-> N2111016, N2111017 |-> N2111017,
   N2111018 |-> N2111018, N2111019 |-> N2111019, N2112001 |-> N2112001, N2112003 |-> N2112003,
   N2112004 |-> N2112004, N2112011 |-> N2112011, N2131001 |-> N2131001, N2131003 |-> N2131003,
   N2131005 |-> N2131005, N2131006 |-> N2131006, N2131007 |-> N2131007, N2133001 |-> N2133001,
   N2133002 |-> N2133002, N2133004 |-> N2133004, N2141000 |-> N2141000, N2141001 |-> N2141001,
   N2540005 |-> N2540005]

===============================================================================
