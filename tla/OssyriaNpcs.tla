---------------------------- MODULE OssyriaNpcs ----------------------------
(***************************************************************************)
(* The npcs of Orbis, El Nath, Ludibrium and Aqua Road (scripts/npc,       *)
(* 2000000 to 2079999): what each that shows a page says and does.         *)
(***************************************************************************)
EXTENDS ScriptRows

N2001000 ==
  Talk(-1, Leave, Text(0, <<"next", "both", "both">>) \cup {Ends(3, <<>>)})

N2001001 ==
  Talk(Leave, -1, {Says(0, "ask"), Ends(1, <<"warp">>)})

N2001002 ==
  Talk(Leave, -1, {Says(0, "ask"), Ends(1, <<"warp">>)})

N2001003 ==
  Talk(Leave, -1, {Says(0, "ask"), Ends(1, <<"warp">>)})

N2001004 ==
  Talk(Leave, -1, {Says(0, "ask"), Ends(1, <<"warp">>)})

N2002000 ==
  Talk(Leave, Leave, {Says(0, "ask"), Ends(1, <<"warp">>)})

N2010000 ==
  Talk(Leave, Leave, Text(0, <<"next", "ask", "menu", "ask">>) \cup {Fails(4, <<"has", "take">>),
        Ends(4, <<>>)})

N2010001 ==
  Talk(Leave, Leave, Text(0, <<"menu", "style">>) \cup {Fails(1, <<>>), Ends(2, <<"has", "take", "look">>),
        Ends(2, <<>>)})

N2010002 ==
  Talk(Leave, Leave, Text(0, <<"menu", "style">>) \cup {Fails(1, <<>>), Ends(2, <<"has", "take", "look">>),
        Ends(2, <<>>)})

N2010005 ==
  Talk(-1, Leave, Text(0, <<"menu", "ask">>) \cup Text(3, <<"next", "prev">>) \cup {To(3, Says(1, "next")),
        Ends(2, <<"act", "warp">>), Ends(2, <<"rich", "pay", "act", "warp">>), Fails(2, <<>>)})

N2010007 ==
  Talk(Leave, -1, {On({"open"}, Says(0, "menu")), Says(1, "ask"), Ends(1, <<>>), Ends(2, <<"act">>), Mute(2),
        Ends(2, <<>>)})

N2010008 ==
  Talk(Leave, Leave, {Says(0, "menu"), Says(1, "ask"), Says(1, "ok"), Ends(2, <<>>)})

N2010009 ==
  Talk(Leave, Leave, Text(0, <<"menu", "ask", "text", "ask">>) \cup {Ends(0, <<>>), Ends(1, <<>>),
        Of({"ask"}, Ends(2, <<"act">>)), Of({"ask"}, Fails(2, <<>>)), Ends(2, <<>>), Fails(4, <<>>),
        To(1, Says(4, "next"))})

N2012000 ==
  Talk(Leave, Leave, Text(0, <<"menu", "menu", "ok">>) \cup {Ends(2, <<"rich", "fits", "give", "pay">>),
        Ends(2, <<"rich", "warp", "pay">>)})

N2012001 ==
  Talk(Leave, Leave, {Says(0, "ask"), Ends(0, <<>>), Ends(1, <<"warp", "take">>), Ends(1, <<>>)})

N2012002 ==
  Talk(Leave, Leave, Text(0, <<"ask", "next">>) \cup {Ends(2, <<"warp">>)})

N2012006 ==
  Talk(Leave, Leave, {On({"open"}, To(-1, Says(0, "menu"))), On({"yes"}, Says(0, "next")),
        Ends(1, <<"warp">>)})

N2012007 ==
  Talk(Leave, Leave, {Says(0, "menu"), Fails(1, <<>>)})

N2012008 ==
  Talk(Leave, Leave, Text(0, <<"menu", "style">>) \cup {Ends(2, <<"has", "take", "look">>), Ends(2, <<>>)})

N2012009 ==
  Talk(Leave, Leave, {Says(0, "menu"), Fails(1, <<>>)})

N2012013 ==
  Talk(Leave, Leave, {Says(0, "ask"), Ends(0, <<>>), Ends(1, <<"warp", "take">>), Ends(1, <<>>)})

N2012014 ==
  Talk(Leave, Leave, {Says(0, "ask"), Ends(0, <<>>), Ends(1, <<"take", "warp">>)})

N2012015 ==
  Talk(Leave, Leave, {Says(0, "ask"), Ends(0, <<>>), Ends(1, <<"take", "warp">>)})

N2012021 ==
  Talk(Leave, Leave, {Says(0, "ask"), Ends(0, <<>>), Ends(1, <<"warp", "take">>), Ends(1, <<>>)})

N2012022 ==
  Talk(Leave, 1, {To(1, Says(0, "ask")), Says(2, "next"), Ends(3, <<"warp">>)})

N2012024 ==
  Talk(Leave, Leave, {To(1, Says(0, "ask")), Says(2, "next"), Ends(3, <<"warp">>)})

N2012025 ==
  Talk(Leave, Leave, {Says(0, "ask"), Ends(0, <<>>), Ends(1, <<"warp", "take">>), Ends(1, <<>>)})

N2013000 ==
  Talk(Leave, Leave, {Does(0, <<"throw">>, "none"), Says(0, "ask"), Ends(0, <<>>), Fails(1, <<>>),
        Ends(1, <<"warp">>), Ends(1, <<>>)})

N2013002 ==
  Talk(Leave, Leave, {Says(0, "ask"), Says(0, "next"), Mute(0), Fails(1, <<>>), Ends(1, <<"warp">>), Mute(1)})

N2020000 ==
  Talk(Leave, Leave, Text(0, <<"menu", "menu", "number", "ask">>) \cup {To(2, Says(1, "menu")),
        Ends(4, <<"fits", "has", "take", "give">>), Ends(4, <<"fits", "rich", "has", "take", "pay", "give">>),
        Ends(4, <<>>)})

N2020005 ==
  Talk(Leave, Leave, Text(0, <<"menu", "number", "ask">>) \cup {Ends(0, <<>>), Ends(1, <<>>), Ends(2, <<>>),
        Ends(3, <<"rich", "fits", "pay", "give">>), Ends(3, <<"rich", "pay", "give">>), Ends(3, <<>>)})

N2020008 ==
  Talk(-1, Leave, {On({"open"}, To(-1, Does(0, <<"throw">>, "none"))),
        On({"open", "yes"}, Ends(0, <<"quest">>)), On({"open"}, To(-1, Says(0, "menu"))),
        On({"yes", "back"}, Says(0, "next")), On({"open", "yes"}, Ends(0, <<>>)),
        Does(1, <<"has", "take", "act">>, "both"), On({"yes"}, Says(1, "ask")), Says(1, "both"),
        On({"back"}, Does(2, <<"take", "job", "act">>, "next")),
        On({"yes"}, Of({"ask"}, Does(2, <<"take", "job", "act">>, "next"))),
        On({"yes"}, Of({"both"}, Says(2, "both"))), On({"back"}, Says(2, "next")),
        On({"yes"}, Of({"ask"}, Says(2, "next"))), On({"back"}, Ends(2, <<>>)),
        On({"yes"}, Of({"ask"}, Ends(2, <<>>))), Of({"next"}, Says(3, "both")), Of({"both"}, Ends(3, <<>>)),
        Ends(4, <<>>)})

N2020009 ==
  Talk(-1, Leave, {On({"open", "yes"}, Ends(0, <<"quest">>)), On({"open"}, To(-1, Says(0, "menu"))),
        On({"yes", "back"}, Says(0, "next")), On({"open", "yes"}, Ends(0, <<>>)),
        Does(1, <<"has", "take", "act">>, "both"), On({"yes"}, Says(1, "ask")), Says(1, "both"),
        On({"back"}, Does(2, <<"take", "job", "act">>, "next")),
        On({"yes"}, Of({"ask"}, Does(2, <<"take", "job", "act">>, "next"))),
        On({"yes"}, Of({"both"}, Says(2, "both"))), On({"back"}, Says(2, "next")),
        On({"yes"}, Of({"ask"}, Says(2, "next"))), On({"back"}, Ends(2, <<>>)),
        On({"yes"}, Of({"ask"}, Ends(2, <<>>))), Of({"next"}, Says(3, "both")), Of({"both"}, Ends(3, <<>>)),
        Ends(4, <<>>)})

N2020010 ==
  Talk(-1, Leave, {On({"open", "yes"}, Ends(0, <<"quest">>)), On({"open"}, To(-1, Says(0, "menu"))),
        On({"yes", "back"}, Says(0, "next")), On({"open", "yes"}, Ends(0, <<>>)),
        Does(1, <<"has", "take", "act">>, "both"), On({"yes"}, Says(1, "ask")), Says(1, "both"),
        On({"back"}, Does(2, <<"take", "job", "act">>, "next")),
        On({"yes"}, Of({"ask"}, Does(2, <<"take", "job", "act">>, "next"))),
        On({"yes"}, Of({"both"}, Says(2, "both"))), On({"back"}, Says(2, "next")),
        On({"yes"}, Of({"ask"}, Says(2, "next"))), On({"back"}, Ends(2, <<>>)),
        On({"yes"}, Of({"ask"}, Ends(2, <<>>))), Of({"next"}, Says(3, "both")), Of({"both"}, Ends(3, <<>>)),
        Ends(4, <<>>)})

N2020011 ==
  Talk(-1, Leave, {On({"open", "yes"}, Ends(0, <<"quest">>)), On({"open"}, To(-1, Says(0, "menu"))),
        On({"yes", "back"}, Says(0, "next")), On({"open", "yes"}, Ends(0, <<>>)),
        Does(1, <<"has", "take", "act">>, "both"), On({"yes"}, Says(1, "ask")), Says(1, "both"),
        On({"back"}, Does(2, <<"take", "job", "act">>, "next")),
        On({"yes"}, Of({"ask"}, Does(2, <<"take", "job", "act">>, "next"))),
        On({"yes"}, Of({"both"}, Says(2, "both"))), On({"back"}, Says(2, "next")),
        On({"yes"}, Of({"ask"}, Says(2, "next"))), On({"back"}, Ends(2, <<>>)),
        On({"yes"}, Of({"ask"}, Ends(2, <<>>))), Of({"next"}, Says(3, "both")), Of({"both"}, Ends(3, <<>>)),
        Ends(4, <<>>)})

N2020013 ==
  Talk(-1, Leave, {On({"open", "yes"}, Ends(0, <<"quest">>)), On({"open"}, To(-1, Says(0, "menu"))),
        On({"yes", "back"}, Says(0, "next")), On({"open", "yes"}, Ends(0, <<>>)),
        Does(1, <<"has", "take", "act">>, "both"), On({"yes"}, Says(1, "ask")), Says(1, "both"),
        On({"back"}, Does(2, <<"take", "job", "act">>, "next")),
        On({"yes"}, Of({"ask"}, Does(2, <<"take", "job", "act">>, "next"))),
        On({"yes"}, Of({"both"}, Says(2, "both"))), On({"back"}, Says(2, "next")),
        On({"yes"}, Of({"ask"}, Says(2, "next"))), On({"back"}, Ends(2, <<>>)),
        On({"yes"}, Of({"ask"}, Ends(2, <<>>))), Of({"next"}, Says(3, "both")), Of({"both"}, Ends(3, <<>>)),
        Ends(4, <<>>)})

N2022004 ==
  Talk(Leave, Leave, {Says(0, "next"), Ends(1, <<"warp">>)})

N2023000 ==
  Talk(Leave, Leave, Text(0, <<"next", "ask">>) \cup {Ends(2, <<"rich", "warp", "pay">>),
        Ends(2, <<"warp", "meso">>), Ends(2, <<>>)})

N2030000 ==
  Talk(-1, -1, {On({"open"}, Ends(0, <<"warp">>)), On({"open"}, Says(0, "next")), On({"back", "no"}, Mute(0)),
        On({"back", "no"}, Ends(0, <<>>)), Says(1, "ask"), Says(1, "prev"), Ends(2, <<"warp">>),
        Ends(2, <<>>)})

N2030006 ==
  Talk(Leave, Leave, Text(2, <<"menu", "menu", "menu", "menu">>) \cup {Says(0, "next"), Ends(0, <<>>),
        Does(1, <<"take">>, "menu"), Ends(2, <<>>), Ends(3, <<>>), Ends(4, <<>>), Ends(5, <<>>),
        Ends(6, <<"give">>), Ends(6, <<>>)})

N2030008 ==
  Talk(Leave, Leave, Text(0, <<"menu", "ask">>) \cup {Ends(0, <<"warp">>), Ends(0, <<>>),
        Ends(1, <<"has", "quest", "take", "give">>), Ends(1, <<"rich", "fits", "pay", "quest", "give">>),
        Ends(1, <<"rich", "give", "pay">>), Fails(1, <<>>), Ends(1, <<"warp">>), Mute(1), Ends(1, <<>>),
        Ends(2, <<"warp">>), Ends(2, <<>>)})

N2030010 ==
  Talk(Leave, Leave, {Does(0, <<"throw">>, "none"), Says(0, "ask"), Ends(1, <<"warp">>)})

N2030013 ==
  Talk(Leave, Leave, {Ends(0, <<"act">>), Does(0, <<"throw">>, "none"), To(1, Says(0, "menu")),
        To(2, Says(0, "menu")), Mute(0), Ends(0, <<>>), Ends(2, <<"act">>), Ends(2, <<>>), Fails(3, <<>>),
        Ends(3, <<>>)})

N2030016 ==
  Talk(Leave, Leave, {Ends(0, <<"act">>), Does(0, <<"throw">>, "none"), To(1, Says(0, "menu")),
        To(2, Says(0, "menu")), Mute(0), Ends(0, <<>>), Ends(2, <<"act">>), Ends(2, <<>>), Fails(3, <<>>),
        Ends(3, <<>>)})

N2032001 ==
  Talk(Leave, Leave, Text(0, <<"ask", "number">>) \cup {Ends(0, <<>>),
        Ends(2, <<"rich", "has", "fits", "take", "pay", "give">>), Ends(2, <<>>)})

N2032003 ==
  Talk(Leave, Leave, Text(0, <<"next", "next">>) \cup {Ends(1, <<>>), Fails(2, <<"give">>)})

N2040000 ==
  Talk(Leave, Leave, Text(0, <<"menu", "menu", "ok">>) \cup {Ends(2, <<"rich", "fits", "give", "pay">>),
        Ends(2, <<"rich", "warp", "pay">>), Ends(2, <<>>)})

N2040002 ==
  Talk(Leave, Leave, Text(0, <<"next", "ask">>) \cup {Ends(0, <<>>), Ends(2, <<"event">>)})

N2040003 ==
  Talk(Leave, Leave, {To(1, Says(0, "ask")), Says(0, "ok"), Fails(2, <<>>),
        Ends(2, <<"warp", "has", "take">>), Ends(2, <<"warp", "take">>), Ends(2, <<"warp">>)})

N2040016 ==
  Talk(Leave, Leave, Text(0, <<"menu", "menu", "number", "ask">>) \cup {To(2, Says(1, "menu")),
        Ends(4, <<"fits", "give">>), Ends(4, <<"fits", "has", "take", "give">>),
        Ends(4, <<"fits", "rich", "has", "take", "pay", "give">>), Ends(4, <<>>)})

N2040019 ==
  Talk(Leave, Leave, Text(0, <<"menu", "ask">>) \cup {Fails(1, <<>>), Ends(2, <<"has", "take", "look">>),
        Ends(2, <<>>)})

N2040022 ==
  Talk(Leave, Leave, Text(0, <<"menu", "menu", "ask">>) \cup {Ends(1, <<>>),
        Ends(3, <<"fits", "rich", "has", "take", "pay", "give">>), Ends(3, <<"rich", "has", "take", "pay">>),
        Ends(3, <<>>)})

N2040024 ==
  Talk(Leave, Leave, {Says(0, "ask"), Ends(0, <<>>), Ends(1, <<"take", "warp">>)})

N2040025 ==
  Talk(Leave, Leave, Text(0, <<"menu", "ask">>) \cup {Ends(0, <<>>), Ends(2, <<"take", "warp">>)})

N2040026 ==
  Talk(Leave, Leave, Text(0, <<"menu", "ask">>) \cup {Ends(0, <<>>), Ends(2, <<"take", "warp">>)})

N2040027 ==
  Talk(Leave, Leave, {Says(0, "ask"), Ends(0, <<>>), Ends(1, <<"take", "warp">>)})

N2040028 ==
  Talk(Leave, Leave, {Does(0, <<"has", "quest", "take">>, "ask"), Says(0, "ask"), Ends(1, <<"warp">>)})

N2040030 ==
  Talk(Leave, Leave, Text(0, <<"menu", "next", "both">>) \cup {Ends(1, <<>>), Ends(3, <<>>)})

N2040032 ==
  Talk(Leave, Leave, {Says(0, "ask"), Ends(1, <<"give">>), Ends(1, <<>>)})

N2040033 ==
  Talk(Leave, Leave, {Says(0, "next"), Ends(0, <<>>), Ends(1, <<"take", "act">>), Ends(1, <<>>)})

N2040035 ==
  Talk(Leave, Leave, {Says(0, "next"), Fails(1, <<>>)})

N2040045 ==
  Talk(Leave, Leave, {Says(0, "ask"), Ends(1, <<"warp">>)})

N2040046 ==
  Talk(Leave, Leave, Text(0, <<"ask", "ask">>) \cup {Ends(2, <<"rich", "pay", "act">>), Ends(2, <<>>)})

N2040047 ==
  Talk(Leave, Leave, {Says(0, "ask"), Says(0, "next"), Ends(1, <<"warp">>)})

N2040048 ==
  Talk(-1, Leave, Text(0, <<"menu", "ask">>) \cup Text(3, <<"next", "prev">>) \cup {To(3, Says(1, "next")),
        Ends(2, <<"act", "warp">>), Ends(2, <<"rich", "pay", "act", "warp">>), Ends(2, <<>>)})

N2040050 ==
  Talk(Leave, -1, {To(1, Says(0, "menu")), On({"no"}, Fails(2, <<>>)), On({"yes"}, Says(2, "menu")),
        Says(3, "ask"), Ends(4, <<"has", "fits", "rich", "take", "pay", "give">>), Ends(4, <<>>)})

N2040052 ==
  Talk(-1, Leave, Text(0, <<"next", "both">>) \cup {On({"open"}, Ends(0, <<>>)), Ends(2, <<>>)})

N2041000 ==
  Talk(Leave, Leave, {Says(0, "ask"), Ends(0, <<>>), Ends(1, <<"warp", "take">>), Ends(1, <<>>)})

N2041001 ==
  Talk(Leave, 1, {To(1, Says(0, "ask")), Says(2, "next"), Ends(3, <<"warp">>)})

N2041007 ==
  Talk(Leave, Leave, Text(0, <<"menu", "style">>) \cup {Fails(1, <<>>), Ends(2, <<"has", "take", "look">>),
        Ends(2, <<>>)})

N2041009 ==
  Talk(Leave, Leave, Text(0, <<"menu", "ask">>) \cup {Fails(1, <<>>), Ends(2, <<"has", "take", "look">>),
        Fails(2, <<"has", "take">>), Ends(2, <<>>)})

N2041010 ==
  Talk(Leave, Leave, Text(0, <<"menu", "style">>) \cup {Fails(1, <<>>), Ends(2, <<"has", "take", "look">>),
        Ends(2, <<>>)})

N2041013 ==
  Talk(Leave, Leave, Text(0, <<"menu", "style">>) \cup {Ends(2, <<"has", "take", "look">>), Ends(2, <<>>)})

N2041025 ==
  Talk(Leave, Leave, {Says(0, "ask"), Ends(1, <<"warp">>)})

N2042000 ==
  Talk(Leave, Leave, {Does(0, <<"throw">>, "none"), To(1, Does(0, <<"throw">>, "none")), Ends(0, <<"warp">>),
        Says(0, "next"), Ends(0, <<>>), Fails(1, <<>>), Ends(1, <<"warp">>)})

N2042001 ==
  Talk(Leave, Leave, {Does(0, <<"throw">>, "none"), To(1, Does(0, <<"throw">>, "none")), Ends(0, <<"warp">>),
        Says(0, "next"), Ends(0, <<>>), Fails(1, <<>>), Ends(1, <<"warp">>)})

N2042002 ==
  Talk(Leave, Leave, {Does(0, <<"throw">>, "none"), To(1, Does(0, <<"throw">>, "none")), Ends(0, <<"warp">>),
        Says(0, "next"), Ends(0, <<>>), Fails(1, <<>>), Ends(1, <<"warp">>)})

N2042005 ==
  Talk(Leave, Leave, {Does(0, <<"throw">>, "none"), To(10, Says(0, "ok"))})

N2042007 ==
  Talk(Leave, Leave, {Does(0, <<"throw">>, "none"), Says(0, "next"), Fails(1, <<>>), Ends(1, <<"warp">>)})

N2043000 ==
  Talk(Leave, Leave, {Says(0, "next"), Ends(1, <<"warp">>)})

N2060009 ==
  Talk(Leave, Leave, {Says(0, "menu"), Ends(1, <<"rich", "pay", "warp">>), Ends(1, <<"take", "warp">>),
        Ends(1, <<"warp">>), Ends(1, <<>>)})

N2071010 ==
  Talk(Leave, -1, Text(0, <<"menu", "ask">>))

N2071012 ==
  Talk(Leave, Leave, {Says(0, "ask"), Ends(0, <<>>), Fails(1, <<"take">>)})

OssyriaNpcsTable ==
  [N2001000 |-> N2001000, N2001001 |-> N2001001, N2001002 |-> N2001002, N2001003 |-> N2001003,
   N2001004 |-> N2001004, N2002000 |-> N2002000, N2010000 |-> N2010000, N2010001 |-> N2010001,
   N2010002 |-> N2010002, N2010005 |-> N2010005, N2010007 |-> N2010007, N2010008 |-> N2010008,
   N2010009 |-> N2010009, N2012000 |-> N2012000, N2012001 |-> N2012001, N2012002 |-> N2012002,
   N2012006 |-> N2012006, N2012007 |-> N2012007, N2012008 |-> N2012008, N2012009 |-> N2012009,
   N2012013 |-> N2012013, N2012014 |-> N2012014, N2012015 |-> N2012015, N2012021 |-> N2012021,
   N2012022 |-> N2012022, N2012024 |-> N2012024, N2012025 |-> N2012025, N2013000 |-> N2013000,
   N2013002 |-> N2013002, N2020000 |-> N2020000, N2020005 |-> N2020005, N2020008 |-> N2020008,
   N2020009 |-> N2020009, N2020010 |-> N2020010, N2020011 |-> N2020011, N2020013 |-> N2020013,
   N2022004 |-> N2022004, N2023000 |-> N2023000, N2030000 |-> N2030000, N2030006 |-> N2030006,
   N2030008 |-> N2030008, N2030010 |-> N2030010, N2030013 |-> N2030013, N2030016 |-> N2030016,
   N2032001 |-> N2032001, N2032003 |-> N2032003, N2040000 |-> N2040000, N2040002 |-> N2040002,
   N2040003 |-> N2040003, N2040016 |-> N2040016, N2040019 |-> N2040019, N2040022 |-> N2040022,
   N2040024 |-> N2040024, N2040025 |-> N2040025, N2040026 |-> N2040026, N2040027 |-> N2040027,
   N2040028 |-> N2040028, N2040030 |-> N2040030, N2040032 |-> N2040032, N2040033 |-> N2040033,
   N2040035 |-> N2040035, N2040045 |-> N2040045, N2040046 |-> N2040046, N2040047 |-> N2040047,
   N2040048 |-> N2040048, N2040050 |-> N2040050, N2040052 |-> N2040052, N2041000 |-> N2041000,
   N2041001 |-> N2041001, N2041007 |-> N2041007, N2041009 |-> N2041009, N2041010 |-> N2041010,
   N2041013 |-> N2041013, N2041025 |-> N2041025, N2042000 |-> N2042000, N2042001 |-> N2042001,
   N2042002 |-> N2042002, N2042005 |-> N2042005, N2042007 |-> N2042007, N2043000 |-> N2043000,
   N2060009 |-> N2060009, N2071010 |-> N2071010, N2071012 |-> N2071012]

===============================================================================
