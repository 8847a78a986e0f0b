---------------------------- MODULE VictoriaNpcs ----------------------------
(***************************************************************************)
(* The npcs of Maple Island, Victoria Island and Ereve (scripts/npc,       *)
(* 1000000 to 1999999): what each that shows a page says and does.         *)
(***************************************************************************)
EXTENDS ScriptRows

N1002000 ==
  Talk(-1, Leave, Text(0, <<"next", "menu", "menu", "next">>) \cup Text(5, <<"both", "both">>) \cup
        {On({"yes"}, Says(3, "ask")), Of({"ask"}, Ends(4, <<"rich", "pay", "warp">>)),
        Of({"next", "both"}, Says(4, "both")), Of({"ask"}, Ends(4, <<>>)), Ends(6, <<>>), Ends(7, <<>>)})

N1002002 ==
  Talk(Leave, 0, {Says(0, "menu"), On({"yes"}, Ends(1, <<"rich", "pay", "act", "warp">>)),
        On({"yes"}, Says(1, "ask")), On({"yes"}, Says(1, "next")), On({"yes"}, Ends(1, <<>>)),
        To(3, Mute(2))})

N1002003 ==
  Talk(Leave, Leave, Text(0, <<"ask", "ask">>) \cup {Ends(2, <<"rich", "pay", "act">>), Ends(2, <<>>)})

N1002004 ==
  Talk(Leave, Leave, Text(0, <<"next", "ask">>) \cup {Ends(2, <<"rich", "pay", "warp">>), Ends(2, <<>>)})

N1002007 ==
  Talk(Leave, Leave, Text(0, <<"next", "menu", "ask">>) \cup {Ends(1, <<"has", "take", "warp">>),
        Ends(3, <<"rich", "pay", "warp">>), Ends(3, <<>>)})

N1002100 ==
  Talk(Leave, Leave, Text(1, <<"number", "ask">>) \cup {On({"yes"}, Says(0, "menu")),
        On({"open"}, To(-1, Says(0, "next"))), On({"open"}, Ends(0, <<>>)),
        Ends(3, <<"rich", "fits", "pay", "give">>), Fails(3, <<>>), Ends(3, <<>>)})

N1012000 ==
  Talk(Leave, Leave, Text(0, <<"next", "menu", "ask">>) \cup {Ends(3, <<"rich", "pay", "warp">>),
        Ends(3, <<>>)})

N1012005 ==
  Talk(Leave, Leave, {On({"yes"}, Says(0, "menu")), On({"open"}, To(-1, Says(0, "next"))),
        To(11, Says(1, "next")), To(14, Says(1, "next")), To(3, Says(1, "next")), To(6, Says(1, "next")),
        Ends(1, <<>>), Ends(4, <<>>), Ends(7, <<>>), Ends(12, <<>>), Ends(15, <<>>)})

N1012006 ==
  Talk(Leave, Leave, Text(0, <<"menu", "ask">>) \cup {Ends(1, <<>>), Ends(2, <<"give">>)})

N1012007 ==
  Talk(Leave, Leave, {Says(0, "next"), Ends(0, <<>>), Fails(1, <<"take">>), Ends(1, <<>>)})

N1012008 ==
  Talk(-1, Leave, Text(0, <<"menu", "menu">>) \cup Text(5, <<"both", "both", "both", "prev">>) \cup
        {On({"yes"}, Does(2, <<"has", "take", "give">>, "none")), On({"yes"}, Says(2, "next")),
        On({"yes"}, Ends(2, <<>>)), Says(3, "both"), On({"yes"}, Says(3, "menu")),
        Of({"menu"}, Ends(4, <<"has", "take", "give">>)), Of({"both"}, Says(4, "both")),
        Of({"menu"}, Ends(4, <<>>)), On({"yes"}, Says(7, "prev"))})

N1012100 ==
  Talk(-1, -1, Text(2, <<"ask", "next", "both", "both", "both">>) \cup {Mute(-2), Ends(-2, <<>>),
        On({"yes"}, Ends(0, <<"act">>)), On({"open"}, To(-1, Does(0, <<"throw">>, "none"))),
        Of({"next"}, Ends(0, <<"has", "act", "take", "give", "warp">>)),
        On({"yes"}, Does(0, <<"quest">>, "next")), On({"yes"}, Ends(0, <<"rich", "act", "pay">>)),
        On({"open"}, To(-1, Says(0, "ask"))), On({"yes"}, Says(0, "menu")),
        On({"open"}, To(-1, Says(0, "next"))), On({"yes"}, Says(0, "next")), Ends(0, <<>>),
        On({"yes"}, Ends(1, <<"act">>)), Ends(1, <<"has", "fits", "give", "warp", "take">>),
        Ends(1, <<"has", "warp", "take">>), On({"yes"}, Ends(1, <<"rich", "act", "pay">>)),
        Of({"menu"}, Says(1, "menu")), To(-1, Says(1, "next")), Ends(1, <<>>), Ends(2, <<"act">>),
        Ends(2, <<"rich", "act", "pay">>), Ends(2, <<>>), On({"yes"}, Ends(3, <<"act">>)),
        Does(3, <<"has", "take">>, "next"), Does(3, <<"has", "take", "job">>, "next"),
        Does(3, <<"job">>, "next"), On({"yes"}, Ends(3, <<"rich", "act", "pay">>)), Ends(3, <<>>),
        On({"yes"}, Ends(4, <<"act">>)), On({"yes"}, Ends(4, <<"rich", "act", "pay">>)), Ends(4, <<>>),
        On({"yes"}, Ends(5, <<"act">>)), On({"yes"}, Ends(5, <<"rich", "act", "pay">>)), Ends(5, <<>>),
        Ends(6, <<"act">>), Ends(6, <<"rich", "act", "pay">>), Ends(6, <<>>), Ends(7, <<"act">>),
        Ends(7, <<"rich", "act", "pay">>), Ends(7, <<>>)})

N1012103 ==
  Talk(Leave, Leave, Text(0, <<"menu", "style">>) \cup {Fails(1, <<>>), Ends(2, <<"has", "take", "look">>),
        Ends(2, <<>>)})

N1012104 ==
  Talk(Leave, Leave, Text(0, <<"menu", "ask">>) \cup {Fails(1, <<>>), Ends(2, <<"has", "take", "look">>),
        Ends(2, <<>>)})

N1012105 ==
  Talk(Leave, Leave, Text(0, <<"menu", "style">>) \cup {Ends(1, <<>>), Ends(2, <<"take", "look">>)})

N1012112 ==
  Talk(Leave, Leave, {Does(0, <<"throw">>, "none"), Says(0, "ask"), Mute(0), Ends(0, <<>>), Fails(1, <<>>),
        Mute(1), Ends(1, <<>>)})

N1012113 ==
  Talk(Leave, Leave, {Says(0, "ask"), Says(0, "next"), Mute(0), Says(0, "ok"), Fails(1, <<>>),
        Ends(1, <<"warp">>), Mute(1)})

N1012117 ==
  Talk(Leave, Leave, Text(0, <<"menu", "ask">>) \cup {Fails(1, <<>>), Fails(2, <<>>), Ends(2, <<>>)})

N1012121 ==
  Talk(Leave, -1, Text(0, <<"menu", "ask">>) \cup {Ends(0, <<>>), Ends(1, <<"fits", "note", "give">>),
        Mute(1), Ends(1, <<>>), Ends(2, <<"note">>), Ends(2, <<"take", "act", "note">>), Ends(2, <<>>)})

N1013001 ==
  Talk(-1, Leave, Text(0, <<"next", "both">>) \cup {Ends(2, <<"warp">>)})

N1022000 ==
  Talk(-1, -1, Text(4, <<"both", "both", "both">>) \cup {On({"yes"}, Ends(0, <<"act">>)),
        On({"open"}, To(-1, Does(0, <<"throw">>, "none"))),
        On({"yes"}, Ends(0, <<"has", "act", "take", "give", "warp">>)),
        On({"yes", "back"}, Does(0, <<"quest">>, "next")), On({"yes"}, Ends(0, <<"rich", "act", "pay">>)),
        On({"yes", "back"}, Says(0, "menu")), On({"open"}, To(-1, Says(0, "next"))),
        On({"yes", "back"}, Says(0, "next")), Ends(0, <<>>), On({"yes"}, Ends(1, <<"act">>)),
        Does(1, <<"has", "fits", "give", "warp", "take">>, "both"),
        Does(1, <<"has", "warp", "take">>, "both"), On({"yes"}, Ends(1, <<"rich", "act", "pay">>)),
        Of({"menu"}, Says(1, "menu")), To(-1, Says(1, "next")), Ends(1, <<>>), Ends(2, <<"act">>),
        Ends(2, <<"rich", "act", "pay">>), Says(2, "ask"), Ends(2, <<>>), On({"yes"}, Ends(3, <<"act">>)),
        Does(3, <<"has", "take", "quest">>, "next"), Does(3, <<"has", "take", "quest", "job">>, "next"),
        Does(3, <<"quest", "job">>, "next"), Does(3, <<"quest">>, "next"),
        On({"yes"}, Ends(3, <<"rich", "act", "pay">>)), Ends(3, <<>>), On({"yes"}, Ends(4, <<"act">>)),
        On({"yes"}, Ends(4, <<"rich", "act", "pay">>)), Ends(4, <<>>), On({"yes"}, Ends(5, <<"act">>)),
        On({"yes"}, Ends(5, <<"rich", "act", "pay">>)), Ends(5, <<>>), Ends(6, <<"act">>),
        Ends(6, <<"rich", "act", "pay">>), Ends(6, <<>>), Ends(7, <<"act">>),
        Ends(7, <<"rich", "act", "pay">>), Ends(7, <<>>)})

N1022001 ==
  Talk(Leave, Leave, Text(0, <<"next", "menu", "ask">>) \cup {Ends(3, <<"rich", "pay", "warp">>),
        Ends(3, <<>>)})

N1022008 ==
  Talk(Leave, Leave, Text(0, <<"menu", "ok">>))

N1022101 ==
  Talk(Leave, Leave, {Says(0, "ask"), Ends(1, <<"act", "warp">>)})

N1022104 ==
  Talk(Leave, Leave, {Says(0, "menu"), Ends(0, <<>>), Ends(1, <<"warp">>), To(-1, Says(1, "next"))})

N1022105 ==
  Talk(Leave, Leave, {Says(0, "menu"), Ends(0, <<>>), Ends(1, <<"warp">>), To(-1, Says(1, "next"))})

N1032000 ==
  Talk(Leave, Leave, Text(0, <<"next", "menu", "ask">>) \cup {Ends(3, <<"rich", "pay", "warp">>),
        Ends(3, <<"take", "warp">>), Ends(3, <<>>)})

N1032001 ==
  Talk(-1, Leave, Text(4, <<"both", "both", "both">>) \cup
        {On({"open"}, To(-1, Does(0, <<"throw">>, "none"))),
        On({"yes"}, Ends(0, <<"has", "act", "take", "give", "warp">>)),
        On({"yes", "back"}, Does(0, <<"quest">>, "next")), On({"yes", "back"}, Says(0, "menu")),
        On({"open"}, To(-1, Says(0, "next"))), On({"yes", "back"}, Says(0, "next")),
        On({"open"}, Ends(0, <<>>)), Does(1, <<"has", "fits", "give", "warp", "take">>, "both"),
        Does(1, <<"has", "warp", "take">>, "both"), Of({"menu"}, Says(1, "menu")), To(-1, Says(1, "next")),
        Ends(1, <<>>), Says(2, "ask"), Ends(2, <<>>), Does(3, <<"has", "take", "quest">>, "next"),
        Does(3, <<"has", "take", "quest", "job">>, "next"), Does(3, <<"quest", "job">>, "next"),
        Does(3, <<"quest">>, "next"), Ends(7, <<>>)})

N1032003 ==
  Talk(Leave, Leave, {Says(0, "ask"), Ends(0, <<>>), Ends(1, <<"rich", "pay">>),
        Ends(1, <<"rich", "warp", "pay">>), Ends(1, <<>>)})

N1032004 ==
  Talk(Leave, Leave, {Says(0, "ask"), Ends(1, <<"warp">>)})

N1032005 ==
  Talk(Leave, Leave, Text(0, <<"next", "ask">>) \cup {Ends(2, <<"rich", "pay", "warp">>), Ends(2, <<>>)})

N1032007 ==
  Talk(Leave, Leave, Text(0, <<"menu", "menu", "ok">>) \cup {Ends(2, <<"rich", "fits", "give", "pay">>),
        Ends(2, <<"rich", "warp", "pay">>), Ends(2, <<>>)})

N1032008 ==
  Talk(Leave, Leave, {Says(0, "ask"), Ends(0, <<>>), Ends(1, <<"warp", "take">>), Ends(1, <<>>)})

N1032009 ==
  Talk(Leave, Leave, {To(1, Says(0, "ask")), Says(2, "next"), Ends(3, <<"warp">>)})

N1032100 ==
  Talk(Leave, Leave, Text(0, <<"next", "menu", "ask">>) \cup {Ends(0, <<>>),
        Ends(3, <<"has", "rich", "pay", "take", "give">>), Ends(3, <<>>)})

N1032102 ==
  Talk(Leave, Leave, Text(0, <<"ask", "menu">>) \cup {Ends(1, <<"has", "take", "give">>),
        Fails(1, <<"has", "take">>), Ends(1, <<>>), Ends(2, <<"has", "take">>), Ends(2, <<"take">>),
        Ends(2, <<>>)})

N1032109 ==
  Talk(Leave, Leave, {Says(0, "ok")})

N1032110 ==
  Talk(Leave, Leave, {Says(0, "ok")})

N1032111 ==
  Talk(Leave, Leave, {Does(0, <<"fits", "give">>, "ok"), Says(0, "ok")})

N1032113 ==
  Talk(Leave, Leave, {Says(0, "menu"), Ends(0, <<>>), Ends(1, <<"warp">>), To(-1, Says(1, "next"))})

N1032114 ==
  Talk(Leave, Leave, {Says(0, "menu"), Ends(0, <<>>), Ends(1, <<"warp">>), To(-1, Says(1, "next"))})

N1052001 ==
  Talk(-1, -1, Text(4, <<"both", "both", "both">>) \cup {On({"yes"}, Ends(0, <<"act">>)),
        On({"open"}, To(-1, Does(0, <<"throw">>, "none"))),
        On({"yes"}, Ends(0, <<"has", "act", "take", "give", "warp">>)),
        On({"yes", "back"}, Does(0, <<"quest">>, "next")), On({"yes"}, Ends(0, <<"rich", "act", "pay">>)),
        On({"open"}, To(-1, Does(0, <<"warp">>, "none"))), On({"yes", "back"}, Says(0, "menu")),
        On({"open"}, To(-1, Says(0, "next"))), On({"yes", "back"}, Says(0, "next")), Ends(0, <<>>),
        On({"yes"}, Ends(1, <<"act">>)), Does(1, <<"has", "fits", "give", "warp", "take">>, "both"),
        Does(1, <<"has", "warp", "take">>, "both"), On({"yes"}, Ends(1, <<"rich", "act", "pay">>)),
        Of({"menu"}, Says(1, "menu")), To(-1, Says(1, "next")), Ends(1, <<>>), Ends(2, <<"act">>),
        Ends(2, <<"rich", "act", "pay">>), Says(2, "ask"), Ends(2, <<>>), On({"yes"}, Ends(3, <<"act">>)),
        Does(3, <<"has", "take", "quest">>, "next"), Does(3, <<"has", "take", "quest", "job">>, "next"),
        Does(3, <<"quest", "job">>, "next"), Does(3, <<"quest">>, "next"),
        On({"yes"}, Ends(3, <<"rich", "act", "pay">>)), Ends(3, <<>>), On({"yes"}, Ends(4, <<"act">>)),
        On({"yes"}, Ends(4, <<"rich", "act", "pay">>)), Ends(4, <<>>), On({"yes"}, Ends(5, <<"act">>)),
        On({"yes"}, Ends(5, <<"rich", "act", "pay">>)), Ends(5, <<>>), Ends(6, <<"act">>),
        Ends(6, <<"rich", "act", "pay">>), Ends(6, <<>>), Ends(7, <<"act">>),
        Ends(7, <<"rich", "act", "pay">>), Ends(7, <<>>)})

N1052004 ==
  Talk(Leave, Leave, Text(0, <<"menu", "style">>) \cup {Fails(1, <<>>), Ends(2, <<"has", "take", "look">>),
        Ends(2, <<>>)})

N1052005 ==
  Talk(Leave, Leave, Text(0, <<"menu", "ask">>) \cup {Fails(1, <<>>), Ends(2, <<"has", "take", "look">>),
        Ends(2, <<>>)})

N1052006 ==
  Talk(Leave, Leave, {On({"yes"}, Says(0, "menu")), On({"open"}, To(-1, Says(0, "next"))),
        On({"yes"}, Ends(0, <<>>)), Ends(1, <<"rich", "pay", "give">>), Ends(1, <<>>)})

N1052007 ==
  Talk(Leave, Leave, {Says(0, "menu"), Ends(1, <<"event">>), Says(1, "ask"), Says(1, "menu"), Ends(1, <<>>),
        Of({"ask"}, Ends(2, <<"has", "take", "warp">>)), Of({"menu"}, Fails(2, <<"take", "warp">>)),
        Of({"ask"}, Mute(2)), Of({"ask"}, Ends(2, <<>>))})

N1052011 ==
  Talk(Leave, Leave, Text(0, <<"next", "both", "ask">>) \cup {Ends(3, <<"warp">>)})

N1052012 ==
  Talk(Leave, Leave, {Says(0, "ask"), Ends(1, <<"rich", "pay", "warp">>), Ends(1, <<>>)})

N1052013 ==
  Talk(Leave, Leave, {Does(0, <<"throw">>, "none"), Says(0, "menu"), Fails(1, <<>>), Ends(1, <<>>)})

N1052014 ==
  Talk(-1, Leave, Text(0, <<"next", "menu", "prev">>) \cup {Fails(2, <<>>)})

N1052015 ==
  Talk(Leave, Leave, Text(0, <<"menu", "menu">>) \cup {Ends(2, <<>>)})

N1052016 ==
  Talk(Leave, Leave, Text(0, <<"next", "menu", "ask">>) \cup {Ends(3, <<"rich", "pay", "warp">>),
        Ends(3, <<>>)})

N1052100 ==
  Talk(Leave, Leave, Text(0, <<"menu", "style">>) \cup {Fails(1, <<>>), Ends(2, <<"has", "take", "look">>),
        Ends(2, <<>>)})

N1052101 ==
  Talk(Leave, Leave, Text(0, <<"menu", "ask">>) \cup {Fails(1, <<>>), Ends(2, <<"has", "take", "look">>),
        Ends(2, <<>>)})

N1052111 ==
  Talk(Leave, Leave, {Does(0, <<"fits", "give">>, "next"), Says(0, "ok"), Ends(1, <<>>)})

N1052113 ==
  Talk(Leave, Leave, {Says(0, "menu"), Ends(0, <<>>), Ends(1, <<"warp">>), To(-1, Says(1, "next"))})

N1052114 ==
  Talk(Leave, Leave, {Says(0, "menu"), Ends(0, <<>>), Ends(1, <<"warp">>), To(-1, Says(1, "next"))})

N1052115 ==
  Talk(Leave, -1, {Ends(0, <<"fits", "give", "warp">>), Ends(0, <<"warp">>), To(99, Says(0, "ask")),
        To(1, Says(0, "menu")), Ends(0, <<>>), Ends(2, <<"fits", "give", "quest">>),
        Ends(2, <<"note", "fits", "give", "quest">>), Ends(2, <<"note">>), Fails(2, <<>>), Ends(2, <<>>),
        Ends(100, <<"warp">>)})

N1052125 ==
  Talk(Leave, Leave, {On({"yes"}, Ends(0, <<"event">>)), On({"open"}, To(-1, Says(0, "menu"))),
        On({"yes"}, Ends(0, <<>>))})

N1061006 ==
  Talk(Leave, Leave, Text(0, <<"next", "menu">>) \cup {Ends(1, <<>>), Fails(2, <<"warp">>)})

N1061007 ==
  Talk(Leave, Leave, {Says(0, "ask"), Ends(1, <<"warp">>)})

N1061010 ==
  Talk(Leave, Leave, {Says(0, "ask"), Ends(1, <<"warp">>), Ends(1, <<>>)})

N1061014 ==
  Talk(Leave, Leave, {Ends(0, <<"act">>), Does(0, <<"throw">>, "none"), To(1, Says(0, "menu")),
        To(2, Says(0, "menu")), Mute(0), Ends(0, <<>>), Ends(2, <<"act">>), To(10, Says(2, "menu")),
        Ends(2, <<>>), Fails(3, <<>>), Ends(3, <<>>), Ends(11, <<>>)})

N1061016 ==
  Talk(Leave, Leave, Text(0, <<"menu", "menu">>) \cup {Fails(2, <<>>), Ends(2, <<>>)})

N1061100 ==
  Talk(Leave, Leave, Text(0, <<"next", "menu", "ask">>) \cup {Ends(3, <<"rich", "warp", "pay">>),
        Ends(3, <<>>)})

N1063016 ==
  Talk(Leave, Leave, {Says(0, "ask"), Ends(1, <<"warp">>)})

N1063017 ==
  Talk(Leave, Leave, {Says(0, "ask"), Fails(1, <<>>)})

N1072000 ==
  Talk(-1, Leave, Text(0, <<"next", "both", "both", "ask">>) \cup {To(4, Says(0, "next")), Ends(0, <<>>),
        Does(4, <<"quest", "take">>, "next"), Ends(5, <<"warp">>)})

N1072001 ==
  Talk(-1, Leave, Text(0, <<"next", "both", "both", "ask">>) \cup {To(4, Says(0, "next")), Ends(0, <<>>),
        Does(4, <<"quest", "take">>, "next"), Ends(5, <<"warp">>)})

N1072002 ==
  Talk(-1, Leave, Text(0, <<"next", "both", "ask">>) \cup {To(3, Says(0, "next")), Ends(0, <<>>),
        Does(3, <<"quest", "take">>, "ok"), Ends(4, <<"warp">>)})

N1072003 ==
  Talk(-1, Leave, Text(0, <<"next", "both", "ask">>) \cup {To(3, Says(0, "next")), Ends(0, <<>>),
        Does(3, <<"quest", "take">>, "ok"), Ends(4, <<"warp">>)})

N1072004 ==
  Talk(Leave, Leave, {Says(0, "menu"), Says(0, "next"),
        Of({"next"}, Ends(1, <<"take", "quest", "give", "warp">>)), Of({"menu"}, Ends(1, <<"warp">>))})

N1072005 ==
  Talk(Leave, Leave, {Says(0, "menu"), Says(0, "next"),
        Of({"next"}, Ends(1, <<"take", "quest", "give", "warp">>)), Of({"menu"}, Ends(1, <<"warp">>))})

N1072006 ==
  Talk(Leave, Leave, {Says(0, "menu"), Says(0, "ok"), Ends(1, <<"warp">>)})

N1072007 ==
  Talk(Leave, Leave, {Says(0, "menu"), Says(0, "ok"), Ends(1, <<"warp">>)})

N1072008 ==
  Talk(Leave, Leave, {To(2, Says(0, "next")), Ends(0, <<>>), Ends(3, <<"warp">>)})

N1090000 ==
  Talk(-1, -1, Text(3, <<"next", "both", "both", "both">>) \cup
        {On({"open"}, To(-1, Does(0, <<"throw">>, "none"))),
        On({"yes"}, Ends(0, <<"has", "act", "take", "give", "warp">>)),
        On({"yes", "back", "no"}, Says(0, "menu")), On({"open"}, To(-1, Says(0, "next"))),
        On({"yes", "back", "no"}, Says(0, "next")), On({"open"}, Ends(0, <<>>)), Says(1, "ask"),
        Of({"menu"}, Says(1, "both")), To(-1, Says(1, "next")), Ends(2, <<"warp">>),
        Of({"both"}, Says(2, "ask")), Ends(2, <<>>), Does(3, <<"has", "take">>, "next"),
        Does(3, <<"has", "take", "job">>, "next"), Does(3, <<"job">>, "next"), Ends(7, <<>>)})

N1092000 ==
  Talk(-1, Leave, Text(0, <<"next", "both">>) \cup {Ends(0, <<>>), Ends(1, <<>>),
        Ends(2, <<"fits", "give", "warp">>), Ends(2, <<>>)})

N1092008 ==
  Talk(Leave, Leave, {Says(0, "ask"), Ends(0, <<>>), Ends(1, <<"warp">>)})

N1092010 ==
  Talk(Leave, Leave, {Says(0, "ask"), Ends(0, <<>>), Ends(1, <<"take">>)})

N1092014 ==
  Talk(Leave, Leave, Text(0, <<"next", "menu", "ask">>) \cup {Ends(3, <<"rich", "pay", "warp">>),
        Ends(3, <<>>)})

N1092019 ==
  Talk(-1, Leave, {Says(0, "next"), Ends(0, <<>>), Says(1, "both"), Says(1, "text"),
        Ends(2, <<"exp", "skill", "quest">>), Fails(2, <<>>), Says(2, "both"), Ends(2, <<>>),
        Ends(3, <<"event">>)})

N1092090 ==
  Talk(Leave, Leave, {Does(0, <<"fits", "has", "take", "give", "throw">>, "next"), Ends(0, <<>>),
        Fails(1, <<>>)})

N1092091 ==
  Talk(Leave, Leave, {Does(0, <<"fits", "has", "take", "give", "throw">>, "next"), Ends(0, <<>>),
        Fails(1, <<>>)})

N1092094 ==
  Talk(-1, Leave, {Ends(-1, <<"has", "take", "give">>), Says(-1, "next"), Mute(-1),
        On({"open"}, Ends(0, <<"has", "take", "give">>)), On({"open"}, To(-1, Says(0, "next"))),
        On({"open"}, To(-1, Mute(0))), On({"yes"}, Says(0, "prev"))})

N1092095 ==
  Talk(-1, Leave, {Ends(-1, <<"has", "take", "give">>), Says(-1, "next"), Mute(-1),
        On({"open"}, Ends(0, <<"has", "take", "give">>)), On({"open"}, To(-1, Says(0, "next"))),
        On({"open"}, To(-1, Mute(0))), On({"yes"}, Says(0, "prev"))})

N1094002 ==
  Talk(Leave, Leave, {Says(0, "next"), Ends(0, <<>>), Ends(1, <<"give">>), Ends(1, <<>>)})

N1094003 ==
  Talk(Leave, Leave, {Says(0, "next"), Ends(0, <<>>), Ends(1, <<"give">>), Ends(1, <<>>)})

N1094004 ==
  Talk(Leave, Leave, {Says(0, "next"), Ends(0, <<>>), Ends(1, <<"give">>), Ends(1, <<>>)})

N1094005 ==
  Talk(Leave, Leave, {Says(0, "next"), Ends(0, <<>>), Ends(1, <<"give">>), Ends(1, <<>>)})

N1094006 ==
  Talk(Leave, Leave, {Says(0, "next"), Ends(0, <<>>), Ends(1, <<"give">>), Ends(1, <<>>)})

N1095000 ==
  Talk(Leave, Leave, {Says(0, "ask"), Ends(1, <<"warp">>)})

N1095001 ==
  Talk(Leave, Leave, {Says(0, "menu"), Ends(0, <<>>), Ends(1, <<"warp">>), To(-1, Says(1, "next"))})

N1095002 ==
  Talk(Leave, Leave, {Says(0, "menu"), Ends(0, <<>>), Ends(1, <<"warp">>), To(-1, Says(1, "next"))})

N1100003 ==
  Talk(Leave, Leave, {Says(0, "menu"), Ends(1, <<"rich", "pay", "warp">>), Ends(1, <<>>)})

N1100004 ==
  Talk(Leave, Leave, {Says(0, "menu"), Ends(1, <<"rich", "pay", "warp">>), Ends(1, <<>>)})

N1100007 ==
  Talk(Leave, Leave, {Says(0, "menu"), Ends(1, <<"rich", "pay", "warp">>), Ends(1, <<>>)})

N1100008 ==
  Talk(Leave, Leave, {Says(0, "menu"), Ends(1, <<"rich", "pay", "warp">>), Ends(1, <<>>)})

N1101008 ==
  Talk(Leave, Leave, Text(0, <<"menu", "next">>) \cup {Ends(1, <<>>), Ends(2, <<>>)})

N1102001 ==
  Talk(Leave, Leave, {Says(0, "ask"), Ends(1, <<"warp">>)})

N1103005 ==
  Talk(Leave, 1, {Says(0, "ask"), Ends(1, <<"warp">>)})

N1104000 ==
  Talk(Leave, Leave, {Says(0, "next"), Ends(1, <<"act", "event">>)})

N1104100 ==
  Talk(Leave, Leave, {Ends(0, <<>>), Says(0, "ok")})

N1104101 ==
  Talk(Leave, Leave, {Ends(0, <<>>), Says(0, "ok")})

N1104102 ==
  Talk(Leave, Leave, {Ends(0, <<>>), Says(0, "ok")})

N1104103 ==
  Talk(Leave, Leave, {Ends(0, <<>>), Says(0, "ok")})

N1104104 ==
  Talk(Leave, Leave, {Ends(0, <<>>), Says(0, "ok")})

N1104200 ==
  Talk(Leave, Leave, Text(0, <<"next", "ask">>) \cup {Fails(2, <<>>)})

N1200003 ==
  Talk(Leave, Leave, {Says(0, "menu"), Ends(1, <<"rich", "pay", "warp">>), Ends(1, <<>>)})

N1200004 ==
  Talk(Leave, Leave, {Says(0, "menu"), Ends(1, <<"rich", "pay", "warp">>), Ends(1, <<>>)})

N1202000 ==
  Talk(-1, Leave, Text(1, <<"both", "both", "both", "both", "both", "both">>) \cup {Says(0, "both"),
        Says(0, "menu"), Says(0, "next"), Ends(1, <<>>), Mute(2), Mute(3), Mute(4), Ends(5, <<"note">>),
        Mute(5), Mute(6), Ends(7, <<"warp">>), Mute(7)})

N1204001 ==
  Talk(-1, Leave, Text(0, <<"next", "both">>) \cup {Ends(2, <<"quest", "warp">>)})

N1209000 ==
  Talk(Leave, Leave, {To(1, Says(0, "next")), Ends(2, <<"note">>)})

N1300010 ==
  Talk(Leave, Leave, Text(0, <<"ask", "next">>) \cup {Ends(1, <<>>), Ends(2, <<"take", "quest">>)})

N1300011 ==
  Talk(Leave, Leave, {Says(0, "ask"), Ends(0, <<>>), Ends(1, <<"warp", "take", "note">>)})

N1300013 ==
  Talk(Leave, Leave, {Says(0, "menu"), Ends(0, <<>>), Ends(1, <<"act", "event">>), Ends(1, <<"event">>),
        Fails(1, <<>>), Mute(1), Ends(1, <<>>)})

VictoriaNpcsTable ==
  [N1002000 |-> N1002000, N1002002 |-> N1002002, N1002003 |-> N1002003, N1002004 |-> N1002004,
   N1002007 |-> N1002007, N1002100 |-> N1002100, N1012000 |-> N1012000, N1012005 |-> N1012005,
   N1012006 |-> N1012006, N1012007 |-> N1012007, N1012008 |-> N1012008, N1012100 |-> N1012100,
   N1012103 |-> N1012103, N1012104 |-> N1012104, N1012105 |-> N1012105, N1012112 |-> N1012112,
   N1012113 |-> N1012113, N1012117 |-> N1012117, N1012121 |-> N1012121, N1013001 |-> N1013001,
   N1022000 |-> N1022000, N1022001 |-> N1022001, N1022008 |-> N1022008, N1022101 |-> N1022101,
   N1022104 |-> N1022104, N1022105 |-> N1022105, N1032000 |-> N1032000, N1032001 |-> N1032001,
   N1032003 |-> N1032003, N1032004 |-> N1032004, N1032005 |-> N1032005, N1032007 |-> N1032007,
   N1032008 |-> N1032008, N1032009 |-> N1032009, N1032100 |-> N1032100, N1032102 |-> N1032102,
   N1032109 |-> N1032109, N1032110 |-> N1032110, N1032111 |-> N1032111, N1032113 |-> N1032113,
   N1032114 |-> N1032114, N1052001 |-> N1052001, N1052004 |-> N1052004, N1052005 |-> N1052005,
   N1052006 |-> N1052006, N1052007 |-> N1052007, N1052011 |-> N1052011, N1052012 |-> N1052012,
   N1052013 |-> N1052013, N1052014 |-> N1052014, N1052015 |-> N1052015, N1052016 |-> N1052016,
   N1052100 |-> N1052100, N1052101 |-> N1052101, N1052111 |-> N1052111, N1052113 |-> N1052113,
   N1052114 |-> N1052114, N1052115 |-> N1052115, N1052125 |-> N1052125, N1061006 |-> N1061006,
   N1061007 |-> N1061007, N1061010 |-> N1061010, N1061014 |-> N1061014, N1061016 |-> N1061016,
   N1061100 |-> N1061100, N1063016 |-> N1063016, N1063017 |-> N1063017, N1072000 |-> N1072000,
   N1072001 |-> N1072001, N1072002 |-> N1072002, N1072003 |-> N1072003, N1072004 |-> N1072004,
   N1072005 |-> N1072005, N1072006 |-> N1072006, N1072007 |-> N1072007, N1072008 |-> N1072008,
   N1090000 |-> N1090000, N1092000 |-> N1092000, N1092008 |-> N1092008, N1092010 |-> N1092010,
   N1092014 |-> N1092014, N1092019 |-> N1092019, N1092090 |-> N1092090, N1092091 |-> N1092091,
   N1092094 |-> N1092094, N1092095 |-> N1092095, N1094002 |-> N1094002, N1094003 |-> N1094003,
   N1094004 |-> N1094004, N1094005 |-> N1094005, N1094006 |-> N1094006, N1095000 |-> N1095000,
   N1095001 |-> N1095001, N1095002 |-> N1095002, N1100003 |-> N1100003, N1100004 |-> N1100004,
   N1100007 |-> N1100007, N1100008 |-> N1100008, N1101008 |-> N1101008, N1102001 |-> N1102001,
   N1103005 |-> N1103005, N1104000 |-> N1104000, N1104100 |-> N1104100, N1104101 |-> N1104101,
   N1104102 |-> N1104102, N1104103 |-> N1104103, N1104104 |-> N1104104, N1104200 |-> N1104200,
   N1200003 |-> N1200003, N1200004 |-> N1200004, N1202000 |-> N1202000, N1204001 |-> N1204001,
   N1209000 |-> N1209000, N1300010 |-> N1300010, N1300011 |-> N1300011, N1300013 |-> N1300013]

===============================================================================
