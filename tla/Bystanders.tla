--------------------------- MODULE Bystanders ---------------------------
(***************************************************************************)
(* The npcs of Victoria, of Ossyria, of events and of the towns of the     *)
(* world that show no page: they warp, act, open a shop, or throw, and     *)
(* mostly end at once (scripts/npc).                                       *)
(***************************************************************************)
EXTENDS ScriptRows

N11000 ==
  Talk(Leave, Leave, {Ends(0, <<"open">>)})

N9000007 ==
  Talk(Leave, Leave, {Ends(0, <<>>)})

N9000008 ==
  Talk(Leave, Leave, {Ends(0, <<>>)})

N9000009 ==
  Talk(Leave, Leave, {Ends(0, <<>>)})

N9000017 ==
  Talk(Leave, Leave, {Does(0, <<"throw">>, "none")})

N9000019 ==
  Talk(Leave, Leave, {Ends(0, <<"open">>)})

N9000020 ==
  Talk(Leave, Leave, {Does(0, <<"throw">>, "none")})

N9000035 ==
  Talk(Leave, Leave, {Does(0, <<"throw">>, "none")})

N9000036 ==
  Talk(Leave, Leave, {Does(0, <<"throw">>, "none")})

N9000039 ==
  Talk(Leave, Leave, {Does(0, <<"throw">>, "none")})

N9000040 ==
  Talk(Leave, Leave, {Mute(0), Ends(0, <<>>)})

N9000059 ==
  Talk(Leave, Leave, {Does(0, <<"throw">>, "none")})

N9000065 ==
  Talk(Leave, Leave, {Does(0, <<"throw">>, "none")})

N9000069 ==
  Talk(Leave, Leave, {Does(0, <<"throw">>, "none")})

N9010003 ==
  Talk(Leave, Leave, {Does(0, <<"throw">>, "none")})

N9010004 ==
  Talk(Leave, Leave, {Ends(0, <<>>)})

N9010021 ==
  Talk(Leave, Leave, {Does(0, <<"throw">>, "none"), Ends(0, <<>>)})

N9020001 ==
  Talk(Leave, Leave, {To(-1, Does(0, <<"throw">>, "none"))})

N9030000 ==
  Talk(Leave, Leave, {Ends(0, <<"open">>), Ends(0, <<>>)})

N9030100 ==
  Talk(Leave, Leave, {Ends(0, <<"open">>)})

N9040003 ==
  Talk(Leave, Leave, {Does(0, <<"throw">>, "none"), Ends(0, <<>>)})

N9040004 ==
  Talk(Leave, Leave, {Ends(0, <<>>)})

N9040006 ==
  Talk(Leave, Leave, {Does(0, <<"throw">>, "none"), Ends(0, <<"warp">>), Ends(0, <<>>)})

N9040007 ==
  Talk(Leave, Leave, {Ends(0, <<>>)})

N9040008 ==
  Talk(Leave, Leave, {Does(0, <<"throw">>, "none")})

N9040009 ==
  Talk(Leave, Leave, {Does(0, <<"throw">>, "none"), Does(0, <<"warp">>, "none"), Ends(0, <<>>)})

N9040010 ==
  Talk(Leave, Leave, {Does(0, <<"throw">>, "none"), Ends(0, <<"warp">>)})

N9040011 ==
  Talk(Leave, Leave, {Does(0, <<"throw">>, "none")})

N9040012 ==
  Talk(Leave, Leave, {Ends(0, <<>>)})

N9103000 ==
  Talk(Leave, Leave, {Does(0, <<"throw">>, "none")})

N9103001 ==
  Talk(Leave, Leave, {Does(0, <<"throw">>, "none"), Ends(0, <<>>)})

N9105003 ==
  Talk(Leave, Leave, {Does(0, <<"throw">>, "none")})

N9105004 ==
  Talk(Leave, Leave, {Does(0, <<"throw">>, "none"), Fails(0, <<>>)})

N9110002 ==
  Talk(Leave, Leave, {Ends(0, <<"open">>), Ends(0, <<>>)})

N9110105 ==
  Talk(Leave, Leave, {Does(0, <<"throw">>, "none")})

N9110107 ==
  Talk(Leave, Leave, {Does(0, <<"throw">>, "none")})

N9120009 ==
  Talk(Leave, Leave, {Ends(0, <<"open">>)})

N9120023 ==
  Talk(Leave, Leave, {Ends(0, <<>>)})

N9120202 ==
  Talk(Leave, Leave, {Does(0, <<"throw">>, "none")})

N1002005 ==
  Talk(Leave, Leave, {Ends(0, <<"open">>)})

N1002006 ==
  Talk(Leave, Leave, {Ends(0, <<>>)})

N1012002 ==
  Talk(Leave, Leave, {To(-1, Does(0, <<"throw">>, "none"))})

N1012009 ==
  Talk(Leave, Leave, {Ends(0, <<"open">>)})

N1012114 ==
  Talk(Leave, Leave, {Does(0, <<"throw">>, "none")})

N1012115 ==
  Talk(Leave, Leave, {Ends(0, <<"quest">>), Ends(0, <<>>)})

N1012116 ==
  Talk(Leave, Leave, {Ends(0, <<>>)})

N1012118 ==
  Talk(Leave, Leave, {Does(0, <<"throw">>, "none"), Ends(0, <<>>)})

N1012119 ==
  Talk(Leave, Leave, {Does(0, <<"throw">>, "none"), Ends(0, <<>>)})

N1013002 ==
  Talk(Leave, Leave, {Ends(0, <<"quest", "warp">>)})

N1013104 ==
  Talk(Leave, Leave, {Ends(0, <<"give">>), Ends(0, <<>>)})

N1013200 ==
  Talk(Leave, Leave, {Ends(0, <<"give", "quest">>), Ends(0, <<>>)})

N1022003 ==
  Talk(Leave, Leave, {Does(0, <<"throw">>, "none")})

N1022004 ==
  Talk(Leave, Leave, {Does(0, <<"throw">>, "none")})

N1022005 ==
  Talk(Leave, Leave, {Ends(0, <<"open">>)})

N1032002 ==
  Talk(Leave, Leave, {Does(0, <<"throw">>, "none")})

N1032006 ==
  Talk(Leave, Leave, {Ends(0, <<"open">>)})

N1040000 ==
  Talk(Leave, Leave, {Ends(0, <<"fits", "give">>), Ends(0, <<>>)})

N1043000 ==
  Talk(Leave, Leave, {Ends(0, <<"give", "warp">>)})

N1043001 ==
  Talk(Leave, Leave, {Ends(0, <<"give", "warp">>)})

N1052002 ==
  Talk(Leave, Leave, {Does(0, <<"throw">>, "none")})

N1052003 ==
  Talk(Leave, Leave, {Does(0, <<"throw">>, "none")})

N1052008 ==
  Talk(Leave, Leave, {Does(0, <<"give", "warp", "throw">>, "none")})

N1052009 ==
  Talk(Leave, Leave, {Ends(0, <<"give", "warp">>)})

N1052010 ==
  Talk(Leave, Leave, {Ends(0, <<"give", "warp">>)})

N1052017 ==
  Talk(Leave, Leave, {Ends(0, <<"open">>)})

N1052107 ==
  Talk(Leave, Leave, {Ends(0, <<>>)})

N1052109 ==
  Talk(Leave, Leave, {Ends(0, <<>>)})

N1052110 ==
  Talk(Leave, Leave, {Ends(0, <<>>)})

N1052112 ==
  Talk(Leave, Leave, {Ends(0, <<>>)})

N1061000 ==
  Talk(Leave, Leave, {Does(0, <<"throw">>, "none")})

N1061008 ==
  Talk(Leave, Leave, {Ends(0, <<"open">>)})

N1061009 ==
  Talk(Leave, Leave, {Does(0, <<"throw">>, "none"), Ends(0, <<>>)})

N1061012 ==
  Talk(Leave, Leave, {Does(0, <<"throw">>, "none"), Ends(0, <<>>)})

N1061018 ==
  Talk(Leave, Leave, {Does(0, <<"throw">>, "none")})

N1063000 ==
  Talk(Leave, Leave, {Does(0, <<"fits", "give", "warp", "throw">>, "none"), Ends(0, <<>>)})

N1063001 ==
  Talk(Leave, Leave, {Ends(0, <<"fits", "give", "warp">>), Ends(0, <<>>)})

N1063002 ==
  Talk(Leave, Leave, {Ends(0, <<"fits", "give", "warp">>), Ends(0, <<>>)})

N1063012 ==
  Talk(Leave, Leave, {Ends(0, <<"has", "note", "take">>), Ends(0, <<>>)})

N1063013 ==
  Talk(Leave, Leave, {Ends(0, <<"has", "note", "take">>), Ends(0, <<>>)})

N1081001 ==
  Talk(Leave, Leave, {Does(0, <<"throw">>, "none")})

N1091003 ==
  Talk(Leave, Leave, {Does(0, <<"throw">>, "none")})

N1091004 ==
  Talk(Leave, Leave, {Ends(0, <<"open">>)})

N1092007 ==
  Talk(Leave, Leave, {Does(0, <<"throw">>, "none"), Ends(0, <<>>)})

N1092015 ==
  Talk(Leave, Leave, {Ends(0, <<>>)})

N1092016 ==
  Talk(Leave, Leave, {Ends(0, <<"quest">>), Ends(0, <<>>)})

N1092018 ==
  Talk(Leave, Leave, {Ends(0, <<"fits", "give">>), Ends(0, <<>>)})

N1094000 ==
  Talk(Leave, Leave, {Ends(0, <<>>)})

N1096001 ==
  Talk(Leave, Leave, {Ends(0, <<>>)})

N1096003 ==
  Talk(Leave, Leave, {Does(0, <<"throw">>, "none")})

N1096005 ==
  Talk(Leave, Leave, {Does(0, <<"throw">>, "none")})

N1096010 ==
  Talk(Leave, Leave, {Ends(0, <<"fits", "give">>), Ends(0, <<>>)})

N1100000 ==
  Talk(Leave, Leave, {Ends(0, <<"open">>)})

N1100005 ==
  Talk(Leave, Leave, {Ends(0, <<>>)})

N1100006 ==
  Talk(Leave, Leave, {Ends(0, <<>>)})

N1101001 ==
  Talk(Leave, Leave, {Ends(0, <<"act">>), Ends(0, <<>>)})

N1102002 ==
  Talk(Leave, Leave, {Ends(0, <<>>)})

N1102003 ==
  Talk(Leave, Leave, {Does(0, <<"throw">>, "none"), Ends(0, <<>>)})

N1103000 ==
  Talk(Leave, Leave, {Ends(0, <<>>)})

N1104002 ==
  Talk(Leave, Leave, {To(-1, Does(0, <<"throw">>, "none"))})

N1104201 ==
  Talk(Leave, Leave, {Does(0, <<"throw">>, "none"), Ends(0, <<>>)})

N1104202 ==
  Talk(Leave, Leave, {Ends(0, <<>>)})

N1104203 ==
  Talk(Leave, Leave, {Ends(0, <<>>)})

N1104204 ==
  Talk(Leave, Leave, {Ends(0, <<>>)})

N1104205 ==
  Talk(Leave, Leave, {Ends(0, <<>>)})

N1104206 ==
  Talk(Leave, Leave, {Ends(0, <<>>)})

N1104207 ==
  Talk(Leave, Leave, {Ends(0, <<>>)})

N1200000 ==
  Talk(Leave, Leave, {Ends(0, <<"open">>)})

N1200005 ==
  Talk(Leave, Leave, {Ends(0, <<>>)})

N1200006 ==
  Talk(Leave, Leave, {Ends(0, <<>>)})

N1202009 ==
  Talk(Leave, Leave, {To(-1, Does(0, <<"throw">>, "none"))})

N1202010 ==
  Talk(Leave, Leave, {Does(0, <<"throw">>, "none"), Ends(0, <<>>)})

N1209001 ==
  Talk(Leave, Leave, {Ends(0, <<>>)})

N1209002 ==
  Talk(Leave, Leave, {Ends(0, <<>>)})

N1209003 ==
  Talk(Leave, Leave, {Ends(0, <<>>)})

N1209004 ==
  Talk(Leave, Leave, {Ends(0, <<>>)})

N1209005 ==
  Talk(Leave, Leave, {Ends(0, <<>>)})

N1300001 ==
  Talk(Leave, Leave, {Ends(0, <<>>)})

N1300006 ==
  Talk(Leave, Leave, {Ends(0, <<>>)})

N1300012 ==
  Talk(Leave, Leave, {Ends(0, <<>>)})

N1300014 ==
  Talk(Leave, Leave, {Ends(0, <<>>)})

N2010003 ==
  Talk(Leave, Leave, {Does(0, <<"throw">>, "none")})

N2010006 ==
  Talk(Leave, Leave, {Ends(0, <<"open">>)})

N2012012 ==
  Talk(Leave, Leave, {Ends(0, <<>>)})

N2012023 ==
  Talk(Leave, Leave, {Ends(0, <<"has", "take">>), Ends(0, <<"has", "take", "fits", "give">>), Ends(0, <<>>)})

N2012027 ==
  Talk(Leave, Leave, {Does(0, <<"throw">>, "none")})

N2012028 ==
  Talk(Leave, Leave, {Does(0, <<"throw">>, "none")})

N2012029 ==
  Talk(Leave, Leave, {Does(0, <<"throw">>, "none")})

N2012030 ==
  Talk(Leave, Leave, {Does(0, <<"throw">>, "none")})

N2012031 ==
  Talk(Leave, Leave, {Does(0, <<"throw">>, "none")})

N2012032 ==
  Talk(Leave, Leave, {Does(0, <<"throw">>, "none")})

N2012033 ==
  Talk(Leave, Leave, {Does(0, <<"throw">>, "none")})

N2013001 ==
  Talk(Leave, Leave, {Does(0, <<"throw">>, "none"), Ends(0, <<"warp">>)})

N2020002 ==
  Talk(Leave, Leave, {Does(0, <<"throw">>, "none")})

N2020004 ==
  Talk(Leave, Leave, {Ends(0, <<"open">>)})

N2030011 ==
  Talk(Leave, Leave, {Ends(0, <<"warp", "take">>)})

N2030014 ==
  Talk(Leave, Leave, {Ends(0, <<"has", "fits", "give", "take">>), Ends(0, <<>>)})

N2032002 ==
  Talk(Leave, Leave, {Does(0, <<"throw">>, "none")})

N2040014 ==
  Talk(Leave, Leave, {To(-1, Does(0, <<"throw">>, "none"))})

N2040020 ==
  Talk(Leave, Leave, {Does(0, <<"throw">>, "none")})

N2040021 ==
  Talk(Leave, Leave, {Does(0, <<"throw">>, "none")})

N2040031 ==
  Talk(Leave, Leave, {Ends(0, <<>>)})

N2040034 ==
  Talk(Leave, Leave, {Does(0, <<"throw">>, "none"), Ends(0, <<>>)})

N2040036 ==
  Talk(Leave, Leave, {Does(0, <<"throw">>, "none"), Ends(0, <<>>)})

N2040037 ==
  Talk(Leave, Leave, {Does(0, <<"throw">>, "none"), Ends(0, <<>>)})

N2040038 ==
  Talk(Leave, Leave, {Does(0, <<"throw">>, "none"), Ends(0, <<>>)})

N2040039 ==
  Talk(Leave, Leave, {Does(0, <<"throw">>, "none"), Ends(0, <<>>)})

N2040040 ==
  Talk(Leave, Leave, {Does(0, <<"throw">>, "none"), Ends(0, <<>>)})

N2040041 ==
  Talk(Leave, Leave, {Ends(0, <<>>)})

N2040042 ==
  Talk(Leave, Leave, {Does(0, <<"throw">>, "none"), Ends(0, <<>>)})

N2040043 ==
  Talk(Leave, Leave, {Does(0, <<"throw">>, "none"), Ends(0, <<>>)})

N2040044 ==
  Talk(Leave, Leave, {Does(0, <<"throw">>, "none"), Ends(0, <<>>)})

N2041008 ==
  Talk(Leave, Leave, {Ends(0, <<"open">>)})

N2041017 ==
  Talk(Leave, Leave, {Ends(0, <<>>)})

N2041023 ==
  Talk(Leave, Leave, {Does(0, <<"throw">>, "none"), Ends(0, <<>>)})

N2041024 ==
  Talk(Leave, Leave, {Ends(0, <<>>)})

N2041026 ==
  Talk(Leave, Leave, {Ends(0, <<"has", "take">>), Ends(0, <<>>)})

N2041029 ==
  Talk(Leave, Leave, {Ends(0, <<>>)})

N2042003 ==
  Talk(Leave, Leave, {Does(0, <<"warp", "throw">>, "none")})

N2042004 ==
  Talk(Leave, Leave, {Does(0, <<"warp", "throw">>, "none")})

N2042008 ==
  Talk(Leave, Leave, {Does(0, <<"warp", "throw">>, "none")})

N2042009 ==
  Talk(Leave, Leave, {Does(0, <<"warp", "throw">>, "none")})

N2050004 ==
  Talk(Leave, Leave, {Ends(0, <<"open">>)})

N2050014 ==
  Talk(Leave, Leave, {Does(0, <<"fits", "give", "throw">>, "none"), Ends(0, <<>>)})

N2050015 ==
  Talk(Leave, Leave, {Does(0, <<"fits", "give", "throw">>, "none"), Ends(0, <<>>)})

N2050016 ==
  Talk(Leave, Leave, {Does(0, <<"fits", "give", "throw">>, "none"), Ends(0, <<>>)})

N2050017 ==
  Talk(Leave, Leave, {Does(0, <<"fits", "give", "throw">>, "none"), Ends(0, <<>>)})

N2050018 ==
  Talk(Leave, Leave, {Does(0, <<"fits", "give", "throw">>, "none"), Ends(0, <<>>)})

N2050019 ==
  Talk(Leave, Leave, {Does(0, <<"fits", "give", "throw">>, "none"), Ends(0, <<>>)})

N2060005 ==
  Talk(Leave, Leave, {Ends(0, <<"event">>), Ends(0, <<>>)})

N2060008 ==
  Talk(Leave, Leave, {Ends(0, <<"open">>)})

N2060100 ==
  Talk(Leave, Leave, {Ends(0, <<"has", "take", "warp">>), Ends(0, <<>>)})

N2070000 ==
  Talk(Leave, Leave, {Ends(0, <<"open">>)})

BystandersTable ==
  [N11000 |-> N11000, N9000007 |-> N9000007, N9000008 |-> N9000008, N9000009 |-> N9000009,
   N9000017 |-> N9000017, N9000019 |-> N9000019, N9000020 |-> N9000020, N9000035 |-> N9000035,
   N9000036 |-> N9000036, N9000039 |-> N9000039, N9000040 |-> N9000040, N9000059 |-> N9000059,
   N9000065 |-> N9000065, N9000069 |-> N9000069, N9010003 |-> N9010003, N9010004 |-> N9010004,
   N9010021 |-> N9010021, N9020001 |-> N9020001, N9030000 |-> N9030000, N9030100 |-> N9030100,
   N9040003 |-> N9040003, N9040004 |-> N9040004, N9040006 |-> N9040006, N9040007 |-> N9040007,
   N9040008 |-> N9040008, N9040009 |-> N9040009, N9040010 |-> N9040010, N9040011 |-> N9040011,
   N9040012 |-> N9040012, N9103000 |-> N9103000, N9103001 |-> N9103001, N9105003 |-> N9105003,
   N9105004 |-> N9105004, N9110002 |-> N9110002, N9110105 |-> N9110105, N9110107 |-> N9110107,
   N9120009 |-> N9120009, N9120023 |-> N9120023, N9120202 |-> N9120202, N1002005 |-> N1002005,
   N1002006 |-> N1002006, N1012002 |-> N1012002, N1012009 |-> N1012009, N1012114 |-> N1012114,
   N1012115 |-> N1012115, N1012116 |-> N1012116, N1012118 |-> N1012118, N1012119 |-> N1012119,
   N1013002 |-> N1013002, N1013104 |-> N1013104, N1013200 |-> N1013200, N1022003 |-> N1022003,
   N1022004 |-> N1022004, N1022005 |-> N1022005, N1032002 |-> N1032002, N1032006 |-> N1032006,
   N1040000 |-> N1040000, N1043000 |-> N1043000, N1043001 |-> N1043001, N1052002 |-> N1052002,
   N1052003 |-> N1052003, N1052008 |-> N1052008, N1052009 |-> N1052009, N1052010 |-> N1052010,
   N1052017 |-> N1052017, N1052107 |-> N1052107, N1052109 |-> N1052109, N1052110 |-> N1052110,
   N1052112 |-> N1052112, N1061000 |-> N1061000, N1061008 |-> N1061008, N1061009 |-> N1061009,
   N1061012 |-> N1061012, N1061018 |-> N1061018, N1063000 |-> N1063000, N1063001 |-> N1063001,
   N1063002 |-> N1063002, N1063012 |-> N1063012, N1063013 |-> N1063013, N1081001 |-> N1081001,
   N1091003 |-> N1091003, N1091004 |-> N1091004, N1092007 |-> N1092007, N1092015 |-> N1092015,
   N1092016 |-> N1092016, N1092018 |-> N1092018, N1094000 |-> N1094000, N1096001 |-> N1096001,
   N1096003 |-> N1096003, N1096005 |-> N1096005, N1096010 |-> N1096010, N1100000 |-> N1100000,
   N1100005 |-> N1100005, N1100006 |-> N1100006, N1101001 |-> N1101001, N1102002 |-> N1102002,
   N1102003 |-> N1102003, N1103000 |-> N1103000, N1104002 |-> N1104002, N1104201 |-> N1104201,
   N1104202 |-> N1104202, N1104203 |-> N1104203, N1104204 |-> N1104204, N1104205 |-> N1104205,
   N1104206 |-> N1104206, N1104207 |-> N1104207, N1200000 |-> N1200000, N1200005 |-> N1200005,
   N1200006 |-> N1200006, N1202009 |-> N1202009, N1202010 |-> N1202010, N1209001 |-> N1209001,
   N1209002 |-> N1209002, N1209003 |-> N1209003, N1209004 |-> N1209004, N1209005 |-> N1209005,
   N1300001 |-> N1300001, N1300006 |-> N1300006, N1300012 |-> N1300012, N1300014 |-> N1300014,
   N2010003 |-> N2010003, N2010006 |-> N2010006, N2012012 |-> N2012012, N2012023 |-> N2012023,
   N2012027 |-> N2012027, N2012028 |-> N2012028, N2012029 |-> N2012029, N2012030 |-> N2012030,
   N2012031 |-> N2012031, N2012032 |-> N2012032, N2012033 |-> N2012033, N2013001 |-> N2013001,
   N2020002 |-> N2020002, N2020004 |-> N2020004, N2030011 |-> N2030011, N2030014 |-> N2030014,
   N2032002 |-> N2032002, N2040014 |-> N2040014, N2040020 |-> N2040020, N2040021 |-> N2040021,
   N2040031 |-> N2040031, N2040034 |-> N2040034, N2040036 |-> N2040036, N2040037 |-> N2040037,
   N2040038 |-> N2040038, N2040039 |-> N2040039, N2040040 |-> N2040040, N2040041 |-> N2040041,
   N2040042 |-> N2040042, N2040043 |-> N2040043, N2040044 |-> N2040044, N2041008 |-> N2041008,
   N2041017 |-> N2041017, N2041023 |-> N2041023, N2041024 |-> N2041024, N2041026 |-> N2041026,
   N2041029 |-> N2041029, N2042003 |-> N2042003, N2042004 |-> N2042004, N2042008 |-> N2042008,
   N2042009 |-> N2042009, N2050004 |-> N2050004, N2050014 |-> N2050014, N2050015 |-> N2050015,
   N2050016 |-> N2050016, N2050017 |-> N2050017, N2050018 |-> N2050018, N2050019 |-> N2050019,
   N2060005 |-> N2060005, N2060008 |-> N2060008, N2060100 |-> N2060100, N2070000 |-> N2070000]

===============================================================================
