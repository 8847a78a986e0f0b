--------------------------- MODULE FarBystanders ---------------------------
(***************************************************************************)
(* The npcs of Ariant and of Masteria that show no page: they warp, act,   *)
(* open a shop, or throw, and mostly end at once (scripts/npc).            *)
(***************************************************************************)
EXTENDS ScriptRows

N2080000 ==
  Talk(Leave, Leave, {Does(0, <<"throw">>, "none")})

N2080005 ==
  Talk(Leave, Leave, {Ends(0, <<"open">>)})

N2081005 ==
  Talk(Leave, Leave, {Does(0, <<"throw">>, "none")})

N2082004 ==
  Talk(Leave, Leave, {Ends(0, <<>>)})

N2082013 ==
  Talk(Leave, Leave, {Does(0, <<"throw">>, "none")})

N2082014 ==
  Talk(Leave, Leave, {Does(0, <<"throw">>, "none"), Ends(0, <<>>)})

N2082015 ==
  Talk(Leave, Leave, {Does(0, <<"throw">>, "none")})

N2083001 ==
  Talk(Leave, Leave, {Does(0, <<"throw">>, "none"), Ends(0, <<>>)})

N2083003 ==
  Talk(Leave, Leave, {Ends(0, <<"has", "act", "take">>), Ends(0, <<>>)})

N2083005 ==
  Talk(Leave, Leave, {Ends(0, <<"has", "take", "give">>), Ends(0, <<>>)})

N2084000 ==
  Talk(Leave, Leave, {To(-1, Does(0, <<"throw">>, "none"))})

N2090000 ==
  Talk(Leave, Leave, {Ends(0, <<"open">>)})

N2090004 ==
  Talk(Leave, Leave, {Does(0, <<"throw">>, "none")})

N2091005 ==
  Talk(Leave, Leave, {To(-1, Does(0, <<"throw">>, "none"))})

N2093003 ==
  Talk(Leave, Leave, {Ends(0, <<"open">>)})

N2094000 ==
  Talk(Leave, Leave, {Does(0, <<"throw">>, "none"), Ends(0, <<>>)})

N2094002 ==
  Talk(Leave, Leave, {Does(0, <<"throw">>, "none"), Ends(0, <<"warp">>)})

N2096000 ==
  Talk(Leave, Leave, {Ends(0, <<>>)})

N2100000 ==
  Talk(Leave, Leave, {Ends(0, <<"open">>)})

N2100002 ==
  Talk(Leave, Leave, {To(-1, Does(0, <<"throw">>, "none"))})

N2100003 ==
  Talk(Leave, Leave, {To(-1, Does(0, <<"throw">>, "none"))})

N2101000 ==
  Talk(Leave, Leave, {Ends(0, <<>>)})

N2101001 ==
  Talk(Leave, Leave, {Ends(0, <<>>)})

N2101004 ==
  Talk(Leave, Leave, {Ends(0, <<>>)})

N2101005 ==
  Talk(Leave, Leave, {Ends(0, <<>>)})

N2101006 ==
  Talk(Leave, Leave, {Ends(0, <<>>)})

N2101007 ==
  Talk(Leave, Leave, {Ends(0, <<>>)})

N2101008 ==
  Talk(Leave, Leave, {Ends(0, <<>>)})

N2101009 ==
  Talk(Leave, Leave, {Ends(0, <<>>)})

N2101010 ==
  Talk(Leave, Leave, {Ends(0, <<"warp">>)})

N2101011 ==
  Talk(Leave, Leave, {Ends(0, <<>>)})

N2101015 ==
  Talk(Leave, Leave, {Does(0, <<"throw">>, "none")})

N2101016 ==
  Talk(Leave, Leave, {Does(0, <<"throw">>, "none")})

N2101017 ==
  Talk(Leave, Leave, {Does(0, <<"throw">>, "none"), Ends(0, <<>>)})

N2103000 ==
  Talk(Leave, Leave, {Does(0, <<"throw">>, "none"), Ends(0, <<"note">>), Ends(0, <<>>)})

N2103002 ==
  Talk(Leave, Leave, {Ends(0, <<"fits", "give">>), Ends(0, <<>>)})

N2103003 ==
  Talk(Leave, Leave, {Does(0, <<"has", "take", "throw">>, "none"), Ends(0, <<>>)})

N2103004 ==
  Talk(Leave, Leave, {Does(0, <<"has", "take", "throw">>, "none"), Ends(0, <<>>)})

N2103005 ==
  Talk(Leave, Leave, {Does(0, <<"has", "take", "throw">>, "none"), Ends(0, <<>>)})

N2103006 ==
  Talk(Leave, Leave, {Does(0, <<"has", "take", "throw">>, "none"), Ends(0, <<>>)})

N2103009 ==
  Talk(Leave, Leave, {Does(0, <<"has", "take", "throw">>, "none"), Ends(0, <<>>)})

N2103010 ==
  Talk(Leave, Leave, {Does(0, <<"has", "take", "throw">>, "none"), Ends(0, <<>>)})

N2103011 ==
  Talk(Leave, Leave, {Does(0, <<"has", "take", "throw">>, "none"), Ends(0, <<>>)})

N2103012 ==
  Talk(Leave, Leave, {Does(0, <<"has", "take", "throw">>, "none"), Ends(0, <<>>)})

N2103013 ==
  Talk(Leave, Leave, {Ends(0, <<>>)})

N2110000 ==
  Talk(Leave, Leave, {Ends(0, <<"open">>)})

N2110002 ==
  Talk(Leave, Leave, {Ends(0, <<>>)})

N2111000 ==
  Talk(Leave, Leave, {Ends(0, <<"warp">>), Ends(0, <<>>)})

N2111001 ==
  Talk(Leave, Leave, {Ends(0, <<>>)})

N2111003 ==
  Talk(Leave, Leave, {Ends(0, <<"warp">>), Ends(0, <<>>)})

N2111004 ==
  Talk(Leave, Leave, {Ends(0, <<>>)})

N2111005 ==
  Talk(Leave, Leave, {Ends(0, <<>>)})

N2111006 ==
  Talk(Leave, Leave, {Ends(0, <<"warp">>), Ends(0, <<>>)})

N2111007 ==
  Talk(Leave, Leave, {Ends(0, <<>>)})

N2111008 ==
  Talk(Leave, Leave, {Ends(0, <<>>)})

N2111009 ==
  Talk(Leave, Leave, {Ends(0, <<>>)})

N2111010 ==
  Talk(Leave, Leave, {Ends(0, <<"fits", "give">>), Ends(0, <<>>)})

N2111013 ==
  Talk(Leave, Leave, {Does(0, <<"throw">>, "none"), Ends(0, <<>>)})

N2111014 ==
  Talk(Leave, Leave, {Does(0, <<"throw">>, "none"), Ends(0, <<"fits", "give">>), Ends(0, <<>>)})

N2111015 ==
  Talk(Leave, Leave, {Does(0, <<"throw">>, "none"), Ends(0, <<>>)})

N2111020 ==
  Talk(Leave, Leave, {Does(0, <<"throw">>, "none"), Mute(0), Ends(0, <<>>)})

N2111021 ==
  Talk(Leave, Leave, {Does(0, <<"throw">>, "none"), Mute(0), Ends(0, <<>>)})

N2111022 ==
  Talk(Leave, Leave, {Does(0, <<"throw">>, "none"), Mute(0), Ends(0, <<>>)})

N2111023 ==
  Talk(Leave, Leave, {Does(0, <<"throw">>, "none"), Mute(0), Ends(0, <<>>)})

N2111025 ==
  Talk(Leave, Leave, {Ends(0, <<>>)})

N2111026 ==
  Talk(Leave, Leave, {Ends(0, <<>>)})

N2112000 ==
  Talk(Leave, Leave, {Does(0, <<"throw">>, "none")})

N2112002 ==
  Talk(Leave, Leave, {Ends(0, <<"take", "act", "warp">>)})

N2112005 ==
  Talk(Leave, Leave, {Does(0, <<"throw">>, "none")})

N2112006 ==
  Talk(Leave, Leave, {Does(0, <<"throw">>, "none")})

N2112007 ==
  Talk(Leave, Leave, {Does(0, <<"throw">>, "none")})

N2112008 ==
  Talk(Leave, Leave, {Ends(0, <<>>)})

N2112009 ==
  Talk(Leave, Leave, {Ends(0, <<>>)})

N2112010 ==
  Talk(Leave, Leave, {Does(0, <<"throw">>, "none")})

N2112012 ==
  Talk(Leave, Leave, {Ends(0, <<"take", "act", "warp">>)})

N2112013 ==
  Talk(Leave, Leave, {Does(0, <<"throw">>, "none")})

N2112016 ==
  Talk(Leave, Leave, {Does(0, <<"throw">>, "none"), Ends(0, <<>>)})

N2112018 ==
  Talk(Leave, Leave, {Does(0, <<"throw">>, "none")})

N2120003 ==
  Talk(Leave, Leave, {Ends(0, <<>>)})

N2131000 ==
  Talk(Leave, Leave, {Ends(0, <<>>)})

N2131002 ==
  Talk(Leave, Leave, {Ends(0, <<>>)})

N2131004 ==
  Talk(Leave, Leave, {Ends(0, <<>>)})

N2132000 ==
  Talk(Leave, Leave, {Ends(0, <<>>)})

N2132001 ==
  Talk(Leave, Leave, {Ends(0, <<>>)})

N2132002 ==
  Talk(Leave, Leave, {Ends(0, <<>>)})

N2132003 ==
  Talk(Leave, Leave, {Ends(0, <<>>)})

N2133000 ==
  Talk(Leave, Leave, {Does(0, <<"throw">>, "none"), Ends(0, <<>>)})

N2141002 ==
  Talk(Leave, Leave, {Does(0, <<"throw">>, "none")})

N9200000 ==
  Talk(Leave, Leave, {Does(0, <<"throw">>, "none")})

N9201004 ==
  Talk(Leave, Leave, {Does(0, <<"throw">>, "none")})

N9201006 ==
  Talk(Leave, Leave, {Does(0, <<"throw">>, "none")})

N9201007 ==
  Talk(Leave, Leave, {Does(0, <<"throw">>, "none")})

N9201009 ==
  Talk(Leave, Leave, {Does(0, <<"throw">>, "none")})

N9201010 ==
  Talk(Leave, Leave, {Does(0, <<"throw">>, "none")})

N9201011 ==
  Talk(Leave, Leave, {Does(0, <<"throw">>, "none")})

N9201013 ==
  Talk(Leave, Leave, {Ends(0, <<>>)})

N9201014 ==
  Talk(Leave, Leave, {To(-1, Does(0, <<"throw">>, "none"))})

N9201042 ==
  Talk(Leave, Leave, {Does(0, <<"throw">>, "none")})

N9201044 ==
  Talk(Leave, Leave, {Does(0, <<"throw">>, "none"), Ends(0, <<>>)})

N9201045 ==
  Talk(Leave, Leave, {Does(0, <<"throw">>, "none"), Ends(0, <<>>)})

N9201046 ==
  Talk(Leave, Leave, {Does(0, <<"throw">>, "none"), Ends(0, <<>>)})

N9201048 ==
  Talk(Leave, Leave, {Does(0, <<"throw">>, "none"), Ends(0, <<>>)})

N9201051 ==
  Talk(Leave, Leave, {Ends(0, <<>>)})

N9201052 ==
  Talk(Leave, Leave, {Ends(0, <<>>)})

N9201054 ==
  Talk(Leave, Leave, {Ends(0, <<>>)})

N9201071 ==
  Talk(Leave, Leave, {Ends(0, <<>>)})

N9201072 ==
  Talk(Leave, Leave, {Ends(0, <<>>)})

N9201073 ==
  Talk(Leave, Leave, {Ends(0, <<>>)})

N9201079 ==
  Talk(Leave, Leave, {Ends(0, <<"warp">>)})

N9201081 ==
  Talk(Leave, Leave, {Ends(0, <<"open">>)})

N9201082 ==
  Talk(Leave, Leave, {Ends(0, <<>>)})

N9201083 ==
  Talk(Leave, Leave, {Ends(0, <<>>)})

N9201084 ==
  Talk(Leave, Leave, {Ends(0, <<>>)})

N9201093 ==
  Talk(Leave, Leave, {Ends(0, <<>>)})

N9201094 ==
  Talk(Leave, Leave, {Ends(0, <<>>)})

N9201095 ==
  Talk(Leave, Leave, {Does(0, <<"throw">>, "none"), Ends(0, <<>>)})

N9201096 ==
  Talk(Leave, Leave, {Does(0, <<"throw">>, "none")})

N9201098 ==
  Talk(Leave, Leave, {Ends(0, <<"fits", "give">>), Ends(0, <<>>)})

N9201099 ==
  Talk(Leave, Leave, {Does(0, <<"throw">>, "none"), Ends(0, <<>>)})

N9201100 ==
  Talk(Leave, Leave, {Ends(0, <<>>)})

N9201101 ==
  Talk(Leave, Leave, {Does(0, <<"throw">>, "none")})

N9201102 ==
  Talk(Leave, Leave, {Ends(0, <<>>)})

N9201103 ==
  Talk(Leave, Leave, {Ends(0, <<>>)})

N9201104 ==
  Talk(Leave, Leave, {Ends(0, <<>>)})

N9201105 ==
  Talk(Leave, Leave, {Ends(0, <<>>)})

N9201106 ==
  Talk(Leave, Leave, {Ends(0, <<>>)})

N9201107 ==
  Talk(Leave, Leave, {Does(0, <<"throw">>, "none"), Mute(0), Ends(0, <<>>)})

N9201108 ==
  Talk(Leave, Leave, {Does(0, <<"throw">>, "none"), Mute(0), Ends(0, <<>>)})

N9201109 ==
  Talk(Leave, Leave, {Does(0, <<"throw">>, "none"), Mute(0), Ends(0, <<>>)})

N9201110 ==
  Talk(Leave, Leave, {Does(0, <<"throw">>, "none"), Ends(0, <<>>)})

N9201111 ==
  Talk(Leave, Leave, {Mute(0), Ends(0, <<>>)})

N9201112 ==
  Talk(Leave, Leave, {Does(0, <<"throw">>, "none")})

N9201114 ==
  Talk(Leave, Leave, {Ends(0, <<"warp">>), Ends(0, <<>>)})

N9201115 ==
  Talk(Leave, Leave, {To(-1, Does(0, <<"throw">>, "none"))})

N9201123 ==
  Talk(Leave, Leave, {Does(0, <<"throw">>, "none"), Ends(0, <<>>)})

N9201124 ==
  Talk(Leave, Leave, {Does(0, <<"throw">>, "none"), Ends(0, <<>>)})

N9201125 ==
  Talk(Leave, Leave, {Does(0, <<"throw">>, "none"), Ends(0, <<>>)})

N9201126 ==
  Talk(Leave, Leave, {Does(0, <<"throw">>, "none"), Ends(0, <<>>)})

N9201127 ==
  Talk(Leave, Leave, {Does(0, <<"throw">>, "none"), Ends(0, <<>>)})

N9201134 ==
  Talk(Leave, Leave, {Does(0, <<"throw">>, "none")})

N9201142 ==
  Talk(Leave, Leave, {Ends(0, <<>>)})

N9201143 ==
  Talk(Leave, Leave, {Ends(0, <<>>)})

N9209000 ==
  Talk(Leave, Leave, {Does(0, <<"throw">>, "none"), Ends(0, <<>>)})

N9209001 ==
  Talk(Leave, Leave, {Ends(0, <<>>)})

N9209100 ==
  Talk(Leave, Leave, {Does(0, <<"throw">>, "none")})

N9220005 ==
  Talk(Leave, Leave, {To(1, Does(0, <<"throw">>, "none"))})

N9220018 ==
  Talk(Leave, Leave, {Does(0, <<"throw">>, "none"), Ends(0, <<>>)})

N9220020 ==
  Talk(Leave, Leave, {Does(0, <<"throw">>, "none")})

N9250045 ==
  Talk(Leave, Leave, {Ends(0, <<>>)})

N9270031 ==
  Talk(Leave, Leave, {Ends(0, <<>>)})

N9270033 ==
  Talk(Leave, Leave, {Does(0, <<"throw">>, "none")})

N9270042 ==
  Talk(Leave, Leave, {Ends(0, <<"open">>)})

N9270054 ==
  Talk(Leave, Leave, {Ends(0, <<"open">>)})

N9310058 ==
  Talk(Leave, Leave, {Ends(0, <<>>)})

N9900000 ==
  Talk(Leave, Leave, {Does(0, <<"throw">>, "none")})

N9900001 ==
  Talk(Leave, Leave, {Does(0, <<"throw">>, "none")})

N9901000 ==
  Talk(Leave, Leave, {Ends(0, <<>>)})

N9901001 ==
  Talk(Leave, Leave, {Ends(0, <<>>)})

N9901002 ==
  Talk(Leave, Leave, {Ends(0, <<>>)})

FarBystandersTable ==
  [N2080000 |-> N2080000, N2080005 |-> N2080005, N2081005 |-> N2081005, N2082004 |-> N2082004,
   N2082013 |-> N2082013, N2082014 |-> N2082014, N2082015 |-> N2082015, N2083001 |-> N2083001,
   N2083003 |-> N2083003, N2083005 |-> N2083005, N2084000 |-> N2084000, N2090000 |-> N2090000,
   N2090004 |-> N2090004, N2091005 |-> N2091005, N2093003 |-> N2093003, N2094000 |-> N2094000,
   N2094002 |-> N2094002, N2096000 |-> N2096000, N2100000 |-> N2100000, N2100002 |-> N2100002,
   N2100003 |-> N2100003, N2101000 |-> N2101000, N2101001 |-> N2101001, N2101004 |-> N2101004,
   N2101005 |-> N2101005, N2101006 |-> N2101006, N2101007 |-> N2101007, N2101008 |-> N2101008,
   N2101009 |-> N2101009, N2101010 |-> N2101010, N2101011 |-> N2101011, N2101015 |-> N2101015,
   N2101016 |-> N2101016, N2101017 |-> N2101017, N2103000 |-> N2103000, N2103002 |-> N2103002,
   N2103003 |-> N2103003, N2103004 |-> N2103004, N2103005 |-> N2103005, N2103006 |-> N2103006,
   N2103009 |-> N2103009, N2103010 |-> N2103010, N2103011 |-> N2103011, N2103012 |-> N2103012,
   N2103013 |-> N2103013, N2110000 |-> N2110000, N2110002 |-> N2110002, N2111000 |-> N2111000,
   N2111001 |-> N2111001, N2111003 |-> N2111003, N2111004 |-> N2111004, N2111005 |-> N2111005,
   N2111006 |-> N2111006, N2111007 |-> N2111007, N2111008 |-> N2111008, N2111009 |-> N2111009,
   N2111010 |-> N2111010, N2111013 |-> N2111013, N2111014 |-> N2111014, N2111015 |-> N2111015,
   N2111020 |-> N2111020, N2111021 |-> N2111021, N2111022 |-> N2111022, N2111023 |-> N2111023,
   N2111025 |-> N2111025, N2111026 |-> N2111026, N2112000 |-> N2112000, N2112002 |-> N2112002,
   N2112005 |-> N2112005, N2112006 |-> N2112006, N2112007 |-> N2112007, N2112008 |-> N2112008,
   N2112009 |-> N2112009, N2112010 |-> N2112010, N2112012 |-> N2112012, N2112013 |-> N2112013,
   N2112016 |-> N2112016, N2112018 |-> N2112018, N2120003 |-> N2120003, N2131000 |-> N2131000,
   N2131002 |-> N2131002, N2131004 |-> N2131004, N2132000 |-> N2132000, N2132001 |-> N2132001,
   N2132002 |-> N2132002, N2132003 |-> N2132003, N2133000 |-> N2133000, N2141002 |-> N2141002,
   N9200000 |-> N9200000, N9201004 |-> N9201004, N9201006 |-> N9201006, N9201007 |-> N9201007,
   N9201009 |-> N9201009, N9201010 |-> N9201010, N9201011 |-> N9201011, N9201013 |-> N9201013,
   N9201014 |-> N9201014, N9201042 |-> N9201042, N9201044 |-> N9201044, N9201045 |-> N9201045,
   N9201046 |-> N9201046, N9201048 |-> N9201048, N9201051 |-> N9201051, N9201052 |-> N9201052,
   N9201054 |-> N9201054, N9201071 |-> N9201071, N9201072 |-> N9201072, N9201073 |-> N9201073,
   N9201079 |-> N9201079, N9201081 |-> N9201081, N9201082 |-> N9201082, N9201083 |-> N9201083,
   N9201084 |-> N9201084, N9201093 |-> N9201093, N9201094 |-> N9201094, N9201095 |-> N9201095,
   N9201096 |-> N9201096, N9201098 |-> N9201098, N9201099 |-> N9201099, N9201100 |-> N9201100,
   N9201101 |-> N9201101, N9201102 |-> N9201102, N9201103 |-> N9201103, N9201104 |-> N9201104,
   N9201105 |-> N9201105, N9201106 |-> N9201106, N9201107 |-> N9201107, N9201108 |-> N9201108,
   N9201109 |-> N9201109, N9201110 |-> N9201110, N9201111 |-> N9201111, N9201112 |-> N9201112,
   N9201114 |-> N9201114, N9201115 |-> N9201115, N9201123 |-> N9201123, N9201124 |-> N9201124,
   N9201125 |-> N9201125, N9201126 |-> N9201126, N9201127 |-> N9201127, N9201134 |-> N9201134,
   N9201142 |-> N9201142, N9201143 |-> N9201143, N9209000 |-> N9209000, N9209001 |-> N9209001,
   N9209100 |-> N9209100, N9220005 |-> N9220005, N9220018 |-> N9220018, N9220020 |-> N9220020,
   N9250045 |-> N9250045, N9270031 |-> N9270031, N9270033 |-> N9270033, N9270042 |-> N9270042,
   N9270054 |-> N9270054, N9310058 |-> N9310058, N9900000 |-> N9900000, N9900001 |-> N9900001,
   N9901000 |-> N9901000, N9901001 |-> N9901001, N9901002 |-> N9901002]

===============================================================================
