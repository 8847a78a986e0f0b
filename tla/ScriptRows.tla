----------------------------- MODULE ScriptRows -----------------------------
(***************************************************************************)
(* How a conversation with a script is written down.                       *)
(*                                                                         *)
(* Scripts of npcs and quests keep a counter, status, between the calls    *)
(* of their one function: an answer moves it, and its value says what      *)
(* happens next.  A conversation is a table of rows, one for each outcome  *)
(* of a call, under the value the answer moves the counter to:             *)
(*                                                                         *)
(*     Talk(-1, Leave, Text(0, <<"next", "ask">>) \cup                     *)
(*           {Does(2, <<"start", "give">>, "next"), Ends(3, <<>>)})        *)
(*                                                                         *)
(* shows a page at 0 and at 1, starts the quest and gives something at 2   *)
(* and ends the conversation at 3; "back" takes one off the counter, and   *)
(* who says "no" leaves.  Several rows for one call are its outcomes in    *)
(* different circumstances: the player's level, job, items, choice from    *)
(* a menu, a random number.  A call without a row does nothing and sends   *)
(* nothing.                                                                *)
(***************************************************************************)
EXTENDS Integers, Sequences

\* How the player answers.  "open" is his first click on the npc.
Answers == {"open", "yes", "back", "no"}

\* The pages, by the buttons they have: next, previous and next, previous, end
\* chat, yes and no, a list, a text field, a number field, looks to choose from.
Pages == {"next", "both", "prev", "ok", "ask", "menu", "text", "number", "style"}

\* A quest's state, MapleQuestStatus.Status.
Stages == {"notStarted", "started", "completed"}

(***************************************************************************)
(* What a call does, in order:                                             *)
(*   start, complete    the script's own quest                             *)
(*   quest, note        another quest; a quest's progress                  *)
(*   give, meso, exp, job, sp, skill, fame     the player gains it         *)
(*   take, pay          he loses items, meso                               *)
(*   warp, open, event, look, act    he is moved, is shown a shop, an      *)
(*                      event begins, his looks change, anything else      *)
(*   fits, has, rich    the player was asked for room, for what is taken,  *)
(*                      for the meso he pays; written down where a give,   *)
(*                      a take or a pay comes of it                        *)
(*   throw              the call fails                                     *)
(***************************************************************************)
Gains == {"give", "meso", "exp", "job", "sp", "skill", "fame"}
Losses == {"take", "pay"}
Questions == {"fits", "has", "rich"}

Row(n, do, say, bye) ==
    [at |-> n, on |-> Answers, of |-> Pages \cup {"none"}, in |-> Stages,
     do |-> do, say |-> say, bye |-> bye, to |-> n]

Says(n, say) == Row(n, <<>>, say, FALSE)
Does(n, do, say) == Row(n, do, say, FALSE)
\* Nothing is sent, and the conversation stays open.
Mute(n) == Row(n, <<>>, "none", FALSE)
\* dispose() is called; a page sent with it is left out, no answer to it counts.
Ends(n, do) == Row(n, do, "none", TRUE)
\* The script throws, and the manager disposes of it.
Fails(n, do) == Row(n, Append(do, "throw"), "none", TRUE)
\* Pages one after the other, from n on.
Text(n, pages) == {Says(n + i - 1, pages[i]) : i \in DOMAIN pages}

\* Only on these answers, to these pages, while the quest is in these states.
On(answers, row) == [row EXCEPT !.on = answers]
Of(pages, row) == [row EXCEPT !.of = pages]
In(stages, row) == [row EXCEPT !.in = stages]
\* The call itself moves the counter on.
To(n, row) == [row EXCEPT !.to = n]

\* Whoever answers so leaves, and nothing else happens.
Leave == 99

\* back, no: by how much these answers move the counter.
Talk(back, no, rows) == [back |-> back, no |-> no, rows |-> rows]

\* The script has no function for this side of the quest: the quest's data
\* decides, without a conversation.
NoTalk == Talk(Leave, Leave, {})
=============================================================================
