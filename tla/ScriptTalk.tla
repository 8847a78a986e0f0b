----------------------------- MODULE ScriptTalk -----------------------------
(***************************************************************************)
(* A player talks to an npc or to a quest's npc: the managers that call    *)
(* the scripts (NPCScriptManager, QuestScriptManager), the handler of the  *)
(* player's answers (SendNPCMoreTalk) and the scripts themselves, as       *)
(* tables (ScriptRows).                                                    *)
(*                                                                         *)
(* A conversation is registered with its manager under the account, and    *)
(* the script's engine, with the script's variables, is kept by the client *)
(* until somebody disposes of it: the script, the manager after an         *)
(* exception, or MapleCharacter.dispose.  Each answer is one call.  A      *)
(* behaviour is about one player and one script, chosen at the start.      *)
(***************************************************************************)
EXTENDS ScriptRows, Functions

CONSTANTS
    Quests,     \* name -> what the starting and the ending npc say
    Npcs,       \* name -> what the npc says
    MaxStatus,  \* how far a counter may run that nobody sets back
    \* The scripts that are known not to keep a rule below.
    GoRound, FallSilent, ActOnRefusal, RewardMidway, UnevenTrades

ASSUME ScriptsAssumption ==
    /\ DOMAIN Quests \cap DOMAIN Npcs = {}
    /\ MaxStatus \in Nat

VARIABLES
    script,
    patient,    \* this player only ever goes forward
    stage,      \* the quest's state
    talk,       \* which of the script's functions is registered, or "none"
    status,     \* the counter in the script's engine
    page,       \* what the player has before him
    by,         \* history: the answer the last step was called with, or "none"
    did, was    \* history: what that call did; the quest's state before it

vars == <<script, patient, stage, talk, status, page, by, did, was>>

IsQuest == script \in DOMAIN Quests

Conversation(side) == IF IsQuest THEN Quests[script][side] ELSE Npcs[script]

\* A new engine runs the script from its first line.
Fresh == -1

Init ==
    /\ script \in DOMAIN Quests \cup DOMAIN Npcs
    /\ patient \in BOOLEAN
    /\ stage \in IF IsQuest THEN {"notStarted", "started"} ELSE {"notStarted"}
    /\ talk = "none" /\ status = Fresh /\ page = "none"
    /\ by = "none" /\ did = <<>> /\ was = stage

(***************************************************************************)
(* One call of a script                                                    *)
(***************************************************************************)

\* By how much an answer moves the counter.
Step(c, answer) ==
    CASE answer \in {"open", "yes"} -> 1
      [] answer = "back" -> c.back
      [] answer = "no" -> c.no

\* The rows for an answer to a page that moves the counter to n, in a state s of the quest.
Rows(c, n, answer, say, s) ==
    {r \in c.rows : r.at = n /\ answer \in r.on /\ say \in r.of /\ s \in r.in}

\* Mutant: to go back or to say no counts as to go on.
OutcomesForth(c, answer) ==
    LET n == status + 1
        rows == Rows(c, n, answer, page, stage)
    IN IF Step(c, answer) = Leave THEN {Ends(n, <<>>)}
       ELSE IF rows = {} THEN {Mute(n)} ELSE rows

\* What may come of a call.
Outcomes(c, answer) ==
    LET n == status + Step(c, answer)
        rows == Rows(c, n, answer, page, stage)
    IN IF Step(c, answer) = Leave THEN {Ends(n, <<>>)}
       ELSE IF rows = {} THEN {Mute(n)} ELSE rows

\* forceStart and forceComplete, in a state s of the quest.
MovedBy(do, s) ==
    CASE "complete" \in Range(do) -> "completed"
      [] "start" \in Range(do) /\ "complete" \notin Range(do) -> "started"
      [] OTHER -> s

\* Mutant: forceComplete leaves the quest as it was.
StageAfterUncompleted(do) == IF "complete" \in Range(do) THEN stage ELSE MovedBy(do, stage)

StageAfter(do) == MovedBy(do, stage)

\* Mutant: the engine is not thrown away.
DisposedEngineKept ==
    /\ talk' = "none" /\ UNCHANGED status /\ page' = "none"

\* The conversation's registration and its engine are gone.
Disposed ==
    /\ talk' = "none" /\ status' = Fresh /\ page' = "none"

\* The manager calls the script.  After an exception it disposes of it, but
\* for one in an npc's start, which is only logged.  (Nor does it after a Java
\* exception that is neither a ScriptException nor a NoSuchMethodException, in an
\* npc's action; rows that throw are not told apart by what they throw.)
Call(side, answer) ==
    \E r \in Outcomes(Conversation(side), answer) :
        /\ by' = answer /\ did' = r.do /\ was' = stage
        /\ stage' = StageAfter(r.do)
        /\ IF r.bye THEN Disposed
           ELSE talk' = side /\ status' = r.to /\ page' = r.say
        /\ UNCHANGED <<script, patient>>

\* A step that calls no function of the script.
NoCall == by' = "none" /\ did' = <<>> /\ was' = stage /\ UNCHANGED <<script, patient>>

(***************************************************************************)
(* The player begins                                                       *)
(***************************************************************************)

\* The manager looks at the quest's state.  A registered conversation that
\* shows nothing is replaced; its engine, and the counter in it, is used on.
Begin(side, need) ==
    /\ IsQuest /\ page = "none" /\ stage = need
    /\ Quests[script][side] # NoTalk
    /\ status < MaxStatus
    /\ Call(side, "open")

\* QuestActionHandler, case 4: the quest's starting npc.
StartQuest == Begin("start", "notStarted")

\* QuestActionHandler, case 5: its ending npc.
EndQuest == Begin("end", "started")

\* Cases 1 and 2: a side without a script, as the quest's data has it.
PlainStart ==
    /\ IsQuest /\ page = "none" /\ stage = "notStarted"
    /\ Quests[script].start = NoTalk
    /\ stage' = "started"
    /\ UNCHANGED <<talk, status, page>> /\ NoCall

PlainComplete ==
    /\ IsQuest /\ page = "none" /\ stage = "started"
    /\ Quests[script].end = NoTalk
    /\ stage' = "completed"
    /\ UNCHANGED <<talk, status, page>> /\ NoCall

\* Case 3: the player gives the quest up.
Forfeit ==
    /\ IsQuest /\ page = "none" /\ stage = "started"
    /\ stage' = "notStarted"
    /\ UNCHANGED <<talk, status, page>> /\ NoCall

\* SendNPCTalk: nothing happens while this npc is registered.
TalkToNpc ==
    /\ ~IsQuest /\ talk = "none"
    /\ Call("start", "open")

\* SendNPCTalk: a click on another npc disposes of this one.
ClickOther ==
    /\ ~IsQuest /\ talk # "none" /\ page = "none"
    /\ Disposed
    /\ UNCHANGED stage /\ NoCall

\* A conversation about another quest takes this one's registration; this
\* script's engine stays.
AnotherQuest ==
    /\ IsQuest /\ talk # "none" /\ page = "none"
    /\ talk' = "none"
    /\ UNCHANGED <<stage, status, page>> /\ NoCall

(***************************************************************************)
(* The player answers: SendNPCMoreTalk                                     *)
(***************************************************************************)

\* Mutant: the last page of a text goes to the script, too.
ForwardLeavesNever == FALSE

\* A page without a next: whoever goes forward ends the chat.
ForwardLeaves == page \in {"ok", "prev"}

HasBack == page \in {"both", "prev"}
HasNo == page \in {"ask", "number", "style"}

\* MapleCharacter.dispose, without a call of the script.
Hangup ==
    /\ Disposed
    /\ UNCHANGED stage /\ NoCall

Forward ==
    /\ page # "none"
    /\ IF ForwardLeaves THEN Hangup ELSE Call(talk, "yes")

Back == ~patient /\ HasBack /\ Call(talk, "back")

Refuse == ~patient /\ HasNo /\ Call(talk, "no")

\* End chat, or the way out of a list or a text field.
EndChat == ~patient /\ page # "none" /\ Hangup

Next ==
    \/ StartQuest \/ EndQuest \/ PlainStart \/ PlainComplete \/ Forfeit
    \/ TalkToNpc \/ ClickOther \/ AnotherQuest
    \/ Forward \/ Back \/ Refuse \/ EndChat

Spec == Init /\ [][Next]_vars

\* A patient player answers in the end what he is asked.
FairSpec == Spec /\ WF_vars(patient /\ Forward)

-----------------------------------------------------------------------------
\* One thing a call did before another.
Before(first, then) ==
    \E i, j \in DOMAIN did : i < j /\ did[i] = first /\ did[j] = then

Did(things) == Range(did) \cap things # {}

\* What a quest pays, it pays in the call that moves the quest to its next
\* state: nobody is paid for the same state twice by going back, by hanging up
\* or by an exception between the two.
RewardMovesTheQuest ==
    IsQuest /\ Did(Gains) /\ script \notin RewardMidway => stage # was

\* Who says no or looks at an earlier page again changes nothing: the scripts
\* act on what the counter has become, whichever answer moved it there.
OnlyForwardActs ==
    by \in {"back", "no"} /\ script \notin ActOnRefusal =>
        Range(did) \subseteq Questions \cup {"throw"}

\* An exchange is even: before something is given for something else, the
\* player's room was looked at; meso is taken from whoever was seen to have it;
\* and no call fails after it has taken something.
EvenTrades ==
    script \notin UnevenTrades =>
        /\ Did({"give"}) /\ Did(Losses) => Before("fits", "give")
        /\ Did({"pay"}) => Before("rich", "pay")
        /\ Did({"throw"}) => ~Did(Losses)

\* No call that comes to its end leaves a conversation open that shows nothing:
\* while a quest's is registered no npc can be talked to, and while an npc's is
\* that npc cannot (SendNPCTalk).
AlwaysAnswered ==
    talk # "none" /\ page = "none" => script \in FallSilent \/ Did({"throw"})

\* Whoever goes on answering comes to an end: no page leads round in a circle
\* and no answer is left without a page or an end, whatever was answered
\* before and in whatever state the engine was left.
DialogEnds ==
    patient /\ page # "none" /\ script \notin GoRound \cup FallSilent ~> talk = "none"
=============================================================================
