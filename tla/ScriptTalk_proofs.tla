-------------------------- MODULE ScriptTalk_proofs --------------------------
(***************************************************************************)
(* What the managers make of the tables.  TablesAssumption says what every *)
(* table does when its conversation is taken by itself, from a fresh       *)
(* engine to wherever answers lead.  Here it is shown that the managers    *)
(* add nothing to that: whatever the player did before, began, left half   *)
(* way, gave up or was thrown out of, a page he sees is a page of a walk   *)
(* of its own, so that the rules hold in every behaviour, however often he *)
(* comes back.                                                             *)
(***************************************************************************)
EXTENDS ScriptWalks, TLAPS

Here == Place(status, page, stage)

TypeOK ==
    /\ script \in Scripts /\ patient \in BOOLEAN
    /\ stage \in Stages /\ was \in Stages
    /\ talk \in {"none"} \cup Sides(script)
    /\ status \in Int /\ page \in Pages \cup {"none"}
    /\ by \in {"none"} \cup Answers /\ did \in Seq(Deeds)

\* A page is a page of the conversation that is registered.
OnItsWalk ==
    page # "none" => talk # "none" /\ Here \in Walk(script, talk, Answers)

\* What is left when nothing is shown: the engine is gone, but for a quest that falls
\* silent; what stays registered fell silent or threw.
LeftBehind ==
    /\ talk = "none" => page = "none" /\ (~IsQuest => status = Fresh)
    /\ IsQuest /\ script \notin FallSilent /\ page = "none" => talk = "none" /\ status = Fresh
    /\ ~IsQuest /\ script \notin FallSilent /\ page = "none" /\ talk # "none" =>
          "throw" \in Range(did)

IInv == TypeOK /\ OnItsWalk /\ LeftBehind /\ RewardMovesTheQuest /\ OnlyForwardActs

-----------------------------------------------------------------------------
(* The tables                                                              *)

\* What TablesAssumption says of one conversation.
LEMMA TableKeeps ==
  ASSUME NEW s \in Scripts, NEW side \in Sides(s)
  PROVE  Keeps(s, side)
BY TablesAssumption DEF TablesKeep

LEMMA TableAdvances ==
  ASSUME NEW s \in Orderly, NEW side \in Sides(s)
  PROVE  Advances(s, side)
BY TablesAssumption DEF TablesAdvance

LEMMA TableIsTheConversation ==
  ASSUME NEW side
  PROVE  Conversation(side) = Table(script, side)
BY DEF Conversation, Table, IsQuest

\* A call runs a row of the table, or the handler's own end, or nothing where the table
\* has no row.
LEMMA Called ==
  ASSUME TypeOK, NEW side \in Sides(script), NEW answer \in Given(page), Call(side, answer)
  PROVE  \E r :
           /\ \/ r \in Taken(Table(script, side), Here, answer)
              \/ \E n \in Int : r = Ends(n, <<>>)
              \/ /\ \E n \in Int : r = Mute(n)
                 /\ Step(Table(script, side), answer) # Leave
                 /\ Taken(Table(script, side), Here, answer) = {}
           /\ by' = answer /\ did' = r.do /\ was' = stage
           /\ stage' = MovedBy(r.do, stage)
           /\ IF r.bye THEN talk' = "none" /\ status' = Fresh /\ page' = "none"
              ELSE talk' = side /\ status' = r.to /\ page' = r.say
           /\ script' = script /\ patient' = patient
<1> DEFINE c == Table(script, side)
           n == status + Step(c, answer)
<1>1. Written(c)
  BY TableKeeps DEF Keeps, TypeOK
<1>2. n \in Int
  <2>1. Step(c, answer) \in Int
    BY <1>1 DEF Step, Written, Given, Answers
  <2> QED BY <2>1 DEF TypeOK
<1>3. PICK r \in Outcomes(c, answer) :
        /\ by' = answer /\ did' = r.do /\ was' = stage
        /\ stage' = StageAfter(r.do)
        /\ IF r.bye THEN Disposed
           ELSE talk' = side /\ status' = r.to /\ page' = r.say
        /\ UNCHANGED <<script, patient>>
  BY TableIsTheConversation DEF Call
<1>4. Step(c, answer) # Leave =>
        Taken(c, Here, answer) = Rows(c, n, answer, page, stage)
  BY DEF Taken, Here, Place
<1>5. \/ r \in Taken(c, Here, answer)
      \/ \E k \in Int : r = Ends(k, <<>>)
      \/ /\ \E k \in Int : r = Mute(k)
         /\ Step(c, answer) # Leave
         /\ Taken(c, Here, answer) = {}
  BY <1>2, <1>3, <1>4 DEF Outcomes
<1> QED BY <1>3, <1>5, Zenon DEF StageAfter, Disposed

LEMMA ARowTaken ==
  ASSUME NEW s \in Scripts, NEW side \in Sides(s), NEW x \in Walk(s, side, Answers),
         NEW answer \in Answers, NEW r \in Taken(Table(s, side), x, answer)
  PROVE  /\ r.to \in Int /\ r.do \in Seq(Deeds) /\ r.say \in Pages \cup {"none"}
         /\ r.bye \in BOOLEAN
         /\ PaysOnce(s, x, r) /\ OnlyAsks(s, answer, r) /\ Speaks(s, r)
         /\ Shows(r) => Onward(x, r) \in Walk(s, side, Answers)
<1>1. Keeps(s, side)
  BY TableKeeps
<1>2. r \in Table(s, side).rows
  BY DEF Taken, Rows
<1>3. /\ r.to \in Int /\ r.do \in Seq(Deeds) /\ r.say \in Pages \cup {"none"}
      /\ r.bye \in BOOLEAN
  BY <1>1, <1>2 DEF Keeps, Written
<1>4. PaysOnce(s, x, r) /\ OnlyAsks(s, answer, r) /\ Speaks(s, r)
  BY <1>1 DEF Keeps
<1>5. Shows(r) => Onward(x, r) \in Walk(s, side, Answers)
  BY <1>1 DEF Keeps, Closed
<1> QED BY <1>3, <1>4, <1>5
-----------------------------------------------------------------------------
(* A call                                                                  *)

\* A call is made from a place of the conversation's walk.  Only the engine of a quest
\* that falls silent may stand elsewhere, where no click finds a row.
Expected(side, answer) ==
    \/ Here \in Walk(script, side, Answers)
    \/ IsQuest /\ script \in FallSilent /\ Taken(Table(script, side), Here, answer) = {}

LEMMA Moved ==
  ASSUME NEW do, NEW s \in Stages
  PROVE  MovedBy(do, s) \in Stages
<1>1. CASE "complete" \in Range(do)
  BY <1>1, Zenon DEF MovedBy, Stages
<1>2. CASE "complete" \notin Range(do) /\ "start" \in Range(do)
  BY <1>2, Zenon DEF MovedBy, Stages
<1>3. CASE "complete" \notin Range(do) /\ "start" \notin Range(do)
  BY <1>3, Zenon DEF MovedBy
<1> QED BY <1>1, <1>2, <1>3

LEMMA NothingDone == Range(<<>>) = {}
BY DEF Range

LEMMA SidesAreSides ==
  ASSUME NEW s, NEW side \in Sides(s)
  PROVE  side \in {"start", "end"}
BY DEF Sides

\* The rules after a call from an expected place.
LEMMA CallKeeps ==
  ASSUME TypeOK, NEW side \in Sides(script), NEW answer \in Given(page),
         Expected(side, answer), Call(side, answer)
  PROVE  IInv'
<1> DEFINE c == Table(script, side)
<1>1. PICK r :
        /\ \/ r \in Taken(c, Here, answer)
           \/ \E n \in Int : r = Ends(n, <<>>)
           \/ /\ \E n \in Int : r = Mute(n)
              /\ Step(c, answer) # Leave
              /\ Taken(c, Here, answer) = {}
        /\ by' = answer /\ did' = r.do /\ was' = stage
        /\ stage' = MovedBy(r.do, stage)
        /\ IF r.bye THEN talk' = "none" /\ status' = Fresh /\ page' = "none"
           ELSE talk' = side /\ status' = r.to /\ page' = r.say
        /\ script' = script /\ patient' = patient
  BY Called
<1>2. side \in {"start", "end"} /\ side # "none" /\ answer \in Answers /\ script \in Scripts
  BY SidesAreSides DEF Given, TypeOK
<1>3. r \in Taken(c, Here, answer) => Here \in Walk(script, side, Answers)
  BY DEF Expected
<1>4. /\ r.to \in Int /\ r.do \in Seq(Deeds) /\ r.say \in Pages \cup {"none"}
      /\ r.bye \in BOOLEAN
  <2>1. CASE r \in Taken(c, Here, answer)
    BY <1>2, <1>3, <2>1, ARowTaken
  <2>2. CASE \E n \in Int : r = Ends(n, <<>>) \/ r = Mute(n)
    <3>1. r.to \in Int /\ r.do = <<>> /\ r.say = "none" /\ r.bye \in BOOLEAN
      <4>1. PICK n \in Int, b \in BOOLEAN : r = Row(n, <<>>, "none", b)
        BY <2>2 DEF Ends, Mute
      <4> QED BY <4>1 DEF Row
    <3>2. <<>> \in Seq(Deeds)
      OBVIOUS
    <3> QED BY <3>1, <3>2
  <2> QED BY <1>1, <2>1, <2>2
<1>5. \/ PaysOnce(script, Here, r) /\ OnlyAsks(script, answer, r)
      \/ r.do = <<>>
  <2>1. CASE r \in Taken(c, Here, answer)
    BY <1>2, <1>3, <2>1, ARowTaken
  <2>2. CASE \E n \in Int : r = Ends(n, <<>>) \/ r = Mute(n)
    BY <2>2 DEF Ends, Mute, Row
  <2> QED BY <1>1, <2>1, <2>2
<1>6. script \in FallSilent \/ Speaks(script, r)
  <2>1. CASE r \in Taken(c, Here, answer)
    BY <1>2, <1>3, <2>1, ARowTaken
  <2>2. CASE \E n \in Int : r = Ends(n, <<>>)
    BY <2>2 DEF Ends, Row, Speaks
  <2>3. CASE Step(c, answer) # Leave /\ Taken(c, Here, answer) = {}
    <3> SUFFICES ASSUME script \notin FallSilent
                 PROVE  FALSE
      OBVIOUS
    <3>1. Here \in Walk(script, side, Answers)
      BY DEF Expected
    <3>2. Finds(script, side, Here)
      BY <1>2, <3>1, TableKeeps DEF Keeps
    <3>3. answer \in Given(Here.page)
      BY DEF Here, Place
    <3> QED BY <2>3, <3>2, <3>3 DEF Finds
  <2> QED BY <1>1, <2>1, <2>2, <2>3
<1>7. Shows(r) => Onward(Here, r) \in Walk(script, side, Answers)
  <2>1. CASE r \in Taken(c, Here, answer)
    BY <1>2, <1>3, <2>1, ARowTaken
  <2>2. CASE \E n \in Int : r = Ends(n, <<>>) \/ r = Mute(n)
    BY <2>2 DEF Ends, Mute, Row, Shows
  <2> QED BY <1>1, <2>1, <2>2
<1>8. TypeOK'
  <2>1. stage' \in Stages
    BY <1>1, Moved DEF TypeOK
  <2> QED BY <1>1, <1>2, <1>4, <2>1 DEF TypeOK, Fresh
<1>9. OnItsWalk'
  <2> SUFFICES ASSUME page' # "none"
               PROVE  talk' # "none" /\ Here' \in Walk(script', talk', Answers)
    BY DEF OnItsWalk
  <2>1. ~r.bye /\ talk' = side /\ status' = r.to /\ page' = r.say
    BY <1>1
  <2>2. Shows(r)
    BY <2>1 DEF Shows
  <2>3. Here' = Onward(Here, r)
    BY <1>1, <2>1 DEF Here, Place, Onward
  <2> QED BY <1>1, <1>2, <1>7, <2>1, <2>2, <2>3
<1>10. LeftBehind'
  <2>1. CASE r.bye
    BY <1>1, <2>1 DEF LeftBehind
  <2>2. CASE ~r.bye
    <3>1. talk' = side /\ page' = r.say /\ did' = r.do
      BY <1>1, <2>2
    <3>2. script \notin FallSilent /\ page' = "none" => ~IsQuest /\ "throw" \in Range(r.do)
      BY <1>2, <1>6, <2>2, <3>1, ScriptsAssumption DEF Speaks, IsQuest, Scripts
    <3> QED BY <1>1, <1>2, <3>1, <3>2 DEF LeftBehind, IsQuest
  <2> QED BY <2>1, <2>2
<1>11. RewardMovesTheQuest'
  BY <1>1, <1>5, NothingDone DEF RewardMovesTheQuest, PaysOnce, Did, IsQuest, Here, Place
<1>12. OnlyForwardActs'
  BY <1>1, <1>5, NothingDone DEF OnlyForwardActs, OnlyAsks
<1> QED BY <1>8, <1>9, <1>10, <1>11, <1>12 DEF IInv
-----------------------------------------------------------------------------
(* A click                                                                 *)

\* Whom the managers let begin: SendNPCTalk, QuestScriptManager.start.
Begins(side) ==
    /\ page = "none"
    /\ \/ /\ IsQuest
          /\ stage = IF side = "start" THEN "notStarted" ELSE "started"
       \/ ~IsQuest /\ talk = "none"

\* A new engine begins at the beginning.
LEMMA FreshAtItsOpening ==
  ASSUME IInv, NEW side \in Sides(script), Begins(side), status = Fresh
  PROVE  Here \in Openings(script, side)
<1>1. script \in Scripts /\ stage \in Stages
  BY DEF IInv, TypeOK
<1> QED BY <1>1 DEF Begins, Openings, Here, IsQuest

\* The engine is a new one, but for a quest that falls silent.
LEMMA BeginsFresh ==
  ASSUME IInv, NEW side, Begins(side)
  PROVE  status = Fresh \/ (IsQuest /\ script \in FallSilent)
<1>1. LeftBehind
  BY DEF IInv
<1> QED BY <1>1 DEF LeftBehind, Begins

\* A click finds the conversation at its beginning, or finds no row.
LEMMA ClickIsExpected ==
  ASSUME IInv, NEW side \in Sides(script), Begins(side)
  PROVE  "open" \in Given(page) /\ Expected(side, "open")
<1> DEFINE c == Table(script, side)
<1>1. "open" \in Given(page)
  BY DEF Begins, Given, Answers
<1> SUFFICES Expected(side, "open")
  BY <1>1
<1>2. script \in Scripts /\ stage \in Stages /\ status \in Int
  BY DEF IInv, TypeOK
<1>3. Here \in Openings(script, side) => Here \in Walk(script, side, Answers)
  BY <1>2, TableKeeps DEF Keeps, Closed
<1>4. CASE status = Fresh
  BY <1>3, <1>4, FreshAtItsOpening DEF Expected
<1>5. CASE IsQuest /\ script \in FallSilent
  <2>1. CASE Taken(c, Here, "open") = {}
    BY <1>5, <2>1 DEF Expected
  <2>2. CASE Taken(c, Here, "open") # {}
    <3>1. PICK r \in Taken(c, Here, "open") : TRUE
      BY <2>2
    <3>2. r \in c.rows /\ r.at = status + Step(c, "open")
      BY <3>1 DEF Taken, Rows, Here, Place
    <3>3. Step(c, "open") = 1
      BY DEF Step
    <3>4. status = r.at - 1
      BY <1>2, <3>2, <3>3
    <3>5. Here \in Openings(script, side)
      BY <1>2, <1>5, <3>2, <3>4 DEF Begins, Openings, Here, IsQuest
    <3> QED BY <1>3, <3>5 DEF Expected
  <2> QED BY <2>1, <2>2
<1> QED BY <1>4, <1>5, BeginsFresh

LEMMA BeginKeeps ==
  ASSUME IInv, NEW side \in {"start", "end"},
         Begin(side, IF side = "start" THEN "notStarted" ELSE "started")
  PROVE  side \in Sides(script) /\ Begins(side) /\ IInv'
<1>1. side \in Sides(script) /\ Begins(side)
  BY DEF Begin, Begins, Sides, IsQuest
<1>2. "open" \in Given(page) /\ Expected(side, "open")
  BY <1>1, ClickIsExpected
<1>3. IInv'
  BY <1>1, <1>2, CallKeeps DEF Begin, IInv
<1> QED BY <1>1, <1>2, <1>3

LEMMA TalkToNpcKeeps ==
  ASSUME IInv, TalkToNpc
  PROVE  "start" \in Sides(script) /\ Begins("start") /\ IInv'
<1>1. "start" \in Sides(script) /\ Begins("start")
  BY DEF TalkToNpc, Begins, Sides, IsQuest, IInv, LeftBehind
<1>2. "open" \in Given(page) /\ Expected("start", "open")
  BY <1>1, ClickIsExpected
<1>3. IInv'
  BY <1>1, <1>2, CallKeeps DEF TalkToNpc, IInv
<1> QED BY <1>1, <1>2, <1>3

\* An answer to a page.
LEMMA AnswerKeeps ==
  ASSUME IInv, page # "none", NEW answer \in Given(page), Call(talk, answer)
  PROVE  IInv'
<1>1. talk \in Sides(script) /\ Here \in Walk(script, talk, Answers)
  BY DEF IInv, TypeOK, OnItsWalk
<1> QED BY <1>1, CallKeeps DEF IInv, Expected

\* A step that calls nothing and disposes of the conversation.
LEMMA HangupKeeps ==
  ASSUME IInv, Hangup
  PROVE  IInv'
<1>1. /\ talk' = "none" /\ status' = Fresh /\ page' = "none"
      /\ stage' = stage /\ by' = "none" /\ did' = <<>> /\ was' = stage
      /\ script' = script /\ patient' = patient
  BY DEF Hangup, Disposed, NoCall
<1>2. TypeOK'
  BY <1>1 DEF IInv, TypeOK, Fresh
<1>3. OnItsWalk' /\ LeftBehind'
  BY <1>1 DEF OnItsWalk, LeftBehind
<1>4. RewardMovesTheQuest' /\ OnlyForwardActs'
  BY <1>1, NothingDone DEF RewardMovesTheQuest, OnlyForwardActs, Did
<1> QED BY <1>2, <1>3, <1>4 DEF IInv

\* A step of a quest that calls nothing while no page is shown.
LEMMA QuietKeeps ==
  ASSUME IInv, IsQuest, page = "none", NoCall, stage' \in Stages, status' = status,
         page' = page, talk' \in {talk, "none"}
  PROVE  IInv'
<1>1. /\ by' = "none" /\ did' = <<>> /\ was' = stage
      /\ script' = script /\ patient' = patient
  BY DEF NoCall
<1>2. TypeOK'
  BY <1>1 DEF IInv, TypeOK
<1>3. OnItsWalk' /\ LeftBehind'
  BY <1>1 DEF IInv, OnItsWalk, LeftBehind, IsQuest
<1>4. RewardMovesTheQuest' /\ OnlyForwardActs'
  BY <1>1, NothingDone DEF RewardMovesTheQuest, OnlyForwardActs, Did
<1> QED BY <1>2, <1>3, <1>4 DEF IInv

-----------------------------------------------------------------------------
(* The invariant                                                           *)

LEMMA InitIInv == Init => IInv
<1> SUFFICES ASSUME Init
             PROVE  IInv
  OBVIOUS
<1>1. TypeOK
  BY DEF Init, TypeOK, Scripts, Stages, Fresh, IsQuest
<1>2. OnItsWalk /\ LeftBehind
  BY DEF Init, OnItsWalk, LeftBehind
<1>3. RewardMovesTheQuest /\ OnlyForwardActs
  BY NothingDone DEF Init, RewardMovesTheQuest, OnlyForwardActs, Did
<1> QED BY <1>1, <1>2, <1>3 DEF IInv

LEMMA NextIInv == IInv /\ [Next]_vars => IInv'
<1> SUFFICES ASSUME IInv, [Next]_vars
             PROVE  IInv'
  OBVIOUS
<1>1. CASE StartQuest
  BY <1>1, BeginKeeps DEF StartQuest
<1>2. CASE EndQuest
  BY <1>2, BeginKeeps DEF EndQuest
<1>3. CASE PlainStart
  BY <1>3, QuietKeeps DEF PlainStart, Stages
<1>4. CASE PlainComplete
  BY <1>4, QuietKeeps DEF PlainComplete, Stages
<1>5. CASE Forfeit
  BY <1>5, QuietKeeps DEF Forfeit, Stages
<1>6. CASE TalkToNpc
  BY <1>6, TalkToNpcKeeps
<1>7. CASE ClickOther
  BY <1>7, HangupKeeps DEF ClickOther, Hangup
<1>8. CASE AnotherQuest
  <2>1. stage' \in Stages
    BY <1>8 DEF AnotherQuest, IInv, TypeOK
  <2> QED BY <1>8, <2>1, QuietKeeps DEF AnotherQuest
<1>9. CASE Forward
  <2>1. CASE ForwardLeaves
    BY <1>9, <2>1, HangupKeeps DEF Forward
  <2>2. CASE ~ForwardLeaves
    <3>1. "yes" \in Given(page)
      BY <1>9, <2>2 DEF Forward, ForwardLeaves, Given, Answers
    <3> QED BY <1>9, <2>2, <3>1, AnswerKeeps DEF Forward
  <2> QED BY <2>1, <2>2
<1>10. CASE Back
  <2>1. page # "none" /\ "back" \in Given(page)
    BY <1>10 DEF Back, HasBack, Given, Answers
  <2> QED BY <1>10, <2>1, AnswerKeeps DEF Back
<1>11. CASE Refuse
  <2>1. page # "none" /\ "no" \in Given(page)
    BY <1>11 DEF Refuse, HasNo, Given, Answers
  <2> QED BY <1>11, <2>1, AnswerKeeps DEF Refuse
<1>12. CASE EndChat
  BY <1>12, HangupKeeps DEF EndChat
<1>13. CASE UNCHANGED vars
  <2>1. TypeOK' /\ OnItsWalk' /\ LeftBehind'
    BY <1>13 DEF IInv, TypeOK, OnItsWalk, LeftBehind, Here, IsQuest, vars
  <2>2. RewardMovesTheQuest' /\ OnlyForwardActs'
    BY <1>13 DEF IInv, RewardMovesTheQuest, OnlyForwardActs, Did, IsQuest, vars
  <2> QED BY <2>1, <2>2 DEF IInv
<1> QED BY <1>1, <1>2, <1>3, <1>4, <1>5, <1>6, <1>7, <1>8, <1>9, <1>10, <1>11, <1>12, <1>13
        DEF Next

\* The invariant holds in every behaviour.
THEOREM TalkInvariant == Spec => []IInv
BY InitIInv, NextIInv, PTL DEF Spec

-----------------------------------------------------------------------------
(* What follows                                                            *)

\* The variables have their types: the counter a number, the page one of the client's,
\* the registration one of the functions the script has.
THEOREM TypeCorrect == Spec => []TypeOK
<1>1. IInv => TypeOK
  BY DEF IInv
<1> QED BY <1>1, TalkInvariant, PTL

\* Whatever was begun, left or given up before (QuestScriptManager.start uses an engine
\* that nobody disposed of), a page is a page of the registered conversation's own walk:
\* the counter, the page and the quest's state are together as the script has them.
THEOREM EveryPageOnItsWalk == Spec => []OnItsWalk
<1>1. IInv => OnItsWalk
  BY DEF IInv
<1> QED BY <1>1, TalkInvariant, PTL

\* A call that pays moves the quest, in whatever state the engine was left.
THEOREM RewardMovesTheQuestHolds == Spec => []RewardMovesTheQuest
<1>1. IInv => RewardMovesTheQuest
  BY DEF IInv
<1> QED BY <1>1, TalkInvariant, PTL

\* Going back or saying no changes nothing, at whatever page and after whatever calls.
THEOREM OnlyForwardActsHolds == Spec => []OnlyForwardActs
<1>1. IInv => OnlyForwardActs
  BY DEF IInv
<1> QED BY <1>1, TalkInvariant, PTL

\* Nothing stays registered that shows nothing (SendNPCTalk lets nobody else be talked
\* to), but for scripts that fall silent or throw.
THEOREM AlwaysAnsweredHolds == Spec => []AlwaysAnswered
<1>1. IInv => AlwaysAnswered
  BY DEF IInv, LeftBehind, AlwaysAnswered, Did
<1> QED BY <1>1, TalkInvariant, PTL
-----------------------------------------------------------------------------
(* The patient player                                                      *)

\* A patient player's page is on the walk of his answers alone.
OnPatientWalk ==
    patient /\ script \in Orderly /\ page # "none" => Here \in Walk(script, talk, Forwards)

\* His answers are counted down: no more than Farthest are left at any page, and fewer
\* at the next.
Nearer ==
    patient /\ script \in Orderly /\ page # "none" =>
        /\ Left(Turns(script, talk), Here) \in 0 .. Farthest
        /\ page' # "none" =>
              talk' = talk /\ Left(Turns(script, talk), Here') < Left(Turns(script, talk), Here)

LEMMA OrderlyScripts == Orderly \subseteq Scripts
BY DEF Orderly

\* A call that shows a page has taken a row that shows it.
LEMMA PageComesOfARow ==
  ASSUME TypeOK, NEW side \in Sides(script), NEW answer \in Given(page), Call(side, answer),
         page' # "none"
  PROVE  /\ talk' = side /\ script' = script
         /\ \E r \in Taken(Table(script, side), Here, answer) : Shows(r) /\ Here' = Onward(Here, r)
<1>1. PICK r :
        /\ \/ r \in Taken(Table(script, side), Here, answer)
           \/ \E n \in Int : r = Ends(n, <<>>)
           \/ /\ \E n \in Int : r = Mute(n)
              /\ Step(Table(script, side), answer) # Leave
              /\ Taken(Table(script, side), Here, answer) = {}
        /\ by' = answer /\ did' = r.do /\ was' = stage
        /\ stage' = MovedBy(r.do, stage)
        /\ IF r.bye THEN talk' = "none" /\ status' = Fresh /\ page' = "none"
           ELSE talk' = side /\ status' = r.to /\ page' = r.say
        /\ script' = script /\ patient' = patient
  BY Called
<1>2. ~r.bye /\ r.say # "none" /\ talk' = side /\ status' = r.to /\ page' = r.say
  BY <1>1
<1>3. r \in Taken(Table(script, side), Here, answer)
  BY <1>1, <1>2 DEF Ends, Mute, Row
<1>4. Shows(r)
  BY <1>2 DEF Shows
<1>5. Here' = Onward(Here, r)
  BY <1>1, <1>2 DEF Here, Place, Onward
<1> QED BY <1>1, <1>2, <1>3, <1>4, <1>5

LEMMA PatientCallKeeps ==
  ASSUME TypeOK, script \in Orderly, NEW side \in Sides(script),
         NEW answer \in Given(page) \cap Forwards, Here \in Walk(script, side, Forwards),
         Call(side, answer)
  PROVE  OnPatientWalk'
<1> SUFFICES ASSUME page' # "none"
             PROVE  Here' \in Walk(script', talk', Forwards)
  BY DEF OnPatientWalk
<1>1. /\ talk' = side /\ script' = script
      /\ \E r \in Taken(Table(script, side), Here, answer) : Shows(r) /\ Here' = Onward(Here, r)
  BY PageComesOfARow
<1>2. Closed(script, side, Forwards)
  BY TableAdvances DEF Advances
<1> QED BY <1>1, <1>2 DEF Closed

LEMMA PatientClickKeeps ==
  ASSUME IInv, NEW side \in Sides(script), Begins(side), Call(side, "open")
  PROVE  OnPatientWalk'
<1>1. script' = script
  BY DEF Call
<1> SUFFICES ASSUME script \in Orderly
             PROVE  OnPatientWalk'
  BY <1>1 DEF OnPatientWalk
<1>2. Here \in Openings(script, side)
  BY BeginsFresh, FreshAtItsOpening DEF Orderly
<1>3. Here \in Walk(script, side, Forwards)
  BY <1>2, TableAdvances DEF Advances, Closed
<1>4. "open" \in Given(page) \cap Forwards
  BY DEF Begins, Given, Answers, Forwards
<1>5. TypeOK
  BY DEF IInv
<1> QED BY <1>3, <1>4, <1>5, PatientCallKeeps

\* What a patient player does before a page.
LEMMA PatientGoesForward ==
  ASSUME IInv, Next, patient, page # "none"
  PROVE  Forward
<1>1. talk # "none"
  BY DEF IInv, OnItsWalk
<1> QED BY <1>1 DEF Next, StartQuest, EndQuest, Begin, PlainStart, PlainComplete, Forfeit,
        TalkToNpc, ClickOther, AnotherQuest, Back, Refuse, EndChat

LEMMA NextOnPatientWalk == IInv /\ OnPatientWalk /\ [Next]_vars => OnPatientWalk'
<1> SUFFICES ASSUME IInv, OnPatientWalk, [Next]_vars
             PROVE  OnPatientWalk'
  OBVIOUS
<1>1. CASE UNCHANGED vars
  BY <1>1 DEF OnPatientWalk, Here, vars
<1>2. CASE Next /\ page # "none"
  <2> SUFFICES ASSUME patient', script' \in Orderly, page' # "none"
               PROVE  OnPatientWalk'
    BY DEF OnPatientWalk
  <2>1. script' = script /\ patient' = patient
    BY <1>2 DEF Next, StartQuest, EndQuest, Begin, PlainStart, PlainComplete, Forfeit,
       TalkToNpc, ClickOther, AnotherQuest, Forward, Back, Refuse, EndChat, Hangup, NoCall, Call
  <2>2. Forward
    BY <1>2, <2>1, PatientGoesForward
  <2>3. ~ForwardLeaves /\ Call(talk, "yes")
    BY <2>2 DEF Forward, Hangup, Disposed
  <2>4. "yes" \in Given(page) \cap Forwards
    BY <1>2, <2>3 DEF ForwardLeaves, Given, Answers, Forwards
  <2>5. TypeOK /\ talk \in Sides(script)
    BY <1>2 DEF IInv, TypeOK, OnItsWalk
  <2>6. Here \in Walk(script, talk, Forwards)
    BY <1>2, <2>1 DEF OnPatientWalk
  <2> QED BY <2>1, <2>3, <2>4, <2>5, <2>6, PatientCallKeeps
<1>3. CASE Next /\ page = "none"
  <2>1. CASE StartQuest
    BY <2>1, BeginKeeps, PatientClickKeeps DEF StartQuest, Begin
  <2>2. CASE EndQuest
    BY <2>2, BeginKeeps, PatientClickKeeps DEF EndQuest, Begin
  <2>3. CASE TalkToNpc
    BY <2>3, TalkToNpcKeeps, PatientClickKeeps DEF TalkToNpc
  <2>4. CASE PlainStart \/ PlainComplete \/ Forfeit \/ ClickOther \/ AnotherQuest
    <3>1. page' = "none"
      BY <1>3, <2>4 DEF PlainStart, PlainComplete, Forfeit, ClickOther, AnotherQuest, Disposed
    <3> QED BY <3>1 DEF OnPatientWalk
  <2>5. CASE Forward \/ Back \/ Refuse \/ EndChat
    BY <1>3, <2>5 DEF Forward, Back, HasBack, Refuse, HasNo, EndChat
  <2> QED BY <1>3, <2>1, <2>2, <2>3, <2>4, <2>5 DEF Next
<1> QED BY <1>1, <1>2, <1>3

LEMMA NextNearer == IInv /\ OnPatientWalk /\ Next => Nearer
<1> SUFFICES ASSUME IInv, OnPatientWalk, Next, patient, script \in Orderly, page # "none"
             PROVE  /\ Left(Turns(script, talk), Here) \in 0 .. Farthest
                    /\ page' # "none" =>
                          /\ talk' = talk
                          /\ Left(Turns(script, talk), Here') < Left(Turns(script, talk), Here)
  BY DEF Nearer
<1> DEFINE turns == Turns(script, talk)
<1>1. TypeOK /\ talk \in Sides(script)
  BY DEF IInv, TypeOK, OnItsWalk
<1>2. Here \in Walk(script, talk, Forwards)
  BY DEF OnPatientWalk
<1>3. Advances(script, talk)
  BY <1>1, TableAdvances
<1>4. Left(turns, Here) \in 0 .. Farthest
  <2>1. \E n \in 0 .. Farthest : <<Here, n>> \in turns
    BY <1>2, <1>3 DEF Advances
  <2> QED BY <2>1, Zenon DEF Left
<1>5. ASSUME page' # "none"
      PROVE  talk' = talk /\ Left(turns, Here') < Left(turns, Here)
  <2>1. Forward
    BY PatientGoesForward
  <2>2. ~ForwardLeaves /\ Call(talk, "yes")
    BY <1>5, <2>1 DEF Forward, Hangup, Disposed
  <2>3. "yes" \in Given(page)
    BY <2>2 DEF ForwardLeaves, Given, Answers
  <2>4. /\ talk' = talk
        /\ \E r \in Taken(Table(script, talk), Here, "yes") : Shows(r) /\ Here' = Onward(Here, r)
    BY <1>1, <1>5, <2>2, <2>3, PageComesOfARow
  <2> QED BY <1>2, <1>3, <2>4 DEF Advances
<1> QED BY <1>4, <1>5

\* Nobody is kept answering: in a conversation that does not go round, each page a
\* patient player is shown after another is nearer to the end, at most Farthest pages
\* away.  This is why his conversations end (DialogEnds), whatever was left behind by
\* earlier ones.
THEOREM EveryAnswerIsNearer == Spec => [][Nearer]_vars
<1>1. Init => OnPatientWalk
  BY DEF Init, OnPatientWalk
<1>2. IInv /\ OnPatientWalk /\ [Next]_vars => [Nearer]_vars
  BY NextNearer
<1> QED BY <1>1, <1>2, TalkInvariant, NextOnPatientWalk, PTL DEF Spec
=============================================================================
