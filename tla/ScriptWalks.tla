----------------------------- MODULE ScriptWalks -----------------------------
(***************************************************************************)
(* One conversation taken by itself: the places its table leads to, and    *)
(* what the rules of ScriptTalk ask of the table there.  Nothing is said   *)
(* here of managers and registrations, of what the player did before or of *)
(* the engine it was done with: that none of it matters is what            *)
(* ScriptTalk_proofs shows.                                                *)
(***************************************************************************)
EXTENDS ScriptTalk

Scripts == DOMAIN Quests \cup DOMAIN Npcs

Table(s, side) == IF s \in DOMAIN Quests THEN Quests[s][side] ELSE Npcs[s]

\* The conversations a script has: a quest one for either side with a function.
Sides(s) ==
    IF s \in DOMAIN Quests THEN {side \in {"start", "end"} : Quests[s][side] # NoTalk}
    ELSE {"start"}

\* What a call does, ScriptRows' list.
Deeds ==
    Gains \cup Losses \cup Questions \cup
    {"start", "complete", "quest", "note", "warp", "open", "event", "look", "act", "throw"}

\* A table as ScriptRows writes one.
Written(c) ==
    /\ c.back \in Int /\ c.no \in Int
    /\ \A r \in c.rows :
          /\ r.at \in Int /\ r.to \in Int
          /\ r.do \in Seq(Deeds) /\ r.say \in Pages \cup {"none"} /\ r.bye \in BOOLEAN

\* Where a conversation is: the script's counter, the page before the player, the
\* quest's state.
Place(n, say, s) == [status |-> n, page |-> say, stage |-> s]

\* The answers that reach the script from a page, and a click before there is one.
Given(say) ==
    {a \in Answers :
        \/ a = "open" /\ say = "none"
        \/ a = "yes" /\ say \notin {"none", "ok", "prev"}
        \/ a = "back" /\ say \in {"both", "prev"}
        \/ a = "no" /\ say \in {"ask", "number", "style"}}

\* The rows an answer given at a place may take.
Taken(c, x, answer) ==
    IF answer \in Given(x.page) /\ Step(c, answer) # Leave
    THEN Rows(c, x.status + Step(c, answer), answer, x.page, x.stage) ELSE {}

\* Where the player is when the row has been taken.
Onward(x, r) == Place(r.to, r.say, MovedBy(r.do, x.stage))

Shows(r) == ~r.bye /\ r.say # "none"

\* Where a conversation begins.  The engine of a quest that falls silent is used on:
\* its counter may stand wherever a click finds a row.
Openings(s, side) ==
    LET counters == IF s \in DOMAIN Quests \cap FallSilent
                    THEN {Fresh} \cup {r.at - 1 : r \in Table(s, side).rows} ELSE {Fresh}
        stages == IF s \notin DOMAIN Quests THEN Stages
                  ELSE IF side = "start" THEN {"notStarted"} ELSE {"started"}
    IN  {Place(n, "none", g) : n \in counters, g \in stages}

\* No script takes more calls than this to come wherever it may come.
Farthest == 30

\* The places a conversation comes to by some kinds of answers.
Walk(s, side, answers) ==
    LET c == Table(s, side)
        after[n \in 0 .. Farthest] ==
            IF n = 0 THEN Openings(s, side)
            ELSE Openings(s, side) \cup
                 UNION {{Onward(x, r) : r \in {q \in Taken(c, x, a) : Shows(q)}} :
                        x \in after[n - 1], a \in answers}
    IN  after[Farthest]

\* The walk is complete: it starts where the conversation does, and no answer leaves it.
Closed(s, side, answers) ==
    LET places == Walk(s, side, answers) IN
    /\ Openings(s, side) \subseteq places
    /\ \A x \in places, a \in answers : \A r \in Taken(Table(s, side), x, a) :
          Shows(r) => Onward(x, r) \in places

-----------------------------------------------------------------------------
(* What the rules ask of a row r that is taken at a place x                 *)

PaysOnce(s, x, r) ==
    s \in DOMAIN Quests \ RewardMidway /\ Range(r.do) \cap Gains # {} =>
        MovedBy(r.do, x.stage) # x.stage

OnlyAsks(s, answer, r) ==
    answer \in {"back", "no"} /\ s \notin ActOnRefusal =>
        Range(r.do) \subseteq Questions \cup {"throw"}

\* Who is called says something or goes.  An npc that throws at the first click stays
\* registered: the next click on another disposes of it.
Speaks(s, r) ==
    s \notin FallSilent =>
        r.bye \/ r.say # "none" \/ (s \in DOMAIN Npcs /\ "throw" \in Range(r.do))

\* Every answer finds a row.
Finds(s, side, x) ==
    s \notin FallSilent =>
        \A a \in Given(x.page) :
            Step(Table(s, side), a) = Leave \/ Taken(Table(s, side), x, a) # {}

Keeps(s, side) ==
    /\ Written(Table(s, side))
    /\ Closed(s, side, Answers)
    /\ \A x \in Walk(s, side, Answers) :
          /\ Finds(s, side, x)
          /\ \A a \in Answers : \A r \in Taken(Table(s, side), x, a) :
                PaysOnce(s, x, r) /\ OnlyAsks(s, a, r) /\ Speaks(s, r)

\* The tables keep the rules their scripts are not known to break.
TablesKeep(scripts) == \A s \in scripts : \A side \in Sides(s) : Keeps(s, side)

-----------------------------------------------------------------------------
(* How far it is to the end                                                 *)

Forwards == {"open", "yes"}

\* The places a patient player comes to, each with the number of answers that are left
\* there at most: those with no page after them first, then those whose next pages all
\* have their number.
Turns(s, side) ==
    LET c == Table(s, side)
        places == Walk(s, side, Forwards)
        next(x) == {Onward(x, r) : r \in {q \in Taken(c, x, "yes") : Shows(q)}}
        known[n \in 0 .. Farthest] ==
            IF n = 0 THEN {}
            ELSE LET before == known[n - 1]
                     done == {turn[1] : turn \in before}
                 IN before \cup {<<x, n - 1>> : x \in {y \in places \ done : next(y) \subseteq done}}
    IN  known[Farthest]

\* The number of answers left at a place.
Left(turns, x) == CHOOSE n \in 0 .. Farthest : <<x, n>> \in turns

Advances(s, side) ==
    LET turns == Turns(s, side) IN
    /\ Closed(s, side, Forwards)
    /\ \A x \in Walk(s, side, Forwards) :
          /\ \E n \in 0 .. Farthest : <<x, n>> \in turns
          /\ \A r \in Taken(Table(s, side), x, "yes") :
                Shows(r) => Left(turns, Onward(x, r)) < Left(turns, x)

\* The tables come nearer to their end with every answer.
TablesAdvance(scripts) == \A s \in scripts : \A side \in Sides(s) : Advances(s, side)

\* The scripts that neither go round nor fall silent.
Orderly == Scripts \ (GoRound \cup FallSilent)

ASSUME TablesAssumption == TablesKeep(Scripts) /\ TablesAdvance(Orderly)
=============================================================================
