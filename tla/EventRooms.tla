----------------------------- MODULE EventRooms -----------------------------
(***************************************************************************)
(* The rooms for one guest: quest maps that a portal opens to one player   *)
(* at a time (scripts/event/EvanDoll.js and its likes).  The gate is the   *)
(* property "state" of the script's EventManager; a stay is an             *)
(* EventInstanceManager with its one guest and its timer.                  *)
(*                                                                         *)
(* Nothing is locked.  The guest's own handler, the handler of a game      *)
(* master who disconnects him, and the timer of the stay each run the      *)
(* hooks of the script statement by statement, and any two of them may be  *)
(* in the middle of the hooks of the same stay.  An administrator may load *)
(* the event scripts anew (Channel.reloadEventScriptManager): the guests   *)
(* of the old manager stay in, the new manager's gate is open.             *)
(***************************************************************************)
EXTENDS Naturals

CONSTANTS
    Players,        \* characters; who logs in again is a new one
    Leavers,        \* those who may be disconnected
    Rooms,          \* the rooms: a record for each script (see RoomScripts)
    MaxStays,       \* how many stays a behaviour may have
    MaxReloads

ASSUME RoomsAssumption ==
    /\ Leavers \subseteq Players
    /\ MaxStays \in Nat /\ MaxReloads \in Nat
    /\ \A name \in DOMAIN Rooms :
          /\ Rooms[name].entry \in Rooms[name].maps
          /\ Rooms[name].exit \notin Rooms[name].maps
          /\ Rooms[name].schedules \in BOOLEAN /\ Rooms[name].answers \in BOOLEAN

Managers == 1 .. MaxReloads + 1
Stays == 1 .. MaxStays

\* The threads that may run hooks: a player's own, a game master's, a timer's.
Own(p) == <<"own", p>>
Kicker(p) == <<"kick", p>>
Timer(i) == <<"timer", i>>
Threads == {Own(p) : p \in Players} \cup {Kicker(p) : p \in Leavers} \cup {Timer(i) : i \in Stays}

VARIABLES
    script,     \* the event this behaviour is about
    gen,        \* the manager in use
    gate,       \* each manager's property "state"
    made,       \* how many stays have been made
    stay,       \* the stays
    of,         \* each player's eventInstance, 0 for none
    loc, online,
    act,        \* where each thread is: at a statement, on a manager or a stay
    together,   \* managers two players asked before either shut the gate
    cut         \* managers whose gate was shut for a guest whom nobody will let out

vars == <<script, gen, gate, made, stay, of, loc, online, act, together, cut>>
places == <<script, gen, of, loc, online, together, cut>>

room == Rooms[script]
Inside(p) == loc[p] \in room.maps
\* The timer of a stay does something.
Timed == room.schedules /\ room.answers

Free == [at |-> "free", on |-> 0]
At(t, step) == act[t].at = step
Goes(t, step, on) == act' = [act EXCEPT ![t] = [at |-> step, on |-> on]]
\* The player a thread's hooks are about.
Whose(t) == IF t[1] = "timer" THEN stay[t[2]].guest ELSE t[2]

NoStay == [mgr |-> 0, guest |-> 0, in |-> FALSE, disposed |-> FALSE, timer |-> FALSE, ends |-> 0]

Init ==
    /\ script \in DOMAIN Rooms
    /\ gen = 1
    /\ gate = [g \in Managers |-> "0"]
    /\ made = 0
    /\ stay = [i \in Stays |-> NoStay]
    /\ of = [p \in Players |-> 0]
    /\ loc = [p \in Players |-> room.exit]
    /\ online = Players
    /\ act = [t \in Threads |-> Free]
    /\ together = {}
    /\ cut = {}

(***************************************************************************)
(* The guest is let in                                                     *)
(***************************************************************************)

\* Mutant: the portal does not look at the gate.
AskUnasked(p) ==
    /\ p \in online
    /\ ~Inside(p)
    /\ At(Own(p), "free")
    /\ Goes(Own(p), "asked", gen)
    /\ UNCHANGED <<places, gate, made, stay>>

\* The portal script looks at the gate ...
Ask(p) ==
    /\ p \in online
    /\ ~Inside(p)
    /\ At(Own(p), "free")
    /\ gate[gen] = "0"
    /\ Goes(Own(p), "asked", gen)
    /\ UNCHANGED <<places, gate, made, stay>>

\* ... and starts an instance: setup shuts the gate without looking again.
Setup(p) ==
    LET g == act[Own(p)].on
        i == made + 1
    IN /\ At(Own(p), "asked")
       /\ made < MaxStays
       /\ made' = i
       /\ gate' = [gate EXCEPT ![g] = "1"]
       /\ together' = IF \E q \in Players \ {p} : act[Own(q)] = [at |-> "asked", on |-> g]
                      THEN together \cup {g} ELSE together
       /\ stay' = [stay EXCEPT ![i] = [NoStay EXCEPT !.mgr = g, !.guest = p]]
       /\ Goes(Own(p), "made", i)
       /\ UNCHANGED <<script, gen, of, loc, online, cut>>

\* Mutant: the player is not told of his stay.
RegisterForgets(p) ==
    LET i == act[Own(p)].on IN
    /\ At(Own(p), "made")
    /\ stay' = [stay EXCEPT ![i].in = TRUE]
    /\ Goes(Own(p), "registered", i)
    /\ UNCHANGED <<script, gen, gate, made, of, loc, online, together, cut>>

\* registerPlayer does nothing for a player who has logged off.
Register(p) ==
    LET i == act[Own(p)].on IN
    /\ At(Own(p), "made")
    /\ IF p \in online
       THEN /\ stay' = [stay EXCEPT ![i].in = TRUE]
            /\ of' = [of EXCEPT ![p] = i]
            /\ Goes(Own(p), "registered", i)
            /\ UNCHANGED cut
       ELSE /\ cut' = cut \cup {stay[i].mgr}
            /\ Goes(Own(p), "free", 0)
            /\ UNCHANGED <<stay, of>>
    /\ UNCHANGED <<script, gen, gate, made, loc, online, together>>

\* playerEntry: the player is moved, unless the stay has lost its maps by now ...
Enter(p) ==
    LET i == act[Own(p)].on IN
    /\ At(Own(p), "registered")
    /\ IF stay[i].disposed
       THEN Goes(Own(p), "free", 0) /\ UNCHANGED loc
       ELSE /\ Goes(Own(p), "entered", i)
            /\ loc' = IF p \in online THEN [loc EXCEPT ![p] = room.entry] ELSE loc
    /\ UNCHANGED <<script, gen, gate, made, stay, of, online, together, cut>>

\* ... and the timer is set, be the stay over by now or not.
Arm(p) ==
    /\ At(Own(p), "entered")
    /\ stay' = [stay EXCEPT ![act[Own(p)].on].timer = room.schedules]
    /\ Goes(Own(p), "free", 0)
    /\ UNCHANGED <<places, gate, made>>

(***************************************************************************)
(* The stay ends                                                           *)
(***************************************************************************)

\* One more thread sets about ending stay i.
Ending(s) == [s EXCEPT !.ends = IF @ < 2 THEN @ + 1 ELSE @]
Ends(i) == [stay EXCEPT ![i] = Ending(@)]

\* A game master's thread goes on to take the character off the channel.
Finishes(t) == IF t[1] = "kick" THEN Goes(t, "gone", 0) ELSE Goes(t, "free", 0)

\* dispose: no guest, no timer; a timer that is running runs on.
Over(i) == [stay EXCEPT ![i] = [@ EXCEPT !.in = FALSE, !.timer = FALSE, !.disposed = TRUE]]

\* unregisterPlayer(player, true): the stay is empty then, and disposed of; dispose,
\* which changedMap calls next, does so a second time.
Unregister(t, from, to) ==
    LET i == act[t].on IN
    /\ At(t, from)
    /\ of' = [of EXCEPT ![Whose(t)] = 0]
    /\ stay' = Over(i)
    /\ Goes(t, to, i)
    /\ UNCHANGED <<script, gen, gate, made, loc, online, together, cut>>

\* em.setProperty("state", "0"), whoever may be inside by now.
Opened(t) == [gate EXCEPT ![stay[act[t].on].mgr] = "0"]

Reopen(t, from, to) ==
    /\ At(t, from)
    /\ gate' = Opened(t)
    /\ Goes(t, to, act[t].on)
    /\ UNCHANGED <<places, made, stay>>

\* The player is on another map, unless he has gone.
Moved(t) == IF Whose(t) \in online THEN [loc EXCEPT ![Whose(t)] = room.exit] ELSE loc

\* changeMap asks the stay the player has by now, if he has one, before it moves him.
ChangeMap(t, from, stays) ==
    LET i == of[Whose(t)] IN
    /\ At(t, from)
    /\ IF i # 0 /\ ~stays[i].disposed
       THEN /\ stay' = [stays EXCEPT ![i] = Ending(@)]
            /\ Goes(t, "moved1", i)
            /\ UNCHANGED loc
       ELSE /\ stay' = stays
            /\ loc' = Moved(t)
            /\ Finishes(t)
    /\ UNCHANGED <<script, gen, gate, made, of, online, together, cut>>

\* Mutant: changedMap forgets to open the gate.
ChangedMapShut(t) ==
    \/ Unregister(t, "moved1", "moved2")
    \/ /\ At(t, "moved2")
       /\ loc' = Moved(t)
       /\ Finishes(t)
       /\ UNCHANGED <<script, gen, gate, made, stay, of, online, together, cut>>

\* changedMap; then the player is moved.
ChangedMap(t) ==
    \/ Unregister(t, "moved1", "moved2")
    \/ /\ At(t, "moved2")
       /\ gate' = Opened(t)
       /\ loc' = Moved(t)
       /\ Finishes(t)
       /\ UNCHANGED <<script, gen, made, stay, of, online, together, cut>>

\* Mutant: playerExit opens the gate first.
PlayerExitEarly(t) ==
    \/ Reopen(t, "exit1", "exit2")
    \/ Unregister(t, "exit2", "exit3")
    \/ ChangeMap(t, "exit3", Over(act[t].on))

PlayerExit(t) ==
    \/ Unregister(t, "exit1", "exit2")
    \/ Reopen(t, "exit2", "exit3")
    \/ ChangeMap(t, "exit3", Over(act[t].on))

\* The timer found nobody in.
Emptied(i) ==
    /\ At(Timer(i), "empty")
    /\ stay' = Over(i)
    /\ gate' = Opened(Timer(i))
    /\ Finishes(Timer(i))
    /\ UNCHANGED <<places, made>>

(***************************************************************************)
(* Who ends it                                                             *)
(***************************************************************************)

\* The guest goes to a map that is not the room's: a portal, a scroll, a summons.
Leave(p) ==
    /\ p \in online
    /\ Inside(p)
    /\ ChangeMap(Own(p), "free", stay)

\* From one map of the room to another: changedMap has nothing to do.
Walk(p) ==
    /\ p \in online
    /\ Inside(p)
    /\ At(Own(p), "free")
    /\ \E m \in room.maps \ {loc[p]} : loc' = [loc EXCEPT ![p] = m]
    /\ UNCHANGED <<script, gen, gate, made, stay, of, online, act, together, cut>>

\* playerRevive (and DualSecret's playerDead) run playerExit.
Revive(p) ==
    /\ p \in online
    /\ Inside(p)
    /\ At(Own(p), "free")
    /\ of[p] # 0
    /\ stay' = Ends(of[p])
    /\ Goes(Own(p), "exit1", of[p])
    /\ UNCHANGED <<places, gate, made>>

\* A disconnection, by the player's own doing or a game master's: playerDisconnected
\* runs playerExit.
Kick(p) ==
    /\ p \in online \cap Leavers
    /\ At(Kicker(p), "free")
    /\ IF of[p] # 0
       THEN stay' = Ends(of[p]) /\ Goes(Kicker(p), "exit1", of[p])
       ELSE Goes(Kicker(p), "gone", 0) /\ UNCHANGED stay
    /\ UNCHANGED <<places, gate, made>>

\* The character leaves the channel, without his stay if he was let in meanwhile.
Gone(p) ==
    /\ At(Kicker(p), "gone")
    /\ online' = online \ {p}
    /\ cut' = IF of[p] # 0 /\ ~Timed THEN cut \cup {stay[of[p]].mgr} ELSE cut
    /\ Goes(Kicker(p), "free", 0)
    /\ UNCHANGED <<script, gen, gate, made, stay, of, loc, together>>

\* The timer of a stay is due; a script without "timeout" has nothing to call.
Fire(i) ==
    /\ stay[i].timer
    /\ At(Timer(i), "free")
    /\ stay' = [stay EXCEPT ![i].timer = FALSE]
    /\ IF room.answers THEN Goes(Timer(i), "due", i) ELSE UNCHANGED act
    /\ UNCHANGED <<places, gate, made>>

\* timeout: the guest is sent out as by playerExit; if nobody is in, the gate opens.
Timeout(i) ==
    /\ At(Timer(i), "due")
    /\ stay' = Ends(i)
    /\ Goes(Timer(i), IF stay[i].in THEN "exit1" ELSE "empty", i)
    /\ UNCHANGED <<places, gate, made>>

\* The old manager's gate and its guests' stays are not touched.
Reload ==
    /\ gen <= MaxReloads
    /\ gen' = gen + 1
    /\ UNCHANGED <<script, gate, made, stay, of, loc, online, act, together, cut>>

Hooks(t) == PlayerExit(t) \/ ChangedMap(t)

LetIn(p) == Setup(p) \/ Register(p) \/ Enter(p) \/ Arm(p)

System ==
    \/ \E p \in Players : LetIn(p)
    \/ \E p \in Leavers : Gone(p)
    \/ \E t \in Threads : Hooks(t)
    \/ \E i \in Stays : Fire(i) \/ Timeout(i) \/ Emptied(i)

Next ==
    \/ System
    \/ \E p \in Players : Ask(p) \/ Leave(p) \/ Walk(p) \/ Revive(p)
    \/ \E p \in Leavers : Kick(p)
    \/ Reload

\* What has begun goes on, and timers fire; nobody is obliged to come or to leave.
Spec == Init /\ [][Next]_vars
FairSpec == Spec /\ WF_vars(System)

(***************************************************************************)
(* Properties                                                              *)
(***************************************************************************)

Steps == {"free", "asked", "made", "registered", "entered",
          "exit1", "exit2", "exit3", "moved1", "moved2",
          "empty", "gone", "due"}

\* What is known of a stay that has been made.
Stay == [mgr : Managers, guest : Players, in : BOOLEAN, disposed : BOOLEAN, timer : BOOLEAN, ends : 0 .. 2]

TypeOK ==
    /\ script \in DOMAIN Rooms
    /\ gen \in Managers
    /\ gate \in [Managers -> {"0", "1"}]
    /\ made \in 0 .. MaxStays
    /\ stay \in [Stays -> Stay \cup {NoStay}]
    /\ \A i \in Stays : stay[i] = NoStay <=> i > made
    /\ of \in [Players -> 0 .. made]
    /\ loc \in [Players -> room.maps \cup {room.exit}]
    /\ online \subseteq Players
    /\ act \in [Threads -> [at : Steps, on : Nat]]
    /\ together \subseteq Managers
    /\ cut \subseteq Managers

Guests(g) == {i \in 1 .. made : stay[i].mgr = g /\ stay[i].in}

\* The two ways in which a manager's gate is deceived: two players who asked before
\* either shut it, and a stay that two threads ended, the second of which opens the
\* gate when the next guest may be in.
Deceived(g) == g \in together \/ \E i \in 1 .. made : stay[i].mgr = g /\ stay[i].ends = 2

\* The portal tells the truth ("It seems somebody may be inside"): a manager has one guest at
\* most, and its gate is shut while he is in.
OneGuest == \A g \in Managers : ~Deceived(g) =>
    \A i, j \in Guests(g) : i = j

GateShut == \A g \in Managers : ~Deceived(g) =>
    (gate[g] = "0" => Guests(g) = {})

\* A player's eventInstance is a stay he is the guest of; and, until the scripts are
\* loaded anew a second time, a guest has his stay as eventInstance, so that his going
\* away ends it: else the gate stays shut, and the timer takes him out of wherever he is
\* by then.  (With three managers a thread that is late can take a guest of the second
\* out of the room while his stay goes on; the third lets him in once more.)
GuestsKnow ==
    /\ \A p \in Players : of[p] # 0 => stay[of[p]].in /\ stay[of[p]].guest = p
    /\ gen <= 2 /\ (\A g \in Managers : ~Deceived(g)) =>
          \A g \in Managers : \A i \in Guests(g) : of[stay[i].guest] = i

\* The room opens again, whichever thread ends its guest's stay; where a timer does
\* nothing, it waits for the guest to leave.  A player who is disconnected while he is
\* being let in may leave it shut for good.
Reopens == \A g \in Managers :
    []<>(\/ gate[g] = "0"
         \/ ~Timed /\ \E i \in Guests(g) : stay[i].guest \in online
         \/ g \in cut
         \/ \E h \in Managers : Deceived(h))
=============================================================================
