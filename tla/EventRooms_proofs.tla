-------------------------- MODULE EventRooms_proofs --------------------------
(***************************************************************************)
(* What holds of the rooms for one guest for any players, rooms, number of *)
(* stays and of reloads.  A gate is held, by at most one stay at a time,   *)
(* from setup until a thread that ends the stay has opened the gate again; *)
(* in between the stay is being made, has its guest in, or is being ended. *)
(* As long as one thread only ends a stay, nobody opens the gate while     *)
(* another holds it.                                                       *)
(***************************************************************************)
EXTENDS EventRooms, TLAPS

Made == 1 .. made

\* Statements at which a thread works on ending a stay; in the first four the gate is
\* still to be opened.
Shutting == {"exit1", "exit2", "moved1", "moved2"}
Work == Shutting \cup {"exit3"}
Late == {"exit2", "exit3", "moved2"}
Entering == {"registered", "entered"}

\* What each kind of thread does.
Roles ==
    /\ \A p \in Players : act[Own(p)].at \in {"free", "asked", "made"} \cup Entering \cup Work
    /\ \A p \in Leavers : act[Kicker(p)].at \in {"free", "gone"} \cup Work
    /\ \A i \in Stays : act[Timer(i)].at \in {"free", "due", "empty"} \cup Work

\* A thread is about a stay that has been made, and whose guest it is about.
Abouts ==
    /\ \A t \in Threads : act[t].at \in Work => act[t].on \in Made /\ stay[act[t].on].guest = Whose(t)
    /\ \A p \in Players : At(Own(p), "asked") => act[Own(p)].on \in 1 .. gen
    /\ \A p \in Players : act[Own(p)].at \in {"made"} \cup Entering =>
          act[Own(p)].on \in Made /\ stay[act[Own(p)].on].guest = p
    /\ \A i \in Stays : act[Timer(i)].at # "free" => i \in Made
    /\ \A i \in Stays : act[Timer(i)].at \in {"due", "empty"} => act[Timer(i)].on = i

\* A stay whose guest has not been registered: nothing has been done about it.
Fresh(i) == /\ ~stay[i].in /\ ~stay[i].disposed /\ ~stay[i].timer /\ stay[i].ends = 0
            /\ At(Timer(i), "free")

\* A stay is fresh, then its guest is in, then it is ended; who is late finds it disposed.
Courses ==
    /\ \A p \in Players : At(Own(p), "made") => Fresh(act[Own(p)].on)
    /\ \A p \in Players : act[Own(p)].at \in Entering =>
          stay[act[Own(p)].on].in \/ stay[act[Own(p)].on].ends > 0
    /\ \A i \in Made : /\ stay[i].mgr <= gen
                       /\ stay[i].disposed => ~stay[i].in
                       /\ stay[i].timer \/ ~At(Timer(i), "free") => stay[i].in \/ stay[i].ends > 0
    /\ \A t \in Threads : act[t].at \in Late => stay[act[t].on].disposed
    /\ \A i \in Stays : At(Timer(i), "empty") => ~stay[i].in /\ stay[i].ends = 2

\* A player's eventInstance.
OfOK == \A p \in Players : of[p] # 0 => stay[of[p]].in /\ stay[of[p]].guest = p

\* ends counts the threads that end a stay.
Counted == \A t \in Threads : act[t].at \in Work =>
    /\ stay[act[t].on].ends > 0
    /\ stay[act[t].on].ends = 1 =>
          \A u \in Threads : act[u].at \in Work /\ act[u].on = act[t].on => u = t

Base == TypeOK /\ Roles /\ Abouts /\ Courses /\ OfOK /\ Counted

\* Who has seen the gate open still finds it open, unless another asked too.
AskedOpen == \A p \in Players :
    At(Own(p), "asked") /\ act[Own(p)].on \notin together => gate[act[Own(p)].on] = "0"

\* Stay i holds its manager's gate.
Holds(i) == \/ stay[i].in
            \/ \E p \in Players : At(Own(p), "made") /\ act[Own(p)].on = i
            \/ \E t \in Threads : act[t].at \in Shutting /\ act[t].on = i

OneHolds == \A i, j \in Made :
    ~Deceived(stay[i].mgr) /\ Holds(i) /\ Holds(j) /\ stay[i].mgr = stay[j].mgr => i = j
HeldShut == \A i \in Made : ~Deceived(stay[i].mgr) /\ Holds(i) => gate[stay[i].mgr] = "1"

\* Before the second reload, and while no gate is deceived.
Calm == gen <= 2 /\ \A g \in Managers : ~Deceived(g)

\* A guest has his stay; who ends it takes it from him; who is let in has none.
GuestHas == \A i \in Made : stay[i].in => of[stay[i].guest] = i
EndersTake == \A t \in Threads : act[t].at \in {"exit1", "moved1"} => of[Whose(t)] = act[t].on
NoneYet == \A p \in Players : act[Own(p)].at \in {"asked", "made"} \cup Late => of[p] = 0
\* Who has been taken out of the room while his stay goes on is a guest of the second manager.
Astray == \A p \in online : act[Own(p)].at \in {"free", "entered"} /\ of[p] # 0 =>
    Inside(p) \/ stay[of[p]].mgr = 2
\* A player's stays are of ever later managers, and his eventInstance is the last.
Latest(p, k) == \A i \in Made : stay[i].guest = p => i <= k
LastOnes ==
    /\ \A p \in Players : of[p] # 0 => Latest(p, of[p])
    /\ \A p \in Players : act[Own(p)].at \in {"made"} \cup Entering => Latest(p, act[Own(p)].on)
    /\ \A i, j \in Made : stay[i].guest = stay[j].guest /\ i <= j => stay[i].mgr <= stay[j].mgr
    /\ \A p \in Players : At(Own(p), "asked") =>
          \A i \in Made : stay[i].guest = p => stay[i].mgr <= act[Own(p)].on

Known == GuestHas /\ EndersTake /\ NoneYet /\ Astray /\ LastOnes

IInv == Base /\ AskedOpen /\ OneHolds /\ HeldShut /\ (Calm => Known)

-----------------------------------------------------------------------------
(***************************************************************************)
(* Threads and stays                                                       *)
(***************************************************************************)

\* The three kinds of threads are apart.
LEMMA Kinds ==
  /\ \A p \in Players : Own(p) \in Threads /\ Own(p)[1] = "own" /\ Own(p)[2] = p
  /\ \A p \in Leavers : Kicker(p) \in Threads /\ Kicker(p)[1] = "kick" /\ Kicker(p)[2] = p
  /\ \A i \in Stays : Timer(i) \in Threads /\ Timer(i)[1] = "timer" /\ Timer(i)[2] = i
  /\ \A t \in Threads : \/ \E p \in Players : t = Own(p)
                        \/ \E p \in Leavers : t = Kicker(p)
                        \/ \E i \in Stays : t = Timer(i)
BY DEF Threads, Own, Kicker, Timer

\* Two names of one thread.
LEMMA Names ==
  /\ \A p, q : Own(p) = Own(q) => p = q
  /\ \A p, q : Kicker(p) = Kicker(q) => p = q
  /\ \A i, j : Timer(i) = Timer(j) => i = j
  /\ \A p, q : Own(p) # Kicker(q) /\ Own(p) # Timer(q) /\ Kicker(p) # Timer(q)
BY DEF Own, Kicker, Timer

\* Whom a thread is about.
LEMMA Abouters ==
  /\ \A p \in Players : Whose(Own(p)) = p /\ Whose(Own(p))' = p
  /\ \A p \in Leavers : Whose(Kicker(p)) = p /\ Whose(Kicker(p))' = p
  /\ \A i \in Stays : Whose(Timer(i)) = stay[i].guest /\ Whose(Timer(i))' = stay'[i].guest
BY Kinds DEF Whose

\* The numbers.
LEMMA Numbers ==
  /\ MaxStays \in Nat /\ MaxReloads \in Nat /\ Leavers \subseteq Players
  /\ Managers = 1 .. MaxReloads + 1 /\ Stays = 1 .. MaxStays
  /\ 0 \notin Managers /\ Managers \subseteq Nat
BY RoomsAssumption DEF Managers, Stays

\* What TypeOK says of one stay, one player, one thread.
LEMMA Typed ==
  ASSUME TypeOK
  PROVE  /\ made \in Nat /\ made <= MaxStays /\ Made \subseteq Stays
         /\ \A i \in Made : stay[i] \in Stay
         /\ \A i \in Stays \ Made : stay[i] = NoStay
         /\ \A p \in Players : of[p] \in Nat /\ (of[p] # 0 => of[p] \in Made)
         /\ \A t \in Threads : act[t] \in [at : Steps, on : Nat]
<1>1. /\ made \in Nat /\ made <= MaxStays /\ Made \subseteq Stays
      /\ \A i \in Stays : i \in Made <=> ~(i > made)
  BY Numbers DEF TypeOK, Made
<1>2. \A i \in Stays : stay[i] \in Stay \cup {NoStay}
  BY DEF TypeOK
<1>3. \A i \in Made : stay[i] # NoStay
  BY <1>1 DEF TypeOK
<1>4. \A i \in Stays \ Made : stay[i] = NoStay
  BY <1>1 DEF TypeOK
<1>5. \A p \in Players : of[p] \in Nat /\ (of[p] # 0 => of[p] \in Made)
  BY <1>1 DEF TypeOK, Made
<1>6. \A t \in Threads : act[t] \in [at : Steps, on : Nat]
  BY DEF TypeOK
<1>7. QED
  BY <1>1, <1>2, <1>3, <1>4, <1>5, <1>6

\* One thread goes on, the others stay where they are.
LEMMA OneGoes ==
  ASSUME TypeOK, NEW t \in Threads, NEW step \in Steps, NEW on \in Nat, Goes(t, step, on)
  PROVE  /\ act' \in [Threads -> [at : Steps, on : Nat]]
         /\ act'[t].at = step /\ act'[t].on = on
         /\ \A u \in Threads : u # t => act'[u] = act[u]
<1>1. act \in [Threads -> [at : Steps, on : Nat]]
  BY DEF TypeOK
<1>2. [at |-> step, on |-> on] \in [at : Steps, on : Nat]
  OBVIOUS
<1>3. QED
  BY <1>1, <1>2 DEF Goes

\* One stay changes, the others stay as they are.
LEMMA OneChanges ==
  ASSUME TypeOK, NEW i \in Made, NEW s \in Stay, stay' = [stay EXCEPT ![i] = s]
  PROVE  /\ stay' \in [Stays -> Stay \cup {NoStay}]
         /\ stay'[i] = s
         /\ \A j \in Stays : j # i => stay'[j] = stay[j]
<1>1. stay \in [Stays -> Stay \cup {NoStay}] /\ i \in Stays
  BY Typed DEF TypeOK
<1>2. QED
  BY <1>1

\* A step that makes no stay.
LEMMA SameStays ==
  ASSUME TypeOK, made' = made, stay' \in [Stays -> Stay \cup {NoStay}],
         \A j \in Stays \ Made : stay'[j] = stay[j],
         \A j \in Made : stay'[j] \in Stay /\ stay'[j].guest = stay[j].guest /\ stay'[j].mgr = stay[j].mgr
  PROVE  /\ Made' = Made
         /\ \A u \in Threads : Whose(u)' = Whose(u)
         /\ \A j \in Stays : stay'[j] = NoStay <=> j > made'
         /\ \A p, k : Latest(p, k)' = Latest(p, k)
<1>1. Made' = Made
  BY DEF Made
<1>2. \A j \in Stays : stay'[j].guest = stay[j].guest
  OBVIOUS
<1>3. \A u \in Threads : Whose(u)' = Whose(u)
  <2> SUFFICES ASSUME NEW u \in Threads
               PROVE  Whose(u)' = Whose(u)
    OBVIOUS
  <2>1. CASE \E k \in Stays : u = Timer(k)
    BY <1>2, <2>1, Abouters
  <2>2. QED
    BY <2>1, Kinds, Abouters
<1>4. \A j \in Stays : stay'[j] = NoStay <=> j > made'
  <2>1. NoStay \notin Stay
    BY Numbers DEF NoStay, Stay
  <2>2. \A j \in Stays : j \in Made <=> ~(j > made)
    BY Numbers DEF Made, TypeOK
  <2>3. QED
    BY <2>1, <2>2 DEF TypeOK
<1>5. \A p, k : Latest(p, k)' = Latest(p, k)
  BY <1>1 DEF Latest
<1>6. QED
  BY <1>1, <1>3, <1>4, <1>5

\* Gates that have been deceived stay so.
LEMMA DeceivedStays ==
  ASSUME TypeOK, together \subseteq together', made' \in Nat, made <= made',
         \A i \in Made : /\ stay'[i].mgr = stay[i].mgr
                         /\ stay[i].ends = 2 => stay'[i].ends = 2
  PROVE  /\ \A g : Deceived(g) => Deceived(g)'
         /\ \A i \in Made : Deceived(stay[i].mgr) => Deceived(stay[i].mgr)'
         /\ gen <= gen' /\ gen' \in Nat => (Calm' => Calm)
<1>1. \A g : Deceived(g) => Deceived(g)'
  BY Typed DEF Deceived, Made
<1>2. gen <= gen' /\ gen' \in Nat => (Calm' => Calm)
  BY <1>1, Numbers DEF Calm, TypeOK
<1>3. QED
  BY <1>1, <1>2

-----------------------------------------------------------------------------
(***************************************************************************)
(* The guest is let in                                                     *)
(***************************************************************************)

\* To ask changes nothing but where the player's thread is.
LEMMA AskIInv ==
  ASSUME IInv, NEW p \in Players, Ask(p)
  PROVE  IInv'
<1> DEFINE t == Own(p)
<1> USE DEF IInv, Base
<1>1. /\ UNCHANGED <<script, gen, gate, made, stay, of, loc, online, together, cut>>
      /\ p \in online /\ ~Inside(p) /\ act[t].at = "free" /\ gate[gen] = "0"
      /\ Goes(t, "asked", gen) /\ gen \in Nat /\ gen \in 1 .. gen
  BY Numbers DEF Ask, places, At, TypeOK
<1>2. t \in Threads
  BY Kinds
<1>3. /\ act' \in [Threads -> [at : Steps, on : Nat]]
      /\ act'[t].at = "asked" /\ act'[t].on = gen
      /\ \A u \in Threads : u # t => act'[u] = act[u]
  BY <1>1, <1>2, OneGoes DEF Steps
<1>4. Made' = Made /\ \A u : Whose(u)' = Whose(u)
  BY <1>1 DEF Made, Whose
<1>5. /\ \A q \in Players : q # p => act'[Own(q)] = act[Own(q)]
      /\ \A q \in Leavers : act'[Kicker(q)] = act[Kicker(q)]
      /\ \A i \in Stays : act'[Timer(i)] = act[Timer(i)]
  BY <1>3, Kinds, Names
<1>6. TypeOK'
  BY <1>1, <1>3 DEF TypeOK, room
<1>7. Roles'
  BY <1>3, <1>5 DEF Roles
<1>8. Abouts'
  BY <1>1, <1>3, <1>4, <1>5 DEF Abouts, Work, Shutting, Entering, At
<1>9. Courses'
  BY <1>1, <1>3, <1>4, <1>5, Typed DEF Courses, Fresh, Late, Entering, At, Abouts
<1>10. OfOK' 
  BY <1>1 DEF OfOK
<1>11. Counted'
  BY <1>1, <1>3 DEF Counted, Work, Shutting
<1>12. AskedOpen'
  BY <1>1, <1>3, <1>5 DEF AskedOpen, At
<1>13. \A i : Holds(i)' => Holds(i)
  BY <1>1, <1>3, <1>5 DEF Holds, Shutting, At
<1>14. \A g : Deceived(g)' = Deceived(g)
  BY <1>1 DEF Deceived
<1>15. OneHolds' /\ HeldShut'
  BY <1>1, <1>4, <1>13, <1>14 DEF OneHolds, HeldShut
<1>16. ASSUME Calm' PROVE Known'
  <2>1. Calm /\ Known
    BY <1>1, <1>14, <1>16 DEF Calm
  <2>2. GuestHas' /\ EndersTake'
    BY <1>1, <1>3, <1>4, <2>1 DEF GuestHas, EndersTake, Known
  <2>3. of[p] = 0
    <3>1. SUFFICES ASSUME of[p] # 0 PROVE FALSE
      OBVIOUS
    <3>2. stay[of[p]].mgr = 2 /\ of[p] \in Made /\ stay[of[p]].in
      BY <1>1, <2>1, <3>1, Typed DEF Known, Astray, OfOK
    <3>3. gen = 2
      BY <1>1, <2>1, <3>2 DEF Courses, Calm, Numbers, TypeOK
    <3>4. QED
      BY <1>1, <2>1, <3>2, <3>3 DEF HeldShut, Holds, Calm, TypeOK
  <2>4. NoneYet'
    BY <1>1, <1>5, <2>1, <2>3 DEF NoneYet, Known
  <2>5. Astray'
    <3>1. ASSUME NEW q \in online', act'[Own(q)].at \in {"free", "entered"}, of'[q] # 0
          PROVE  Inside(q)' \/ stay'[of'[q]].mgr = 2
      <4>1. q # p /\ q \in Players
        BY <1>1, <1>3, <3>1 DEF TypeOK
      <4>2. QED
        BY <1>1, <1>5, <2>1, <3>1, <4>1 DEF Known, Astray, Inside, room
    <3>2. QED
      BY <3>1 DEF Astray
  <2>6. LastOnes'
    <3>1. \A q \in Players : act'[Own(q)].at \in {"made"} \cup Entering => Latest(q, act[Own(q)].on)'
      <4> SUFFICES ASSUME NEW q \in Players, act'[Own(q)].at \in {"made"} \cup Entering
                   PROVE  Latest(q, act[Own(q)].on)'
        OBVIOUS
      <4>1. q # p
        BY <1>3 DEF Entering
      <4>2. act'[Own(q)] = act[Own(q)] /\ Latest(q, act[Own(q)].on)
        BY <1>5, <2>1, <4>1 DEF LastOnes, Known
      <4>3. QED
        BY <1>1, <1>4, <4>2 DEF Latest
    <3>2. \A q \in Players : At(Own(q), "asked")' =>
             \A j \in Made' : stay'[j].guest = q => stay'[j].mgr <= act'[Own(q)].on
      BY <1>1, <1>3, <1>4, <1>5, <2>1 DEF LastOnes, Known, At, Courses
    <3>3. QED
      BY <1>1, <1>4, <2>1, <3>1, <3>2 DEF LastOnes, Known, Latest
  <2>7. QED
    BY <2>2, <2>4, <2>5, <2>6 DEF Known
<1>17. QED
  BY <1>6, <1>7, <1>8, <1>9, <1>10, <1>11, <1>12, <1>15, <1>16

\* setup shuts a gate that nobody holds, or one that two players asked at once.
LEMMA SetupIInv ==
  ASSUME IInv, NEW p \in Players, Setup(p)
  PROVE  IInv'
<1> DEFINE t == Own(p)
<1> USE DEF IInv, Base
<1>a. PICK g \in Managers : g = act[t].on /\ g \in 1 .. gen
  BY Numbers DEF Setup, Abouts, At, TypeOK
<1>b. PICK i \in Stays : i = made + 1
  BY Numbers DEF Setup, TypeOK
<1>1. /\ act[t].at = "asked" /\ made < MaxStays /\ made' = i
      /\ gate' = [gate EXCEPT ![g] = "1"]
      /\ stay' = [stay EXCEPT ![i] = [NoStay EXCEPT !.mgr = g, !.guest = p]]
      /\ together' = IF \E q \in Players \ {p} : act[Own(q)] = [at |-> "asked", on |-> g]
                     THEN together \cup {g} ELSE together
      /\ Goes(t, "made", i)
      /\ UNCHANGED <<script, gen, of, loc, online, cut>>
  BY <1>a, <1>b DEF Setup, At
<1>2. /\ t \in Threads /\ made \in Nat /\ i \in Nat /\ i \in Stays /\ i \notin Made /\ i = made + 1
      /\ g \in 1 .. gen /\ g \in Managers /\ gen \in Nat /\ g = act[t].on /\ g # 0
  BY <1>1, <1>a, <1>b, Kinds, Numbers DEF TypeOK, Made
<1>3. /\ act' \in [Threads -> [at : Steps, on : Nat]]
      /\ act'[t].at = "made" /\ act'[t].on = i
      /\ \A u \in Threads : u # t => act'[u] = act[u]
  BY <1>1, <1>2, OneGoes DEF Steps
<1>4. /\ stay'[i].mgr = g /\ stay'[i].guest = p /\ stay'[i].ends = 0
      /\ ~stay'[i].in /\ ~stay'[i].disposed /\ ~stay'[i].timer
      /\ \A j \in Stays \ {i} : stay'[j] = stay[j]
      /\ stay' \in [Stays -> Stay \cup {NoStay}]
  <2> DEFINE new == [NoStay EXCEPT !.mgr = g, !.guest = p]
  <2>1. /\ new.mgr = g /\ new.guest = p /\ new.ends = 0
        /\ ~new.in /\ ~new.disposed /\ ~new.timer
    BY DEF NoStay
  <2>2. new \in Stay
    <3>1. NoStay \in [mgr : {0}, guest : {0}, in : BOOLEAN, disposed : BOOLEAN, timer : BOOLEAN, ends : 0 .. 2]
      BY DEF NoStay
    <3>2. QED
      BY <3>1 DEF Stay
  <2>3. stay \in [Stays -> Stay \cup {NoStay}]
    BY DEF TypeOK
  <2> HIDE DEF new
  <2>4. stay'[i] = new /\ (\A j \in Stays \ {i} : stay'[j] = stay[j])
        /\ stay' \in [Stays -> Stay \cup {NoStay}]
    <3>1. stay' = [stay EXCEPT ![i] = new]
      BY <1>1 DEF new
    <3>2. QED
      BY <1>2, <2>2, <2>3, <3>1
  <2>5. QED
    BY <2>1, <2>4
<1>5. /\ Made' = Made \cup {i}
      /\ \A j \in Made : j # i /\ j \in Stays /\ stay'[j] = stay[j]
  BY <1>1, <1>2, <1>4, Typed DEF Made
<1>6. /\ \A q \in Players : q # p => act'[Own(q)] = act[Own(q)]
      /\ \A q \in Leavers : act'[Kicker(q)] = act[Kicker(q)]
      /\ \A k \in Stays : act'[Timer(k)] = act[Timer(k)]
  BY <1>3, Kinds, Names
<1>7. \A u \in Threads : act[u].at \in Work => Whose(u)' = Whose(u)
  <2> SUFFICES ASSUME NEW u \in Threads, act[u].at \in Work
               PROVE  Whose(u)' = Whose(u)
    OBVIOUS
  <2>1. CASE \E k \in Stays : u = Timer(k)
    BY <1>5, <2>1, Abouters DEF Abouts, Work, Shutting
  <2>2. QED
    BY <2>1, Kinds, Abouters
<1>8. TypeOK'
  <2>1. \A j \in Stays : stay'[j] = NoStay <=> j > i
    <3> SUFFICES ASSUME NEW j \in Stays
                 PROVE  stay'[j] = NoStay <=> j > i
      OBVIOUS
    <3>1. CASE j = i
      <4>1. stay'[i].mgr # NoStay.mgr
        BY <1>2, <1>4, Numbers DEF NoStay
      <4>2. QED
        BY <1>2, <3>1, <4>1
    <3>2. CASE j # i
      BY <1>1, <1>2, <1>4, <3>2, Numbers DEF TypeOK
    <3>3. QED
      BY <3>1, <3>2
  <2>2. gate' \in [Managers -> {"0", "1"}] /\ together' \subseteq Managers
    BY <1>1, <1>2 DEF TypeOK
  <2>3. made' \in 0 .. MaxStays /\ of' \in [Players -> 0 .. made']
    BY <1>1, <1>2, Numbers DEF TypeOK
  <2>4. QED
    BY <1>1, <1>3, <1>4, <2>1, <2>2, <2>3 DEF TypeOK, room
<1>9. Roles'
  BY <1>3, <1>6 DEF Roles
<1>10. \A j \in Stays : At(Timer(j), "free") \/ j \in Made
  BY DEF Abouts, At
<1>11. Abouts'
  <2>1. \A u \in Threads : act'[u].at \in Work => act'[u].on \in Made' /\ stay'[act'[u].on].guest = Whose(u)'
    BY <1>3, <1>5, <1>7 DEF Abouts, Work, Shutting
  <2>2. QED
    BY <1>1, <1>3, <1>4, <1>5, <1>6, <2>1 DEF Abouts, Entering, At
<1>12. Courses'
  <2>1. Fresh(i)' /\ stay'[i].mgr <= gen'
    <3>1. act'[Timer(i)].at = "free"
      BY <1>2, <1>6, <1>10 DEF At
    <3>2. QED
      BY <1>1, <1>2, <1>4, <3>1, Numbers DEF Fresh, At
  <2>2. \A j \in Made : Fresh(j)' = Fresh(j)
    BY <1>5, <1>6 DEF Fresh, At
  <2>3. \A q \in Players : At(Own(q), "made")' => Fresh(act[Own(q)].on)'
    <3> SUFFICES ASSUME NEW q \in Players, act'[Own(q)].at = "made"
                 PROVE  Fresh(act[Own(q)].on)'
      BY DEF At
    <3>1. CASE q = p
      BY <1>3, <2>1, <3>1 DEF Fresh, At
    <3>2. CASE q # p
      <4>1. act'[Own(q)] = act[Own(q)] /\ act[Own(q)].on \in Made /\ Fresh(act[Own(q)].on)
        BY <1>6, <3>2 DEF Courses, At, Abouts
      <4>2. QED
        BY <2>2, <4>1 DEF Fresh, At
    <3>3. QED
      BY <3>1, <3>2
  <2>4. QED
    BY <1>1, <1>2, <1>3, <1>4, <1>5, <1>6, <2>1, <2>3, Typed
    DEF Courses, Late, Entering, At, Abouts, Fresh, Work, Shutting
<1>13. OfOK'
  BY <1>1, <1>5, Typed DEF OfOK
<1>14. Counted'
  BY <1>3, <1>5 DEF Counted, Work, Shutting, Abouts
<1>15. AskedOpen'
  <2> SUFFICES ASSUME NEW q \in Players, act'[Own(q)].at = "asked", act'[Own(q)].on \notin together'
               PROVE  gate'[act'[Own(q)].on] = "0"
    BY DEF AskedOpen, At
  <2>1. q # p /\ act'[Own(q)] = act[Own(q)]
    BY <1>3, <1>6
  <2>2. act[Own(q)] = [at |-> "asked", on |-> act[Own(q)].on]
    BY <2>1, Kinds DEF TypeOK
  <2>3. act[Own(q)].on # g
    BY <1>1, <2>1, <2>2
  <2>4. QED
    BY <1>1, <2>1, <2>3 DEF AskedOpen, At, TypeOK
<1>16. /\ \A h : Deceived(h) => Deceived(h)'
       /\ \A j \in Made : Deceived(stay[j].mgr) => Deceived(stay[j].mgr)'
       /\ Calm' => Calm
  BY <1>1, <1>2, <1>5, DeceivedStays
<1>17. \A j \in Made : Holds(j)' => Holds(j)
  BY <1>2, <1>3, <1>5, <1>6 DEF Holds, Shutting, At, Abouts, Work
<1>18. ~Deceived(g)' => \A j \in Made : stay[j].mgr = g => ~Holds(j)
  <2> SUFFICES ASSUME ~Deceived(g)', NEW j \in Made, stay[j].mgr = g
               PROVE  ~Holds(j)
    OBVIOUS
  <2>1. g \notin together' /\ together \subseteq together'
    BY <1>1 DEF Deceived
  <2>2. gate[g] = "0"
    BY <1>1, <1>2, <2>1 DEF AskedOpen, At
  <2>3. QED
    BY <1>16, <2>2 DEF HeldShut
<1>19. OneHolds' /\ HeldShut'
  <2>1. \A j \in Made' : ~Deceived(stay[j].mgr)' /\ Holds(j)' =>
           \/ j = i
           \/ /\ j \in Made /\ ~Deceived(stay[j].mgr) /\ Holds(j)
              /\ stay'[j].mgr = stay[j].mgr /\ stay[j].mgr # g
    <3> SUFFICES ASSUME NEW j \in Made', ~Deceived(stay[j].mgr)', Holds(j)', j # i
                 PROVE  /\ j \in Made /\ ~Deceived(stay[j].mgr) /\ Holds(j)
                        /\ stay'[j].mgr = stay[j].mgr /\ stay[j].mgr # g
      OBVIOUS
    <3>1. j \in Made /\ stay'[j].mgr = stay[j].mgr /\ Holds(j)
      BY <1>5, <1>17
    <3>2. ~Deceived(stay[j].mgr)
      BY <1>16, <3>1
    <3>3. QED
      BY <1>18, <3>1, <3>2
  <2>2. stay'[i].mgr = g
    BY <1>4
  <2>3. OneHolds'
    BY <2>1, <2>2 DEF OneHolds
  <2>4. HeldShut'
    BY <1>1, <1>2, <2>1, <2>2, Typed DEF HeldShut, TypeOK, Stay
  <2>5. QED
    BY <2>3, <2>4
<1>20. ASSUME Calm' PROVE Known'
  <2>1. Calm /\ Known
    BY <1>16, <1>20
  <2>2. of[p] = 0
    BY <1>1, <2>1 DEF Known, NoneYet
  <2>3. GuestHas'
    BY <1>1, <1>4, <1>5, <2>1 DEF GuestHas, Known, Made
  <2>4. EndersTake'
    BY <1>1, <1>3, <1>7, <2>1 DEF EndersTake, Known, Work, Shutting
  <2>5. NoneYet'
    BY <1>1, <1>6, <2>1, <2>2 DEF NoneYet, Known
  <2>6. Astray'
    <3>1. ASSUME NEW q \in online, act'[Own(q)].at \in {"free", "entered"}, of'[q] # 0
          PROVE  Inside(q)' \/ stay'[of'[q]].mgr = 2
      <4>1. q # p /\ q \in Players
        BY <1>1, <1>3, <3>1 DEF TypeOK
      <4>2. stay'[of'[q]] = stay[of[q]]
        BY <1>1, <1>5, <3>1, <4>1, Typed
      <4>3. QED
        BY <1>1, <1>6, <2>1, <3>1, <4>1, <4>2 DEF Known, Astray, Inside, room
    <3>2. QED
      BY <1>1, <3>1 DEF Astray
  <2>7. LastOnes'
    <3>1. \A q \in Players, k \in Nat : Latest(q, k)' <=> Latest(q, k) /\ (q = p => i <= k)
      BY <1>4, <1>5 DEF Latest
    <3>2. \A j \in Made : j <= i /\ (stay[j].guest = p => stay[j].mgr <= g)
      BY <1>1, <1>2, <2>1 DEF Known, LastOnes, Made, At
    <3>3. Latest(p, i)'
      <4>1. Latest(p, i)
        BY <3>2 DEF Latest
      <4>2. QED
        BY <1>2, <3>1, <4>1 DEF Latest
    <3>4. \A q \in Players : of'[q] # 0 => Latest(q, of[q])'
      BY <1>1, <2>1, <2>2, <3>1, Typed DEF Known, LastOnes
    <3>5. \A q \in Players : act'[Own(q)].at \in {"made"} \cup Entering => Latest(q, act[Own(q)].on)'
      <4> SUFFICES ASSUME NEW q \in Players, act'[Own(q)].at \in {"made"} \cup Entering
                   PROVE  Latest(q, act[Own(q)].on)'
        OBVIOUS
      <4>1. CASE q = p
        BY <1>3, <3>3, <4>1 DEF Latest
      <4>2. CASE q # p
        <5>1. act'[Own(q)] = act[Own(q)] /\ act[Own(q)].on \in Nat /\ Latest(q, act[Own(q)].on)
          BY <1>6, <2>1, <4>2, Typed, Kinds DEF Known, LastOnes, At
        <5>2. QED
          BY <3>1, <4>2, <5>1 DEF Latest
      <4>3. QED
        BY <4>1, <4>2
    <3>6. \A j, k \in Made' : stay'[j].guest = stay'[k].guest /\ j <= k => stay'[j].mgr <= stay'[k].mgr
      <4> SUFFICES ASSUME NEW j \in Made', NEW k \in Made', stay'[j].guest = stay'[k].guest, j <= k
                   PROVE  stay'[j].mgr <= stay'[k].mgr
        OBVIOUS
      <4>1. CASE j \in Made /\ k \in Made
        BY <1>5, <2>1, <4>1 DEF Known, LastOnes
      <4>2. CASE k = i /\ j \in Made
        BY <1>4, <1>5, <3>2, <4>2
      <4>3. CASE j = i
        <5>1. k = i
          BY <1>2, <1>5, <3>2, <4>3 DEF Made
        <5>2. QED
          BY <1>2, <1>4, <4>3, <5>1, Numbers
      <4>4. QED
        BY <1>5, <4>1, <4>2, <4>3
    <3>7. \A q \in Players : At(Own(q), "asked")' =>
             \A j \in Made' : stay'[j].guest = q => stay'[j].mgr <= act'[Own(q)].on
      BY <1>3, <1>4, <1>5, <1>6, <2>1 DEF Known, LastOnes, At
    <3>8. QED
      BY <1>1, <3>4, <3>5, <3>6, <3>7 DEF LastOnes, Latest
  <2>8. QED
    BY <2>3, <2>4, <2>5, <2>6, <2>7 DEF Known
<1>21. QED
  BY <1>8, <1>9, <1>11, <1>12, <1>13, <1>14, <1>15, <1>19, <1>20

\* Only a player who is there is registered; he gets his stay, and the stay its guest.
LEMMA RegisterIInv ==
  ASSUME IInv, NEW p \in Players, p \in online, Register(p)
  PROVE  IInv'
<1> DEFINE t == Own(p)
<1> USE DEF IInv, Base
<1>1. PICK i \in Made : i = act[t].on
  BY DEF Register, Abouts, At
<1>2. /\ act[t].at = "made" /\ t \in Threads /\ i \in Nat /\ i # 0 /\ i \in Stays
      /\ stay[i].guest = p /\ Fresh(i) /\ stay[i] \in Stay
      /\ UNCHANGED <<script, gen, gate, made, loc, online, together>>
  BY <1>1, Kinds, Typed DEF Register, Abouts, Courses, At, Made
<1>4. /\ stay' = [stay EXCEPT ![i].in = TRUE] /\ of' = [of EXCEPT ![p] = i]
      /\ Goes(t, "registered", i) /\ UNCHANGED cut
  BY <1>1 DEF Register
<1>5. /\ act' \in [Threads -> [at : Steps, on : Nat]]
      /\ act'[t].at = "registered" /\ act'[t].on = i
      /\ \A u \in Threads : u # t => act'[u] = act[u]
  BY <1>2, <1>4, OneGoes DEF Steps
<1>6. /\ stay' \in [Stays -> Stay \cup {NoStay}] /\ stay'[i] \in Stay
      /\ stay'[i].in /\ stay'[i].guest = p /\ stay'[i].mgr = stay[i].mgr
      /\ ~stay'[i].disposed /\ ~stay'[i].timer /\ stay'[i].ends = 0
      /\ \A j \in Stays : j # i => stay'[j] = stay[j]
  <2> DEFINE s == [stay[i] EXCEPT !.in = TRUE]
  <2>1. /\ s \in Stay /\ s.in /\ s.guest = p /\ s.mgr = stay[i].mgr
        /\ ~s.disposed /\ ~s.timer /\ s.ends = 0
    BY <1>2 DEF Stay, Fresh
  <2>2. stay' = [stay EXCEPT ![i] = s]
    BY <1>4
  <2> HIDE DEF s
  <2>3. QED
    BY <2>1, <2>2, OneChanges
<1>7. /\ Made' = Made /\ \A u \in Threads : Whose(u)' = Whose(u)
      /\ \A j \in Stays : stay'[j] = NoStay <=> j > made'
      /\ \A q, k : Latest(q, k)' = Latest(q, k)
  BY <1>2, <1>6, SameStays, Typed
<1>8. /\ \A q \in Players : q # p => act'[Own(q)] = act[Own(q)]
      /\ \A q \in Leavers : act'[Kicker(q)] = act[Kicker(q)]
      /\ \A k \in Stays : act'[Timer(k)] = act[Timer(k)]
  BY <1>5, Kinds, Names
<1>9. of'[p] = i /\ \A q \in Players : q # p => of'[q] = of[q]
  BY <1>4 DEF TypeOK
<1>10. TypeOK'
  <2>1. of' \in [Players -> 0 .. made']
    BY <1>2, <1>4 DEF TypeOK, Made
  <2>2. QED
    BY <1>2, <1>4, <1>5, <1>6, <1>7, <2>1 DEF TypeOK, room
<1>11. Roles'
  BY <1>5, <1>8 DEF Roles, Entering
<1>12. Abouts'
  <2>1. \A u \in Threads : act'[u].at \in Work =>
           act'[u].on \in Made' /\ stay'[act'[u].on].guest = Whose(u)'
    <3> SUFFICES ASSUME NEW u \in Threads, act'[u].at \in Work
                 PROVE  act'[u].on \in Made' /\ stay'[act'[u].on].guest = Whose(u)'
      OBVIOUS
    <3>1. u # t /\ act'[u] = act[u]
      BY <1>5 DEF Work, Shutting
    <3>2. act[u].on \in Made /\ stay[act[u].on].guest = Whose(u)
      BY <3>1 DEF Abouts
    <3>3. QED
      BY <1>2, <1>6, <1>7, <3>1, <3>2, Typed
  <2>2. \A q \in Players : act'[Own(q)].at \in {"made"} \cup Entering =>
           act'[Own(q)].on \in Made' /\ stay'[act'[Own(q)].on].guest = q
    <3> SUFFICES ASSUME NEW q \in Players, act'[Own(q)].at \in {"made"} \cup Entering
                 PROVE  act'[Own(q)].on \in Made' /\ stay'[act'[Own(q)].on].guest = q
      OBVIOUS
    <3>1. CASE q = p
      BY <1>5, <1>6, <1>7, <3>1
    <3>2. CASE q # p
      <4>1. act'[Own(q)] = act[Own(q)] /\ act[Own(q)].on \in Made /\ stay[act[Own(q)].on].guest = q
        BY <1>8, <3>2 DEF Abouts
      <4>2. QED
        BY <1>2, <1>6, <1>7, <4>1, Typed
    <3>3. QED
      BY <3>1, <3>2
  <2>3. \A k \in Stays : /\ act'[Timer(k)].at # "free" => k \in Made'
                         /\ act'[Timer(k)].at \in {"due", "empty"} => act'[Timer(k)].on = k
    BY <1>7, <1>8 DEF Abouts
  <2>4. \A q \in Players : At(Own(q), "asked")' => act'[Own(q)].on \in 1 .. gen'
    BY <1>2, <1>5, <1>8 DEF Abouts, At
  <2>5. QED
    BY <2>1, <2>2, <2>3, <2>4 DEF Abouts
<1>13. \A j \in Made : Fresh(j) /\ j # i => Fresh(j)'
  BY <1>2, <1>6, <1>8, Typed DEF Fresh, At
<1>14. Courses'
  <2>1. \A q \in Players : At(Own(q), "made")' => Fresh(act[Own(q)].on)'
    <3> SUFFICES ASSUME NEW q \in Players, act'[Own(q)].at = "made"
                 PROVE  Fresh(act[Own(q)].on)'
      BY DEF At
    <3>1. q # p /\ act'[Own(q)] = act[Own(q)]
      BY <1>5, <1>8
    <3>2. act[Own(q)].on \in Made /\ act[Own(q)].on # i /\ Fresh(act[Own(q)].on)
      BY <1>2, <3>1 DEF Courses, Abouts, At
    <3>3. QED
      BY <1>6, <1>8, <3>1, <3>2, Typed DEF Fresh, At
  <2>2. QED
    <3>1. \A q \in Players : act'[Own(q)].at \in Entering =>
             stay'[act'[Own(q)].on].in \/ stay'[act'[Own(q)].on].ends > 0
      <4> SUFFICES ASSUME NEW q \in Players, act'[Own(q)].at \in Entering
                   PROVE  stay'[act'[Own(q)].on].in \/ stay'[act'[Own(q)].on].ends > 0
        OBVIOUS
      <4>1. CASE q = p
        BY <1>5, <1>6, <4>1
      <4>2. CASE q # p
        <5>1. /\ act'[Own(q)] = act[Own(q)] /\ act[Own(q)].on \in Made
              /\ stay[act[Own(q)].on].in \/ stay[act[Own(q)].on].ends > 0
          BY <1>8, <4>2 DEF Courses, Abouts
        <5>2. act[Own(q)].on \in Stays
          BY <5>1, Typed
        <5>3. QED
          BY <1>6, <5>1, <5>2
      <4>3. QED
        BY <4>1, <4>2
    <3>2. \A j \in Made' : /\ stay'[j].mgr <= gen'
                           /\ stay'[j].disposed => ~stay'[j].in
                           /\ stay'[j].timer \/ act'[Timer(j)].at # "free" => stay'[j].in \/ stay'[j].ends > 0
      BY <1>2, <1>6, <1>7, <1>8, Typed DEF Courses, At
    <3>3. \A u \in Threads : act'[u].at \in Late => stay'[act'[u].on].disposed
      BY <1>2, <1>5, <1>6, Typed DEF Courses, Late, Abouts, Fresh, Work, Shutting
    <3>4. \A j \in Stays : act'[Timer(j)].at = "empty" => ~stay'[j].in /\ stay'[j].ends = 2
      BY <1>2, <1>6, <1>8 DEF Courses, Fresh, At
    <3>5. QED
      BY <2>1, <3>1, <3>2, <3>3, <3>4 DEF Courses, At
<1>15. OfOK'
  BY <1>2, <1>6, <1>9, Typed DEF OfOK
<1>16. Counted'
  BY <1>2, <1>5, <1>6, Typed DEF Counted, Work, Shutting, Abouts, Fresh
<1>17. AskedOpen'
  BY <1>2, <1>5, <1>8 DEF AskedOpen, At
<1>18. \A j \in Made : Holds(j)' => Holds(j)
  BY <1>1, <1>2, <1>5, <1>6, <1>8, Typed DEF Holds, Shutting, At, Fresh
<1>19. /\ \A j \in Made : Deceived(stay[j].mgr) => Deceived(stay[j].mgr)'
       /\ Calm' => Calm
  <2>1. \A j \in Made : stay'[j].mgr = stay[j].mgr /\ (stay[j].ends = 2 => stay'[j].ends = 2)
    BY <1>2, <1>6, Typed DEF Fresh
  <2>2. gen <= gen' /\ gen' \in Nat /\ made' \in Nat /\ made <= made'
    BY <1>2, Numbers DEF TypeOK
  <2>3. QED
    BY <1>2, <2>1, <2>2, DeceivedStays
<1>20. OneHolds' /\ HeldShut'
  BY <1>2, <1>6, <1>7, <1>18, <1>19, Typed DEF OneHolds, HeldShut
<1>21. ASSUME Calm' PROVE Known'
  <2>1. Calm /\ Known
    BY <1>19, <1>21
  <2>2. of[p] = 0
    BY <1>2, <2>1 DEF Known, NoneYet
  <2>3. GuestHas'
    <3> SUFFICES ASSUME NEW j \in Made, stay'[j].in
                 PROVE  of'[stay'[j].guest] = j
      BY <1>7 DEF GuestHas
    <3>1. CASE j = i
      BY <1>6, <1>9, <3>1
    <3>2. CASE j # i
      <4>1. stay'[j] = stay[j] /\ stay[j].guest \in Players /\ j # 0 /\ of[stay[j].guest] = j
        BY <1>6, <2>1, <3>2, Typed DEF GuestHas, Known, Made, Stay
      <4>2. QED
        BY <1>9, <2>2, <4>1
    <3>3. QED
      BY <3>1, <3>2
  <2>4. EndersTake'
    <3> SUFFICES ASSUME NEW u \in Threads, act'[u].at \in {"exit1", "moved1"}
                 PROVE  of'[Whose(u)'] = act'[u].on
      BY DEF EndersTake
    <3>1. act'[u] = act[u] /\ Whose(u)' = Whose(u)
      BY <1>5, <1>7
    <3>2. /\ act[u].on \in Made /\ stay[act[u].on].guest = Whose(u) /\ of[Whose(u)] = act[u].on
          /\ act[u].on # 0
      BY <2>1, <3>1 DEF EndersTake, Known, Abouts, Work, Shutting, Made
    <3>3. Whose(u) \in Players /\ Whose(u) # p
      BY <2>2, <3>2, Typed DEF Stay
    <3>4. QED
      BY <1>9, <3>1, <3>2, <3>3
  <2>5. NoneYet'
    BY <1>5, <1>8, <1>9, <2>1 DEF NoneYet, Known, Late
  <2>6. Astray'
    <3>1. ASSUME NEW q \in online, act'[Own(q)].at \in {"free", "entered"}, of'[q] # 0
          PROVE  Inside(q)' \/ stay'[of'[q]].mgr = 2
      <4>1. q # p /\ q \in Players
        BY <1>5, <3>1 DEF TypeOK
      <4>2. of'[q] = of[q] /\ stay'[of[q]].mgr = stay[of[q]].mgr
        BY <1>6, <1>9, <3>1, <4>1, Typed
      <4>3. QED
        BY <1>2, <1>8, <2>1, <3>1, <4>1, <4>2 DEF Known, Astray, Inside, room
    <3>2. QED
      BY <1>2, <3>1 DEF Astray
  <2>7. LastOnes'
    <3>1. Latest(p, i)
      BY <1>1, <1>2, <2>1 DEF Known, LastOnes
    <3>2. \A q \in Players : of'[q] # 0 => Latest(q, of'[q])
      BY <1>9, <2>1, <3>1 DEF Known, LastOnes
    <3>3. ASSUME NEW q \in Players, act'[Own(q)].at \in {"made"} \cup Entering
          PROVE  Latest(q, act'[Own(q)].on)
      <4>1. CASE q = p
        BY <1>5, <3>1, <4>1
      <4>2. CASE q # p
        BY <1>8, <2>1, <3>3, <4>2 DEF Known, LastOnes
      <4>3. QED
        BY <4>1, <4>2
    <3>4. \A q \in Players : of'[q] # 0 => Latest(q, of[q])'
      BY <1>7, <3>2
    <3>5. \A q \in Players : act'[Own(q)].at \in {"made"} \cup Entering => Latest(q, act[Own(q)].on)'
      BY <1>7, <3>3
    <3>6. QED
      BY <1>2, <1>5, <1>6, <1>7, <1>8, <2>1, <3>4, <3>5, Typed DEF Known, LastOnes, At
  <2>8. QED
    BY <2>3, <2>4, <2>5, <2>6, <2>7 DEF Known
<1>22. QED
  BY <1>10, <1>11, <1>12, <1>14, <1>15, <1>16, <1>17, <1>20, <1>21

-----------------------------------------------------------------------------
(***************************************************************************)
(* What the steps after that have in common: no guest comes in, no stay    *)
(* is made, gates are only opened                                          *)
(***************************************************************************)

\* Stays only come to their end, and a fresh one is not touched.
StaysLater == \A i \in Made :
    /\ stay'[i].guest = stay[i].guest /\ stay'[i].mgr = stay[i].mgr
    /\ stay'[i] = stay[i] \/ stay[i].in \/ stay[i].ends > 0
    /\ stay'[i].in => stay[i].in /\ ~stay'[i].disposed
    /\ stay[i].disposed => stay'[i].disposed
    /\ stay[i].ends <= stay'[i].ends
    /\ stay[i].in /\ ~stay'[i].in => stay'[i].ends > 0

\* Thread t goes on, by itself: it is done, or goes on with its stay, or sets about ending
\* another, of a guest who is in.
ThreadLater(t) ==
    /\ \A u \in Threads \ {t} : act'[u] = act[u]
    /\ t[1] = "own" => act'[t].at \in {"free", "entered"} \cup Work
    /\ t[1] = "kick" => act'[t].at \in {"free", "gone"} \cup Work
    /\ t[1] = "timer" => act'[t].at \in {"free", "due", "empty"} \cup Work
    /\ act'[t].at = "entered" => act[t].at = "registered" /\ act'[t].on = act[t].on
    /\ act'[t].at \in {"due", "empty"} => t[2] \in Made /\ act'[t].on = t[2]
    /\ t[1] = "timer" /\ act'[t].at # "free" =>
          t[2] \in Made /\ (act[t].at # "free" \/ stay[t[2]].timer)
    /\ act'[t].at = "empty" => ~stay'[t[2]].in /\ stay'[t[2]].ends = 2
    /\ act'[t].at \in Work =>
          \/ /\ act[t].at \in Work /\ act'[t].on = act[t].on
             /\ act'[t].at \in Late /\ stay'[act'[t].on].disposed
             /\ act'[t].at \in Shutting => act[t].at \in Shutting
             /\ act[t].at \in Late \/ of'[Whose(t)] = 0
          \/ /\ act'[t].at \in {"exit1", "moved1"}
             /\ act'[t].on \in Made /\ stay[act'[t].on].guest = Whose(t)
             /\ stay'[act'[t].on].in
             /\ stay'[act'[t].on].ends > stay[act'[t].on].ends \/ stay'[act'[t].on].ends = 2

\* A player's eventInstance is taken from him by the thread that ends the stay.
OfLater(t) == \A p \in Players :
    \/ of'[p] = of[p] /\ (of[p] # 0 => stay'[of[p]].in)
    \/ of'[p] = 0 /\ (of[p] # 0 /\ Calm /\ Known =>
                        ~stay'[of[p]].in /\ act[t].at \in Work /\ act[t].on = of[p])

\* A gate is opened when nobody holds it, or when it has been deceived.
GateLater == \A g \in Managers :
    \/ gate'[g] = gate[g]
    \/ /\ gate'[g] = "0"
       /\ Deceived(g)' \/ \A i \in Made : stay[i].mgr = g => ~Holds(i)'

\* A stay's timer is set for one whose guest has been let in.
TimersLater == \A i \in Made : stay'[i].timer => stay[i].timer \/ stay'[i].in \/ stay'[i].ends > 0

Later(t) ==
    /\ UNCHANGED <<script, gen, made, together>> /\ online' \subseteq online
    /\ TypeOK'
    /\ StaysLater /\ TimersLater /\ ThreadLater(t) /\ OfLater(t) /\ GateLater
    /\ Calm /\ Known => Astray'

\* Such a step keeps the invariant.
LEMMA LaterIInv ==
  ASSUME IInv, NEW t \in Threads, Later(t)
  PROVE  IInv'
<1> USE DEF IInv, Base
<1>1. /\ UNCHANGED <<script, gen, made, together>> /\ online' \subseteq online
      /\ TypeOK' /\ Made' = Made /\ Made \subseteq Stays
      /\ StaysLater /\ TimersLater /\ ThreadLater(t) /\ OfLater(t) /\ GateLater
      /\ Calm /\ Known => Astray'
  BY Typed DEF Later, Made
<1>2. /\ \A i \in Made : stay[i] \in Stay /\ stay'[i] \in Stay
      /\ \A i \in Made : stay[i].ends \in 0 .. 2 /\ stay'[i].ends \in 0 .. 2
  <2>1. \A i \in Stays : stay'[i] \in Stay \cup {NoStay} /\ (stay'[i] = NoStay <=> i > made')
    BY <1>1 DEF TypeOK
  <2>2. \A i \in Made : ~(i > made')
    BY <1>1 DEF Made, TypeOK
  <2>3. \A i \in Made : stay[i] \in Stay /\ stay'[i] \in Stay
    BY <1>1, <2>1, <2>2, Typed
  <2>4. QED
    BY <2>3 DEF Stay
<1>3. /\ \A u \in Threads : Whose(u)' = Whose(u)
      /\ \A p, k : Latest(p, k)' = Latest(p, k)
  <2>1. \A j \in Stays \ Made : stay'[j] = stay[j]
    <3>1. \A j \in Stays \ Made : stay'[j] = NoStay
      BY <1>1, Numbers DEF TypeOK, Made
    <3>2. QED
      BY <3>1, Typed
  <2>2. QED
    BY <1>1, <1>2, <2>1, SameStays DEF StaysLater, TypeOK
<1>4. \A u \in Threads : u # t => act'[u] = act[u]
  BY <1>1 DEF ThreadLater
<1>5. /\ \A p \in Players : Own(p) # t => act'[Own(p)] = act[Own(p)]
      /\ \A p \in Leavers : Kicker(p) # t => act'[Kicker(p)] = act[Kicker(p)]
      /\ \A k \in Stays : Timer(k) # t => act'[Timer(k)] = act[Timer(k)]
  BY <1>4, Kinds
<1>6. Roles'
  <2>1. ASSUME NEW p \in Players
        PROVE  act'[Own(p)].at \in {"free", "asked", "made"} \cup Entering \cup Work
    <3>1. CASE Own(p) = t
      BY <1>1, <3>1, Kinds DEF ThreadLater, Entering
    <3>2. CASE Own(p) # t
      BY <1>5, <3>2 DEF Roles
    <3>3. QED
      BY <3>1, <3>2
  <2>2. ASSUME NEW p \in Leavers
        PROVE  act'[Kicker(p)].at \in {"free", "gone"} \cup Work
    BY <1>1, <1>5, Kinds DEF ThreadLater, Roles
  <2>3. ASSUME NEW k \in Stays
        PROVE  act'[Timer(k)].at \in {"free", "due", "empty"} \cup Work
    BY <1>1, <1>5, Kinds DEF ThreadLater, Roles
  <2>4. QED
    BY <2>1, <2>2, <2>3 DEF Roles
<1>7. \A p \in Players : act'[Own(p)].at \in {"asked", "made", "registered"} =>
         Own(p) # t /\ act'[Own(p)] = act[Own(p)]
  BY <1>1, <1>5, Kinds DEF ThreadLater, Work, Shutting
<1>8. Abouts'
  <2>1. ASSUME NEW u \in Threads, act'[u].at \in Work
        PROVE  act'[u].on \in Made' /\ stay'[act'[u].on].guest = Whose(u)'
    <3>1. act'[u].on \in Made /\ stay[act'[u].on].guest = Whose(u)
      BY <1>1, <1>4, <2>1 DEF ThreadLater, Abouts
    <3>2. QED
      BY <1>1, <1>3, <3>1 DEF StaysLater
  <2>2. ASSUME NEW q \in Players, act'[Own(q)].at \in {"made"} \cup Entering
        PROVE  act'[Own(q)].on \in Made' /\ stay'[act'[Own(q)].on].guest = q
    <3>1. act[Own(q)].at \in {"made"} \cup Entering /\ act'[Own(q)].on = act[Own(q)].on
      BY <1>1, <1>5, <1>7, <2>2 DEF ThreadLater, Entering
    <3>2. QED
      BY <1>1, <3>1 DEF Abouts, StaysLater
  <2>3. \A q \in Players : act'[Own(q)].at = "asked" => act'[Own(q)].on \in 1 .. gen'
    BY <1>1, <1>7 DEF Abouts, At
  <2>4. ASSUME NEW k \in Stays
        PROVE  /\ act'[Timer(k)].at # "free" => k \in Made'
               /\ act'[Timer(k)].at \in {"due", "empty"} => act'[Timer(k)].on = k
    BY <1>1, <1>5, Kinds DEF Abouts, ThreadLater
  <2>5. QED
    BY <2>1, <2>2, <2>3, <2>4 DEF Abouts, At
<1>9. ASSUME NEW k \in Stays, act'[Timer(k)].at # "free"
      PROVE  k \in Made /\ (act[Timer(k)].at # "free" \/ stay[k].timer)
  BY <1>1, <1>5, <1>9, Kinds DEF ThreadLater, Abouts
<1>10. Courses'
  <2>1. \A i \in Made : stay[i].in \/ stay[i].ends > 0 => stay'[i].in \/ stay'[i].ends > 0
    BY <1>1, <1>2 DEF StaysLater
  <2>2. ASSUME NEW q \in Players, act'[Own(q)].at = "made"
        PROVE  Fresh(act[Own(q)].on)'
    <3>1. PICK i \in Made : i = act[Own(q)].on /\ i = act'[Own(q)].on /\ Fresh(i)
      BY <1>7, <2>2 DEF Courses, Abouts, At
    <3>2. stay'[i] = stay[i]
      BY <1>1, <1>2, <3>1 DEF StaysLater, Fresh
    <3>3. act'[Timer(i)].at = "free"
      BY <1>1, <1>9, <3>1 DEF Fresh, At
    <3>4. QED
      BY <3>1, <3>2, <3>3 DEF Fresh, At
  <2>3. ASSUME NEW q \in Players, act'[Own(q)].at \in Entering
        PROVE  stay'[act'[Own(q)].on].in \/ stay'[act'[Own(q)].on].ends > 0
    <3>1. act[Own(q)].at \in Entering /\ act'[Own(q)].on = act[Own(q)].on
      BY <1>1, <1>5, <1>7, <2>3 DEF ThreadLater, Entering
    <3>2. QED
      BY <2>1, <3>1 DEF Courses, Abouts
  <2>4. ASSUME NEW i \in Made
        PROVE  /\ stay'[i].mgr <= gen'
               /\ stay'[i].disposed => ~stay'[i].in
               /\ stay'[i].timer \/ act'[Timer(i)].at # "free" => stay'[i].in \/ stay'[i].ends > 0
    <3>1. stay'[i].mgr <= gen' /\ (stay'[i].disposed => ~stay'[i].in)
      BY <1>1 DEF StaysLater, Courses
    <3>2. stay[i].timer \/ act[Timer(i)].at # "free" => stay'[i].in \/ stay'[i].ends > 0
      BY <2>1 DEF Courses, At
    <3>3. QED
      BY <1>1, <1>9, <3>1, <3>2 DEF TimersLater
  <2>5. ASSUME NEW u \in Threads, act'[u].at \in Late
        PROVE  stay'[act'[u].on].disposed
    <3>1. CASE u = t
      BY <1>1, <2>5, <3>1 DEF ThreadLater, Late, Work, Shutting
    <3>2. CASE u # t
      <4>1. act[u].on \in Made /\ stay[act[u].on].disposed
        BY <1>4, <2>5, <3>2 DEF Courses, Abouts, Late, Work, Shutting
      <4>2. QED
        BY <1>1, <1>4, <3>2, <4>1 DEF StaysLater
    <3>3. QED
      BY <3>1, <3>2
  <2>6. ASSUME NEW k \in Stays, act'[Timer(k)].at = "empty"
        PROVE  ~stay'[k].in /\ stay'[k].ends = 2
    <3>1. CASE Timer(k) = t
      BY <1>1, <2>6, <3>1, Kinds DEF ThreadLater
    <3>2. CASE Timer(k) # t
      <4>1. k \in Made /\ ~stay[k].in /\ stay[k].ends = 2
        BY <1>5, <2>6, <3>2 DEF Courses, Abouts, At
      <4>2. QED
        BY <1>1, <1>2, <4>1 DEF StaysLater
    <3>3. QED
      BY <3>1, <3>2
  <2>7. QED
    BY <1>1, <2>2, <2>3, <2>4, <2>5, <2>6, <1>7 DEF Courses, At
<1>11. OfOK'
  BY <1>1, Typed DEF OfOK, OfLater, StaysLater
<1>12. Counted'
  <2>1. \A u \in Threads : act[u].at \in Work => act[u].on \in Made
    BY DEF Abouts
  <2>2. \A i \in Made : stay[i].ends > 0 => stay'[i].ends > 0
    BY <1>1, <1>2 DEF StaysLater
  <2>3. ASSUME NEW i \in Made, stay'[i].ends = 1, stay[i].ends > 0
        PROVE  stay[i].ends = 1
    BY <1>1, <1>2, <2>3 DEF StaysLater
  <2>4. ASSUME NEW u \in Threads, act'[u].at \in Work
        PROVE  stay'[act'[u].on].ends > 0
    <3>1. CASE act[u].at \in Work /\ act'[u].on = act[u].on
      BY <2>1, <2>2, <3>1 DEF Counted
    <3>2. CASE ~(act[u].at \in Work /\ act'[u].on = act[u].on)
      <4>1. /\ u = t /\ act'[t].on \in Made
            /\ stay'[act'[t].on].ends > stay[act'[t].on].ends \/ stay'[act'[t].on].ends = 2
        BY <1>1, <1>4, <2>4, <3>2 DEF ThreadLater
      <4>2. QED
        BY <1>2, <4>1
    <3>3. QED
      BY <3>1, <3>2
  <2>5. ASSUME NEW u \in Threads, act'[u].at \in Work, u # t, act'[t].at \in Work,
               act'[u].on = act'[t].on, stay'[act'[u].on].ends = 1
        PROVE  FALSE
    <3>1. PICK i \in Made : i = act'[u].on
      BY <1>1, <2>5 DEF Abouts, ThreadLater
    <3>2. act[u].at \in Work /\ act[u].on = i /\ stay[i].ends > 0
      BY <1>4, <2>5, <3>1 DEF Counted
    <3>3. stay[i].ends = 1
      BY <2>3, <2>5, <3>1, <3>2
    <3>4. act[t].at \in Work /\ act[t].on = i
      <4>1. ~(stay'[i].ends > stay[i].ends \/ stay'[i].ends = 2)
        BY <2>5, <3>1, <3>3
      <4>2. QED
        BY <1>1, <2>5, <3>1, <4>1 DEF ThreadLater
    <3>5. QED
      BY <2>5, <3>2, <3>3, <3>4 DEF Counted
  <2>6. ASSUME NEW u \in Threads, act'[u].at \in Work, stay'[act'[u].on].ends = 1,
               NEW v \in Threads, act'[v].at \in Work, act'[v].on = act'[u].on
        PROVE  v = u
    <3>1. CASE u = t \/ v = t
      BY <2>5, <2>6, <3>1
    <3>2. CASE u # t /\ v # t
      <4>1. /\ act[u].at \in Work /\ act[v].at \in Work /\ act[v].on = act[u].on
            /\ act[u].on \in Made /\ stay'[act[u].on].ends = 1
        BY <1>4, <2>1, <2>6, <3>2
      <4>2. stay[act[u].on].ends = 1
        BY <2>3, <4>1 DEF Counted
      <4>3. QED
        BY <4>1, <4>2 DEF Counted
    <3>3. QED
      BY <3>1, <3>2
  <2>7. QED
    BY <2>4, <2>6 DEF Counted
<1>13. AskedOpen'
  <2> SUFFICES ASSUME NEW q \in Players, act'[Own(q)].at = "asked", act'[Own(q)].on \notin together'
               PROVE  gate'[act'[Own(q)].on] = "0"
    BY DEF AskedOpen, At
  <2>1. act'[Own(q)] = act[Own(q)] /\ act[Own(q)].on \in 1 .. gen /\ gate[act[Own(q)].on] = "0"
    BY <1>1, <1>7 DEF AskedOpen, At, Abouts
  <2>2. act[Own(q)].on \in Managers
    BY <2>1, Numbers DEF TypeOK
  <2>3. QED
    BY <1>1, <2>1, <2>2 DEF GateLater
<1>14. \A j \in Made : Holds(j)' => Holds(j)
  <2> SUFFICES ASSUME NEW j \in Made, Holds(j)'
               PROVE  Holds(j)
    OBVIOUS
  <2>1. CASE stay'[j].in
    BY <1>1, <2>1 DEF Holds, StaysLater
  <2>2. CASE \E q \in Players : act'[Own(q)].at = "made" /\ act'[Own(q)].on = j
    BY <1>7, <2>2 DEF Holds, At
  <2>3. CASE \E u \in Threads : act'[u].at \in Shutting /\ act'[u].on = j
    <3>1. PICK u \in Threads : act'[u].at \in Shutting /\ act'[u].on = j
      BY <2>3
    <3>2. (act[u].at \in Shutting /\ act[u].on = j) \/ stay'[j].in
      BY <1>1, <1>4, <3>1 DEF ThreadLater, Work
    <3>3. QED
      BY <1>1, <3>2 DEF Holds, StaysLater
  <2>4. QED
    BY <2>1, <2>2, <2>3 DEF Holds, At
<1>15. /\ \A j \in Made : Deceived(stay[j].mgr) => Deceived(stay[j].mgr)'
       /\ Calm' => Calm
  <2>1. \A j \in Made : stay'[j].mgr = stay[j].mgr /\ (stay[j].ends = 2 => stay'[j].ends = 2)
    BY <1>1, <1>2 DEF StaysLater
  <2>2. gen <= gen' /\ gen' \in Nat /\ made' \in Nat /\ made <= made'
    BY <1>1, Numbers DEF TypeOK
  <2>3. QED
    BY <1>1, <2>1, <2>2, DeceivedStays
<1>16. OneHolds' /\ HeldShut'
  <2>1. \A j \in Made : ~Deceived(stay[j].mgr)' /\ Holds(j)' =>
           ~Deceived(stay[j].mgr) /\ Holds(j) /\ stay'[j].mgr = stay[j].mgr
    <3> SUFFICES ASSUME NEW j \in Made, ~Deceived(stay[j].mgr)', Holds(j)'
                 PROVE  ~Deceived(stay[j].mgr) /\ Holds(j) /\ stay'[j].mgr = stay[j].mgr
      OBVIOUS
    <3>1. stay'[j].mgr = stay[j].mgr /\ Holds(j)
      BY <1>1, <1>14 DEF StaysLater
    <3>2. ~Deceived(stay[j].mgr)
      BY <1>15, <3>1
    <3>3. QED
      BY <3>1, <3>2
  <2>2. OneHolds'
    BY <1>1, <2>1 DEF OneHolds
  <2>3. HeldShut'
    <3> SUFFICES ASSUME NEW j \in Made, ~Deceived(stay[j].mgr)', Holds(j)'
                 PROVE  gate'[stay'[j].mgr] = "1"
      BY <1>1 DEF HeldShut
    <3>1. gate[stay[j].mgr] = "1" /\ stay'[j].mgr = stay[j].mgr /\ stay[j].mgr \in Managers
      BY <1>2, <2>1 DEF HeldShut, Stay
    <3>2. QED
      BY <1>1, <3>1 DEF GateLater
  <2>4. QED
    BY <2>2, <2>3
<1>17. ASSUME Calm' PROVE Known'
  <2>1. Calm /\ Known
    BY <1>15, <1>17
  <2>2. ASSUME NEW p \in Players
        PROVE  /\ of'[p] # 0 => of'[p] = of[p]
               /\ of'[p] # of[p] => of'[p] = 0 /\ ~stay'[of[p]].in /\ act[t].at \in Work /\ act[t].on = of[p]
    BY <1>1, <2>1 DEF OfLater
  <2>3. ASSUME NEW i \in Made
        PROVE  stay[i].ends # 2
    <3>1. stay[i].mgr \in Managers
      BY <1>2 DEF Stay
    <3>2. QED
      BY <2>1, <3>1 DEF Calm, Deceived, Made
  <2>4. GuestHas'
    <3> SUFFICES ASSUME NEW j \in Made, stay'[j].in
                 PROVE  of'[stay'[j].guest] = j
      BY <1>1 DEF GuestHas
    <3>1. stay[j].in /\ stay'[j].guest = stay[j].guest /\ stay[j].guest \in Players
      BY <1>1, <1>2 DEF StaysLater, Stay
    <3>2. of[stay[j].guest] = j
      BY <2>1, <3>1 DEF Known, GuestHas
    <3>3. QED
      BY <2>2, <3>1, <3>2
  <2>5. ASSUME NEW u \in Threads, act'[u].at \in {"exit1", "moved1"}
        PROVE  of'[Whose(u)] = act'[u].on
    <3>1. CASE u = t
      <4>1. act'[t].on \in Made /\ stay[act'[t].on].guest = Whose(t) /\ stay'[act'[t].on].in
        BY <1>1, <2>5, <3>1 DEF ThreadLater, Late, Work, Shutting
      <4>2. QED
        BY <1>1, <2>4, <3>1, <4>1 DEF GuestHas, StaysLater
    <3>2. CASE u # t
      <4>1. /\ act[u].at \in {"exit1", "moved1"} /\ act'[u].on = act[u].on /\ act[u].at \in Work
            /\ of[Whose(u)] = act[u].on /\ act[u].on \in Made
            /\ stay[act[u].on].guest = Whose(u)
        BY <1>4, <2>1, <2>5, <3>2 DEF Known, EndersTake, Abouts, Work, Shutting
      <4>2. Whose(u) \in Players
        BY <1>2, <4>1 DEF Stay
      <4>3. stay[act[u].on].ends = 1
        BY <1>2, <2>3, <4>1 DEF Counted
      <4>4. ~(act[t].at \in Work /\ act[t].on = act[u].on)
        BY <3>2, <4>1, <4>3 DEF Counted
      <4>5. QED
        BY <2>2, <4>1, <4>2, <4>4
    <3>3. QED
      BY <3>1, <3>2
  <2>6. EndersTake'
    BY <1>3, <2>5 DEF EndersTake
  <2>7. ASSUME NEW q \in Players, act'[Own(q)].at \in {"asked", "made"} \cup Late
        PROVE  of'[q] = 0
    <3>1. of[q] = 0 \/ of'[q] = 0
      <4>1. CASE Own(q) = t
        <5>1. act'[t].at \in Late /\ act'[t].at \in Work /\ act'[t].at \notin {"exit1", "moved1"}
          BY <1>7, <2>7, <4>1 DEF Late, Work, Shutting
        <5>2. act[t].at \in Late \/ of'[Whose(t)] = 0
          BY <1>1, <5>1 DEF ThreadLater
        <5>3. QED
          BY <2>1, <4>1, <5>2, Abouters DEF Known, NoneYet
      <4>2. CASE Own(q) # t
        BY <1>5, <2>1, <2>7, <4>2 DEF Known, NoneYet
      <4>3. QED
        BY <4>1, <4>2
    <3>2. QED
      BY <2>2, <3>1
  <2>8. NoneYet'
    BY <2>7 DEF NoneYet
  <2>9. LastOnes'
    <3>1. \A p \in Players : of'[p] # 0 => Latest(p, of[p])'
      BY <1>3, <2>1, <2>2 DEF Known, LastOnes
    <3>2. ASSUME NEW p \in Players, act'[Own(p)].at \in {"made"} \cup Entering
          PROVE  Latest(p, act[Own(p)].on)'
      <4>1. act[Own(p)].at \in {"made"} \cup Entering /\ act'[Own(p)].on = act[Own(p)].on
        BY <1>1, <1>5, <1>7, <3>2 DEF ThreadLater, Entering
      <4>2. Latest(p, act'[Own(p)].on)
        BY <2>1, <4>1 DEF Known, LastOnes
      <4>3. QED
        BY <1>3, <4>2
    <3>3. \A i, j \in Made : stay'[i].guest = stay'[j].guest /\ i <= j => stay'[i].mgr <= stay'[j].mgr
      BY <1>1, <2>1 DEF Known, LastOnes, StaysLater
    <3>4. \A p \in Players : act'[Own(p)].at = "asked" =>
             \A i \in Made : stay'[i].guest = p => stay'[i].mgr <= act'[Own(p)].on
      BY <1>1, <1>7, <2>1 DEF Known, LastOnes, StaysLater, At
    <3>5. QED
      BY <1>1, <1>7, <3>1, <3>2, <3>3, <3>4, <2>2 DEF LastOnes, At, Latest
  <2>10. QED
    BY <1>1, <2>1, <2>4, <2>6, <2>8, <2>9 DEF Known
<1>18. QED
  BY <1>1, <1>6, <1>8, <1>10, <1>11, <1>12, <1>13, <1>16, <1>17

-----------------------------------------------------------------------------
(***************************************************************************)
(* Every other step of a thread is such a step                             *)
(***************************************************************************)

\* What a step changes is of its type.
LEMMA LaterTyped ==
  ASSUME TypeOK, UNCHANGED <<script, gen, made, together>>, online' \subseteq online,
         stay' \in [Stays -> Stay \cup {NoStay}],
         \A j \in Stays \ Made : stay'[j] = stay[j],
         \A j \in Made : stay'[j] \in Stay /\ stay'[j].guest = stay[j].guest /\ stay'[j].mgr = stay[j].mgr,
         gate' \in [Managers -> {"0", "1"}], of' \in [Players -> 0 .. made],
         loc' \in [Players -> room.maps \cup {room.exit}],
         act' \in [Threads -> [at : Steps, on : Nat]], cut' \subseteq Managers
  PROVE  TypeOK'
<1>1. \A j \in Stays : stay'[j] = NoStay <=> j > made'
  BY SameStays
<1>2. QED
  BY <1>1 DEF TypeOK, room

\* No stay changes.
LEMMA NoneEnds ==
  ASSUME TypeOK, Courses, stay' = stay
  PROVE  /\ StaysLater /\ TimersLater
         /\ stay' \in [Stays -> Stay \cup {NoStay}]
         /\ \A j \in Made : stay'[j] \in Stay
<1>1. \A j \in Made : stay[j].ends \in Nat
  BY Typed DEF Stay
<1>2. QED
  BY <1>1, Typed DEF StaysLater, TimersLater, Courses, TypeOK

\* What setting about ending a stay changes of it.
LEMMA EndingOne ==
  ASSUME NEW s \in Stay
  PROVE  /\ Ending(s) \in Stay /\ Ending(s).in = s.in /\ Ending(s).guest = s.guest /\ Ending(s).mgr = s.mgr
         /\ Ending(s).disposed = s.disposed /\ Ending(s).timer = s.timer
         /\ Ending(s).ends = IF s.ends < 2 THEN s.ends + 1 ELSE s.ends
<1>1. s.ends \in 0 .. 2
  BY DEF Stay
<1>2. QED
  BY <1>1 DEF Ending, Stay

\* One more thread sets about ending a stay.
LEMMA OneEnds ==
  ASSUME TypeOK, Courses, NEW i \in Made, stay[i].in \/ stay[i].ends > 0, stay' = Ends(i)
  PROVE  /\ StaysLater /\ TimersLater
         /\ stay' \in [Stays -> Stay \cup {NoStay}]
         /\ \A j \in Made : stay'[j] \in Stay
         /\ \A j \in Stays : j # i => stay'[j] = stay[j]
         /\ stay'[i].in = stay[i].in
         /\ stay'[i].ends > stay[i].ends \/ stay'[i].ends = 2
         /\ stay[i].ends > 0 => stay'[i].ends = 2
<1> DEFINE s == Ending(stay[i])
<1>1. stay[i] \in Stay /\ i \in Stays /\ stay[i].ends \in 0 .. 2
  BY Typed DEF Stay
<1>2. /\ s \in Stay /\ s.in = stay[i].in /\ s.guest = stay[i].guest /\ s.mgr = stay[i].mgr
      /\ s.disposed = stay[i].disposed /\ s.timer = stay[i].timer
      /\ s.ends = IF stay[i].ends < 2 THEN stay[i].ends + 1 ELSE stay[i].ends
  BY <1>1, EndingOne
<1>3. stay' = [stay EXCEPT ![i] = s]
  BY <1>1 DEF Ends, TypeOK
<1> HIDE DEF s
<1>4. /\ stay' \in [Stays -> Stay \cup {NoStay}] /\ stay'[i] = s
      /\ \A j \in Stays : j # i => stay'[j] = stay[j]
  BY <1>2, <1>3, OneChanges
<1>5. \A j \in Made : stay[j] \in Stay /\ stay[j].ends \in 0 .. 2 /\ j \in Stays
  BY Typed DEF Stay
<1>6. s.ends > stay[i].ends \/ s.ends = 2
  BY <1>1, <1>2
<1>7. stay[i].ends <= s.ends /\ (stay[i].ends > 0 => s.ends = 2)
  BY <1>1, <1>2
<1>8. StaysLater
  BY <1>2, <1>4, <1>5, <1>7 DEF StaysLater, Courses
<1>9. QED
  BY <1>2, <1>4, <1>5, <1>6, <1>7, <1>8 DEF TimersLater

\* A stay is disposed of.
LEMMA OneOver ==
  ASSUME TypeOK, Courses, NEW i \in Made, stay[i].ends > 0, stay' = Over(i)
  PROVE  /\ StaysLater /\ TimersLater
         /\ stay' \in [Stays -> Stay \cup {NoStay}]
         /\ \A j \in Made : stay'[j] \in Stay
         /\ \A j \in Stays : j # i => stay'[j] = stay[j]
         /\ ~stay'[i].in /\ stay'[i].disposed /\ stay'[i].ends = stay[i].ends
<1> DEFINE s == [stay[i] EXCEPT !.in = FALSE, !.timer = FALSE, !.disposed = TRUE]
<1>1. stay[i] \in Stay /\ i \in Stays
  BY Typed
<1>2. /\ s \in Stay /\ ~s.in /\ s.guest = stay[i].guest /\ s.mgr = stay[i].mgr
      /\ s.disposed /\ ~s.timer /\ s.ends = stay[i].ends
  BY <1>1 DEF Stay
<1>3. stay' = [stay EXCEPT ![i] = s]
  BY <1>1 DEF Over, TypeOK
<1> HIDE DEF s
<1>4. /\ stay' \in [Stays -> Stay \cup {NoStay}] /\ stay'[i] = s
      /\ \A j \in Stays : j # i => stay'[j] = stay[j]
  BY <1>2, <1>3, OneChanges
<1>5. \A j \in Made : stay[j] \in Stay /\ stay[j].ends \in 0 .. 2 /\ j \in Stays
  BY Typed DEF Stay
<1>6. StaysLater
  BY <1>2, <1>4, <1>5 DEF StaysLater, Courses
<1>7. QED
  BY <1>2, <1>4, <1>5, <1>6 DEF TimersLater

\* Where a thread goes that is done with moving the player.
LEMMA Finished ==
  ASSUME TypeOK, NEW t \in Threads, Finishes(t)
  PROVE  /\ act' \in [Threads -> [at : Steps, on : Nat]]
         /\ \A u \in Threads : u # t => act'[u] = act[u]
         /\ act'[t].at = IF t[1] = "kick" THEN "gone" ELSE "free"
<1>1. CASE t[1] = "kick"
  BY <1>1, OneGoes DEF Finishes, Steps
<1>2. CASE t[1] # "kick"
  BY <1>2, OneGoes DEF Finishes, Steps
<1>3. QED
  BY <1>1, <1>2

\* Nobody is taken out of the room by a step that moves nobody.
LEMMA NobodyMoved ==
  ASSUME IInv, NEW t \in Threads, \A u \in Threads \ {t} : act'[u] = act[u],
         UNCHANGED <<script, made, loc>>, online' \subseteq online, StaysLater,
         \A p \in Players : of'[p] # 0 => of'[p] = of[p],
         \A p \in Players : t = Own(p) /\ act'[t].at \in {"free", "entered"} =>
            of'[p] = 0 \/ act[t].at \in {"free", "entered"}
  PROVE  Known => Astray'
<1> USE DEF IInv, Base
<1> SUFFICES ASSUME Known, NEW p \in online', act'[Own(p)].at \in {"free", "entered"}, of'[p] # 0
             PROVE  Inside(p)' \/ stay'[of'[p]].mgr = 2
  BY DEF Astray
<1>1. p \in Players /\ p \in online /\ of'[p] = of[p] /\ of[p] \in Made /\ Own(p) \in Threads
  BY Kinds, Typed DEF TypeOK
<1>2. act[Own(p)].at \in {"free", "entered"}
  BY <1>1
<1>3. Inside(p) \/ stay[of[p]].mgr = 2
  BY <1>1, <1>2 DEF Known, Astray
<1>4. QED
  BY <1>1, <1>3 DEF Inside, room, StaysLater

\* A player who has logged off is not registered.
LEMMA RegisterLater ==
  ASSUME IInv, NEW p \in Players, p \notin online, Register(p)
  PROVE  Later(Own(p))
<1> DEFINE t == Own(p)
<1> USE DEF IInv, Base
<1>1. /\ act[t].at = "made" /\ t \in Threads /\ t[1] = "own" /\ act[t].on \in Made
      /\ UNCHANGED <<script, gen, gate, made, stay, of, loc, online, together>>
      /\ Goes(t, "free", 0) /\ cut' = cut \cup {stay[act[t].on].mgr}
  BY Kinds DEF Register, Abouts, At
<1>2. /\ act' \in [Threads -> [at : Steps, on : Nat]] /\ act'[t].at = "free"
      /\ \A u \in Threads : u # t => act'[u] = act[u]
  BY <1>1, OneGoes DEF Steps
<1>3. /\ StaysLater /\ TimersLater
      /\ stay' \in [Stays -> Stay \cup {NoStay}] /\ \A j \in Made : stay'[j] \in Stay
  BY <1>1, NoneEnds
<1>4. stay[act[t].on].mgr \in Managers
  BY <1>1, Typed DEF Stay
<1>5. TypeOK'
  <2>1. cut' \subseteq Managers
    BY <1>1, <1>4 DEF TypeOK
  <2>2. QED
    BY <1>1, <1>2, <1>3, <2>1, LaterTyped DEF TypeOK
<1>6. ThreadLater(t)
  BY <1>1, <1>2 DEF ThreadLater, Work, Shutting
<1>7. Known => Astray'
  <2> SUFFICES ASSUME Known, NEW q \in online', act'[Own(q)].at \in {"free", "entered"}, of'[q] # 0
               PROVE  Inside(q)' \/ stay'[of'[q]].mgr = 2
    BY DEF Astray
  <2>1. q \in Players /\ q # p
    BY <1>1 DEF TypeOK
  <2>2. act'[Own(q)] = act[Own(q)]
    BY <1>2, <2>1, Kinds, Names
  <2>3. QED
    BY <1>1, <2>2 DEF Known, Astray, Inside, room
<1>8. OfLater(t) /\ GateLater
  BY <1>1 DEF OfLater, OfOK, GateLater
<1>9. QED
  BY <1>1, <1>3, <1>5, <1>6, <1>7, <1>8 DEF Later

\* playerEntry takes the player to his own, last stay, or finds it disposed of.
LEMMA EnterLater ==
  ASSUME IInv, NEW p \in Players, Enter(p)
  PROVE  Later(Own(p))
<1> DEFINE t == Own(p)
<1> USE DEF IInv, Base
<1>1. PICK i \in Made : i = act[t].on
  BY DEF Enter, Abouts, At, Entering
<1>2. /\ act[t].at = "registered" /\ t \in Threads /\ t[1] = "own" /\ i \in Nat
      /\ IF stay[i].disposed
         THEN Goes(t, "free", 0) /\ UNCHANGED loc
         ELSE /\ Goes(t, "entered", i)
              /\ loc' = IF p \in online THEN [loc EXCEPT ![p] = room.entry] ELSE loc
      /\ UNCHANGED <<script, gen, gate, made, stay, of, online, together, cut>>
  BY <1>1, Kinds DEF Enter, At, Made
<1>3. /\ StaysLater /\ TimersLater
      /\ stay' \in [Stays -> Stay \cup {NoStay}] /\ \A j \in Made : stay'[j] \in Stay
  BY <1>2, NoneEnds
<1>4. /\ act' \in [Threads -> [at : Steps, on : Nat]]
      /\ act'[t].at = "free" \/ (act'[t].at = "entered" /\ act'[t].on = i)
      /\ \A u \in Threads : u # t => act'[u] = act[u]
  <2>1. CASE stay[i].disposed
    <3>1. Goes(t, "free", 0) /\ 0 \in Nat /\ "free" \in Steps
      BY <1>2, <2>1 DEF Steps
    <3>2. QED
      BY <1>2, <3>1, OneGoes
  <2>2. CASE ~stay[i].disposed
    <3>1. Goes(t, "entered", i) /\ "entered" \in Steps
      BY <1>2, <2>2 DEF Steps
    <3>2. QED
      BY <1>2, <3>1, OneGoes
  <2>3. QED
    BY <2>1, <2>2
<1>5. /\ loc' \in [Players -> room.maps \cup {room.exit}]
      /\ \A q \in Players : q # p => loc'[q] = loc[q]
      /\ p \in online /\ ~stay[i].disposed => loc'[p] \in room.maps
  <2>1. room.entry \in room.maps
    BY RoomsAssumption DEF room, TypeOK
  <2>2. QED
    BY <1>2, <2>1 DEF TypeOK
<1>6. TypeOK'
  BY <1>2, <1>3, <1>4, <1>5, LaterTyped DEF TypeOK
<1>7. ThreadLater(t)
  BY <1>1, <1>2, <1>4 DEF ThreadLater, Work, Shutting
<1>8. Known => Astray'
  <2> SUFFICES ASSUME Known, NEW q \in online', act'[Own(q)].at \in {"free", "entered"}, of'[q] # 0
               PROVE  Inside(q)' \/ stay'[of'[q]].mgr = 2
    BY DEF Astray
  <2>1. q \in Players /\ q \in online
    BY <1>2 DEF TypeOK
  <2>2. CASE q = p
    <3>1. stay[i].disposed => of[p] = 0
      <4>1. SUFFICES ASSUME of[p] # 0, stay[i].disposed PROVE FALSE
        OBVIOUS
      <4>2. of[p] \in Made /\ stay[of[p]].in /\ stay[of[p]].guest = p /\ stay[i].guest = p
        BY <1>1, <1>2, <4>1, Typed DEF OfOK, Abouts, Entering
      <4>3. Latest(p, of[p]) /\ Latest(p, i)
        BY <1>1, <1>2, <4>1 DEF Known, LastOnes, Entering
      <4>4. of[p] = i
        BY <1>1, <4>2, <4>3 DEF Latest, Made
      <4>5. QED
        BY <1>1, <4>1, <4>2, <4>4 DEF Courses
    <3>2. QED
      BY <1>2, <1>5, <2>1, <2>2, <3>1 DEF Inside, room
  <2>3. CASE q # p
    <3>1. act'[Own(q)] = act[Own(q)]
      BY <1>4, <2>1, <2>3, Kinds, Names
    <3>2. QED
      BY <1>2, <1>5, <2>1, <2>3, <3>1 DEF Known, Astray, Inside, room
  <2>4. QED
    BY <2>2, <2>3
<1>9. OfLater(t) /\ GateLater
  BY <1>2 DEF OfLater, OfOK, GateLater
<1>10. QED
  BY <1>2, <1>3, <1>6, <1>7, <1>8, <1>9 DEF Later

\* The timer is set for a stay that has had its guest.
LEMMA ArmLater ==
  ASSUME IInv, NEW p \in Players, Arm(p)
  PROVE  Later(Own(p))
<1> DEFINE t == Own(p)
<1> USE DEF IInv, Base
<1>1. PICK i \in Made : i = act[t].on
  BY DEF Arm, Abouts, At, Entering
<1>2. /\ act[t].at = "entered" /\ t \in Threads /\ t[1] = "own" /\ i \in Nat
      /\ stay' = [stay EXCEPT ![i].timer = room.schedules]
      /\ Goes(t, "free", 0)
      /\ UNCHANGED <<script, gen, gate, made, of, loc, online, together, cut>>
      /\ stay[i].in \/ stay[i].ends > 0
  BY <1>1, Kinds DEF Arm, At, Made, places, Courses, Entering
<1>3. room.schedules \in BOOLEAN
  BY RoomsAssumption DEF room, TypeOK
<1>4. /\ StaysLater /\ TimersLater
      /\ stay' \in [Stays -> Stay \cup {NoStay}] /\ \A j \in Made : stay'[j] \in Stay
      /\ \A j \in Made : stay'[j].in = stay[j].in
      /\ \A j \in Stays : j # i => stay'[j] = stay[j]
  <2> DEFINE s == [stay[i] EXCEPT !.timer = room.schedules]
  <2>1. stay[i] \in Stay
    BY Typed
  <2>2. /\ s \in Stay /\ s.in = stay[i].in /\ s.guest = stay[i].guest /\ s.mgr = stay[i].mgr
        /\ s.disposed = stay[i].disposed /\ s.ends = stay[i].ends
    BY <1>3, <2>1 DEF Stay
  <2>3. stay' = [stay EXCEPT ![i] = s]
    BY <1>2
  <2> HIDE DEF s
  <2>4. /\ stay' \in [Stays -> Stay \cup {NoStay}] /\ stay'[i] = s
        /\ \A j \in Stays : j # i => stay'[j] = stay[j]
    BY <2>2, <2>3, OneChanges
  <2>5. \A j \in Made : stay[j] \in Stay /\ stay[j].ends \in Nat /\ j \in Stays
    BY Typed DEF Stay
  <2>6. StaysLater
    BY <1>2, <2>2, <2>4, <2>5 DEF StaysLater, Courses
  <2>7. TimersLater
    BY <1>2, <2>2, <2>4, <2>5 DEF TimersLater
  <2>8. QED
    BY <2>2, <2>4, <2>5, <2>6, <2>7
<1>5. /\ act' \in [Threads -> [at : Steps, on : Nat]] /\ act'[t].at = "free"
      /\ \A u \in Threads : u # t => act'[u] = act[u]
  BY <1>2, OneGoes DEF Steps
<1>6. TypeOK'
  BY <1>2, <1>4, <1>5, LaterTyped, Typed DEF TypeOK, StaysLater
<1>7. ThreadLater(t)
  BY <1>2, <1>5 DEF ThreadLater, Work, Shutting
<1>8. Known => Astray'
  BY <1>2, <1>4, <1>5, NobodyMoved
<1>9. OfLater(t) /\ GateLater
  BY <1>2, <1>4, Typed DEF OfLater, OfOK, GateLater
<1>10. QED
  BY <1>2, <1>4, <1>6, <1>7, <1>8, <1>9 DEF Later

\* unregisterPlayer: the stay is over, and the player whose it was has none.
LEMMA UnregisterLater ==
  ASSUME IInv, NEW t \in Threads, NEW from \in {"exit1", "moved1"}, NEW to \in {"exit2", "moved2"},
         Unregister(t, from, to)
  PROVE  Later(t)
<1> USE DEF IInv, Base
<1>1. PICK i \in Made : i = act[t].on /\ stay[i].guest = Whose(t) /\ stay[i].ends > 0
  BY DEF Unregister, Abouts, At, Work, Shutting, Counted
<1>2. /\ act[t].at = from /\ act[t].at \in Work /\ i \in Nat
      /\ of' = [of EXCEPT ![Whose(t)] = 0] /\ stay' = Over(i) /\ Goes(t, to, i)
      /\ UNCHANGED <<script, gen, gate, made, loc, online, together, cut>>
  BY <1>1 DEF Unregister, At, Made, Work, Shutting
<1>3. /\ StaysLater /\ TimersLater
      /\ stay' \in [Stays -> Stay \cup {NoStay}] /\ \A j \in Made : stay'[j] \in Stay
      /\ \A j \in Stays : j # i => stay'[j] = stay[j]
      /\ ~stay'[i].in /\ stay'[i].disposed
  BY <1>1, <1>2, OneOver
<1>4. /\ act' \in [Threads -> [at : Steps, on : Nat]] /\ act'[t].at = to /\ act'[t].on = i
      /\ \A u \in Threads : u # t => act'[u] = act[u]
  BY <1>2, OneGoes DEF Steps
<1>5. Whose(t) \in Players
  BY <1>1, Typed DEF Stay
<1>6. of'[Whose(t)] = 0 /\ \A q \in Players : q # Whose(t) => of'[q] = of[q]
  BY <1>2, <1>5 DEF TypeOK
<1>7. TypeOK'
  <2>1. of' \in [Players -> 0 .. made]
    <3>1. 0 \in 0 .. made
      BY Typed
    <3>2. QED
      BY <1>2, <3>1 DEF TypeOK
  <2>2. QED
    BY <1>2, <1>3, <1>4, <2>1, LaterTyped, Typed DEF TypeOK, StaysLater
<1>8. ThreadLater(t)
  <2>1. /\ t[1] = "own" => act'[t].at \in {"free", "entered"} \cup Work
        /\ t[1] = "kick" => act'[t].at \in {"free", "gone"} \cup Work
        /\ t[1] = "timer" => act'[t].at \in {"free", "due", "empty"} \cup Work
    BY <1>4 DEF Work, Shutting
  <2>2. t[1] = "timer" => t[2] \in Made /\ act[t].at # "free"
    BY <1>2, Kinds DEF Abouts, Work, Shutting
  <2>3. /\ act'[t].at \in Late /\ stay'[act'[t].on].disposed /\ act[t].at \in Shutting
        /\ act'[t].on = act[t].on /\ of'[Whose(t)] = 0
    BY <1>1, <1>2, <1>3, <1>4, <1>6 DEF Late, Shutting
  <2>4. QED
    BY <1>2, <1>4, <2>1, <2>2, <2>3 DEF ThreadLater
<1>9. OfLater(t)
  <2> SUFFICES ASSUME NEW q \in Players
               PROVE  \/ of'[q] = of[q] /\ (of[q] # 0 => stay'[of[q]].in)
                      \/ of'[q] = 0 /\ (of[q] # 0 /\ Calm /\ Known =>
                            ~stay'[of[q]].in /\ act[t].at \in Work /\ act[t].on = of[q])
    BY DEF OfLater
  <2>1. CASE q = Whose(t)
    BY <1>1, <1>2, <1>3, <1>6, <2>1 DEF Known, EndersTake
  <2>2. CASE q # Whose(t)
    BY <1>1, <1>3, <1>6, <2>2, Typed DEF OfOK
  <2>3. QED
    BY <2>1, <2>2
<1>10. Known => Astray'
  BY <1>2, <1>3, <1>4, <1>5, <1>6, Abouters, NobodyMoved
<1>11. QED
  BY <1>2, <1>3, <1>7, <1>8, <1>9, <1>10 DEF Later, GateLater

\* Who opens the gate at the end of a stay held it, or the gate has been deceived.
LEMMA OpenedLater ==
  ASSUME IInv, NEW t \in Threads, act[t].at \in {"exit2", "moved2", "empty"}, gate' = Opened(t),
         UNCHANGED <<made, together>>, StaysLater, \A j \in Made : stay'[j].ends \in 0 .. 2,
         \A u \in Threads : u # t => act'[u] = act[u],
         act'[t].at \notin Shutting, act'[t].at # "made"
  PROVE  GateLater /\ gate' \in [Managers -> {"0", "1"}]
<1> USE DEF IInv, Base
<1>1. PICK i \in Made : i = act[t].on
  <2>1. act[t].at \in Work => act[t].on \in Made
    BY DEF Abouts
  <2>2. act[t].at = "empty" => \E k \in Made : t = Timer(k) /\ act[t].on = k
    BY Kinds DEF Roles, Abouts, Entering, Work, Shutting
  <2>3. QED
    BY <2>1, <2>2 DEF Work, Shutting
<1>2. stay[i] \in Stay /\ stay[i].mgr \in Managers /\ stay[i].ends \in 0 .. 2
  BY Typed DEF Stay
<1>3. /\ gate'[stay[i].mgr] = "0" /\ gate' \in [Managers -> {"0", "1"}]
      /\ \A g \in Managers : g # stay[i].mgr => gate'[g] = gate[g]
  BY <1>1, <1>2 DEF Opened, TypeOK
<1>4. ASSUME ~Deceived(stay[i].mgr)'
      PROVE  \A j \in Made : stay[j].mgr = stay[i].mgr => ~Holds(j)'
  <2>1. ~Deceived(stay[i].mgr) /\ stay[i].ends # 2
    <3>1. \A j \in Made : stay'[j].mgr = stay[j].mgr /\ (stay[j].ends = 2 => stay'[j].ends = 2)
      <4>1. \A j \in Made : stay[j].ends \in 0 .. 2
        BY Typed DEF Stay
      <4>2. QED
        BY <4>1 DEF StaysLater
    <3>2. Deceived(stay[i].mgr) => Deceived(stay[i].mgr)'
      BY <3>1, Typed, DeceivedStays
    <3>3. QED
      BY <1>4, <3>1, <3>2 DEF Deceived, Made
  <2>2. act[t].at \in Shutting /\ act[t].at \in Work /\ act[t].at \in Late
    <3>1. act[t].at = "empty" => stay[i].ends = 2
      BY <1>1, Kinds DEF Roles, Abouts, Entering, Work, Shutting, Courses, At
    <3>2. QED
      BY <2>1, <3>1 DEF Shutting, Work, Late
  <2>3. stay[i].ends = 1 /\ stay[i].disposed /\ ~stay[i].in /\ Holds(i)
    BY <1>1, <1>2, <2>1, <2>2 DEF Counted, Courses, Holds
  <2>4. \A u \in Threads : act[u].at \in Shutting /\ act[u].on = i => u = t
    BY <1>1, <2>2, <2>3 DEF Counted, Work
  <2>5. \A q \in Players : ~(act[Own(q)].at = "made" /\ act[Own(q)].on = i)
    BY <2>3 DEF Courses, Fresh, At
  <2>6. ASSUME NEW j \in Made, stay[j].mgr = stay[i].mgr, Holds(j)'
        PROVE  FALSE
    <3>1. \/ stay[j].in
          \/ \E q \in Players : act[Own(q)].at = "made" /\ act[Own(q)].on = j
          \/ \E u \in Threads : u # t /\ act[u].at \in Shutting /\ act[u].on = j
      BY <2>6, Kinds DEF Holds, At, StaysLater
    <3>2. Holds(j)
      BY <3>1 DEF Holds, At
    <3>3. j = i
      BY <2>1, <2>3, <2>6, <3>2 DEF OneHolds
    <3>4. QED
      BY <2>3, <2>4, <2>5, <3>1, <3>3
  <2>7. QED
    BY <2>6
<1>5. ASSUME NEW g \in Managers
      PROVE  \/ gate'[g] = gate[g]
             \/ /\ gate'[g] = "0"
                /\ Deceived(g)' \/ \A j \in Made : stay[j].mgr = g => ~Holds(j)'
  <2>1. CASE g # stay[i].mgr
    BY <1>3, <2>1
  <2>2. CASE g = stay[i].mgr
    <3>1. Deceived(g)' \/ ~Deceived(g)'
      OBVIOUS
    <3>2. ~Deceived(g)' => ~Deceived(stay[i].mgr)'
      <4>1. stay'[i].mgr = g
        BY <2>2 DEF StaysLater
      <4>2. QED
        BY <4>1
    <3>3. QED
      BY <1>3, <1>4, <2>2, <3>2
  <2>3. QED
    BY <2>1, <2>2
<1>6. QED
  BY <1>3, <1>5 DEF GateLater

\* Whose stay is over by now has the next one, if any, at another manager.
LEMMA LateStay ==
  ASSUME IInv, Calm, Known, NEW t \in Threads, act[t].at = "moved2",
         NEW p \in Players, Whose(t) = p, of[p] # 0
  PROVE  stay[of[p]].mgr = 2
<1> USE DEF IInv, Base
<1>1. PICK k \in Made : k = act[t].on /\ stay[k].guest = p /\ stay[k].disposed /\ Holds(k)
  BY DEF Abouts, Work, Shutting, Late, Courses, Holds
<1>2. PICK j \in Made : j = of[p] /\ stay[j].in /\ stay[j].guest = p /\ Holds(j)
  BY Typed DEF OfOK, Holds
<1>3. k # j
  BY <1>1, <1>2 DEF Courses
<1>4. k <= j
  BY <1>1, <1>2 DEF Known, LastOnes, Latest
<1>5. /\ stay[k].mgr \in Managers /\ stay[j].mgr \in Managers
      /\ stay[k].mgr <= gen /\ stay[j].mgr <= gen /\ gen <= 2
  BY <1>1, <1>2, Typed DEF Courses, Stay, Calm
<1>6. stay[k].mgr <= stay[j].mgr
  BY <1>1, <1>2, <1>4 DEF Known, LastOnes
<1>7. stay[k].mgr # stay[j].mgr
  BY <1>1, <1>2, <1>3, <1>5 DEF OneHolds, Calm
<1>8. QED
  BY <1>2, <1>5, <1>6, <1>7, Numbers DEF TypeOK

\* setProperty("state", "0") in playerExit.
LEMMA ReopenLater ==
  ASSUME IInv, NEW t \in Threads, Reopen(t, "exit2", "exit3")
  PROVE  Later(t)
<1> USE DEF IInv, Base
<1>1. /\ act[t].at = "exit2" /\ gate' = Opened(t) /\ Goes(t, "exit3", act[t].on)
      /\ UNCHANGED <<script, gen, made, stay, of, loc, online, together, cut>>
      /\ act[t].on \in Made /\ act[t].on \in Nat /\ stay[act[t].on].disposed
  BY Typed DEF Reopen, At, places, Abouts, Work, Shutting, Courses, Late
<1>2. /\ act' \in [Threads -> [at : Steps, on : Nat]] /\ act'[t].at = "exit3" /\ act'[t].on = act[t].on
      /\ \A u \in Threads : u # t => act'[u] = act[u]
  BY <1>1, OneGoes DEF Steps
<1>3. /\ StaysLater /\ TimersLater
      /\ stay' \in [Stays -> Stay \cup {NoStay}] /\ \A j \in Made : stay'[j] \in Stay
  BY <1>1, NoneEnds
<1>4. GateLater /\ gate' \in [Managers -> {"0", "1"}]
  BY <1>1, <1>2, <1>3, OpenedLater DEF Shutting, Stay
<1>5. TypeOK'
  BY <1>1, <1>2, <1>3, <1>4, LaterTyped, Typed DEF TypeOK, StaysLater
<1>6. ThreadLater(t)
  <2>1. t[1] = "timer" => t[2] \in Made
    BY <1>1, Kinds DEF Abouts
  <2>2. QED
    BY <1>1, <1>2, <2>1 DEF ThreadLater, Work, Shutting, Late
<1>7. Known => Astray'
  BY <1>1, <1>2, <1>3, NobodyMoved
<1>8. OfLater(t)
  BY <1>1 DEF OfLater, OfOK
<1>9. QED
  BY <1>1, <1>3, <1>4, <1>5, <1>6, <1>7, <1>8 DEF Later

\* The last of changedMap, and the player's move.
LEMMA MovedLater ==
  ASSUME IInv, NEW t \in Threads, act[t].at = "moved2", gate' = Opened(t), loc' = Moved(t), Finishes(t),
         UNCHANGED <<script, gen, made, stay, of, online, together, cut>>
  PROVE  Later(t)
<1> USE DEF IInv, Base
<1>1. PICK i \in Made : i = act[t].on /\ stay[i].guest = Whose(t)
  BY DEF Abouts, Work, Shutting
<1>2. /\ act' \in [Threads -> [at : Steps, on : Nat]]
      /\ act'[t].at = IF t[1] = "kick" THEN "gone" ELSE "free"
      /\ \A u \in Threads : u # t => act'[u] = act[u]
  BY Finished
<1>3. /\ StaysLater /\ TimersLater
      /\ stay' \in [Stays -> Stay \cup {NoStay}] /\ \A j \in Made : stay'[j] \in Stay
  BY NoneEnds
<1>4. GateLater /\ gate' \in [Managers -> {"0", "1"}]
  BY <1>2, <1>3, OpenedLater DEF Shutting, Stay
<1>5. Whose(t) \in Players
  BY <1>1, Typed DEF Stay
<1>6. /\ loc' \in [Players -> room.maps \cup {room.exit}]
      /\ \A q \in Players : q # Whose(t) => loc'[q] = loc[q]
  BY <1>5 DEF Moved, TypeOK
<1>7. TypeOK'
  BY <1>2, <1>3, <1>4, <1>6, LaterTyped, Typed DEF TypeOK, StaysLater
<1>8. ThreadLater(t)
  BY <1>2 DEF ThreadLater, Work, Shutting
<1>9. Calm /\ Known => Astray'
  <2> SUFFICES ASSUME Calm, Known, NEW q \in online', act'[Own(q)].at \in {"free", "entered"}, of'[q] # 0
               PROVE  Inside(q)' \/ stay'[of'[q]].mgr = 2
    BY DEF Astray
  <2>1. q \in Players /\ q \in online
    BY DEF TypeOK
  <2>2. CASE q = Whose(t)
    BY <2>1, <2>2, LateStay
  <2>3. CASE q # Whose(t)
    <3>1. act'[Own(q)] = act[Own(q)]
      BY <1>2, <2>1, <2>3, Abouters, Kinds
    <3>2. QED
      BY <1>6, <2>1, <2>3, <3>1 DEF Known, Astray, Inside, room
  <2>4. QED
    BY <2>2, <2>3
<1>10. OfLater(t)
  BY DEF OfLater, OfOK
<1>11. QED
  BY <1>3, <1>4, <1>7, <1>8, <1>9, <1>10 DEF Later

\* The timer found nobody in.
LEMMA EmptiedLater ==
  ASSUME IInv, NEW i \in Stays, Emptied(i)
  PROVE  Later(Timer(i))
<1> DEFINE t == Timer(i)
<1> USE DEF IInv, Base
<1>1. /\ act[t].at = "empty" /\ t \in Threads /\ i \in Made /\ stay' = Over(i) /\ gate' = Opened(t)
      /\ Finishes(t) /\ ~stay[i].in /\ stay[i].ends = 2 /\ stay[i].ends > 0
      /\ UNCHANGED <<script, gen, made, of, loc, online, together, cut>>
      /\ t[1] = "timer" /\ t[2] = i
  BY Kinds DEF Emptied, At, places, Abouts, Courses
<1>2. /\ act' \in [Threads -> [at : Steps, on : Nat]] /\ act'[t].at = "free"
      /\ \A u \in Threads : u # t => act'[u] = act[u]
  BY <1>1, Finished
<1>3. /\ StaysLater /\ TimersLater
      /\ stay' \in [Stays -> Stay \cup {NoStay}] /\ \A j \in Made : stay'[j] \in Stay
      /\ \A j \in Stays : j # i => stay'[j] = stay[j]
  BY <1>1, OneOver
<1>4. GateLater /\ gate' \in [Managers -> {"0", "1"}]
  BY <1>1, <1>2, <1>3, OpenedLater DEF Shutting, Stay
<1>5. TypeOK'
  BY <1>1, <1>2, <1>3, <1>4, LaterTyped, Typed DEF TypeOK, StaysLater
<1>6. ThreadLater(t)
  BY <1>1, <1>2 DEF ThreadLater, Work, Shutting
<1>7. Known => Astray'
  BY <1>1, <1>2, <1>3, Names, NobodyMoved
<1>8. OfLater(t)
  BY <1>1, <1>3, Typed DEF OfLater, OfOK
<1>9. QED
  BY <1>1, <1>3, <1>4, <1>5, <1>6, <1>7, <1>8 DEF Later

\* changeMap on behalf of a player who has a stay: his thread sets about ending it.
LEMMA ChangeMapEnds ==
  ASSUME IInv, NEW t \in Threads, NEW i \in Made, i = of[Whose(t)], Whose(t) \in Players,
         \/ /\ act[t].at = "exit3"
            /\ stay' = [Over(act[t].on) EXCEPT ![i] = Ending(@)]
         \/ /\ act[t].at = "free" /\ t[1] # "timer"
            /\ stay' = [stay EXCEPT ![i] = Ending(@)],
         Goes(t, "moved1", i), UNCHANGED <<script, gen, gate, made, of, loc, online, together, cut>>
  PROVE  Later(t)
<1> USE DEF IInv, Base
<1>1. /\ i \in Nat /\ i # 0 /\ i \in Stays /\ stay[i].in /\ stay[i].guest = Whose(t) /\ ~stay[i].disposed
      /\ stay[i] \in Stay
  BY Typed DEF OfOK, Made, Courses
<1>2. /\ act' \in [Threads -> [at : Steps, on : Nat]] /\ act'[t].at = "moved1" /\ act'[t].on = i
      /\ \A u \in Threads : u # t => act'[u] = act[u]
  BY <1>1, OneGoes DEF Steps
<1>3. /\ StaysLater /\ TimersLater
      /\ stay' \in [Stays -> Stay \cup {NoStay}] /\ \A j \in Made : stay'[j] \in Stay
      /\ \A j \in Stays \ Made : stay'[j] = stay[j]
      /\ \A j \in Made : stay[j].in => stay'[j].in
      /\ stay'[i].ends > stay[i].ends \/ stay'[i].ends = 2
  <2>1. CASE act[t].at = "free"
    <3>1. stay' = Ends(i)
      BY <2>1 DEF Ends
    <3>2. QED
      BY <1>1, <3>1, OneEnds, Typed
  <2>2. CASE act[t].at = "exit3"
    <3>1. PICK k \in Made : k = act[t].on
      BY <2>2 DEF Abouts, Work
    <3>2. /\ stay[k].disposed /\ ~stay[k].in /\ stay[k].ends > 0 /\ k # i
          /\ stay' = [Over(k) EXCEPT ![i] = Ending(@)] /\ k \in Stays /\ stay[k] \in Stay
      BY <1>1, <2>2, <3>1, Typed DEF Courses, Counted, Late, Work
    <3> DEFINE s == Ending(stay[i])
               r == [stay[k] EXCEPT !.in = FALSE, !.timer = FALSE, !.disposed = TRUE]
    <3>3. stay[i].ends \in 0 .. 2
      BY <1>1 DEF Stay
    <3>4. /\ s \in Stay /\ s.in = stay[i].in /\ s.guest = stay[i].guest /\ s.mgr = stay[i].mgr
          /\ s.disposed = stay[i].disposed /\ s.timer = stay[i].timer
          /\ s.ends = IF stay[i].ends < 2 THEN stay[i].ends + 1 ELSE stay[i].ends
      BY <1>1, EndingOne
    <3>5. /\ r \in Stay /\ ~r.in /\ r.guest = stay[k].guest /\ r.mgr = stay[k].mgr
          /\ r.disposed /\ ~r.timer /\ r.ends = stay[k].ends
      BY <3>2 DEF Stay
    <3>6. stay \in [Stays -> Stay \cup {NoStay}]
      BY DEF TypeOK
    <3>7. Over(k) = [stay EXCEPT ![k] = r]
      BY <3>2, <3>6 DEF Over
    <3> HIDE DEF r
    <3>8. Over(k) \in [Stays -> Stay \cup {NoStay}] /\ Over(k)[i] = stay[i]
      BY <1>1, <3>2, <3>5, <3>6, <3>7
    <3>9. stay' = [Over(k) EXCEPT ![i] = s]
      BY <1>1, <3>2, <3>8
    <3> HIDE DEF s
    <3>10. /\ stay' \in [Stays -> Stay \cup {NoStay}]
           /\ stay'[i] = s /\ stay'[k] = r
           /\ \A j \in Stays : j # i /\ j # k => stay'[j] = stay[j]
      BY <1>1, <3>2, <3>4, <3>5, <3>6, <3>7, <3>8, <3>9
    <3>11. \A j \in Made : stay[j] \in Stay /\ stay[j].ends \in 0 .. 2 /\ j \in Stays
      BY Typed DEF Stay
    <3>12. stay[i].ends <= s.ends /\ (s.ends > stay[i].ends \/ s.ends = 2)
      BY <3>3, <3>4
    <3>13. StaysLater
      BY <1>1, <3>2, <3>4, <3>5, <3>10, <3>11, <3>12 DEF StaysLater, Courses
    <3>14. TimersLater
      BY <1>1, <3>2, <3>4, <3>5, <3>10, <3>11 DEF TimersLater
    <3>15. QED
      BY <1>1, <3>2, <3>4, <3>5, <3>10, <3>11, <3>12, <3>13, <3>14
  <2>3. QED
    BY <2>1, <2>2
<1>4. TypeOK'
  BY <1>2, <1>3, LaterTyped DEF TypeOK, StaysLater
<1>5. ThreadLater(t)
  <2>1. t[1] = "timer" => t[2] \in Made /\ act[t].at # "free"
    <3>1. CASE act[t].at = "exit3"
      BY <3>1, Kinds DEF Abouts
    <3>2. QED
      BY <3>1
  <2>2. /\ act'[t].at \in {"exit1", "moved1"} /\ act'[t].at \in Work
        /\ act'[t].on \in Made /\ stay[act'[t].on].guest = Whose(t) /\ stay'[act'[t].on].in
        /\ stay'[act'[t].on].ends > stay[act'[t].on].ends \/ stay'[act'[t].on].ends = 2
    BY <1>1, <1>2, <1>3 DEF Work, Shutting
  <2>3. QED
    BY <1>2, <2>1, <2>2 DEF ThreadLater
<1>6. Known => Astray'
  BY <1>2, <1>3, NobodyMoved
<1>7. OfLater(t)
  BY <1>3, Typed DEF OfLater, OfOK
<1>8. QED
  BY <1>3, <1>4, <1>5, <1>6, <1>7 DEF Later, GateLater

\* changeMap on behalf of a player who has none: he is moved.
LEMMA ChangeMapMoves ==
  ASSUME IInv, NEW t \in Threads, of[Whose(t)] = 0, Whose(t) \in Players,
         \/ act[t].at = "exit3" /\ stay' = Over(act[t].on)
         \/ act[t].at = "free" /\ stay' = stay,
         loc' = Moved(t), Finishes(t), UNCHANGED <<script, gen, gate, made, of, online, together, cut>>
  PROVE  Later(t)
<1> USE DEF IInv, Base
<1>1. /\ act' \in [Threads -> [at : Steps, on : Nat]]
      /\ act'[t].at = IF t[1] = "kick" THEN "gone" ELSE "free"
      /\ \A u \in Threads : u # t => act'[u] = act[u]
  BY Finished
<1>2. /\ StaysLater /\ TimersLater
      /\ stay' \in [Stays -> Stay \cup {NoStay}] /\ \A j \in Made : stay'[j] \in Stay
      /\ \A j \in Stays \ Made : stay'[j] = stay[j]
      /\ \A j \in Made : stay[j].in => stay'[j].in
  <2>1. CASE stay' = stay
    BY <2>1, NoneEnds
  <2>2. CASE act[t].at = "exit3" /\ stay' = Over(act[t].on)
    <3>1. PICK k \in Made : k = act[t].on /\ stay[k].ends > 0 /\ ~stay[k].in
      BY <2>2 DEF Abouts, Work, Counted, Late, Courses
    <3>2. QED
      BY <2>2, <3>1, OneOver, Typed
  <2>3. QED
    BY <2>1, <2>2
<1>3. /\ loc' \in [Players -> room.maps \cup {room.exit}]
      /\ \A q \in Players : q # Whose(t) => loc'[q] = loc[q]
  BY DEF Moved, TypeOK
<1>4. TypeOK'
  BY <1>1, <1>2, <1>3, LaterTyped DEF TypeOK, StaysLater
<1>5. ThreadLater(t)
  BY <1>1 DEF ThreadLater, Work, Shutting
<1>6. Known => Astray'
  <2> SUFFICES ASSUME Known, NEW q \in online', act'[Own(q)].at \in {"free", "entered"}, of'[q] # 0
               PROVE  Inside(q)' \/ stay'[of'[q]].mgr = 2
    BY DEF Astray
  <2>1. q \in Players /\ q \in online /\ q # Whose(t) /\ of[q] \in Made
    BY Typed DEF TypeOK
  <2>2. act'[Own(q)] = act[Own(q)]
    BY <1>1, <2>1, Abouters, Kinds
  <2>3. QED
    BY <1>2, <1>3, <2>1, <2>2 DEF Known, Astray, Inside, room, StaysLater
<1>7. OfLater(t)
  BY <1>2, Typed DEF OfLater, OfOK
<1>8. QED
  BY <1>2, <1>4, <1>5, <1>6, <1>7 DEF Later, GateLater

\* The end of playerExit.
LEMMA ExitLater ==
  ASSUME IInv, NEW t \in Threads, ChangeMap(t, "exit3", Over(act[t].on))
  PROVE  Later(t)
<1> USE DEF IInv, Base
<1>1. PICK k \in Made : k = act[t].on /\ stay[k].disposed /\ stay[k].guest = Whose(t)
  BY DEF ChangeMap, At, Abouts, Work, Courses, Late
<1>2. Whose(t) \in Players
  BY <1>1, Typed DEF Stay
<1>3. of[Whose(t)] # 0 => /\ of[Whose(t)] \in Made /\ ~Over(k)[of[Whose(t)]].disposed
  <2> SUFFICES ASSUME of[Whose(t)] # 0
               PROVE  of[Whose(t)] \in Made /\ ~Over(k)[of[Whose(t)]].disposed
    OBVIOUS
  <2>1. of[Whose(t)] \in Made /\ stay[of[Whose(t)]].in
    BY <1>2, Typed DEF OfOK
  <2>2. of[Whose(t)] # k /\ ~stay[of[Whose(t)]].disposed
    BY <1>1, <2>1 DEF Courses
  <2>3. Over(k)[of[Whose(t)]] = stay[of[Whose(t)]]
    BY <2>1, <2>2, Typed DEF Over, TypeOK
  <2>4. QED
    BY <2>1, <2>2, <2>3
<1>4. act[t].at = "exit3" /\ UNCHANGED <<script, gen, gate, made, of, online, together, cut>>
  BY DEF ChangeMap, At
<1>5. CASE of[Whose(t)] # 0
  <2>1. /\ stay' = [Over(act[t].on) EXCEPT ![of[Whose(t)]] = Ending(@)]
        /\ Goes(t, "moved1", of[Whose(t)]) /\ UNCHANGED loc
    BY <1>1, <1>3, <1>5 DEF ChangeMap
  <2>2. QED
    BY <1>2, <1>3, <1>4, <1>5, <2>1, ChangeMapEnds
<1>6. CASE of[Whose(t)] = 0
  <2>1. stay' = Over(act[t].on) /\ loc' = Moved(t) /\ Finishes(t)
    BY <1>6 DEF ChangeMap
  <2>2. QED
    BY <1>2, <1>4, <1>6, <2>1, ChangeMapMoves
<1>7. QED
  BY <1>5, <1>6

\* The guest leaves by himself.
LEMMA LeaveLater ==
  ASSUME IInv, NEW p \in Players, Leave(p)
  PROVE  Later(Own(p))
<1> DEFINE t == Own(p)
<1> USE DEF IInv, Base
<1>1. /\ t \in Threads /\ t[1] # "timer" /\ Whose(t) = p /\ act[t].at = "free"
      /\ UNCHANGED <<script, gen, gate, made, of, online, together, cut>>
      /\ ChangeMap(t, "free", stay)
  BY Kinds, Abouters DEF Leave, ChangeMap, At
<1>2. CASE of[p] # 0
  <2>1. of[p] \in Made /\ ~stay[of[p]].disposed
    BY <1>2, Typed DEF OfOK, Courses
  <2>2. stay' = [stay EXCEPT ![of[p]] = Ending(@)] /\ Goes(t, "moved1", of[p]) /\ UNCHANGED loc
    BY <1>1, <1>2, <2>1 DEF ChangeMap
  <2>3. QED
    BY <1>1, <2>1, <2>2, ChangeMapEnds
<1>3. CASE of[p] = 0
  <2>1. stay' = stay /\ loc' = Moved(t) /\ Finishes(t)
    BY <1>1, <1>3 DEF ChangeMap
  <2>2. QED
    BY <1>1, <1>3, <2>1, ChangeMapMoves
<1>4. QED
  BY <1>2, <1>3

\* A walk inside the room.
LEMMA WalkLater ==
  ASSUME IInv, NEW p \in Players, Walk(p)
  PROVE  Later(Own(p))
<1> USE DEF IInv, Base
<1>1. PICK m \in room.maps \ {loc[p]} : loc' = [loc EXCEPT ![p] = m]
  BY DEF Walk
<1>2. /\ Own(p) \in Threads /\ act[Own(p)].at = "free"
      /\ UNCHANGED <<script, gen, gate, made, stay, of, online, act, together, cut>>
  BY Kinds DEF Walk, At
<1>3. /\ StaysLater /\ TimersLater
      /\ stay' \in [Stays -> Stay \cup {NoStay}] /\ \A j \in Made : stay'[j] \in Stay
  BY <1>2, NoneEnds
<1>4. /\ loc' \in [Players -> room.maps \cup {room.exit}] /\ loc'[p] \in room.maps
      /\ \A q \in Players : q # p => loc'[q] = loc[q]
  BY <1>1 DEF TypeOK
<1>5. TypeOK'
  BY <1>2, <1>3, <1>4, LaterTyped DEF TypeOK
<1>6. ThreadLater(Own(p))
  BY <1>2 DEF ThreadLater, Work, Shutting
<1>7. Known => Astray'
  BY <1>2, <1>4 DEF Known, Astray, Inside, room, TypeOK
<1>8. QED
  BY <1>2, <1>3, <1>5, <1>6, <1>7 DEF Later, OfLater, OfOK, GateLater

\* A thread that was idle begins playerExit for the player's stay: his revival, or a
\* disconnection.
LEMMA BeginsExit ==
  ASSUME IInv, NEW t \in Threads, act[t].at = "free", t[1] # "timer", Whose(t) \in Players, of[Whose(t)] # 0,
         stay' = Ends(of[Whose(t)]), Goes(t, "exit1", of[Whose(t)]),
         UNCHANGED <<script, gen, gate, made, of, loc, online, together, cut>>
  PROVE  Later(t)
<1> USE DEF IInv, Base
<1>1. PICK i \in Made : i = of[Whose(t)] /\ stay[i].in /\ stay[i].guest = Whose(t) /\ i \in Nat
  BY Typed DEF OfOK
<1>2. /\ act' \in [Threads -> [at : Steps, on : Nat]] /\ act'[t].at = "exit1" /\ act'[t].on = i
      /\ \A u \in Threads : u # t => act'[u] = act[u]
  BY <1>1, OneGoes DEF Steps
<1>3. /\ StaysLater /\ TimersLater
      /\ stay' \in [Stays -> Stay \cup {NoStay}] /\ \A j \in Made : stay'[j] \in Stay
      /\ \A j \in Stays : j # i => stay'[j] = stay[j]
      /\ stay'[i].in = stay[i].in
      /\ stay'[i].ends > stay[i].ends \/ stay'[i].ends = 2
  BY <1>1, OneEnds
<1>4. TypeOK'
  BY <1>2, <1>3, LaterTyped, Typed DEF TypeOK, StaysLater
<1>5. ThreadLater(t)
  BY <1>1, <1>2, <1>3 DEF ThreadLater, Work, Shutting
<1>6. Known => Astray'
  BY <1>2, <1>3, NobodyMoved
<1>7. OfLater(t)
  BY <1>1, <1>3, Typed DEF OfLater, OfOK
<1>8. QED
  BY <1>3, <1>4, <1>5, <1>6, <1>7 DEF Later, GateLater

LEMMA ReviveLater ==
  ASSUME IInv, NEW p \in Players, Revive(p)
  PROVE  Later(Own(p))
BY Kinds, Abouters, BeginsExit DEF Revive, At, places

\* Who is disconnected has no stay, or his stay is ended first.
LEMMA KickLater ==
  ASSUME IInv, NEW p \in Leavers, Kick(p)
  PROVE  Later(Kicker(p))
<1> DEFINE t == Kicker(p)
<1> USE DEF IInv, Base
<1>1. /\ t \in Threads /\ t[1] = "kick" /\ Whose(t) = p /\ p \in Players /\ act[t].at = "free"
      /\ UNCHANGED <<script, gen, gate, made, of, loc, online, together, cut>>
  BY Kinds, Abouters, Numbers DEF Kick, At, places
<1>2. CASE of[p] # 0
  <2>1. stay' = Ends(of[p]) /\ Goes(t, "exit1", of[p])
    BY <1>2 DEF Kick
  <2>2. QED
    BY <1>1, <1>2, <2>1, BeginsExit
<1>3. CASE of[p] = 0
  <2>1. stay' = stay /\ Goes(t, "gone", 0)
    BY <1>3 DEF Kick
  <2>2. /\ act' \in [Threads -> [at : Steps, on : Nat]] /\ act'[t].at = "gone"
        /\ \A u \in Threads : u # t => act'[u] = act[u]
    BY <1>1, <2>1, OneGoes DEF Steps
  <2>3. /\ StaysLater /\ TimersLater
        /\ stay' \in [Stays -> Stay \cup {NoStay}] /\ \A j \in Made : stay'[j] \in Stay
    BY <2>1, NoneEnds
  <2>4. TypeOK'
    BY <1>1, <2>1, <2>2, <2>3, LaterTyped DEF TypeOK
  <2>5. ThreadLater(t)
    BY <1>1, <2>2 DEF ThreadLater, Work, Shutting
  <2>6. Known => Astray'
    BY <1>1, <2>2, <2>3, Names, NobodyMoved
  <2>7. QED
    BY <1>1, <2>1, <2>3, <2>4, <2>5, <2>6 DEF Later, OfLater, OfOK, GateLater
<1>4. QED
  BY <1>2, <1>3

\* The character leaves the channel.
LEMMA GoneLater ==
  ASSUME IInv, NEW p \in Leavers, Gone(p)
  PROVE  Later(Kicker(p))
<1> DEFINE t == Kicker(p)
<1> USE DEF IInv, Base
<1>1. /\ t \in Threads /\ t[1] = "kick" /\ p \in Players /\ act[t].at = "gone"
      /\ online' \subseteq online /\ Goes(t, "free", 0)
      /\ cut' = IF of[p] # 0 /\ ~Timed THEN cut \cup {stay[of[p]].mgr} ELSE cut
      /\ UNCHANGED <<script, gen, gate, made, stay, of, loc, together>>
  BY Kinds, Numbers DEF Gone, At
<1>2. /\ act' \in [Threads -> [at : Steps, on : Nat]] /\ act'[t].at = "free"
      /\ \A u \in Threads : u # t => act'[u] = act[u]
  BY <1>1, OneGoes DEF Steps
<1>3. /\ StaysLater /\ TimersLater
      /\ stay' \in [Stays -> Stay \cup {NoStay}] /\ \A j \in Made : stay'[j] \in Stay
  BY <1>1, NoneEnds
<1>4. cut' \subseteq Managers
  <2>1. of[p] # 0 => stay[of[p]].mgr \in Managers
    BY <1>1, Typed DEF Stay
  <2>2. QED
    BY <1>1, <2>1 DEF TypeOK
<1>5. TypeOK'
  BY <1>1, <1>2, <1>3, <1>4, LaterTyped DEF TypeOK
<1>6. ThreadLater(t)
  BY <1>1, <1>2 DEF ThreadLater, Work, Shutting
<1>7. Known => Astray'
  BY <1>1, <1>2, <1>3, Names, NobodyMoved
<1>8. QED
  BY <1>1, <1>3, <1>5, <1>6, <1>7 DEF Later, OfLater, OfOK, GateLater

\* The timer of a stay is due.
LEMMA FireLater ==
  ASSUME IInv, NEW i \in Stays, Fire(i)
  PROVE  Later(Timer(i))
<1> DEFINE t == Timer(i)
<1> USE DEF IInv, Base
<1>1. /\ t \in Threads /\ t[1] = "timer" /\ t[2] = i /\ act[t].at = "free" /\ stay[i].timer
      /\ stay' = [stay EXCEPT ![i].timer = FALSE]
      /\ IF room.answers THEN Goes(t, "due", i) ELSE UNCHANGED act
      /\ UNCHANGED <<script, gen, gate, made, of, loc, online, together, cut>>
  BY Kinds DEF Fire, At, places
<1>2. i \in Made /\ i \in Nat
  <2>1. stay[i] # NoStay
    BY <1>1 DEF NoStay
  <2>2. QED
    BY <2>1, Typed DEF Made
<1>3. /\ act' \in [Threads -> [at : Steps, on : Nat]]
      /\ act'[t].at = "free" \/ (act'[t].at = "due" /\ act'[t].on = i)
      /\ \A u \in Threads : u # t => act'[u] = act[u]
  <2>1. CASE room.answers
    BY <1>1, <1>2, <2>1, OneGoes DEF Steps
  <2>2. CASE ~room.answers
    BY <1>1, <2>2 DEF TypeOK
  <2>3. QED
    BY <2>1, <2>2
<1>4. stay[i].in \/ stay[i].ends > 0
  BY <1>1, <1>2 DEF Courses
<1>5. /\ StaysLater /\ TimersLater
      /\ stay' \in [Stays -> Stay \cup {NoStay}] /\ \A j \in Made : stay'[j] \in Stay
      /\ \A j \in Made : stay'[j].in = stay[j].in
      /\ \A j \in Stays : j # i => stay'[j] = stay[j]
  <2> DEFINE s == [stay[i] EXCEPT !.timer = FALSE]
  <2>1. stay[i] \in Stay
    BY <1>2, Typed
  <2>2. /\ s \in Stay /\ s.in = stay[i].in /\ s.guest = stay[i].guest /\ s.mgr = stay[i].mgr
        /\ s.disposed = stay[i].disposed /\ s.ends = stay[i].ends
    BY <2>1 DEF Stay
  <2>3. stay' = [stay EXCEPT ![i] = s]
    BY <1>1
  <2> HIDE DEF s
  <2>4. /\ stay' \in [Stays -> Stay \cup {NoStay}] /\ stay'[i] = s
        /\ \A j \in Stays : j # i => stay'[j] = stay[j]
    BY <1>2, <2>2, <2>3, OneChanges
  <2>5. \A j \in Made : stay[j] \in Stay /\ stay[j].ends \in Nat /\ j \in Stays
    BY Typed DEF Stay
  <2>6. StaysLater
    BY <1>4, <2>2, <2>4, <2>5 DEF StaysLater, Courses
  <2>7. TimersLater
    BY <1>4, <2>2, <2>4, <2>5 DEF TimersLater
  <2>8. QED
    BY <2>2, <2>4, <2>5, <2>6, <2>7
<1>6. TypeOK'
  BY <1>1, <1>2, <1>3, <1>5, LaterTyped, Typed DEF TypeOK, StaysLater
<1>7. ThreadLater(t)
  BY <1>1, <1>2, <1>3 DEF ThreadLater, Work, Shutting
<1>8. Known => Astray'
  BY <1>1, <1>3, <1>5, Names, NobodyMoved
<1>9. OfLater(t)
  BY <1>1, <1>5, Typed DEF OfLater, OfOK
<1>10. QED
  BY <1>1, <1>5, <1>6, <1>7, <1>8, <1>9 DEF Later, GateLater

\* timeout: of the guest's stay, or of one that another thread has ended.
LEMMA TimeoutLater ==
  ASSUME IInv, NEW i \in Stays, Timeout(i)
  PROVE  Later(Timer(i))
<1> DEFINE t == Timer(i)
<1> USE DEF IInv, Base
<1>1. /\ t \in Threads /\ t[1] = "timer" /\ t[2] = i /\ act[t].at = "due" /\ i \in Made /\ i \in Nat
      /\ stay' = Ends(i) /\ Goes(t, IF stay[i].in THEN "exit1" ELSE "empty", i)
      /\ UNCHANGED <<script, gen, gate, made, of, loc, online, together, cut>>
      /\ Whose(t) = stay[i].guest
  BY Kinds, Abouters DEF Timeout, At, places, Abouts, Made
<1>2. /\ act' \in [Threads -> [at : Steps, on : Nat]] /\ act'[t].on = i
      /\ act'[t].at = IF stay[i].in THEN "exit1" ELSE "empty"
      /\ \A u \in Threads : u # t => act'[u] = act[u]
  BY <1>1, OneGoes DEF Steps
<1>3. stay[i].in \/ stay[i].ends > 0
  BY <1>1 DEF Courses, At
<1>4. /\ StaysLater /\ TimersLater
      /\ stay' \in [Stays -> Stay \cup {NoStay}] /\ \A j \in Made : stay'[j] \in Stay
      /\ \A j \in Stays : j # i => stay'[j] = stay[j]
      /\ stay'[i].in = stay[i].in
      /\ stay'[i].ends > stay[i].ends \/ stay'[i].ends = 2
      /\ stay[i].ends > 0 => stay'[i].ends = 2
  BY <1>1, <1>3, OneEnds
<1>5. TypeOK'
  BY <1>1, <1>2, <1>4, LaterTyped, Typed DEF TypeOK, StaysLater
<1>6. ThreadLater(t)
  <2>1. CASE stay[i].in
    BY <1>1, <1>2, <1>4, <2>1 DEF ThreadLater, Work, Shutting
  <2>2. CASE ~stay[i].in
    BY <1>1, <1>2, <1>3, <1>4, <2>2 DEF ThreadLater, Work, Shutting
  <2>3. QED
    BY <2>1, <2>2
<1>7. Known => Astray'
  BY <1>1, <1>2, <1>4, Names, NobodyMoved
<1>8. OfLater(t)
  BY <1>1, <1>4, Typed DEF OfLater, OfOK
<1>9. QED
  BY <1>1, <1>4, <1>5, <1>6, <1>7, <1>8 DEF Later, GateLater

-----------------------------------------------------------------------------
(***************************************************************************)
(* Every behaviour                                                         *)
(***************************************************************************)

\* The new manager's gate is open, and nobody has asked it.
LEMMA ReloadIInv ==
  ASSUME IInv, Reload
  PROVE  IInv'
<1> USE DEF IInv, Base
<1>1. /\ gen' = gen + 1 /\ gen \in Nat /\ gen' \in Managers /\ gen >= 1
      /\ UNCHANGED <<script, gate, made, stay, of, loc, online, act, together, cut>>
  BY Numbers DEF Reload, TypeOK
<1>2. /\ Made' = Made /\ (\A u : Whose(u)' = Whose(u)) /\ (\A i : Holds(i)' = Holds(i))
      /\ (\A g : Deceived(g)' = Deceived(g)) /\ (\A i : Fresh(i)' = Fresh(i))
  BY <1>1 DEF Made, Whose, Holds, Deceived, Fresh, At
<1>3. \A i \in Made : stay[i].mgr \in Nat
  BY Numbers, Typed DEF Stay
<1>4. TypeOK' /\ Roles' /\ OfOK'
  BY <1>1 DEF TypeOK, Roles, OfOK, room
<1>5. Abouts'
  BY <1>1, <1>2 DEF Abouts, At
<1>6. Courses'
  BY <1>1, <1>2, <1>3 DEF Courses, At
<1>7. Counted' /\ AskedOpen' /\ OneHolds' /\ HeldShut'
  BY <1>1, <1>2 DEF Counted, AskedOpen, OneHolds, HeldShut, At
<1>8. ASSUME Calm' PROVE Known'
  <2>1. Calm /\ Known /\ gen = 1
    BY <1>1, <1>2, <1>8 DEF Calm
  <2>2. Astray'
    BY <1>1, <2>1 DEF Known, Astray, Inside, room
  <2>3. QED
    BY <1>1, <1>2, <2>1, <2>2 DEF Known, GuestHas, EndersTake, NoneYet, LastOnes, Latest, At
<1>9. QED
  BY <1>4, <1>5, <1>6, <1>7, <1>8

\* At first there is no stay, and every thread is idle.
LEMMA InitIInv == Init => IInv
<1> SUFFICES ASSUME Init PROVE IInv
  OBVIOUS
<1>1. /\ made = 0 /\ gen = 1 /\ act = [t \in Threads |-> Free] /\ of = [p \in Players |-> 0]
      /\ stay = [i \in Stays |-> NoStay] /\ together = {} /\ cut = {} /\ online = Players
      /\ gate = [g \in Managers |-> "0"] /\ script \in DOMAIN Rooms
      /\ loc = [p \in Players |-> room.exit]
  BY DEF Init
<1>2. Made = {} /\ \A t \in Threads : act[t].at = "free" /\ act[t].on = 0
  BY <1>1 DEF Made, Free
<1>3. /\ \A p \in Players : act[Own(p)].at = "free" /\ of[p] = 0
      /\ \A p \in Leavers : act[Kicker(p)].at = "free"
      /\ \A i \in Stays : act[Timer(i)].at = "free"
  BY <1>1, <1>2, Kinds
<1>4. TypeOK
  <2>1. Free \in [at : Steps, on : Nat]
    BY DEF Free, Steps
  <2>2. \A i \in Stays : stay[i] = NoStay /\ i > made
    BY <1>1, Numbers
  <2>3. /\ made \in 0 .. MaxStays /\ of \in [Players -> 0 .. made] /\ gen \in Managers
        /\ stay \in [Stays -> Stay \cup {NoStay}]
    BY <1>1, Numbers
  <2>4. QED
    BY <1>1, <2>1, <2>2, <2>3 DEF TypeOK
<1>5. Roles /\ Abouts /\ Courses /\ OfOK /\ Counted
  BY <1>2, <1>3 DEF Roles, Abouts, Courses, OfOK, Counted, Work, Shutting, Late, Entering, At
<1>6. AskedOpen /\ OneHolds /\ HeldShut
  BY <1>2, <1>3 DEF AskedOpen, OneHolds, HeldShut, At
<1>7. Known
  BY <1>1, <1>2, <1>3 DEF Known, GuestHas, EndersTake, NoneYet, Astray, LastOnes, Late, Entering, At
<1>8. QED
  BY <1>4, <1>5, <1>6, <1>7 DEF IInv, Base

\* What has begun goes on.
LEMMA SystemIInv ==
  ASSUME IInv, System
  PROVE  IInv'
<1>1. ASSUME NEW p \in Players, LetIn(p) PROVE IInv'
  <2>1. CASE Setup(p)
    BY <2>1, SetupIInv
  <2>2. CASE Register(p)
    <3>1. CASE p \in online
      BY <2>2, <3>1, RegisterIInv
    <3>2. CASE p \notin online
      BY <2>2, <3>2, RegisterLater, LaterIInv, Kinds
    <3>3. QED
      BY <3>1, <3>2
  <2>3. CASE Enter(p)
    BY <2>3, EnterLater, LaterIInv, Kinds
  <2>4. CASE Arm(p)
    BY <2>4, ArmLater, LaterIInv, Kinds
  <2>5. QED
    BY <1>1, <2>1, <2>2, <2>3, <2>4 DEF LetIn
<1>2. ASSUME NEW p \in Leavers, Gone(p) PROVE IInv'
  BY <1>2, GoneLater, LaterIInv, Kinds
<1>3. ASSUME NEW t \in Threads, PlayerExit(t) PROVE IInv'
  <2>1. CASE Unregister(t, "exit1", "exit2")
    BY <2>1, UnregisterLater, LaterIInv
  <2>2. CASE Reopen(t, "exit2", "exit3")
    BY <2>2, ReopenLater, LaterIInv
  <2>3. CASE ChangeMap(t, "exit3", Over(act[t].on))
    BY <2>3, ExitLater, LaterIInv
  <2>4. QED
    BY <1>3, <2>1, <2>2, <2>3 DEF PlayerExit
<1>4. ASSUME NEW t \in Threads, ChangedMap(t) PROVE IInv'
  <2>1. CASE Unregister(t, "moved1", "moved2")
    BY <2>1, UnregisterLater, LaterIInv
  <2>2. CASE ~Unregister(t, "moved1", "moved2")
    <3>1. Later(t)
      BY <1>4, <2>2, MovedLater DEF ChangedMap, At
    <3>2. QED
      BY <3>1, LaterIInv
  <2>3. QED
    BY <2>1, <2>2
<1>5. ASSUME NEW i \in Stays, Fire(i) \/ Timeout(i) \/ Emptied(i) PROVE IInv'
  BY <1>5, FireLater, TimeoutLater, EmptiedLater, LaterIInv, Kinds
<1>6. QED
  BY <1>1, <1>2, <1>3, <1>4, <1>5 DEF System, Hooks

\* Every step keeps the invariant.
LEMMA NextIInv ==
  ASSUME IInv, [Next]_vars
  PROVE  IInv'
<1>1. CASE System
  BY <1>1, SystemIInv
<1>2. ASSUME NEW p \in Players, Ask(p) \/ Leave(p) \/ Walk(p) \/ Revive(p) PROVE IInv'
  BY <1>2, AskIInv, LeaveLater, WalkLater, ReviveLater, LaterIInv, Kinds
<1>3. ASSUME NEW p \in Leavers, Kick(p) PROVE IInv'
  BY <1>3, KickLater, LaterIInv, Kinds
<1>4. CASE Reload
  BY <1>4, ReloadIInv
<1>5. CASE UNCHANGED vars
  <2>1. UNCHANGED <<script, gen, gate, made, stay, of, loc, online, act, together, cut>>
    BY <1>5 DEF vars
  <2>2. TypeOK' = TypeOK
    BY <2>1 DEF TypeOK, room
  <2>3. /\ Made' = Made /\ (\A u : Whose(u)' = Whose(u)) /\ (\A i : Holds(i)' = Holds(i))
        /\ (\A g : Deceived(g)' = Deceived(g)) /\ (\A i : Fresh(i)' = Fresh(i))
        /\ (\A p, k : Latest(p, k)' = Latest(p, k)) /\ (\A p : Inside(p)' = Inside(p))
    BY <2>1 DEF Made, Whose, Holds, Deceived, Fresh, Latest, Inside, room, At
  <2>4. Roles' /\ Abouts' /\ Courses' /\ OfOK' /\ Counted'
    BY <2>1, <2>3 DEF IInv, Base, Roles, Abouts, Courses, OfOK, Counted, At
  <2>5. AskedOpen' /\ OneHolds' /\ HeldShut'
    BY <2>1, <2>3 DEF IInv, AskedOpen, OneHolds, HeldShut, At
  <2>6. Calm' => Calm
    BY <2>1, <2>3 DEF Calm
  <2>7. Known => Known'
    BY <2>1, <2>3 DEF Known, GuestHas, EndersTake, NoneYet, Astray, LastOnes, At
  <2>8. QED
    BY <2>2, <2>4, <2>5, <2>6, <2>7 DEF IInv, Base
<1>6. QED
  BY <1>1, <1>2, <1>3, <1>4, <1>5 DEF Next

\* A gate is held by one stay at a time, from setup until who ends the stay has opened it.
THEOREM Invariance == Spec => []IInv
<1>1. IInv /\ [Next]_vars => IInv'
  BY NextIInv
<1>2. QED
  BY InitIInv, <1>1, PTL DEF Spec

\* Each variable is of its type, and the stays that have been made are the first ones.
THEOREM TypeCorrect == Spec => []TypeOK
<1>1. IInv => TypeOK
  BY DEF IInv, Base
<1>2. QED
  BY Invariance, <1>1, PTL

\* A manager that is not deceived has one guest at most, whatever the scripts of its rooms,
\* the order of the threads and the number of reloads.
THEOREM OneGuestHolds == Spec => []OneGuest
<1>1. IInv => OneGuest
  <2> SUFFICES ASSUME IInv, NEW g \in Managers, ~Deceived(g), NEW i \in Guests(g), NEW j \in Guests(g)
               PROVE  i = j
    BY DEF OneGuest
  <2>1. i \in Made /\ j \in Made /\ stay[i].mgr = g /\ stay[j].mgr = g /\ Holds(i) /\ Holds(j)
    BY DEF Guests, Made, Holds
  <2>2. QED
    BY <2>1 DEF IInv, OneHolds
<1>2. QED
  BY Invariance, <1>1, PTL

\* While a guest is in, his manager's gate is shut, unless it has been deceived: nobody who
\* asks is told that the room is free.
THEOREM GateShutHolds == Spec => []GateShut
<1>1. IInv => GateShut
  <2> SUFFICES ASSUME IInv, NEW g \in Managers, ~Deceived(g), gate[g] = "0", NEW i \in Guests(g)
               PROVE  FALSE
    BY DEF GateShut
  <2>1. i \in Made /\ stay[i].mgr = g /\ Holds(i)
    BY DEF Guests, Made, Holds
  <2>2. QED
    BY <2>1 DEF IInv, HeldShut
<1>2. QED
  BY Invariance, <1>1, PTL

\* A player's eventInstance is a stay with him in; and until the second reload a guest has
\* his stay as eventInstance, so that whatever takes him away ends it.
THEOREM GuestsKnowHolds == Spec => []GuestsKnow
<1>1. IInv => GuestsKnow
  BY DEF IInv, Base, OfOK, GuestsKnow, Calm, Known, GuestHas, Guests, Made
<1>2. QED
  BY Invariance, <1>1, PTL
-----------------------------------------------------------------------------
(***************************************************************************)
(* Who opens a shut gate                                                   *)
(***************************************************************************)

\* A shut gate is held, unless the guest it was shut for was cut off.
GateHeld == \A g \in Managers :
    gate[g] = "1" /\ g \notin cut => \E i \in Made : stay[i].mgr = g /\ Holds(i)

\* A guest whose stay is timed is watched: the timer is set, has gone off, is sending him
\* out, or the thread that lets him in has yet to set it.
Watches(i) ==
    \/ stay[i].timer
    \/ At(Timer(i), "due")
    \/ At(Timer(i), "exit1") /\ act[Timer(i)].on = i
    \/ act[Own(stay[i].guest)].at \in Entering /\ act[Own(stay[i].guest)].on = i
Watched == Timed => \A i \in Made : stay[i].in => Watches(i)

\* A guest whose stay is not timed is there to leave.
Present == ~Timed /\ Calm => \A i \in Made :
    stay[i].in /\ stay[i].mgr \notin cut => stay[i].guest \in online

OInv == GateHeld /\ Watched /\ Present

\* What a step after setup must leave to open the gates by.
Carries(t) ==
    /\ cut \subseteq cut'
    /\ \A g \in Managers : gate'[g] \in {gate[g], "0"}
    /\ \A i \in Made : Holds(i) =>
          Holds(i)' \/ gate'[stay[i].mgr] = "0" \/ stay[i].mgr \in cut'
    /\ \A i \in Made : Timed /\ stay'[i].in /\ Watches(i) => Watches(i)'
    /\ \A p \in online \ online' : ~Timed /\ of[p] # 0 => stay[of[p]].mgr \in cut'

LEMMA CarriesOInv ==
  ASSUME IInv, OInv, NEW t \in Threads, Later(t), Carries(t)
  PROVE  OInv'
<1> USE DEF IInv, Base
<1>1. /\ UNCHANGED <<script, gen, made, together>> /\ online' \subseteq online
      /\ StaysLater /\ Made' = Made /\ Timed' = Timed /\ made \in Nat
  BY Typed DEF Later, Made, Timed, room
<1>2. \A i \in Made : /\ stay'[i].mgr = stay[i].mgr /\ stay'[i].guest = stay[i].guest
                      /\ stay'[i].in => stay[i].in
                      /\ stay[i].mgr \in Managers /\ stay[i].guest \in Players
  BY <1>1, Typed DEF StaysLater, Stay
<1>3. GateHeld'
  <2> SUFFICES ASSUME NEW g \in Managers, gate'[g] = "1", g \notin cut'
               PROVE  \E i \in Made : stay'[i].mgr = g /\ Holds(i)'
    BY <1>1 DEF GateHeld
  <2>1. gate[g] = "1" /\ g \notin cut
    BY DEF Carries
  <2>2. PICK i \in Made : stay[i].mgr = g /\ Holds(i)
    BY <2>1 DEF OInv, GateHeld
  <2>3. Holds(i)'
    BY <2>2 DEF Carries
  <2>4. QED
    BY <1>2, <2>2, <2>3
<1>4. Watched'
  BY <1>1, <1>2 DEF OInv, Watched, Carries
<1>5. Present'
  <2> SUFFICES ASSUME ~Timed, Calm', NEW i \in Made, stay'[i].in, stay[i].mgr \notin cut'
               PROVE  stay[i].guest \in online'
    BY <1>1, <1>2 DEF Present
  <2>1. Calm
    <3>1. \A j \in Made : stay[j].ends \in 0 .. 2
      BY Typed DEF Stay
    <3>2. \A j \in Made : stay'[j].mgr = stay[j].mgr /\ (stay[j].ends = 2 => stay'[j].ends = 2)
      <4>1. \A j \in Made : stay'[j].ends \in 0 .. 2
        <5>1. \A j \in Stays : stay'[j] \in Stay \cup {NoStay} /\ (stay'[j] = NoStay <=> j > made)
          BY <1>1 DEF Later, TypeOK
        <5>2. \A j \in Made : j \in Stays /\ ~(j > made)
          BY <1>1, Typed DEF Made
        <5>3. QED
          BY <5>1, <5>2 DEF Stay
      <4>2. QED
        BY <1>1, <3>1, <4>1 DEF StaysLater
    <3>3. gen \in Nat
      BY Numbers DEF TypeOK
    <3>4. QED
      BY <1>1, <3>2, <3>3, DeceivedStays
  <2>2. stay[i].in /\ stay[i].mgr \notin cut /\ stay[i].guest \in online
    BY <1>2, <2>1 DEF OInv, Present, Carries
  <2>3. of[stay[i].guest] = i /\ i # 0
    BY <2>1, <2>2 DEF Known, GuestHas, Made
  <2>4. QED
    BY <2>2, <2>3 DEF Carries
<1>6. QED
  BY <1>3, <1>4, <1>5 DEF OInv

\* A hold passes to the thread that goes on.
LEMMA HoldPasses ==
  ASSUME NEW t \in Threads, \A u \in Threads : u # t => act'[u] = act[u],
         NEW i \in Made, Holds(i),
         stay[i].in => stay'[i].in \/ (act'[t].at \in Shutting /\ act'[t].on = i),
         act[t].at \in Shutting \cup {"made"} /\ act[t].on = i =>
            act'[t].at \in Shutting /\ act'[t].on = i
  PROVE  Holds(i)'
<1>1. CASE stay[i].in
  BY <1>1 DEF Holds
<1>2. CASE \E p \in Players : At(Own(p), "made") /\ act[Own(p)].on = i
  <2>1. PICK p \in Players : At(Own(p), "made") /\ act[Own(p)].on = i
    BY <1>2
  <2>2. Own(p) \in Threads
    BY Kinds
  <2>3. CASE Own(p) = t
    BY <2>1, <2>3 DEF Holds, At
  <2>4. CASE Own(p) # t
    BY <2>1, <2>2, <2>4 DEF Holds, At
  <2>5. QED
    BY <2>3, <2>4
<1>3. CASE \E u \in Threads : act[u].at \in Shutting /\ act[u].on = i
  <2>1. PICK u \in Threads : act[u].at \in Shutting /\ act[u].on = i
    BY <1>3
  <2>2. act'[u].at \in Shutting /\ act'[u].on = i
    BY <2>1
  <2>3. QED
    BY <2>2 DEF Holds
<1>4. QED
  BY <1>1, <1>2, <1>3 DEF Holds

\* Who is watched stays so while the thread that goes on passes on what it has to do.
LEMMA WatchPasses ==
  ASSUME TypeOK, NEW t \in Threads, \A u \in Threads : u # t => act'[u] = act[u],
         NEW i \in Made, Watches(i), stay'[i].guest = stay[i].guest,
         stay[i].timer => stay'[i].timer \/ (t = Timer(i) /\ act'[t].at = "due"),
         t = Timer(i) /\ act[t].at = "due" => act'[t].at = "exit1" /\ act'[t].on = i,
         t = Timer(i) => act[t].at # "exit1" \/ act[t].on # i,
         t = Own(stay[i].guest) /\ act[t].at \in Entering /\ act[t].on = i =>
            stay'[i].timer \/ (act'[t].at \in Entering /\ act'[t].on = i)
  PROVE  Watches(i)'
<1>1. Timer(i) \in Threads /\ Own(stay[i].guest) \in Threads
  BY Kinds, Typed DEF Stay
<1>2. CASE stay[i].timer
  BY <1>2 DEF Watches, At
<1>3. CASE At(Timer(i), "due")
  BY <1>1, <1>3 DEF Watches, At
<1>4. CASE At(Timer(i), "exit1") /\ act[Timer(i)].on = i
  BY <1>1, <1>4 DEF Watches, At
<1>5. CASE act[Own(stay[i].guest)].at \in Entering /\ act[Own(stay[i].guest)].on = i
  BY <1>1, <1>5 DEF Watches, At
<1>6. QED
  BY <1>2, <1>3, <1>4, <1>5 DEF Watches

\* A thread that was idle, and changes neither guests, timers nor gates.
LEMMA IdleCarries ==
  ASSUME TypeOK, NEW t \in Threads, act[t].at \in {"free", "gone"},
         \A u \in Threads : u # t => act'[u] = act[u],
         \A i \in Made : /\ stay'[i].in = stay[i].in /\ stay'[i].guest = stay[i].guest
                         /\ stay'[i].timer = stay[i].timer,
         gate' = gate, cut \subseteq cut',
         \A p \in online \ online' : ~Timed /\ of[p] # 0 => stay[of[p]].mgr \in cut'
  PROVE  Carries(t)
<1>1. ASSUME NEW i \in Made, Holds(i) PROVE Holds(i)'
  BY <1>1, HoldPasses DEF Shutting
<1>2. ASSUME NEW i \in Made, Watches(i) PROVE Watches(i)'
  BY <1>2, WatchPasses DEF Entering
<1>3. QED
  BY <1>1, <1>2 DEF Carries

\* registerPlayer finds the player gone: the gate's manager is cut.
LEMMA RegisterCarries ==
  ASSUME IInv, NEW p \in Players, p \notin online, Register(p)
  PROVE  Carries(Own(p))
<1> DEFINE t == Own(p)
<1> USE DEF IInv, Base
<1>1. /\ act[t].at = "made" /\ t \in Threads
      /\ UNCHANGED <<script, gen, gate, made, stay, of, loc, online, together>>
      /\ Goes(t, "free", 0) /\ cut' = cut \cup {stay[act[t].on].mgr}
  BY Kinds DEF Register, At
<1>2. \A u \in Threads : u # t => act'[u] = act[u]
  BY <1>1, OneGoes DEF Steps
<1>3. ASSUME NEW i \in Made, Holds(i) PROVE Holds(i)' \/ stay[i].mgr \in cut'
  <2>1. CASE act[t].on = i
    BY <1>1, <2>1
  <2>2. CASE act[t].on # i
    BY <1>1, <1>2, <1>3, <2>2, HoldPasses
  <2>3. QED
    BY <2>1, <2>2
<1>4. ASSUME NEW i \in Made, Watches(i) PROVE Watches(i)'
  BY <1>1, <1>2, <1>4, Kinds, Names, WatchPasses DEF Entering
<1>5. QED
  BY <1>1, <1>3, <1>4 DEF Carries

\* playerEntry before the timer: only of a stay that is over it goes no further.
LEMMA EnterCarries ==
  ASSUME IInv, NEW p \in Players, Enter(p)
  PROVE  Carries(Own(p))
<1> DEFINE t == Own(p)
<1> USE DEF IInv, Base
<1>1. PICK k \in Made : k = act[t].on
  BY DEF Enter, Abouts, At, Entering
<1>2. /\ act[t].at = "registered" /\ t \in Threads /\ k \in Nat
      /\ IF stay[k].disposed THEN Goes(t, "free", 0) ELSE Goes(t, "entered", k)
      /\ UNCHANGED <<script, gen, gate, made, stay, of, online, together, cut>>
  BY <1>1, Kinds DEF Enter, At, Made
<1>3. /\ \A u \in Threads : u # t => act'[u] = act[u]
      /\ ~stay[k].disposed => act'[t].at = "entered" /\ act'[t].on = k
  <2>1. CASE stay[k].disposed
    BY <1>2, <2>1, OneGoes DEF Steps
  <2>2. CASE ~stay[k].disposed
    BY <1>2, <2>2, OneGoes DEF Steps
  <2>3. QED
    BY <2>1, <2>2
<1>4. ASSUME NEW i \in Made, Holds(i) PROVE Holds(i)'
  BY <1>2, <1>3, <1>4, HoldPasses DEF Shutting
<1>5. ASSUME NEW i \in Made, stay'[i].in, Watches(i) PROVE Watches(i)'
  <2>1. ~stay[i].disposed
    BY <1>2, <1>5 DEF Courses
  <2>2. QED
    BY <1>1, <1>2, <1>3, <1>5, <2>1, Kinds, Names, WatchPasses DEF Entering
<1>6. QED
  BY <1>2, <1>4, <1>5 DEF Carries

\* playerEntry sets the timer.
LEMMA ArmCarries ==
  ASSUME IInv, NEW p \in Players, Arm(p)
  PROVE  Carries(Own(p))
<1> DEFINE t == Own(p)
<1> USE DEF IInv, Base
<1>1. PICK k \in Made : k = act[t].on
  BY DEF Arm, Abouts, At, Entering
<1>2. /\ act[t].at = "entered" /\ t \in Threads /\ k \in Stays
      /\ stay' = [stay EXCEPT ![k].timer = room.schedules] /\ Goes(t, "free", 0)
      /\ UNCHANGED <<script, gen, gate, made, of, loc, online, together, cut>>
  BY <1>1, Kinds, Typed DEF Arm, At, places
<1>3. \A u \in Threads : u # t => act'[u] = act[u]
  BY <1>2, OneGoes DEF Steps
<1>4. \A i \in Made : /\ stay'[i].in = stay[i].in /\ stay'[i].guest = stay[i].guest
                      /\ i # k => stay'[i] = stay[i]
                      /\ i = k => stay'[i].timer = room.schedules
  <2>1. stay \in [Stays -> Stay \cup {NoStay}] /\ \A i \in Made : i \in Stays /\ stay[i] \in Stay
    BY Typed DEF TypeOK
  <2>2. QED
    BY <1>2, <2>1 DEF Stay
<1>5. ASSUME NEW i \in Made, Holds(i) PROVE Holds(i)'
  BY <1>2, <1>3, <1>4, <1>5, HoldPasses DEF Shutting
<1>6. ASSUME NEW i \in Made, Timed, Watches(i) PROVE Watches(i)'
  <2>1. CASE i = k
    BY <1>4, <1>6, <2>1 DEF Timed, Watches
  <2>2. CASE i # k
    BY <1>1, <1>2, <1>3, <1>4, <1>6, <2>2, Kinds, Names, WatchPasses DEF Entering
  <2>3. QED
    BY <2>1, <2>2
<1>7. QED
  BY <1>2, <1>5, <1>6 DEF Carries

\* What dispose leaves of a stay.
LEMMA OverLeaves ==
  ASSUME TypeOK, NEW k \in Made, stay' = Over(k)
  PROVE  /\ ~stay'[k].in /\ stay'[k].guest = stay[k].guest
         /\ \A i \in Made : i # k => stay'[i] = stay[i]
<1>1. stay \in [Stays -> Stay \cup {NoStay}] /\ \A i \in Made : i \in Stays /\ stay[i] \in Stay
  BY Typed DEF TypeOK
<1>2. QED
  BY <1>1 DEF Over, Stay

\* unregisterPlayer: the thread that ends the stay holds the gate alone.
LEMMA UnregisterCarries ==
  ASSUME IInv, NEW t \in Threads, NEW from \in {"exit1", "moved1"}, NEW to \in {"exit2", "moved2"},
         Unregister(t, from, to)
  PROVE  Carries(t)
<1> USE DEF IInv, Base
<1>1. PICK k \in Made : k = act[t].on
  BY DEF Unregister, Abouts, At, Work, Shutting
<1>2. /\ act[t].at = from /\ k \in Nat /\ stay' = Over(k) /\ Goes(t, to, k)
      /\ UNCHANGED <<script, gen, gate, made, loc, online, together, cut>>
  BY <1>1 DEF Unregister, At, Made
<1>3. /\ \A u \in Threads : u # t => act'[u] = act[u]
      /\ act'[t].at = to /\ act'[t].on = k
  BY <1>2, OneGoes DEF Steps
<1>4. ~stay'[k].in /\ \A i \in Made : i # k => stay'[i] = stay[i]
  BY <1>2, OverLeaves
<1>5. ASSUME NEW i \in Made, Holds(i) PROVE Holds(i)'
  BY <1>1, <1>3, <1>4, <1>5, HoldPasses DEF Shutting
<1>6. ASSUME NEW i \in Made, stay'[i].in, Watches(i) PROVE Watches(i)'
  BY <1>1, <1>2, <1>3, <1>4, <1>6, WatchPasses DEF Entering
<1>7. QED
  BY <1>2, <1>5, <1>6 DEF Carries

\* The gate is opened by the thread that held it.
LEMMA OpenedCarries ==
  ASSUME IInv, NEW t \in Threads, act[t].at \in {"exit2", "moved2", "empty"}, gate' = Opened(t),
         \A u \in Threads : u # t => act'[u] = act[u], NEW k \in Made, k = act[t].on,
         \A i \in Made : i # k => stay'[i] = stay[i],
         stay' = stay \/ ~stay'[k].in,
         UNCHANGED <<script, made, online, cut>>
  PROVE  Carries(t)
<1> USE DEF IInv, Base
<1>1. stay[k].mgr \in Managers
  BY Typed DEF Stay
<1>2. /\ gate'[stay[k].mgr] = "0"
      /\ \A g \in Managers : g # stay[k].mgr => gate'[g] = gate[g]
  BY <1>1 DEF Opened, TypeOK
<1>3. ASSUME NEW i \in Made, Holds(i) PROVE Holds(i)' \/ gate'[stay[i].mgr] = "0"
  <2>1. CASE i = k
    BY <1>2, <2>1
  <2>2. CASE i # k
    BY <1>3, <2>2, HoldPasses
  <2>3. QED
    BY <2>1, <2>2
<1>4. ASSUME NEW i \in Made, stay'[i].in, Watches(i) PROVE Watches(i)'
  <2>1. stay'[i] = stay[i]
    BY <1>4
  <2>2. QED
    BY <1>4, <2>1, WatchPasses DEF Entering
<1>5. QED
  BY <1>2, <1>3, <1>4 DEF Carries

LEMMA ReopenCarries ==
  ASSUME IInv, NEW t \in Threads, Reopen(t, "exit2", "exit3")
  PROVE  Carries(t)
<1> USE DEF IInv, Base
<1>1. /\ act[t].at = "exit2" /\ gate' = Opened(t) /\ Goes(t, "exit3", act[t].on)
      /\ UNCHANGED <<script, gen, made, stay, of, loc, online, together, cut>>
      /\ act[t].on \in Made /\ act[t].on \in Nat
  BY Typed DEF Reopen, At, places, Abouts, Work, Shutting
<1>2. \A u \in Threads : u # t => act'[u] = act[u]
  BY <1>1, OneGoes DEF Steps
<1>3. QED
  BY <1>1, <1>2, OpenedCarries

LEMMA MovedCarries ==
  ASSUME IInv, NEW t \in Threads, act[t].at = "moved2", gate' = Opened(t), Finishes(t),
         UNCHANGED <<script, made, stay, online, cut>>
  PROVE  Carries(t)
<1> USE DEF IInv, Base
<1>1. act[t].on \in Made
  BY DEF Abouts, Work, Shutting
<1>2. \A u \in Threads : u # t => act'[u] = act[u]
  BY Finished
<1>3. QED
  BY <1>1, <1>2, OpenedCarries

LEMMA EmptiedCarries ==
  ASSUME IInv, NEW k \in Stays, Emptied(k)
  PROVE  Carries(Timer(k))
<1> USE DEF IInv, Base
<1>1. /\ act[Timer(k)].at = "empty" /\ act[Timer(k)].on = k /\ Timer(k) \in Threads /\ k \in Made
      /\ stay' = Over(k) /\ gate' = Opened(Timer(k)) /\ Finishes(Timer(k))
      /\ UNCHANGED <<script, gen, made, of, loc, online, together, cut>>
  BY Kinds DEF Emptied, At, places, Abouts
<1>2. \A u \in Threads : u # Timer(k) => act'[u] = act[u]
  BY <1>1, Finished
<1>3. ~stay'[k].in /\ \A i \in Made : i # k => stay'[i] = stay[i]
  BY <1>1, OverLeaves
<1>4. QED
  BY <1>1, <1>2, <1>3, OpenedCarries

\* The end of playerExit: its own stay is over, another's may be about to end.
LEMMA ExitCarries ==
  ASSUME IInv, NEW t \in Threads, ChangeMap(t, "exit3", Over(act[t].on))
  PROVE  Carries(t)
<1> DEFINE j == of[Whose(t)]
<1> USE DEF IInv, Base
<1>1. PICK k \in Made : k = act[t].on /\ ~stay[k].in /\ stay[k].guest = Whose(t)
  BY DEF ChangeMap, At, Abouts, Work, Courses, Late
<1>2. act[t].at = "exit3" /\ UNCHANGED <<script, gen, gate, made, of, online, together, cut>>
  BY DEF ChangeMap, At
<1>3. Whose(t) \in Players
  BY <1>1, Typed DEF Stay
<1>4. j \in Nat /\ (j # 0 => j \in Made /\ j # k)
  BY <1>1, <1>3, Typed DEF OfOK
<1>5. \A u \in Threads : u # t => act'[u] = act[u]
  <2>1. Goes(t, "moved1", j) \/ Finishes(t)
    BY <1>1 DEF ChangeMap
  <2>2. QED
    BY <1>4, <2>1, OneGoes, Finished DEF Steps
<1>6. /\ ~stay'[k].in
      /\ \A i \in Made : i # k => /\ stay'[i].in = stay[i].in /\ stay'[i].guest = stay[i].guest
                                  /\ stay'[i].timer = stay[i].timer
  <2>1. stay \in [Stays -> Stay \cup {NoStay}] /\ \A i \in Made : i \in Stays /\ stay[i] \in Stay
    BY Typed DEF TypeOK
  <2>2. /\ Over(k) \in [Stays -> Stay \cup {NoStay}] /\ ~Over(k)[k].in
        /\ \A i \in Made : i # k => Over(k)[i] = stay[i]
    BY <2>1 DEF Over, Stay
  <2>3. CASE stay' = Over(k)
    BY <2>2, <2>3
  <2>4. CASE j # 0 /\ stay' = [Over(k) EXCEPT ![j] = Ending(@)]
    <3>1. /\ stay'[j] = Ending(stay[j])
          /\ \A i \in Made : i # j => stay'[i] = Over(k)[i]
      BY <1>4, <2>1, <2>2, <2>4
    <3>2. /\ stay'[j].in = stay[j].in /\ stay'[j].guest = stay[j].guest
          /\ stay'[j].timer = stay[j].timer
      <4>1. stay[j] \in Stay
        BY <1>4, <2>1, <2>4
      <4>2. QED
        BY <3>1, <4>1, EndingOne
    <3>3. ~stay'[k].in
      BY <1>4, <2>2, <2>4, <3>1
    <3>4. QED
      BY <2>2, <3>1, <3>2, <3>3
  <2>5. QED
    BY <1>1, <2>3, <2>4 DEF ChangeMap
<1>7. ASSUME NEW i \in Made, Holds(i) PROVE Holds(i)'
  BY <1>1, <1>2, <1>5, <1>6, <1>7, HoldPasses DEF Shutting
<1>8. ASSUME NEW i \in Made, stay'[i].in, Watches(i) PROVE Watches(i)'
  BY <1>2, <1>5, <1>6, <1>8, WatchPasses DEF Entering
<1>9. QED
  BY <1>2, <1>7, <1>8 DEF Carries

\* What setting about ending it changes of a stay: neither guest nor timer.
LEMMA EndsLeaves ==
  ASSUME TypeOK, NEW k \in Made, stay' = [stay EXCEPT ![k] = Ending(@)]
  PROVE  \A i \in Made : /\ stay'[i].in = stay[i].in /\ stay'[i].guest = stay[i].guest
                         /\ stay'[i].timer = stay[i].timer
<1>1. stay \in [Stays -> Stay \cup {NoStay}] /\ \A i \in Made : i \in Stays /\ stay[i] \in Stay
  BY Typed DEF TypeOK
<1>2. stay'[k] = Ending(stay[k]) /\ \A i \in Made : i # k => stay'[i] = stay[i]
  BY <1>1
<1>3. QED
  BY <1>1, <1>2, EndingOne

LEMMA LeaveCarries ==
  ASSUME IInv, NEW p \in Players, Leave(p)
  PROVE  Carries(Own(p))
<1> DEFINE t == Own(p)
<1> USE DEF IInv, Base
<1>1. /\ t \in Threads /\ Whose(t) = p /\ act[t].at = "free" /\ of[p] \in Nat
      /\ UNCHANGED <<script, gen, gate, made, of, online, together, cut>>
      /\ ChangeMap(t, "free", stay)
  BY Kinds, Abouters, Typed DEF Leave, ChangeMap, At
<1>2. \A u \in Threads : u # t => act'[u] = act[u]
  <2>1. Goes(t, "moved1", of[p]) \/ Finishes(t)
    BY <1>1 DEF ChangeMap
  <2>2. QED
    BY <1>1, <2>1, OneGoes, Finished DEF Steps
<1>3. \A i \in Made : /\ stay'[i].in = stay[i].in /\ stay'[i].guest = stay[i].guest
                      /\ stay'[i].timer = stay[i].timer
  <2>1. CASE stay' = stay
    BY <2>1
  <2>2. CASE of[p] # 0 /\ stay' = [stay EXCEPT ![of[p]] = Ending(@)]
    BY <2>2, EndsLeaves, Typed
  <2>3. QED
    BY <1>1, <2>1, <2>2 DEF ChangeMap
<1>4. QED
  BY <1>1, <1>2, <1>3, IdleCarries

LEMMA WalkCarries ==
  ASSUME IInv, NEW p \in Players, Walk(p)
  PROVE  Carries(Own(p))
<1>1. /\ Own(p) \in Threads /\ act[Own(p)].at = "free"
      /\ UNCHANGED <<script, gen, gate, made, stay, of, online, act, together, cut>>
  BY Kinds DEF Walk, At
<1>2. QED
  BY <1>1, IdleCarries DEF IInv, Base

LEMMA ReviveCarries ==
  ASSUME IInv, NEW p \in Players, Revive(p)
  PROVE  Carries(Own(p))
<1> USE DEF IInv, Base
<1>1. /\ Own(p) \in Threads /\ act[Own(p)].at = "free" /\ of[p] \in Made /\ of[p] \in Nat
      /\ stay' = [stay EXCEPT ![of[p]] = Ending(@)] /\ Goes(Own(p), "exit1", of[p])
      /\ UNCHANGED <<script, gen, gate, made, of, loc, online, together, cut>>
  BY Kinds, Typed DEF Revive, At, places, Ends
<1>2. \A u \in Threads : u # Own(p) => act'[u] = act[u]
  BY <1>1, OneGoes DEF Steps
<1>3. QED
  BY <1>1, <1>2, EndsLeaves, IdleCarries

LEMMA KickCarries ==
  ASSUME IInv, NEW p \in Leavers, Kick(p)
  PROVE  Carries(Kicker(p))
<1> DEFINE t == Kicker(p)
<1> USE DEF IInv, Base
<1>1. /\ t \in Threads /\ p \in Players /\ act[t].at = "free" /\ of[p] \in Nat
      /\ UNCHANGED <<script, gen, gate, made, of, loc, online, together, cut>>
  BY Kinds, Typed, Numbers DEF Kick, At, places
<1>2. \A u \in Threads : u # t => act'[u] = act[u]
  <2>1. Goes(t, "exit1", of[p]) \/ Goes(t, "gone", 0)
    BY DEF Kick
  <2>2. QED
    BY <1>1, <2>1, OneGoes DEF Steps
<1>3. \A i \in Made : /\ stay'[i].in = stay[i].in /\ stay'[i].guest = stay[i].guest
                      /\ stay'[i].timer = stay[i].timer
  <2>1. CASE of[p] # 0
    <3>1. of[p] \in Made /\ stay' = [stay EXCEPT ![of[p]] = Ending(@)]
      BY <1>1, <2>1, Typed DEF Kick, Ends
    <3>2. QED
      BY <3>1, EndsLeaves
  <2>2. CASE of[p] = 0
    BY <2>2 DEF Kick
  <2>3. QED
    BY <2>1, <2>2
<1>4. QED
  BY <1>1, <1>2, <1>3, IdleCarries

\* The character leaves the channel: with a stay he may cut a gate off.
LEMMA GoneCarries ==
  ASSUME IInv, NEW p \in Leavers, Gone(p)
  PROVE  Carries(Kicker(p))
<1> DEFINE t == Kicker(p)
<1>1. /\ t \in Threads /\ act[t].at = "gone" /\ Goes(t, "free", 0) /\ online' = online \ {p}
      /\ cut' = IF of[p] # 0 /\ ~Timed THEN cut \cup {stay[of[p]].mgr} ELSE cut
      /\ UNCHANGED <<script, gen, gate, made, stay, of, loc, together>>
  BY Kinds DEF Gone, At
<1>2. \A u \in Threads : u # t => act'[u] = act[u]
  BY <1>1, OneGoes DEF IInv, Base, Steps
<1>3. \A q \in online \ online' : ~Timed /\ of[q] # 0 => stay[of[q]].mgr \in cut'
  BY <1>1
<1>4. cut \subseteq cut'
  BY <1>1
<1>5. QED
  BY <1>1, <1>2, <1>3, <1>4, IdleCarries DEF IInv, Base

LEMMA FireCarries ==
  ASSUME IInv, NEW k \in Stays, Fire(k)
  PROVE  Carries(Timer(k))
<1> DEFINE t == Timer(k)
<1> USE DEF IInv, Base
<1>1. /\ t \in Threads /\ act[t].at = "free" /\ stay[k].timer /\ k \in Nat
      /\ stay' = [stay EXCEPT ![k].timer = FALSE]
      /\ IF room.answers THEN Goes(t, "due", k) ELSE UNCHANGED act
      /\ UNCHANGED <<script, gen, gate, made, of, loc, online, together, cut>>
  BY Kinds, Numbers DEF Fire, At, places
<1>2. /\ \A u \in Threads : u # t => act'[u] = act[u]
      /\ Timed => act'[t].at = "due"
  <2>1. CASE room.answers
    BY <1>1, <2>1, OneGoes DEF Steps
  <2>2. CASE ~room.answers
    BY <1>1, <2>2 DEF Timed
  <2>3. QED
    BY <2>1, <2>2
<1>3. \A i \in Made : /\ stay'[i].in = stay[i].in /\ stay'[i].guest = stay[i].guest
                      /\ i # k => stay'[i].timer = stay[i].timer
  <2>1. stay \in [Stays -> Stay \cup {NoStay}] /\ \A i \in Made : i \in Stays /\ stay[i] \in Stay
    BY Typed DEF TypeOK
  <2>2. QED
    BY <1>1, <2>1 DEF Stay
<1>4. ASSUME NEW i \in Made, Holds(i) PROVE Holds(i)'
  BY <1>1, <1>2, <1>3, <1>4, HoldPasses DEF Shutting
<1>5. ASSUME NEW i \in Made, Timed, Watches(i) PROVE Watches(i)'
  BY <1>1, <1>2, <1>3, <1>5, WatchPasses DEF Entering
<1>6. QED
  BY <1>1, <1>4, <1>5 DEF Carries

LEMMA TimeoutCarries ==
  ASSUME IInv, NEW k \in Stays, Timeout(k)
  PROVE  Carries(Timer(k))
<1> DEFINE t == Timer(k)
<1> USE DEF IInv, Base
<1>1. /\ t \in Threads /\ act[t].at = "due" /\ act[t].on = k /\ k \in Made /\ k \in Nat
      /\ stay' = [stay EXCEPT ![k] = Ending(@)]
      /\ Goes(t, IF stay[k].in THEN "exit1" ELSE "empty", k)
      /\ UNCHANGED <<script, gen, gate, made, of, loc, online, together, cut>>
  BY Kinds, Numbers DEF Timeout, At, places, Ends, Abouts
<1>2. /\ \A u \in Threads : u # t => act'[u] = act[u]
      /\ act'[t].at = (IF stay[k].in THEN "exit1" ELSE "empty") /\ act'[t].on = k
  BY <1>1, OneGoes DEF Steps
<1>3. \A i \in Made : /\ stay'[i].in = stay[i].in /\ stay'[i].guest = stay[i].guest
                      /\ stay'[i].timer = stay[i].timer
  BY <1>1, EndsLeaves
<1>4. ASSUME NEW i \in Made, Holds(i) PROVE Holds(i)'
  BY <1>1, <1>2, <1>3, <1>4, HoldPasses DEF Shutting
<1>5. ASSUME NEW i \in Made, stay'[i].in, Watches(i) PROVE Watches(i)'
  BY <1>1, <1>2, <1>3, <1>5, Kinds, Names, WatchPasses DEF Entering
<1>6. QED
  BY <1>1, <1>4, <1>5 DEF Carries

\* Nothing a gate is opened by changes but where a thread is.
LEMMA StandsOInv ==
  ASSUME IInv, OInv, UNCHANGED <<script, gate, made, stay, online, together, cut>>,
         gen' \in Nat, gen <= gen',
         \A i \in Made : Holds(i) => Holds(i)',
         \A i \in Made : Watches(i) => Watches(i)'
  PROVE  OInv'
<1>1. Made' = Made /\ Timed' = Timed /\ made \in Nat /\ gen \in Nat
  BY Typed, Numbers DEF IInv, Base, TypeOK, Made, Timed, room
<1>2. GateHeld'
  BY <1>1 DEF OInv, GateHeld
<1>3. Watched'
  BY <1>1 DEF OInv, Watched
<1>4. Present'
  <2>1. \A g : Deceived(g)' = Deceived(g)
    BY DEF Deceived
  <2>2. Calm' => Calm
    BY <1>1, <2>1 DEF Calm
  <2>3. QED
    BY <1>1, <2>2 DEF OInv, Present
<1>5. QED
  BY <1>2, <1>3, <1>4 DEF OInv

LEMMA AskOInv ==
  ASSUME IInv, OInv, NEW p \in Players, Ask(p)
  PROVE  OInv'
<1> DEFINE t == Own(p)
<1>1. /\ UNCHANGED <<script, gen, gate, made, stay, of, loc, online, together, cut>>
      /\ t \in Threads /\ act[t].at = "free" /\ Goes(t, "asked", gen) /\ gen \in Nat
  BY Kinds, Numbers DEF Ask, places, At, IInv, Base, TypeOK
<1>2. \A u \in Threads : u # t => act'[u] = act[u]
  BY <1>1, OneGoes DEF IInv, Base, Steps
<1>3. ASSUME NEW i \in Made, Holds(i) PROVE Holds(i)'
  BY <1>1, <1>2, <1>3, HoldPasses DEF Shutting
<1>4. ASSUME NEW i \in Made, Watches(i) PROVE Watches(i)'
  BY <1>1, <1>2, <1>4, WatchPasses DEF Entering, IInv, Base
<1>5. QED
  BY <1>1, <1>3, <1>4, StandsOInv

\* The thread that shuts a gate holds it.
LEMMA SetupOInv ==
  ASSUME IInv, OInv, NEW p \in Players, Setup(p)
  PROVE  OInv'
<1> DEFINE t == Own(p)
<1> USE DEF IInv, Base
<1>1. PICK g \in Managers : g = act[t].on
  BY Numbers DEF Setup, Abouts, At, TypeOK
<1>2. PICK k \in Stays : k = made + 1
  BY Numbers DEF Setup, TypeOK
<1>3. /\ act[t].at = "asked" /\ t \in Threads /\ made' = k /\ k \in Nat /\ k \notin Made /\ made \in Nat
      /\ gate' = [gate EXCEPT ![g] = "1"] /\ Goes(t, "made", k)
      /\ stay' = [stay EXCEPT ![k] = [NoStay EXCEPT !.mgr = g, !.guest = p]]
      /\ together \subseteq together'
      /\ UNCHANGED <<script, gen, of, loc, online, cut>>
  BY <1>1, <1>2, Kinds, Numbers DEF Setup, At, TypeOK, Made
<1>4. /\ act'[t].at = "made" /\ act'[t].on = k
      /\ \A u \in Threads : u # t => act'[u] = act[u]
  BY <1>3, OneGoes DEF Steps
<1>5. /\ stay'[k].mgr = g /\ ~stay'[k].in /\ \A i \in Made : stay'[i] = stay[i]
      /\ Made' = Made \cup {k}
  <2>1. \A i \in Made : i \in Stays /\ i # k
    BY <1>3, Typed
  <2>2. Made' = Made \cup {k}
    BY <1>2, <1>3 DEF Made
  <2>3. QED
    BY <1>2, <1>3, <2>1, <2>2 DEF TypeOK, NoStay
<1>6. ASSUME NEW i \in Made, Holds(i) PROVE Holds(i)'
  BY <1>3, <1>4, <1>5, <1>6, HoldPasses DEF Shutting
<1>7. ASSUME NEW i \in Made, Watches(i) PROVE Watches(i)'
  BY <1>3, <1>4, <1>5, <1>7, WatchPasses DEF Entering
<1>8. GateHeld'
  <2> SUFFICES ASSUME NEW h \in Managers, gate'[h] = "1", h \notin cut
               PROVE  \E i \in Made' : stay'[i].mgr = h /\ Holds(i)'
    BY <1>3 DEF GateHeld
  <2>1. CASE h = g
    BY <1>4, <1>5, <2>1 DEF Holds, At
  <2>2. CASE h # g
    <3>1. gate[h] = "1"
      BY <1>3, <2>2 DEF TypeOK
    <3>2. PICK i \in Made : stay[i].mgr = h /\ Holds(i)
      BY <3>1 DEF OInv, GateHeld
    <3>3. QED
      BY <1>5, <1>6, <3>2
  <2>3. QED
    BY <2>1, <2>2
<1>9. Watched'
  BY <1>3, <1>5, <1>7 DEF OInv, Watched, Timed, room
<1>10. Present'
  <2>1. made <= made' /\ made' \in Nat /\ gen \in Nat
    BY <1>2, <1>3, Numbers DEF TypeOK
  <2>2. Calm' => Calm
    BY <1>3, <1>5, <2>1, DeceivedStays
  <2>3. QED
    BY <1>3, <1>5, <2>2 DEF OInv, Present, Timed, room
<1>11. QED
  BY <1>8, <1>9, <1>10 DEF OInv

\* The thread that registers the guest has the timer to set.
LEMMA RegisterOInv ==
  ASSUME IInv, OInv, NEW p \in Players, p \in online, Register(p)
  PROVE  OInv'
<1> DEFINE t == Own(p)
<1> USE DEF IInv, Base
<1>1. PICK k \in Made : k = act[t].on
  BY DEF Register, Abouts, At
<1>2. /\ act[t].at = "made" /\ t \in Threads /\ k \in Nat /\ k \in Stays /\ stay[k].guest = p
      /\ stay' = [stay EXCEPT ![k].in = TRUE] /\ Goes(t, "registered", k)
      /\ UNCHANGED <<script, gen, gate, made, loc, online, together, cut>>
  BY <1>1, Kinds, Typed DEF Register, Abouts, At, Made
<1>3. /\ act'[t].at = "registered" /\ act'[t].on = k
      /\ \A u \in Threads : u # t => act'[u] = act[u]
  BY <1>2, OneGoes DEF Steps
<1>4. /\ stay'[k].in /\ stay'[k].guest = p /\ \A i \in Made : i # k => stay'[i] = stay[i]
      /\ \A i \in Made : /\ stay'[i].mgr = stay[i].mgr /\ stay'[i].guest = stay[i].guest
                         /\ stay'[i].timer = stay[i].timer /\ stay'[i].ends = stay[i].ends
      /\ Made' = Made /\ Timed' = Timed
  <2>1. stay \in [Stays -> Stay \cup {NoStay}] /\ \A i \in Made : i \in Stays /\ stay[i] \in Stay
    BY Typed DEF TypeOK
  <2>2. Made' = Made /\ Timed' = Timed
    BY <1>2 DEF Made, Timed, room
  <2>3. /\ stay'[k] = [stay[k] EXCEPT !.in = TRUE]
        /\ \A i \in Made : i # k => stay'[i] = stay[i]
    BY <1>2, <2>1
  <2>4. /\ stay'[k].in /\ stay'[k].guest = p /\ stay'[k].mgr = stay[k].mgr
        /\ stay'[k].timer = stay[k].timer /\ stay'[k].ends = stay[k].ends
    BY <1>2, <2>1, <2>3 DEF Stay
  <2>5. QED
    BY <1>2, <2>2, <2>3, <2>4
<1>5. ASSUME NEW i \in Made, Holds(i) PROVE Holds(i)'
  <2>1. CASE i = k
    BY <1>4, <2>1 DEF Holds
  <2>2. CASE i # k
    BY <1>1, <1>2, <1>3, <1>4, <1>5, <2>2, HoldPasses
  <2>3. QED
    BY <2>1, <2>2
<1>6. ASSUME NEW i \in Made, Timed, stay'[i].in PROVE Watches(i)'
  <2>1. CASE i = k
    BY <1>3, <1>4, <2>1 DEF Watches, Entering
  <2>2. CASE i # k
    <3>1. Watches(i)
      BY <1>4, <1>6, <2>2 DEF OInv, Watched
    <3>2. QED
      BY <1>2, <1>3, <1>4, <2>2, <3>1, WatchPasses, Kinds, Names DEF Entering
  <2>3. QED
    BY <2>1, <2>2
<1>7. GateHeld'
  BY <1>2, <1>4, <1>5 DEF OInv, GateHeld
<1>8. Watched'
  BY <1>4, <1>6 DEF Watched
<1>9. Present'
  <2>1. Calm' => Calm
    BY <1>2, <1>4, Typed, Numbers, DeceivedStays DEF TypeOK
  <2>2. QED
    BY <1>2, <1>4, <2>1 DEF OInv, Present
<1>10. QED
  BY <1>7, <1>8, <1>9 DEF OInv

\* The other steps.
LEMMA SystemOInv ==
  ASSUME IInv, OInv, System
  PROVE  OInv'
<1>1. ASSUME NEW p \in Players, LetIn(p) PROVE OInv'
  <2>1. CASE Register(p)
    <3>1. CASE p \in online
      BY <2>1, <3>1, RegisterOInv
    <3>2. CASE p \notin online
      BY <2>1, <3>2, RegisterLater, RegisterCarries, CarriesOInv, Kinds
    <3>3. QED
      BY <3>1, <3>2
  <2>2. QED
    BY <1>1, <2>1, SetupOInv, EnterLater, EnterCarries, ArmLater, ArmCarries, CarriesOInv, Kinds DEF LetIn
<1>2. ASSUME NEW p \in Leavers, Gone(p) PROVE OInv'
  BY <1>2, GoneLater, GoneCarries, CarriesOInv, Kinds
<1>3. ASSUME NEW t \in Threads, PlayerExit(t) PROVE OInv'
  <2>1. CASE Unregister(t, "exit1", "exit2")
    BY <2>1, UnregisterLater, UnregisterCarries, CarriesOInv
  <2>2. CASE Reopen(t, "exit2", "exit3")
    BY <2>2, ReopenLater, ReopenCarries, CarriesOInv
  <2>3. CASE ChangeMap(t, "exit3", Over(act[t].on))
    BY <2>3, ExitLater, ExitCarries, CarriesOInv
  <2>4. QED
    BY <1>3, <2>1, <2>2, <2>3 DEF PlayerExit
<1>4. ASSUME NEW t \in Threads, ChangedMap(t) PROVE OInv'
  <2>1. CASE Unregister(t, "moved1", "moved2")
    BY <2>1, UnregisterLater, UnregisterCarries, CarriesOInv
  <2>2. CASE ~Unregister(t, "moved1", "moved2")
    <3>1. Later(t) /\ Carries(t)
      BY <1>4, <2>2, MovedLater, MovedCarries DEF ChangedMap, At
    <3>2. QED
      BY <3>1, CarriesOInv
  <2>3. QED
    BY <2>1, <2>2
<1>5. ASSUME NEW i \in Stays, Fire(i) \/ Timeout(i) \/ Emptied(i) PROVE OInv'
  <2>1. Later(Timer(i)) /\ Carries(Timer(i)) /\ Timer(i) \in Threads
    BY <1>5, FireLater, FireCarries, TimeoutLater, TimeoutCarries, EmptiedLater, EmptiedCarries, Kinds
  <2>2. QED
    BY <2>1, CarriesOInv
<1>6. QED
  BY <1>1, <1>2, <1>3, <1>4, <1>5 DEF System, Hooks

LEMMA NextOInv ==
  ASSUME IInv, OInv, [Next]_vars
  PROVE  OInv'
<1>1. CASE System
  BY <1>1, SystemOInv
<1>2. ASSUME NEW p \in Players, Ask(p) PROVE OInv'
  BY <1>2, AskOInv
<1>3. ASSUME NEW p \in Players, Leave(p) \/ Walk(p) \/ Revive(p) PROVE OInv'
  <2>1. Later(Own(p)) /\ Carries(Own(p)) /\ Own(p) \in Threads
    BY <1>3, LeaveLater, LeaveCarries, WalkLater, WalkCarries, ReviveLater, ReviveCarries, Kinds
  <2>2. QED
    BY <2>1, CarriesOInv
<1>4. ASSUME NEW p \in Leavers, Kick(p) PROVE OInv'
  BY <1>4, KickLater, KickCarries, CarriesOInv, Kinds
<1>5. CASE Reload \/ UNCHANGED vars
  <2>1. /\ UNCHANGED <<script, gate, made, stay, of, loc, online, act, together, cut>>
        /\ gen \in Nat /\ gen' \in Nat /\ gen <= gen'
    BY <1>5, Numbers DEF Reload, vars, IInv, Base, TypeOK
  <2>2. (\A i : Holds(i)' = Holds(i)) /\ (\A i : Watches(i)' = Watches(i))
    BY <2>1 DEF Holds, Watches, At
  <2>3. QED
    BY <2>1, <2>2, StandsOInv
<1>6. QED
  BY <1>1, <1>2, <1>3, <1>4, <1>5 DEF Next

\* Who has yet to open the gate of stay i: the thread that lets its guest in or one that ends
\* it, the timer that will send him out, or, where no timer does, he himself, who is online
\* as long as no gate has been deceived and the scripts were not loaded anew twice.
Opener(i) ==
    \/ \E p \in Players : At(Own(p), "made") /\ act[Own(p)].on = i
    \/ \E t \in Threads : act[t].at \in Shutting /\ act[t].on = i
    \/ stay[i].in /\ Timed /\ Watches(i)
    \/ stay[i].in /\ ~Timed /\ (Calm => stay[i].guest \in online)

SomebodyOpens == \A g \in Managers :
    gate[g] = "0" \/ g \in cut \/ \E i \in Made : stay[i].mgr = g /\ Opener(i)

\* A gate is never left shut with nobody to open it, unless its guest was cut off as he was
\* let in: whatever interrupts what (a disconnection, the timer, another end of the stay),
\* some thread, a timer that is set, or the guest is still to do so.  It is what Reopens
\* asks, but for the fairness that lets them get to it.
THEOREM SomebodyOpensHolds == Spec => []SomebodyOpens
<1>1. Init => OInv
  <2> SUFFICES ASSUME Init PROVE OInv
    OBVIOUS
  <2>1. made = 0 /\ gate = [g \in Managers |-> "0"]
    BY DEF Init
  <2>2. Made = {}
    BY <2>1 DEF Made
  <2>3. QED
    BY <2>1, <2>2 DEF OInv, GateHeld, Watched, Present
<1>2. IInv /\ OInv /\ [Next]_vars => OInv'
  BY NextOInv
<1>3. IInv /\ OInv => SomebodyOpens
  <2> SUFFICES ASSUME IInv, OInv, NEW g \in Managers, gate[g] # "0", g \notin cut
               PROVE  \E i \in Made : stay[i].mgr = g /\ Opener(i)
    BY DEF SomebodyOpens
  <2>1. gate[g] = "1"
    BY DEF IInv, Base, TypeOK
  <2>2. PICK i \in Made : stay[i].mgr = g /\ Holds(i)
    BY <2>1 DEF OInv, GateHeld
  <2>3. stay[i].in => Opener(i)
    BY <2>2 DEF OInv, Watched, Present, Opener
  <2>4. Opener(i)
    BY <2>2, <2>3 DEF Holds, Opener
  <2>5. QED
    BY <2>2, <2>4
<1>4. QED
  BY Invariance, <1>1, <1>2, <1>3, PTL DEF Spec
=============================================================================
