---------------------------- MODULE Drops_proofs ----------------------------
(***************************************************************************)
(* For every set of players and drops a drop is given away at most once.   *)
(* GrantedOnce alone is not inductive: a grant must know that the drop it  *)
(* makes was not given before.  What carries the argument is the monitor:  *)
(* a drop that was given is marked, or its monitor is still held by the    *)
(* player it was given to, who is past the grant.                          *)
(***************************************************************************)
EXTENDS Drops, TLAPS

Busy == {"inside", "expire", "mark", "remove"}

\* Whoever waits knows for what; who is busy holds the monitor of what he wants.
BusyHolds == \A p \in Players :
    /\ pc[p] # "idle" => want[p] \in Drops
    /\ pc[p] \in Busy => monitor[want[p]] = p

\* A monitor is held by a player who is busy with its drop.
HeldByBusy == \A d \in Drops : monitor[d] # Nobody =>
    /\ monitor[d] \in Players
    /\ want[monitor[d]] = d
    /\ pc[monitor[d]] \in Busy

\* Before the grant nothing was given; an ordinary drop is marked when it is removed.
BeforeGrant == \A p \in Players :
    /\ pc[p] = "inside" => granted[want[p]] = 0
    /\ pc[p] = "remove" /\ want[p] \notin Points => pickedUp[want[p]]

\* What was given is marked or still in the hands of the player it was given to.
Given == \A d \in Drops : granted[d] # 0 => pickedUp[d] \/ monitor[d] # Nobody

IInv == TypeOK /\ BusyHolds /\ HeldByBusy /\ BeforeGrant /\ Given /\ GrantedOnce

\* The initial states satisfy the invariant.
LEMMA InitInv == Init => IInv
<1> SUFFICES ASSUME Init PROVE IInv
  OBVIOUS
<1> USE DEF Init
<1>1. TypeOK
  <2>1. owner \in [Drops -> Players \cup Parties]
    BY ConstantsAssumption DEF OwnerFor
  <2> QED
    BY <2>1 DEF TypeOK, NoScan, Resting, Falling, Expired
<1>2. BusyHolds /\ HeldByBusy /\ BeforeGrant /\ Given /\ GrantedOnce
  BY DEF BusyHolds, HeldByBusy, BeforeGrant, Given, GrantedOnce, Busy
<1> QED
  BY <1>1, <1>2 DEF IInv

\* A step that touches neither the requests nor the grants, and only ever marks
\* more drops, preserves the invariant.
LEMMA OnlyMarks ==
  ASSUME IInv, TypeOK', UNCHANGED <<players, monitor, granted>>,
         \A d \in Drops : pickedUp[d] => pickedUp'[d]
  PROVE  IInv'
BY DEF IInv, BusyHolds, HeldByBusy, BeforeGrant, Given, GrantedOnce, players

\* Each step of a player preserves the type invariant.
LEMMA PlayerTypes ==
  ASSUME TypeOK, BusyHolds, NEW p \in Players,
         (\E d \in Drops : Request(p, d)) \/ Enter(p) \/ PickUpStep(p)
  PROVE  TypeOK'
<1>1. ASSUME NEW d \in Drops, Request(p, d) PROVE TypeOK'
  BY <1>1 DEF TypeOK, Request
<1>2. CASE Enter(p)
  BY <1>2 DEF TypeOK, Enter
<1>3. CASE Grant(p)
  <2>1. granted' \in [Drops -> Nat]
    <3>1. want[p] \in Drops /\ granted' = [granted EXCEPT ![want[p]] = granted[want[p]] + 1]
      BY <1>3 DEF BusyHolds, Grant
    <3> QED
      BY <3>1 DEF TypeOK
  <2>2. others' \in [Players -> SUBSET Drops]
    <3>1. \E S \in SUBSET Drops : others' = [others EXCEPT ![p] = S]
      BY <1>3 DEF TypeOK, Grant
    <3> QED
      BY <3>1 DEF TypeOK
  <2>3. \E s \in {"remove", "expire", "mark"} : pc' = [pc EXCEPT ![p] = s]
    BY <1>3 DEF Grant
  <2> QED
    BY <1>3, <2>1, <2>2, <2>3 DEF TypeOK, Grant
<1>4. CASE GiveUp(p)
  BY <1>4 DEF TypeOK, GiveUp
<1>5. CASE ExpireOther(p)
  <2>1. CASE others[p] = {}
    BY <1>5, <2>1 DEF TypeOK, ExpireOther
  <2>2. CASE others[p] # {}
    <3>1. PICK e \in others[p] :
             /\ pickedUp' = [pickedUp EXCEPT ![e] = TRUE]
             /\ onMap' = onMap \ {e}
             /\ others' = [others EXCEPT ![p] = others[p] \ {e}]
      BY <1>5, <2>2 DEF ExpireOther
    <3>2. others[p] \ {e} \in SUBSET Drops
      BY DEF TypeOK
    <3>3. UNCHANGED <<pc, owner, age, monitor, want, party, granted, scan, reactor>>
      BY <1>5, <2>2 DEF ExpireOther
    <3> QED
      BY <3>1, <3>2, <3>3 DEF TypeOK
  <2> QED
    BY <2>1, <2>2
<1>6. CASE Mark(p)
  BY <1>6 DEF TypeOK, Mark, Leave
<1>7. CASE Remove(p)
  <2>1. CASE want[p] \in Points
    BY <1>7, <2>1 DEF TypeOK, Remove
  <2>2. CASE want[p] \notin Points
    BY <1>7, <2>2 DEF TypeOK, Remove, Leave
  <2> QED
    BY <2>1, <2>2
<1> QED
  BY <1>1, <1>2, <1>3, <1>4, <1>5, <1>6, <1>7 DEF PickUpStep

LEMMA RequestStep ==
  ASSUME IInv, NEW p \in Players, NEW d \in Drops, Request(p, d)
  PROVE  IInv'
<1>1. TypeOK'
  BY PlayerTypes DEF IInv
<1>2. BusyHolds' /\ HeldByBusy' /\ BeforeGrant' /\ Given' /\ GrantedOnce'
  BY DEF IInv, TypeOK, BusyHolds, HeldByBusy, BeforeGrant, Given, GrantedOnce, Busy, Request
<1> QED
  BY <1>1, <1>2 DEF IInv

\* Entering finds the drop unmarked and its monitor free: nothing was given.
LEMMA EnterStep ==
  ASSUME IInv, NEW p \in Players, Enter(p)
  PROVE  IInv'
<1>1. TypeOK'
  BY PlayerTypes DEF IInv
<1> DEFINE d == want[p]
<1>2. d \in Drops /\ monitor[d] = Nobody /\ p # Nobody
  BY ConstantsAssumption DEF IInv, BusyHolds, Enter
<1>3. CASE ~ pickedUp[d] /\ MayTake(p, d)
  <2>1. granted[d] = 0
    BY <1>2, <1>3 DEF IInv, Given
  <2>2. /\ monitor' = [monitor EXCEPT ![d] = p]
        /\ pc' = [pc EXCEPT ![p] = "inside"]
        /\ UNCHANGED <<want, granted, pickedUp>>
    BY <1>3 DEF Enter
  <2>3. pc[p] = "waiting"
    BY DEF Enter
  <2>4. BusyHolds'
    <3> SUFFICES ASSUME NEW q \in Players
                 PROVE  /\ pc'[q] # "idle" => want'[q] \in Drops
                        /\ pc'[q] \in Busy => monitor'[want'[q]] = q
      BY DEF BusyHolds
    <3>1. CASE q = p
      BY <1>2, <2>2, <3>1 DEF IInv, TypeOK
    <3>2. CASE q # p
      <4>1. pc[q] \in Busy => want[q] \in Drops /\ want[q] # d /\ q # Nobody
        BY <1>2, ConstantsAssumption DEF IInv, BusyHolds, Busy
      <4> QED
        BY <2>2, <3>2, <4>1 DEF IInv, TypeOK, BusyHolds
    <3> QED
      BY <3>1, <3>2
  <2>5. HeldByBusy'
    BY <1>2, <2>2, <2>3 DEF IInv, TypeOK, HeldByBusy, Busy
  <2>6. BeforeGrant' /\ Given' /\ GrantedOnce'
    BY <1>2, <2>1, <2>2 DEF IInv, TypeOK, BeforeGrant, Given, GrantedOnce
  <2> QED
    BY <1>1, <2>4, <2>5, <2>6 DEF IInv
<1>4. CASE ~ (~ pickedUp[d] /\ MayTake(p, d))
  <2>1. /\ pc' = [pc EXCEPT ![p] = "idle"]
        /\ UNCHANGED <<monitor, want, granted, pickedUp>>
    BY <1>4 DEF Enter
  <2>2. pc[p] = "waiting"
    BY DEF Enter
  <2>3. BusyHolds' /\ HeldByBusy' /\ BeforeGrant' /\ Given' /\ GrantedOnce'
    BY <2>1, <2>2 DEF IInv, TypeOK, BusyHolds, HeldByBusy, BeforeGrant, Given, GrantedOnce, Busy
  <2> QED
    BY <1>1, <2>3 DEF IInv
<1> QED
  BY <1>3, <1>4

\* The grant: its player holds the monitor, so no other can be before a grant
\* of the same drop.
LEMMA GrantStep ==
  ASSUME IInv, NEW p \in Players, Grant(p)
  PROVE  IInv'
<1>1. TypeOK'
  BY PlayerTypes DEF IInv, PickUpStep
<1> DEFINE d == want[p]
<1>2. /\ d \in Drops /\ monitor[d] = p /\ granted[d] = 0 /\ p # Nobody
      /\ pc[p] = "inside"
  BY ConstantsAssumption DEF IInv, BusyHolds, BeforeGrant, Busy, Grant
<1>3. /\ granted' = [granted EXCEPT ![d] = granted[d] + 1]
      /\ UNCHANGED <<want, monitor, pickedUp>>
      /\ \E s \in {"remove", "expire", "mark"} : pc' = [pc EXCEPT ![p] = s]
      /\ want[p] \notin Points => pc'[p] # "remove"
  BY <1>2 DEF Grant, IInv, TypeOK
<1>4. BusyHolds' /\ HeldByBusy'
  BY <1>2, <1>3 DEF IInv, TypeOK, BusyHolds, HeldByBusy, Busy
<1>5. BeforeGrant'
  <2> SUFFICES ASSUME NEW q \in Players
               PROVE  /\ pc'[q] = "inside" => granted'[want'[q]] = 0
                      /\ pc'[q] = "remove" /\ want'[q] \notin Points => pickedUp'[want'[q]]
    BY DEF BeforeGrant
  <2>1. CASE q = p
    BY <1>2, <1>3, <2>1 DEF IInv, TypeOK
  <2>2. CASE q # p
    <3>1. pc'[q] = pc[q] /\ want'[q] = want[q]
      BY <1>3, <2>2 DEF IInv, TypeOK
    <3>2. pc[q] = "inside" => want[q] # d /\ want[q] \in Drops
      BY <1>2, <2>2 DEF IInv, BusyHolds, Busy
    <3> QED
      BY <1>3, <3>1, <3>2 DEF IInv, TypeOK, BeforeGrant
  <2> QED
    BY <2>1, <2>2
<1>6. Given' /\ GrantedOnce'
  BY <1>2, <1>3 DEF IInv, TypeOK, Given, GrantedOnce
<1> QED
  BY <1>1, <1>4, <1>5, <1>6 DEF IInv

\* The monitor is left without a grant.
LEMMA GiveUpStep ==
  ASSUME IInv, NEW p \in Players, GiveUp(p)
  PROVE  IInv'
<1>1. TypeOK'
  BY PlayerTypes DEF IInv, PickUpStep
<1> DEFINE d == want[p]
<1>2. d \in Drops /\ monitor[d] = p /\ granted[d] = 0
  BY DEF IInv, BusyHolds, BeforeGrant, Busy, GiveUp
<1>3. /\ pc' = [pc EXCEPT ![p] = "idle"]
      /\ monitor' = [monitor EXCEPT ![d] = Nobody]
      /\ UNCHANGED <<want, granted, pickedUp>>
  BY DEF GiveUp
<1>4. BusyHolds' /\ HeldByBusy'
  BY <1>2, <1>3 DEF IInv, TypeOK, BusyHolds, HeldByBusy, Busy
<1>5. BeforeGrant' /\ Given' /\ GrantedOnce'
  BY <1>2, <1>3 DEF IInv, TypeOK, BeforeGrant, Given, GrantedOnce
<1> QED
  BY <1>1, <1>4, <1>5 DEF IInv

\* The other drops are marked, or the turn passes to the drop itself.
LEMMA ExpireOtherStep ==
  ASSUME IInv, NEW p \in Players, ExpireOther(p)
  PROVE  IInv'
<1>1. TypeOK'
  BY PlayerTypes DEF IInv, PickUpStep
<1>2. CASE others[p] = {}
  <2>1. /\ pc[p] = "expire" /\ pc' = [pc EXCEPT ![p] = "mark"]
        /\ UNCHANGED <<want, granted, pickedUp, monitor>>
    BY <1>2 DEF ExpireOther
  <2>2. BusyHolds' /\ HeldByBusy' /\ BeforeGrant' /\ Given' /\ GrantedOnce'
    BY <2>1 DEF IInv, TypeOK, BusyHolds, HeldByBusy, BeforeGrant, Given, GrantedOnce, Busy
  <2> QED
    BY <1>1, <2>2 DEF IInv
<1>3. CASE others[p] # {}
  <2>1. PICK e \in others[p] : pickedUp' = [pickedUp EXCEPT ![e] = TRUE]
    BY <1>3 DEF ExpireOther
  <2>2. \A d \in Drops : pickedUp[d] => pickedUp'[d]
    BY <2>1 DEF IInv, TypeOK
  <2>3. UNCHANGED <<pc, want, granted, monitor>>
    BY <1>3 DEF ExpireOther
  <2>4. BusyHolds' /\ HeldByBusy' /\ GrantedOnce'
    BY <2>3 DEF IInv, BusyHolds, HeldByBusy, GrantedOnce
  <2>5. BeforeGrant' /\ Given'
    BY <2>2, <2>3 DEF IInv, BusyHolds, BeforeGrant, Given
  <2> QED
    BY <1>1, <2>4, <2>5 DEF IInv
<1> QED
  BY <1>2, <1>3

LEMMA MarkStep ==
  ASSUME IInv, NEW p \in Players, Mark(p)
  PROVE  IInv'
<1>1. TypeOK'
  BY PlayerTypes DEF IInv, PickUpStep
<1> DEFINE d == want[p]
<1>2. d \in Drops /\ monitor[d] = p /\ pc[p] = "mark"
  BY DEF IInv, BusyHolds, Busy, Mark
<1>3. /\ pickedUp' = [pickedUp EXCEPT ![d] = TRUE]
      /\ UNCHANGED <<want, granted>>
  BY DEF Mark
<1>4. CASE d \in Points
  <2>1. /\ pc' = [pc EXCEPT ![p] = "idle"]
        /\ monitor' = [monitor EXCEPT ![d] = Nobody]
    BY <1>4 DEF Mark, Leave
  <2>2. BusyHolds' /\ HeldByBusy'
    BY <1>2, <1>3, <2>1 DEF IInv, TypeOK, BusyHolds, HeldByBusy, Busy
  <2>3. BeforeGrant' /\ Given' /\ GrantedOnce'
    BY <1>2, <1>3, <2>1 DEF IInv, TypeOK, BusyHolds, BeforeGrant, Given, GrantedOnce
  <2> QED
    BY <1>1, <2>2, <2>3 DEF IInv
<1>5. CASE d \notin Points
  <2>1. /\ pc' = [pc EXCEPT ![p] = "remove"]
        /\ UNCHANGED monitor
    BY <1>5 DEF Mark
  <2>2. BusyHolds' /\ HeldByBusy'
    BY <1>2, <1>3, <2>1 DEF IInv, TypeOK, BusyHolds, HeldByBusy, Busy
  <2>3. BeforeGrant' /\ Given' /\ GrantedOnce'
    BY <1>2, <1>3, <2>1 DEF IInv, TypeOK, BusyHolds, BeforeGrant, Given, GrantedOnce
  <2> QED
    BY <1>1, <2>2, <2>3 DEF IInv
<1> QED
  BY <1>4, <1>5

\* An ordinary drop is marked by now: its monitor may be left.
LEMMA RemoveStep ==
  ASSUME IInv, NEW p \in Players, Remove(p)
  PROVE  IInv'
<1>1. TypeOK'
  BY PlayerTypes DEF IInv, PickUpStep
<1> DEFINE d == want[p]
<1>2. d \in Drops /\ monitor[d] = p /\ pc[p] = "remove" /\ UNCHANGED <<pickedUp, want, granted>>
  BY DEF IInv, BusyHolds, Busy, Remove
<1>3. CASE d \in Points
  <2>1. /\ pc' = [pc EXCEPT ![p] = "mark"] /\ UNCHANGED monitor
    BY <1>3 DEF Remove
  <2>2. BusyHolds' /\ HeldByBusy' /\ BeforeGrant' /\ Given' /\ GrantedOnce'
    BY <1>2, <2>1 DEF IInv, TypeOK, BusyHolds, HeldByBusy, BeforeGrant, Given, GrantedOnce, Busy
  <2> QED
    BY <1>1, <2>2 DEF IInv
<1>4. CASE d \notin Points
  <2>1. pickedUp[d]
    BY <1>2, <1>4 DEF IInv, BeforeGrant
  <2>2. /\ pc' = [pc EXCEPT ![p] = "idle"]
        /\ monitor' = [monitor EXCEPT ![d] = Nobody]
    BY <1>4 DEF Remove, Leave
  <2>3. BusyHolds' /\ HeldByBusy'
    BY <1>2, <2>2 DEF IInv, TypeOK, BusyHolds, HeldByBusy, Busy
  <2>4. BeforeGrant' /\ Given' /\ GrantedOnce'
    BY <1>2, <2>1, <2>2 DEF IInv, TypeOK, BeforeGrant, Given, GrantedOnce
  <2> QED
    BY <1>1, <2>3, <2>4 DEF IInv
<1> QED
  BY <1>3, <1>4

\* The update thread, the reactor, the clock and the parties only mark drops.
LEMMA OtherSteps ==
  ASSUME IInv,
         \/ ScanStart \/ (\E d \in Drops : ScanVisit(d)) \/ ScanEnd
         \/ (\E d \in Drops : ReactorFinds(d)) \/ ReactorTakes \/ ReactorRemoves
         \/ TimePasses \/ (\E p \in Players : JoinsOrLeaves(p))
  PROVE  IInv'
<1> USE DEF IInv
<1>1. CASE ScanStart
  <2>1. TypeOK'
    BY <1>1 DEF TypeOK, ScanStart, players
  <2> QED
    BY <1>1, <2>1, OnlyMarks DEF ScanStart
<1>2. ASSUME NEW d \in Drops, ScanVisit(d) PROVE IInv'
  <2> DEFINE rest == [scan EXCEPT !.todo = scan.todo \ {d}]
  <2>1. rest \in [on : BOOLEAN, todo : SUBSET Drops, delete : SUBSET Drops]
    BY DEF TypeOK
  <2>2. /\ pickedUp' \in [Drops -> BOOLEAN]
        /\ \A e \in Drops : pickedUp[e] => pickedUp'[e]
    <3>1. UNCHANGED pickedUp \/ pickedUp' = [pickedUp EXCEPT ![d] = TRUE]
      BY <1>2 DEF ScanVisit
    <3> QED
      BY <3>1 DEF TypeOK
  <2>3. scan' \in [on : BOOLEAN, todo : SUBSET Drops, delete : SUBSET Drops]
    <3>1. scan' = rest \/ scan' = NoScan \/ scan' = [rest EXCEPT !.delete = rest.delete \cup {d}]
      BY <1>2 DEF ScanVisit
    <3>2. [rest EXCEPT !.delete = rest.delete \cup {d}]
             \in [on : BOOLEAN, todo : SUBSET Drops, delete : SUBSET Drops]
      BY <2>1
    <3>3. NoScan \in [on : BOOLEAN, todo : SUBSET Drops, delete : SUBSET Drops]
      BY DEF NoScan
    <3> QED
      BY <2>1, <3>1, <3>2, <3>3
  <2>4. UNCHANGED <<onMap, owner, age, monitor, players, party, granted, reactor>>
    BY <1>2 DEF ScanVisit
  <2>5. TypeOK'
    BY <2>2, <2>3, <2>4 DEF TypeOK, players
  <2> QED
    BY <2>2, <2>4, <2>5, OnlyMarks
<1>3. CASE ScanEnd
  <2>1. TypeOK'
    BY <1>3 DEF TypeOK, ScanEnd, NoScan, players
  <2> QED
    BY <1>3, <2>1, OnlyMarks DEF ScanEnd
<1>4. ASSUME NEW d \in Drops, ReactorFinds(d) PROVE IInv'
  <2>1. TypeOK'
    BY <1>4 DEF TypeOK, ReactorFinds, players
  <2> QED
    BY <1>4, <2>1, OnlyMarks DEF ReactorFinds
<1>5. CASE ReactorTakes
  <2>1. TypeOK' /\ \A d \in Drops : pickedUp[d] => pickedUp'[d]
    BY <1>5 DEF TypeOK, ReactorTakes, players
  <2> QED
    BY <1>5, <2>1, OnlyMarks DEF ReactorTakes
<1>6. CASE ReactorRemoves
  <2>1. TypeOK'
    BY <1>6 DEF TypeOK, ReactorRemoves, Resting, players
  <2> QED
    BY <1>6, <2>1, OnlyMarks DEF ReactorRemoves
<1>7. CASE TimePasses
  <2>1. TypeOK'
    BY <1>7 DEF TypeOK, TimePasses, players, Falling, Expired
  <2> QED
    BY <1>7, <2>1, OnlyMarks DEF TimePasses
<1>8. ASSUME NEW p \in Players, JoinsOrLeaves(p) PROVE IInv'
  <2>1. TypeOK'
    BY <1>8 DEF TypeOK, JoinsOrLeaves, players
  <2> QED
    BY <1>8, <2>1, OnlyMarks DEF JoinsOrLeaves
<1> QED
  BY <1>1, <1>2, <1>3, <1>4, <1>5, <1>6, <1>7, <1>8

\* Every reachable state satisfies the inductive invariant.
THEOREM Invariance == Spec => []IInv
<1>1. Init => IInv
  BY InitInv
<1>2. IInv /\ [Next]_vars => IInv'
  <2> SUFFICES ASSUME IInv, [Next]_vars PROVE IInv'
    OBVIOUS
  <2>1. CASE UNCHANGED vars
    BY <2>1 DEF vars, players, IInv, TypeOK, BusyHolds, HeldByBusy, BeforeGrant, Given, GrantedOnce
  <2>2. ASSUME NEW p \in Players, (\E d \in Drops : Request(p, d)) \/ Enter(p) \/ PickUpStep(p)
        PROVE  IInv'
    BY <2>2, RequestStep, EnterStep, GrantStep, GiveUpStep, ExpireOtherStep, MarkStep, RemoveStep
       DEF PickUpStep
  <2> QED
    BY <2>1, <2>2, OtherSteps DEF Next
<1> QED
  BY <1>1, <1>2, PTL DEF Spec

\* No drop is given to two players, or twice to one: SendDropPickUpRequest asks
\* isPickedUp again inside the monitor of the drop, and marks before it leaves.
THEOREM GrantedOnceHolds == Spec => []GrantedOnce
<1>1. IInv => GrantedOnce
  BY DEF IInv
<1> QED
  BY <1>1, Invariance, PTL

\* Every variable keeps its type, for any players, parties and drops.
THEOREM TypeCorrect == Spec => []TypeOK
<1>1. IInv => TypeOK
  BY DEF IInv
<1> QED
  BY <1>1, Invariance, PTL

-----------------------------------------------------------------------------
(* What was given away is gone once its monitor is left                     *)

GivenGone == \A d \in Drops : granted[d] # 0 /\ monitor[d] = Nobody => d \notin onMap

\* Points leave the map before they are marked, and expire no other drops.
PointsGone == \A p \in Players :
    /\ pc[p] = "expire" => want[p] \notin Points
    /\ pc[p] = "mark" /\ want[p] \in Points => want[p] \notin onMap

\* A step that gives nothing, leaves no monitor and marks nobody's request.
LEMMA GoneKept ==
  ASSUME GivenGone, PointsGone, onMap' \subseteq onMap, UNCHANGED <<pc, want, monitor, granted>>
  PROVE  GivenGone' /\ PointsGone'
BY DEF GivenGone, PointsGone

LEMMA GoneStep ==
  ASSUME IInv, GivenGone, PointsGone, [Next]_vars
  PROVE  GivenGone' /\ PointsGone'
<1>1. CASE UNCHANGED vars
  BY <1>1, GoneKept DEF vars, players
<1>2. ASSUME NEW p \in Players, NEW d \in Drops, Request(p, d)
      PROVE  GivenGone' /\ PointsGone'
  BY <1>2 DEF GivenGone, PointsGone, Request, IInv, TypeOK
<1>3. ASSUME NEW p \in Players, Enter(p)
      PROVE  GivenGone' /\ PointsGone'
  <2>1. /\ \A d \in Drops : monitor'[d] = Nobody => monitor[d] = Nobody
        /\ \A q \in Players : pc'[q] \in {"mark", "expire"} => pc'[q] = pc[q]
        /\ UNCHANGED <<onMap, granted, want>>
    BY <1>3, ConstantsAssumption DEF Enter, IInv, TypeOK
  <2>2. QED
    BY <2>1 DEF GivenGone, PointsGone
<1>4. ASSUME NEW p \in Players, Grant(p)
      PROVE  GivenGone' /\ PointsGone'
  <2>1. want[p] \in Drops /\ monitor[want[p]] = p /\ p # Nobody
    BY <1>4, ConstantsAssumption DEF Grant, IInv, BusyHolds, Busy
  <2>2. GivenGone'
    BY <1>4, <2>1 DEF Grant, GivenGone, IInv, TypeOK
  <2>3. PointsGone'
    <3>1. UNCHANGED <<want, onMap>>
      BY <1>4 DEF Grant
    <3>2. \A q \in Players \ {p} : pc'[q] = pc[q]
      BY <1>4 DEF Grant, IInv, TypeOK
    <3>3. want[p] \in Points => pc'[p] = "remove"
      BY <1>4 DEF Grant, IInv, TypeOK
    <3>4. QED
      BY <3>1, <3>2, <3>3 DEF PointsGone
  <2>4. QED
    BY <2>2, <2>3
<1>5. ASSUME NEW p \in Players, GiveUp(p)
      PROVE  GivenGone' /\ PointsGone'
  <2>1. want[p] \in Drops /\ granted[want[p]] = 0
    BY <1>5 DEF GiveUp, IInv, BusyHolds, BeforeGrant
  <2>2. QED
    BY <1>5, <2>1 DEF GiveUp, GivenGone, PointsGone, IInv, TypeOK
<1>6. ASSUME NEW p \in Players, ExpireOther(p)
      PROVE  GivenGone' /\ PointsGone'
  <2>1. CASE others[p] = {}
    <3>1. want[p] \notin Points
      BY <1>6 DEF ExpireOther, PointsGone
    <3>2. QED
      BY <1>6, <2>1, <3>1 DEF ExpireOther, GivenGone, PointsGone, IInv, TypeOK
  <2>2. CASE others[p] # {}
    BY <1>6, <2>2, GoneKept DEF ExpireOther
  <2>3. QED
    BY <2>1, <2>2
<1>7. ASSUME NEW p \in Players, Mark(p)
      PROVE  GivenGone' /\ PointsGone'
  <2>1. want[p] \in Drops
    BY <1>7 DEF Mark, IInv, BusyHolds
  <2>2. CASE want[p] \in Points
    <3>1. want[p] \notin onMap
      BY <1>7, <2>2 DEF Mark, PointsGone
    <3>2. QED
      BY <1>7, <2>1, <2>2, <3>1 DEF Mark, Leave, GivenGone, PointsGone, IInv, TypeOK
  <2>3. CASE want[p] \notin Points
    BY <1>7, <2>1, <2>3 DEF Mark, GivenGone, PointsGone, IInv, TypeOK
  <2>4. QED
    BY <2>2, <2>3
<1>8. ASSUME NEW p \in Players, Remove(p)
      PROVE  GivenGone' /\ PointsGone'
  <2>1. want[p] \in Drops /\ onMap' = onMap \ {want[p]} /\ UNCHANGED <<want, granted>>
    BY <1>8 DEF Remove, IInv, BusyHolds
  <2>2. CASE want[p] \in Points
    BY <1>8, <2>1, <2>2 DEF Remove, GivenGone, PointsGone, IInv, TypeOK
  <2>3. CASE want[p] \notin Points
    BY <1>8, <2>1, <2>3 DEF Remove, Leave, GivenGone, PointsGone, IInv, TypeOK
  <2>4. QED
    BY <2>2, <2>3
<1>9. CASE \/ ScanStart \/ (\E d \in Drops : ScanVisit(d)) \/ ScanEnd
           \/ (\E d \in Drops : ReactorFinds(d)) \/ ReactorTakes \/ ReactorRemoves
           \/ TimePasses \/ (\E p \in Players : JoinsOrLeaves(p))
  <2>1. onMap' \subseteq onMap /\ UNCHANGED <<pc, want, monitor, granted>>
    BY <1>9 DEF ScanStart, ScanVisit, ScanEnd, ReactorFinds, ReactorTakes, ReactorRemoves,
                TimePasses, JoinsOrLeaves, players
  <2>2. QED
    BY <2>1, GoneKept
<1>10. QED
  BY <1>1, <1>2, <1>3, <1>4, <1>5, <1>6, <1>7, <1>8, <1>9 DEF Next, PickUpStep

\* The safety in GrantedLeaves: whichever thread marked it, and in whichever order a
\* card of points is removed and marked, a drop that was given away is off the map by
\* the time its player leaves the monitor, and never comes back.
THEOREM GivenGoneHolds == Spec => []GivenGone
<1>1. Init => GivenGone /\ PointsGone
  BY DEF Init, GivenGone, PointsGone
<1>2. IInv /\ GivenGone /\ PointsGone /\ [Next]_vars => GivenGone' /\ PointsGone'
  BY GoneStep
<1>3. QED
  BY <1>1, <1>2, Invariance, PTL DEF Spec
=============================================================================
