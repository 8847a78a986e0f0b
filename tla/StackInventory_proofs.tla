------------------------ MODULE StackInventory_proofs ------------------------
(***************************************************************************)
(* Proofs about StackInventory, from the loops up.                         *)
(*                                                                         *)
(* A loop (After) ends in a run of calls, one after each pass (LoopRuns):   *)
(* what each pass keeps holds at the end (LoopKeeps), and so does what one  *)
(* pass brings about and the others keep (LoopReaches).  Sums over the      *)
(* slots are such loops, and linear (TotalSum), so a change of one slot     *)
(* changes a count by what that slot is worth (CountChange).                *)
(*                                                                         *)
(* Each pass of a removal takes from its slot what the call lacks less      *)
(* (Took), and a removal that is not satisfied has emptied every slot of    *)
(* the id (LoopTakes).  Each pass of addFromDrop gives to its slot what the *)
(* call has left less (Gave), and an addition that has something left has   *)
(* filled every stack and every free slot (LoopFills, LoopOpens), which is  *)
(* more than hasRoom allows (NothingLeft).  The sort keeps what it has put   *)
(* back and what it still holds together equal to what there was            *)
(* (SortKeeps).                                                            *)
(***************************************************************************)
EXTENDS StackInventory, FiniteSetTheorems, TLAPS

-----------------------------------------------------------------------------
(* Numbers                                                                  *)

\* A set of numbers that is not empty has a least element.
LEMMA Least ==
  ASSUME NEW S, S \subseteq Nat, S # {}
  PROVE  \E n \in S : \A m \in S : n <= m
<1> DEFINE R == OpToRel(<, Nat)
<1>1. IsWellFoundedOn(R, Nat)
  BY NatLessThanWellFounded
<1>2. \A x, y \in Nat : <<y, x>> \in R <=> y < x
  BY DEF OpToRel
<1> HIDE DEF R
<1>3. PICK x \in S : \A y \in S : ~ (<<y, x>> \in R)
  BY <1>1, WFMin
<1>4. \A y \in S : ~ (y < x)
  BY <1>2, <1>3
<1>5. \A y \in S : x <= y
  BY <1>4
<1>6. QED
  BY <1>5

\* A set with 0 and with the successor of each of its numbers has them all.
LEMMA Induction ==
  ASSUME NEW S, 0 \in S, \A n \in Nat : n \in S => n + 1 \in S
  PROVE  Nat \subseteq S
<1> DEFINE T == Nat \ S
<1>1. CASE T = {}
  BY <1>1
<1>2. CASE T # {}
  <2>1. PICK n \in T : \A m \in T : n <= m
    BY <1>2, Least
  <2>2. n # 0 /\ n - 1 \in Nat
    BY <2>1
  <2>3. n - 1 \in S
    BY <2>1, <2>2
  <2>4. QED
    BY <2>1, <2>2, <2>3
<1>3. QED
  BY <1>1, <1>2

-----------------------------------------------------------------------------
(* Loops: After(body, c, order)                                             *)

\* The calls of the first n passes of a loop.
Runs(body, c, order, run, n) ==
    run = [i \in 0 .. n |-> IF i = 0 THEN c ELSE body[<<run[i - 1], order[i]>>]]

LEMMA RunExists ==
  ASSUME NEW body, NEW c, NEW order
  PROVE  \A n \in Nat : \E run : Runs(body, c, order, run, n)
<1> DEFINE S == {n \in Nat : \E run : Runs(body, c, order, run, n)}
<1>1. 0 \in S
  <2>1. Runs(body, c, order, [i \in 0 .. 0 |-> c], 0)
    BY DEF Runs
  <2>2. QED
    BY <2>1
<1>2. ASSUME NEW n \in Nat, n \in S
      PROVE  n + 1 \in S
  <2>1. PICK r : Runs(body, c, order, r, n)
    BY <1>2
  <2> DEFINE x == body[<<r[n], order[n + 1]>>]
             r2 == [i \in 0 .. n + 1 |-> IF i = n + 1 THEN x ELSE r[i]]
             r3 == [i \in 0 .. n + 1 |-> IF i = 0 THEN c ELSE body[<<r2[i - 1], order[i]>>]]
  <2>2. \A i \in 0 .. n : r[i] = IF i = 0 THEN c ELSE body[<<r[i - 1], order[i]>>]
    BY <2>1 DEF Runs
  <2>3. ASSUME NEW i \in 0 .. n + 1
        PROVE  r2[i] = r3[i]
    <3>1. CASE i = 0
      <4>1. r[0] = c
        <5>1. 0 \in 0 .. n
          OBVIOUS
        <5>2. r[0] = IF 0 = 0 THEN c ELSE body[<<r[0 - 1], order[0]>>]
          BY <5>1, <2>2
        <5>3. QED
          BY <5>2
      <4>2. r2[0] = r[0] /\ r3[0] = c
        OBVIOUS
      <4>3. QED
        BY <3>1, <4>1, <4>2
    <3>2. CASE i \in 1 .. n
      <4>1. r2[i] = r[i] /\ r2[i - 1] = r[i - 1]
        BY <3>2
      <4>2. QED
        BY <4>1, <3>2, <2>2
    <3>3. CASE i = n + 1
      <4>1. r2[i] = x /\ r2[i - 1] = r[n] /\ i # 0
        BY <3>3
      <4>2. QED
        BY <4>1, <3>3
    <3>4. QED
      BY <3>1, <3>2, <3>3
  <2>4. r2 = r3
    BY <2>3
  <2>5. Runs(body, c, order, r2, n + 1)
    BY <2>4 DEF Runs
  <2>6. QED
    BY <2>5
<1> HIDE DEF S
<1>3. Nat \subseteq S
  BY <1>1, <1>2, Induction
<1>4. QED
  BY <1>3 DEF S

\* A loop has a call after each of its passes, and ends with the last of them.
LEMMA LoopRuns ==
  ASSUME NEW body, NEW c, NEW order, Len(order) \in Nat
  PROVE  \E run :
            /\ run[0] = c
            /\ \A i \in 1 .. Len(order) : run[i] = body[<<run[i - 1], order[i]>>]
            /\ After(body, c, order) = run[Len(order)]
<1> DEFINE P(run) == Runs(body, c, order, run, Len(order))
           x == CHOOSE run : P(run)
<1>1. \E run : P(run)
  BY RunExists
<1>2. P(x)
  BY <1>1
<1>3. After(body, c, order) = x[Len(order)]
  BY DEF After, Runs
<1> HIDE DEF x
<1>4. x[0] = c /\ \A i \in 1 .. Len(order) : x[i] = body[<<x[i - 1], order[i]>>]
  <2>1. x = [i \in 0 .. Len(order) |-> IF i = 0 THEN c ELSE body[<<x[i - 1], order[i]>>]]
    BY <1>2 DEF Runs
  <2>2. x[0] = c
    BY <2>1
  <2>3. ASSUME NEW i \in 1 .. Len(order)
        PROVE  x[i] = body[<<x[i - 1], order[i]>>]
    <3>1. i \in 0 .. Len(order) /\ i # 0
      OBVIOUS
    <3>2. QED
      BY <2>1, <3>1
  <2>4. QED
    BY <2>2, <2>3
<1>5. QED
  BY <1>3, <1>4

\* What every pass keeps holds at the end.
LEMMA LoopKeeps ==
  ASSUME NEW body, NEW c, NEW order, Len(order) \in Nat, NEW I, c \in I,
         \A d \in I, i \in 1 .. Len(order) : body[<<d, order[i]>>] \in I
  PROVE  After(body, c, order) \in I
<1>1. PICK run : /\ run[0] = c
                 /\ \A i \in 1 .. Len(order) : run[i] = body[<<run[i - 1], order[i]>>]
                 /\ After(body, c, order) = run[Len(order)]
  BY LoopRuns
<1> DEFINE S == {n \in Nat : n <= Len(order) => run[n] \in I}
<1>2. 0 \in S
  BY <1>1
<1>3. ASSUME NEW n \in Nat, n \in S
      PROVE  n + 1 \in S
  <2>1. CASE n + 1 <= Len(order)
    <3>1. n + 1 \in 1 .. Len(order) /\ (n + 1) - 1 = n /\ run[n] \in I
      BY <1>3, <2>1
    <3>2. run[n + 1] = body[<<run[n], order[n + 1]>>]
      BY <1>1, <3>1
    <3>3. QED
      BY <3>1, <3>2
  <2>2. QED
    BY <2>1
<1> HIDE DEF S
<1>4. Nat \subseteq S
  BY <1>2, <1>3, Induction
<1>5. QED
  BY <1>1, <1>4 DEF S

\* What one pass brings about and every pass keeps holds at the end.
LEMMA LoopReaches ==
  ASSUME NEW body, NEW c, NEW order, Len(order) \in Nat, NEW I, c \in I,
         \A d \in I, i \in 1 .. Len(order) : body[<<d, order[i]>>] \in I,
         NEW D, NEW k \in 1 .. Len(order),
         \A d \in I : body[<<d, order[k]>>] \in D,
         \A d \in I \cap D, i \in 1 .. Len(order) : body[<<d, order[i]>>] \in D
  PROVE  After(body, c, order) \in D
<1>1. PICK run : /\ run[0] = c
                 /\ \A i \in 1 .. Len(order) : run[i] = body[<<run[i - 1], order[i]>>]
                 /\ After(body, c, order) = run[Len(order)]
  BY LoopRuns
<1> DEFINE S == {n \in Nat : n <= Len(order) => run[n] \in I /\ (k <= n => run[n] \in D)}
<1>2. 0 \in S
  BY <1>1
<1>3. ASSUME NEW n \in Nat, n \in S
      PROVE  n + 1 \in S
  <2>1. CASE n + 1 <= Len(order)
    <3>1. n + 1 \in 1 .. Len(order) /\ (n + 1) - 1 = n /\ run[n] \in I /\ (k <= n => run[n] \in D)
      BY <1>3, <2>1
    <3>2. run[n + 1] = body[<<run[n], order[n + 1]>>]
      BY <1>1, <3>1
    <3>3. run[n + 1] \in I
      BY <3>1, <3>2
    <3>4. ASSUME k <= n + 1
          PROVE  run[n + 1] \in D
      <4>1. k = n + 1 \/ k <= n
        BY <3>4
      <4>2. QED
        BY <4>1, <3>1, <3>2
    <3>5. QED
      BY <3>3, <3>4
  <2>2. QED
    BY <2>1
<1> HIDE DEF S
<1>4. Nat \subseteq S
  BY <1>2, <1>3, Induction
<1>5. QED
  BY <1>1, <1>4 DEF S

-----------------------------------------------------------------------------
(* Sums: Total(f)                                                           *)

LEMMA AscendingSlots ==
  /\ Len(Ascending) = Limit /\ Limit \in Nat
  /\ \A s \in Slots : Ascending[s] = s
<1>1. Limit \in Nat
  BY ConstantsAssumption
<1>2. Ascending \in Seq(Nat)
  BY <1>1 DEF Ascending, Slots
<1>3. DOMAIN Ascending = 1 .. Limit
  BY DEF Ascending, Slots
<1>4. Len(Ascending) = Limit
  BY <1>1, <1>2, <1>3
<1>5. QED
  BY <1>1, <1>4 DEF Ascending

\* The sums over the first slots.
LEMMA Sums ==
  ASSUME NEW f \in [Slots -> Int]
  PROVE  \E r : /\ r[0] = 0
                /\ \A i \in 0 .. Limit : r[i] \in Int
                /\ \A i \in Slots : r[i] = r[i - 1] + f[i]
                /\ Total(f) = r[Limit]
<1>1. PICK r : /\ r[0] = 0
               /\ \A i \in 1 .. Len(Ascending) : r[i] = Adding(f)[<<r[i - 1], Ascending[i]>>]
               /\ After(Adding(f), 0, Ascending) = r[Len(Ascending)]
  BY LoopRuns, AscendingSlots
<1>2. \A i \in Slots : r[i] = Adding(f)[<<r[i - 1], i>>]
  BY <1>1, AscendingSlots DEF Slots
<1>3. \A i \in Slots : r[i - 1] \in Int => r[i] = r[i - 1] + f[i] /\ r[i] \in Int
  <2>1. TAKE i \in Slots
  <2>2. HAVE r[i - 1] \in Int
  <2>3. Adding(f)[<<r[i - 1], i>>] = r[i - 1] + f[i]
    BY <2>2 DEF Adding
  <2>4. QED
    BY <2>2, <2>3, <1>2
<1> DEFINE S == {n \in Nat : n <= Limit => r[n] \in Int}
<1>4. 0 \in S
  BY <1>1
<1>5. ASSUME NEW n \in Nat, n \in S
      PROVE  n + 1 \in S
  <2>1. CASE n + 1 <= Limit
    <3>1. n + 1 \in Slots /\ (n + 1) - 1 = n /\ r[n] \in Int
      BY <1>5, <2>1, AscendingSlots DEF Slots
    <3>2. QED
      BY <3>1, <1>3
  <2>2. QED
    BY <2>1
<1> HIDE DEF S
<1>6. Nat \subseteq S
  BY <1>4, <1>5, Induction
<1>7. \A i \in 0 .. Limit : r[i] \in Int
  BY <1>6, AscendingSlots DEF S
<1>8. \A i \in Slots : r[i] = r[i - 1] + f[i]
  BY <1>3, <1>7, AscendingSlots DEF Slots
<1>9. Total(f) = r[Limit]
  BY <1>1, AscendingSlots DEF Total
<1>10. QED
  BY <1>1, <1>7, <1>8, <1>9

LEMMA TotalInt ==
  ASSUME NEW f \in [Slots -> Int]
  PROVE  Total(f) \in Int
BY Sums, AscendingSlots

\* A sum is the sum of its parts.
LEMMA TotalSum ==
  ASSUME NEW f \in [Slots -> Int], NEW g \in [Slots -> Int], NEW h \in [Slots -> Int],
         \A s \in Slots : h[s] = f[s] + g[s]
  PROVE  Total(h) = Total(f) + Total(g)
<1>1. PICK a : /\ a[0] = 0
               /\ \A i \in 0 .. Limit : a[i] \in Int
               /\ \A i \in Slots : a[i] = a[i - 1] + f[i]
               /\ Total(f) = a[Limit]
  BY Sums
<1>2. PICK b : /\ b[0] = 0
               /\ \A i \in 0 .. Limit : b[i] \in Int
               /\ \A i \in Slots : b[i] = b[i - 1] + g[i]
               /\ Total(g) = b[Limit]
  BY Sums
<1>3. PICK c : /\ c[0] = 0
               /\ \A i \in 0 .. Limit : c[i] \in Int
               /\ \A i \in Slots : c[i] = c[i - 1] + h[i]
               /\ Total(h) = c[Limit]
  BY Sums
<1> DEFINE S == {n \in Nat : n <= Limit => c[n] = a[n] + b[n]}
<1>4. 0 \in S
  BY <1>1, <1>2, <1>3
<1>5. ASSUME NEW n \in Nat, n \in S
      PROVE  n + 1 \in S
  <2>1. CASE n + 1 <= Limit
    <3>1. n + 1 \in Slots /\ (n + 1) - 1 = n /\ c[n] = a[n] + b[n] /\ n \in 0 .. Limit
      BY <1>5, <2>1, AscendingSlots DEF Slots
    <3>2. f[n + 1] \in Int /\ g[n + 1] \in Int /\ h[n + 1] = f[n + 1] + g[n + 1]
      BY <3>1
    <3>3. /\ a[n + 1] = a[n] + f[n + 1]
          /\ b[n + 1] = b[n] + g[n + 1]
          /\ c[n + 1] = c[n] + h[n + 1]
      BY <3>1, <1>1, <1>2, <1>3
    <3>4. a[n] \in Int /\ b[n] \in Int
      BY <3>1, <1>1, <1>2
    <3>5. QED
      BY <3>1, <3>2, <3>3, <3>4
  <2>2. QED
    BY <2>1
<1> HIDE DEF S
<1>6. Nat \subseteq S
  BY <1>4, <1>5, Induction
<1>7. QED
  BY <1>1, <1>2, <1>3, <1>6, AscendingSlots DEF S

\* A sum of parts that are not negative is not negative.
LEMMA TotalNat ==
  ASSUME NEW f \in [Slots -> Nat]
  PROVE  Total(f) \in Nat
<1>1. f \in [Slots -> Int]
  OBVIOUS
<1>2. PICK a : /\ a[0] = 0
               /\ \A i \in 0 .. Limit : a[i] \in Int
               /\ \A i \in Slots : a[i] = a[i - 1] + f[i]
               /\ Total(f) = a[Limit]
  BY <1>1, Sums
<1> DEFINE S == {n \in Nat : n <= Limit => a[n] \in Nat}
<1>3. 0 \in S
  BY <1>2
<1>4. ASSUME NEW n \in Nat, n \in S
      PROVE  n + 1 \in S
  <2>1. CASE n + 1 <= Limit
    <3>1. n + 1 \in Slots /\ (n + 1) - 1 = n /\ a[n] \in Nat
      BY <1>4, <2>1, AscendingSlots DEF Slots
    <3>2. a[n + 1] = a[n] + f[n + 1] /\ f[n + 1] \in Nat
      BY <3>1, <1>2
    <3>3. QED
      BY <3>1, <3>2
  <2>2. QED
    BY <2>1
<1> HIDE DEF S
<1>5. Nat \subseteq S
  BY <1>3, <1>4, Induction
<1>6. QED
  BY <1>2, <1>5, AscendingSlots DEF S

LEMMA TotalLeq ==
  ASSUME NEW f \in [Slots -> Int], NEW g \in [Slots -> Int],
         \A s \in Slots : f[s] <= g[s]
  PROVE  Total(f) <= Total(g)
<1> DEFINE d == [s \in Slots |-> g[s] - f[s]]
<1>1. d \in [Slots -> Nat] /\ d \in [Slots -> Int]
  OBVIOUS
<1>2. \A s \in Slots : g[s] = f[s] + d[s]
  OBVIOUS
<1> HIDE DEF d
<1>3. Total(g) = Total(f) + Total(d)
  BY <1>1, <1>2, TotalSum
<1>4. QED
  BY <1>1, <1>3, TotalNat, TotalInt

LEMMA TotalNone ==
  ASSUME NEW f \in [Slots -> Int], \A s \in Slots : f[s] = 0
  PROVE  Total(f) = 0
<1>1. Total(f) = Total(f) + Total(f)
  BY TotalSum
<1>2. QED
  BY <1>1, TotalInt

\* A sum of which only one part is not zero.
LEMMA TotalOne ==
  ASSUME NEW f \in [Slots -> Int], NEW t \in Slots, \A s \in Slots \ {t} : f[s] = 0
  PROVE  Total(f) = f[t]
<1>1. PICK a : /\ a[0] = 0
               /\ \A i \in 0 .. Limit : a[i] \in Int
               /\ \A i \in Slots : a[i] = a[i - 1] + f[i]
               /\ Total(f) = a[Limit]
  BY Sums
<1> DEFINE S == {n \in Nat : n <= Limit => a[n] = IF n < t THEN 0 ELSE f[t]}
<1>2. 0 \in S
  BY <1>1 DEF Slots
<1>3. ASSUME NEW n \in Nat, n \in S
      PROVE  n + 1 \in S
  <2>1. CASE n + 1 <= Limit
    <3>1. n + 1 \in Slots /\ (n + 1) - 1 = n /\ (a[n] = IF n < t THEN 0 ELSE f[t])
      BY <1>3, <2>1, AscendingSlots DEF Slots
    <3>2. a[n + 1] = a[n] + f[n + 1] /\ f[n + 1] \in Int /\ f[t] \in Int
      BY <3>1, <1>1
    <3>3. CASE n + 1 = t
      BY <3>1, <3>2, <3>3
    <3>4. CASE n + 1 # t
      <4>1. f[n + 1] = 0 /\ (n < t <=> n + 1 < t)
        BY <3>1, <3>4 DEF Slots
      <4>2. a[n + 1] = IF n + 1 < t THEN 0 ELSE f[t]
        BY <3>1, <3>2, <4>1
      <4>3. QED
        BY <4>2
    <3>5. QED
      BY <3>3, <3>4
  <2>2. QED
    BY <2>1
<1> HIDE DEF S
<1>4. Nat \subseteq S
  BY <1>2, <1>3, Induction
<1>5. a[Limit] = IF Limit < t THEN 0 ELSE f[t]
  BY <1>4, AscendingSlots DEF S
<1>6. QED
  BY <1>1, <1>5, AscendingSlots DEF Slots

\* A sum of which one part changes.
LEMMA TotalChange ==
  ASSUME NEW f \in [Slots -> Int], NEW g \in [Slots -> Int], NEW t \in Slots,
         \A s \in Slots \ {t} : g[s] = f[s]
  PROVE  Total(g) = Total(f) + (g[t] - f[t])
<1> DEFINE d == [s \in Slots |-> g[s] - f[s]]
<1>1. d \in [Slots -> Int]
  OBVIOUS
<1>2. \A s \in Slots : g[s] = f[s] + d[s]
  OBVIOUS
<1>3. \A s \in Slots \ {t} : d[s] = 0
  OBVIOUS
<1>4. d[t] = g[t] - f[t]
  OBVIOUS
<1> HIDE DEF d
<1>5. Total(g) = Total(f) + Total(d)
  BY <1>1, <1>2, TotalSum
<1>6. Total(d) = d[t]
  BY <1>1, <1>3, TotalOne
<1>7. QED
  BY <1>4, <1>5, <1>6

\* The sum of m over a set of slots.
LEMMA TotalOver ==
  ASSUME NEW S, S \subseteq Slots, NEW m \in Nat
  PROVE  Total([s \in Slots |-> IF s \in S THEN m ELSE 0]) = Cardinality(S) * m
<1> DEFINE f == [s \in Slots |-> IF s \in S THEN m ELSE 0]
           First(n) == S \cap (1 .. n)
<1>1. f \in [Slots -> Int] /\ \A s \in Slots : f[s] = IF s \in S THEN m ELSE 0
  OBVIOUS
<1> HIDE DEF f
<1>2. PICK a : /\ a[0] = 0
               /\ \A i \in 0 .. Limit : a[i] \in Int
               /\ \A i \in Slots : a[i] = a[i - 1] + f[i]
               /\ Total(f) = a[Limit]
  BY <1>1, Sums
<1> DEFINE N == {n \in Nat : n <= Limit =>
                   /\ IsFiniteSet(First(n))
                   /\ Cardinality(First(n)) \in Nat
                   /\ a[n] = Cardinality(First(n)) * m}
<1>3. 0 \in N
  <2>1. First(0) = {}
    OBVIOUS
  <2>2. QED
    BY <2>1, <1>2, FS_EmptySet
<1>4. ASSUME NEW n \in Nat, n \in N
      PROVE  n + 1 \in N
  <2>1. CASE n + 1 <= Limit
    <3>1. /\ n + 1 \in Slots /\ (n + 1) - 1 = n
          /\ IsFiniteSet(First(n))
          /\ Cardinality(First(n)) \in Nat
          /\ a[n] = Cardinality(First(n)) * m
      BY <1>4, <2>1, AscendingSlots DEF Slots
    <3>2. a[n + 1] = a[n] + f[n + 1]
      BY <3>1, <1>2
    <3>3. CASE n + 1 \in S
      <4>1. First(n + 1) = First(n) \cup {n + 1} /\ n + 1 \notin First(n)
        BY <3>3
      <4> HIDE DEF First, N
      <4>2. IsFiniteSet(First(n + 1)) /\ Cardinality(First(n + 1)) = Cardinality(First(n)) + 1
        BY <3>1, <4>1, FS_AddElement
      <4>3. a[n + 1] = Cardinality(First(n)) * m + m
        BY <3>1, <3>2, <3>3, <1>1
      <4>4. a[n + 1] = (Cardinality(First(n)) + 1) * m
        BY <3>1, <4>3
      <4>5. QED
        BY <3>1, <4>2, <4>4 DEF N
    <3>4. CASE n + 1 \notin S
      <4>1. First(n + 1) = First(n)
        BY <3>4
      <4> HIDE DEF First
      <4>2. a[n + 1] = a[n]
        BY <3>1, <3>2, <3>4, <1>1, <1>2, AscendingSlots DEF Slots
      <4>3. QED
        BY <3>1, <4>1, <4>2
    <3>5. QED
      BY <3>3, <3>4
  <2>2. QED
    BY <2>1
<1> HIDE DEF N
<1>5. Nat \subseteq N
  BY <1>3, <1>4, Induction
<1>6. a[Limit] = Cardinality(First(Limit)) * m
  <2>1. Limit \in N
    BY <1>5, AscendingSlots
  <2> HIDE DEF First
  <2>2. QED
    BY <2>1, AscendingSlots DEF N
<1>7. First(Limit) = S
  BY DEF Slots
<1>8. QED
  BY <1>2, <1>6, <1>7 DEF f

-----------------------------------------------------------------------------
(* Inventories                                                              *)

\* What a slot's content adds to the count of an id.
Worth(x, id) == IF x # Empty /\ x.id = id THEN x.quantity ELSE 0

\* What may be in a slot, and in all of them.
Fits(x) == x # Empty /\ x.id \notin Rechargeable => x.quantity \in 1 .. SlotMax[x.id]
Bounded(v) == \A s \in Slots : Fits(v[s])

\* Every slot of a set is in the order of a loop.
Covers(order, slots) ==
    /\ Len(order) \in Nat
    /\ \A i \in 1 .. Len(order) : order[i] \in Slots
    /\ \A s \in slots : \E i \in 1 .. Len(order) : order[i] = s

LEMMA EmptyIsNoStack == Empty \notin Stack
BY ConstantsAssumption DEF Stack

LEMMA HeldWorth ==
  ASSUME NEW v \in Inventories, NEW id
  PROVE  /\ Held(v, id) \in [Slots -> Nat]
         /\ Held(v, id) \in [Slots -> Int]
         /\ \A s \in Slots : Held(v, id)[s] = Worth(v[s], id)
<1>1. \A s \in Slots : Held(v, id)[s] = Worth(v[s], id)
  BY DEF Held, Worth, SlotsOf, Occupied
<1>2. \A s \in Slots : Worth(v[s], id) \in Nat
  BY DEF Worth, Inventories, Stack
<1>3. QED
  BY <1>1, <1>2 DEF Held

LEMMA CountNat ==
  ASSUME NEW v \in Inventories, NEW id
  PROVE  CountById(v, id) \in Nat
BY HeldWorth, TotalNat DEF CountById

LEMMA CountNone ==
  ASSUME NEW v \in Inventories, NEW id, \A s \in Slots : Worth(v[s], id) = 0
  PROVE  CountById(v, id) = 0
BY HeldWorth, TotalNone DEF CountById

\* One slot changes.
LEMMA CountChange ==
  ASSUME NEW v \in Inventories, NEW w \in Inventories, NEW t \in Slots, NEW id,
         \A s \in Slots \ {t} : w[s] = v[s]
  PROVE  CountById(w, id) = CountById(v, id) + (Worth(w[t], id) - Worth(v[t], id))
<1>1. \A s \in Slots \ {t} : Held(w, id)[s] = Held(v, id)[s]
  BY HeldWorth
<1>2. Total(Held(w, id)) = Total(Held(v, id)) + (Held(w, id)[t] - Held(v, id)[t])
  BY <1>1, HeldWorth, TotalChange
<1>3. QED
  BY <1>2, HeldWorth DEF CountById

\* Two slots change.
LEMMA CountTwo ==
  ASSUME NEW v \in Inventories, NEW w \in Inventories,
         NEW a \in Slots, NEW b \in Slots, a # b, NEW id,
         \A s \in Slots \ {a, b} : w[s] = v[s]
  PROVE  CountById(w, id) = CountById(v, id) + (Worth(w[a], id) - Worth(v[a], id))
                                             + (Worth(w[b], id) - Worth(v[b], id))
<1> DEFINE u == [v EXCEPT ![a] = w[a]]
<1>1. u \in Inventories /\ u[a] = w[a] /\ u[b] = v[b]
  BY DEF Inventories
<1>2. (\A s \in Slots \ {a} : u[s] = v[s]) /\ (\A s \in Slots \ {b} : w[s] = u[s])
  BY DEF Inventories
<1> HIDE DEF u
<1>3. CountById(u, id) = CountById(v, id) + (Worth(u[a], id) - Worth(v[a], id))
  BY <1>1, <1>2, CountChange
<1>4. CountById(w, id) = CountById(u, id) + (Worth(w[b], id) - Worth(u[b], id))
  BY <1>1, <1>2, CountChange
<1>5. QED
  BY <1>1, <1>3, <1>4

\* The slots of an order of slots are all of them, each once.
LEMMA OrdersCover ==
  ASSUME NEW slots, slots \subseteq Slots, NEW order \in Orders(slots)
  PROVE  /\ Covers(order, slots)
         /\ IsFiniteSet(slots)
         /\ Len(order) = Cardinality(slots)
         /\ order \in [1 .. Len(order) -> slots]
         /\ \A i, j \in 1 .. Len(order) : order[i] = order[j] => i = j
<1>1. IsFiniteSet(Slots)
  BY AscendingSlots, FS_Interval DEF Slots
<1>2. IsFiniteSet(slots) /\ Cardinality(slots) \in Nat
  BY <1>1, FS_Subset, FS_CardinalityType
<1>3. order \in [1 .. Cardinality(slots) -> slots]
  BY DEF Orders, Bijection, Injection
<1>4. \A i, j \in 1 .. Cardinality(slots) : order[i] = order[j] => i = j
  BY <1>3 DEF Orders, Bijection, Injection, IsInjective
<1>5. \A s \in slots : \E i \in 1 .. Cardinality(slots) : order[i] = s
  BY DEF Orders, Bijection, Surjection
<1>6. order \in Seq(slots) /\ Len(order) = Cardinality(slots)
  BY <1>2, <1>3
<1>7. QED
  BY <1>2, <1>3, <1>4, <1>5, <1>6 DEF Covers

LEMMA AscendingCovers ==
  ASSUME NEW slots, slots \subseteq Slots
  PROVE  Covers(Ascending, slots)
BY AscendingSlots DEF Covers, Slots

-----------------------------------------------------------------------------
(* Taking                                                                   *)

\* What taking items of an id from slot s makes of a call: it keeps or empties the
\* stack there, takes from it what the call lacks less, and leaves nothing of the
\* id in the slot while the call wants more.
Took(c, s, d, id) ==
    /\ d \in Calls /\ d.left <= c.left
    /\ \A t \in Slots \ {s} : d.inv[t] = c.inv[t]
    /\ d.inv[s] = Empty \/ (c.inv[s] # Empty /\ d.inv[s].id = c.inv[s].id)
    /\ Fits(d.inv[s])
    /\ \A i \in Ids : Worth(c.inv[s], i) - Worth(d.inv[s], i) =
                         IF i = id THEN c.left - d.left ELSE 0
    /\ d.left = 0 \/ Worth(d.inv[s], id) = 0

\* The body of a loop that takes items of an id.
Takes(body, id) ==
    \A c \in Calls, s \in Slots : Bounded(c.inv) => Took(c, s, body[<<c, s>>], id)

LEMMA NothingTaken ==
  ASSUME NEW c \in Calls, NEW s \in Slots, NEW id, Fits(c.inv[s]),
         c.left = 0 \/ Worth(c.inv[s], id) = 0
  PROVE  Took(c, s, c, id)
<1>1. c.left \in Nat /\ \A i \in Ids : Worth(c.inv[s], i) \in Nat
  BY DEF Calls, Inventories, Worth, Stack
<1>2. QED
  BY <1>1 DEF Took

LEMMA TakeFromTakes ==
  ASSUME NEW c \in Calls, NEW s \in Slots, c.inv[s] # Empty, NEW keep \in BOOLEAN,
         keep => c.inv[s].id \in Rechargeable, Fits(c.inv[s])
  PROVE  Took(c, s, TakeFrom(c, s, keep), c.inv[s].id)
<1> DEFINE x == c.inv[s]
           q == Smaller(x.quantity, c.left)
           d == TakeFrom(c, s, keep)
<1>1. c.inv \in Inventories /\ c.left \in Nat /\ x \in Stack
  BY DEF Calls, Inventories
<1>2. x.quantity \in Nat /\ x.id \in Ids
  BY <1>1 DEF Stack
<1>3. q \in Nat /\ q <= c.left /\ q <= x.quantity /\ (q = c.left \/ q = x.quantity)
  BY <1>1, <1>2 DEF Smaller
<1>4. CASE c.left = 0
  <2>1. d = c
    BY <1>4 DEF TakeFrom
  <2>2. QED
    BY <2>1, <1>4, NothingTaken
<1>5. CASE c.left # 0
  <2>1. d = Call(Reduce(c.inv, s, q, keep), c.left - q)
    BY <1>5 DEF TakeFrom
  <2>2. CASE x.quantity = q /\ ~ keep
    <3>1. d = [inv |-> [c.inv EXCEPT ![s] = Empty], left |-> c.left - q]
      BY <2>1, <2>2, <1>3 DEF Reduce, Call
    <3>2. d.inv = [c.inv EXCEPT ![s] = Empty] /\ d.left = c.left - q /\ d.inv \in Inventories /\ d \in Calls
      BY <3>1, <1>1, <1>3 DEF Inventories, Calls
    <3>3. d.inv[s] = Empty /\ \A t \in Slots \ {s} : d.inv[t] = c.inv[t]
      BY <3>2, <1>1 DEF Inventories
    <3>4. \A i \in Ids : Worth(d.inv[s], i) = 0 /\ Worth(x, i) = IF i = x.id THEN q ELSE 0
      BY <3>3, <2>2 DEF Worth
    <3>5. Fits(d.inv[s]) /\ Worth(d.inv[s], x.id) = 0
      BY <3>3 DEF Fits, Worth
    <3> HIDE DEF d, q
    <3>6. Took(c, s, d, x.id)
      BY <3>2, <3>3, <3>4, <3>5, <1>1, <1>3 DEF Took
    <3>7. QED
      BY <3>6 DEF d
  <2>3. CASE ~ (x.quantity = q /\ ~ keep)
    <3>1. d = [inv |-> [c.inv EXCEPT ![s] = [x EXCEPT !.quantity = x.quantity - q]], left |-> c.left - q]
      BY <2>1, <2>3, <1>2, <1>3, <1>1 DEF Reduce, Call, Inventories
    <3>2. [x EXCEPT !.quantity = x.quantity - q] \in Stack
      BY <1>1, <1>2, <1>3 DEF Stack
    <3>3. /\ d.inv = [c.inv EXCEPT ![s] = [x EXCEPT !.quantity = x.quantity - q]]
          /\ d.left = c.left - q /\ d.inv \in Inventories /\ d \in Calls
      BY <3>1, <3>2, <1>1, <1>3 DEF Inventories, Calls
    <3>4. /\ d.inv[s] = [x EXCEPT !.quantity = x.quantity - q]
          /\ \A t \in Slots \ {s} : d.inv[t] = c.inv[t]
      BY <3>3, <1>1 DEF Inventories
    <3>5. d.inv[s] # Empty /\ d.inv[s].id = x.id /\ d.inv[s].quantity = x.quantity - q
      BY <3>2, <3>4, <1>1, EmptyIsNoStack DEF Stack
    <3>6. Fits(d.inv[s])
      <4>1. ASSUME x.id \notin Rechargeable
            PROVE  x.quantity - q \in 1 .. SlotMax[x.id]
        <5>1. x.quantity \in 1 .. SlotMax[x.id] /\ q # x.quantity /\ SlotMax[x.id] \in Nat
          BY <4>1, <2>3, <1>2, ConstantsAssumption DEF Fits
        <5>2. QED
          BY <5>1, <1>2, <1>3
      <4>2. QED
        BY <4>1, <3>5 DEF Fits
    <3>7. \A i \in Ids : /\ Worth(d.inv[s], i) = IF i = x.id THEN x.quantity - q ELSE 0
                         /\ Worth(x, i) = IF i = x.id THEN x.quantity ELSE 0
      BY <3>5 DEF Worth
    <3> HIDE DEF d, q
    <3>8. d.left = 0 \/ Worth(d.inv[s], x.id) = 0
      BY <3>3, <3>7, <1>1, <1>2, <1>3
    <3>9. \A i \in Ids : Worth(x, i) - Worth(d.inv[s], i) =
                            IF i = x.id THEN c.left - d.left ELSE 0
      BY <3>3, <3>7, <1>1, <1>2, <1>3
    <3>10. d.left <= c.left
      BY <3>3, <1>1, <1>3
    <3>11. Took(c, s, d, x.id)
      BY <3>3, <3>4, <3>5, <3>6, <3>8, <3>9, <3>10 DEF Took
    <3>12. QED
      BY <3>11 DEF d
  <2>4. QED
    BY <2>2, <2>3
<1>6. QED
  BY <1>4, <1>5

LEMMA TakingTakes ==
  ASSUME NEW id \in Ids
  PROVE  Takes(Taking(id), id)
<1>1. SUFFICES ASSUME NEW c \in Calls, NEW s \in Slots, Bounded(c.inv)
               PROVE  Took(c, s, Taking(id)[<<c, s>>], id)
  BY DEF Takes
<1>2. Taking(id)[<<c, s>>] = IF s \in SlotsOf(c.inv, id) THEN TakeFrom(c, s, FALSE) ELSE c
  BY DEF Taking
<1>3. Fits(c.inv[s])
  BY <1>1 DEF Bounded
<1>4. CASE s \in SlotsOf(c.inv, id)
  <2>1. c.inv[s] # Empty /\ c.inv[s].id = id
    BY <1>4 DEF SlotsOf, Occupied
  <2>2. QED
    BY <2>1, <1>2, <1>3, <1>4, TakeFromTakes
<1>5. CASE s \notin SlotsOf(c.inv, id)
  <2>1. Worth(c.inv[s], id) = 0
    BY <1>5 DEF SlotsOf, Occupied, Worth
  <2>2. QED
    BY <2>1, <1>2, <1>3, <1>5, NothingTaken
<1>6. QED
  BY <1>4, <1>5

LEMMA ThrowingTakes ==
  ASSUME NEW id \in Ids
  PROVE  Takes(Throwing(id), id)
<1>1. SUFFICES ASSUME NEW c \in Calls, NEW s \in Slots, Bounded(c.inv)
               PROVE  Took(c, s, Throwing(id)[<<c, s>>], id)
  BY DEF Takes
<1> DEFINE keep == id \in Rechargeable
           here == s \in SlotsOf(c.inv, id) /\ c.inv[s].quantity > 0
<1>2. Throwing(id)[<<c, s>>] = IF here THEN TakeFrom(c, s, keep) ELSE c
  BY DEF Throwing
<1>3. Fits(c.inv[s])
  BY <1>1 DEF Bounded
<1>4. CASE here
  <2>1. c.inv[s] # Empty /\ c.inv[s].id = id
    BY <1>4 DEF SlotsOf, Occupied
  <2>2. keep \in BOOLEAN /\ (keep => c.inv[s].id \in Rechargeable)
    BY <2>1
  <2> HIDE DEF keep
  <2>3. QED
    BY <2>1, <2>2, <1>2, <1>3, <1>4, TakeFromTakes
<1>5. CASE ~ here
  <2>1. Worth(c.inv[s], id) = 0
    <3>1. CASE c.inv[s] # Empty /\ c.inv[s].id = id
      <4>1. s \in SlotsOf(c.inv, id) /\ c.inv[s] \in Stack
        BY <3>1 DEF SlotsOf, Occupied, Calls, Inventories
      <4>2. c.inv[s].quantity \in Nat /\ ~ (c.inv[s].quantity > 0)
        BY <4>1, <1>5 DEF Stack
      <4>3. QED
        BY <4>2 DEF Worth
    <3>2. CASE ~ (c.inv[s] # Empty /\ c.inv[s].id = id)
      BY <3>2 DEF Worth
    <3>3. QED
      BY <3>1, <3>2
  <2>2. QED
    BY <2>1, <1>2, <1>3, <1>5, NothingTaken
<1>6. QED
  BY <1>4, <1>5

\* An inventory of which n items of an id are taken.
Taken(v, w, id, n) ==
    /\ w \in Inventories /\ Bounded(w)
    /\ \A i \in Ids : CountById(w, i) = CountById(v, i) - IF i = id THEN n ELSE 0

\* A loop over the slots of an id takes the quantity asked for, or all there is.
LEMMA LoopTakes ==
  ASSUME NEW id \in Ids, NEW body, Takes(body, id), NEW v \in Inventories, Bounded(v),
         NEW q \in Nat, NEW order, Covers(order, SlotsOf(v, id))
  PROVE  Taken(v, After(body, Call(v, q), order).inv, id, Smaller(q, CountById(v, id)))
<1> DEFINE c == Call(v, q)
           e == After(body, c, order)
           I == {d \in Calls :
                   /\ Bounded(d.inv) /\ d.left <= q
                   /\ \A i \in Ids : CountById(d.inv, i) =
                                        CountById(v, i) - IF i = id THEN q - d.left ELSE 0
                   /\ \A s \in Slots : d.inv[s] = Empty \/ (v[s] # Empty /\ d.inv[s].id = v[s].id)}
           D(s) == {d \in Calls : d.left = 0 \/ Worth(d.inv[s], id) = 0}
<1>1. \A w \in Inventories, i \in Ids : CountById(w, i) \in Nat
  BY CountNat
<1>2. c \in I
  <2>1. c \in Calls /\ c.inv = v /\ c.left = q
    BY DEF Call, Calls
  <2> HIDE DEF c
  <2>2. QED
    BY <2>1, <1>1
<1>3. ASSUME NEW d \in I, NEW s \in Slots
      PROVE  body[<<d, s>>] \in I /\ Took(d, s, body[<<d, s>>], id)
  <2> DEFINE f == body[<<d, s>>]
  <2>1. d \in Calls /\ Bounded(d.inv) /\ d.inv \in Inventories /\ d.left \in Nat
    BY DEF Calls
  <2>2. Took(d, s, f, id)
    BY <2>1 DEF Takes
  <2> HIDE DEF f
  <2>3. f \in Calls /\ f.inv \in Inventories /\ f.left \in Nat /\ f.left <= d.left
    BY <2>2 DEF Took, Calls
  <2>4. Bounded(f.inv)
    BY <2>1, <2>2 DEF Took, Bounded
  <2>5. ASSUME NEW i \in Ids
        PROVE  CountById(f.inv, i) = CountById(v, i) - IF i = id THEN q - f.left ELSE 0
    <3>1. CountById(f.inv, i) = CountById(d.inv, i) + (Worth(f.inv[s], i) - Worth(d.inv[s], i))
      BY <2>1, <2>2, <2>3, CountChange DEF Took
    <3>2. Worth(d.inv[s], i) - Worth(f.inv[s], i) = IF i = id THEN d.left - f.left ELSE 0
      BY <2>2 DEF Took
    <3>3. Worth(d.inv[s], i) \in Nat /\ Worth(f.inv[s], i) \in Nat
      BY <2>1, <2>3 DEF Inventories, Worth, Stack
    <3>4. CountById(d.inv, i) = CountById(v, i) - IF i = id THEN q - d.left ELSE 0
      OBVIOUS
    <3>5. CountById(d.inv, i) \in Nat /\ CountById(v, i) \in Nat /\ CountById(f.inv, i) \in Nat
      BY <1>1, <2>1, <2>3
    <3>6. QED
      BY <3>1, <3>2, <3>3, <3>4, <3>5, <2>1, <2>3
  <2>6. \A t \in Slots : f.inv[t] = Empty \/ (v[t] # Empty /\ f.inv[t].id = v[t].id)
    BY <2>2 DEF Took
  <2>7. f.left <= q
    BY <2>1, <2>3
  <2>8. f \in I
    BY <2>3, <2>4, <2>5, <2>6, <2>7
  <2>9. QED
    BY <2>2, <2>8 DEF f
<1>4. Len(order) \in Nat /\ \A i \in 1 .. Len(order) : order[i] \in Slots
  BY DEF Covers
<1> HIDE DEF I, c
<1>5. \A d \in I, i \in 1 .. Len(order) : body[<<d, order[i]>>] \in I
  BY <1>3, <1>4
<1>6. e \in I
  BY <1>2, <1>4, <1>5, LoopKeeps
<1>7. ASSUME NEW s \in SlotsOf(v, id)
      PROVE  e \in D(s)
  <2>1. PICK k \in 1 .. Len(order) : order[k] = s
    BY DEF Covers
  <2>2. \A d \in I : body[<<d, order[k]>>] \in D(s)
    BY <1>3, <1>4, <2>1 DEF Took
  <2>3. ASSUME NEW d \in I \cap D(s), NEW i \in 1 .. Len(order)
        PROVE  body[<<d, order[i]>>] \in D(s)
    <3>1. Took(d, order[i], body[<<d, order[i]>>], id) /\ order[i] \in Slots
      BY <1>3, <1>4
    <3>2. CASE order[i] = s
      BY <3>1, <3>2 DEF Took
    <3>3. CASE order[i] # s
      <4>1. s \in Slots
        BY DEF SlotsOf, Occupied
      <4>2. body[<<d, order[i]>>].inv[s] = d.inv[s]
        BY <3>1, <3>3, <4>1 DEF Took
      <4>3. /\ body[<<d, order[i]>>] \in Calls /\ d \in Calls
            /\ body[<<d, order[i]>>].left <= d.left
        BY <3>1 DEF Took
      <4>4. d.left = 0 => body[<<d, order[i]>>].left = 0
        BY <4>3 DEF Calls
      <4>5. QED
        BY <4>2, <4>3, <4>4
    <3>4. QED
      BY <3>2, <3>3
  <2> DEFINE X == D(s)
  <2>4. /\ \A d \in I : body[<<d, order[k]>>] \in X
        /\ \A d \in I \cap X, i \in 1 .. Len(order) : body[<<d, order[i]>>] \in X
    BY <2>2, <2>3
  <2> HIDE DEF X
  <2>5. After(body, c, order) \in X
    BY <1>2, <1>4, <1>5, <2>4, LoopReaches
  <2>6. QED
    BY <2>5 DEF X
<1> HIDE DEF e
<1>8. /\ e \in Calls /\ Bounded(e.inv) /\ e.left \in Nat /\ e.left <= q /\ e.inv \in Inventories
      /\ \A i \in Ids : CountById(e.inv, i) = CountById(v, i) - IF i = id THEN q - e.left ELSE 0
      /\ \A s \in Slots : e.inv[s] = Empty \/ (v[s] # Empty /\ e.inv[s].id = v[s].id)
  BY <1>6 DEF I, Calls
<1>9. q - e.left = Smaller(q, CountById(v, id))
  <2>1. CASE e.left = 0
    <3>1. CountById(e.inv, id) = CountById(v, id) - q
      BY <1>8, <2>1
    <3>2. QED
      BY <1>1, <1>8, <2>1, <3>1 DEF Smaller
  <2>2. CASE e.left # 0
    <3>1. \A s \in SlotsOf(v, id) : Worth(e.inv[s], id) = 0
      BY <1>7, <2>2
    <3>2. \A s \in Slots \ SlotsOf(v, id) : Worth(e.inv[s], id) = 0
      BY <1>8 DEF Worth, SlotsOf, Occupied
    <3>3. CountById(e.inv, id) = 0
      BY <3>1, <3>2, <1>8, CountNone
    <3>4. CountById(e.inv, id) = CountById(v, id) - (q - e.left)
      BY <1>8
    <3>5. QED
      BY <1>1, <1>8, <2>2, <3>3, <3>4 DEF Smaller
  <2>3. QED
    BY <2>1, <2>2
<1>10. Taken(v, e.inv, id, Smaller(q, CountById(v, id)))
  BY <1>8, <1>9 DEF Taken
<1>11. QED
  BY <1>10 DEF e, c

\* What one slot's taking makes of the counts.
LEMMA TookCounts ==
  ASSUME NEW c \in Calls, NEW s \in Slots, NEW d, NEW id \in Ids, Bounded(c.inv), Took(c, s, d, id)
  PROVE  Taken(c.inv, d.inv, id, c.left - d.left)
<1>1. c.inv \in Inventories /\ d.inv \in Inventories /\ d.left \in Nat /\ c.left \in Nat
  BY DEF Took, Calls
<1>2. Bounded(d.inv)
  BY DEF Took, Bounded
<1>3. ASSUME NEW i \in Ids
      PROVE  CountById(d.inv, i) = CountById(c.inv, i) - IF i = id THEN c.left - d.left ELSE 0
  <2>1. CountById(d.inv, i) = CountById(c.inv, i) + (Worth(d.inv[s], i) - Worth(c.inv[s], i))
    BY <1>1, CountChange DEF Took
  <2>2. Worth(c.inv[s], i) - Worth(d.inv[s], i) = IF i = id THEN c.left - d.left ELSE 0
    BY DEF Took
  <2>3. Worth(c.inv[s], i) \in Nat /\ Worth(d.inv[s], i) \in Nat
    BY <1>1 DEF Inventories, Worth, Stack
  <2>4. CountById(d.inv, i) \in Nat /\ CountById(c.inv, i) \in Nat
    BY <1>1, CountNat
  <2>5. QED
    BY <2>1, <2>2, <2>3, <2>4, <1>1
<1>4. QED
  BY <1>1, <1>2, <1>3 DEF Taken

\* removeById takes the quantity asked for, or all there is.
LEMMA RemoveByIdTakes ==
  ASSUME NEW v \in Inventories, Bounded(v), NEW id \in Ids, NEW q \in Nat
  PROVE  Taken(v, RemoveById(v, id, q), id, Smaller(q, CountById(v, id)))
<1>1. SlotsOf(v, id) \subseteq Slots
  BY DEF SlotsOf, Occupied
<1>2. QED
  BY <1>1, AscendingCovers, TakingTakes, LoopTakes DEF RemoveById

\* So does removeItem, from the set it names alone when the item is rechargeable.
LEMMA RemoveItemTakes ==
  ASSUME NEW v \in Inventories, Bounded(v), NEW slot \in Slots, v[slot] # Empty,
         NEW q \in Nat, NEW order \in ListById(v, v[slot].id)
  PROVE  Taken(v, RemoveItem(v, slot, q, order).inv, v[slot].id,
               Smaller(q, IF v[slot].id \in Rechargeable THEN v[slot].quantity
                          ELSE CountById(v, v[slot].id)))
<1> DEFINE id == v[slot].id
           c == Call(v, q)
           d == TakeFrom(c, slot, FALSE)
           left == IF id \in Rechargeable THEN 0 ELSE d.left
           e == After(Taking(id), Call(d.inv, left), order).inv
<1>1. RemoveItem(v, slot, q, order).inv = e
  BY DEF RemoveItem
<1>2. v[slot] \in Stack /\ id \in Ids /\ v[slot].quantity \in Nat
  BY DEF Inventories, Stack
<1>3. c \in Calls /\ c.inv = v /\ c.left = q
  BY DEF Call, Calls
<1>4. Took(c, slot, d, id)
  <2> HIDE DEF c
  <2>1. Fits(c.inv[slot]) /\ c.inv[slot] # Empty
    BY <1>3 DEF Bounded
  <2>2. QED
    BY <1>3, <2>1, TakeFromTakes
<1> HIDE DEF c, d, id
<1>5. Taken(v, d.inv, id, q - d.left)
  BY <1>2, <1>3, <1>4, TookCounts
<1>6. d.left \in Nat /\ d.left <= q /\ d.inv \in Inventories
  BY <1>3, <1>4 DEF Took, Calls
<1>7. left \in Nat
  BY <1>6
<1>8. Covers(order, SlotsOf(d.inv, id))
  <2>1. SlotsOf(v, id) \subseteq Slots
    BY DEF SlotsOf, Occupied
  <2>2. Covers(order, SlotsOf(v, id))
    BY <2>1, OrdersCover DEF ListById, id
  <2>3. SlotsOf(d.inv, id) \subseteq SlotsOf(v, id)
    BY <1>3, <1>4 DEF Took, SlotsOf, Occupied, id
  <2>4. QED
    BY <2>2, <2>3 DEF Covers
<1> HIDE DEF left
<1>9. Taken(d.inv, e, id, Smaller(left, CountById(d.inv, id)))
  BY <1>2, <1>5, <1>6, <1>7, <1>8, TakingTakes, LoopTakes DEF Taken
<1> HIDE DEF e
<1> DEFINE n == Smaller(left, CountById(d.inv, id))
           m == Smaller(q, IF id \in Rechargeable THEN v[slot].quantity ELSE CountById(v, id))
<1>10. CountById(d.inv, id) = CountById(v, id) - (q - d.left)
  BY <1>2, <1>5 DEF Taken
<1>11. CountById(d.inv, id) \in Nat /\ CountById(v, id) \in Nat
  BY <1>6, CountNat
<1>12. (q - d.left) + n = m
  <2>1. CASE id \in Rechargeable
    <3>1. n = 0
      BY <1>11, <2>1 DEF Smaller, left
    <3>2. Worth(v[slot], id) - Worth(d.inv[slot], id) = q - d.left
      BY <1>2, <1>3, <1>4 DEF Took
    <3>3. Worth(v[slot], id) = v[slot].quantity
      BY DEF Worth, id
    <3>4. Worth(d.inv[slot], id) \in Nat
      BY <1>6 DEF Worth, Inventories, Stack
    <3>5. d.left = 0 \/ Worth(d.inv[slot], id) = 0
      BY <1>4 DEF Took
    <3>6. QED
      BY <1>2, <1>6, <2>1, <3>1, <3>2, <3>3, <3>4, <3>5 DEF Smaller
  <2>2. CASE id \notin Rechargeable
    BY <1>6, <1>10, <1>11, <2>2 DEF Smaller, left
  <2>3. QED
    BY <2>1, <2>2
<1>13. n \in Nat /\ m \in Nat
  BY <1>2, <1>7, <1>11 DEF Smaller
<1> HIDE DEF n, m
<1>14. ASSUME NEW i \in Ids
       PROVE  CountById(e, i) = CountById(v, i) - IF i = id THEN m ELSE 0
  <2>1. CountById(d.inv, i) = CountById(v, i) - IF i = id THEN q - d.left ELSE 0
    BY <1>5 DEF Taken
  <2>2. CountById(e, i) = CountById(d.inv, i) - IF i = id THEN n ELSE 0
    BY <1>9 DEF Taken, n
  <2>3. CountById(v, i) \in Nat
    BY CountNat
  <2>4. QED
    BY <1>6, <1>12, <1>13, <2>1, <2>2, <2>3
<1>15. Taken(v, e, id, m)
  BY <1>9, <1>14 DEF Taken
<1>16. QED
  BY <1>1, <1>15 DEF id, m

\* removeStarById takes the quantity asked for where there is as much.
LEMMA RemoveStarByIdTakes ==
  ASSUME NEW v \in Inventories, Bounded(v), NEW id \in Ids, NEW q \in Nat,
         \E s \in SlotsOf(v, id) : v[s].quantity > 0
  PROVE  \E n \in Nat : /\ Taken(v, RemoveStarById(v, id, q), id, n)
                        /\ q <= CountById(v, id) => n = q
<1> DEFINE sets == {s \in SlotsOf(v, id) : v[s].quantity > 0}
           head == CHOOSE s \in sets : \A t \in sets : s <= t
           keep == id \in Rechargeable
<1>1. CountById(v, id) \in Nat
  BY CountNat
<1>2. SlotsOf(v, id) \subseteq Slots /\ sets # {}
  BY DEF SlotsOf, Occupied
<1>3. head \in sets
  <2>1. sets \subseteq Nat
    BY <1>2, AscendingSlots DEF Slots
  <2>2. \E s \in sets : \A t \in sets : s <= t
    BY <1>2, <2>1, Least
  <2>3. QED
    BY <2>2
<1>4. CASE CountById(v, id) < q
  <2> DEFINE h == head
             c == Call(v, v[h].quantity)
             d == TakeFrom(c, h, keep)
  <2>1. /\ h \in Slots /\ v[h] # Empty /\ v[h].id = id /\ v[h] \in Stack
        /\ v[h].quantity \in Nat /\ v[h].quantity > 0
    BY <1>2, <1>3 DEF SlotsOf, Occupied, Inventories, Stack
  <2>2. RemoveStarById(v, id, q) = Reduce(v, h, v[h].quantity, keep)
    BY <1>2, <1>4 DEF RemoveStarById
  <2> HIDE DEF h
  <2>3. c \in Calls /\ c.inv = v /\ c.left = v[h].quantity
    BY <2>1 DEF Call, Calls
  <2>4. d = Call(Reduce(v, h, v[h].quantity, keep), 0)
    BY <2>1 DEF TakeFrom, Smaller, Call
  <2>5. Took(c, h, d, id)
    <3> HIDE DEF c, keep
    <3>1. c.inv[h] # Empty /\ c.inv[h].id = id /\ Fits(c.inv[h])
      BY <2>1, <2>3 DEF Bounded
    <3>2. keep \in BOOLEAN /\ (keep => id \in Rechargeable)
      BY DEF keep
    <3>3. QED
      BY <2>1, <2>3, <3>1, <3>2, TakeFromTakes
  <2>6. d.inv = RemoveStarById(v, id, q) /\ d.left = 0
    BY <2>2, <2>4 DEF Call
  <2> HIDE DEF c, d
  <2>7. Taken(v, RemoveStarById(v, id, q), id, v[h].quantity)
    <3>1. Taken(v, d.inv, id, v[h].quantity - 0)
      BY <2>1, <2>3, <2>5, <2>6, TookCounts
    <3>2. v[h].quantity - 0 = v[h].quantity
      BY <2>1
    <3>3. QED
      BY <3>1, <3>2, <2>6
  <2>8. QED
    BY <1>1, <1>4, <2>1, <2>7
<1>5. CASE ~ (CountById(v, id) < q)
  <2>1. RemoveStarById(v, id, q) = After(Throwing(id), Call(v, q), Ascending).inv
    BY <1>2, <1>5 DEF RemoveStarById
  <2>2. Taken(v, RemoveStarById(v, id, q), id, Smaller(q, CountById(v, id)))
    BY <1>2, <2>1, AscendingCovers, ThrowingTakes, LoopTakes
  <2>3. Smaller(q, CountById(v, id)) = q
    BY <1>1, <1>5 DEF Smaller
  <2>4. QED
    BY <2>2, <2>3
<1>6. QED
  BY <1>4, <1>5

-----------------------------------------------------------------------------
(* Adding                                                                   *)

\* A stack of the id of k that cannot be topped up.
Full(x, k) == /\ k.id \notin Rechargeable
              /\ x # Empty /\ x.id = k.id /\ x.quantity = SlotMax[k.id]

\* A quantity of the id of k that one slot can take.
OneStack(k, q) == k.id \in Rechargeable \/ q <= SlotMax[k.id]

\* What adding items like k at slot s makes of a call: stacks of other ids are left
\* alone, and a stack that is opened is full or the last.
Gave(c, s, d, k) ==
    /\ d \in Calls /\ d.left <= c.left
    /\ \A t \in Slots \ {s} : d.inv[t] = c.inv[t]
    /\ Fits(d.inv[s])
    /\ \A i \in Ids : Worth(d.inv[s], i) - Worth(c.inv[s], i) =
                         IF i = k.id THEN c.left - d.left ELSE 0
    /\ c.inv[s] # Empty =>
          /\ d.inv[s] # Empty /\ d.inv[s].id = c.inv[s].id
          /\ c.inv[s].id # k.id => d.inv[s] = c.inv[s]
          /\ Full(c.inv[s], k) => Full(d.inv[s], k)
    /\ c.inv[s] = Empty =>
          \/ d.inv[s] = Empty
          \/ /\ c.left > 0 /\ d.inv[s].id = k.id
             /\ d.left = 0 \/ Full(d.inv[s], k)
             /\ OneStack(k, c.left) => d.left = 0

\* The body of a loop that adds items like k.
Gives(body, k) ==
    \A c \in Calls, s \in Slots : Bounded(c.inv) => Gave(c, s, body[<<c, s>>], k)

LEMMA NothingGiven ==
  ASSUME NEW c \in Calls, NEW s \in Slots, NEW k, Fits(c.inv[s])
  PROVE  Gave(c, s, c, k)
<1>1. c.left \in Nat /\ \A i \in Ids : Worth(c.inv[s], i) \in Nat
  BY DEF Calls, Inventories, Worth, Stack
<1>2. QED
  BY <1>1 DEF Gave

LEMMA TopUpGives ==
  ASSUME NEW c \in Calls, NEW s \in Slots, NEW k \in Stack, k.id \notin Rechargeable,
         Fits(c.inv[s]), c.inv[s] # Empty, c.inv[s].id = k.id
  PROVE  LET d == TopUp(c, s, SlotMax[k.id])
         IN  Gave(c, s, d, k) /\ (d.left = 0 \/ Full(d.inv[s], k))
<1> DEFINE x == c.inv[s]
           max == SlotMax[k.id]
           add == Smaller(c.left, IF x.quantity < max THEN max - x.quantity ELSE 0)
           d == TopUp(c, s, max)
<1>1. c.inv \in Inventories /\ c.left \in Nat /\ x \in Stack
  BY DEF Calls, Inventories
<1>2. max \in Nat /\ x.quantity \in 1 .. max /\ x.id = k.id /\ x.quantity \in Nat
  BY <1>1, ConstantsAssumption DEF Stack, Fits
<1>3. /\ add \in Nat /\ add <= c.left /\ x.quantity + add \in 1 .. max
      /\ add = c.left \/ x.quantity + add = max
      /\ x.quantity = max => add = 0
  BY <1>1, <1>2 DEF Smaller
<1>4. d = [inv |-> [c.inv EXCEPT ![s] = [x EXCEPT !.quantity = x.quantity + add]], left |-> c.left - add]
  BY <1>1 DEF TopUp, Call, Inventories
<1> HIDE DEF add
<1>5. [x EXCEPT !.quantity = x.quantity + add] \in Stack
  BY <1>1, <1>2, <1>3 DEF Stack
<1>6. /\ d.inv = [c.inv EXCEPT ![s] = [x EXCEPT !.quantity = x.quantity + add]]
      /\ d.left = c.left - add /\ d.inv \in Inventories /\ d \in Calls
  BY <1>4, <1>5, <1>1, <1>3 DEF Inventories, Calls
<1>7. /\ d.inv[s] = [x EXCEPT !.quantity = x.quantity + add]
      /\ \A t \in Slots \ {s} : d.inv[t] = c.inv[t]
  BY <1>6, <1>1 DEF Inventories
<1>8. d.inv[s] # Empty /\ d.inv[s].id = k.id /\ d.inv[s].quantity = x.quantity + add
  BY <1>5, <1>7, <1>2, <1>1, EmptyIsNoStack DEF Stack
<1>9. Fits(d.inv[s])
  BY <1>3, <1>8 DEF Fits
<1>10. \A i \in Ids : /\ Worth(d.inv[s], i) = IF i = k.id THEN x.quantity + add ELSE 0
                      /\ Worth(x, i) = IF i = k.id THEN x.quantity ELSE 0
  BY <1>8, <1>2 DEF Worth
<1> HIDE DEF d
<1>11. \A i \in Ids : Worth(d.inv[s], i) - Worth(x, i) =
                         IF i = k.id THEN c.left - d.left ELSE 0
  BY <1>6, <1>10, <1>1, <1>2, <1>3
<1>12. d.left <= c.left /\ (d.left = 0 \/ Full(d.inv[s], k))
  BY <1>1, <1>3, <1>6, <1>8 DEF Full
<1>13. Full(x, k) => Full(d.inv[s], k)
  BY <1>2, <1>3, <1>8 DEF Full
<1>14. Gave(c, s, d, k)
  BY <1>2, <1>6, <1>7, <1>8, <1>9, <1>11, <1>12, <1>13 DEF Gave
<1>15. QED
  BY <1>12, <1>14 DEF d

LEMMA FillingGives ==
  ASSUME NEW k \in Stack, k.id \notin Rechargeable
  PROVE  /\ Gives(Filling(k), k)
         /\ \A c \in Calls : Bounded(c.inv) => \A s \in SlotsOf(c.inv, k.id) :
               LET d == Filling(k)[<<c, s>>] IN d.left = 0 \/ Full(d.inv[s], k)
<1>1. ASSUME NEW c \in Calls, NEW s \in Slots, Bounded(c.inv)
      PROVE  /\ Gave(c, s, Filling(k)[<<c, s>>], k)
             /\ s \in SlotsOf(c.inv, k.id) =>
                   \/ Filling(k)[<<c, s>>].left = 0
                   \/ Full(Filling(k)[<<c, s>>].inv[s], k)
  <2>1. Filling(k)[<<c, s>>] = IF s \in SlotsOf(c.inv, k.id) THEN TopUp(c, s, SlotMax[k.id]) ELSE c
    BY DEF Filling
  <2>2. Fits(c.inv[s])
    BY <1>1 DEF Bounded
  <2>3. CASE s \in SlotsOf(c.inv, k.id)
    <3>1. c.inv[s] # Empty /\ c.inv[s].id = k.id
      BY <2>3 DEF SlotsOf, Occupied
    <3>2. QED
      BY <3>1, <2>1, <2>2, <2>3, TopUpGives
  <2>4. CASE s \notin SlotsOf(c.inv, k.id)
    BY <2>1, <2>2, <2>4, NothingGiven
  <2>5. QED
    BY <2>3, <2>4
<1>2. \A c \in Calls : SlotsOf(c.inv, k.id) \subseteq Slots
  BY DEF SlotsOf, Occupied
<1>3. QED
  BY <1>1, <1>2 DEF Gives

LEMMA OpenStackGives ==
  ASSUME NEW c \in Calls, NEW s \in Slots, NEW k \in Stack, c.inv[s] = Empty, c.left > 0
  PROVE  Gave(c, s, OpenStack(c, s, k), k) /\ OpenStack(c, s, k).inv[s] # Empty
<1> DEFINE max == SlotMax[k.id]
           add == IF k.id \in Rechargeable THEN c.left ELSE Smaller(c.left, max)
           new == NewStack(k.id, add, k.expiration)
           d == OpenStack(c, s, k)
<1>1. c.inv \in Inventories /\ c.left \in Nat /\ k.id \in Ids /\ k.expiration \in Expirations
  BY DEF Calls, Stack
<1>2. max \in Nat \ {0}
  BY <1>1, ConstantsAssumption
<1>3. /\ add \in Nat /\ add > 0 /\ add <= c.left
      /\ add = c.left \/ (k.id \notin Rechargeable /\ add = max)
      /\ k.id \notin Rechargeable => add \in 1 .. max
      /\ OneStack(k, c.left) => add = c.left
  BY <1>1, <1>2 DEF Smaller, OneStack
<1>4. d = [inv |-> [c.inv EXCEPT ![s] = new], left |-> c.left - add]
  BY DEF OpenStack, Call
<1> HIDE DEF add
<1>5. new \in Stack /\ new.id = k.id /\ new.quantity = add /\ new # Empty
  BY <1>1, <1>3, EmptyIsNoStack DEF NewStack, Stack
<1> HIDE DEF new
<1>6. /\ d.inv = [c.inv EXCEPT ![s] = new]
      /\ d.left = c.left - add /\ d.inv \in Inventories /\ d \in Calls
  BY <1>4, <1>5, <1>1, <1>3 DEF Inventories, Calls
<1>7. d.inv[s] = new /\ \A t \in Slots \ {s} : d.inv[t] = c.inv[t]
  BY <1>6, <1>1 DEF Inventories
<1>8. Fits(d.inv[s])
  BY <1>3, <1>5, <1>7 DEF Fits
<1>9. \A i \in Ids : /\ Worth(d.inv[s], i) = IF i = k.id THEN add ELSE 0
                     /\ Worth(c.inv[s], i) = 0
  BY <1>5, <1>7 DEF Worth
<1> HIDE DEF d
<1>10. \A i \in Ids : Worth(d.inv[s], i) - Worth(c.inv[s], i) =
                         IF i = k.id THEN c.left - d.left ELSE 0
  BY <1>1, <1>3, <1>6, <1>9
<1>11. d.left <= c.left /\ (d.left = 0 \/ Full(d.inv[s], k)) /\ (OneStack(k, c.left) => d.left = 0)
  BY <1>1, <1>3, <1>5, <1>6, <1>7 DEF Full
<1>12. Gave(c, s, d, k)
  BY <1>5, <1>6, <1>7, <1>8, <1>10, <1>11 DEF Gave
<1>13. QED
  BY <1>5, <1>7, <1>12 DEF d

LEMMA OpeningGives ==
  ASSUME NEW k \in Stack
  PROVE  /\ Gives(Opening(k), k)
         /\ \A c \in Calls, s \in Slots : Bounded(c.inv) =>
               LET d == Opening(k)[<<c, s>>] IN d.left = 0 \/ d.inv[s] # Empty
<1>1. ASSUME NEW c \in Calls, NEW s \in Slots, Bounded(c.inv)
      PROVE  /\ Gave(c, s, Opening(k)[<<c, s>>], k)
             /\ Opening(k)[<<c, s>>].left = 0 \/ Opening(k)[<<c, s>>].inv[s] # Empty
  <2> DEFINE here == c.left > 0 /\ s \in FreeSlots(c.inv)
  <2>1. Opening(k)[<<c, s>>] = IF here THEN OpenStack(c, s, k) ELSE c
    BY DEF Opening
  <2>2. Fits(c.inv[s]) /\ c.left \in Nat
    BY <1>1 DEF Bounded, Calls
  <2>3. CASE here
    <3>1. c.inv[s] = Empty /\ c.left > 0
      BY <2>3 DEF FreeSlots, Occupied
    <3>2. QED
      BY <3>1, <2>1, <2>3, OpenStackGives
  <2>4. CASE ~ here
    <3>1. c.left = 0 \/ c.inv[s] # Empty
      BY <2>2, <2>4 DEF FreeSlots, Occupied
    <3>2. QED
      BY <3>1, <2>1, <2>2, <2>4, NothingGiven
  <2>5. QED
    BY <2>3, <2>4
<1>2. QED
  BY <1>1 DEF Gives

\* A call that is adding k to v: what is added and what is left make up k, a new
\* stack is full or the last, and a quantity that one slot takes opens at most one.
Placed(v, c, k) ==
    /\ c \in Calls /\ Bounded(c.inv) /\ c.left <= k.quantity
    /\ \A i \in Ids : CountById(c.inv, i) =
                         CountById(v, i) + IF i = k.id THEN k.quantity - c.left ELSE 0
    /\ \A s \in Slots :
          /\ v[s] # Empty => /\ c.inv[s] # Empty /\ c.inv[s].id = v[s].id
                             /\ v[s].id # k.id => c.inv[s] = v[s]
          /\ v[s] = Empty => \/ c.inv[s] = Empty
                             \/ c.inv[s].id = k.id /\ (c.left = 0 \/ Full(c.inv[s], k))
    /\ OneStack(k, k.quantity) =>
          Cardinality(Occupied(c.inv)) <= Cardinality(Occupied(v)) + IF c.left = 0 THEN 1 ELSE 0

LEMMA OccupiedFinite ==
  ASSUME NEW v
  PROVE  /\ IsFiniteSet(Occupied(v)) /\ Cardinality(Occupied(v)) \in Nat
         /\ Cardinality(Occupied(v)) <= Limit
         /\ Cardinality(Occupied(v)) = Limit => Occupied(v) = Slots
<1>1. IsFiniteSet(Slots) /\ Cardinality(Slots) = Limit
  BY AscendingSlots, FS_Interval DEF Slots
<1>2. Occupied(v) \subseteq Slots
  BY DEF Occupied
<1>3. QED
  BY <1>1, <1>2, FS_Subset, FS_CardinalityType

LEMMA GaveOccupies ==
  ASSUME NEW c \in Calls, NEW s \in Slots, NEW d, NEW k, Gave(c, s, d, k)
  PROVE  \/ Occupied(d.inv) = Occupied(c.inv)
         \/ /\ c.inv[s] = Empty /\ d.inv[s] # Empty
            /\ Cardinality(Occupied(d.inv)) = Cardinality(Occupied(c.inv)) + 1
<1>1. \A t \in Slots \ {s} : d.inv[t] = c.inv[t]
  BY DEF Gave
<1>2. CASE c.inv[s] = Empty /\ d.inv[s] # Empty
  <2>1. Occupied(d.inv) = Occupied(c.inv) \cup {s} /\ s \notin Occupied(c.inv)
    BY <1>1, <1>2 DEF Occupied
  <2>2. QED
    BY <1>2, <2>1, OccupiedFinite, FS_AddElement
<1>3. CASE ~ (c.inv[s] = Empty /\ d.inv[s] # Empty)
  <2>1. c.inv[s] = Empty <=> d.inv[s] = Empty
    BY <1>3 DEF Gave
  <2>2. Occupied(d.inv) = Occupied(c.inv)
    BY <1>1, <2>1 DEF Occupied
  <2>3. QED
    BY <2>2
<1>4. QED
  BY <1>2, <1>3

LEMMA PlacedStep ==
  ASSUME NEW v \in Inventories, NEW k \in Stack, NEW c, NEW s \in Slots, NEW d,
         Placed(v, c, k), Gave(c, s, d, k)
  PROVE  Placed(v, d, k)
<1>1. /\ c \in Calls /\ c.inv \in Inventories /\ c.left \in Nat /\ c.left <= k.quantity
      /\ d \in Calls /\ d.inv \in Inventories /\ d.left \in Nat /\ d.left <= c.left
      /\ k.quantity \in Nat
  BY DEF Placed, Gave, Calls, Stack
<1>2. Bounded(d.inv)
  BY DEF Placed, Gave, Bounded
<1>3. ASSUME NEW i \in Ids
      PROVE  CountById(d.inv, i) = CountById(v, i) + IF i = k.id THEN k.quantity - d.left ELSE 0
  <2>1. CountById(d.inv, i) = CountById(c.inv, i) + (Worth(d.inv[s], i) - Worth(c.inv[s], i))
    BY <1>1, CountChange DEF Gave
  <2>2. Worth(d.inv[s], i) - Worth(c.inv[s], i) = IF i = k.id THEN c.left - d.left ELSE 0
    BY DEF Gave
  <2>3. CountById(c.inv, i) = CountById(v, i) + IF i = k.id THEN k.quantity - c.left ELSE 0
    BY DEF Placed
  <2>4. CountById(v, i) \in Nat
    BY CountNat
  <2>5. QED
    BY <1>1, <2>1, <2>2, <2>3, <2>4
<1>4. ASSUME NEW t \in Slots
      PROVE  /\ v[t] # Empty => /\ d.inv[t] # Empty /\ d.inv[t].id = v[t].id
                                /\ v[t].id # k.id => d.inv[t] = v[t]
             /\ v[t] = Empty => \/ d.inv[t] = Empty
                                \/ d.inv[t].id = k.id /\ (d.left = 0 \/ Full(d.inv[t], k))
  <2>1. /\ v[t] # Empty => /\ c.inv[t] # Empty /\ c.inv[t].id = v[t].id
                           /\ v[t].id # k.id => c.inv[t] = v[t]
        /\ v[t] = Empty => \/ c.inv[t] = Empty
                           \/ c.inv[t].id = k.id /\ (c.left = 0 \/ Full(c.inv[t], k))
    BY DEF Placed
  <2>2. c.left = 0 => d.left = 0
    BY <1>1
  <2>3. CASE t # s
    BY <2>1, <2>2, <2>3 DEF Gave
  <2>4. CASE t = s
    <3>1. /\ c.inv[t] # Empty =>
                /\ d.inv[t] # Empty /\ d.inv[t].id = c.inv[t].id
                /\ c.inv[t].id # k.id => d.inv[t] = c.inv[t]
                /\ Full(c.inv[t], k) => Full(d.inv[t], k)
          /\ c.inv[t] = Empty =>
                \/ d.inv[t] = Empty
                \/ d.inv[t].id = k.id /\ (d.left = 0 \/ Full(d.inv[t], k))
      BY <2>4 DEF Gave
    <3>2. QED
      BY <2>1, <2>2, <3>1
  <2>5. QED
    BY <2>3, <2>4
<1>5. ASSUME OneStack(k, k.quantity)
      PROVE  Cardinality(Occupied(d.inv)) <= Cardinality(Occupied(v)) + IF d.left = 0 THEN 1 ELSE 0
  <2>1. Cardinality(Occupied(c.inv)) <= Cardinality(Occupied(v)) + IF c.left = 0 THEN 1 ELSE 0
    BY <1>5 DEF Placed
  <2>2. c.left = 0 => d.left = 0
    BY <1>1
  <2>3. /\ Cardinality(Occupied(c.inv)) \in Nat /\ Cardinality(Occupied(d.inv)) \in Nat
        /\ Cardinality(Occupied(v)) \in Nat
    BY OccupiedFinite
  <2>4. CASE Occupied(d.inv) = Occupied(c.inv)
    BY <2>1, <2>2, <2>3, <2>4
  <2>5. CASE /\ c.inv[s] = Empty /\ d.inv[s] # Empty
             /\ Cardinality(Occupied(d.inv)) = Cardinality(Occupied(c.inv)) + 1
    <3>1. c.left > 0 /\ (OneStack(k, c.left) => d.left = 0)
      BY <2>5 DEF Gave
    <3>2. OneStack(k, c.left)
      <4>1. CASE k.id \in Rechargeable
        BY <4>1 DEF OneStack
      <4>2. CASE k.quantity <= SlotMax[k.id]
        <5>1. SlotMax[k.id] \in Nat
          BY ConstantsAssumption DEF Stack
        <5>2. QED
          BY <1>1, <4>2, <5>1 DEF OneStack
      <4>3. QED
        BY <1>5, <4>1, <4>2 DEF OneStack
    <3>3. QED
      BY <2>1, <2>3, <2>5, <3>1, <3>2, <1>1
  <2>6. QED
    BY <1>1, <2>4, <2>5, GaveOccupies
<1>6. d.left <= k.quantity
  BY <1>1
<1>7. QED
  BY <1>1, <1>2, <1>3, <1>4, <1>5, <1>6 DEF Placed

\* What a slot has come to while a call has something left: a stack of the id of k
\* that is full.
Done(s, k) == {c \in Calls : c.left = 0 \/ Full(c.inv[s], k)}

LEMMA GaveStaysDone ==
  ASSUME NEW c \in Calls, NEW s \in Slots, NEW t \in Slots, NEW k, NEW d,
         Gave(c, t, d, k), c \in Done(s, k)
  PROVE  d \in Done(s, k)
<1>1. d \in Calls /\ (c.left = 0 => d.left = 0)
  BY DEF Gave, Calls
<1>2. Full(c.inv[s], k) => Full(d.inv[s], k)
  <2>1. CASE s = t
    BY <2>1 DEF Gave, Full
  <2>2. CASE s # t
    BY <2>2 DEF Gave
  <2>3. QED
    BY <2>1, <2>2
<1>3. QED
  BY <1>1, <1>2 DEF Done

\* A loop that adds keeps Placed and what is done.
LEMMA LoopGives ==
  ASSUME NEW v \in Inventories, NEW k \in Stack, NEW body, Gives(body, k),
         NEW c, Placed(v, c, k), NEW order, Covers(order, {})
  PROVE  /\ Placed(v, After(body, c, order), k)
         /\ \A s \in Slots : c \in Done(s, k) => After(body, c, order) \in Done(s, k)
<1> DEFINE I == {d \in Calls : Placed(v, d, k)}
<1>1. Len(order) \in Nat /\ \A i \in 1 .. Len(order) : order[i] \in Slots
  BY DEF Covers
<1>2. c \in I
  BY DEF Placed
<1>3. ASSUME NEW d \in I, NEW i \in 1 .. Len(order)
      PROVE  /\ body[<<d, order[i]>>] \in I
             /\ Gave(d, order[i], body[<<d, order[i]>>], k)
  <2>1. order[i] \in Slots /\ d \in Calls /\ Placed(v, d, k)
    BY <1>1
  <2>2. Gave(d, order[i], body[<<d, order[i]>>], k)
    BY <2>1 DEF Gives, Placed
  <2>3. Placed(v, body[<<d, order[i]>>], k)
    BY <2>1, <2>2, PlacedStep
  <2>4. QED
    BY <2>2, <2>3 DEF Placed
<1>4. After(body, c, order) \in I
  <2> HIDE DEF I
  <2>1. QED
    BY <1>1, <1>2, <1>3, LoopKeeps
<1>5. ASSUME NEW s \in Slots, c \in Done(s, k)
      PROVE  After(body, c, order) \in Done(s, k)
  <2> DEFINE X == I \cap Done(s, k)
  <2>1. \A d \in X, i \in 1 .. Len(order) : body[<<d, order[i]>>] \in X
    BY <1>1, <1>3, GaveStaysDone
  <2>2. c \in X
    BY <1>2, <1>5
  <2> HIDE DEF X
  <2>3. After(body, c, order) \in X
    BY <1>1, <2>1, <2>2, LoopKeeps
  <2>4. QED
    BY <2>3 DEF X
<1>6. QED
  BY <1>4, <1>5

\* Filling leaves no stack of the id that is not full while something is left.
LEMMA LoopFills ==
  ASSUME NEW v \in Inventories, NEW k \in Stack, k.id \notin Rechargeable,
         NEW c, Placed(v, c, k), NEW order, Covers(order, SlotsOf(v, k.id))
  PROVE  \A s \in SlotsOf(v, k.id) : After(Filling(k), c, order) \in Done(s, k)
<1> DEFINE I == {d \in Calls : Placed(v, d, k)}
           body == Filling(k)
<1>1. Len(order) \in Nat /\ \A i \in 1 .. Len(order) : order[i] \in Slots
  BY DEF Covers
<1>2. c \in I
  BY DEF Placed
<1>3. ASSUME NEW d \in I, NEW i \in 1 .. Len(order)
      PROVE  /\ body[<<d, order[i]>>] \in I
             /\ Gave(d, order[i], body[<<d, order[i]>>], k)
             /\ order[i] \in SlotsOf(v, k.id) => body[<<d, order[i]>>] \in Done(order[i], k)
  <2>1. order[i] \in Slots /\ d \in Calls /\ Placed(v, d, k) /\ Bounded(d.inv)
    BY <1>1 DEF Placed
  <2>2. Gave(d, order[i], body[<<d, order[i]>>], k)
    BY <2>1, FillingGives DEF Gives
  <2>3. Placed(v, body[<<d, order[i]>>], k)
    BY <2>1, <2>2, PlacedStep
  <2>4. ASSUME order[i] \in SlotsOf(v, k.id)
        PROVE  body[<<d, order[i]>>] \in Done(order[i], k)
    <3>1. order[i] \in SlotsOf(d.inv, k.id)
      BY <2>1, <2>4 DEF Placed, SlotsOf, Occupied
    <3>2. body[<<d, order[i]>>].left = 0 \/ Full(body[<<d, order[i]>>].inv[order[i]], k)
      BY <2>1, <3>1, FillingGives
    <3>3. QED
      BY <2>2, <3>2 DEF Done, Gave
  <2>5. QED
    BY <2>2, <2>3, <2>4 DEF Placed
<1>4. ASSUME NEW s \in SlotsOf(v, k.id)
      PROVE  After(body, c, order) \in Done(s, k)
  <2>1. s \in Slots
    BY DEF SlotsOf, Occupied
  <2>2. PICK j \in 1 .. Len(order) : order[j] = s
    BY DEF Covers
  <2>3. \A d \in I : body[<<d, order[j]>>] \in Done(s, k)
    BY <1>3, <2>2
  <2>4. \A d \in I \cap Done(s, k), i \in 1 .. Len(order) : body[<<d, order[i]>>] \in Done(s, k)
    BY <1>1, <1>3, <2>1, GaveStaysDone
  <2>5. \A d \in I, i \in 1 .. Len(order) : body[<<d, order[i]>>] \in I
    BY <1>3
  <2> HIDE DEF I, body
  <2>6. QED
    BY <1>1, <1>2, <2>3, <2>4, <2>5, LoopReaches
<1>5. QED
  BY <1>4

\* Opening leaves no free slot while something is left.
LEMMA LoopOpens ==
  ASSUME NEW v \in Inventories, NEW k \in Stack, NEW c, Placed(v, c, k)
  PROVE  \A s \in FreeSlots(v) : After(Opening(k), c, Ascending) \in Done(s, k)
<1> DEFINE I == {d \in Calls : Placed(v, d, k)}
           body == Opening(k)
           order == Ascending
           Used(s) == {d \in Calls : d.left = 0 \/ d.inv[s] # Empty}
<1>1. Len(order) \in Nat /\ \A i \in 1 .. Len(order) : order[i] \in Slots
  BY AscendingSlots DEF Slots
<1>2. c \in I
  BY DEF Placed
<1>3. ASSUME NEW d \in I, NEW i \in 1 .. Len(order)
      PROVE  /\ body[<<d, order[i]>>] \in I
             /\ Gave(d, order[i], body[<<d, order[i]>>], k)
             /\ body[<<d, order[i]>>] \in Used(order[i])
  <2>1. order[i] \in Slots /\ d \in Calls /\ Placed(v, d, k) /\ Bounded(d.inv)
    BY <1>1 DEF Placed
  <2>2. Gave(d, order[i], body[<<d, order[i]>>], k)
    BY <2>1, OpeningGives DEF Gives
  <2>3. Placed(v, body[<<d, order[i]>>], k)
    BY <2>1, <2>2, PlacedStep
  <2>4. body[<<d, order[i]>>].left = 0 \/ body[<<d, order[i]>>].inv[order[i]] # Empty
    BY <2>1, OpeningGives
  <2>5. QED
    BY <2>2, <2>3, <2>4 DEF Placed
<1>4. ASSUME NEW s \in FreeSlots(v)
      PROVE  After(body, c, order) \in Done(s, k)
  <2> DEFINE X == Used(s)
  <2>1. s \in Slots /\ v[s] = Empty
    BY DEF FreeSlots, Occupied
  <2>2. PICK j \in 1 .. Len(order) : order[j] = s
    BY <2>1, AscendingSlots DEF Slots
  <2>3. \A d \in I : body[<<d, order[j]>>] \in X
    BY <1>3, <2>2
  <2>4. ASSUME NEW d \in I \cap X, NEW i \in 1 .. Len(order)
        PROVE  body[<<d, order[i]>>] \in X
    <3>1. Gave(d, order[i], body[<<d, order[i]>>], k) /\ order[i] \in Slots /\ d \in Calls
      BY <1>1, <1>3
    <3>2. body[<<d, order[i]>>] \in Calls /\ (d.left = 0 => body[<<d, order[i]>>].left = 0)
      BY <3>1 DEF Gave, Calls
    <3>3. d.inv[s] # Empty => body[<<d, order[i]>>].inv[s] # Empty
      BY <2>1, <3>1 DEF Gave
    <3>4. QED
      BY <3>2, <3>3
  <2>5. \A d \in I, i \in 1 .. Len(order) : body[<<d, order[i]>>] \in I
    BY <1>3
  <2> DEFINE e == After(body, c, order)
  <2>6. e \in X /\ e \in I
    <3> HIDE DEF I, body, order, X
    <3>1. QED
      BY <1>1, <1>2, <2>3, <2>4, <2>5, LoopReaches, LoopKeeps
  <2> HIDE DEF e
  <2>7. QED
    BY <2>1, <2>6 DEF Placed, Done, e
<1>5. QED
  BY <1>4

-----------------------------------------------------------------------------
(* hasRoom and addFromDrop                                                  *)

\* The room addFromDrop needs: what hasRoom answers yes to has it.
Roomy(v, k) ==
    IF k.id \in Rechargeable THEN ~ IsFull(v)
    ELSE k.quantity - Total(SpaceOn(v, k)) <= Cardinality(FreeSlots(v)) * SlotMax[k.id]

\* An inventory to which k is added, whole.
Added(v, w, k) ==
    /\ w \in Inventories /\ Bounded(w)
    /\ \A i \in Ids : CountById(w, i) = CountById(v, i) + IF i = k.id THEN k.quantity ELSE 0
    /\ OneStack(k, k.quantity) =>
          Cardinality(Occupied(w)) <= Cardinality(Occupied(v)) + 1

LEMMA FreeFinite ==
  ASSUME NEW v
  PROVE  /\ FreeSlots(v) \subseteq Slots /\ IsFiniteSet(FreeSlots(v))
         /\ Cardinality(FreeSlots(v)) \in Nat
         /\ ~ IsFull(v) => Cardinality(FreeSlots(v)) > 0
<1>1. IsFiniteSet(Slots) /\ FreeSlots(v) \subseteq Slots
  BY AscendingSlots, FS_Interval DEF Slots, FreeSlots
<1>2. IsFiniteSet(FreeSlots(v)) /\ Cardinality(FreeSlots(v)) \in Nat
  BY <1>1, FS_Subset, FS_CardinalityType
<1>3. ASSUME ~ IsFull(v)
      PROVE  Cardinality(FreeSlots(v)) > 0
  BY <1>2, <1>3, FS_EmptySet DEF IsFull
<1>4. QED
  BY <1>1, <1>2, <1>3

LEMMA SpaceNat ==
  ASSUME NEW v \in Inventories, Bounded(v), NEW k \in Stack, k.id \notin Rechargeable
  PROVE  SpaceOn(v, k) \in [Slots -> Nat] /\ SpaceOn(v, k) \in [Slots -> Int]
<1>1. SlotMax[k.id] \in Nat
  BY ConstantsAssumption DEF Stack
<1>2. ASSUME NEW s \in SlotsOf(v, k.id)
      PROVE  SlotMax[k.id] - v[s].quantity \in Nat
  <2>1. v[s] # Empty /\ v[s].id = k.id /\ s \in Slots
    BY DEF SlotsOf, Occupied
  <2>2. v[s].quantity \in 1 .. SlotMax[k.id]
    BY <2>1 DEF Bounded, Fits
  <2>3. QED
    BY <1>1, <2>2
<1>3. SpaceOn(v, k) \in [Slots -> Nat]
  BY <1>2 DEF SpaceOn
<1>4. QED
  BY <1>3 DEF SpaceOn

LEMMA HasRoomIsRoomy ==
  ASSUME NEW v \in Inventories, Bounded(v), NEW k \in Stack, HasRoom(v, k)
  PROVE  Roomy(v, k)
<1>1. CASE k.id \in Rechargeable
  BY <1>1 DEF HasRoom, Roomy
<1>2. CASE k.id \notin Rechargeable
  <2> DEFINE space == Total(SpaceOn(v, k))
             room == Cardinality(FreeSlots(v)) * SlotMax[k.id]
  <2>1. space \in Int /\ k.quantity \in Nat
    BY <1>2, SpaceNat, TotalInt DEF Stack
  <2>2. room \in Nat
    <3>1. Cardinality(FreeSlots(v)) \in Nat /\ SlotMax[k.id] \in Nat
      BY FreeFinite, ConstantsAssumption DEF Stack
    <3>2. QED
      BY <3>1
  <2>3. k.quantity - space <= 0 \/ room >= k.quantity - space
    BY DEF HasRoom
  <2>4. Roomy(v, k) <=> k.quantity - space <= room
    BY <1>2 DEF Roomy
  <2> HIDE DEF space, room
  <2>5. QED
    BY <2>1, <2>2, <2>3, <2>4
<1>3. QED
  BY <1>1, <1>2

LEMMA OneStackIsRoomy ==
  ASSUME NEW v \in Inventories, Bounded(v), NEW k \in Stack, OneStack(k, k.quantity), ~ IsFull(v)
  PROVE  Roomy(v, k)
<1>1. CASE k.id \in Rechargeable
  BY <1>1 DEF Roomy
<1>2. CASE k.id \notin Rechargeable
  <2> DEFINE space == Total(SpaceOn(v, k))
             free == Cardinality(FreeSlots(v))
             max == SlotMax[k.id]
  <2>1. space \in Nat /\ k.quantity \in Nat /\ k.quantity <= max
    BY <1>2, SpaceNat, TotalNat DEF Stack, OneStack
  <2>2. free \in Nat /\ free > 0 /\ max \in Nat
    BY FreeFinite, ConstantsAssumption DEF Stack
  <2>3. Roomy(v, k) <=> k.quantity - space <= free * max
    BY <1>2 DEF Roomy
  <2> HIDE DEF space, free, max
  <2>4. max <= free * max
    <3>1. free - 1 \in Nat /\ (free - 1) * max \in Nat
      BY <2>2
    <3>2. free * max = (free - 1) * max + max
      BY <2>2
    <3>3. QED
      BY <2>2, <3>1, <3>2
  <2>5. free * max \in Nat
    BY <2>2
  <2>6. QED
    BY <2>1, <2>2, <2>3, <2>4, <2>5
<1>3. QED
  BY <1>1, <1>2

LEMMA PlacedAtStart ==
  ASSUME NEW v \in Inventories, Bounded(v), NEW k \in Stack
  PROVE  Placed(v, Call(v, k.quantity), k)
<1> DEFINE c == Call(v, k.quantity)
<1>1. c \in Calls /\ c.inv = v /\ c.left = k.quantity /\ k.quantity \in Nat
  BY DEF Call, Calls, Stack
<1>2. \A i \in Ids : CountById(v, i) \in Nat
  BY CountNat
<1>3. Cardinality(Occupied(v)) \in Nat
  BY OccupiedFinite
<1> HIDE DEF c
<1>4. Placed(v, c, k)
  BY <1>1, <1>2, <1>3 DEF Placed
<1>5. QED
  BY <1>4 DEF c

\* A call that has room and still something left does not have every stack of the
\* id full and no slot free.
LEMMA NothingLeft ==
  ASSUME NEW v \in Inventories, Bounded(v), NEW k \in Stack, NEW c, Placed(v, c, k), Roomy(v, k),
         \A s \in FreeSlots(v) : c \in Done(s, k),
         k.id \notin Rechargeable => \A s \in SlotsOf(v, k.id) : c \in Done(s, k)
  PROVE  c.left = 0
<1>1. SUFFICES ASSUME c.left # 0
               PROVE  FALSE
  OBVIOUS
<1>2. CASE k.id \in Rechargeable
  <2>1. PICK s \in FreeSlots(v) : TRUE
    BY <1>2 DEF Roomy, IsFull
  <2>2. Full(c.inv[s], k)
    BY <1>1 DEF Done
  <2>3. QED
    BY <1>2, <2>2 DEF Full
<1>3. CASE k.id \notin Rechargeable
  <2> DEFINE max == SlotMax[k.id]
             f == Held(v, k.id)
             space == SpaceOn(v, k)
             open == [s \in Slots |-> IF s \in FreeSlots(v) THEN max ELSE 0]
             g == Held(c.inv, k.id)
             some == [s \in Slots |-> f[s] + space[s]]
             all == [s \in Slots |-> some[s] + open[s]]
  <2>1. c.inv \in Inventories /\ c.left \in Nat /\ k.quantity \in Nat /\ k.id \in Ids /\ max \in Nat
    BY ConstantsAssumption DEF Placed, Calls, Stack
  <2>2. /\ f \in [Slots -> Int] /\ \A s \in Slots : f[s] = Worth(v[s], k.id)
        /\ g \in [Slots -> Int] /\ \A s \in Slots : g[s] = Worth(c.inv[s], k.id) /\ g[s] \in Nat
    BY <2>1, HeldWorth
  <2>3. space \in [Slots -> Int] /\ open \in [Slots -> Int]
    BY <1>3, <2>1, SpaceNat
  <2>4. Total(open) = Cardinality(FreeSlots(v)) * max
    BY <2>1, FreeFinite, TotalOver
  <2>5. ASSUME NEW s \in Slots
        PROVE  f[s] + space[s] + open[s] <= g[s]
    <3>1. CASE s \in SlotsOf(v, k.id)
      <4>1. v[s] # Empty /\ v[s].id = k.id /\ v[s] \in Stack /\ s \notin FreeSlots(v)
        BY <3>1 DEF SlotsOf, Occupied, FreeSlots, Inventories
      <4>2. Full(c.inv[s], k)
        BY <1>1, <1>3, <3>1 DEF Done
      <4>3. g[s] = max
        BY <2>2, <4>2 DEF Full, Worth
      <4>4. f[s] = v[s].quantity /\ open[s] = 0
        BY <2>2, <4>1 DEF Worth
      <4>5. v[s].quantity \in 1 .. max
        BY <1>3, <4>1 DEF Bounded, Fits
      <4>6. space[s] = IF v[s].expiration = k.expiration THEN max - v[s].quantity ELSE 0
        BY <3>1 DEF SpaceOn
      <4>7. QED
        BY <2>1, <4>3, <4>4, <4>5, <4>6
    <3>2. CASE s \notin SlotsOf(v, k.id)
      <4>1. f[s] = 0 /\ space[s] = 0
        BY <3>2 DEF Held, SpaceOn
      <4>2. CASE s \in FreeSlots(v)
        <5>1. Full(c.inv[s], k)
          BY <1>1, <4>2 DEF Done
        <5>2. g[s] = max
          BY <2>2, <5>1 DEF Full, Worth
        <5>3. open[s] = max
          BY <4>2
        <5>4. QED
          BY <2>1, <4>1, <5>2, <5>3
      <4>3. CASE s \notin FreeSlots(v)
        <5>1. open[s] = 0
          BY <4>3
        <5>2. QED
          BY <2>2, <4>1, <5>1
      <4>4. QED
        BY <4>2, <4>3
    <3>3. QED
      BY <3>1, <3>2
  <2> HIDE DEF f, space, open, g, max
  <2>6. /\ some \in [Slots -> Int] /\ \A s \in Slots : some[s] = f[s] + space[s]
        /\ all \in [Slots -> Int] /\ \A s \in Slots : all[s] = some[s] + open[s]
    BY <2>2, <2>3
  <2>7. \A s \in Slots : all[s] <= g[s]
    BY <2>5, <2>6
  <2> HIDE DEF some, all
  <2>8. Total(some) = Total(f) + Total(space)
    BY <2>2, <2>3, <2>6, TotalSum
  <2>9. Total(all) = Total(some) + Total(open)
    BY <2>3, <2>6, TotalSum
  <2>10. Total(all) <= Total(g)
    BY <2>2, <2>6, <2>7, TotalLeq
  <2>11. /\ Total(f) \in Int /\ Total(space) \in Int /\ Total(open) \in Int
         /\ Total(some) \in Int /\ Total(all) \in Int /\ Total(g) \in Int
    BY <2>2, <2>3, <2>6, TotalInt
  <2>12. Total(g) = Total(f) + (k.quantity - c.left)
    <3>1. CountById(c.inv, k.id) = CountById(v, k.id) + (k.quantity - c.left)
      BY <2>1 DEF Placed
    <3>2. QED
      BY <3>1 DEF CountById, f, g
  <2>13. k.quantity - Total(space) <= Total(open)
    BY <1>3, <2>4 DEF Roomy, space, max
  <2>14. QED
    BY <1>1, <2>1, <2>8, <2>9, <2>10, <2>11, <2>12, <2>13
<1>4. QED
  BY <1>2, <1>3

\* addFromDrop adds a stack whole where there is room.
LEMMA AddFromDropAdds ==
  ASSUME NEW v \in Inventories, Bounded(v), NEW k \in Stack, Roomy(v, k),
         k.id \in Rechargeable \/ k.quantity > 0,
         NEW order, Covers(order, SlotsOf(v, k.id))
  PROVE  /\ AddFromDrop(v, k, order).left = 0
         /\ Added(v, AddFromDrop(v, k, order).inv, k)
<1>1. k.quantity \in Nat /\ k # Empty
  BY EmptyIsNoStack DEF Stack
<1>2. CASE k.id \in Rechargeable /\ k.quantity = 0
  <2> DEFINE s == NextFreeSlot(v)
             w == [v EXCEPT ![s] = k]
  <2>1. ~ IsFull(v)
    BY <1>2 DEF Roomy
  <2>2. AddFromDrop(v, k, order) = Call(w, 0)
    BY <1>2, <2>1 DEF AddFromDrop
  <2>3. s \in FreeSlots(v)
    <3>1. FreeSlots(v) \subseteq Nat /\ FreeSlots(v) # {}
      BY <2>1, FreeFinite, AscendingSlots DEF Slots, IsFull
    <3>2. \E t \in FreeSlots(v) : \A u \in FreeSlots(v) : t <= u
      BY <3>1, Least
    <3>3. QED
      BY <3>2 DEF NextFreeSlot
  <2> HIDE DEF s
  <2>4. s \in Slots /\ v[s] = Empty
    BY <2>3 DEF FreeSlots, Occupied
  <2>5. w \in Inventories /\ w[s] = k /\ \A t \in Slots \ {s} : w[t] = v[t]
    BY <2>4 DEF Inventories
  <2> HIDE DEF w
  <2>6. Bounded(w)
    BY <1>2, <2>5 DEF Bounded, Fits
  <2>7. ASSUME NEW i \in Ids
        PROVE  CountById(w, i) = CountById(v, i) + IF i = k.id THEN k.quantity ELSE 0
    <3>1. CountById(w, i) = CountById(v, i) + (Worth(w[s], i) - Worth(v[s], i))
      BY <2>4, <2>5, CountChange
    <3>2. Worth(w[s], i) = 0 /\ Worth(v[s], i) = 0
      BY <1>2, <2>4, <2>5 DEF Worth
    <3>3. CountById(v, i) \in Nat
      BY CountNat
    <3>4. QED
      BY <1>2, <3>1, <3>2, <3>3
  <2>8. Cardinality(Occupied(w)) <= Cardinality(Occupied(v)) + 1
    <3>1. Occupied(w) = Occupied(v) \cup {s} /\ s \notin Occupied(v)
      BY <1>1, <2>4, <2>5 DEF Occupied
    <3>2. Cardinality(Occupied(w)) = Cardinality(Occupied(v)) + 1
      BY <3>1, OccupiedFinite, FS_AddElement
    <3>3. Cardinality(Occupied(v)) \in Nat
      BY OccupiedFinite
    <3>4. QED
      BY <3>2, <3>3
  <2>9. Added(v, w, k)
    BY <2>5, <2>6, <2>7, <2>8 DEF Added
  <2>10. QED
    BY <2>2, <2>9 DEF Call
<1>3. CASE ~ (k.id \in Rechargeable /\ k.quantity = 0)
  <2> DEFINE c == Call(v, k.quantity)
             b == IF k.id \in Rechargeable THEN c ELSE After(Filling(k), c, order)
             e == After(Opening(k), b, Ascending)
  <2>1. AddFromDrop(v, k, order) = e
    BY <1>3 DEF AddFromDrop
  <2>2. Placed(v, c, k)
    BY PlacedAtStart
  <2>3. Covers(order, {}) /\ Covers(Ascending, {})
    BY AscendingCovers DEF Covers
  <2> HIDE DEF c
  <2>4. Placed(v, b, k)
    <3>1. CASE k.id \in Rechargeable
      BY <2>2, <3>1
    <3>2. CASE k.id \notin Rechargeable
      BY <2>2, <2>3, <3>2, FillingGives, LoopGives
    <3>3. QED
      BY <3>1, <3>2
  <2>5. k.id \notin Rechargeable => \A s \in SlotsOf(v, k.id) : b \in Done(s, k)
    BY <2>2, LoopFills
  <2> HIDE DEF b
  <2>6. Placed(v, e, k)
    BY <2>3, <2>4, OpeningGives, LoopGives
  <2>7. k.id \notin Rechargeable => \A s \in SlotsOf(v, k.id) : e \in Done(s, k)
    <3>1. SlotsOf(v, k.id) \subseteq Slots
      BY DEF SlotsOf, Occupied
    <3>2. QED
      BY <2>3, <2>4, <2>5, <3>1, OpeningGives, LoopGives
  <2>8. \A s \in FreeSlots(v) : e \in Done(s, k)
    BY <2>4, LoopOpens
  <2> HIDE DEF e
  <2>9. e.left = 0
    BY <2>6, <2>7, <2>8, NothingLeft
  <2>10. Added(v, e.inv, k)
    <3>1. e.inv \in Inventories /\ Bounded(e.inv)
      BY <2>6 DEF Placed, Calls
    <3>2. \A i \in Ids : CountById(e.inv, i) = CountById(v, i) + IF i = k.id THEN k.quantity ELSE 0
      BY <1>1, <2>6, <2>9 DEF Placed
    <3>3. OneStack(k, k.quantity) => Cardinality(Occupied(e.inv)) <= Cardinality(Occupied(v)) + 1
      BY <2>6, <2>9 DEF Placed
    <3>4. QED
      BY <3>1, <3>2, <3>3 DEF Added
  <2>11. QED
    BY <2>1, <2>9, <2>10
<1>4. QED
  BY <1>2, <1>3

\* hasRoom's yes is kept by addFromDrop.
LEMMA HasRoomSound ==
  ASSUME NEW v \in Inventories, Bounded(v), NEW k \in Incoming, HasRoom(v, k),
         NEW order \in ListById(v, k.id)
  PROVE  /\ AddFromDrop(v, k, order).left = 0
         /\ Added(v, AddFromDrop(v, k, order).inv, k)
<1>1. k \in Stack /\ (k.id \in Rechargeable \/ k.quantity > 0)
  BY ConstantsAssumption DEF Incoming, Stack
<1>2. Roomy(v, k)
  BY <1>1, HasRoomIsRoomy
<1>3. SlotsOf(v, k.id) \subseteq Slots
  BY DEF SlotsOf, Occupied
<1>4. Covers(order, SlotsOf(v, k.id))
  BY <1>3, OrdersCover DEF ListById
<1>5. QED
  BY <1>1, <1>2, <1>4, AddFromDropAdds

-----------------------------------------------------------------------------
(* The sort                                                                 *)

\* A stack of the inventory that is sorted finds room in one that is not full.
LEMMA PutBack ==
  ASSUME NEW v \in Inventories, Bounded(v), NEW w \in Inventories, Bounded(w), ~ IsFull(w),
         NEW s \in Occupied(v)
  PROVE  Added(w, AddFromDrop(w, v[s], Ascending).inv, v[s]) /\ OneStack(v[s], v[s].quantity)
<1> DEFINE k == v[s]
<1>1. s \in Slots /\ k # Empty /\ k \in Stack
  BY DEF Occupied, Inventories
<1>2. Fits(k)
  BY <1>1 DEF Bounded
<1> HIDE DEF k
<1>3. SlotMax[k.id] \in Nat /\ k.quantity \in Nat
  BY <1>1, ConstantsAssumption DEF Stack
<1>4. OneStack(k, k.quantity) /\ (k.id \in Rechargeable \/ k.quantity > 0)
  BY <1>1, <1>2, <1>3 DEF Fits, OneStack
<1>5. Roomy(w, k)
  BY <1>1, <1>4, OneStackIsRoomy
<1>6. Covers(Ascending, SlotsOf(w, k.id))
  <2>1. SlotsOf(w, k.id) \subseteq Slots
    BY DEF SlotsOf, Occupied
  <2>2. QED
    BY <2>1, AscendingCovers
<1>7. Added(w, AddFromDrop(w, k, Ascending).inv, k)
  BY <1>1, <1>4, <1>5, <1>6, AddFromDropAdds
<1>8. QED
  BY <1>4, <1>7 DEF k

\* What the sort still has to add back after n passes.
Rest(v, q, n) == [s \in Slots |-> IF \E i \in 1 .. n : q[i] = s THEN Empty ELSE v[s]]

\* The sort makes and loses nothing: what is added back and what is still to come
\* are what there was, and together they need no more slots than there are.
LEMMA SortKeeps ==
  ASSUME NEW v \in Inventories, Bounded(v), NEW q \in Orders(Occupied(v))
  PROVE  LET w == After(PuttingBack(v), Call([s \in Slots |-> Empty], 0), q).inv
         IN  w \in Inventories /\ Bounded(w) /\ \A i \in Ids : CountById(w, i) = CountById(v, i)
<1> DEFINE body == PuttingBack(v)
           none == [s \in Slots |-> Empty]
           c == Call(none, 0)
           e == After(body, c, q)
           Kept(d, n) ==
              /\ d \in Calls /\ Bounded(d.inv)
              /\ \A i \in Ids : CountById(d.inv, i) + CountById(Rest(v, q, n), i) = CountById(v, i)
              /\ Cardinality(Occupied(d.inv)) + Cardinality(Occupied(Rest(v, q, n))) <= Limit
<1>1. Occupied(v) \subseteq Slots
  BY DEF Occupied
<1>2. /\ Len(q) \in Nat /\ q \in [1 .. Len(q) -> Occupied(v)]
      /\ \A i, j \in 1 .. Len(q) : q[i] = q[j] => i = j
      /\ \A s \in Occupied(v) : \E i \in 1 .. Len(q) : q[i] = s
  BY <1>1, OrdersCover DEF Covers
<1>3. PICK run : /\ run[0] = c
                 /\ \A i \in 1 .. Len(q) : run[i] = body[<<run[i - 1], q[i]>>]
                 /\ e = run[Len(q)]
  BY <1>2, LoopRuns
<1>4. \A n \in Nat : Rest(v, q, n) \in Inventories
  BY DEF Rest, Inventories
<1> DEFINE S == {n \in Nat : n <= Len(q) => Kept(run[n], n)}
<1>5. 0 \in S
  <2>1. c \in Calls /\ c.inv = none /\ none \in Inventories
    BY DEF Call, Calls, Inventories
  <2>2. Rest(v, q, 0) = v
    BY DEF Rest, Inventories
  <2>3. \A s \in Slots, i \in Ids : Worth(none[s], i) = 0
    BY DEF Worth
  <2>4. \A i \in Ids : CountById(none, i) = 0 /\ CountById(v, i) \in Nat
    BY <2>1, <2>3, CountNone, CountNat
  <2>5. Bounded(none) /\ Occupied(none) = {}
    BY DEF Bounded, Fits, Occupied
  <2>6. Cardinality(Occupied(none)) = 0 /\ Cardinality(Occupied(v)) <= Limit
        /\ Cardinality(Occupied(v)) \in Nat
    BY <2>5, OccupiedFinite, FS_EmptySet
  <2> HIDE DEF none, c
  <2>7. Kept(c, 0)
    BY <2>1, <2>2, <2>4, <2>5, <2>6
  <2> HIDE DEF Kept
  <2>8. QED
    BY <1>3, <2>7
<1>6. ASSUME NEW n \in Nat, n \in S
      PROVE  n + 1 \in S
  <2>1. CASE n + 1 <= Len(q)
    <3> DEFINE d == run[n]
               f == run[n + 1]
               s == q[n + 1]
               k == v[s]
               old == Rest(v, q, n)
               new == Rest(v, q, n + 1)
    <3>1. n + 1 \in 1 .. Len(q) /\ (n + 1) - 1 = n /\ Kept(d, n)
      BY <1>6, <1>2, <2>1
    <3>2. s \in Occupied(v) /\ s \in Slots /\ k # Empty /\ k \in Stack
      BY <1>2, <3>1 DEF Occupied, Inventories
    <3>3. f = body[<<d, s>>]
      BY <1>3, <3>1
    <3>4. old[s] = k
      <4>1. \A i \in 1 .. n : q[i] # s
        BY <1>2, <3>1
      <4>2. QED
        BY <3>2, <4>1 DEF Rest
    <3>5. new[s] = Empty /\ \A t \in Slots \ {s} : new[t] = old[t]
      <4>1. \A t \in Slots : (\E i \in 1 .. n + 1 : q[i] = t) <=> (t = s \/ \E i \in 1 .. n : q[i] = t)
        OBVIOUS
      <4>2. QED
        BY <3>2, <4>1 DEF Rest
    <3>6. old \in Inventories /\ new \in Inventories
      BY <1>4
    <3> HIDE DEF old, new, s, k
    <3>7. Occupied(new) = Occupied(old) \ {s} /\ s \in Occupied(old)
      BY <3>2, <3>4, <3>5 DEF Occupied
    <3>8. /\ Cardinality(Occupied(old)) \in Nat /\ Cardinality(Occupied(new)) \in Nat
          /\ Cardinality(Occupied(new)) = Cardinality(Occupied(old)) - 1
      BY <3>7, OccupiedFinite, FS_RemoveElement
    <3>9. /\ d \in Calls /\ d.inv \in Inventories /\ Bounded(d.inv)
          /\ \A i \in Ids : CountById(d.inv, i) + CountById(old, i) = CountById(v, i)
          /\ Cardinality(Occupied(d.inv)) + Cardinality(Occupied(old)) <= Limit
      BY <3>1 DEF Calls, old
    <3>10. Cardinality(Occupied(d.inv)) \in Nat /\ Cardinality(Occupied(d.inv)) < Limit
      BY <3>8, <3>9, OccupiedFinite, AscendingSlots
    <3>11. ~ IsFull(d.inv)
      <4>1. ASSUME IsFull(d.inv)
            PROVE  FALSE
        <5>1. Occupied(d.inv) = Slots
          BY <4>1 DEF IsFull, FreeSlots, Occupied
        <5>2. Cardinality(Slots) = Limit
          BY AscendingSlots, FS_Interval DEF Slots
        <5>3. QED
          BY <3>10, <5>1, <5>2, AscendingSlots
      <4>2. QED
        BY <4>1
    <3>12. f = Call(AddFromDrop(d.inv, k, Ascending).inv, 0)
      BY <3>2, <3>3, <3>9 DEF PuttingBack, k
    <3>13. Added(d.inv, AddFromDrop(d.inv, k, Ascending).inv, k) /\ OneStack(k, k.quantity)
      BY <3>2, <3>9, <3>11, PutBack DEF k
    <3>14. f.inv = AddFromDrop(d.inv, k, Ascending).inv /\ f.left = 0
      BY <3>12 DEF Call
    <3>15. f \in Calls /\ Bounded(f.inv)
      BY <3>12, <3>13, <3>14 DEF Added, Call, Calls
    <3> HIDE DEF d, f
    <3>16. ASSUME NEW i \in Ids
           PROVE  CountById(f.inv, i) + CountById(new, i) = CountById(v, i)
      <4>1. CountById(f.inv, i) = CountById(d.inv, i) + IF i = k.id THEN k.quantity ELSE 0
        BY <3>13, <3>14 DEF Added
      <4>2. CountById(new, i) = CountById(old, i) + (Worth(new[s], i) - Worth(old[s], i))
        BY <3>2, <3>5, <3>6, CountChange
      <4>3. Worth(new[s], i) = 0 /\ Worth(old[s], i) = IF i = k.id THEN k.quantity ELSE 0
        BY <3>2, <3>4, <3>5 DEF Worth
      <4>4. /\ CountById(d.inv, i) \in Nat /\ CountById(old, i) \in Nat /\ k.quantity \in Nat
            /\ CountById(d.inv, i) + CountById(old, i) = CountById(v, i)
        BY <3>2, <3>6, <3>9, CountNat DEF Stack
      <4>5. QED
        BY <4>1, <4>2, <4>3, <4>4
    <3>17. Cardinality(Occupied(f.inv)) + Cardinality(Occupied(new)) <= Limit
      <4>1. Cardinality(Occupied(f.inv)) <= Cardinality(Occupied(d.inv)) + 1
        BY <3>13, <3>14 DEF Added
      <4>2. Cardinality(Occupied(f.inv)) \in Nat
        BY OccupiedFinite
      <4>3. QED
        BY <3>8, <3>9, <3>10, <4>1, <4>2, AscendingSlots
    <3>18. Kept(f, n + 1)
      BY <3>15, <3>16, <3>17 DEF new
    <3> HIDE DEF Kept
    <3>19. QED
      BY <3>18 DEF f
  <2>2. QED
    BY <2>1
<1> HIDE DEF S
<1>7. Nat \subseteq S
  BY <1>5, <1>6, Induction
<1>8. Kept(e, Len(q))
  <2>1. Len(q) \in S
    BY <1>2, <1>7
  <2> HIDE DEF Kept, e
  <2>2. QED
    BY <1>2, <1>3, <2>1 DEF S
<1>9. \A i \in Ids : CountById(Rest(v, q, Len(q)), i) = 0
  <2>1. \A s \in Slots : Rest(v, q, Len(q))[s] = Empty
    BY <1>2 DEF Rest, Occupied
  <2>2. \A s \in Slots, i \in Ids : Worth(Rest(v, q, Len(q))[s], i) = 0
    BY <2>1 DEF Worth
  <2>3. QED
    BY <1>2, <1>4, <2>2, CountNone
<1> HIDE DEF e
<1>10. e.inv \in Inventories /\ Bounded(e.inv)
  BY <1>8 DEF Calls
<1>11. ASSUME NEW i \in Ids
       PROVE  CountById(e.inv, i) = CountById(v, i)
  <2>1. CountById(e.inv, i) + CountById(Rest(v, q, Len(q)), i) = CountById(v, i)
    BY <1>8
  <2>2. CountById(e.inv, i) \in Nat
    BY <1>10, CountNat
  <2>3. QED
    BY <1>9, <2>1, <2>2
<1>12. QED
  BY <1>10, <1>11 DEF e

-----------------------------------------------------------------------------
(* The specification                                                        *)

\* The inductive invariant: without the bound on the stacks, the space hasRoom
\* counts could be negative, and the sort could find no room.
IInv ==
    /\ inv \in Inventories /\ ledger \in [Ids -> Int]
    /\ StacksBounded
    /\ LedgerAgrees

LEMMA BoundedIs == StacksBounded <=> Bounded(inv)
BY DEF StacksBounded, Bounded, Fits, Occupied

LEMMA InitIInv == Init => IInv
<1>1. SUFFICES ASSUME Init
               PROVE  IInv
  OBVIOUS
<1>2. inv \in Inventories /\ ledger \in [Ids -> Int]
  BY <1>1 DEF Init, Inventories
<1>3. \A s \in Slots : inv[s] = Empty
  BY <1>1 DEF Init
<1>4. StacksBounded
  BY <1>3 DEF StacksBounded, Occupied
<1>5. ASSUME NEW id \in Ids
      PROVE  CountById(inv, id) = ledger[id]
  <2>1. \A s \in Slots : Worth(inv[s], id) = 0
    BY <1>3 DEF Worth
  <2>2. CountById(inv, id) = 0
    BY <1>2, <2>1, CountNone
  <2>3. QED
    BY <1>1, <2>2 DEF Init
<1>6. QED
  BY <1>2, <1>4, <1>5 DEF IInv, LedgerAgrees

LEMMA PickUpIInv ==
  ASSUME IInv, NEW k \in Incoming, PickUp(k)
  PROVE  IInv'
<1>1. PICK order \in ListById(inv, k.id) : inv' = AddFromDrop(inv, k, order).inv
  BY DEF PickUp
<1>2. inv \in Inventories /\ Bounded(inv) /\ ledger \in [Ids -> Int]
  BY BoundedIs DEF IInv
<1>3. HasRoom(inv, k) /\ ledger' = [ledger EXCEPT ![k.id] = @ + k.quantity]
  BY DEF PickUp
<1>4. Added(inv, inv', k)
  BY <1>1, <1>2, <1>3, HasRoomSound
<1>5. k.id \in Ids /\ k.quantity \in Nat
  BY ConstantsAssumption DEF Incoming
<1>6. ledger' \in [Ids -> Int]
  BY <1>2, <1>3, <1>5
<1>7. ASSUME NEW id \in Ids
      PROVE  CountById(inv', id) = ledger'[id]
  <2>1. CountById(inv', id) = CountById(inv, id) + IF id = k.id THEN k.quantity ELSE 0
    BY <1>4 DEF Added
  <2>2. ledger'[id] = IF id = k.id THEN ledger[id] + k.quantity ELSE ledger[id]
    BY <1>2, <1>3
  <2>3. CountById(inv, id) = ledger[id] /\ ledger[id] \in Int
    BY <1>2 DEF IInv, LedgerAgrees
  <2>4. QED
    BY <1>5, <2>1, <2>2, <2>3
<1>8. inv' \in Inventories /\ Bounded(inv')
  BY <1>4 DEF Added
<1>9. StacksBounded'
  BY <1>8 DEF StacksBounded, Bounded, Fits, Occupied
<1>10. QED
  BY <1>6, <1>7, <1>8, <1>9 DEF IInv, LedgerAgrees

\* An operation that takes n items of an id and writes so in the ledger.
LEMMA TakenIInv ==
  ASSUME IInv, NEW id \in Ids, NEW n \in Nat, Taken(inv, inv', id, n),
         ledger' = [ledger EXCEPT ![id] = ledger[id] - n]
  PROVE  IInv'
<1>1. inv' \in Inventories /\ Bounded(inv')
  BY DEF Taken
<1>2. ledger \in [Ids -> Int] /\ ledger' \in [Ids -> Int]
  BY DEF IInv
<1>3. ASSUME NEW i \in Ids
      PROVE  CountById(inv', i) = ledger'[i]
  <2>1. CountById(inv', i) = CountById(inv, i) - IF i = id THEN n ELSE 0
    BY DEF Taken
  <2>2. ledger'[i] = IF i = id THEN ledger[i] - n ELSE ledger[i]
    BY <1>2
  <2>3. CountById(inv, i) = ledger[i] /\ ledger[i] \in Int
    BY <1>2 DEF IInv, LedgerAgrees
  <2>4. QED
    BY <2>1, <2>2, <2>3
<1>4. StacksBounded'
  BY <1>1 DEF StacksBounded, Bounded, Fits, Occupied
<1>5. QED
  BY <1>1, <1>2, <1>3, <1>4 DEF IInv, LedgerAgrees

LEMMA ConsumeIInv ==
  ASSUME IInv, NEW s \in Slots, NEW q \in 1 .. MaxQuantity, Consume(s, q)
  PROVE  IInv'
<1> DEFINE id == inv[s].id
           m == Smaller(q, IF id \in Rechargeable THEN inv[s].quantity ELSE CountById(inv, id))
<1>1. inv[s] # Empty /\ inv \in Inventories /\ Bounded(inv) /\ ledger \in [Ids -> Int]
  BY BoundedIs DEF IInv, Consume
<1>2. PICK order \in ListById(inv, id) : inv' = RemoveItem(inv, s, q, order).inv
  BY DEF Consume
<1>3. q \in Nat /\ id \in Ids /\ inv[s].quantity \in Nat
  BY <1>1, ConstantsAssumption DEF Inventories, Stack
<1>4. Taken(inv, inv', id, m)
  BY <1>1, <1>2, <1>3, RemoveItemTakes
<1>5. CountById(inv, id) = ledger[id] /\ CountById(inv, id) \in Nat
  BY <1>1, <1>3, CountNat DEF IInv, LedgerAgrees
<1>6. m \in Nat
  BY <1>3, <1>5 DEF Smaller
<1>7. ledger' = [ledger EXCEPT ![id] = ledger[id] - m]
  BY <1>3, <1>5, <1>1 DEF Consume
<1> HIDE DEF id, m
<1>8. QED
  BY <1>3, <1>4, <1>6, <1>7, TakenIInv

LEMMA TakeIInv ==
  ASSUME IInv, NEW id \in Ids, NEW q \in 1 .. MaxQuantity, Take(id, q)
  PROVE  IInv'
<1> DEFINE m == Smaller(q, CountById(inv, id))
<1>1. inv \in Inventories /\ Bounded(inv) /\ ledger \in [Ids -> Int] /\ q \in Nat
  BY BoundedIs, ConstantsAssumption DEF IInv
<1>2. Taken(inv, inv', id, m)
  BY <1>1, RemoveByIdTakes DEF Take
<1>3. CountById(inv, id) = ledger[id] /\ CountById(inv, id) \in Nat
  BY <1>1, CountNat DEF IInv, LedgerAgrees
<1>4. m \in Nat
  BY <1>1, <1>3 DEF Smaller
<1>5. ledger' = [ledger EXCEPT ![id] = ledger[id] - m]
  BY <1>1, <1>3 DEF Take
<1> HIDE DEF m
<1>6. QED
  BY <1>2, <1>4, <1>5, TakenIInv

LEMMA ThrowIInv ==
  ASSUME IInv, NEW id \in Ids, NEW q \in 1 .. MaxQuantity, Throw(id, q)
  PROVE  IInv'
<1>1. inv \in Inventories /\ Bounded(inv) /\ ledger \in [Ids -> Int] /\ q \in Nat
  BY BoundedIs, ConstantsAssumption DEF IInv
<1>2. /\ \E s \in SlotsOf(inv, id) : inv[s].quantity > 0
      /\ inv' = RemoveStarById(inv, id, q)
  BY DEF Throw
<1>3. PICK n \in Nat : Taken(inv, inv', id, n) /\ (q <= CountById(inv, id) => n = q)
  BY <1>1, <1>2, RemoveStarByIdTakes
<1>4. CountById(inv, id) = ledger[id] /\ CountById(inv, id) \in Nat
  BY <1>1, CountNat DEF IInv, LedgerAgrees
<1>5. CountById(inv', id) = ledger[id] - n
  BY <1>3, <1>4 DEF Taken
<1>6. ledger' = [ledger EXCEPT ![id] = ledger[id] - n]
  <2>1. CASE q <= ledger[id]
    BY <1>1, <1>3, <1>4, <2>1 DEF Throw
  <2>2. CASE ~ (q <= ledger[id])
    <3>1. ledger' = [ledger EXCEPT ![id] = CountById(RemoveStarById(inv, id, q), id)]
      BY <2>2 DEF Throw
    <3>2. QED
      BY <1>2, <1>5, <3>1
  <2>3. QED
    BY <2>1, <2>2
<1>7. QED
  BY <1>3, <1>6, TakenIInv

\* An operation that leaves the counts as they are, and the ledger.
LEMMA SameIInv ==
  ASSUME IInv, inv' \in Inventories, Bounded(inv'), ledger' = ledger,
         \A i \in Ids : CountById(inv', i) = CountById(inv, i)
  PROVE  IInv'
<1>1. StacksBounded'
  BY DEF StacksBounded, Bounded, Fits, Occupied
<1>2. QED
  BY <1>1 DEF IInv, LedgerAgrees

\* A move of a stack onto its own slot: nothing happens to a set of stars; any
\* other stack is filled or removed, by just what the ledger is told.
LEMMA MoveOntoItselfIInv ==
  ASSUME IInv, NEW s \in Slots, Move(s, s)
  PROVE  IInv'
<1> DEFINE x == inv[s]
           max == SlotMax[x.id]
           sum == x.quantity + x.quantity
           new == IF sum > max THEN [x EXCEPT !.quantity = max] ELSE Empty
<1>1. /\ inv \in Inventories /\ Bounded(inv) /\ ledger \in [Ids -> Int]
      /\ x # Empty /\ x \in Stack
  BY BoundedIs DEF IInv, Move, Inventories
<1>2. CASE ~ Stackable(s, s)
  <2>1. inv' = inv /\ ledger' = ledger
    BY <1>1, <1>2 DEF Move, LedgerAfterMove, Inventories
  <2>2. QED
    BY <1>1, <2>1, SameIInv
<1>3. CASE Stackable(s, s)
  <2>1. x.id \in Ids /\ x.id \notin Rechargeable
    BY <1>1, <1>3 DEF Stackable, Stack
  <2>2. max \in Nat /\ max > 0 /\ x.quantity \in 1 .. max
    BY <1>1, <2>1, ConstantsAssumption DEF Bounded, Fits
  <2>3. inv' = [inv EXCEPT ![s] = new]
    BY <1>1, <1>3 DEF Move, Inventories
  <2>4. ledger' = [ledger EXCEPT ![x.id] = ledger[x.id] +
                     (IF sum > max THEN max - x.quantity ELSE - x.quantity)]
    BY <1>1, <1>3 DEF Move, LedgerAfterMove, OwnSlotGain
  <2> HIDE DEF max
  <2>5. /\ new \in Stack \cup {Empty} /\ Fits(new)
        /\ \A i \in Ids : Worth(new, i) =
              IF i = x.id THEN (IF sum > max THEN max ELSE 0) ELSE 0
    <3>1. CASE sum > max
      <4>1. new \in Stack /\ new.id = x.id /\ new.quantity = max
        BY <1>1, <2>2, <3>1 DEF Stack
      <4>2. new # Empty
        BY <4>1, EmptyIsNoStack
      <4> HIDE DEF new
      <4>3. QED
        BY <2>1, <2>2, <3>1, <4>1, <4>2 DEF Fits, Worth, max
    <3>2. CASE ~ (sum > max)
      <4>1. new = Empty
        BY <3>2
      <4> HIDE DEF new
      <4>2. QED
        BY <3>2, <4>1 DEF Fits, Worth
    <3>3. QED
      BY <3>1, <3>2
  <2> HIDE DEF new
  <2>6. /\ inv' \in Inventories /\ inv'[s] = new
        /\ \A u \in Slots \ {s} : inv'[u] = inv[u]
    BY <1>1, <2>3, <2>5 DEF Inventories
  <2>7. Bounded(inv')
    BY <1>1, <2>5, <2>6 DEF Bounded
  <2>8. StacksBounded'
    BY <2>7 DEF StacksBounded, Bounded, Fits, Occupied
  <2>9. ASSUME NEW i \in Ids
        PROVE  CountById(inv', i) = ledger'[i]
    <3>1. CountById(inv', i) = CountById(inv, i) + (Worth(new, i) - Worth(x, i))
      BY <1>1, <2>6, CountChange
    <3>2. Worth(x, i) = IF i = x.id THEN x.quantity ELSE 0
      BY <1>1 DEF Worth
    <3>3. CountById(inv, i) \in Nat /\ CountById(inv, i) = ledger[i]
      BY <1>1, CountNat DEF IInv, LedgerAgrees
    <3>4. ledger'[i] = IF i = x.id
                       THEN ledger[i] + (IF sum > max THEN max - x.quantity ELSE - x.quantity)
                       ELSE ledger[i]
      BY <1>1, <2>4
    <3>5. QED
      BY <2>2, <2>5, <3>1, <3>2, <3>3, <3>4
  <2>10. ledger' \in [Ids -> Int]
    BY <1>1, <2>1, <2>2, <2>4
  <2>11. QED
    BY <2>6, <2>8, <2>9, <2>10 DEF IInv, LedgerAgrees
<1>4. QED
  BY <1>2, <1>3

LEMMA MoveAwayIInv ==
  ASSUME IInv, NEW s \in Slots, NEW t \in Slots, s # t, Move(s, t)
  PROVE  IInv'
<1> DEFINE x == inv[s]
           y == inv[t]
<1>1. inv \in Inventories /\ Bounded(inv) /\ s # t /\ x # Empty /\ x \in Stack /\ ledger' = ledger
  BY BoundedIs DEF IInv, Move, LedgerAfterMove, Inventories
<1>2. Fits(x) /\ Fits(y) /\ x.quantity \in Nat
  BY <1>1 DEF Bounded, Stack
<1>3. CASE ~ Stackable(s, t)
  <2>1. inv' = [inv EXCEPT ![s] = y, ![t] = x]
    BY <1>3 DEF Move
  <2>2. /\ inv' \in Inventories /\ inv'[s] = y /\ inv'[t] = x
        /\ \A u \in Slots \ {s, t} : inv'[u] = inv[u]
    BY <1>1, <2>1 DEF Inventories
  <2>3. Bounded(inv')
    BY <1>1, <1>2, <2>2 DEF Bounded
  <2>4. ASSUME NEW i \in Ids
        PROVE  CountById(inv', i) = CountById(inv, i)
    <3>1. CountById(inv', i) = CountById(inv, i) + (Worth(y, i) - Worth(x, i)) + (Worth(x, i) - Worth(y, i))
      BY <1>1, <2>2, CountTwo
    <3>2. Worth(x, i) \in Nat /\ Worth(y, i) \in Nat /\ CountById(inv, i) \in Nat
      BY <1>1, CountNat DEF Worth, Inventories, Stack
    <3>3. QED
      BY <3>1, <3>2
  <2>5. QED
    BY <1>1, <2>2, <2>3, <2>4, SameIInv
<1>4. CASE Stackable(s, t)
  <2> DEFINE max == SlotMax[x.id]
             sum == x.quantity + y.quantity
  <2>1. y # Empty /\ y \in Stack /\ y.id = x.id /\ x.id \notin Rechargeable /\ x.id \in Ids
    BY <1>1, <1>4 DEF Stackable, Inventories, Stack
  <2>2. max \in Nat /\ x.quantity \in 1 .. max /\ y.quantity \in 1 .. max
    BY <1>1, <1>2, <2>1, ConstantsAssumption DEF Fits
  <2>3. inv' = IF sum > max
               THEN [inv EXCEPT ![s] = [x EXCEPT !.quantity = sum - max],
                                ![t] = [y EXCEPT !.quantity = max]]
               ELSE [inv EXCEPT ![s] = Empty, ![t] = [y EXCEPT !.quantity = sum]]
    BY <1>1, <1>4 DEF Move, Inventories
  <2> HIDE DEF max
  <2>4. \A n \in Nat : /\ [x EXCEPT !.quantity = n] \in Stack
                       /\ [y EXCEPT !.quantity = n] \in Stack
                       /\ [x EXCEPT !.quantity = n].quantity = n /\ [x EXCEPT !.quantity = n].id = x.id
                       /\ [y EXCEPT !.quantity = n].quantity = n /\ [y EXCEPT !.quantity = n].id = x.id
    BY <1>1, <2>1 DEF Stack
  <2>5. CASE sum > max
    <3> DEFINE a == [x EXCEPT !.quantity = sum - max]
               b == [y EXCEPT !.quantity = max]
    <3>1. sum - max \in 1 .. max
      BY <2>2, <2>5
    <3>2. a \in Stack /\ b \in Stack /\ a.id = x.id /\ b.id = x.id /\ a.quantity = sum - max /\ b.quantity = max
      <4>1. sum - max \in Nat /\ max \in Nat
        BY <2>2, <3>1
      <4> HIDE DEF sum, x, y
      <4>2. QED
        BY <2>4, <4>1
    <3> HIDE DEF a, b
    <3>3. /\ inv' \in Inventories /\ inv'[s] = a /\ inv'[t] = b
          /\ \A u \in Slots \ {s, t} : inv'[u] = inv[u]
      BY <1>1, <2>3, <2>5, <3>2 DEF Inventories, a, b
    <3>4. Fits(a) /\ Fits(b) /\ a # Empty /\ b # Empty
      BY <2>2, <3>1, <3>2, EmptyIsNoStack DEF Fits, max
    <3>5. Bounded(inv')
      BY <1>1, <3>3, <3>4 DEF Bounded
    <3>6. ASSUME NEW i \in Ids
          PROVE  CountById(inv', i) = CountById(inv, i)
      <4>1. CountById(inv', i) = CountById(inv, i) + (Worth(a, i) - Worth(x, i)) + (Worth(b, i) - Worth(y, i))
        BY <1>1, <3>3, CountTwo
      <4>2. /\ Worth(a, i) = IF i = x.id THEN sum - max ELSE 0
            /\ Worth(b, i) = IF i = x.id THEN max ELSE 0
            /\ Worth(x, i) = IF i = x.id THEN x.quantity ELSE 0
            /\ Worth(y, i) = IF i = x.id THEN y.quantity ELSE 0
        BY <1>1, <2>1, <3>2, <3>4 DEF Worth
      <4>3. CountById(inv, i) \in Nat
        BY <1>1, CountNat
      <4>4. QED
        BY <2>2, <4>1, <4>2, <4>3
    <3>7. QED
      BY <1>1, <3>3, <3>5, <3>6, SameIInv
  <2>6. CASE ~ (sum > max)
    <3> DEFINE b == [y EXCEPT !.quantity = sum]
    <3>1. sum \in 1 .. max
      BY <2>2, <2>6
    <3>2. b \in Stack /\ b.id = x.id /\ b.quantity = sum
      <4>1. sum \in Nat
        BY <2>2
      <4> HIDE DEF sum, x, y
      <4>2. QED
        BY <2>4, <4>1
    <3> HIDE DEF b
    <3>3. /\ inv' \in Inventories /\ inv'[s] = Empty /\ inv'[t] = b
          /\ \A u \in Slots \ {s, t} : inv'[u] = inv[u]
      BY <1>1, <2>3, <2>6, <3>2 DEF Inventories, b
    <3>4. Fits(b) /\ b # Empty /\ Fits(Empty)
      BY <2>2, <3>1, <3>2, EmptyIsNoStack DEF Fits, max
    <3>5. Bounded(inv')
      BY <1>1, <3>3, <3>4 DEF Bounded
    <3>6. ASSUME NEW i \in Ids
          PROVE  CountById(inv', i) = CountById(inv, i)
      <4>1. CountById(inv', i) = CountById(inv, i) + (Worth(Empty, i) - Worth(x, i)) + (Worth(b, i) - Worth(y, i))
        BY <1>1, <3>3, CountTwo
      <4>2. /\ Worth(Empty, i) = 0
            /\ Worth(b, i) = IF i = x.id THEN sum ELSE 0
            /\ Worth(x, i) = IF i = x.id THEN x.quantity ELSE 0
            /\ Worth(y, i) = IF i = x.id THEN y.quantity ELSE 0
        BY <1>1, <2>1, <3>2, <3>4 DEF Worth
      <4>3. CountById(inv, i) \in Nat
        BY <1>1, CountNat
      <4>4. QED
        BY <2>2, <4>1, <4>2, <4>3
    <3>7. QED
      BY <1>1, <3>3, <3>5, <3>6, SameIInv
  <2>7. QED
    BY <2>5, <2>6
<1>5. QED
  BY <1>3, <1>4

LEMMA DropIInv ==
  ASSUME IInv, NEW s \in Slots, NEW q \in 0 .. MaxQuantity, Drop(s, q)
  PROVE  IInv'
<1> DEFINE k == inv[s]
           split == q < k.quantity /\ k.id \notin Rechargeable
           new == IF split THEN [k EXCEPT !.quantity = k.quantity - q] ELSE Empty
           n == IF split THEN q ELSE k.quantity
<1>1. /\ inv \in Inventories /\ Bounded(inv) /\ ledger \in [Ids -> Int]
      /\ k # Empty /\ k \in Stack /\ q \in Nat
  BY BoundedIs, ConstantsAssumption DEF IInv, Drop, Inventories
<1>2. k.id \in Ids /\ k.quantity \in Nat /\ Fits(k)
  BY <1>1 DEF Stack, Bounded
<1>3. inv' = [inv EXCEPT ![s] = new] /\ ledger' = [ledger EXCEPT ![k.id] = ledger[k.id] - n]
  BY <1>1, <1>2 DEF Drop
<1>4. n \in Nat
  BY <1>1, <1>2
<1>5. /\ new \in Stack \cup {Empty} /\ Fits(new)
      /\ \A i \in Ids : Worth(new, i) = IF i = k.id THEN k.quantity - n ELSE 0
  <2>1. CASE split
    <3>1. new = [k EXCEPT !.quantity = k.quantity - q] /\ n = q /\ k.quantity - q \in Nat
      BY <1>1, <1>2, <2>1
    <3>2. new \in Stack /\ new.id = k.id /\ new.quantity = k.quantity - q
      BY <1>1, <3>1 DEF Stack
    <3>3. new # Empty
      BY <3>2, EmptyIsNoStack
    <3>4. k.quantity \in 1 .. SlotMax[k.id] /\ SlotMax[k.id] \in Nat
      BY <1>1, <1>2, <2>1, ConstantsAssumption DEF Fits
    <3>5. k.quantity - q \in 1 .. SlotMax[k.id]
      BY <1>1, <2>1, <3>4
    <3> HIDE DEF new, n
    <3>6. QED
      BY <3>1, <3>2, <3>3, <3>5 DEF Fits, Worth
  <2>2. CASE ~ split
    <3>1. new = Empty /\ n = k.quantity
      BY <2>2
    <3> HIDE DEF new, n
    <3>2. QED
      BY <1>2, <3>1 DEF Fits, Worth
  <2>3. QED
    BY <2>1, <2>2
<1> HIDE DEF new, n
<1>6. /\ inv' \in Inventories /\ inv'[s] = new
      /\ \A u \in Slots \ {s} : inv'[u] = inv[u]
  BY <1>1, <1>3, <1>5 DEF Inventories
<1>7. Bounded(inv')
  BY <1>1, <1>5, <1>6 DEF Bounded
<1>8. ASSUME NEW i \in Ids
      PROVE  CountById(inv', i) = CountById(inv, i) - IF i = k.id THEN n ELSE 0
  <2>1. CountById(inv', i) = CountById(inv, i) + (Worth(new, i) - Worth(k, i))
    BY <1>1, <1>6, CountChange
  <2>2. Worth(k, i) = IF i = k.id THEN k.quantity ELSE 0
    BY <1>1 DEF Worth
  <2>3. CountById(inv, i) \in Nat
    BY <1>1, CountNat
  <2>4. QED
    BY <1>2, <1>4, <1>5, <2>1, <2>2, <2>3
<1>9. Taken(inv, inv', k.id, n)
  BY <1>6, <1>7, <1>8 DEF Taken
<1>10. QED
  BY <1>2, <1>3, <1>4, <1>9, TakenIInv

LEMMA SortIInv ==
  ASSUME IInv, SortItems
  PROVE  IInv'
<1>1. inv \in Inventories /\ Bounded(inv)
  BY BoundedIs DEF IInv
<1>2. PICK q \in Orders(Occupied(inv)) :
         inv' = After(PuttingBack(inv), Call([s \in Slots |-> Empty], 0), q).inv
  BY DEF SortItems, SortedSeqs
<1>3. inv' \in Inventories /\ Bounded(inv') /\ \A i \in Ids : CountById(inv', i) = CountById(inv, i)
  BY <1>1, <1>2, SortKeeps
<1>4. QED
  BY <1>3, SameIInv DEF SortItems

LEMMA NextIInv == IInv /\ [Next]_vars => IInv'
<1>1. SUFFICES ASSUME IInv, [Next]_vars
               PROVE  IInv'
  OBVIOUS
<1>2. CASE UNCHANGED vars
  BY <1>1, <1>2 DEF IInv, StacksBounded, LedgerAgrees, vars, Occupied
<1>3. CASE Next
  <2>1. ASSUME NEW k \in Incoming, PickUp(k)
        PROVE  IInv'
    BY <1>1, <2>1, PickUpIInv
  <2>2. ASSUME NEW s \in Slots, NEW q \in 1 .. MaxQuantity, Consume(s, q)
        PROVE  IInv'
    BY <1>1, <2>2, ConsumeIInv
  <2>3. ASSUME NEW id \in Ids, NEW q \in 1 .. MaxQuantity, Take(id, q)
        PROVE  IInv'
    BY <1>1, <2>3, TakeIInv
  <2>4. ASSUME NEW id \in Ids, NEW q \in 1 .. MaxQuantity, Throw(id, q)
        PROVE  IInv'
    BY <1>1, <2>4, ThrowIInv
  <2>5. ASSUME NEW s \in Slots, NEW t \in Slots, Move(s, t)
        PROVE  IInv'
    BY <1>1, <2>5, MoveOntoItselfIInv, MoveAwayIInv
  <2>6. ASSUME NEW s \in Slots, NEW q \in 0 .. MaxQuantity, Drop(s, q)
        PROVE  IInv'
    BY <1>1, <2>6, DropIInv
  <2>7. CASE SortItems
    BY <1>1, <2>7, SortIInv
  <2>8. QED
    BY <1>3, <2>1, <2>2, <2>3, <2>4, <2>5, <2>6, <2>7 DEF Next
<1>4. QED
  BY <1>1, <1>2, <1>3

\* The inventory is well formed, its stacks are within their bounds and agree with
\* the ledger: the invariant the other theorems follow from.
THEOREM Invariance == Spec => []IInv
<1>1. Init => IInv
  BY InitIInv
<1>2. IInv /\ [Next]_vars => IInv'
  BY NextIInv
<1>3. QED
  BY <1>1, <1>2, PTL DEF Spec

\* Whatever is picked up, consumed, taken, thrown, moved, dropped and sorted, the
\* slots hold what the character should own of every id, for every number of slots,
\* every maximum and every order in which the map lists the stacks; a move of a stack
\* onto its own slot makes or loses OwnSlotGain, which the ledger is told.
THEOREM LedgerAgreesHolds == Spec => []LedgerAgrees
<1>1. IInv => LedgerAgrees
  BY DEF IInv
<1>2. QED
  BY <1>1, Invariance, PTL

\* No operation leaves a stack of ordinary items that is empty or above its maximum.
THEOREM StacksBoundedHolds == Spec => []StacksBounded
<1>1. IInv => StacksBounded
  BY DEF IInv
<1>2. QED
  BY <1>1, Invariance, PTL

\* In every inventory the operations lead to, what hasRoom answers yes to is added
\* by addFromDrop to the last item.
THEOREM HasRoomIsSoundHolds == Spec => []HasRoomIsSound
<1>1. IInv => HasRoomIsSound
  BY BoundedIs, HasRoomSound DEF IInv, HasRoomIsSound
<1>2. QED
  BY <1>1, Invariance, PTL
=============================================================================
