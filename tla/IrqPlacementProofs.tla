------------------------- MODULE IrqPlacementProofs -------------------------
(***************************************************************************)
(* An interrupt has one place, the place its assigned_obj says, however    *)
(* many nodes, packages, caches, CPUs and interrupts there are and         *)
(* whatever their loads; none is on a CPU that sleeps; what is not marked  *)
(* as moved has its mask.                                                  *)
(*                                                                         *)
(* Each call of a cycle is a chain of folds over lists, so most of the     *)
(* module is about what one turn of a loop keeps.  A loop is followed by   *)
(* induction over the number of its turns (Induct, FoldLeftSteps).         *)
(***************************************************************************)
EXTENDS IrqPlacement, SequenceTheorems, FiniteSetTheorems, WellFoundedInduction, TLAPS

-----------------------------------------------------------------------------
(* Induction and folds                                                     *)

(* A set of natural numbers that is not empty has a least member.          *)
LEMMA Least ==
    ASSUME NEW T, T \subseteq Nat, T # {}
    PROVE  \E x \in T : \A y \in T : x <= y
<1>. DEFINE R == {ss \in Nat \X Nat : ss[1] < ss[2]}
<1>1. IsWellFoundedOn(R, Nat)
  BY NatLessThanWellFounded DEF OpToRel
<1>2. PICK x \in T : \A y \in T : ~(<<y, x>> \in R)
  BY <1>1, WFMin
<1>3. ASSUME NEW y \in T PROVE x <= y
  <2>1. x \in Nat /\ y \in Nat /\ <<y, x>> \in Nat \X Nat /\ <<y, x>> \notin R
    BY <1>2, <1>3
  <2>2. ~(y < x)
    BY <2>1
  <2> QED
    BY <2>1, <2>2
<1> QED
  BY <1>3

(* A set that contains zero and with a number the next one contains all.   *)
LEMMA Induct ==
    ASSUME NEW T, 0 \in T, \A n \in Nat : n \in T => n + 1 \in T
    PROVE  Nat \subseteq T
<1>. DEFINE U == Nat \ T
<1>1. SUFFICES ASSUME U # {} PROVE FALSE
  OBVIOUS
<1>2. PICK x \in U : \A y \in U : x <= y
  BY <1>1, Least
<1>3. x # 0 /\ x - 1 \in Nat /\ x - 1 \notin U
  BY <1>2
<1>4. x - 1 \in T => (x - 1) + 1 \in T
  BY <1>3
<1> QED
  BY <1>2, <1>3, <1>4

(* One turn of the loop that k names, with x carried along and y its turn. *)
Step(k, x, y) ==
    CASE k[1] = "merge"  -> MergeStep(k[2], x)
      [] k[1] = "child"  -> IF Parent[y] = k[2] THEN Append(x, y) ELSE x
      [] k[1] = "move"   -> MoveCandidate(x, y)
      [] k[1] = "over"   -> MigrateOverloaded(x, y)
      [] k[1] = "giveup" -> GiveUp(x, y)
      [] k[1] = "node"   -> PlaceInNode(x, y)
      [] k[1] = "best"   -> FindBestObject(k[2], k[3], x, y)
      [] k[1] = "below"  -> PlaceBelow(x, y, k[2])
      [] k[1] = "object" -> PlaceInObject(x, y)
      [] k[1] = "min"    -> IF x = 0 \/ objLoad[y] < x THEN objLoad[y] ELSE x
      [] k[1] = "sum"    -> x + k[2][y]

(* What FoldLeft chooses: the results of the loop on the first elements.   *)
Top(t) == CHOOSE x \in t : \A y \in t : x >= y
Folds(g, k, b, s, n) ==
    g = [t \in SUBSET (1..n) |-> IF t = {} THEN b ELSE Step(k, g[t \ {Top(t)}], s[Top(t)])]
Folded(k, b, s) == (CHOOSE g : Folds(g, k, b, s, Len(s)))[1..Len(s)]

(* The largest of the first n indices, if it is among them, is the last.   *)
LEMMA TopIs ==
    ASSUME NEW n \in Nat, NEW t \in SUBSET (1..n), n \in t
    PROVE  Top(t) = n
<1>1. \A y \in t : n >= y
  OBVIOUS
<1>2. \A x \in t : (\A y \in t : x >= y) => x = n
  OBVIOUS
<1> QED
  BY <1>1, <1>2 DEF Top

(* There is such a function, by induction over the number of turns.        *)
LEMMA FoldExists ==
    ASSUME NEW k, NEW b, NEW s
    PROVE  \A n \in Nat : \E g : Folds(g, k, b, s, n)
<1>. DEFINE T == {n \in Nat : \E g : Folds(g, k, b, s, n)}
<1>1. 0 \in T
  <2>. DEFINE g == [t \in SUBSET (1..0) |-> b]
  <2>1. g = [t \in SUBSET (1..0) |-> IF t = {} THEN b ELSE Step(k, g[t \ {Top(t)}], s[Top(t)])]
    OBVIOUS
  <2> QED
    BY <2>1 DEF Folds
<1>2. ASSUME NEW n \in Nat, n \in T PROVE n + 1 \in T
  <2>1. PICK g : Folds(g, k, b, s, n)
    BY <1>2
  <2>. DEFINE h == [t \in SUBSET (1..(n + 1)) |->
                       IF n + 1 \in t THEN Step(k, g[t \ {n + 1}], s[n + 1]) ELSE g[t]]
  <2>2. ASSUME NEW t \in SUBSET (1..(n + 1))
        PROVE  h[t] = IF t = {} THEN b ELSE Step(k, h[t \ {Top(t)}], s[Top(t)])
    <3>1. CASE n + 1 \in t
      <4>1. Top(t) = n + 1
        BY <3>1, TopIs
      <4>2. t \ {n + 1} \in SUBSET (1..(n + 1)) /\ n + 1 \notin t \ {n + 1}
        OBVIOUS
      <4>3. h[t \ {n + 1}] = g[t \ {n + 1}]
        BY <4>2
      <4> QED
        BY <3>1, <4>1, <4>3
    <3>2. CASE n + 1 \notin t
      <4>1. t \in SUBSET (1..n)
        BY <3>2
      <4>2. h[t] = g[t]
        BY <3>2
      <4>3. g[t] = IF t = {} THEN b ELSE Step(k, g[t \ {Top(t)}], s[Top(t)])
        BY <2>1, <4>1 DEF Folds
      <4>4. t \ {Top(t)} \in SUBSET (1..(n + 1)) /\ n + 1 \notin t \ {Top(t)}
        BY <3>2
      <4>5. h[t \ {Top(t)}] = g[t \ {Top(t)}]
        BY <4>4
      <4> QED
        BY <4>2, <4>3, <4>5
    <3> QED
      BY <3>1, <3>2
  <2>3. Folds(h, k, b, s, n + 1)
    BY <2>2 DEF Folds
  <2> QED
    BY <2>3
<1>3. Nat \subseteq T
  <2>. HIDE DEF T
  <2> QED
    BY <1>1, <1>2, Induct
<1> QED
  BY <1>3

(* A loop is a sequence of turns.                                          *)
Turns(acc, k, b, s) ==
    /\ acc[0] = b
    /\ \A n \in 1..Len(s) : acc[n] = Step(k, acc[n - 1], s[n])

(* A fold over a list has the result of its last turn.                     *)
LEMMA FoldLeftSteps ==
    ASSUME NEW k, NEW b, NEW S, NEW s \in Seq(S)
    PROVE  \E acc : Turns(acc, k, b, s) /\ Folded(k, b, s) = acc[Len(s)]
<1>. DEFINE g == CHOOSE g : Folds(g, k, b, s, Len(s))
<1>1. Len(s) \in Nat /\ DOMAIN s = 1..Len(s)
  OBVIOUS
<1>2. Folds(g, k, b, s, Len(s))
  BY <1>1, FoldExists
<1>3. Folded(k, b, s) = g[1..Len(s)]
  BY <1>1 DEF Folded
<1>. HIDE DEF g
<1>. DEFINE acc == [n \in 0..Len(s) |-> g[1..n]]
<1>4. acc[0] = b
  BY <1>1, <1>2 DEF Folds
<1>5. ASSUME NEW n \in 1..Len(s) PROVE acc[n] = Step(k, acc[n - 1], s[n])
  <2>0. n \in Nat /\ n <= Len(s) /\ 1 <= n /\ n \in 1..n /\ n - 1 \in 0..Len(s)
    BY <1>1
  <2>1. 1..n \in SUBSET (1..Len(s)) /\ 1..n # {}
    <3>1. \A j \in 1..n : j \in 1..Len(s)
      BY <1>1, <2>0
    <3> QED
      BY <2>0, <3>1
  <2>4. (1..n) \ {n} = 1..(n - 1)
    <3>1. \A j \in Int : j \in (1..n) \ {n} <=> j \in 1..(n - 1)
      BY <2>0
    <3> QED
      BY <3>1
  <2>2. Top(1..n) = n
    BY <2>0, TopIs
  <2>3. g[1..n] = Step(k, g[(1..n) \ {n}], s[n])
    BY <1>2, <2>1, <2>2 DEF Folds
  <2>5. acc[n] = g[1..n] /\ acc[n - 1] = g[1..(n - 1)]
    BY <2>0, <1>1
  <2> QED
    BY <2>3, <2>4, <2>5
<1>6. acc[Len(s)] = g[1..Len(s)]
  BY <1>1
<1>. HIDE DEF acc
<1> QED
  BY <1>3, <1>4, <1>5, <1>6 DEF Turns

(* What holds before the loop and is kept by every turn holds behind it.   *)
LEMMA EveryTurn ==
    ASSUME NEW n \in Nat, NEW T, 0 \in T, \A m \in 1..n : m - 1 \in T => m \in T
    PROVE  n \in T
<1>. DEFINE U == {m \in Nat : m <= n => m \in T}
<1>1. 0 \in U
  OBVIOUS
<1>2. ASSUME NEW m \in Nat, m \in U PROVE m + 1 \in U
  <2>1. m + 1 <= n => m + 1 \in 1..n /\ (m + 1) - 1 = m /\ m <= n
    OBVIOUS
  <2> QED
    BY <1>2, <2>1
<1>. HIDE DEF U
<1>3. Nat \subseteq U
  BY <1>1, <1>2, Induct
<1> QED
  BY <1>3 DEF U

-----------------------------------------------------------------------------
(* Lists                                                                   *)

In(x, s) == \E n \in DOMAIN s : s[n] = x
NoRepeat(s) == \A m, n \in DOMAIN s : s[m] = s[n] => m = n

(* g_list_append.                                                          *)
LEMMA AppendOne ==
    ASSUME NEW S, NEW s \in Seq(S), NEW e \in S
    PROVE  /\ Append(s, e) \in Seq(S) /\ Len(Append(s, e)) = Len(s) + 1
           /\ \A x : In(x, Append(s, e)) <=> In(x, s) \/ x = e
           /\ NoRepeat(s) /\ ~In(e, s) => NoRepeat(Append(s, e))
<1>1. /\ Append(s, e) \in Seq(S) /\ Len(Append(s, e)) = Len(s) + 1
      /\ DOMAIN s = 1..Len(s) /\ DOMAIN Append(s, e) = 1..(Len(s) + 1) /\ Len(s) \in Nat
      /\ \A n \in 1..Len(s) : Append(s, e)[n] = s[n]
      /\ Append(s, e)[Len(s) + 1] = e
  OBVIOUS
<1>2. ASSUME NEW x PROVE In(x, Append(s, e)) <=> In(x, s) \/ x = e
  <2>1. Len(s) + 1 \in DOMAIN Append(s, e) /\ DOMAIN s \subseteq DOMAIN Append(s, e)
    BY <1>1
  <2>2. \A n \in DOMAIN Append(s, e) : n \in DOMAIN s \/ n = Len(s) + 1
    BY <1>1
  <2>. DEFINE a == Append(s, e)
  <2>3. \A n \in DOMAIN s : a[n] = s[n]
    BY <1>1
  <2>4. a[Len(s) + 1] = e
    BY <1>1
  <2>. HIDE DEF a
  <2>5. In(x, a) <=> In(x, s) \/ x = e
    BY <2>1, <2>2, <2>3, <2>4 DEF In, a
  <2> QED
    BY <2>5 DEF a
<1>3. NoRepeat(s) /\ ~In(e, s) => NoRepeat(Append(s, e))
  <2>. DEFINE a == Append(s, e)
  <2>1. /\ \A n \in DOMAIN s : a[n] = s[n]
        /\ a[Len(s) + 1] = e
        /\ \A n \in DOMAIN a : n \in DOMAIN s \/ n = Len(s) + 1
    BY <1>1
  <2>. HIDE DEF a
  <2>2. NoRepeat(s) /\ ~In(e, s) => NoRepeat(a)
    BY <2>1 DEF NoRepeat, In
  <2> QED
    BY <2>2 DEF a
<1> QED
  BY <1>1, <1>2, <1>3

(* What SubSeq and \o give, element by element.                           *)
LEMMA Piece ==
    ASSUME NEW S, NEW s \in Seq(S), NEW m \in 0..Len(s), NEW n \in m..Len(s)
    PROVE  /\ SubSeq(s, m + 1, n) \in Seq(S) /\ Len(SubSeq(s, m + 1, n)) = n - m
           /\ \A k \in 1..(n - m) : SubSeq(s, m + 1, n)[k] = s[m + k]
  OBVIOUS

(* See Piece.                                                              *)
LEMMA Joined ==
    ASSUME NEW S, NEW a \in Seq(S), NEW b \in Seq(S)
    PROVE  /\ a \o b \in Seq(S) /\ Len(a \o b) = Len(a) + Len(b)
           /\ DOMAIN (a \o b) = 1..(Len(a) + Len(b))
           /\ \A n \in 1..Len(a) : (a \o b)[n] = a[n]
           /\ \A n \in 1..Len(b) : (a \o b)[Len(a) + n] = b[n]
<1>1. /\ a \o b \in Seq(S) /\ Len(a \o b) = Len(a) + Len(b) /\ Len(a) \in Nat /\ Len(b) \in Nat
      /\ \A i \in 1 .. Len(a) + Len(b) : (a \o b)[i] = IF i <= Len(a) THEN a[i] ELSE b[i - Len(a)]
  BY ConcatProperties
<1>2. DOMAIN (a \o b) = 1..(Len(a) + Len(b))
  BY <1>1
<1>3. \A n \in 1..Len(a) : n \in 1..(Len(a) + Len(b)) /\ n <= Len(a)
  BY <1>1
<1>4. \A n \in 1..Len(b) : /\ Len(a) + n \in 1..(Len(a) + Len(b)) /\ ~(Len(a) + n <= Len(a))
                           /\ Len(a) + n - Len(a) = n
  BY <1>1
<1>5. \A n \in 1..Len(a) : (a \o b)[n] = a[n]
  BY <1>1, <1>3
<1>6. \A n \in 1..Len(b) : (a \o b)[Len(a) + n] = b[n]
  BY <1>1, <1>4
<1> QED
  BY <1>1, <1>2, <1>5, <1>6

(* d is the part of s from m + 1 to n; d is s without its element k.       *)
IsPart(S, s, m, n, d) ==
    d \in Seq(S) /\ Len(d) = n - m /\ \A k \in 1..(n - m) : d[k] = s[m + k]
Lacks(S, s, k, d) ==
    /\ d \in Seq(S) /\ Len(d) = Len(s) - 1 /\ DOMAIN d = 1..(Len(s) - 1)
    /\ \A n \in 1..(Len(s) - 1) : d[n] = IF n < k THEN s[n] ELSE s[n + 1]

(* Two parts with one element between them, and the list without it.       *)
LEMMA Rejoined ==
    ASSUME NEW S, NEW s \in Seq(S), NEW k \in 1..Len(s), NEW a \in Seq(S), NEW b \in Seq(S),
           IsPart(S, s, 0, k - 1, a), IsPart(S, s, k, Len(s), b)
    PROVE  Lacks(S, s, k, a \o b)
<1>1. (k - 1) + (Len(s) - k) = Len(s) - 1 /\ k \in Nat /\ Len(s) \in Nat
  OBVIOUS
<1>7. /\ Len(a) = k - 1 /\ \A n \in 1..(k - 1) : a[n] = s[n]
      /\ Len(b) = Len(s) - k /\ \A n \in 1..(Len(s) - k) : b[n] = s[k + n]
  BY <1>1 DEF IsPart
<1>2. a \o b \in Seq(S) /\ Len(a \o b) = (k - 1) + (Len(s) - k)
  <2>1. a \o b \in Seq(S) /\ Len(a \o b) = Len(a) + Len(b)
    BY Joined
  <2> QED
    BY <1>7, <2>1
<1>3. DOMAIN (a \o b) = 1..((k - 1) + (Len(s) - k))
  BY <1>2
<1>4. ASSUME NEW n \in 1..(k - 1) PROVE (a \o b)[n] = s[n]
  <2>1. (a \o b)[n] = a[n]
    BY <1>7, Joined
  <2> QED
    BY <1>7, <2>1
<1>6. ASSUME NEW n \in 1..(Len(s) - k) PROVE (a \o b)[(k - 1) + n] = s[k + n]
  <2>1. (a \o b)[Len(a) + n] = b[n]
    BY <1>7, Joined
  <2> QED
    BY <1>7, <2>1
<1>5. ASSUME NEW n \in 1..(Len(s) - 1)
      PROVE  (a \o b)[n] = IF n < k THEN s[n] ELSE s[n + 1]
  <2>1. CASE n < k
    <3>1. n \in 1..(k - 1)
      BY <2>1
    <3> QED
      BY <1>4, <2>1, <3>1
  <2>2. CASE ~(n < k)
    <3>1. PICK m \in 1..(Len(s) - k) : n = (k - 1) + m
      <4>1. n - (k - 1) \in 1..(Len(s) - k) /\ n = (k - 1) + (n - (k - 1))
        BY <1>1, <2>2
      <4> QED
        BY <4>1
    <3>2. k + m = n + 1
      BY <1>1, <3>1
    <3> QED
      BY <1>6, <2>2, <3>1, <3>2
  <2> QED
    BY <2>1, <2>2
<1> QED
  BY <1>1, <1>2, <1>3, <1>5 DEF Lacks

(* What RemoveAt makes of a list.                                          *)
LEMMA WithoutOne ==
    ASSUME NEW S, NEW s \in Seq(S), NEW k \in 1..Len(s)
    PROVE  Lacks(S, s, k, SubSeq(s, 1, k - 1) \o SubSeq(s, k + 1, Len(s)))
<1>1. /\ k - 1 \in 0..Len(s) /\ Len(s) \in k..Len(s) /\ k \in 0..Len(s)
  OBVIOUS
<1>. DEFINE a == SubSeq(s, 1, k - 1)
            b == SubSeq(s, k + 1, Len(s))
<1>2. IsPart(S, s, 0, k - 1, a)
  BY DEF IsPart
<1>3. IsPart(S, s, k, Len(s), b)
  BY <1>1, Piece DEF IsPart
<1>4. a \in Seq(S) /\ b \in Seq(S)
  BY <1>2, <1>3 DEF IsPart
<1>. HIDE DEF a, b
<1>5. Lacks(S, s, k, a \o b)
  BY <1>2, <1>3, <1>4, Rejoined
<1> QED
  BY <1>5 DEF a, b

(* g_list_delete_link on a list without repetitions.                       *)
LEMMA Deleted ==
    ASSUME NEW S, NEW s \in Seq(S), NoRepeat(s), NEW e
    PROVE  /\ Delete(s, e) \in Seq(S) /\ NoRepeat(Delete(s, e))
           /\ \A x : In(x, Delete(s, e)) <=> In(x, s) /\ x # e
           /\ In(e, s) => Len(Delete(s, e)) = Len(s) - 1
<1>1. DOMAIN s = 1..Len(s) /\ Len(s) \in Nat /\ \A n \in 1..Len(s) : s[n] \in S
  OBVIOUS
<1>2. CASE ~In(e, s)
  <2>1. Delete(s, e) = s
    BY <1>1, <1>2 DEF Delete, RemoveFirst, In
  <2> QED
    BY <1>2, <2>1 DEF In
<1>3. CASE In(e, s)
  <2>. DEFINE I == {i \in 1..Len(s) : s[i] = e}
  <2>1. PICK k \in 1..Len(s) : s[k] = e
    BY <1>1, <1>3 DEF In
  <2>2. I = {k}
    BY <1>1, <2>1 DEF NoRepeat
  <2>3. Min(I) = k
    BY <2>1, <2>2 DEF Min
  <2>. DEFINE d == SubSeq(s, 1, k - 1) \o SubSeq(s, k + 1, Len(s))
  <2>4. Delete(s, e) = d
    <3>1. SelectInSeq(s, LAMBDA v : v = e) = k
      BY <2>2, <2>3 DEF SelectInSeq
    <3> QED
      BY <2>1, <3>1 DEF Delete, RemoveFirst, RemoveAt
  <2>7. /\ d \in Seq(S) /\ Len(d) = Len(s) - 1 /\ DOMAIN d = 1..(Len(s) - 1)
        /\ \A n \in 1..(Len(s) - 1) : d[n] = IF n < k THEN s[n] ELSE s[n + 1]
    <3>1. Lacks(S, s, k, d)
      BY WithoutOne
    <3>. HIDE DEF d
    <3> QED
      BY <3>1 DEF Lacks
  <2>. HIDE DEF d
  <2>8. NoRepeat(d)
    <3>. DEFINE up(n) == IF n < k THEN n ELSE n + 1
    <3>1. \A n \in DOMAIN d : d[n] = s[up(n)] /\ up(n) \in DOMAIN s
      BY <1>1, <2>1, <2>7
    <3>2. \A m, n \in DOMAIN d : up(m) = up(n) => m = n
      BY <1>1, <2>1, <2>7
    <3>. HIDE DEF up
    <3> QED
      BY <3>1, <3>2 DEF NoRepeat
  <2>9. ASSUME NEW x PROVE In(x, d) <=> In(x, s) /\ x # e
    <3>1. ASSUME In(x, d) PROVE In(x, s) /\ x # e
      <4>1. PICK n \in 1..(Len(s) - 1) : d[n] = x
        BY <2>7, <3>1 DEF In
      <4>2. PICK m \in DOMAIN s : s[m] = x /\ m # k
        BY <1>1, <2>1, <2>7, <4>1
      <4> QED
        BY <1>1, <2>1, <4>2 DEF In, NoRepeat
    <3>2. ASSUME In(x, s), x # e PROVE In(x, d)
      <4>1. PICK m \in 1..Len(s) : s[m] = x
        BY <1>1, <3>2 DEF In
      <4>2. m # k
        BY <2>1, <3>2, <4>1
      <4>3. CASE m < k
        <5>1. m \in 1..(Len(s) - 1)
          BY <1>1, <2>1, <4>3
        <5> QED
          BY <2>7, <4>1, <4>3, <5>1 DEF In
      <4>4. CASE m > k
        <5>1. m - 1 \in 1..(Len(s) - 1) /\ ~(m - 1 < k) /\ (m - 1) + 1 = m
          BY <1>1, <2>1, <4>4
        <5>2. d[m - 1] = x
          BY <2>7, <4>1, <5>1
        <5> QED
          BY <2>7, <5>1, <5>2 DEF In
      <4> QED
        BY <2>1, <4>1, <4>2, <4>3, <4>4
    <3> QED
      BY <3>1, <3>2
  <2> QED
    BY <1>3, <2>4, <2>7, <2>8, <2>9
<1> QED
  BY <1>2, <1>3

(* The head of a list and the others.                                      *)
LEMMA HeadAndTail ==
    ASSUME NEW S, NEW s \in Seq(S), s # <<>>
    PROVE  /\ Head(s) \in S /\ Tail(s) \in Seq(S) /\ Len(s) \in Nat \ {0}
           /\ Len(Tail(s)) = Len(s) - 1
           /\ \A x : In(x, s) <=> x = Head(s) \/ In(x, Tail(s))
           /\ NoRepeat(s) => NoRepeat(Tail(s)) /\ ~In(Head(s), Tail(s))
<1>. DEFINE t == Tail(s)
            h == Head(s)
<1>1. /\ h \in S /\ t \in Seq(S) /\ Len(s) \in Nat \ {0} /\ Len(t) = Len(s) - 1
      /\ \A i \in 1..Len(t) : t[i] = s[i + 1]
      /\ h = s[1] /\ DOMAIN s = 1..Len(s) /\ DOMAIN t = 1..(Len(s) - 1)
  BY HeadTailProperties
<1>. HIDE DEF t, h
<1>2. \A n \in DOMAIN s : n = 1 \/ \E i \in DOMAIN t : n = i + 1 /\ s[n] = t[i]
  <2>1. \A n \in DOMAIN s : n = 1 \/ (n - 1 \in DOMAIN t /\ n = (n - 1) + 1)
    BY <1>1
  <2> QED
    BY <1>1, <2>1
<1>3. \A i \in DOMAIN t : i + 1 \in DOMAIN s /\ s[i + 1] = t[i] /\ i + 1 # 1 /\ i \in Nat
  BY <1>1
<1>4. 1 \in DOMAIN s
  BY <1>1
<1>5. \A x : In(x, s) <=> x = h \/ In(x, t)
  BY <1>1, <1>2, <1>3, <1>4 DEF In
<1>6. NoRepeat(s) => ~In(h, t)
  BY <1>1, <1>3, <1>4 DEF NoRepeat, In
<1>7. NoRepeat(s) => NoRepeat(t)
  <2>1. ASSUME NoRepeat(s), NEW m \in DOMAIN t, NEW n \in DOMAIN t, t[m] = t[n] PROVE m = n
    <3>1. s[m + 1] = s[n + 1]
      BY <1>3, <2>1
    <3>2. m + 1 = n + 1
      BY <1>3, <2>1, <3>1 DEF NoRepeat
    <3> QED
      BY <1>3, <3>2
  <2> QED
    BY <2>1 DEF NoRepeat
<1> QED
  BY <1>1, <1>5, <1>6, <1>7 DEF t, h

Apart(s, t) == \A x : ~(In(x, s) /\ In(x, t))

(* What a merge has taken out and what it has not make up both lists.      *)
Merging(S, a, b, p, q, m) ==
    /\ m = [list |-> m.list, l1 |-> m.l1, l2 |-> m.l2]
    /\ m.list \in Seq(S) /\ m.l1 \in Seq(S) /\ m.l2 \in Seq(S)
    /\ NoRepeat(m.list) /\ NoRepeat(m.l1) /\ NoRepeat(m.l2)
    /\ Apart(m.list, m.l1) /\ Apart(m.list, m.l2) /\ Apart(m.l1, m.l2)
    /\ \A x : In(x, m.list) \/ In(x, m.l1) \/ In(x, m.l2) <=> In(x, a) \/ In(x, b)
    /\ Len(m.l1) = p /\ Len(m.l2) = q

(* A turn takes the head of one of the lists, if there is one.             *)
LEMMA MergeTurn ==
    ASSUME NEW S, NEW a \in Seq(S), NEW b \in Seq(S), NEW greater,
           NEW p \in Nat, NEW q \in Nat, p # 0 \/ q # 0, NEW m, Merging(S, a, b, p, q, m)
    PROVE  LET r == MergeStep(greater, m)
           IN  \/ p # 0 /\ Merging(S, a, b, p - 1, q, r)
               \/ q # 0 /\ Merging(S, a, b, p, q - 1, r)
<1>1. /\ m.list \in Seq(S) /\ m.l1 \in Seq(S) /\ m.l2 \in Seq(S)
      /\ NoRepeat(m.list) /\ NoRepeat(m.l1) /\ NoRepeat(m.l2)
      /\ Apart(m.list, m.l1) /\ Apart(m.list, m.l2) /\ Apart(m.l1, m.l2)
      /\ \A x : In(x, m.list) \/ In(x, m.l1) \/ In(x, m.l2) <=> In(x, a) \/ In(x, b)
      /\ Len(m.l1) = p /\ Len(m.l2) = q
  BY DEF Merging
<1>2. m.l1 # <<>> \/ m.l2 # <<>>
  <2>1. Len(<<>>) = 0
    OBVIOUS
  <2> QED
    BY <1>1, <2>1
<1>3. m = [list |-> m.list, l1 |-> m.l1, l2 |-> m.l2]
  BY DEF Merging
<1>4. ASSUME m.l2 # <<>>, MergeStep(greater, m)
                = [list |-> Append(m.list, Head(m.l2)), l1 |-> m.l1, l2 |-> Tail(m.l2)]
      PROVE  q # 0 /\ Merging(S, a, b, p, q - 1, MergeStep(greater, m))
  <2>. DEFINE h == Head(m.l2)
              t == Tail(m.l2)
              c == Append(m.list, h)
  <2>1. /\ h \in S /\ t \in Seq(S) /\ Len(t) = Len(m.l2) - 1 /\ Len(m.l2) \in Nat \ {0}
        /\ \A x : In(x, m.l2) <=> x = h \/ In(x, t)
        /\ NoRepeat(t) /\ ~In(h, t)
    BY <1>1, <1>4, HeadAndTail
  <2>2. ~In(h, m.list) /\ ~In(h, m.l1)
    BY <1>1, <2>1 DEF Apart
  <2>3. /\ c \in Seq(S) /\ NoRepeat(c)
        /\ \A x : In(x, c) <=> In(x, m.list) \/ x = h
    <3>. HIDE DEF h
    <3> QED
      BY <1>1, <2>1, <2>2, AppendOne
  <2>. DEFINE r == MergeStep(greater, m)
  <2>. HIDE DEF h, t, c
  <2>4. r = [list |-> c, l1 |-> m.l1, l2 |-> t]
    BY <1>4 DEF h, t, c
  <2>. HIDE DEF r
  <2>5. r.list = c /\ r.l1 = m.l1 /\ r.l2 = t /\ r = [list |-> r.list, l1 |-> r.l1, l2 |-> r.l2]
    BY <2>4
  <2>6. Apart(c, m.l1) /\ Apart(c, t) /\ Apart(m.l1, t)
    BY <1>1, <2>1, <2>2, <2>3 DEF Apart
  <2>7. \A x : In(x, c) \/ In(x, m.l1) \/ In(x, t) <=> In(x, a) \/ In(x, b)
    BY <1>1, <2>1, <2>3
  <2>8. q # 0 /\ Len(t) = q - 1 /\ Len(m.l1) = p
    BY <1>1, <2>1
  <2>9. Merging(S, a, b, p, q - 1, r)
    BY <1>1, <2>1, <2>3, <2>5, <2>6, <2>7, <2>8 DEF Merging
  <2> QED
    BY <2>8, <2>9 DEF r
<1>5. ASSUME m.l1 # <<>>, MergeStep(greater, m)
                = [list |-> Append(m.list, Head(m.l1)), l1 |-> Tail(m.l1), l2 |-> m.l2]
      PROVE  p # 0 /\ Merging(S, a, b, p - 1, q, MergeStep(greater, m))
  <2>. DEFINE h == Head(m.l1)
              t == Tail(m.l1)
              c == Append(m.list, h)
  <2>1. /\ h \in S /\ t \in Seq(S) /\ Len(t) = Len(m.l1) - 1 /\ Len(m.l1) \in Nat \ {0}
        /\ \A x : In(x, m.l1) <=> x = h \/ In(x, t)
        /\ NoRepeat(t) /\ ~In(h, t)
    BY <1>1, <1>5, HeadAndTail
  <2>2. ~In(h, m.list) /\ ~In(h, m.l2)
    BY <1>1, <2>1 DEF Apart
  <2>3. /\ c \in Seq(S) /\ NoRepeat(c)
        /\ \A x : In(x, c) <=> In(x, m.list) \/ x = h
    <3>. HIDE DEF h
    <3> QED
      BY <1>1, <2>1, <2>2, AppendOne
  <2>. DEFINE r == MergeStep(greater, m)
  <2>. HIDE DEF h, t, c
  <2>4. r = [list |-> c, l1 |-> t, l2 |-> m.l2]
    BY <1>5 DEF h, t, c
  <2>. HIDE DEF r
  <2>5. r.list = c /\ r.l1 = t /\ r.l2 = m.l2 /\ r = [list |-> r.list, l1 |-> r.l1, l2 |-> r.l2]
    BY <2>4
  <2>6. Apart(c, m.l2) /\ Apart(c, t) /\ Apart(t, m.l2)
    BY <1>1, <2>1, <2>2, <2>3 DEF Apart
  <2>7. \A x : In(x, c) \/ In(x, t) \/ In(x, m.l2) <=> In(x, a) \/ In(x, b)
    BY <1>1, <2>1, <2>3
  <2>8. p # 0 /\ Len(t) = p - 1 /\ Len(m.l2) = q
    BY <1>1, <2>1
  <2>9. Merging(S, a, b, p - 1, q, r)
    BY <1>1, <2>1, <2>3, <2>5, <2>6, <2>7, <2>8 DEF Merging
  <2> QED
    BY <2>8, <2>9 DEF r
<1>6. CASE m.l1 = <<>> \/ (m.l2 # <<>> /\ <<Head(m.l1), Head(m.l2)>> \in greater)
  <2>1. m.l2 # <<>>
    BY <1>2, <1>6
  <2>2. MergeStep(greater, m) = [m EXCEPT !.list = Append(@, Head(m.l2)), !.l2 = Tail(@)]
    BY <1>6 DEF MergeStep
  <2>3. MergeStep(greater, m)
            = [list |-> Append(m.list, Head(m.l2)), l1 |-> m.l1, l2 |-> Tail(m.l2)]
    BY <1>3, <2>2
  <2> QED
    BY <1>4, <2>1, <2>3
<1>7. CASE ~(m.l1 = <<>> \/ (m.l2 # <<>> /\ <<Head(m.l1), Head(m.l2)>> \in greater))
  <2>2. MergeStep(greater, m) = [m EXCEPT !.list = Append(@, Head(m.l1)), !.l1 = Tail(@)]
    BY <1>7 DEF MergeStep
  <2>3. MergeStep(greater, m)
            = [list |-> Append(m.list, Head(m.l1)), l1 |-> Tail(m.l1), l2 |-> m.l2]
    BY <1>3, <2>2
  <2> QED
    BY <1>5, <1>7, <2>3
<1> QED
  BY <1>6, <1>7

(* The numbers of what is left in two lists after n turns.                 *)
LEMMA Countdown ==
    ASSUME NEW u \in Nat, NEW v \in Nat, NEW n \in 1..(u + v), NEW p \in Nat, NEW q \in Nat,
           p + q = u + v - (n - 1)
    PROVE  /\ p # 0 \/ q # 0
           /\ p # 0 => p - 1 \in Nat /\ (p - 1) + q = u + v - n
           /\ q # 0 => q - 1 \in Nat /\ p + (q - 1) = u + v - n
  OBVIOUS

(* g_list_sort_merge keeps the members, whatever the comparison says.      *)
LEMMA MergeKeeps ==
    ASSUME NEW S, NEW a \in Seq(S), NEW b \in Seq(S), NEW greater,
           NoRepeat(a), NoRepeat(b), Apart(a, b)
    PROVE  LET m == Merge(greater, a, b)
           IN  /\ m \in Seq(S) /\ NoRepeat(m)
               /\ \A x : In(x, m) <=> In(x, a) \/ In(x, b)
<1>. DEFINE start == [list |-> <<>>, l1 |-> a, l2 |-> b]
            k     == <<"merge", greater>>
<1>1. a \o b \in Seq(S) /\ DOMAIN (a \o b) = 1..Len(a \o b)
  <2>1. a \o b \in Seq(S) /\ Len(a \o b) = Len(a) + Len(b)
    BY Joined
  <2> QED
    BY <2>1
<1>2. PICK u \in Nat, v \in Nat : u = Len(a) /\ v = Len(b) /\ Len(a \o b) = u + v
  BY Joined
<1>3. Merge(greater, a, b) = Folded(k, start, a \o b).list
  BY <1>1, SMTT(60) DEF Merge, FoldLeft, MapThenFoldSet, Max, Folded, Folds, Top, Step
<1>. HIDE DEF k
<1>4. PICK acc : Turns(acc, k, start, a \o b) /\ Folded(k, start, a \o b) = acc[Len(a \o b)]
  BY <1>1, FoldLeftSteps
<1>. DEFINE Left(n) == \E p, q \in Nat : p + q = u + v - n /\ Merging(S, a, b, p, q, acc[n])
            T == {n \in 0..(u + v) : Left(n)}
<1>5. 0 \in T
  <2>1. acc[0] = start
    BY <1>4 DEF Turns
  <2>2. Merging(S, a, b, u, v, start)
    BY <1>2 DEF Merging, Apart, In, NoRepeat
  <2>3. u + v = u + v - 0
    OBVIOUS
  <2>4. Left(0)
    BY <2>1, <2>2, <2>3
  <2> QED
    BY <2>4
<1>6. ASSUME NEW n \in 1..(u + v), n - 1 \in T PROVE n \in T
  <2>1. acc[n] = MergeStep(greater, acc[n - 1])
    BY <1>2, <1>4 DEF Turns, Step, k
  <2>2. PICK p \in Nat, q \in Nat :
            p + q = u + v - (n - 1) /\ Merging(S, a, b, p, q, acc[n - 1])
    BY <1>6
  <2>3. /\ p # 0 \/ q # 0
        /\ p # 0 => p - 1 \in Nat /\ (p - 1) + q = u + v - n
        /\ q # 0 => q - 1 \in Nat /\ p + (q - 1) = u + v - n
    BY <2>2, Countdown
  <2>4. \/ p # 0 /\ Merging(S, a, b, p - 1, q, acc[n])
        \/ q # 0 /\ Merging(S, a, b, p, q - 1, acc[n])
    BY <2>1, <2>2, <2>3, MergeTurn
  <2>5. Left(n)
    BY <2>3, <2>4
  <2> QED
    BY <2>5
<1>7. u + v \in T
  <2>. HIDE DEF T
  <2>1. u + v \in Nat
    OBVIOUS
  <2> QED
    BY <1>5, <1>6, <2>1, EveryTurn
<1>. DEFINE m == acc[u + v]
<1>8. Merge(greater, a, b) = m.list
  BY <1>2, <1>3, <1>4
<1>9. PICK p \in Nat, q \in Nat : p + q = u + v - (u + v) /\ Merging(S, a, b, p, q, m)
  BY <1>7
<1>. HIDE DEF m, T
<1>10. p = 0 /\ q = 0
  <2>1. p + q = u + v - (u + v)
    BY <1>9
  <2> QED
    BY <2>1
<1>11. m.l1 = <<>> /\ m.l2 = <<>>
  <2>1. m.l1 \in Seq(S) /\ m.l2 \in Seq(S) /\ Len(m.l1) = 0 /\ Len(m.l2) = 0
    BY <1>9, <1>10 DEF Merging
  <2> QED
    BY <2>1, EmptySeq
<1>12. \A x : ~In(x, <<>>)
  BY DEF In
<1> QED
  BY <1>8, <1>9, <1>11, <1>12 DEF Merging

(* t has the members of s, and none twice.                                 *)
Shuffled(S, s, t) == t \in Seq(S) /\ NoRepeat(t) /\ \A x : In(x, t) <=> In(x, s)

(* The two halves of a list.                                               *)
LEMMA Halves ==
    ASSUME NEW S, NEW s \in Seq(S), NEW h \in 1..(Len(s) - 1)
    PROVE  LET a == SubSeq(s, 1, h)
               b == SubSeq(s, h + 1, Len(s))
           IN  /\ a \in Seq(S) /\ b \in Seq(S) /\ Len(a) < Len(s) /\ Len(b) < Len(s)
               /\ \A x : In(x, s) <=> In(x, a) \/ In(x, b)
               /\ NoRepeat(s) => NoRepeat(a) /\ NoRepeat(b) /\ Apart(a, b)
<1>. DEFINE a == SubSeq(s, 1, h)
            b == SubSeq(s, h + 1, Len(s))
<1>1. PICK l \in Nat : /\ l = Len(s) /\ h \in 1..(l - 1) /\ DOMAIN s = 1..l
                       /\ a \in Seq(S) /\ DOMAIN a = 1..h /\ Len(a) = h
                       /\ \A n \in 1..h : a[n] = s[n]
  <2>1. Len(s) \in Nat /\ DOMAIN s = 1..Len(s) /\ h \in Nat
    OBVIOUS
  <2>2. a \in Seq(S) /\ Len(a) = h /\ \A n \in 1..h : a[n] = s[n]
    OBVIOUS
  <2>. HIDE DEF a
  <2>3. DOMAIN a = 1..h
    BY <2>2
  <2> QED
    BY <2>1, <2>2, <2>3
<1>2. /\ b \in Seq(S) /\ DOMAIN b = 1..(l - h) /\ Len(b) = l - h
      /\ \A n \in 1..(l - h) : b[n] = s[h + n]
  <2>1. h \in 0..Len(s) /\ Len(s) \in h..Len(s)
    OBVIOUS
  <2>2. b \in Seq(S) /\ Len(b) = Len(s) - h /\ \A n \in 1..(Len(s) - h) : b[n] = s[h + n]
    BY <2>1, Piece
  <2>. HIDE DEF b
  <2>3. b \in Seq(S) /\ Len(b) = l - h /\ \A n \in 1..(l - h) : b[n] = s[h + n]
    BY <1>1, <2>2
  <2>4. DOMAIN b = 1..(l - h)
    BY <2>3
  <2> QED
    BY <2>3, <2>4
<1>. HIDE DEF a, b
<1>3. h \in Nat /\ h < l /\ l - h < l
  BY <1>1
<1>4. \A n \in 1..l : n \in 1..h \/ \E j \in 1..(l - h) : n = h + j
  <2>1. ASSUME NEW n \in 1..l, n \notin 1..h PROVE n - h \in 1..(l - h) /\ n = h + (n - h)
    BY <1>3, <2>1
  <2> QED
    BY <2>1
<1>5. \A n \in 1..h : n \in 1..l
  BY <1>3
<1>6. \A j \in 1..(l - h) : h + j \in 1..l /\ h + j \notin 1..h
  BY <1>3
<1>7. \A i, j \in 1..(l - h) : h + i = h + j => i = j
  BY <1>3
<1>8. ASSUME NEW x PROVE In(x, s) <=> In(x, a) \/ In(x, b)
  <2>1. ASSUME NEW n \in 1..l PROVE In(s[n], a) \/ In(s[n], b)
    <3>1. CASE n \in 1..h
      BY <1>1, <3>1 DEF In
    <3>2. CASE \E j \in 1..(l - h) : n = h + j
      BY <1>2, <3>2 DEF In
    <3> QED
      BY <1>4, <3>1, <3>2
  <2>2. ASSUME NEW n \in 1..h PROVE In(a[n], s)
    BY <1>1, <1>5 DEF In
  <2>3. ASSUME NEW n \in 1..(l - h) PROVE In(b[n], s)
    BY <1>1, <1>2, <1>6 DEF In
  <2>4. DOMAIN s = 1..l /\ DOMAIN a = 1..h /\ DOMAIN b = 1..(l - h)
    BY <1>1, <1>2
  <2>5. In(x, s) => In(x, a) \/ In(x, b)
    <3>1. ASSUME In(x, s) PROVE In(x, a) \/ In(x, b)
      <4>1. PICK n \in 1..l : s[n] = x
        BY <2>4, <3>1 DEF In
      <4> QED
        BY <2>1, <4>1
    <3> QED
      BY <3>1
  <2>6. In(x, a) => In(x, s)
    <3>1. ASSUME In(x, a) PROVE In(x, s)
      <4>1. PICK n \in 1..h : a[n] = x
        BY <2>4, <3>1 DEF In
      <4> QED
        BY <2>2, <4>1
    <3> QED
      BY <3>1
  <2>7. In(x, b) => In(x, s)
    <3>1. ASSUME In(x, b) PROVE In(x, s)
      <4>1. PICK n \in 1..(l - h) : b[n] = x
        BY <2>4, <3>1 DEF In
      <4> QED
        BY <2>3, <4>1
    <3> QED
      BY <3>1
  <2> QED
    BY <2>5, <2>6, <2>7
<1>9. ASSUME NoRepeat(s) PROVE NoRepeat(a) /\ NoRepeat(b) /\ Apart(a, b)
  <2>1. NoRepeat(a)
    BY <1>1, <1>5, <1>9 DEF NoRepeat
  <2>2. NoRepeat(b)
    <3>1. ASSUME NEW i \in 1..(l - h), NEW j \in 1..(l - h), b[i] = b[j] PROVE i = j
      <4>1. s[h + i] = s[h + j]
        BY <1>2, <3>1
      <4>2. h + i = h + j
        BY <1>1, <1>6, <1>9, <4>1 DEF NoRepeat
      <4> QED
        BY <1>7, <4>2
    <3> QED
      BY <1>2, <3>1 DEF NoRepeat
  <2>3. Apart(a, b)
    <3>1. ASSUME NEW i \in 1..h, NEW j \in 1..(l - h), a[i] = b[j] PROVE FALSE
      <4>1. s[i] = s[h + j]
        BY <1>1, <1>2, <3>1
      <4>2. i = h + j
        BY <1>1, <1>5, <1>6, <1>9, <4>1 DEF NoRepeat
      <4> QED
        BY <1>6, <4>2
    <3> QED
      BY <1>1, <1>2, <3>1 DEF Apart, In
  <2> QED
    BY <2>1, <2>2, <2>3
<1>10. Len(a) < Len(s) /\ Len(b) < Len(s)
  BY <1>1, <1>2, <1>3
<1> QED
  BY <1>1, <1>2, <1>8, <1>9, <1>10 DEF a, b

(* SeqOf is what its name says.                                            *)
LEMMA BoundedSeqs ==
    ASSUME NEW S, NEW n \in Nat, NEW s
    PROVE  s \in SeqOf(S, n) <=> s \in Seq(S) /\ Len(s) <= n
<1>1. ASSUME s \in SeqOf(S, n) PROVE s \in Seq(S) /\ Len(s) <= n
  <2>1. PICK m \in 0..n : s \in [1..m -> S]
    BY <1>1 DEF SeqOf
  <2>2. s \in Seq(S)
    BY <2>1, SeqDef
  <2>3. DOMAIN s = 1..Len(s) /\ DOMAIN s = 1..m /\ Len(s) \in Nat /\ m \in Nat
    BY <2>1, <2>2
  <2>4. Len(s) = m
    BY <2>1, <2>2
  <2> QED
    BY <2>1, <2>2, <2>4
<1>2. ASSUME s \in Seq(S), Len(s) <= n PROVE s \in SeqOf(S, n)
  <2>1. s \in [1..Len(s) -> S] /\ Len(s) \in 0..n
    BY <1>2, LenProperties
  <2> QED
    BY <2>1 DEF SeqOf
<1> QED
  BY <1>1, <1>2

(* What Sort chooses on lists of at most n elements.                       *)
SortTurn(greater, f, s) ==
    LET half == Len(s) \div 2
    IN  IF Len(s) < 2 THEN s
        ELSE Merge(greater, f[SubSeq(s, 1, half)], f[SubSeq(s, half + 1, Len(s))])
Sorts(S, greater, n, f) == f = [s \in SeqOf(S, n) |-> SortTurn(greater, f, s)]

(* Half of two or more is some, but not all.                               *)
LEMMA HalfOf ==
    ASSUME NEW S, NEW s \in Seq(S), ~(Len(s) < 2)
    PROVE  Len(s) \div 2 \in 1..(Len(s) - 1)
<1>1. PICK l \in Nat : l = Len(s) /\ ~(l < 2)
  OBVIOUS
<1>2. ~(l < 2)
  BY <1>1
<1>3. l \div 2 \in 1..(l - 1)
  BY <1>2
<1> QED
  BY <1>1, <1>3

(* There is such a function, by induction over the length of the list.     *)
LEMMA SortExists ==
    ASSUME NEW S, NEW greater
    PROVE  \A n \in Nat : \E f : Sorts(S, greater, n, f)
<1>. DEFINE T == {n \in Nat : \E f : Sorts(S, greater, n, f)}
<1>1. 0 \in T
  <2>. DEFINE f == [s \in SeqOf(S, 0) |-> s]
  <2>1. ASSUME NEW s \in SeqOf(S, 0) PROVE SortTurn(greater, f, s) = s
    <3>1. s \in Seq(S) /\ Len(s) <= 0
      BY BoundedSeqs
    <3>2. Len(s) < 2
      BY <3>1
    <3> QED
      BY <3>2 DEF SortTurn
  <2>2. f = [s \in SeqOf(S, 0) |-> SortTurn(greater, f, s)]
    BY <2>1
  <2>3. Sorts(S, greater, 0, f)
    BY <2>2 DEF Sorts
  <2> QED
    BY <2>3
<1>2. ASSUME NEW n \in Nat, n \in T PROVE n + 1 \in T
  <2>1. PICK f : Sorts(S, greater, n, f)
    BY <1>2
  <2>. DEFINE g == [s \in SeqOf(S, n + 1) |-> SortTurn(greater, f, s)]
  <2>2. \A s \in SeqOf(S, n) : s \in SeqOf(S, n + 1) /\ g[s] = f[s]
    <3>1. \A s \in SeqOf(S, n) : s \in SeqOf(S, n + 1)
      <4>1. ASSUME NEW s \in SeqOf(S, n) PROVE s \in SeqOf(S, n + 1)
        <5>1. s \in Seq(S) /\ Len(s) <= n
          BY BoundedSeqs
        <5>2. Len(s) <= n + 1
          BY <5>1
        <5> QED
          BY <5>1, <5>2, BoundedSeqs
      <4> QED
        BY <4>1
    <3>2. \A s \in SeqOf(S, n) : f[s] = SortTurn(greater, f, s)
      BY <2>1 DEF Sorts
    <3> QED
      BY <3>1, <3>2
  <2>3. ASSUME NEW s \in SeqOf(S, n + 1) PROVE SortTurn(greater, f, s) = SortTurn(greater, g, s)
    <3>1. s \in Seq(S) /\ Len(s) <= n + 1
      BY BoundedSeqs
    <3>2. CASE Len(s) < 2
      BY <3>2 DEF SortTurn
    <3>3. CASE ~(Len(s) < 2)
      <4>. DEFINE h == Len(s) \div 2
                  a == SubSeq(s, 1, h)
                  b == SubSeq(s, h + 1, Len(s))
      <4>1. h \in 1..(Len(s) - 1)
        BY <3>1, <3>3, HalfOf
      <4>. HIDE DEF h
      <4>2. a \in Seq(S) /\ b \in Seq(S) /\ Len(a) < Len(s) /\ Len(b) < Len(s)
        BY <3>1, <4>1, Halves
      <4>. HIDE DEF a, b
      <4>3. Len(a) <= n /\ Len(b) <= n
        <5>1. Len(a) \in Nat /\ Len(b) \in Nat /\ Len(s) \in Nat
          BY <3>1, <4>2
        <5> QED
          BY <3>1, <4>2, <5>1
      <4>4. a \in SeqOf(S, n) /\ b \in SeqOf(S, n)
        BY <4>2, <4>3, BoundedSeqs
      <4>5. f[a] = g[a] /\ f[b] = g[b]
        BY <2>2, <4>4
      <4>6. \A e : SortTurn(greater, e, s) = Merge(greater, e[a], e[b])
        BY <3>3 DEF SortTurn, a, b, h
      <4>. HIDE DEF g
      <4> QED
        BY <4>5, <4>6
    <3> QED
      BY <3>2, <3>3
  <2>4. g = [s \in SeqOf(S, n + 1) |-> SortTurn(greater, g, s)]
    BY <2>3
  <2>5. Sorts(S, greater, n + 1, g)
    BY <2>4 DEF Sorts
  <2> QED
    BY <2>5
<1>. HIDE DEF T
<1>3. Nat \subseteq T
  BY <1>1, <1>2, Induct
<1> QED
  BY <1>3 DEF T

(* g_list_sort moves the members and loses none, whatever the comparison   *)
(* says; sort_irqs does not even describe an order.                        *)
LEMMA SortKeeps ==
    ASSUME NEW S, NEW greater, NEW list \in Seq(S), NoRepeat(list)
    PROVE  Shuffled(S, list, Sort(S, greater, list))
<1>. DEFINE f == CHOOSE f : Sorts(S, greater, Len(list), f)
<1>1. Len(list) \in Nat
  OBVIOUS
<1>2. Sorts(S, greater, Len(list), f)
  BY <1>1, SortExists
<1>3. Sort(S, greater, list) = f[list]
  BY DEF Sort, Sorts, SortTurn
<1>. HIDE DEF f
<1>. DEFINE T == {n \in Nat : \A s \in Seq(S) : /\ NoRepeat(s) /\ Len(s) <= n /\ Len(s) <= Len(list)
                                                => Shuffled(S, s, f[s])}
<1>4. \A s \in SeqOf(S, Len(list)) : f[s] = SortTurn(greater, f, s)
  BY <1>2 DEF Sorts
<1>5. ASSUME NEW s \in Seq(S), NoRepeat(s), Len(s) < 2, Len(s) <= Len(list)
      PROVE  Shuffled(S, s, f[s])
  <2>1. s \in SeqOf(S, Len(list))
    BY <1>1, <1>5, BoundedSeqs
  <2>2. f[s] = s
    BY <1>4, <1>5, <2>1 DEF SortTurn
  <2> QED
    BY <1>5, <2>2 DEF Shuffled
<1>6. 0 \in T
  <2>1. \A s \in Seq(S) : Len(s) <= 0 => Len(s) < 2
    OBVIOUS
  <2> QED
    BY <1>5, <2>1
<1>7. ASSUME NEW n \in Nat, n \in T PROVE n + 1 \in T
  <2>1. ASSUME NEW s \in Seq(S), NoRepeat(s), Len(s) <= n + 1, Len(s) <= Len(list)
        PROVE  Shuffled(S, s, f[s])
    <3>1. CASE Len(s) < 2
      BY <1>5, <2>1, <3>1
    <3>2. CASE ~(Len(s) < 2)
      <4>. DEFINE h == Len(s) \div 2
                  a == SubSeq(s, 1, h)
                  b == SubSeq(s, h + 1, Len(s))
      <4>1. h \in 1..(Len(s) - 1)
        BY <3>2, HalfOf
      <4>. HIDE DEF h
      <4>2. /\ a \in Seq(S) /\ b \in Seq(S) /\ Len(a) < Len(s) /\ Len(b) < Len(s)
            /\ \A x : In(x, s) <=> In(x, a) \/ In(x, b)
            /\ NoRepeat(a) /\ NoRepeat(b) /\ Apart(a, b)
        BY <2>1, <4>1, Halves
      <4>. HIDE DEF a, b
      <4>3. Len(a) <= n /\ Len(b) <= n /\ Len(a) <= Len(list) /\ Len(b) <= Len(list)
        <5>1. Len(a) \in Nat /\ Len(b) \in Nat /\ Len(s) \in Nat
          BY <4>2
        <5> QED
          BY <1>1, <2>1, <4>2, <5>1
      <4>4. Shuffled(S, a, f[a]) /\ Shuffled(S, b, f[b])
        BY <1>7, <4>2, <4>3
      <4>5. s \in SeqOf(S, Len(list))
        BY <1>1, <2>1, BoundedSeqs
      <4>6. f[s] = Merge(greater, f[a], f[b])
        BY <1>4, <3>2, <4>5 DEF SortTurn, a, b, h
      <4>7. /\ f[a] \in Seq(S) /\ f[b] \in Seq(S) /\ NoRepeat(f[a]) /\ NoRepeat(f[b])
            /\ Apart(f[a], f[b])
            /\ \A x : In(x, s) <=> In(x, f[a]) \/ In(x, f[b])
        BY <4>2, <4>4 DEF Shuffled, Apart
      <4>8. /\ f[s] \in Seq(S) /\ NoRepeat(f[s])
            /\ \A x : In(x, f[s]) <=> In(x, f[a]) \/ In(x, f[b])
        BY <4>6, <4>7, MergeKeeps
      <4> QED
        BY <4>7, <4>8 DEF Shuffled
    <3> QED
      BY <3>1, <3>2
  <2> QED
    BY <2>1
<1>8. Len(list) \in T
  <2>. HIDE DEF T
  <2>1. Nat \subseteq T
    BY <1>6, <1>7, Induct
  <2> QED
    BY <1>1, <2>1
<1>9. Len(list) <= Len(list)
  BY <1>1
<1> QED
  BY <1>3, <1>8, <1>9

-----------------------------------------------------------------------------
(* One turn of a loop on the lists                                         *)

Lists == Objs \cup {Rebalance}

(* Where an interrupt belongs that has the object o, or none.              *)
Belongs(i, o, l) == l = o \/ (l = Rebalance /\ o = NoObj /\ Level[i] # 0)

(* The lists of w are those that its assigned_obj says.                    *)
Homed(w) ==
    /\ w = [on |-> w.on, at |-> w.at, moved |-> w.moved, load |-> w.load]
    /\ w.on \in [Lists -> Seq(Irqs)] /\ w.at \in [Irqs -> Objs \cup {NoObj}]
    /\ w.moved \in [Irqs -> BOOLEAN] /\ w.load \in [Objs -> Nat]
    /\ \A l \in Lists : NoRepeat(w.on[l])
    /\ \A i \in Irqs, l \in Lists : In(i, w.on[l]) <=> Belongs(i, w.at[i], l)
    /\ \A i \in Irqs : Level[i] = 0 => w.at[i] = NoObj

(* An interrupt belongs on one list.                                       *)
LEMMA OneList ==
    ASSUME NEW i \in Irqs, NEW o \in Objs \cup {NoObj}, NEW l \in Lists, NEW m \in Lists,
           Belongs(i, o, l), Belongs(i, o, m)
    PROVE  l = m
  BY PlacementAssumption DEF Belongs, Lists

(* v is w with i taken from the list from and appended to the list to.     *)
Moves(w, i, from, to, v) ==
    /\ v.on = [w.on EXCEPT ![from] = Delete(@, i), ![to] = Append(@, i)]
    /\ v.moved = [w.moved EXCEPT ![i] = TRUE]
    /\ v = [on |-> v.on, at |-> v.at, moved |-> v.moved, load |-> v.load]

(* migrate_irq, with assigned_obj set to where the interrupt goes, keeps   *)
(* lists and assigned_obj together.                                        *)
LEMMA MoveKeepsHomes ==
    ASSUME NEW w, Homed(w), NEW v, NEW i \in Irqs, NEW from \in Lists, NEW to \in Lists,
           from # to, In(i, w.on[from]), Moves(w, i, from, to, v), v.load \in [Objs -> Nat],
           NEW o \in Objs \cup {NoObj}, v.at = [w.at EXCEPT ![i] = o],
           Belongs(i, o, to), Level[i] = 0 => o = NoObj
    PROVE  Homed(v)
<1>1. /\ w.on \in [Lists -> Seq(Irqs)] /\ w.at \in [Irqs -> Objs \cup {NoObj}]
      /\ w.moved \in [Irqs -> BOOLEAN]
      /\ \A l \in Lists : NoRepeat(w.on[l])
      /\ \A j \in Irqs, l \in Lists : In(j, w.on[l]) <=> Belongs(j, w.at[j], l)
      /\ \A j \in Irqs : Level[j] = 0 => w.at[j] = NoObj
  BY DEF Homed
<1>2. /\ v.on \in [Lists -> Seq(Irqs)]
      /\ \A l \in Lists : v.on[l] = IF l = from THEN Delete(w.on[from], i)
                                    ELSE IF l = to THEN Append(w.on[to], i) ELSE w.on[l]
  <2>. DEFINE a == Delete(w.on[from], i)
              b == Append(w.on[to], i)
  <2>1. a \in Seq(Irqs)
    BY <1>1, Deleted
  <2>2. b \in Seq(Irqs)
    <3>1. w.on[to] \in Seq(Irqs)
      BY <1>1
    <3> QED
      BY <3>1
  <2>3. v.on = [w.on EXCEPT ![from] = a, ![to] = b]
    BY <1>1 DEF Moves
  <2>. HIDE DEF a, b
  <2>4. /\ v.on \in [Lists -> Seq(Irqs)]
        /\ \A l \in Lists : v.on[l] = IF l = from THEN a ELSE IF l = to THEN b ELSE w.on[l]
    BY <1>1, <2>1, <2>2, <2>3
  <2> QED
    BY <2>4 DEF a, b
<1>3. /\ NoRepeat(Delete(w.on[from], i))
      /\ \A j : In(j, Delete(w.on[from], i)) <=> In(j, w.on[from]) /\ j # i
  BY <1>1, Deleted
<1>4. ~In(i, w.on[to])
  BY <1>1, OneList
<1>5. /\ NoRepeat(Append(w.on[to], i))
      /\ \A j : In(j, Append(w.on[to], i)) <=> In(j, w.on[to]) \/ j = i
  <2>1. w.on[to] \in Seq(Irqs) /\ NoRepeat(w.on[to])
    BY <1>1
  <2> QED
    BY <1>4, <2>1, AppendOne
<1>6. \A l \in Lists : NoRepeat(v.on[l])
  BY <1>1, <1>2, <1>3, <1>5
<1>7. v.at \in [Irqs -> Objs \cup {NoObj}] /\ v.at[i] = o
      /\ \A j \in Irqs : j # i => v.at[j] = w.at[j]
  BY <1>1
<1>8. ASSUME NEW j \in Irqs, NEW l \in Lists PROVE In(j, v.on[l]) <=> Belongs(j, v.at[j], l)
  <2>1. CASE l = from
    <3>1. In(j, v.on[l]) <=> In(j, w.on[from]) /\ j # i
      BY <1>2, <1>3, <2>1
    <3>2. CASE j = i
      <4>1. ~Belongs(i, o, from)
        BY OneList
      <4> QED
        BY <1>7, <2>1, <3>1, <3>2, <4>1
    <3>3. CASE j # i
      BY <1>1, <1>7, <2>1, <3>1, <3>3
    <3> QED
      BY <3>2, <3>3
  <2>2. CASE l = to
    <3>1. In(j, v.on[l]) <=> In(j, w.on[to]) \/ j = i
      BY <1>2, <1>5, <2>2
    <3>2. CASE j = i
      BY <1>7, <2>2, <3>1, <3>2
    <3>3. CASE j # i
      BY <1>1, <1>7, <2>2, <3>1, <3>3
    <3> QED
      BY <3>2, <3>3
  <2>3. CASE l # from /\ l # to
    <3>1. v.on[l] = w.on[l]
      BY <1>2, <2>3
    <3>2. CASE j = i
      <4>1. ~Belongs(i, o, l)
        BY <2>3, OneList
      <4>2. ~In(i, w.on[l])
        BY <1>1, <2>3, OneList
      <4> QED
        BY <1>7, <3>1, <3>2, <4>1, <4>2
    <3>3. CASE j # i
      BY <1>1, <1>7, <3>1, <3>3
    <3> QED
      BY <3>2, <3>3
  <2> QED
    BY <2>1, <2>2, <2>3
<1>9. \A j \in Irqs : Level[j] = 0 => v.at[j] = NoObj
  BY <1>1, <1>7
<1>10. v.moved \in [Irqs -> BOOLEAN]
  BY <1>1 DEF Moves
<1>11. v = [on |-> v.on, at |-> v.at, moved |-> v.moved, load |-> v.load]
  BY DEF Moves
<1> QED
  BY <1>2, <1>6, <1>7, <1>8, <1>9, <1>10, <1>11 DEF Homed

(* What one turn may do to the interrupt i: nothing, take it away, or give *)
(* it a new place, and mark it.                                            *)
SameBut(w, i, v) ==
    /\ \A j \in Irqs : j # i => v.at[j] = w.at[j] /\ v.moved[j] = w.moved[j]
    /\ v.at[i] # w.at[i] => v.moved[i]
    /\ w.moved[i] => v.moved[i]
    /\ v.moved[i] => w.moved[i] \/ v.at[i] # w.at[i]

(* force_irq_migration of an interrupt that has a place.                   *)
LEMMA GiveUpKeeps ==
    ASSUME NEW w, Homed(w), NEW i \in Irqs, w.at[i] # NoObj
    PROVE  /\ Homed(GiveUp(w, i)) /\ SameBut(w, i, GiveUp(w, i))
           /\ GiveUp(w, i).at[i] = NoObj /\ GiveUp(w, i).load = w.load
<1>. DEFINE from == w.at[i]
            v    == GiveUp(w, i)
<1>1. /\ w = [on |-> w.on, at |-> w.at, moved |-> w.moved, load |-> w.load]
      /\ w.at \in [Irqs -> Objs \cup {NoObj}] /\ w.moved \in [Irqs -> BOOLEAN]
      /\ w.on \in [Lists -> Seq(Irqs)]
      /\ \A j \in Irqs, l \in Lists : In(j, w.on[l]) <=> Belongs(j, w.at[j], l)
      /\ \A j \in Irqs : Level[j] = 0 => w.at[j] = NoObj
  BY DEF Homed
<1>2. from \in Objs /\ from \in Lists /\ Rebalance \in Lists /\ from # Rebalance
  BY <1>1, PlacementAssumption DEF Lists
<1>3. In(i, w.on[from])
  BY <1>1, <1>2 DEF Belongs
<1>4. i \in ToSet(w.on[from])
  BY <1>3 DEF In, ToSet
<1>. DEFINE on2 == [w.on EXCEPT ![from] = Delete(@, i), ![Rebalance] = Append(@, i)]
<1>5. MigrateIrq(w, i, from, Rebalance) = [w EXCEPT !.on = on2, !.moved[i] = TRUE]
  BY <1>4 DEF MigrateIrq
<1>. HIDE DEF on2
<1>6. v = [on |-> on2, at |-> [w.at EXCEPT ![i] = NoObj],
           moved |-> [w.moved EXCEPT ![i] = TRUE], load |-> w.load]
  <2>1. MigrateIrq(w, i, from, Rebalance)
            = [on |-> on2, at |-> w.at, moved |-> [w.moved EXCEPT ![i] = TRUE], load |-> w.load]
    BY <1>1, <1>5
  <2>. DEFINE m == MigrateIrq(w, i, from, Rebalance)
  <2>2. v = [m EXCEPT !.at[i] = NoObj]
    BY DEF GiveUp
  <2>. HIDE DEF m, v
  <2>3. m = [on |-> on2, at |-> w.at, moved |-> [w.moved EXCEPT ![i] = TRUE], load |-> w.load]
    BY <2>1 DEF m
  <2> QED
    BY <2>2, <2>3
<1>. HIDE DEF v
<1>7. Moves(w, i, from, Rebalance, v) /\ v.at = [w.at EXCEPT ![i] = NoObj]
  BY <1>6 DEF Moves, on2
<1>14. v.load \in [Objs -> Nat]
  BY <1>6 DEF Homed
<1>8. Level[i] # 0
  BY <1>1
<1>9. Belongs(i, NoObj, Rebalance)
  BY <1>8 DEF Belongs
<1>. HIDE DEF from
<1>10. Homed(v)
  BY <1>2, <1>3, <1>7, <1>9, <1>14, MoveKeepsHomes
<1>11. v.at[i] = NoObj /\ v.load = w.load
  BY <1>1, <1>6
<1>12. SameBut(w, i, v)
  BY <1>1, <1>6, <1>11 DEF SameBut
<1> QED
  BY <1>10, <1>11, <1>12 DEF v

(* Lines 110-114, 139-141 and 156-160 of placement.c.                      *)
LEMMA AssignKeeps ==
    ASSUME NEW w, Homed(w), NEW i \in Irqs, NEW from \in Lists, In(i, w.on[from]),
           NEW to \in Objs, to # from, Level[i] # 0, NEW cost \in Nat
    PROVE  /\ Homed(Assign(w, i, from, to, cost)) /\ SameBut(w, i, Assign(w, i, from, to, cost))
           /\ Assign(w, i, from, to, cost).at[i] = to
<1>. DEFINE v == Assign(w, i, from, to, cost)
<1>1. /\ w = [on |-> w.on, at |-> w.at, moved |-> w.moved, load |-> w.load]
      /\ w.at \in [Irqs -> Objs \cup {NoObj}] /\ w.moved \in [Irqs -> BOOLEAN]
      /\ w.on \in [Lists -> Seq(Irqs)]
      /\ \A j \in Irqs, l \in Lists : In(j, w.on[l]) <=> Belongs(j, w.at[j], l)
  BY DEF Homed
<1>2. to \in Lists /\ to # NoObj
  BY PlacementAssumption DEF Lists
<1>4. i \in ToSet(w.on[from])
  BY DEF In, ToSet
<1>. DEFINE on2 == [w.on EXCEPT ![from] = Delete(@, i), ![to] = Append(@, i)]
            ld  == [w.load EXCEPT ![to] = @ + cost]
<1>5. MigrateIrq(w, i, from, to) = [w EXCEPT !.on = on2, !.moved[i] = TRUE]
  BY <1>4 DEF MigrateIrq
<1>. HIDE DEF on2
<1>6. v = [on |-> on2, at |-> [w.at EXCEPT ![i] = to],
           moved |-> [w.moved EXCEPT ![i] = TRUE], load |-> ld]
  BY <1>1, <1>2, <1>5 DEF Assign
<1>14. v.load \in [Objs -> Nat]
  <2>1. ld \in [Objs -> Nat]
    BY DEF Homed
  <2>. HIDE DEF v, ld
  <2> QED
    BY <1>6, <2>1
<1>. HIDE DEF v, ld
<1>7. Moves(w, i, from, to, v) /\ v.at = [w.at EXCEPT ![i] = to]
  BY <1>6 DEF Moves, on2
<1>9. Belongs(i, to, to)
  BY DEF Belongs
<1>10. Homed(v)
  BY <1>2, <1>7, <1>9, <1>14, MoveKeepsHomes
<1>11. v.at[i] = to
  BY <1>1, <1>6
<1>12. w.at[i] # to
  <2>1. CASE w.at[i] = to
    <3>1. In(i, w.on[to])
      BY <1>1, <1>2, <2>1 DEF Belongs
    <3>2. Belongs(i, w.at[i], to) /\ Belongs(i, w.at[i], from)
      BY <1>1, <1>2, <3>1
    <3> QED
      BY <1>1, <1>2, <3>2, OneList
  <2> QED
    BY <2>1
<1>13. SameBut(w, i, v)
  BY <1>1, <1>6, <1>11, <1>12 DEF SameBut
<1> QED
  BY <1>10, <1>11, <1>13 DEF v

(* The loops over the same list, by the turns of each.                     *)
LEMMA MoveLoop ==
    ASSUME NEW b, NEW s \in Seq(Irqs)
    PROVE  FoldLeft(MoveCandidate, b, s) = Folded(<<"move">>, b, s)
<1>1. DOMAIN s = 1..Len(s)
  OBVIOUS
<1> QED
  BY <1>1, SMTT(60) DEF FoldLeft, MapThenFoldSet, Max, Folded, Folds, Top, Step

(* for_each_irq with force_irq_migration.                                  *)
LEMMA GiveUpLoop ==
    ASSUME NEW b, NEW s \in Seq(Irqs)
    PROVE  FoldLeft(GiveUp, b, s) = Folded(<<"giveup">>, b, s)
<1>1. DOMAIN s = 1..Len(s)
  OBVIOUS
<1> QED
  BY <1>1, SMTT(60) DEF FoldLeft, MapThenFoldSet, Max, Folded, Folds, Top, Step

(* for_each_object with migrate_overloaded_irqs.                           *)
LEMMA OverLoop ==
    ASSUME NEW b, NEW s \in Seq(Objs)
    PROVE  FoldLeft(MigrateOverloaded, b, s) = Folded(<<"over">>, b, s)
<1>1. DOMAIN s = 1..Len(s)
  OBVIOUS
<1> QED
  BY <1>1, SMTT(60) DEF FoldLeft, MapThenFoldSet, Max, Folded, Folds, Top, Step

(* for_each_irq with place_irq_in_node.                                    *)
LEMMA NodeLoop ==
    ASSUME NEW b, NEW s \in Seq(Irqs)
    PROVE  FoldLeft(PlaceInNode, b, s) = Folded(<<"node">>, b, s)
<1>1. DOMAIN s = 1..Len(s)
  OBVIOUS
<1> QED
  BY <1>1, SMTT(60) DEF FoldLeft, MapThenFoldSet, Max, Folded, Folds, Top, Step

(* for_each_irq with find_best_object_for_irq.                             *)
LEMMA BelowLoop ==
    ASSUME NEW b, NEW s \in Seq(Irqs), NEW o
    PROVE  FoldLeft(LAMBDA u, i : PlaceBelow(u, i, o), b, s) = Folded(<<"below", o>>, b, s)
<1>1. DOMAIN s = 1..Len(s)
  OBVIOUS
<1> QED
  BY <1>1, SMTT(60) DEF FoldLeft, MapThenFoldSet, Max, Folded, Folds, Top, Step

(* for_each_object with place_irq_in_object.                               *)
LEMMA ObjectLoop ==
    ASSUME NEW w, NEW s \in Seq(Objs)
    PROVE  PlaceInObjects(w, s) = Folded(<<"object">>, w, s)
<1>1. DOMAIN s = 1..Len(s)
  OBVIOUS
<1> QED
  BY <1>1, SMTT(60) DEF PlaceInObjects, FoldLeft, MapThenFoldSet, Max, Folded, Folds, Top, Step

(* The objects that are appended to the children of one of them.           *)
LEMMA ChildLoop ==
    ASSUME NEW o, NEW s \in Seq(Objs)
    PROVE  FoldLeft(LAMBDA r, c : IF Parent[c] = o THEN Append(r, c) ELSE r, <<>>, s)
               = Folded(<<"child", o>>, <<>>, s)
<1>1. DOMAIN s = 1..Len(s)
  OBVIOUS
<1> QED
  BY <1>1, SMTT(60) DEF FoldLeft, MapThenFoldSet, Max, Folded, Folds, Top, Step

(* for_each_object with find_best_object.                                  *)
LEMMA BestLoop ==
    ASSUME NEW w, NEW i, NEW b, NEW s \in Seq(Objs)
    PROVE  FoldLeft(LAMBDA best, o : FindBestObject(w, i, best, o), b, s)
               = Folded(<<"best", w, i>>, b, s)
<1>1. DOMAIN s = 1..Len(s)
  OBVIOUS
<1> QED
  BY <1>1, SMTT(60) DEF FoldLeft, MapThenFoldSet, Max, Folded, Folds, Top, Step

-----------------------------------------------------------------------------
(* Sums over lists                                                         *)

(* A quotient of natural numbers is one.                                   *)
LEMMA DivNat ==
    ASSUME NEW a \in Nat, NEW b \in Nat, b > 0
    PROVE  a \div b \in Nat
  OBVIOUS

(* The loop of SumOver.                                                    *)
LEMMA SumLoop ==
    ASSUME NEW S, NEW s \in Seq(S), NEW f
    PROVE  SumOver(s, f) = Folded(<<"sum", f>>, 0, s)
<1>1. DOMAIN s = 1..Len(s)
  OBVIOUS
<1> QED
  BY <1>1, SMTT(60) DEF SumOver, FoldLeft, MapThenFoldSet, Max, Folded, Folds, Top, Step

(* The sums of the first n elements, for each n.                           *)
Adds(sum, s, f) ==
    /\ sum[0] = 0 /\ SumOver(s, f) = sum[Len(s)]
    /\ \A n \in 1..Len(s) : sum[n] = sum[n - 1] + f[s[n]]

(* A sum is added up element by element.                                   *)
LEMMA SumAdds ==
    ASSUME NEW S, NEW s \in Seq(S), NEW f
    PROVE  \E sum : Adds(sum, s, f)
<1>. DEFINE k == <<"sum", f>>
<1>1. SumOver(s, f) = Folded(k, 0, s)
  BY SumLoop
<1>2. k[1] = "sum" /\ k[2] = f
  OBVIOUS
<1>. HIDE DEF k
<1>3. PICK acc : Turns(acc, k, 0, s) /\ Folded(k, 0, s) = acc[Len(s)]
  BY FoldLeftSteps
<1>4. \A n \in 1..Len(s) : acc[n] = acc[n - 1] + f[s[n]]
  BY <1>2, <1>3 DEF Turns, Step
<1> QED
  BY <1>1, <1>3, <1>4 DEF Adds, Turns

(* A sum of natural numbers is one.                                        *)
LEMMA SumIsNat ==
    ASSUME NEW S, NEW s \in Seq(S), NEW f, \A n \in DOMAIN s : f[s[n]] \in Nat
    PROVE  SumOver(s, f) \in Nat
<1>1. PICK sum : Adds(sum, s, f)
  BY SumAdds
<1>2. PICK z \in Nat : z = Len(s) /\ DOMAIN s = 1..z
  OBVIOUS
<1>. DEFINE T == {n \in 0..z : sum[n] \in Nat}
<1>3. 0 \in T
  BY <1>1 DEF Adds
<1>4. ASSUME NEW n \in 1..z, n - 1 \in T PROVE n \in T
  BY <1>1, <1>2, <1>4 DEF Adds
<1>5. z \in T
  <2>. HIDE DEF T
  <2> QED
    BY <1>3, <1>4, EveryTurn
<1> QED
  BY <1>1, <1>2, <1>5 DEF Adds

(* It depends on what is summed and on nothing else.                       *)
LEMMA SumSame ==
    ASSUME NEW S, NEW s \in Seq(S), NEW f, NEW g, \A n \in DOMAIN s : f[s[n]] = g[s[n]]
    PROVE  SumOver(s, f) = SumOver(s, g)
<1>1. PICK a : Adds(a, s, f)
  BY SumAdds
<1>2. PICK b : Adds(b, s, g)
  BY SumAdds
<1>3. PICK z \in Nat : z = Len(s) /\ DOMAIN s = 1..z
  OBVIOUS
<1>. DEFINE T == {n \in 0..z : a[n] = b[n]}
<1>4. 0 \in T
  BY <1>1, <1>2 DEF Adds
<1>5. ASSUME NEW n \in 1..z, n - 1 \in T PROVE n \in T
  BY <1>1, <1>2, <1>3, <1>5 DEF Adds
<1>6. z \in T
  <2>. HIDE DEF T
  <2> QED
    BY <1>4, <1>5, EveryTurn
<1> QED
  BY <1>1, <1>2, <1>3, <1>6 DEF Adds

(* When each of the summands is at most c times another, so is the sum.    *)
LEMMA SumTimes ==
    ASSUME NEW S, NEW s \in Seq(S), NEW f, NEW g, NEW c \in Nat,
           \A n \in DOMAIN s : f[s[n]] \in Nat /\ g[s[n]] \in Nat /\ f[s[n]] <= c * g[s[n]]
    PROVE  SumOver(s, f) <= c * SumOver(s, g)
<1>1. PICK a : Adds(a, s, f)
  BY SumAdds
<1>2. PICK b : Adds(b, s, g)
  BY SumAdds
<1>3. PICK z \in Nat : z = Len(s) /\ DOMAIN s = 1..z
  OBVIOUS
<1>. DEFINE T == {n \in 0..z : a[n] \in Nat /\ b[n] \in Nat /\ a[n] <= c * b[n]}
<1>4. 0 \in T
  BY <1>1, <1>2 DEF Adds
<1>5. ASSUME NEW n \in 1..z, n - 1 \in T PROVE n \in T
  <2>1. PICK p \in Nat, q \in Nat : p = a[n - 1] /\ q = b[n - 1] /\ p <= c * q
    BY <1>5
  <2>2. PICK x \in Nat, y \in Nat : x = f[s[n]] /\ y = g[s[n]] /\ x <= c * y
    BY <1>3
  <2>3. a[n] = p + x /\ b[n] = q + y
    BY <1>1, <1>2, <1>3, <2>1, <2>2 DEF Adds
  <2>4. c * (q + y) = c * q + c * y /\ c * q \in Nat /\ c * y \in Nat
    OBVIOUS
  <2>5. p + x <= c * q + c * y
    <3>1. PICK u \in Nat, v \in Nat : u = c * q /\ v = c * y
      BY <2>4
    <3>2. p <= u /\ x <= v
      BY <2>1, <2>2, <3>1
    <3> QED
      BY <3>1, <3>2
  <2>6. a[n] <= c * b[n]
    BY <2>3, <2>4, <2>5
  <2>7. a[n] \in Nat /\ b[n] \in Nat /\ n \in 0..z
    BY <2>3
  <2> QED
    BY <2>6, <2>7
<1>6. z \in T
  <2>. HIDE DEF T
  <2> QED
    BY <1>4, <1>5, EveryTurn
<1> QED
  BY <1>1, <1>2, <1>3, <1>6 DEF Adds

(* When one of the summands grows by c, so does the sum.                   *)
LEMMA SumOneMore ==
    ASSUME NEW S, NEW s \in Seq(S), NEW f, NEW g, NEW c \in Nat, NEW k \in DOMAIN s,
           \A n \in DOMAIN s : f[s[n]] \in Nat /\ g[s[n]] = IF n = k THEN f[s[n]] + c ELSE f[s[n]]
    PROVE  SumOver(s, g) = SumOver(s, f) + c
<1>1. PICK a : Adds(a, s, f)
  BY SumAdds
<1>2. PICK b : Adds(b, s, g)
  BY SumAdds
<1>3. PICK z \in Nat : z = Len(s) /\ DOMAIN s = 1..z
  OBVIOUS
<1>. DEFINE T == {n \in 0..z : a[n] \in Nat /\ b[n] = IF n < k THEN a[n] ELSE a[n] + c}
<1>4. 0 \in T
  BY <1>1, <1>2, <1>3 DEF Adds
<1>5. ASSUME NEW n \in 1..z, n - 1 \in T PROVE n \in T
  <2>1. PICK p \in Nat : p = a[n - 1] /\ b[n - 1] = IF n - 1 < k THEN p ELSE p + c
    BY <1>5
  <2>2. PICK x \in Nat : x = f[s[n]] /\ g[s[n]] = IF n = k THEN x + c ELSE x
    BY <1>3
  <2>3. a[n] = p + x /\ b[n] = b[n - 1] + g[s[n]]
    BY <1>1, <1>2, <1>3, <2>1, <2>2 DEF Adds
  <2>4. k \in Nat /\ n \in Nat /\ n \in 0..z
    BY <1>3
  <2>5. a[n] \in Nat /\ (p + c) + x = (p + x) + c /\ p + (x + c) = (p + x) + c
    BY <2>3
  <2>6. CASE n < k
    <3>1. n - 1 < k /\ n # k
      BY <2>4, <2>6
    <3>2. b[n - 1] = p /\ g[s[n]] = x
      BY <2>1, <2>2, <3>1
    <3>3. b[n] = a[n]
      BY <2>3, <3>2
    <3> QED
      BY <2>4, <2>5, <2>6, <3>3
  <2>7. CASE n = k
    <3>1. b[n - 1] = p /\ g[s[n]] = x + c
      BY <2>1, <2>2, <2>4, <2>7
    <3>2. b[n] = a[n] + c
      BY <2>3, <2>5, <3>1
    <3> QED
      BY <2>4, <2>5, <2>7, <3>2
  <2>8. CASE n > k
    <3>1. b[n - 1] = p + c /\ g[s[n]] = x
      BY <2>1, <2>2, <2>4, <2>8
    <3>2. b[n] = a[n] + c
      BY <2>3, <2>5, <3>1
    <3> QED
      BY <2>4, <2>5, <2>8, <3>2
  <2> QED
    BY <2>4, <2>6, <2>7, <2>8
<1>6. z \in T
  <2>. HIDE DEF T
  <2> QED
    BY <1>4, <1>5, EveryTurn
<1> QED
  BY <1>1, <1>2, <1>3, <1>6 DEF Adds

-----------------------------------------------------------------------------
(* The objects                                                             *)

(* What is in two lists one behind the other.                              *)
LEMMA JoinedHas ==
    ASSUME NEW S, NEW a \in Seq(S), NEW b \in Seq(S)
    PROVE  /\ \A x : In(x, a \o b) <=> In(x, a) \/ In(x, b)
           /\ NoRepeat(a \o b) => NoRepeat(a) /\ NoRepeat(b) /\ Apart(a, b)
<1>1. PICK p \in Nat, q \in Nat : p = Len(a) /\ q = Len(b)
  OBVIOUS
<1>. DEFINE j == a \o b
<1>2. DOMAIN j = 1..(p + q) /\ DOMAIN a = 1..p /\ DOMAIN b = 1..q
  BY <1>1, Joined
<1>3. \A n \in 1..p : j[n] = a[n]
  BY <1>1, Joined
<1>4. \A n \in 1..q : j[p + n] = b[n]
  BY <1>1, Joined
<1>. HIDE DEF j
<1>5. \A n \in 1..(p + q) : n \in 1..p \/ \E m \in 1..q : n = p + m
  <2>1. \A n \in 1..(p + q) : n \in 1..p \/ (n - p \in 1..q /\ n = p + (n - p))
    OBVIOUS
  <2> QED
    BY <2>1
<1>6. /\ \A n \in 1..p : n \in 1..(p + q)
      /\ \A n \in 1..q : p + n \in 1..(p + q) /\ p + n \notin 1..p
  OBVIOUS
<1>7. ASSUME NEW x PROVE In(x, j) <=> In(x, a) \/ In(x, b)
  <2>1. ASSUME In(x, j) PROVE In(x, a) \/ In(x, b)
    <3>1. PICK n \in 1..(p + q) : j[n] = x
      BY <1>2, <2>1 DEF In
    <3> QED
      BY <1>2, <1>3, <1>4, <1>5, <3>1 DEF In
  <2>2. ASSUME In(x, a) PROVE In(x, j)
    <3>1. PICK n \in 1..p : a[n] = x
      BY <1>2, <2>2 DEF In
    <3> QED
      BY <1>2, <1>3, <1>6, <3>1 DEF In
  <2>3. ASSUME In(x, b) PROVE In(x, j)
    <3>1. PICK n \in 1..q : b[n] = x
      BY <1>2, <2>3 DEF In
    <3>2. p + n \in DOMAIN j /\ j[p + n] = x
      BY <1>2, <1>4, <1>6, <3>1
    <3> QED
      BY <3>2 DEF In
  <2> QED
    BY <2>1, <2>2, <2>3
<1>8. ASSUME NoRepeat(j) PROVE NoRepeat(a) /\ NoRepeat(b) /\ Apart(a, b)
  <2>1. NoRepeat(a)
    BY <1>2, <1>3, <1>6, <1>8 DEF NoRepeat
  <2>2. NoRepeat(b)
    <3>1. \A m, n \in 1..q : p + m = p + n => m = n
      OBVIOUS
    <3> QED
      BY <1>2, <1>4, <1>6, <1>8, <3>1 DEF NoRepeat
  <2>3. Apart(a, b)
    BY <1>2, <1>3, <1>4, <1>6, <1>8 DEF NoRepeat, Apart, In
  <2> QED
    BY <2>1, <2>2, <2>3
<1> QED
  BY <1>7, <1>8 DEF j

(* The objects calculate_placement goes through, and all of them.          *)
Above == NodeList \o PackageList \o CacheList
Every == NodeList \o PackageList \o CacheList \o CpuList

(* The four lists have all the objects, each once, those of one depth each. *)
LEMMA FourLists ==
    /\ Every \in Seq(Objs) /\ Above \in Seq(Objs)
    /\ NoRepeat(NodeList) /\ NoRepeat(PackageList) /\ NoRepeat(CacheList) /\ NoRepeat(CpuList)
    /\ \A o : In(o, Every) <=> o \in Objs
    /\ \A o : In(o, Above) <=> In(o, NodeList) \/ In(o, PackageList) \/ In(o, CacheList)
    /\ \A o : o \in Objs <=> \/ In(o, NodeList) \/ In(o, PackageList)
                             \/ In(o, CacheList) \/ In(o, CpuList)
    /\ \A o \in Objs : /\ depth[o] \in 0..3
                       /\ In(o, NodeList) <=> depth[o] = 0
                       /\ In(o, PackageList) <=> depth[o] = 1
                       /\ In(o, CacheList) <=> depth[o] = 2
                       /\ In(o, CpuList) <=> depth[o] = 3
<1>1. /\ NodeList \in Seq(Objs) /\ PackageList \in Seq(Objs)
      /\ CacheList \in Seq(Objs) /\ CpuList \in Seq(Objs)
  BY PlacementAssumption
<1>. DEFINE two == NodeList \o PackageList
            three == two \o CacheList
            four == three \o CpuList
<1>2. two \in Seq(Objs)
  BY <1>1, Joined
<1>3. three \in Seq(Objs)
  <2>. HIDE DEF two
  <2> QED
    BY <1>1, <1>2, Joined
<1>4. four \in Seq(Objs) /\ four = Every /\ three = Above
  <2>1. four = Every /\ three = Above
    BY DEF Every, Above
  <2>. HIDE DEF three
  <2> QED
    BY <1>1, <1>3, <2>1, Joined
<1>5. NoRepeat(four)
  BY PlacementAssumption DEF NoRepeat, IsInjective
<1>6. /\ \A x : In(x, four) <=> In(x, three) \/ In(x, CpuList)
      /\ NoRepeat(three) /\ NoRepeat(CpuList) /\ Apart(three, CpuList)
  <2>. HIDE DEF three
  <2> QED
    BY <1>1, <1>3, <1>5, JoinedHas
<1>7. /\ \A x : In(x, three) <=> In(x, two) \/ In(x, CacheList)
      /\ NoRepeat(two) /\ NoRepeat(CacheList) /\ Apart(two, CacheList)
  <2>. HIDE DEF two
  <2> QED
    BY <1>1, <1>2, <1>6, JoinedHas
<1>8. /\ \A x : In(x, two) <=> In(x, NodeList) \/ In(x, PackageList)
      /\ NoRepeat(NodeList) /\ NoRepeat(PackageList) /\ Apart(NodeList, PackageList)
  BY <1>1, <1>7, JoinedHas
<1>9. \A l \in Seq(Objs) : \A x : x \in ToSet(l) <=> In(x, l)
  BY DEF ToSet, In
<1>10. \A o : o \in Objs <=> \/ In(o, NodeList) \/ In(o, PackageList)
                             \/ In(o, CacheList) \/ In(o, CpuList)
  BY <1>1, <1>9 DEF Objs
<1>11. \A o : In(o, four) <=> o \in Objs
  BY <1>6, <1>7, <1>8, <1>10
<1>12. ASSUME NEW o \in Objs
       PROVE  /\ In(o, NodeList) => depth[o] = 0
              /\ In(o, PackageList) => depth[o] = 1
              /\ In(o, CacheList) => depth[o] = 2
              /\ In(o, CpuList) => depth[o] = 3
  <2>1. depth[o] = CASE In(o, NodeList) -> 0 [] In(o, PackageList) -> 1
                     [] In(o, CacheList) -> 2 [] OTHER -> 3
    BY <1>1, <1>9 DEF depth
  <2> QED
    BY <1>6, <1>7, <1>8, <2>1 DEF Apart
<1>13. \A o : In(o, Above) <=> In(o, NodeList) \/ In(o, PackageList) \/ In(o, CacheList)
  <2>. HIDE DEF two, three
  <2> QED
    BY <1>4, <1>7, <1>8
<1>14. \A o \in Objs : /\ depth[o] \in 0..3
                       /\ In(o, NodeList) <=> depth[o] = 0
                       /\ In(o, PackageList) <=> depth[o] = 1
                       /\ In(o, CacheList) <=> depth[o] = 2
                       /\ In(o, CpuList) <=> depth[o] = 3
  BY <1>10, <1>12
<1>. HIDE DEF two, three, four
<1> QED
  BY <1>3, <1>4, <1>6, <1>7, <1>8, <1>10, <1>11, <1>13, <1>14

(* The lists have the objects of one depth each, in the order of depth.    *)
LEMMA Ranks ==
    /\ Every \in Seq(Objs) /\ Above \in Seq(Objs)
    /\ \A o : In(o, Every) <=> o \in Objs
    /\ \A o \in Objs : In(o, Above) <=> depth[o] # 3
    /\ \A o \in Objs : depth[o] \in 0..3 /\ (depth[o] = 3 <=> o \in CpuObjs)
                       /\ (depth[o] = 0 <=> In(o, NodeList))
    /\ \A m, n \in 1..Len(Above) : m <= n => depth[Above[m]] <= depth[Above[n]]
<1>1. /\ NodeList \in Seq(Objs) /\ PackageList \in Seq(Objs)
      /\ CacheList \in Seq(Objs) /\ CpuList \in Seq(Objs)
  BY PlacementAssumption
<1>. DEFINE two == NodeList \o PackageList
            three == two \o CacheList
            four == three \o CpuList
<1>2. two \in Seq(Objs)
  BY <1>1, Joined
<1>3. three \in Seq(Objs)
  <2>. HIDE DEF two
  <2> QED
    BY <1>1, <1>2, Joined
<1>4. four \in Seq(Objs) /\ four = Every /\ three = Above
  <2>1. four = Every /\ three = Above
    BY DEF Every, Above
  <2>. HIDE DEF three
  <2> QED
    BY <1>1, <1>3, <2>1, Joined
<1>9. \A l \in Seq(Objs) : \A x : x \in ToSet(l) <=> In(x, l)
  BY DEF ToSet, In
<1>10. \A o : o \in Objs <=> \/ In(o, NodeList) \/ In(o, PackageList)
                             \/ In(o, CacheList) \/ In(o, CpuList)
  BY FourLists
<1>11. \A o : In(o, four) <=> o \in Objs
  <2>. HIDE DEF two, three, four
  <2> QED
    BY <1>4, FourLists
<1>12. \A o \in Objs : /\ In(o, NodeList) <=> depth[o] = 0
                       /\ In(o, PackageList) <=> depth[o] = 1
                       /\ In(o, CacheList) <=> depth[o] = 2
                       /\ In(o, CpuList) <=> depth[o] = 3
  BY FourLists
<1>13. PICK a \in Nat, b \in Nat, c \in Nat :
          a = Len(NodeList) /\ b = Len(PackageList) /\ c = Len(CacheList)
  BY <1>1
<1>14. Len(two) = a + b /\ \A n \in 1..a : two[n] = NodeList[n]
  BY <1>1, <1>13, Joined
<1>15. \A n \in 1..b : two[a + n] = PackageList[n]
  BY <1>1, <1>13, Joined
<1>16. Len(three) = (a + b) + c /\ \A n \in 1..(a + b) : three[n] = two[n]
  <2>1. Len(two) = a + b
    BY <1>14
  <2>. HIDE DEF two
  <2>2. Len(three) = Len(two) + Len(CacheList)
    BY <1>1, <1>2, Joined
  <2>3. \A n \in 1..Len(two) : three[n] = two[n]
    BY <1>1, <1>2, Joined
  <2>. HIDE DEF three
  <2> QED
    BY <1>13, <2>1, <2>2, <2>3
<1>17. \A n \in 1..c : three[(a + b) + n] = CacheList[n]
  <2>. HIDE DEF two
  <2> QED
    BY <1>1, <1>2, <1>13, <1>14, Joined
<1>. DEFINE rank(n) == IF n <= a THEN 0 ELSE IF n <= a + b THEN 1 ELSE 2
<1>18. ASSUME NEW n \in 1..((a + b) + c) PROVE depth[three[n]] = rank(n)
  <2>. HIDE DEF two, three
  <2>1. CASE n <= a
    <3>1. n \in 1..a /\ n \in 1..(a + b) /\ n \in DOMAIN NodeList
      BY <1>1, <1>13, <2>1
    <3>2. three[n] = NodeList[n] /\ In(NodeList[n], NodeList) /\ NodeList[n] \in Objs
      <4>1. NodeList[n] \in Objs
        BY <1>1, <3>1
      <4>2. In(NodeList[n], NodeList)
        BY <3>1 DEF In
      <4>3. three[n] = NodeList[n]
        BY <1>14, <1>16, <3>1
      <4>. HIDE DEF In
      <4> QED
        BY <4>1, <4>2, <4>3
    <3> QED
      BY <1>12, <2>1, <3>2
  <2>2. CASE ~(n <= a) /\ n <= a + b
    <3>1. PICK m \in 1..b : n = a + m
      <4>1. n - a \in 1..b /\ n = a + (n - a)
        BY <2>2
      <4> QED
        BY <4>1
    <3>2. n \in 1..(a + b) /\ m \in DOMAIN PackageList
      BY <1>1, <1>13, <2>2, <3>1
    <3>3. three[n] = PackageList[m] /\ In(PackageList[m], PackageList) /\ PackageList[m] \in Objs
      BY <1>1, <1>13, <1>15, <1>16, <3>1, <3>2 DEF In
    <3> QED
      BY <1>12, <2>2, <3>3
  <2>3. CASE ~(n <= a) /\ ~(n <= a + b)
    <3>1. PICK m \in 1..c : n = (a + b) + m
      <4>1. n - (a + b) \in 1..c /\ n = (a + b) + (n - (a + b))
        BY <2>3
      <4> QED
        BY <4>1
    <3>2. m \in DOMAIN CacheList
      BY <1>1, <1>13, <3>1
    <3>4. three[(a + b) + m] = CacheList[m]
      BY <1>17, <3>1
    <3>3. three[n] = CacheList[m] /\ In(CacheList[m], CacheList) /\ CacheList[m] \in Objs
      <4>1. CacheList[m] \in Objs
        BY <1>1, <3>2
      <4>2. In(CacheList[m], CacheList)
        BY <3>2 DEF In
      <4>. HIDE DEF In
      <4> QED
        BY <3>1, <3>4, <4>1, <4>2
    <3> QED
      BY <1>12, <2>3, <3>3
  <2> QED
    BY <2>1, <2>2, <2>3
<1>19. \A m, n \in 1..((a + b) + c) : m <= n => rank(m) <= rank(n)
  OBVIOUS
<1>20. \A m, n \in 1..Len(Above) : m <= n => depth[Above[m]] <= depth[Above[n]]
  <2>. HIDE DEF two, three, rank
  <2> QED
    BY <1>4, <1>16, <1>18, <1>19
<1>21. \A o \in Objs : In(o, three) <=> depth[o] # 3
  <2>. HIDE DEF two, three
  <2> QED
    BY <1>4, <1>10, <1>12, FourLists
<1>22. \A o \in Objs : /\ depth[o] \in 0..3 /\ (depth[o] = 3 <=> o \in CpuObjs)
                       /\ (depth[o] = 0 <=> In(o, NodeList))
  <2>1. \A o : o \in CpuObjs <=> In(o, CpuList)
    BY <1>1, <1>9 DEF CpuObjs
  <2> QED
    BY <1>10, <1>12, <2>1
<1>. HIDE DEF two, three, four
<1> QED
  BY <1>3, <1>4, <1>11, <1>20, <1>21, <1>22

(* The children of an object are those that name it as their parent.       *)
LEMMA ChildrenAre ==
    ASSUME NEW o \in Objs
    PROVE  /\ children[o] \in Seq(Objs)
           /\ \A c : In(c, children[o]) <=> c \in Objs /\ Parent[c] = o
<1>1. Every \in Seq(Objs) /\ \A c : In(c, Every) <=> c \in Objs
  BY Ranks
<1>2. children[o] = Folded(<<"child", o>>, <<>>, Every)
  <2>1. children[o] = FoldLeft(LAMBDA r, c : IF Parent[c] = o THEN Append(r, c) ELSE r, <<>>, Every)
    BY DEF children, Every
  <2> QED
    BY <1>1, <2>1, ChildLoop
<1>. DEFINE s == Every
            k == <<"child", o>>
<1>. HIDE DEF k
<1>3. PICK acc : Turns(acc, k, <<>>, s) /\ children[o] = acc[Len(s)]
  BY <1>1, <1>2, FoldLeftSteps DEF k
<1>4. PICK z \in Nat : z = Len(s) /\ DOMAIN s = 1..z /\ \A n \in 1..z : s[n] \in Objs
  BY <1>1
<1>. HIDE DEF s
<1>5. acc[0] = <<>> /\ \A n \in 1..z : acc[n] = IF Parent[s[n]] = o THEN Append(acc[n - 1], s[n])
                                                ELSE acc[n - 1]
  BY <1>3, <1>4 DEF Turns, Step, k
<1>. DEFINE Good(m, r) ==
        /\ r \in Seq(Objs)
        /\ \A c : In(c, r) <=> \E n \in 1..m : s[n] = c /\ Parent[c] = o
            T == {m \in 0..z : Good(m, acc[m])}
<1>6. 0 \in T
  <2>1. acc[0] \in Seq(Objs) /\ DOMAIN acc[0] = {}
    BY <1>5
  <2>2. \A n : n \notin 1..0
    OBVIOUS
  <2>3. Good(0, acc[0])
    BY <2>1, <2>2 DEF In
  <2> QED
    BY <2>3
<1>7. ASSUME NEW m \in 1..z, m - 1 \in T PROVE m \in T
  <2>. DEFINE r == acc[m - 1]
  <2>1. Good(m - 1, r) /\ s[m] \in Objs /\ m \in 0..z
    BY <1>4, <1>7
  <2>2. \A n \in 1..m : n = m \/ n \in 1..(m - 1)
    OBVIOUS
  <2>3. \A n \in 1..(m - 1) : n \in 1..m
    OBVIOUS
  <2>6. m \in 1..m
    OBVIOUS
  <2>4. CASE Parent[s[m]] = o
    <3>1. acc[m] = Append(r, s[m])
      BY <1>5, <2>4
    <3>2. acc[m] \in Seq(Objs) /\ \A c : In(c, acc[m]) <=> In(c, r) \/ c = s[m]
      <4>. HIDE DEF r
      <4> QED
        BY <2>1, <3>1, AppendOne
    <3>. HIDE DEF r
    <3>3. Good(m, acc[m])
      BY <2>1, <2>2, <2>3, <2>4, <2>6, <3>2
    <3> QED
      BY <2>1, <3>3
  <2>5. CASE Parent[s[m]] # o
    <3>1. acc[m] = r
      BY <1>5, <2>5
    <3>. HIDE DEF r
    <3>3. Good(m, acc[m])
      BY <2>1, <2>2, <2>3, <2>5, <3>1
    <3> QED
      BY <2>1, <3>3
  <2> QED
    BY <2>4, <2>5
<1>8. z \in T
  <2>. HIDE DEF T
  <2> QED
    BY <1>6, <1>7, EveryTurn
<1> QED
  BY <1>1, <1>3, <1>4, <1>8 DEF s, In

-----------------------------------------------------------------------------
(* The loads                                                               *)

(* One step of compute_irq_branch_load_share, and of                       *)
(* get_parent_branch_irq_count_share, for every object at once.            *)
LoadTurn(cpuLoad, l) ==
    [o \in Objs |-> IF o \in CpuObjs THEN cpuLoad[o]
                    ELSE IF children[o] = <<>> THEN objLoad[o]
                    ELSE SumOver(children[o], l) \div Len(children[o])]
ShareTurn(fired, s) ==
    [o \in Objs |-> (IF Parent[o] = NoObj THEN 0
                     ELSE s[Parent[o]] \div Len(children[Parent[o]]))
                    + SumOver(interrupts[o], fired)]

(* The same on the objects that are at least, or at most, so deep.         *)
AgreeFrom(d, l, m) == \A o \in Objs : depth[o] >= d => l[o] = m[o]
AgreeUpTo(d, l, m) == \A o \in Objs : depth[o] <= d => l[o] = m[o]

(* An object and its parent.                                               *)
LEMMA OneUp ==
    ASSUME NEW c \in Objs
    PROVE  /\ depth[c] \in 0..3
           /\ depth[c] = 0 => Parent[c] = NoObj
           /\ depth[c] # 0 => /\ Parent[c] \in Objs /\ Parent[c] # NoObj
                              /\ depth[Parent[c]] = depth[c] - 1
                              /\ Len(children[Parent[c]]) \in Nat \ {0}
<1>1. depth[c] \in 0..3
  BY Ranks
<1>2. ASSUME depth[c] # 0
      PROVE  /\ Parent[c] \in Objs /\ Parent[c] # NoObj
             /\ depth[Parent[c]] = depth[c] - 1
             /\ Len(children[Parent[c]]) \in Nat \ {0}
  <2>1. Parent[c] \in Objs /\ depth[Parent[c]] = depth[c] - 1 /\ Parent[c] # NoObj
    BY <1>2, PlacementAssumption
  <2>2. children[Parent[c]] \in Seq(Objs) /\ In(c, children[Parent[c]])
    BY <2>1, ChildrenAre
  <2>. DEFINE s == children[Parent[c]]
  <2>. HIDE DEF s
  <2>3. Len(s) \in Nat \ {0}
    BY <2>2 DEF In, s
  <2> QED
    BY <2>1, <2>3 DEF s
<1> QED
  BY <1>1, <1>2, PlacementAssumption

(* An object and its children.                                             *)
LEMMA OneDown ==
    ASSUME NEW o \in Objs
    PROVE  /\ children[o] \in Seq(Objs)
           /\ \A n \in DOMAIN children[o] :
                  children[o][n] \in Objs /\ depth[children[o][n]] = depth[o] + 1
<1>1. children[o] \in Seq(Objs) /\ \A c : In(c, children[o]) <=> c \in Objs /\ Parent[c] = o
  BY ChildrenAre
<1>2. ASSUME NEW n \in DOMAIN children[o]
      PROVE  children[o][n] \in Objs /\ depth[children[o][n]] = depth[o] + 1
  <2>. DEFINE c == children[o][n]
  <2>1. In(c, children[o])
    BY DEF In
  <2>. HIDE DEF c
  <2>2. c \in Objs /\ Parent[c] = o /\ o # NoObj
    BY <1>1, <2>1, PlacementAssumption
  <2>3. depth[c] \in 0..3 /\ depth[o] \in 0..3 /\ depth[o] = depth[c] - 1
    BY <2>2, OneUp
  <2> QED
    BY <2>2, <2>3 DEF c
<1> QED
  BY <1>1, <1>2

(* What is computed for an object depends on those below it.               *)
LEMMA LoadsAgree ==
    ASSUME NEW cpuLoad, NEW d \in Nat, NEW l, NEW m, AgreeFrom(d + 1, l, m)
    PROVE  AgreeFrom(d, LoadTurn(cpuLoad, l), LoadTurn(cpuLoad, m))
<1>. SUFFICES ASSUME NEW o \in Objs, depth[o] >= d
              PROVE  LoadTurn(cpuLoad, l)[o] = LoadTurn(cpuLoad, m)[o]
  BY DEF AgreeFrom
<1>. DEFINE s == children[o]
<1>1. depth[o] \in 0..3
  BY OneUp
<1>2. s \in Seq(Objs) /\ \A n \in DOMAIN s : s[n] \in Objs /\ depth[s[n]] = depth[o] + 1
  BY OneDown
<1>. HIDE DEF s
<1>3. \A n \in DOMAIN s : l[s[n]] = m[s[n]]
  BY <1>1, <1>2 DEF AgreeFrom
<1>4. SumOver(s, l) = SumOver(s, m)
  BY <1>2, <1>3, SumSame
<1> QED
  BY <1>4 DEF LoadTurn, s

(* compute_irq_branch_load_share comes to an end: the tree is four levels  *)
(* deep, and each object above the CPUs has the loads of its children.     *)
LEMMA LoadsExist ==
    ASSUME NEW cpuLoad
    PROVE  ObjLoads(cpuLoad) = LoadTurn(cpuLoad, ObjLoads(cpuLoad))
<1>. DEFINE l0 == [o \in Objs |-> 0]
            l1 == LoadTurn(cpuLoad, l0)
            l2 == LoadTurn(cpuLoad, l1)
            l3 == LoadTurn(cpuLoad, l2)
            l4 == LoadTurn(cpuLoad, l3)
            l5 == LoadTurn(cpuLoad, l4)
<1>1. AgreeFrom(4, l0, l1)
  <2>1. \A o \in Objs : ~(depth[o] >= 4)
    BY OneUp
  <2> QED
    BY <2>1 DEF AgreeFrom
<1>. HIDE DEF l0
<1>2. AgreeFrom(3, l1, l2)
  BY <1>1, LoadsAgree
<1>. HIDE DEF l1
<1>3. AgreeFrom(2, l2, l3)
  BY <1>2, LoadsAgree
<1>. HIDE DEF l2
<1>4. AgreeFrom(1, l3, l4)
  BY <1>3, LoadsAgree
<1>5. l4 = [o \in Objs |-> l4[o]] /\ l5 = [o \in Objs |-> l5[o]]
  BY DEF LoadTurn
<1>. HIDE DEF l3
<1>6. AgreeFrom(0, l4, l5)
  BY <1>4, LoadsAgree
<1>7. \A o \in Objs : l4[o] = l5[o]
  <2>1. \A o \in Objs : depth[o] >= 0
    BY OneUp
  <2> QED
    BY <1>6, <2>1 DEF AgreeFrom
<1>8. l4 = LoadTurn(cpuLoad, l4)
  BY <1>5, <1>7
<1>. HIDE DEF l4
<1>9. ObjLoads(cpuLoad) = CHOOSE l : l = LoadTurn(cpuLoad, l)
  BY DEF ObjLoads, LoadTurn
<1> QED
  BY <1>8, <1>9

(* The loads of the objects are numbers when those of the CPUs are.        *)
LEMMA LoadsAreNat ==
    ASSUME NEW cpuLoad, \A c \in CpuObjs : cpuLoad[c] \in Nat, objLoad \in [Objs -> Nat]
    PROVE  ObjLoads(cpuLoad) \in [Objs -> Nat]
<1>. DEFINE l == ObjLoads(cpuLoad)
<1>1. l = LoadTurn(cpuLoad, l)
  BY LoadsExist
<1>. HIDE DEF l
<1>. DEFINE From(d) == \A o \in Objs : depth[o] >= d => l[o] \in Nat
<1>2. ASSUME NEW d \in Nat, From(d + 1) PROVE From(d)
  <2>. SUFFICES ASSUME NEW o \in Objs, depth[o] >= d PROVE l[o] \in Nat
    OBVIOUS
  <2>. DEFINE s == children[o]
  <2>1. depth[o] \in 0..3
    BY OneUp
  <2>2. s \in Seq(Objs) /\ \A n \in DOMAIN s : s[n] \in Objs /\ depth[s[n]] = depth[o] + 1
    BY OneDown
  <2>3. l[o] = IF o \in CpuObjs THEN cpuLoad[o]
               ELSE IF s = <<>> THEN objLoad[o] ELSE SumOver(s, l) \div Len(s)
    BY <1>1 DEF LoadTurn
  <2>. HIDE DEF s
  <2>4. \A n \in DOMAIN s : l[s[n]] \in Nat
    BY <1>2, <2>1, <2>2
  <2>5. SumOver(s, l) \in Nat
    BY <2>2, <2>4, SumIsNat
  <2>6. s # <<>> => Len(s) \in Nat /\ Len(s) > 0
    BY <2>2
  <2>7. \A a, b \in Nat : b > 0 => a \div b \in Nat
    OBVIOUS
  <2> QED
    BY <2>3, <2>5, <2>6, <2>7
<1>3. From(4)
  <2>1. \A o \in Objs : ~(depth[o] >= 4)
    BY OneUp
  <2> QED
    BY <2>1
<1>. HIDE DEF From
<1>4. From(0)
  <2>1. From(3)
    BY <1>2, <1>3
  <2>2. From(2)
    BY <1>2, <2>1
  <2>3. From(1)
    BY <1>2, <2>2
  <2> QED
    BY <1>2, <2>3
<1>5. \A o \in Objs : l[o] \in Nat
  <2>1. \A o \in Objs : depth[o] >= 0
    BY OneUp
  <2> QED
    BY <1>4, <2>1 DEF From
<1>6. l = [o \in Objs |-> l[o]]
  BY <1>1 DEF LoadTurn
<1> QED
  BY <1>5, <1>6 DEF l

(* What fired on an object and above it depends on the objects above it.   *)
LEMMA SharesAgree ==
    ASSUME NEW fired, NEW d \in Int, NEW l, NEW m, AgreeUpTo(d, l, m)
    PROVE  AgreeUpTo(d + 1, ShareTurn(fired, l), ShareTurn(fired, m))
<1>. SUFFICES ASSUME NEW o \in Objs, depth[o] <= d + 1
              PROVE  ShareTurn(fired, l)[o] = ShareTurn(fired, m)[o]
  BY DEF AgreeUpTo
<1>1. depth[o] = 0 => Parent[o] = NoObj
  BY OneUp
<1>2. depth[o] # 0 => Parent[o] \in Objs /\ depth[Parent[o]] = depth[o] - 1 /\ depth[o] \in 0..3
  BY OneUp
<1>3. depth[o] # 0 => l[Parent[o]] = m[Parent[o]]
  BY <1>2 DEF AgreeUpTo
<1> QED
  BY <1>1, <1>3 DEF ShareTurn

(* get_parent_branch_irq_count_share comes to an end.                      *)
LEMMA SharesExist ==
    ASSUME NEW fired
    PROVE  Share(fired) = ShareTurn(fired, Share(fired))
<1>. DEFINE l0 == [o \in Objs |-> 0]
            l1 == ShareTurn(fired, l0)
            l2 == ShareTurn(fired, l1)
            l3 == ShareTurn(fired, l2)
            l4 == ShareTurn(fired, l3)
            l5 == ShareTurn(fired, l4)
<1>1. AgreeUpTo(-1, l0, l1)
  <2>1. \A o \in Objs : ~(depth[o] <= -1)
    BY OneUp
  <2> QED
    BY <2>1 DEF AgreeUpTo
<1>. HIDE DEF l0
<1>2. AgreeUpTo(0, l1, l2)
  <2>1. AgreeUpTo(-1 + 1, l1, l2)
    BY <1>1, SharesAgree
  <2> QED
    BY <2>1
<1>. HIDE DEF l1
<1>3. AgreeUpTo(1, l2, l3)
  <2>1. AgreeUpTo(0 + 1, l2, l3)
    BY <1>2, SharesAgree
  <2> QED
    BY <2>1
<1>. HIDE DEF l2
<1>4. AgreeUpTo(2, l3, l4)
  <2>1. AgreeUpTo(1 + 1, l3, l4)
    BY <1>3, SharesAgree
  <2> QED
    BY <2>1
<1>5. l4 = [o \in Objs |-> l4[o]] /\ l5 = [o \in Objs |-> l5[o]]
  BY DEF ShareTurn
<1>. HIDE DEF l3
<1>6. AgreeUpTo(3, l4, l5)
  <2>1. AgreeUpTo(2 + 1, l4, l5)
    BY <1>4, SharesAgree
  <2> QED
    BY <2>1
<1>7. \A o \in Objs : l4[o] = l5[o]
  <2>1. \A o \in Objs : depth[o] <= 3
    BY OneUp
  <2> QED
    BY <1>6, <2>1 DEF AgreeUpTo
<1>8. l4 = ShareTurn(fired, l4)
  BY <1>5, <1>7
<1>. HIDE DEF l4
<1>9. Share(fired) = CHOOSE s : s = ShareTurn(fired, s)
  BY DEF Share, ShareTurn
<1> QED
  BY <1>8, <1>9

(* What fired on the interrupts of an object is part of its share.         *)
LEMMA ShareCovers ==
    ASSUME NEW fired \in [Irqs -> Nat], \A o \in Objs : interrupts[o] \in Seq(Irqs), NEW o \in Objs
    PROVE  Share(fired)[o] \in Nat /\ SumOver(interrupts[o], fired) <= Share(fired)[o]
<1>. DEFINE s == Share(fired)
            on(x) == SumOver(interrupts[x], fired)
<1>1. s = ShareTurn(fired, s)
  BY SharesExist
<1>. HIDE DEF s
<1>2. ASSUME NEW x \in Objs PROVE on(x) \in Nat
  BY SumIsNat
<1>3. \A x \in Objs : s[x] = (IF Parent[x] = NoObj THEN 0
                              ELSE s[Parent[x]] \div Len(children[Parent[x]])) + on(x)
  BY <1>1 DEF ShareTurn
<1>. HIDE DEF on
<1>. DEFINE UpTo(d) == \A x \in Objs : depth[x] <= d => s[x] \in Nat /\ on(x) <= s[x]
<1>4. ASSUME NEW d \in Int, UpTo(d) PROVE UpTo(d + 1)
  <2>. SUFFICES ASSUME NEW x \in Objs, depth[x] <= d + 1 PROVE s[x] \in Nat /\ on(x) <= s[x]
    OBVIOUS
  <2>1. CASE depth[x] = 0
    BY <1>2, <1>3, <2>1, OneUp
  <2>2. CASE depth[x] # 0
    <3>1. Parent[x] \in Objs /\ depth[Parent[x]] <= d /\ Parent[x] # NoObj
      BY <2>2, OneUp
    <3>2. PICK a \in Nat, b \in Nat \ {0} : a = s[Parent[x]] /\ b = Len(children[Parent[x]])
      BY <1>4, <2>2, <3>1, OneUp
    <3>4. b \in Nat /\ b > 0
      OBVIOUS
    <3>3. a \div b \in Nat
      BY <3>4, DivNat
    <3> QED
      BY <1>2, <1>3, <3>1, <3>2, <3>3
  <2> QED
    BY <2>1, <2>2
<1>5. UpTo(-1)
  <2>1. \A x \in Objs : ~(depth[x] <= -1)
    BY OneUp
  <2> QED
    BY <2>1
<1>. HIDE DEF UpTo
<1>6. UpTo(3)
  <2>0. -1 + 1 = 0 /\ 0 + 1 = 1 /\ 1 + 1 = 2 /\ 2 + 1 = 3
    OBVIOUS
  <2>1. UpTo(0)
    BY <1>4, <1>5, <2>0
  <2>2. UpTo(1)
    BY <1>4, <2>0, <2>1
  <2>3. UpTo(2)
    BY <1>4, <2>0, <2>2
  <2> QED
    BY <1>4, <2>0, <2>3
<1>7. depth[o] <= 3
  BY OneUp
<1> QED
  BY <1>6, <1>7 DEF UpTo, s, on

(* An interrupt on the list of an object has no load when its object's are *)
(* cleared, and any has a number.                                          *)
LEMMA ClearedIs ==
    ASSUME load \in [Irqs -> Nat]
    PROVE  /\ Cleared \in [Irqs -> Nat]
           /\ \A i \in Irqs, o \in Objs : In(i, interrupts[o]) => Cleared[i] = 0
  BY DEF Cleared, On, ToSet, In

(* assign_load_slice gives the interrupts of an object no more load than   *)
(* the object has, those aside that would have had none.                   *)
LEMMA LoadsMeasured ==
    ASSUME Homed(World), load \in [Irqs -> Nat], NEW fired \in [Irqs -> Nat],
           NEW loads \in [Objs -> Nat]
    PROVE  LET l == IrqLoads(fired, loads)
           IN  /\ l \in [Irqs -> Nat]
               /\ \A o \in Objs :
                      SumOver(interrupts[o], [i \in Irqs |-> IF l[i] > 1 THEN l[i] ELSE 0])
                          <= loads[o]
<1>. DEFINE share == Share(fired)
            slice(o) == IF share[o] = 0 THEN 1 ELSE loads[o] \div share[o]
            l == IrqLoads(fired, loads)
<1>0. \A o \in Objs : o \in Lists /\ o # Rebalance
  BY PlacementAssumption DEF Lists
<1>1. \A o \in Objs : interrupts[o] \in Seq(Irqs)
  BY <1>0 DEF Homed, World
<1>2. \A o \in Objs : share[o] \in Nat /\ SumOver(interrupts[o], fired) <= share[o]
  BY <1>1, ShareCovers
<1>3. \A i \in Irqs, o \in Objs : In(i, interrupts[o]) <=> assigned_obj[i] = o
  BY <1>0 DEF Homed, World, Belongs
<1>4. \A i, o : i \in On(o) <=> In(i, interrupts[o])
  BY DEF On, ToSet, In
<1>5. ASSUME NEW i \in Irqs, NEW o \in Objs, In(i, interrupts[o])
      PROVE  l[i] = IF fired[i] * slice(o) = 0 THEN 1 ELSE fired[i] * slice(o)
  <2>1. (CHOOSE x \in Objs : i \in On(x)) = o
    BY <1>3, <1>4, <1>5
  <2> QED
    BY <1>4, <1>5, <2>1 DEF IrqLoads
<1>6. \A i \in Irqs : (\A o \in Objs : ~In(i, interrupts[o])) => l[i] = Cleared[i]
  BY <1>4 DEF IrqLoads
<1>7. l = [i \in Irqs |-> l[i]]
  BY DEF IrqLoads
<1>. HIDE DEF l, share
<1>8. ASSUME NEW o \in Objs PROVE /\ slice(o) \in Nat
                                     /\ \/ slice(o) * share[o] <= loads[o]
                                        \/ slice(o) = 1 /\ share[o] = 0
  <2>1. PICK a \in Nat, b \in Nat : a = loads[o] /\ b = share[o]
    BY <1>2
  <2>2. b # 0 => a \div b \in Nat /\ (a \div b) * b <= a
    BY <2>1
  <2> QED
    BY <2>1, <2>2
<1>. HIDE DEF slice
<1>9. ASSUME NEW o \in Objs, NEW i \in Irqs, In(i, interrupts[o])
      PROVE  /\ l[i] \in Nat
             /\ (IF l[i] > 1 THEN l[i] ELSE 0) <= slice(o) * fired[i]
  <2>1. PICK a \in Nat, b \in Nat : a = fired[i] /\ b = slice(o)
    BY <1>8
  <2>2. a * b \in Nat /\ a * b = b * a
    BY <2>1
  <2>3. l[i] = IF a * b = 0 THEN 1 ELSE a * b
    BY <1>5, <1>9, <2>1
  <2> QED
    BY <2>1, <2>2, <2>3
<1>10. l \in [Irqs -> Nat]
  <2>1. \A i \in Irqs : Cleared[i] \in Nat
    BY ClearedIs
  <2> QED
    BY <1>6, <1>7, <1>9, <2>1
<1>11. ASSUME NEW o \in Objs
       PROVE  SumOver(interrupts[o], [i \in Irqs |-> IF l[i] > 1 THEN l[i] ELSE 0]) <= loads[o]
  <2>. DEFINE s == interrupts[o]
              f == [i \in Irqs |-> IF l[i] > 1 THEN l[i] ELSE 0]
              c == slice(o)
  <2>1. s \in Seq(Irqs) /\ c \in Nat
    BY <1>1, <1>8
  <2>2. \A n \in DOMAIN s : s[n] \in Irqs /\ In(s[n], s)
    BY <2>1 DEF In
  <2>3. \A n \in DOMAIN s : f[s[n]] \in Nat /\ fired[s[n]] \in Nat /\ f[s[n]] <= c * fired[s[n]]
    BY <1>9, <1>10, <2>2
  <2>. HIDE DEF s, f, c
  <2>4. SumOver(s, f) <= c * SumOver(s, fired) /\ SumOver(s, fired) \in Nat
                                               /\ SumOver(s, f) \in Nat
    BY <2>1, <2>3, SumTimes, SumIsNat
  <2>5. PICK x \in Nat, y \in Nat, z \in Nat, a \in Nat :
            x = SumOver(s, f) /\ y = SumOver(s, fired) /\ z = share[o] /\ a = loads[o]
    BY <1>2, <2>4
  <2>6. x <= c * y /\ y <= z
    BY <1>2, <2>4, <2>5 DEF s
  <2>7. c * z <= a \/ (c = 1 /\ z = 0)
    BY <1>8, <2>5 DEF c
  <2>8. c * y <= c * z
    BY <2>1, <2>6
  <2>9. x <= a
    BY <2>1, <2>5, <2>6, <2>7, <2>8
  <2> QED
    BY <2>5, <2>9 DEF s, f
<1> QED
  BY <1>10, <1>11 DEF l

-----------------------------------------------------------------------------
(* The best object, and sorting                                            *)

(* What find_best_object has made of the first m objects of a list.        *)
Seen(i, s, m, f) ==
    /\ f = [best |-> f.best, least_irqs |-> f.least_irqs]
    /\ \/ f.best = NoObj /\ f.least_irqs = NoObj /\ \A n \in 1..m : ~Eligible(i, s[n])
       \/ /\ In(f.best, s) /\ Eligible(i, f.best) /\ f.best # NoObj
          /\ f.least_irqs # NoObj => In(f.least_irqs, s) /\ Eligible(i, f.least_irqs)

(* find_best_object finds an object that may have the interrupt, and none  *)
(* only when there is none.                                                *)
LEMMA BestIs ==
    ASSUME NEW w, NEW i, NEW s \in Seq(Objs)
    PROVE  IF BestObject(w, i, s) = NoObj THEN \A o : In(o, s) => ~Eligible(i, o)
           ELSE In(BestObject(w, i, s), s) /\ Eligible(i, BestObject(w, i, s))
<1>. DEFINE b == [best |-> NoObj, least_irqs |-> NoObj]
            k == <<"best", w, i>>
            f == Folded(k, b, s)
<1>1. BestObject(w, i, s) = IF f.least_irqs # NoObj THEN f.least_irqs ELSE f.best
  <2>1. FoldLeft(LAMBDA best, o : FindBestObject(w, i, best, o), b, s) = f
    BY BestLoop
  <2>. HIDE DEF f
  <2> QED
    BY <2>1 DEF BestObject
<1>. HIDE DEF k
<1>2. PICK acc : Turns(acc, k, b, s) /\ f = acc[Len(s)]
  BY FoldLeftSteps
<1>3. PICK z \in Nat : z = Len(s) /\ DOMAIN s = 1..z /\ \A n \in 1..z : s[n] \in Objs
  OBVIOUS
<1>4. acc[0] = b /\ \A n \in 1..z : acc[n] = FindBestObject(w, i, acc[n - 1], s[n])
  BY <1>2, <1>3 DEF Turns, Step, k
<1>. DEFINE T == {m \in 0..z : Seen(i, s, m, acc[m])}
<1>5. 0 \in T
  BY <1>4 DEF Seen
<1>6. ASSUME NEW m \in 1..z, m - 1 \in T PROVE m \in T
  <2>. DEFINE g == acc[m - 1]
              o == s[m]
  <2>1. /\ Seen(i, s, m - 1, g) /\ o \in Objs /\ o # NoObj /\ In(o, s)
        /\ acc[m] = FindBestObject(w, i, g, o) /\ m \in 0..z
    <3>1. o \in Objs /\ m \in DOMAIN s
      BY <1>3
    <3>2. o # NoObj
      BY <3>1, PlacementAssumption
    <3>3. acc[m] = FindBestObject(w, i, g, o)
      BY <1>4
    <3>4. In(o, s)
      BY <3>1 DEF In
    <3> QED
      BY <1>6, <3>1, <3>2, <3>3, <3>4
  <2>2. \A n \in 1..m : n = m \/ n \in 1..(m - 1)
    OBVIOUS
  <2>. DEFINE h == acc[m]
  <2>3. g = [best |-> g.best, least_irqs |-> g.least_irqs]
    BY <2>1 DEF Seen
  <2>4. \/ h = g /\ ~Eligible(i, o)
        \/ h = g /\ g.best # NoObj
        \/ (h = [best |-> o, least_irqs |-> NoObj] /\ Eligible(i, o))
        \/ (h = [best |-> g.best, least_irqs |-> o] /\ Eligible(i, o) /\ g.best # NoObj)
    BY <2>1, <2>3 DEF FindBestObject
  <2>. HIDE DEF g, h
  <2>5. Seen(i, s, m, h)
    <3>1. CASE h = g /\ ~Eligible(i, o)
      BY <2>1, <2>2, <3>1 DEF Seen
    <3>2. CASE h = g /\ g.best # NoObj
      BY <2>1, <3>2 DEF Seen
    <3>3. CASE h = [best |-> o, least_irqs |-> NoObj] /\ Eligible(i, o)
      BY <2>1, <3>3 DEF Seen
    <3>4. CASE h = [best |-> g.best, least_irqs |-> o] /\ Eligible(i, o) /\ g.best # NoObj
      BY <2>1, <3>4 DEF Seen
    <3> QED
      BY <2>4, <3>1, <3>2, <3>3, <3>4
  <2> QED
    BY <2>1, <2>5 DEF h
<1>7. z \in T
  <2>. HIDE DEF T
  <2> QED
    BY <1>5, <1>6, EveryTurn
<1>8. Seen(i, s, z, f)
  BY <1>2, <1>3, <1>7
<1>9. \A o : In(o, s) => \E n \in 1..z : s[n] = o
  BY <1>3 DEF In
<1>. HIDE DEF f
<1> QED
  BY <1>1, <1>8, <1>9 DEF Seen

(* The places and marks of w and v are the same.                           *)
SamePlaces(w, v) == v.at = w.at /\ v.moved = w.moved

(* sort_irq_list moves no interrupt to another list.                       *)
LEMMA SortKeepsHomes ==
    ASSUME NEW w, Homed(w), NEW l \in Lists
    PROVE  /\ Homed(SortIrqList(w, l)) /\ SamePlaces(w, SortIrqList(w, l))
           /\ SortIrqList(w, l).load = w.load
<1>1. /\ w = [on |-> w.on, at |-> w.at, moved |-> w.moved, load |-> w.load]
      /\ w.on \in [Lists -> Seq(Irqs)] /\ w.at \in [Irqs -> Objs \cup {NoObj}]
      /\ w.moved \in [Irqs -> BOOLEAN]
      /\ \A m \in Lists : NoRepeat(w.on[m])
      /\ \A i \in Irqs, m \in Lists : In(i, w.on[m]) <=> Belongs(i, w.at[i], m)
      /\ \A i \in Irqs : Level[i] = 0 => w.at[i] = NoObj
  BY DEF Homed
<1>. DEFINE t == Sort(Irqs, SortsAfter, w.on[l])
            v == SortIrqList(w, l)
<1>2. t \in Seq(Irqs) /\ NoRepeat(t) /\ \A x : In(x, t) <=> In(x, w.on[l])
  BY <1>1, SortKeeps DEF Shuffled
<1>3. v = [w EXCEPT !.on[l] = t]
  BY DEF SortIrqList
<1>. HIDE DEF t, v
<1>4. v = [on |-> [w.on EXCEPT ![l] = t], at |-> w.at, moved |-> w.moved, load |-> w.load]
  BY <1>1, <1>3
<1>5. v.on = [w.on EXCEPT ![l] = t] /\ v.at = w.at /\ v.moved = w.moved /\ v.load = w.load
  BY <1>4
<1>6. v.on \in [Lists -> Seq(Irqs)] /\ \A m \in Lists : v.on[m] = IF m = l THEN t ELSE w.on[m]
  BY <1>1, <1>2, <1>5
<1>7. v = [on |-> v.on, at |-> v.at, moved |-> v.moved, load |-> v.load]
  BY <1>4
<1>8. \A m \in Lists : NoRepeat(v.on[m])
  BY <1>1, <1>2, <1>6
<1>9. \A i \in Irqs, m \in Lists : In(i, v.on[m]) <=> Belongs(i, v.at[i], m)
  BY <1>1, <1>2, <1>5, <1>6
<1>10. Homed(v)
  BY <1>1, <1>5, <1>6, <1>7, <1>8, <1>9 DEF Homed
<1> QED
  BY <1>5, <1>10 DEF SamePlaces, v

-----------------------------------------------------------------------------
(* update_migration_status                                                 *)

(* An interrupt has kept its place and mark, or has lost the place and is  *)
(* marked; the loads of the objects are as they were.                      *)
Migrated(w0, w) ==
    /\ Homed(w) /\ w.load = w0.load
    /\ \A i \in Irqs : \/ w.at[i] = w0.at[i] /\ w.moved[i] = w0.moved[i]
                       \/ w.at[i] = NoObj /\ w.moved[i]

(* What two calls in turn do to the interrupts is of the same kind.        *)
LEMMA MigratedTwice ==
    ASSUME NEW u, NEW v, NEW w, Migrated(u, v), Migrated(v, w)
    PROVE  Migrated(u, w)
  BY DEF Migrated

(* What is on the list of an object has that object, and nothing twice.    *)
LEMMA ListOf ==
    ASSUME NEW w, Homed(w), NEW o \in Objs
    PROVE  /\ w.on[o] \in Seq(Irqs) /\ NoRepeat(w.on[o])
           /\ \A n \in DOMAIN w.on[o] : w.on[o][n] \in Irqs /\ w.at[w.on[o][n]] = o
<1>1. o \in Lists /\ o # Rebalance
  BY PlacementAssumption DEF Lists
<1>2. w.on[o] \in Seq(Irqs) /\ NoRepeat(w.on[o])
  BY <1>1 DEF Homed
<1>3. ASSUME NEW n \in DOMAIN w.on[o] PROVE w.on[o][n] \in Irqs /\ w.at[w.on[o][n]] = o
  <2>. DEFINE i == w.on[o][n]
  <2>1. i \in Irqs
    BY <1>2
  <2>2. In(i, w.on[o])
    BY DEF In
  <2>. HIDE DEF i
  <2>3. Belongs(i, w.at[i], o)
    BY <1>1, <2>1, <2>2 DEF Homed
  <2>4. w.at[i] = o
    BY <1>1, <2>3 DEF Belongs
  <2> QED
    BY <2>1, <2>4 DEF i
<1> QED
  BY <1>2, <1>3

(* force_irq_migration of an interrupt that has the object o.              *)
LEMMA GiveUpMigrates ==
    ASSUME NEW w, Homed(w), NEW i \in Irqs, NEW o \in Objs, w.at[i] = o
    PROVE  /\ Migrated(w, GiveUp(w, i)) /\ GiveUp(w, i).at[i] = NoObj
           /\ \A j \in Irqs : j # i => GiveUp(w, i).at[j] = w.at[j]
<1>1. o # NoObj
  BY PlacementAssumption
<1>2. /\ Homed(GiveUp(w, i)) /\ SameBut(w, i, GiveUp(w, i))
      /\ GiveUp(w, i).at[i] = NoObj /\ GiveUp(w, i).load = w.load
  BY <1>1, GiveUpKeeps
<1> QED
  BY <1>1, <1>2 DEF Migrated, SameBut

(* The loads move_candidate_irqs goes by, and the lists.                   *)
Going(g) == g = [w |-> g.w, adjustment_load |-> g.adjustment_load, min_load |-> g.min_load]

(* for_each_irq with move_candidate_irqs, on the list of an object.        *)
LEMMA CandidatesMigrate ==
    ASSUME NEW g, Going(g), Homed(g.w), NEW o \in Objs
    PROVE  LET h == FoldLeft(MoveCandidate, g, g.w.on[o])
           IN  Going(h) /\ Migrated(g.w, h.w)
<1>. DEFINE s == g.w.on[o]
            k == <<"move">>
<1>1. s \in Seq(Irqs) /\ NoRepeat(s) /\ \A n \in DOMAIN s : s[n] \in Irqs /\ g.w.at[s[n]] = o
  BY ListOf
<1>. HIDE DEF s
<1>2. FoldLeft(MoveCandidate, g, s) = Folded(k, g, s)
  BY <1>1, MoveLoop
<1>. HIDE DEF k
<1>3. PICK acc : Turns(acc, k, g, s) /\ Folded(k, g, s) = acc[Len(s)]
  BY <1>1, FoldLeftSteps
<1>4. PICK z \in Nat : z = Len(s) /\ DOMAIN s = 1..z
  BY <1>1
<1>5. acc[0] = g /\ \A n \in 1..z : acc[n] = MoveCandidate(acc[n - 1], s[n])
  BY <1>3, <1>4 DEF Turns, Step, k
<1>. DEFINE Good(m, h) ==
                Going(h) /\ Migrated(g.w, h.w) /\ \A n \in (m + 1)..z : h.w.at[s[n]] = o
            T == {m \in 0..z : Good(m, acc[m])}
<1>6. 0 \in T
  <2>1. Migrated(g.w, g.w)
    BY DEF Migrated
  <2> QED
    BY <1>1, <1>4, <1>5, <2>1
<1>7. ASSUME NEW m \in 1..z, m - 1 \in T PROVE m \in T
  <2>. DEFINE h == acc[m - 1]
              r == acc[m]
              i == s[m]
  <2>1. Good(m - 1, h) /\ m \in 0..z /\ m \in (m - 1 + 1)..z
    BY <1>7
  <2>2. r = MoveCandidate(h, i) /\ i \in Irqs /\ h.w.at[i] = o
    BY <1>1, <1>4, <1>5, <2>1
  <2>3. \A n \in (m + 1)..z : n \in (m - 1 + 1)..z /\ n # m /\ n \in 1..z
    OBVIOUS
  <2>4. \A n \in (m + 1)..z : h.w.at[s[n]] = o /\ s[n] # i /\ s[n] \in Irqs
    BY <1>1, <1>4, <2>1, <2>3 DEF NoRepeat
  <2>5. Going(h) /\ Migrated(g.w, h.w) /\ Homed(h.w)
    BY <2>1 DEF Migrated
  <2>6. CASE ~IsCandidate(h, i)
    <3>1. r = h
      BY <2>2, <2>6 DEF MoveCandidate
    <3> QED
      BY <2>1, <2>4, <2>5, <3>1
  <2>7. CASE IsCandidate(h, i)
    <3>1. r = [w |-> GiveUp(h.w, i), adjustment_load |-> h.adjustment_load - load[i],
               min_load |-> h.min_load + load[i]]
      BY <2>2, <2>7 DEF MoveCandidate
    <3>2. Going(r) /\ r.w = GiveUp(h.w, i)
      <4>. HIDE DEF r
      <4> QED
        BY <3>1 DEF Going
    <3>. HIDE DEF r, h, i
    <3>3. /\ Migrated(h.w, GiveUp(h.w, i))
          /\ \A j \in Irqs : j # i => GiveUp(h.w, i).at[j] = h.w.at[j]
      BY <2>2, <2>5, GiveUpMigrates
    <3>4. Migrated(g.w, r.w)
      BY <2>5, <3>2, <3>3, MigratedTwice
    <3>5. \A n \in (m + 1)..z : r.w.at[s[n]] = o
      BY <2>4, <3>2, <3>3
    <3> QED
      BY <2>1, <3>2, <3>4, <3>5 DEF r
  <2> QED
    BY <2>6, <2>7
<1>8. z \in T
  <2>. HIDE DEF T
  <2> QED
    BY <1>6, <1>7, EveryTurn
<1> QED
  BY <1>2, <1>3, <1>4, <1>8 DEF s

(* migrate_overloaded_irqs.                                                *)
LEMMA OverloadedMigrates ==
    ASSUME NEW g, Going(g), Homed(g.w), NEW o \in Objs
    PROVE  Going(MigrateOverloaded(g, o)) /\ Migrated(g.w, MigrateOverloaded(g, o).w)
<1>1. CASE objLoad[o] <= g.min_load \/ Len(g.w.on[o]) <= 1
  <2>1. MigrateOverloaded(g, o) = g
    BY <1>1 DEF MigrateOverloaded
  <2> QED
    BY <2>1 DEF Migrated
<1>2. CASE ~(objLoad[o] <= g.min_load \/ Len(g.w.on[o]) <= 1)
  <2>. DEFINE w == SortIrqList(g.w, o)
              h == [w |-> w, adjustment_load |-> objLoad[o], min_load |-> g.min_load]
  <2>1. MigrateOverloaded(g, o) = FoldLeft(MoveCandidate, h, w.on[o])
    BY <1>2 DEF MigrateOverloaded
  <2>2. Homed(w) /\ SamePlaces(g.w, w) /\ w.load = g.w.load
    <3>1. o \in Lists
      BY DEF Lists
    <3> QED
      BY <3>1, SortKeepsHomes
  <2>3. Going(h) /\ h.w = w
    <3>. HIDE DEF w
    <3> QED
      BY DEF Going
  <2>. HIDE DEF w, h
  <2>. DEFINE r == FoldLeft(MoveCandidate, h, h.w.on[o])
  <2>4. Going(r) /\ Migrated(h.w, r.w)
    BY <2>2, <2>3, CandidatesMigrate
  <2>. HIDE DEF r
  <2>5. Migrated(g.w, w)
    BY <2>2 DEF Migrated, SamePlaces
  <2>6. MigrateOverloaded(g, o) = r
    BY <2>1, <2>3 DEF r
  <2> QED
    BY <2>3, <2>4, <2>5, <2>6, MigratedTwice
<1> QED
  BY <1>1, <1>2

(* find_overloaded_objs.                                                   *)
LEMMA FindMigrates ==
    ASSUME NEW w, Homed(w), NEW s \in Seq(Objs)
    PROVE  Migrated(w, FindOverloaded(w, s))
<1>. DEFINE g == [w |-> w, adjustment_load |-> 0, min_load |-> MinLoad(s)]
            k == <<"over">>
<1>1. FoldLeft(MigrateOverloaded, g, s) = Folded(k, g, s)
  BY OverLoop
<1>. DEFINE f == Folded(k, g, s)
<1>2. FindOverloaded(w, s) = f.w
  <2>1. FoldLeft(MigrateOverloaded, g, s) = f
    BY <1>1
  <2>. HIDE DEF f
  <2> QED
    BY <2>1 DEF FindOverloaded
<1>3. Going(g) /\ g.w = w
  BY DEF Going
<1>. HIDE DEF k, g
<1>4. PICK acc : Turns(acc, k, g, s) /\ f = acc[Len(s)]
  BY FoldLeftSteps
<1>5. PICK z \in Nat : z = Len(s) /\ DOMAIN s = 1..z /\ \A n \in 1..z : s[n] \in Objs
  OBVIOUS
<1>6. acc[0] = g /\ \A n \in 1..z : acc[n] = MigrateOverloaded(acc[n - 1], s[n])
  BY <1>4, <1>5 DEF Turns, Step, k
<1>. DEFINE T == {m \in 0..z : Going(acc[m]) /\ Migrated(w, acc[m].w)}
<1>7. 0 \in T
  BY <1>3, <1>6 DEF Migrated
<1>8. ASSUME NEW m \in 1..z, m - 1 \in T PROVE m \in T
  <2>. DEFINE h == acc[m - 1]
              r == acc[m]
  <2>1. Going(h) /\ Migrated(w, h.w) /\ Homed(h.w) /\ m \in 0..z
    BY <1>8 DEF Migrated
  <2>2. r = MigrateOverloaded(h, s[m]) /\ s[m] \in Objs
    BY <1>5, <1>6
  <2>. HIDE DEF h, r
  <2>3. Going(r) /\ Migrated(h.w, r.w)
    BY <2>1, <2>2, OverloadedMigrates
  <2>4. Migrated(w, r.w)
    BY <2>1, <2>3, MigratedTwice
  <2> QED
    BY <2>1, <2>3, <2>4 DEF r
<1>9. z \in T
  <2>. HIDE DEF T
  <2> QED
    BY <1>7, <1>8, EveryTurn
<1> QED
  BY <1>2, <1>4, <1>5, <1>9

(* The CPU that goes to sleep is a CPU.                                    *)
LEMMA SleeperIs ==
    ASSUME EntersPowersave
    PROVE  Sleeper \in CpuObjs /\ Sleeper \in Objs
<1>1. CpuList \in Seq(Objs) /\ Drowsy \subseteq DOMAIN CpuList /\ Drowsy # {}
  BY PlacementAssumption DEF Drowsy, EntersPowersave
<1>2. Drowsy \subseteq Nat
  BY <1>1
<1>3. \E x \in Drowsy : \A y \in Drowsy : x <= y
  BY <1>1, <1>2, Least
<1>4. Min(Drowsy) \in Drowsy
  BY <1>3 DEF Min
<1> QED
  BY <1>1, <1>4 DEF Sleeper, CpuObjs, ToSet

(* Lines 162-166 of irqlist.c: every interrupt of the sleeper gives it up. *)
LEMMA EvictMigrates ==
    ASSUME NEW w, Homed(w)
    PROVE  /\ Migrated(w, EvictSleeper(w))
           /\ \A i \in Irqs :
                  IF EntersPowersave /\ w.at[i] = Sleeper THEN EvictSleeper(w).at[i] # Sleeper
                  ELSE EvictSleeper(w).at[i] = w.at[i]
<1>1. CASE ~EntersPowersave
  <2>1. EvictSleeper(w) = w
    BY <1>1 DEF EvictSleeper
  <2> QED
    BY <1>1, <2>1 DEF Migrated
<1>2. CASE EntersPowersave
  <2>. DEFINE o == Sleeper
              s == w.on[o]
              k == <<"giveup">>
              f == Folded(k, w, s)
  <2>1. o \in Objs
    BY <1>2, SleeperIs
  <2>. HIDE DEF o
  <2>2. s \in Seq(Irqs) /\ NoRepeat(s) /\ \A n \in DOMAIN s : s[n] \in Irqs /\ w.at[s[n]] = o
    BY <2>1, ListOf
  <2>3. \A i \in Irqs : w.at[i] = o => In(i, s)
    BY <2>1 DEF Homed, Belongs, Lists
  <2>4. EvictSleeper(w) = FoldLeft(GiveUp, w, s)
    BY <1>2 DEF EvictSleeper, o
  <2>. HIDE DEF s
  <2>5. EvictSleeper(w) = f
    BY <2>2, <2>4, GiveUpLoop
  <2>. HIDE DEF k
  <2>6. PICK acc : Turns(acc, k, w, s) /\ f = acc[Len(s)]
    BY <2>2, FoldLeftSteps
  <2>7. PICK z \in Nat : z = Len(s) /\ DOMAIN s = 1..z
    BY <2>2
  <2>8. acc[0] = w /\ \A n \in 1..z : acc[n] = GiveUp(acc[n - 1], s[n])
    BY <2>6, <2>7 DEF Turns, Step, k
  <2>. DEFINE Good(m, v) ==
                  /\ Migrated(w, v)
                  /\ \A j \in Irqs : w.at[j] # o => v.at[j] = w.at[j]
                  /\ \A n \in 1..z : v.at[s[n]] = IF n <= m THEN NoObj ELSE o
              T == {m \in 0..z : Good(m, acc[m])}
  <2>9. 0 \in T
    <3>1. Migrated(w, w)
      BY DEF Migrated
    <3> QED
      BY <2>2, <2>7, <2>8, <3>1
  <2>10. ASSUME NEW m \in 1..z, m - 1 \in T PROVE m \in T
    <3>. DEFINE u == acc[m - 1]
                v == acc[m]
                i == s[m]
    <3>1. Good(m - 1, u) /\ m \in 0..z
      BY <2>10
    <3>2. v = GiveUp(u, i) /\ i \in Irqs /\ ~(m <= m - 1)
      BY <2>2, <2>7, <2>8
    <3>3. u.at[i] = o
      BY <3>1, <3>2
    <3>4. Migrated(w, u) /\ Homed(u)
      BY <3>1 DEF Migrated
    <3>5. \A n \in 1..z : n # m => s[n] # i /\ s[n] \in Irqs /\ (n <= m <=> n <= m - 1)
      BY <2>2, <2>7 DEF NoRepeat
    <3>. HIDE DEF u, v, i
    <3>6. /\ Migrated(u, v) /\ v.at[i] = NoObj
          /\ \A j \in Irqs : j # i => v.at[j] = u.at[j]
      BY <2>1, <3>2, <3>3, <3>4, GiveUpMigrates
    <3>7. Migrated(w, v)
      BY <3>4, <3>6, MigratedTwice
    <3>8. ASSUME NEW n \in 1..z PROVE v.at[s[n]] = IF n <= m THEN NoObj ELSE o
      <4>1. CASE n = m
        BY <3>6, <4>1 DEF i
      <4>2. CASE n # m
        BY <3>1, <3>5, <3>6, <4>2
      <4> QED
        BY <4>1, <4>2
    <3>9. ASSUME NEW j \in Irqs, w.at[j] # o PROVE v.at[j] = w.at[j]
      <4>1. u.at[j] = w.at[j] /\ j # i
        BY <3>1, <3>3, <3>9
      <4> QED
        BY <3>6, <4>1
    <3> QED
      BY <3>1, <3>7, <3>8, <3>9 DEF v
  <2>11. z \in T
    <3>. HIDE DEF T
    <3> QED
      BY <2>9, <2>10, EveryTurn
  <2>12. Good(z, f)
    BY <2>6, <2>7, <2>11
  <2>13. ASSUME NEW i \in Irqs, w.at[i] = o PROVE f.at[i] # o
    <3>1. PICK n \in 1..z : s[n] = i
      BY <2>3, <2>7, <2>13 DEF In
    <3>2. f.at[i] = NoObj
      BY <2>12, <3>1
    <3> QED
      BY <2>1, <3>2, PlacementAssumption
  <2>14. \A i \in Irqs : w.at[i] # o => f.at[i] = w.at[i]
    BY <2>12
  <2> QED
    BY <1>2, <2>5, <2>12, <2>13, <2>14 DEF o
<1> QED
  BY <1>1, <1>2

(* The lists behind update_migration_status.                               *)
Freed == FindOverloaded(FindOverloaded(FindOverloaded(EvictSleeper(
             FindOverloaded(World, CpuList)), CacheList), PackageList), NodeList)

(* update_migration_status, and what it does to the CPU put to sleep.      *)
LEMMA StatusMigrates ==
    ASSUME Homed(World)
    PROVE  /\ Migrated(World, Freed)
           /\ EntersPowersave => \A i \in Irqs : Freed.at[i] # Sleeper
<1>. DEFINE w1 == FindOverloaded(World, CpuList)
            w2 == EvictSleeper(w1)
            w3 == FindOverloaded(w2, CacheList)
            w4 == FindOverloaded(w3, PackageList)
            w5 == FindOverloaded(w4, NodeList)
<1>0. /\ NodeList \in Seq(Objs) /\ PackageList \in Seq(Objs)
      /\ CacheList \in Seq(Objs) /\ CpuList \in Seq(Objs)
  BY PlacementAssumption
<1>1. Migrated(World, w1) /\ Homed(w1)
  BY <1>0, FindMigrates DEF Migrated
<1>. HIDE DEF w1
<1>2. Migrated(w1, w2) /\ Homed(w2) /\ (EntersPowersave => \A i \in Irqs : w2.at[i] # Sleeper)
  <2>1. /\ Migrated(w1, w2)
        /\ EntersPowersave => \A i \in Irqs : w1.at[i] = Sleeper => w2.at[i] # Sleeper
        /\ EntersPowersave => \A i \in Irqs : w1.at[i] # Sleeper => w2.at[i] = w1.at[i]
    BY <1>1, EvictMigrates
  <2> QED
    BY <2>1 DEF Migrated
<1>. HIDE DEF w2
<1>3. Migrated(w2, w3) /\ Homed(w3)
  BY <1>0, <1>2, FindMigrates DEF Migrated
<1>. HIDE DEF w3
<1>4. Migrated(w3, w4) /\ Homed(w4)
  BY <1>0, <1>3, FindMigrates DEF Migrated
<1>. HIDE DEF w4
<1>5. Migrated(w4, w5)
  BY <1>0, <1>4, FindMigrates
<1>6. Freed = w5
  BY DEF Freed, w5, w4, w3, w2, w1
<1>. HIDE DEF w5
<1>7. Migrated(w2, w5)
  BY <1>3, <1>4, <1>5, MigratedTwice
<1>8. Migrated(World, w5)
  BY <1>1, <1>2, <1>7, MigratedTwice
<1>9. ASSUME EntersPowersave, NEW i \in Irqs PROVE w5.at[i] # Sleeper
  <2>1. Sleeper # NoObj
    BY <1>9, SleeperIs, PlacementAssumption
  <2> QED
    BY <1>2, <1>7, <1>9, <2>1 DEF Migrated
<1> QED
  BY <1>6, <1>8, <1>9

-----------------------------------------------------------------------------
(* calculate_placement                                                     *)

(* What is marked keeps its mark, what is not keeps its place.             *)
Marked(w0, w) ==
    \A i \in Irqs : /\ w0.moved[i] => w.moved[i]
                    /\ ~w.moved[i] => w.at[i] = w0.at[i]

(* No interrupt is on a CPU that sleeps, below its level, or on a node     *)
(* that find_best_object or place_irq_in_node would have refused; the      *)
(* loads of the interrupts are numbers.                                    *)
Usable(o) == ~(NumaAvail /\ o = Unspecified) /\ Mask[o] \cap Unbanned # {}
Awake(w) == \A i \in Irqs : w.at[i] \in CpuObjs => ~powersave_mode[w.at[i]]
NotBelow(w) == \A i \in Irqs : w.at[i] # NoObj => depth[w.at[i]] <= Level[i]
OnUsable(w) == \A i \in Irqs : w.at[i] # NoObj /\ depth[w.at[i]] = 0 => Usable(w.at[i])
Loaded == load \in [Irqs -> Nat]
Rightly(w) == Homed(w) /\ Awake(w) /\ NotBelow(w) /\ OnUsable(w) /\ Loaded

(* The interrupt need not go down from o.                                  *)
Settled(i, o) == Level[i] = depth[o] \/ \A c : In(c, children[o]) => ~Eligible(i, c)

(* What a turn has to show of the interrupt it is about.                   *)
LEMMA RightlyAfter ==
    ASSUME NEW w, Rightly(w), NEW i \in Irqs, NEW v, Homed(v), SameBut(w, i, v),
           v.at[i] # w.at[i] =>
               /\ v.at[i] \in Objs /\ depth[v.at[i]] <= Level[i]
               /\ depth[v.at[i]] = 0 => Usable(v.at[i])
               /\ v.at[i] \in CpuObjs => ~powersave_mode[v.at[i]]
    PROVE  /\ Rightly(v)
           /\ \A w0 : Marked(w0, w) => Marked(w0, v)
<1>1. \A j \in Irqs : j # i => v.at[j] = w.at[j] /\ v.moved[j] = w.moved[j]
  BY DEF SameBut
<1>2. Awake(v)
  BY <1>1 DEF Rightly, Awake
<1>3. NotBelow(v)
  BY <1>1 DEF Rightly, NotBelow
<1>4. OnUsable(v)
  BY <1>1 DEF Rightly, OnUsable
<1>5. ASSUME NEW w0, Marked(w0, w) PROVE Marked(w0, v)
  <2>1. ASSUME NEW j \in Irqs
        PROVE  (w0.moved[j] => v.moved[j]) /\ (~v.moved[j] => v.at[j] = w0.at[j])
    <3>1. CASE j = i
      BY <1>5, <3>1 DEF Marked, SameBut
    <3>2. CASE j # i
      BY <1>1, <1>5, <3>2 DEF Marked
    <3> QED
      BY <3>1, <3>2
  <2> QED
    BY <2>1 DEF Marked
<1> QED
  BY <1>2, <1>3, <1>4, <1>5 DEF Rightly

(* What place_irq_in_node does to an interrupt without a place.            *)
NodeTurned(w, i, v) ==
    /\ Rightly(v) /\ SameBut(w, i, v) /\ \A w0 : Marked(w0, w) => Marked(w0, v)
    /\ v.at[i] # NoObj => v.at[i] \in Objs /\ depth[v.at[i]] = 0

(* place_irq_in_node: the node of the device, or the best, or none.        *)
LEMMA NodeTurn ==
    ASSUME NEW w, Rightly(w), NEW i \in Irqs, w.at[i] = NoObj, Level[i] # 0
    PROVE  NodeTurned(w, i, PlaceInNode(w, i))
<1>. DEFINE v == PlaceInNode(w, i)
<1>1. Homed(w) /\ Rebalance \in Lists /\ In(i, w.on[Rebalance]) /\ Level[i] \in 0..3
  BY PlacementAssumption DEF Rightly, Homed, Belongs, Lists
<1>6. load[i] \in Nat
  BY DEF Rightly, Loaded
<1>2. ASSUME NEW to \in Objs, NEW cost \in Nat, v = Assign(w, i, Rebalance, to, cost),
             depth[to] = 0, Usable(to)
      PROVE  NodeTurned(w, i, v)
  <2>. HIDE DEF v
  <2>1. to # Rebalance
    BY PlacementAssumption
  <2>2. Homed(v) /\ SameBut(w, i, v) /\ v.at[i] = to
    BY <1>1, <1>2, <2>1, AssignKeeps
  <2>3. to \notin CpuObjs
    BY <1>2, Ranks
  <2>4. depth[to] <= Level[i]
    BY <1>1, <1>2
  <2>5. Rightly(v) /\ \A w0 : Marked(w0, w) => Marked(w0, v)
    BY <1>2, <2>2, <2>3, <2>4, RightlyAfter
  <2> QED
    BY <1>2, <2>2, <2>5 DEF NodeTurned
<1>3. ASSUME v = w
      PROVE  NodeTurned(w, i, v)
  BY <1>3 DEF NodeTurned, SameBut
<1>4. CASE Home[i] # Unspecified /\ Mask[Home[i]] \cap Unbanned # {}
  <2>1. v = Assign(w, i, Rebalance, Home[i], load[i] + 1)
    BY <1>4 DEF PlaceInNode
  <2>2. Home[i] \in Objs /\ In(Home[i], NodeList)
    BY PlacementAssumption DEF Objs, ToSet, In
  <2>3. depth[Home[i]] = 0
    BY <2>2, Ranks
  <2>4. Usable(Home[i])
    BY <1>4 DEF Usable
  <2> QED
    BY <1>2, <1>6, <2>1, <2>2, <2>3, <2>4
<1>5. CASE ~(Home[i] # Unspecified /\ Mask[Home[i]] \cap Unbanned # {})
  <2>. DEFINE b == BestObject(w, i, NodeList)
  <2>1. v = Assign(w, i, Rebalance, b, load[i])
    BY <1>5 DEF PlaceInNode
  <2>2. CASE b = NoObj
    BY <1>3, <2>1, <2>2 DEF Assign
  <2>3. CASE b # NoObj
    <3>1. In(b, NodeList) /\ Eligible(i, b)
      BY <2>3, BestIs, PlacementAssumption
    <3>2. b \in Objs
      BY <3>1, PlacementAssumption DEF In
    <3>. HIDE DEF b
    <3>3. depth[b] = 0 /\ Usable(b)
      BY <3>1, <3>2, Ranks DEF Eligible, Usable
    <3> QED
      BY <1>2, <1>6, <2>1, <3>2, <3>3
  <2> QED
    BY <2>2, <2>3
<1> QED
  BY <1>4, <1>5

(* The first loop: what is placed is on a node.                            *)
LEMMA NodesPlaced ==
    ASSUME NEW w0, Rightly(w0)
    PROVE  LET sorted == SortIrqList(w0, Rebalance)
               v      == FoldLeft(PlaceInNode, sorted, sorted.on[Rebalance])
           IN  /\ Rightly(v) /\ Marked(w0, v)
               /\ \A i \in Irqs : v.at[i] # w0.at[i] => v.at[i] \in Objs /\ depth[v.at[i]] = 0
<1>. DEFINE w == SortIrqList(w0, Rebalance)
            s == w.on[Rebalance]
            k == <<"node">>
<1>1. Rebalance \in Lists
  BY DEF Lists
<1>2. Homed(w) /\ w.at = w0.at /\ w.moved = w0.moved
  BY <1>1, SortKeepsHomes DEF SamePlaces, Rightly
<1>. HIDE DEF w
<1>3. Rightly(w) /\ Marked(w0, w)
  BY <1>2 DEF Rightly, Awake, NotBelow, OnUsable, Marked
<1>4. s \in Seq(Irqs) /\ NoRepeat(s)
  BY <1>1, <1>2 DEF Homed
<1>5. ASSUME NEW n \in DOMAIN s PROVE s[n] \in Irqs /\ w.at[s[n]] = NoObj /\ Level[s[n]] # 0
  <2>1. s[n] \in Irqs /\ In(s[n], s)
    BY <1>4 DEF In
  <2>2. Belongs(s[n], w.at[s[n]], Rebalance)
    BY <1>1, <1>2, <2>1 DEF Homed
  <2>3. w.at[s[n]] # Rebalance
    BY <1>2, <2>1, PlacementAssumption DEF Homed
  <2> QED
    BY <2>1, <2>2, <2>3 DEF Belongs
<1>. HIDE DEF s
<1>. DEFINE f == Folded(k, w, s)
<1>6. FoldLeft(PlaceInNode, w, s) = f
  BY <1>4, NodeLoop
<1>. HIDE DEF k
<1>7. PICK acc : Turns(acc, k, w, s) /\ f = acc[Len(s)]
  BY <1>4, FoldLeftSteps
<1>8. PICK z \in Nat : z = Len(s) /\ DOMAIN s = 1..z
  BY <1>4
<1>9. acc[0] = w /\ \A n \in 1..z : acc[n] = PlaceInNode(acc[n - 1], s[n])
  BY <1>7, <1>8 DEF Turns, Step, k
<1>. DEFINE Good(m, v) ==
                /\ Rightly(v) /\ Marked(w0, v)
                /\ \A n \in (m + 1)..z : v.at[s[n]] = NoObj
                /\ \A i \in Irqs : v.at[i] # w0.at[i] => v.at[i] \in Objs /\ depth[v.at[i]] = 0
            T == {m \in 0..z : Good(m, acc[m])}
<1>10. 0 \in T
  BY <1>2, <1>3, <1>5, <1>8, <1>9
<1>11. ASSUME NEW m \in 1..z, m - 1 \in T PROVE m \in T
  <2>. DEFINE u == acc[m - 1]
              v == acc[m]
              i == s[m]
  <2>1. Good(m - 1, u) /\ m \in 0..z /\ m \in (m - 1 + 1)..z
    BY <1>11
  <2>2. v = PlaceInNode(u, i) /\ i \in Irqs /\ u.at[i] = NoObj /\ Level[i] # 0 /\ w0.at[i] = NoObj
    BY <1>2, <1>5, <1>8, <1>9, <2>1
  <2>3. \A n \in (m + 1)..z : n \in (m - 1 + 1)..z /\ n # m /\ n \in 1..z
    OBVIOUS
  <2>4. \A n \in (m + 1)..z : u.at[s[n]] = NoObj /\ s[n] # i /\ s[n] \in Irqs
    BY <1>4, <1>5, <1>8, <2>1, <2>3 DEF NoRepeat
  <2>. HIDE DEF u, v, i
  <2>5. NodeTurned(u, i, v)
    BY <2>1, <2>2, NodeTurn
  <2>6. Rightly(v) /\ SameBut(u, i, v)
    BY <2>5 DEF NodeTurned
  <2>7. Marked(w0, v)
    BY <2>1, <2>5 DEF NodeTurned
  <2>8. v.at[i] # NoObj => v.at[i] \in Objs /\ depth[v.at[i]] = 0
    BY <2>5 DEF NodeTurned
  <2>9. \A j \in Irqs : j # i => v.at[j] = u.at[j]
    BY <2>6 DEF SameBut
  <2>10. \A n \in (m + 1)..z : v.at[s[n]] = NoObj
    BY <2>4, <2>9
  <2>11. \A j \in Irqs : v.at[j] # w0.at[j] => v.at[j] \in Objs /\ depth[v.at[j]] = 0
    BY <2>1, <2>2, <2>8, <2>9
  <2> QED
    BY <2>1, <2>6, <2>7, <2>10, <2>11 DEF v
<1>12. z \in T
  <2>. HIDE DEF T
  <2> QED
    BY <1>10, <1>11, EveryTurn
<1>13. Good(z, f)
  BY <1>7, <1>8, <1>12
<1> QED
  BY <1>6, <1>13 DEF s, w

(* What find_best_object_for_irq does to an interrupt of the object o: it  *)
(* stays, because it has not moved or need not go down, or goes one down.  *)
BelowTurned(w, i, o, v) ==
    /\ Rightly(v) /\ SameBut(w, i, v) /\ \A w0 : Marked(w0, w) => Marked(w0, v)
    /\ \/ v.at[i] = o /\ (~v.moved[i] \/ Settled(i, o))
       \/ v.at[i] \in Objs /\ depth[v.at[i]] = depth[o] + 1

(* find_best_object_for_irq: the best of the children, or none.            *)
LEMMA BelowTurn ==
    ASSUME NEW w, Rightly(w), NEW i \in Irqs, NEW o \in Objs, w.at[i] = o
    PROVE  BelowTurned(w, i, o, PlaceBelow(w, i, o))
<1>. DEFINE v == PlaceBelow(w, i, o)
            b == BestObject(w, i, children[o])
<1>1. /\ Homed(w) /\ o \in Lists /\ In(i, w.on[o]) /\ o # NoObj
      /\ Level[i] # 0 /\ Level[i] \in 0..3 /\ depth[o] \in 0..3 /\ depth[o] <= Level[i]
  <2>1. Homed(w) /\ o \in Lists /\ o # NoObj /\ Level[i] \in 0..3 /\ depth[o] \in 0..3
    BY PlacementAssumption, Ranks DEF Rightly, Lists
  <2>2. In(i, w.on[o]) /\ Level[i] # 0
    BY <2>1 DEF Homed, Belongs
  <2>3. depth[o] <= Level[i]
    BY <2>1 DEF Rightly, NotBelow
  <2> QED
    BY <2>1, <2>2, <2>3
<1>2. ASSUME v = w, ~w.moved[i] \/ Settled(i, o) PROVE BelowTurned(w, i, o, v)
  BY <1>2 DEF BelowTurned, SameBut
<1>3. CASE ~w.moved[i] \/ Level[i] = depth[o]
  <2>1. v = w
    BY <1>3 DEF PlaceBelow
  <2>2. ~w.moved[i] \/ Settled(i, o)
    BY <1>3 DEF Settled
  <2> QED
    BY <1>2, <2>1, <2>2
<1>4. CASE ~(~w.moved[i] \/ Level[i] = depth[o])
  <2>1. v = Assign(w, i, o, b, load[i])
    BY <1>4 DEF PlaceBelow
  <2>2. children[o] \in Seq(Objs) /\ \A c : In(c, children[o]) <=> c \in Objs /\ Parent[c] = o
    BY ChildrenAre
  <2>3. IF b = NoObj THEN \A c : In(c, children[o]) => ~Eligible(i, c)
        ELSE In(b, children[o]) /\ Eligible(i, b)
    BY <2>2, BestIs
  <2>4. CASE b = NoObj
    <3>1. v = w
      BY <2>1, <2>4 DEF Assign
    <3>2. Settled(i, o)
      BY <2>3, <2>4 DEF Settled
    <3> QED
      BY <1>2, <3>1, <3>2
  <2>5. CASE b # NoObj
    <3>1. b \in Objs /\ Parent[b] = o /\ Eligible(i, b)
      BY <2>2, <2>3, <2>5
    <3>. HIDE DEF b
    <3>2. depth[b] \in 0..3 /\ depth[b] = depth[o] + 1
      <4>1. depth[b] \in 0..3
        BY <3>1, Ranks
      <4>2. depth[b] # 0
        BY <1>1, <3>1, PlacementAssumption
      <4>3. depth[o] = depth[b] - 1
        BY <3>1, <4>2, PlacementAssumption
      <4> QED
        BY <4>1, <4>3
    <3>3. b # o
      BY <1>1, <3>2
    <3>. DEFINE u == Assign(w, i, o, b, load[i])
    <3>. HIDE DEF u
    <3>9. load[i] \in Nat
      BY DEF Rightly, Loaded
    <3>4. Homed(u) /\ SameBut(w, i, u) /\ u.at[i] = b
      BY <3>9, <1>1, <3>1, <3>3, AssignKeeps DEF u
    <3>5. depth[b] <= Level[i] /\ depth[b] # 0
      BY <1>1, <1>4, <3>2
    <3>6. b \in CpuObjs => ~powersave_mode[b]
      BY <3>1 DEF Eligible
    <3>7. Rightly(u) /\ \A w0 : Marked(w0, w) => Marked(w0, u)
      BY <3>1, <3>4, <3>5, <3>6, RightlyAfter
    <3>8. BelowTurned(w, i, o, u)
      BY <3>1, <3>2, <3>4, <3>7 DEF BelowTurned
    <3> QED
      BY <2>1, <3>8 DEF u
  <2> QED
    BY <2>4, <2>5
<1> QED
  BY <1>3, <1>4

(* An interrupt that has gone to o need not go down, or o is one of the    *)
(* objects behind the first n and has its turn yet.                        *)
Ready(i, o, n) == Settled(i, o) \/ \E m \in (n + 1)..Len(Above) : o = Above[m]
Underway(w0, w, n) ==
    \A i \in Irqs : w.at[i] # w0.at[i] => w.at[i] \in Objs /\ Ready(i, w.at[i], n)

(* place_irq_in_object: o is done with.                                    *)
LEMMA ObjectTurn ==
    ASSUME NEW w0, NEW w, Rightly(w), Marked(w0, w), NEW n \in 1..Len(Above),
           Underway(w0, w, n - 1)
    PROVE  LET v == PlaceInObject(w, Above[n])
           IN  Rightly(v) /\ Marked(w0, v) /\ Underway(w0, v, n)
<1>. DEFINE o == Above[n]
            s == w.on[o]
            k == <<"below", o>>
            f == Folded(k, w, s)
<1>1. Above \in Seq(Objs) /\ o \in Objs /\ Len(Above) \in Nat /\ n \in Nat /\ In(o, Above)
  <2>1. Above \in Seq(Objs) /\ n \in DOMAIN Above
    BY Ranks
  <2> QED
    BY <2>1 DEF In
<1>. HIDE DEF o
<1>2. Homed(w)
  BY DEF Rightly
<1>3. s \in Seq(Irqs) /\ NoRepeat(s) /\ \A m \in DOMAIN s : s[m] \in Irqs /\ w.at[s[m]] = o
  BY <1>1, <1>2, ListOf
<1>4. \A i \in Irqs : w.at[i] = o => In(i, s)
  BY <1>1, <1>2 DEF Homed, Belongs, Lists
<1>5. PlaceInObject(w, o) = FoldLeft(LAMBDA u, i : PlaceBelow(u, i, o), w, s)
  BY DEF PlaceInObject
<1>. HIDE DEF s
<1>6. PlaceInObject(w, o) = f
  BY <1>3, <1>5, BelowLoop
<1>. HIDE DEF k
<1>7. PICK acc : Turns(acc, k, w, s) /\ f = acc[Len(s)]
  BY <1>3, FoldLeftSteps
<1>8. PICK z \in Nat : z = Len(s) /\ DOMAIN s = 1..z
  BY <1>3
<1>9. acc[0] = w /\ \A m \in 1..z : acc[m] = PlaceBelow(acc[m - 1], s[m], o)
  BY <1>7, <1>8 DEF Turns, Step, k
<1>. DEFINE Good(m, v) ==
                /\ Rightly(v) /\ Marked(w0, v)
                /\ \A j \in (m + 1)..z : v.at[s[j]] = o
                /\ \A i \in Irqs : v.at[i] # w0.at[i] =>
                       /\ v.at[i] \in Objs
                       /\ Ready(i, v.at[i], n) \/ \E j \in (m + 1)..z : s[j] = i
            T == {m \in 0..z : Good(m, acc[m])}
<1>10. 0 \in T
  <2>1. ASSUME NEW i \in Irqs, w.at[i] # w0.at[i]
        PROVE  w.at[i] \in Objs /\ (Ready(i, w.at[i], n) \/ \E j \in (0 + 1)..z : s[j] = i)
    <3>1. w.at[i] \in Objs /\ Ready(i, w.at[i], n - 1)
      BY <2>1 DEF Underway
    <3>2. CASE w.at[i] = o
      BY <1>4, <1>8, <3>1, <3>2 DEF In
    <3>3. CASE w.at[i] # o
      <4>1. \A m \in (n - 1 + 1)..Len(Above) : m = n \/ m \in (n + 1)..Len(Above)
        BY <1>1
      <4> QED
        BY <3>1, <3>3, <4>1 DEF Ready, o
    <3> QED
      BY <3>2, <3>3
  <2>2. \A j \in (0 + 1)..z : w.at[s[j]] = o
    BY <1>3, <1>8
  <2>3. Good(0, w)
    BY <2>1, <2>2
  <2> QED
    BY <1>9, <2>3
<1>11. ASSUME NEW m \in 1..z, m - 1 \in T PROVE m \in T
  <2>. DEFINE u == acc[m - 1]
              v == acc[m]
              i == s[m]
  <2>1. Good(m - 1, u) /\ m \in 0..z /\ m \in (m - 1 + 1)..z
    BY <1>11
  <2>2. v = PlaceBelow(u, i, o) /\ i \in Irqs /\ u.at[i] = o
    BY <1>3, <1>8, <1>9, <2>1
  <2>3. \A j \in (m + 1)..z : j \in (m - 1 + 1)..z /\ j # m /\ j \in 1..z
    OBVIOUS
  <2>4. \A j \in (m + 1)..z : u.at[s[j]] = o /\ s[j] # i /\ s[j] \in Irqs
    BY <1>3, <1>8, <2>1, <2>3 DEF NoRepeat
  <2>5. \A j \in (m - 1 + 1)..z : j = m \/ j \in (m + 1)..z
    OBVIOUS
  <2>6. \A h \in Irqs : (\E j \in (m - 1 + 1)..z : s[j] = h)
                            => h = i \/ \E j \in (m + 1)..z : s[j] = h
    BY <2>5
  <2>. HIDE DEF u, v, i
  <2>7. BelowTurned(u, i, o, v)
    BY <1>1, <2>1, <2>2, BelowTurn
  <2>8. Rightly(v) /\ SameBut(u, i, v) /\ Marked(w0, v)
    BY <2>1, <2>7 DEF BelowTurned
  <2>9. \A h \in Irqs : h # i => v.at[h] = u.at[h]
    BY <2>8 DEF SameBut
  <2>10. \A j \in (m + 1)..z : v.at[s[j]] = o
    BY <2>4, <2>9
  <2>11. v.at[i] # w0.at[i] => v.at[i] \in Objs /\ Ready(i, v.at[i], n)
    <3>1. CASE v.at[i] = o /\ ~v.moved[i]
      BY <2>2, <2>8, <3>1 DEF Marked
    <3>2. CASE v.at[i] = o /\ Settled(i, o)
      BY <1>1, <3>2 DEF Ready
    <3>3. CASE v.at[i] \in Objs /\ depth[v.at[i]] = depth[o] + 1
      <4>. DEFINE b == v.at[i]
      <4>1. b \in Objs /\ depth[b] = depth[o] + 1
        BY <3>3
      <4>2. b # NoObj /\ Level[i] \in 0..3 /\ depth[b] \in 0..3 /\ depth[o] \in 0..3
        BY <1>1, <2>2, <4>1, PlacementAssumption, Ranks
      <4>3. depth[b] <= Level[i]
        BY <2>2, <2>8, <4>2 DEF Rightly, NotBelow
      <4>. HIDE DEF b
      <4>4. CASE depth[b] = 3
        <5>1. Level[i] = depth[b]
          BY <4>2, <4>3, <4>4
        <5> QED
          BY <4>1, <5>1 DEF Ready, Settled, b
      <4>5. CASE depth[b] # 3
        <5>1. In(b, Above)
          BY <4>1, <4>5, Ranks
        <5>2. PICK l \in 1..Len(Above) : Above[l] = b
          BY <1>1, <5>1 DEF In
        <5>3. l <= n => depth[Above[l]] <= depth[Above[n]]
          BY Ranks
        <5>4. ~(l <= n)
          BY <4>1, <4>2, <5>2, <5>3 DEF o
        <5>5. l \in (n + 1)..Len(Above)
          BY <1>1, <5>4
        <5> QED
          BY <4>1, <5>2, <5>5 DEF Ready, b
      <4> QED
        BY <4>4, <4>5
    <3> QED
      BY <2>7, <3>1, <3>2, <3>3 DEF BelowTurned
  <2>12. \A h \in Irqs : v.at[h] # w0.at[h] =>
                       /\ v.at[h] \in Objs
                       /\ Ready(h, v.at[h], n) \/ \E j \in (m + 1)..z : s[j] = h
    BY <2>1, <2>6, <2>9, <2>11
  <2> QED
    BY <2>1, <2>8, <2>10, <2>12 DEF v
<1>12. z \in T
  <2>. HIDE DEF T
  <2> QED
    BY <1>10, <1>11, EveryTurn
<1>13. Good(z, f)
  BY <1>7, <1>8, <1>12
<1>14. \A j : j \notin (z + 1)..z
  OBVIOUS
<1>15. Underway(w0, f, n)
  BY <1>13, <1>14 DEF Underway
<1> QED
  BY <1>6, <1>13, <1>15 DEF o

(* The lists behind calculate_placement.                                   *)
Placed == LET sorted == SortIrqList(World, Rebalance)
              inNode == FoldLeft(PlaceInNode, sorted, sorted.on[Rebalance])
          IN  IF interrupts[Rebalance] = <<>> THEN World ELSE PlaceInObjects(inNode, Above)

(* calculate_placement: who moves arrives where nothing is below it.       *)
LEMMA PlacementPlaces ==
    ASSUME Rightly(World)
    PROVE  /\ Rightly(Placed) /\ Marked(World, Placed)
           /\ \A i \in Irqs : Placed.at[i] # World.at[i] =>
                                  Placed.at[i] \in Objs /\ Settled(i, Placed.at[i])
<1>. DEFINE w0 == World
<1>. HIDE DEF w0
<1>1. CASE interrupts[Rebalance] = <<>>
  <2>1. Placed = w0
    BY <1>1 DEF Placed, w0
  <2>2. Rightly(w0)
    BY DEF w0
  <2>3. Marked(w0, w0)
    <3>. HIDE DEF w0
    <3> QED
      BY DEF Marked
  <2> QED
    BY <2>1, <2>2, <2>3 DEF w0
<1>2. CASE interrupts[Rebalance] # <<>>
  <2>. DEFINE sorted == SortIrqList(w0, Rebalance)
              w == FoldLeft(PlaceInNode, sorted, sorted.on[Rebalance])
  <2>1. Rightly(w0)
    BY DEF w0
  <2>2. /\ Rightly(w) /\ Marked(w0, w)
        /\ \A i \in Irqs : w.at[i] # w0.at[i] => w.at[i] \in Objs /\ depth[w.at[i]] = 0
    BY <2>1, NodesPlaced
  <2>3. Placed = PlaceInObjects(w, Above)
    BY <1>2 DEF Placed, w0
  <2>. HIDE DEF w
  <2>. DEFINE k == <<"object">>
              f == Folded(k, w, Above)
  <2>4. Above \in Seq(Objs)
    BY Ranks
  <2>5. Placed = f
    BY <2>3, <2>4, ObjectLoop
  <2>. HIDE DEF k
  <2>6. PICK acc : Turns(acc, k, w, Above) /\ f = acc[Len(Above)]
    BY <2>4, FoldLeftSteps
  <2>7. PICK z \in Nat : z = Len(Above) /\ DOMAIN Above = 1..z
    BY <2>4
  <2>8. acc[0] = w /\ \A m \in 1..z : acc[m] = PlaceInObject(acc[m - 1], Above[m])
    BY <2>6, <2>7 DEF Turns, Step, k
  <2>9. Underway(w0, w, 0)
    <3>1. ASSUME NEW i \in Irqs, w.at[i] # w0.at[i]
          PROVE  w.at[i] \in Objs /\ Ready(i, w.at[i], 0)
      <4>1. w.at[i] \in Objs /\ depth[w.at[i]] # 3
        BY <2>2, <3>1
      <4>2. In(w.at[i], Above)
        BY <4>1, Ranks
      <4>3. \A m \in 1..z : m \in (0 + 1)..Len(Above)
        BY <2>7
      <4> QED
        BY <2>7, <4>1, <4>2, <4>3 DEF Ready, In
    <3> QED
      BY <3>1 DEF Underway
  <2>. DEFINE Good(m, v) == Rightly(v) /\ Marked(w0, v) /\ Underway(w0, v, m)
              T == {m \in 0..z : Good(m, acc[m])}
  <2>10. 0 \in T
    BY <2>2, <2>8, <2>9
  <2>11. ASSUME NEW m \in 1..z, m - 1 \in T PROVE m \in T
    <3>. DEFINE u == acc[m - 1]
                v == acc[m]
    <3>1. Good(m - 1, u) /\ m \in 0..z /\ m \in 1..Len(Above)
      BY <2>7, <2>11
    <3>2. v = PlaceInObject(u, Above[m])
      BY <2>8
    <3>. HIDE DEF u, v
    <3>3. Good(m, v)
      BY <3>1, <3>2, ObjectTurn
    <3> QED
      BY <3>1, <3>3 DEF v
  <2>12. z \in T
    <3>. HIDE DEF T
    <3> QED
      BY <2>10, <2>11, EveryTurn
  <2>13. Good(z, f)
    BY <2>6, <2>7, <2>12
  <2>14. \A m : m \notin (z + 1)..Len(Above)
    BY <2>7
  <2>15. \A i \in Irqs : f.at[i] # w0.at[i] => f.at[i] \in Objs /\ Settled(i, f.at[i])
    BY <2>13, <2>14 DEF Underway, Ready
  <2> QED
    BY <2>5, <2>13, <2>15 DEF w0
<1> QED
  BY <1>1, <1>2

-----------------------------------------------------------------------------
(* The invariants                                                          *)

(* At the start, every interrupt that may be balanced is on the rebalance  *)
(* list, once.                                                             *)
LEMMA StartsHomed ==
    ASSUME Init
    PROVE  Rightly(World)
<1>. DEFINE S == {i \in Irqs : Level[i] # 0}
            s == SetToSeq(S)
<1>1. IsFiniteSet(S) /\ Cardinality(S) \in Nat
  BY PlacementAssumption, FS_Subset, FS_CardinalityType
<1>2. \E f \in [1..Cardinality(S) -> S] : IsInjective(f)
  BY <1>1, FS_CardinalityType DEF ExistsBijection, Bijection, Injection
<1>3. s \in [1..Cardinality(S) -> S] /\ IsInjective(s)
  BY <1>2 DEF SetToSeq
<1>4. \A i \in S : \E n \in 1..Cardinality(S) : s[n] = i
  <2>. DEFINE D == 1..Cardinality(S)
  <2>1. IsFiniteSet(D) /\ Cardinality(D) = Cardinality(S)
    BY <1>1, FS_Interval
  <2>2. s \in Injection(D, S)
    BY <1>3 DEF Injection
  <2>. HIDE DEF D, S, s
  <2>3. s \in Surjection(D, S)
    BY <1>1, <2>1, <2>2, FS_Injection
  <2> QED
    BY <2>3 DEF Surjection, D
<1>5. s \in Seq(Irqs) /\ NoRepeat(s) /\ \A i : In(i, s) <=> i \in Irqs /\ Level[i] # 0
  <2>1. s \in Seq(Irqs) /\ DOMAIN s = 1..Cardinality(S)
    BY <1>1, <1>3
  <2>2. \A i : In(i, s) <=> i \in S
    <3>. HIDE DEF s, S
    <3> QED
      BY <1>3, <1>4, <2>1 DEF In
  <2>3. NoRepeat(s)
    BY <1>3 DEF IsInjective, NoRepeat
  <2> QED
    BY <2>1, <2>2, <2>3
<1>. HIDE DEF s
<1>6. interrupts = [l \in Lists |-> IF l = Rebalance THEN s ELSE <<>>]
      /\ assigned_obj = [i \in Irqs |-> NoObj] /\ moved = [i \in Irqs |-> FALSE]
      /\ objLoad \in [Objs -> Nat] /\ Loaded
  BY DEF Init, s, Lists, Loaded
<1>7. interrupts \in [Lists -> Seq(Irqs)] /\ \A l \in Lists : NoRepeat(interrupts[l])
  BY <1>5, <1>6 DEF NoRepeat
<1>8. ASSUME NEW i \in Irqs, NEW l \in Lists
      PROVE  In(i, interrupts[l]) <=> Belongs(i, assigned_obj[i], l)
  <2>1. assigned_obj[i] = NoObj /\ NoObj # l
    BY <1>6, PlacementAssumption DEF Lists
  <2>2. CASE l = Rebalance
    BY <1>5, <1>6, <2>1, <2>2 DEF Belongs
  <2>3. CASE l # Rebalance
    <3>1. interrupts[l] = <<>>
      BY <1>6, <2>3
    <3>2. ~In(i, <<>>)
      BY DEF In
    <3> QED
      BY <2>1, <2>3, <3>1, <3>2 DEF Belongs
  <2> QED
    BY <2>2, <2>3
<1>9. Homed(World)
  BY <1>6, <1>7, <1>8 DEF Homed, World
<1>10. \A i \in Irqs : World.at[i] = NoObj /\ NoObj \notin CpuObjs
  <2>1. CpuObjs \subseteq Objs
    BY DEF CpuObjs, Objs
  <2> QED
    BY <1>6, <2>1, PlacementAssumption DEF World
<1> QED
  BY <1>6, <1>9, <1>10 DEF Rightly, Awake, NotBelow, OnUsable

(* What a call makes of the lists is what the next call finds.             *)
LEMMA NextWorld ==
    ASSUME NEW w, Homed(w), Becomes(w)
    PROVE  World' = w
<1>1. w = [on |-> w.on, at |-> w.at, moved |-> w.moved, load |-> w.load]
  BY DEF Homed
<1>2. World' = [on |-> w.on, at |-> w.at, moved |-> w.moved, load |-> w.load]
  BY DEF Becomes, World
<1> QED
  BY <1>1, <1>2

(* Places that are kept or given up are as right as they were.             *)
LEMMA RightlyMigrated ==
    ASSUME NEW w, NEW v, Rightly(w), Migrated(w, v)
    PROVE  Rightly(v)
<1>1. NoObj \notin CpuObjs
  BY PlacementAssumption DEF CpuObjs, Objs
<1> QED
  BY <1>1 DEF Rightly, Migrated, Awake, NotBelow, OnUsable

(* No object has less load than its interrupts have that could be taken    *)
(* from it.                                                                *)
Fitting ==
    \A o \in Objs :
        SumOver(interrupts[o], [i \in Irqs |-> IF load[i] > 1 THEN load[i] ELSE 0]) <= objLoad[o]

(* parse_proc_stat, when it has read all it needs.                         *)
LEMMA MeasureFits ==
    ASSUME Rightly(World), Measure
    PROVE  objLoad' \in [Objs -> Nat] /\ Loaded' /\ Fitting'
<1>1. PICK ticks \in [CpuObjs -> Ticks], fired \in [Irqs -> Counts] :
          /\ objLoad' = ObjLoads(IF cycle_count = 0 THEN objLoad ELSE ticks)
          /\ load' = IrqLoads(fired, objLoad') /\ interrupts' = interrupts
  BY DEF Measure, irqVars
<1>2. fired \in [Irqs -> Nat] /\ \A c \in CpuObjs : ticks[c] \in Nat /\ c \in Objs
  BY PlacementAssumption DEF CpuObjs, Objs
<1>3. Homed(World) /\ objLoad \in [Objs -> Nat] /\ load \in [Irqs -> Nat]
  BY DEF Rightly, Homed, World, Loaded
<1>. DEFINE cpuLoad == IF cycle_count = 0 THEN objLoad ELSE ticks
<1>4. \A c \in CpuObjs : cpuLoad[c] \in Nat
  BY <1>2, <1>3
<1>. HIDE DEF cpuLoad
<1>5. ObjLoads(cpuLoad) \in [Objs -> Nat]
  BY <1>3, <1>4, LoadsAreNat
<1>. DEFINE loads == objLoad'
            l == load'
<1>6. loads \in [Objs -> Nat] /\ l = IrqLoads(fired, loads)
  BY <1>1, <1>5 DEF cpuLoad
<1>. HIDE DEF loads, l
<1>7. /\ l \in [Irqs -> Nat]
      /\ \A o \in Objs :
             SumOver(interrupts[o], [i \in Irqs |-> IF l[i] > 1 THEN l[i] ELSE 0]) <= loads[o]
  BY <1>2, <1>3, <1>6, LoadsMeasured
<1> QED
  BY <1>1, <1>6, <1>7 DEF Fitting, Loaded, loads, l

(* parse_proc_stat, when it gives up: no interrupt on a list has a load.   *)
LEMMA MeasureFailsFits ==
    ASSUME Rightly(World), MeasureFails
    PROVE  objLoad' \in [Objs -> Nat] /\ Loaded' /\ Fitting'
<1>1. PICK ticks \in [CpuObjs -> Ticks], missing \in (SUBSET CpuObjs) \ {{}} :
          /\ objLoad' = [o \in Objs |-> IF o \in CpuObjs \ missing /\ cycle_count # 0
                                        THEN ticks[o] ELSE objLoad[o]]
          /\ load' = Cleared /\ interrupts' = interrupts
  BY DEF MeasureFails, irqVars
<1>2. Homed(World) /\ objLoad \in [Objs -> Nat] /\ load \in [Irqs -> Nat]
  BY DEF Rightly, Homed, World, Loaded
<1>3. \A c \in CpuObjs : ticks[c] \in Nat
  BY PlacementAssumption
<1>4. objLoad' \in [Objs -> Nat]
  BY <1>1, <1>2, <1>3
<1>5. /\ Cleared \in [Irqs -> Nat]
      /\ \A i \in Irqs, o \in Objs : In(i, interrupts[o]) => Cleared[i] = 0
  BY <1>2, ClearedIs
<1>6. ASSUME NEW o \in Objs
      PROVE  SumOver(interrupts[o], [i \in Irqs |-> IF Cleared[i] > 1 THEN Cleared[i] ELSE 0])
                 <= objLoad'[o]
  <2>. DEFINE s == interrupts[o]
              f == [i \in Irqs |-> IF Cleared[i] > 1 THEN Cleared[i] ELSE 0]
  <2>1. s \in Seq(Irqs)
    BY <1>2 DEF Homed, World, Lists
  <2>2. \A n \in DOMAIN s : s[n] \in Irqs /\ In(s[n], s)
    BY <2>1 DEF In
  <2>3. \A n \in DOMAIN s : f[s[n]] = 0
    BY <1>5, <2>2
  <2>. HIDE DEF s, f
  <2>4. SumOver(s, f) <= 0 * SumOver(s, f) /\ SumOver(s, f) \in Nat
    BY <2>1, <2>3, SumTimes, SumIsNat
  <2>5. SumOver(s, f) = 0
    BY <2>4
  <2>6. objLoad'[o] \in Nat
    BY <1>4
  <2> QED
    BY <2>5, <2>6 DEF s, f
<1>7. Fitting'
  <2>1. load' = Cleared /\ interrupts' = interrupts
    BY <1>1
  <2> QED
    BY <1>6, <2>1 DEF Fitting
<1> QED
  BY <1>1, <1>4, <1>5, <1>7 DEF Loaded

(* Each call of a cycle leaves the places right.                           *)
LEMMA StaysRight ==
    ASSUME Rightly(World), [Next]_vars
    PROVE  Rightly(World)'
<1>0. CpuObjs \subseteq Objs /\ NoObj \notin CpuObjs
  BY PlacementAssumption DEF CpuObjs, Objs
<1>1. ASSUME Homed(World'), World'.at = World.at, powersave_mode' = powersave_mode, Loaded'
      PROVE  Rightly(World)'
  BY <1>1 DEF Rightly, Awake, NotBelow, OnUsable
<1>2. ASSUME interrupts' = interrupts, assigned_obj' = assigned_obj,
             moved' \in [Irqs -> BOOLEAN], powersave_mode' = powersave_mode,
             objLoad' \in [Objs -> Nat], Loaded'
      PROVE  Rightly(World)'
  <2>1. Homed(World)
    BY DEF Rightly
  <2>2. /\ World'.on = World.on /\ World'.at = World.at /\ World'.moved = moved'
        /\ World'.load = objLoad'
    BY <1>2 DEF World
  <2>3. World' = [on |-> World'.on, at |-> World'.at, moved |-> World'.moved, load |-> World'.load]
    BY DEF World
  <2>4. Homed(World')
    BY <1>2, <2>1, <2>2, <2>3 DEF Homed
  <2> QED
    BY <1>1, <1>2, <2>2, <2>4
<1>3. moved \in [Irqs -> BOOLEAN] /\ objLoad \in [Objs -> Nat] /\ Loaded
  BY DEF Rightly, Homed, World
<1>10. load' = load => Loaded'
  BY <1>3 DEF Loaded
<1>4. CASE UNCHANGED vars
  BY <1>2, <1>3, <1>4, <1>10 DEF vars, irqVars
<1>5. CASE Measure
  <2>1. objLoad' \in [Objs -> Nat] /\ Loaded'
    BY <1>5, MeasureFits
  <2> QED
    BY <1>2, <1>3, <1>5, <2>1 DEF Measure, irqVars
<1>6. CASE MeasureFails
  <2>1. objLoad' \in [Objs -> Nat] /\ Loaded'
    BY <1>6, MeasureFailsFits
  <2> QED
    BY <1>2, <1>3, <1>6, <2>1 DEF MeasureFails, irqVars
<1>7. CASE ActivateMappings
  BY <1>2, <1>3, <1>7, <1>10 DEF ActivateMappings
<1>8. CASE UpdateMigrationStatus
  <2>1. Becomes(Freed) /\ UpdatePowersave /\ Loaded'
    BY <1>8, <1>10 DEF UpdateMigrationStatus, Freed
  <2>2. Migrated(World, Freed) /\ (EntersPowersave => \A i \in Irqs : Freed.at[i] # Sleeper)
    BY StatusMigrates DEF Rightly
  <2>3. World' = Freed /\ Rightly(Freed)
    BY <2>1, <2>2, NextWorld, RightlyMigrated DEF Migrated
  <2>4. ASSUME NEW i \in Irqs, Freed.at[i] \in CpuObjs PROVE ~powersave_mode'[Freed.at[i]]
    <3>1. ~powersave_mode[Freed.at[i]]
      BY <2>3, <2>4 DEF Rightly, Awake
    <3>2. ~(EntersPowersave /\ Freed.at[i] = Sleeper)
      BY <2>2
    <3> QED
      BY <2>1, <2>4, <3>1, <3>2 DEF UpdatePowersave
  <2> QED
    BY <2>1, <2>3, <2>4 DEF Rightly, Awake, NotBelow, OnUsable
<1>9. CASE CalculatePlacement
  <2>1. Becomes(Placed) /\ powersave_mode' = powersave_mode /\ Loaded'
    BY <1>9, <1>10 DEF CalculatePlacement, Placed, Above
  <2>2. Rightly(Placed)
    BY PlacementPlaces
  <2>3. World' = Placed
    BY <2>1, <2>2, NextWorld DEF Rightly
  <2> QED
    BY <2>1, <2>2, <2>3 DEF Rightly, Awake, NotBelow, OnUsable
<1> QED
  BY <1>4, <1>5, <1>6, <1>7, <1>8, <1>9 DEF Next

-----------------------------------------------------------------------------
(* What is given up, and what stays                                        *)

(* The load that the interrupts of o that have lost their place would add. *)
Lost(v, o) == SumOver(interrupts[o], [i \in Irqs |-> IF v.at[i] = NoObj THEN load[i] ELSE 0])

(* No interrupt of o has gone; what a loop on the objects leaves of o.     *)
Untouched(v, o) == \A i \in Irqs : assigned_obj[i] = o => v.at[i] = o
Ahead(v, o) ==
    \/ Untouched(v, o)
    \/ /\ \E i \in Irqs : assigned_obj[i] = o /\ v.at[i] = o
       /\ \E p \in Peers(o) : objLoad[o] - Lost(v, o) > objLoad[p] + Lost(v, o)

(* The loads and the list of o.                                            *)
LEMMA Before ==
    ASSUME Rightly(World)
    PROVE  /\ load \in [Irqs -> Nat] /\ objLoad \in [Objs -> Nat]
           /\ \A o \in Objs :
                  /\ interrupts[o] \in Seq(Irqs) /\ NoRepeat(interrupts[o])
                  /\ \A n \in DOMAIN interrupts[o] :
                         interrupts[o][n] \in Irqs /\ assigned_obj[interrupts[o][n]] = o
                  /\ \A i \in Irqs : assigned_obj[i] = o => In(i, interrupts[o])
<1>1. World.on = interrupts /\ World.at = assigned_obj
  BY DEF World
<1>2. load \in [Irqs -> Nat] /\ objLoad \in [Objs -> Nat]
  BY DEF Rightly, Loaded, Homed, World
<1>3. ASSUME NEW o \in Objs
      PROVE  /\ interrupts[o] \in Seq(Irqs) /\ NoRepeat(interrupts[o])
             /\ \A n \in DOMAIN interrupts[o] :
                    interrupts[o][n] \in Irqs /\ assigned_obj[interrupts[o][n]] = o
             /\ \A i \in Irqs : assigned_obj[i] = o => In(i, interrupts[o])
  <2>1. \A i \in Irqs : assigned_obj[i] = o => In(i, interrupts[o])
    BY <1>1 DEF Rightly, Homed, Belongs, Lists
  <2> QED
    BY <1>1, <2>1, ListOf DEF Rightly
<1> QED
  BY <1>2, <1>3

(* What the interrupts of o weigh that have lost their place.              *)
LEMMA LostIs ==
    ASSUME Rightly(World), NEW o \in Objs, NEW v
    PROVE  Lost(v, o) \in Nat /\ (Untouched(v, o) => Lost(v, o) = 0)
<1>. DEFINE s == interrupts[o]
            f == [i \in Irqs |-> IF v.at[i] = NoObj THEN load[i] ELSE 0]
<1>1. s \in Seq(Irqs) /\ \A n \in DOMAIN s : s[n] \in Irqs /\ assigned_obj[s[n]] = o
  BY Before
<1>4. \A n \in DOMAIN s : f[s[n]] \in Nat
  BY <1>1, Before
<1>5. ASSUME Untouched(v, o), NEW n \in DOMAIN s PROVE f[s[n]] <= 0 * f[s[n]]
  <2>1. s[n] \in Irqs /\ assigned_obj[s[n]] = o
    BY <1>1
  <2>2. v.at[s[n]] = o /\ o # NoObj
    BY <1>5, <2>1, PlacementAssumption DEF Untouched
  <2>3. f[s[n]] = 0
    BY <2>1, <2>2
  <2>. HIDE DEF s, f
  <2>4. 0 <= 0 * 0
    OBVIOUS
  <2> QED
    BY <2>3, <2>4
<1>6. Lost(v, o) = SumOver(s, f)
  BY DEF Lost
<1>. HIDE DEF s, f
<1>7. SumOver(s, f) \in Nat
  BY <1>1, <1>4, SumIsNat
<1>8. ASSUME Untouched(v, o) PROVE SumOver(s, f) = 0
  <2>1. SumOver(s, f) <= 0 * SumOver(s, f)
    BY <1>1, <1>4, <1>5, <1>8, SumTimes
  <2> QED
    BY <1>7, <2>1
<1> QED
  BY <1>6, <1>7, <1>8

(* All of this depends on where the interrupts of o are.                   *)
LEMMA AheadSame ==
    ASSUME Rightly(World), NEW o \in Objs, NEW u, NEW v,
           \A i \in Irqs : assigned_obj[i] = o => v.at[i] = u.at[i]
    PROVE  Lost(v, o) = Lost(u, o) /\ (Untouched(u, o) => Untouched(v, o))
           /\ (Ahead(u, o) => Ahead(v, o))
<1>. DEFINE s == interrupts[o]
            f == [i \in Irqs |-> IF u.at[i] = NoObj THEN load[i] ELSE 0]
            g == [i \in Irqs |-> IF v.at[i] = NoObj THEN load[i] ELSE 0]
<1>1. s \in Seq(Irqs) /\ \A n \in DOMAIN s : s[n] \in Irqs /\ assigned_obj[s[n]] = o
  BY Before
<1>2. \A n \in DOMAIN s : f[s[n]] = g[s[n]]
  BY <1>1
<1>3. Lost(u, o) = SumOver(s, f) /\ Lost(v, o) = SumOver(s, g)
  BY DEF Lost
<1>. HIDE DEF s, f, g
<1>4. SumOver(s, f) = SumOver(s, g)
  BY <1>1, <1>2, SumSame
<1>5. Untouched(u, o) => Untouched(v, o)
  BY DEF Untouched
<1> QED
  BY <1>3, <1>4, <1>5 DEF Ahead

(* A loop on the interrupts of o that began with u and the least load m:   *)
(* what it goes by are the loads o and the least loaded object would have  *)
(* now, and if anything has gone o is ahead and has something left.        *)
Steady(u, m, o, h) ==
    /\ Going(h) /\ Migrated(World, h.w)
    /\ \A i \in Irqs : assigned_obj[i] # o => h.w.at[i] = u.at[i]
    /\ h.adjustment_load = objLoad[o] - Lost(h.w, o) /\ h.min_load = m + Lost(h.w, o)
    /\ \/ Untouched(h.w, o)
       \/ /\ h.adjustment_load > h.min_load
          /\ \E i \in Irqs : assigned_obj[i] = o /\ h.w.at[i] = o

(* An interrupt that is not alone on its list leaves another one there.    *)
LEMMA NotAlone ==
    ASSUME NEW w, Homed(w), NEW o \in Objs, Len(w.on[o]) > 1, NEW i
    PROVE  \E j \in Irqs : j # i /\ w.at[j] = o
<1>. DEFINE s == w.on[o]
<1>1. s \in Seq(Irqs) /\ NoRepeat(s) /\ \A n \in DOMAIN s : s[n] \in Irqs /\ w.at[s[n]] = o
  BY ListOf
<1>2. 1 \in DOMAIN s /\ 2 \in DOMAIN s
  BY <1>1
<1>. HIDE DEF s
<1>3. s[1] # s[2]
  BY <1>1, <1>2 DEF NoRepeat
<1> QED
  BY <1>1, <1>2, <1>3

(* One more interrupt of o has lost its place.                             *)
LEMMA LostMore ==
    ASSUME Rightly(World), NEW o \in Objs, NEW u, NEW v, NEW i \in Irqs, assigned_obj[i] = o,
           u.at[i] = o, v.at[i] = NoObj, \A j \in Irqs : j # i => v.at[j] = u.at[j]
    PROVE  Lost(v, o) = Lost(u, o) + load[i]
<1>. DEFINE s == interrupts[o]
            f == [j \in Irqs |-> IF u.at[j] = NoObj THEN load[j] ELSE 0]
            g == [j \in Irqs |-> IF v.at[j] = NoObj THEN load[j] ELSE 0]
<1>1. /\ s \in Seq(Irqs) /\ NoRepeat(s) /\ \A n \in DOMAIN s : s[n] \in Irqs
      /\ In(i, s) /\ load \in [Irqs -> Nat] /\ o # NoObj
  BY Before, PlacementAssumption
<1>2. PICK k \in DOMAIN s : s[k] = i
  BY <1>1 DEF In
<1>3. \A n \in DOMAIN s : n # k => s[n] # i
  BY <1>1, <1>2 DEF NoRepeat
<1>4. PICK c \in Nat : c = load[i]
  BY <1>1
<1>5. ASSUME NEW n \in DOMAIN s
      PROVE  f[s[n]] \in Nat /\ g[s[n]] = IF n = k THEN f[s[n]] + c ELSE f[s[n]]
  <2>1. f[s[n]] \in Nat
    BY <1>1
  <2>2. CASE n = k
    <3>1. f[s[n]] = 0 /\ g[s[n]] = c
      BY <1>1, <1>2, <1>4, <2>2
    <3> QED
      BY <2>2, <3>1
  <2>3. CASE n # k
    BY <1>1, <1>3, <2>1, <2>3
  <2> QED
    BY <2>1, <2>2, <2>3
<1>6. Lost(u, o) = SumOver(s, f) /\ Lost(v, o) = SumOver(s, g)
  BY DEF Lost
<1>. HIDE DEF s, f, g
<1>7. SumOver(s, g) = SumOver(s, f) + c
  BY <1>1, <1>5, SumOneMore
<1> QED
  BY <1>4, <1>6, <1>7

(* What a loop has taken from o leaves o ahead.                            *)
LEMMA SteadyAhead ==
    ASSUME Rightly(World), NEW o \in Objs, NEW u, NEW m \in Nat, NEW h, Steady(u, m, o, h),
           NEW p \in Peers(o), objLoad[p] <= m
    PROVE  Ahead(h.w, o)
<1>1. CASE Untouched(h.w, o)
  BY <1>1 DEF Ahead
<1>2. CASE ~Untouched(h.w, o)
  <2>1. PICK x \in Nat : x = Lost(h.w, o)
    BY LostIs
  <2>2. PICK a \in Nat, b \in Nat : a = objLoad[o] /\ b = objLoad[p]
    BY Before DEF Peers
  <2>3. /\ h.adjustment_load = a - x /\ h.min_load = m + x
        /\ h.adjustment_load > h.min_load
        /\ \E i \in Irqs : assigned_obj[i] = o /\ h.w.at[i] = o
    BY <1>2, <2>1, <2>2 DEF Steady
  <2>4. a - x > b + x
    <3>1. a - x > m + x /\ b <= m
      BY <2>2, <2>3
    <3> QED
      BY <3>1
  <2> QED
    BY <2>1, <2>2, <2>3, <2>4 DEF Ahead
<1> QED
  BY <1>1, <1>2

(* move_candidate_irqs on an interrupt of o.                               *)
LEMMA CandidateSteady ==
    ASSUME Rightly(World), NEW o \in Objs, NEW u, NEW m \in Nat, NEW h, Steady(u, m, o, h),
           NEW i \in Irqs, assigned_obj[i] = o, h.w.at[i] = o
    PROVE  /\ Steady(u, m, o, MoveCandidate(h, i))
           /\ \A j \in Irqs : j # i => MoveCandidate(h, i).w.at[j] = h.w.at[j]
<1>1. CASE ~IsCandidate(h, i)
  BY <1>1 DEF MoveCandidate
<1>2. CASE IsCandidate(h, i)
  <2>. DEFINE r == MoveCandidate(h, i)
              v == GiveUp(h.w, i)
  <2>1. r = [w |-> v, adjustment_load |-> h.adjustment_load - load[i],
             min_load |-> h.min_load + load[i]]
    BY <1>2 DEF MoveCandidate
  <2>. HIDE DEF v, r
  <2>2. /\ Going(r) /\ r.w = v /\ r.adjustment_load = h.adjustment_load - load[i]
        /\ r.min_load = h.min_load + load[i]
    BY <2>1 DEF Going
  <2>3. Migrated(World, h.w) /\ Homed(h.w)
    BY DEF Steady, Migrated
  <2>4. /\ Migrated(h.w, v) /\ v.at[i] = NoObj
        /\ \A j \in Irqs : j # i => v.at[j] = h.w.at[j]
    BY <2>3, GiveUpMigrates DEF v
  <2>5. Migrated(World, r.w)
    BY <2>2, <2>3, <2>4, MigratedTwice
  <2>6. Lost(v, o) = Lost(h.w, o) + load[i]
    BY <2>4, LostMore
  <2>7. PICK x \in Nat, a \in Nat, c \in Nat : x = Lost(h.w, o) /\ a = objLoad[o] /\ c = load[i]
    BY Before, LostIs
  <2>8. /\ r.adjustment_load = objLoad[o] - Lost(r.w, o) /\ r.min_load = m + Lost(r.w, o)
        /\ r.adjustment_load > r.min_load
    <3>1. h.adjustment_load = a - x /\ h.min_load = m + x
      BY <2>7 DEF Steady
    <3>2. h.adjustment_load - c > h.min_load + c
      BY <1>2, <2>7 DEF IsCandidate
    <3>3. (a - x) - c > (m + x) + c
      BY <3>1, <3>2
    <3>4. (a - x) - c = a - (x + c) /\ (m + x) + c = m + (x + c)
      OBVIOUS
    <3>5. r.adjustment_load = a - (x + c) /\ r.min_load = m + (x + c)
      BY <2>2, <2>7, <3>1, <3>4
    <3> QED
      BY <2>2, <2>6, <2>7, <3>3, <3>4, <3>5
  <2>9. \E j \in Irqs : assigned_obj[j] = o /\ r.w.at[j] = o
    <3>1. Len(h.w.on[o]) > 1
      BY <1>2 DEF IsCandidate
    <3>2. PICK j \in Irqs : j # i /\ h.w.at[j] = o
      BY <2>3, <3>1, NotAlone
    <3>3. assigned_obj[j] = o
      BY <2>3, <3>2, PlacementAssumption DEF Migrated, World
    <3> QED
      BY <2>2, <2>4, <3>2, <3>3
  <2>10. \A j \in Irqs : assigned_obj[j] # o => r.w.at[j] = u.at[j]
    BY <2>2, <2>4 DEF Steady
  <2> QED
    BY <2>2, <2>4, <2>5, <2>8, <2>9, <2>10 DEF Steady, r
<1> QED
  BY <1>1, <1>2

(* for_each_irq with move_candidate_irqs.                                  *)
LEMMA CandidatesSteady ==
    ASSUME Rightly(World), NEW o \in Objs, NEW u, NEW m \in Nat, NEW g, Steady(u, m, o, g),
           Untouched(g.w, o)
    PROVE  Steady(u, m, o, FoldLeft(MoveCandidate, g, g.w.on[o]))
<1>. DEFINE s == g.w.on[o]
            k == <<"move">>
<1>0. Homed(g.w) /\ Migrated(World, g.w)
  BY DEF Steady, Migrated
<1>1. s \in Seq(Irqs) /\ NoRepeat(s) /\ \A n \in DOMAIN s : s[n] \in Irqs /\ g.w.at[s[n]] = o
  BY <1>0, ListOf
<1>. HIDE DEF s
<1>2. FoldLeft(MoveCandidate, g, s) = Folded(k, g, s)
  BY <1>1, MoveLoop
<1>. HIDE DEF k
<1>3. PICK acc : Turns(acc, k, g, s) /\ Folded(k, g, s) = acc[Len(s)]
  BY <1>1, FoldLeftSteps
<1>4. PICK z \in Nat : z = Len(s) /\ DOMAIN s = 1..z
  BY <1>1
<1>5. acc[0] = g /\ \A n \in 1..z : acc[n] = MoveCandidate(acc[n - 1], s[n])
  BY <1>3, <1>4 DEF Turns, Step, k
<1>6. \A n \in 1..z : assigned_obj[s[n]] = o
  BY <1>0, <1>1, <1>4, PlacementAssumption DEF Migrated, World
<1>. DEFINE Good(t, h) == Steady(u, m, o, h) /\ \A n \in (t + 1)..z : h.w.at[s[n]] = o
            T == {t \in 0..z : Good(t, acc[t])}
<1>7. 0 \in T
  BY <1>1, <1>4, <1>5
<1>8. ASSUME NEW t \in 1..z, t - 1 \in T PROVE t \in T
  <2>. DEFINE h == acc[t - 1]
              r == acc[t]
              i == s[t]
  <2>1. Good(t - 1, h) /\ t \in 0..z /\ t \in (t - 1 + 1)..z
    BY <1>8
  <2>2. r = MoveCandidate(h, i) /\ i \in Irqs /\ h.w.at[i] = o /\ assigned_obj[i] = o
    BY <1>1, <1>4, <1>5, <1>6, <2>1
  <2>3. \A n \in (t + 1)..z : n \in (t - 1 + 1)..z /\ n # t /\ n \in 1..z
    OBVIOUS
  <2>4. \A n \in (t + 1)..z : h.w.at[s[n]] = o /\ s[n] # i /\ s[n] \in Irqs
    BY <1>1, <1>4, <2>1, <2>3 DEF NoRepeat
  <2>5. Steady(u, m, o, h)
    BY <2>1
  <2>. HIDE DEF h, r, i
  <2>6. Steady(u, m, o, r) /\ \A j \in Irqs : j # i => r.w.at[j] = h.w.at[j]
    BY <2>2, <2>5, CandidateSteady
  <2>7. \A n \in (t + 1)..z : r.w.at[s[n]] = o
    BY <2>4, <2>6
  <2> QED
    BY <2>1, <2>6, <2>7 DEF r
<1>9. z \in T
  <2>. HIDE DEF T
  <2> QED
    BY <1>7, <1>8, EveryTurn
<1> QED
  BY <1>2, <1>3, <1>4, <1>9 DEF s

(* What the loop on the objects may have done by the turn of o.            *)
Comes(g, o, p) ==
    /\ Going(g) /\ Migrated(World, g.w) /\ g.min_load \in Nat
    /\ p \in Peers(o) /\ objLoad[p] <= g.min_load

(* migrate_overloaded_irqs leaves o ahead and the other objects alone.     *)
LEMMA OverloadedAhead ==
    ASSUME Rightly(World), NEW o \in Objs, NEW g, NEW p, Comes(g, o, p), Untouched(g.w, o)
    PROVE  LET r == MigrateOverloaded(g, o)
           IN  /\ Comes(r, o, p) /\ Ahead(r.w, o)
               /\ \A i \in Irqs : assigned_obj[i] # o => r.w.at[i] = g.w.at[i]
<1>1. CASE objLoad[o] <= g.min_load \/ Len(g.w.on[o]) <= 1
  <2>1. MigrateOverloaded(g, o) = g
    BY <1>1 DEF MigrateOverloaded
  <2> QED
    BY <2>1 DEF Ahead
<1>2. CASE ~(objLoad[o] <= g.min_load \/ Len(g.w.on[o]) <= 1)
  <2>. DEFINE w == SortIrqList(g.w, o)
              m == g.min_load
              h == [w |-> w, adjustment_load |-> objLoad[o], min_load |-> m]
              r == FoldLeft(MoveCandidate, h, h.w.on[o])
  <2>1. MigrateOverloaded(g, o) = FoldLeft(MoveCandidate, h, w.on[o])
    BY <1>2 DEF MigrateOverloaded
  <2>2. Homed(w) /\ SamePlaces(g.w, w) /\ w.load = g.w.load /\ Migrated(World, g.w)
    <3>1. o \in Lists
      BY DEF Lists
    <3> QED
      BY <3>1, SortKeepsHomes DEF Comes, Migrated
  <2>. HIDE DEF w
  <2>3. Going(h) /\ h.w = w /\ h.adjustment_load = objLoad[o] /\ h.min_load = m
    BY DEF Going
  <2>4. MigrateOverloaded(g, o) = r
    BY <2>1
  <2>. HIDE DEF h, m, r
  <2>5. Migrated(World, w) /\ Untouched(w, o) /\ w.at = g.w.at
    BY <2>2 DEF Migrated, SamePlaces, Untouched
  <2>6. m \in Nat /\ objLoad[o] \in Nat /\ Lost(w, o) = 0
    BY <2>5, Before, LostIs DEF Comes, m
  <2>7. objLoad[o] = objLoad[o] - Lost(w, o) /\ m = m + Lost(w, o)
    BY <2>6
  <2>8. Steady(g.w, m, o, h)
    BY <2>3, <2>5, <2>7 DEF Steady
  <2>9. Steady(g.w, m, o, r)
    BY <2>3, <2>5, <2>6, <2>8, CandidatesSteady DEF r
  <2>10. p \in Peers(o) /\ objLoad[p] <= m
    BY DEF Comes, m
  <2>11. Ahead(r.w, o)
    BY <2>6, <2>9, <2>10, SteadyAhead
  <2>12. r.min_load \in Nat /\ objLoad[p] <= r.min_load
    <3>1. PICK x \in Nat, b \in Nat : x = Lost(r.w, o) /\ b = objLoad[p]
      BY <2>10, Before, LostIs DEF Peers
    <3>2. r.min_load = m + x /\ b <= m
      BY <2>9, <2>10, <3>1 DEF Steady
    <3> QED
      BY <2>6, <3>1, <3>2
  <2>13. Comes(r, o, p)
    BY <2>9, <2>10, <2>12 DEF Comes, Steady
  <2> QED
    BY <2>4, <2>9, <2>11, <2>13 DEF Steady
<1> QED
  BY <1>1, <1>2

(* for_each_object with gather_load_stats.                                 *)
LEMMA MinLoop ==
    ASSUME NEW s \in Seq(Objs)
    PROVE  MinLoad(s) = Folded(<<"min">>, 0, s)
<1>1. DOMAIN s = 1..Len(s)
  OBVIOUS
<1> QED
  BY <1>1, SMTT(60) DEF MinLoad, FoldLeft, MapThenFoldSet, Max, Folded, Folds, Top, Step

(* What min_load starts from is the load of one of the objects.            *)
LEMMA MinIsOne ==
    ASSUME NEW s \in Seq(Objs), s # <<>>
    PROVE  \E n \in DOMAIN s : MinLoad(s) = objLoad[s[n]]
<1>. DEFINE k == <<"min">>
<1>1. MinLoad(s) = Folded(k, 0, s)
  BY MinLoop
<1>. HIDE DEF k
<1>2. PICK acc : Turns(acc, k, 0, s) /\ Folded(k, 0, s) = acc[Len(s)]
  BY FoldLeftSteps
<1>3. PICK z \in Nat : z = Len(s) /\ DOMAIN s = 1..z /\ z # 0
  <2>1. Len(s) \in Nat /\ DOMAIN s = 1..Len(s) /\ Len(s) # 0
    OBVIOUS
  <2> QED
    BY <2>1
<1>4. acc[0] = 0 /\ \A n \in 1..z : acc[n] = IF acc[n - 1] = 0 \/ objLoad[s[n]] < acc[n - 1]
                                             THEN objLoad[s[n]] ELSE acc[n - 1]
  BY <1>2, <1>3 DEF Turns, Step, k
<1>. DEFINE T == {m \in 0..z : m # 0 => \E n \in 1..z : acc[m] = objLoad[s[n]]}
<1>5. 0 \in T
  OBVIOUS
<1>6. ASSUME NEW m \in 1..z, m - 1 \in T PROVE m \in T
  <2>1. CASE acc[m - 1] = 0
    BY <1>4, <2>1
  <2>2. CASE acc[m - 1] # 0
    <3>1. m - 1 # 0
      BY <1>4, <2>2
    <3>2. \E n \in 1..z : acc[m - 1] = objLoad[s[n]]
      BY <1>6, <3>1
    <3> QED
      BY <1>4, <3>2
  <2> QED
    BY <2>1, <2>2
<1>7. z \in T
  <2>. HIDE DEF T
  <2> QED
    BY <1>5, <1>6, EveryTurn
<1> QED
  BY <1>1, <1>2, <1>3, <1>7

(* v differs from u in the interrupts of the objects in s alone.           *)
Within(s, u, v) == \A i \in Irqs : ~In(assigned_obj[i], s) => v.at[i] = u.at[i]

(* find_overloaded_objs on objects of one depth, from which nothing has    *)
(* gone before.                                                            *)
LEMMA FindAhead ==
    ASSUME Rightly(World), NEW s \in Seq(Objs), NoRepeat(s),
           NEW d, \A n \in DOMAIN s : depth[s[n]] = d,
           NEW w, Migrated(World, w), \A n \in DOMAIN s : Untouched(w, s[n])
    PROVE  LET r == FindOverloaded(w, s)
           IN  Within(s, w, r) /\ \A n \in DOMAIN s : Ahead(r, s[n])
<1>. DEFINE g == [w |-> w, adjustment_load |-> 0, min_load |-> MinLoad(s)]
            k == <<"over">>
            f == Folded(k, g, s)
<1>1. FoldLeft(MigrateOverloaded, g, s) = f
  BY OverLoop
<1>2. FindOverloaded(w, s) = f.w
  <2>. HIDE DEF f
  <2> QED
    BY <1>1 DEF FindOverloaded
<1>3. Going(g) /\ g.w = w /\ g.min_load = MinLoad(s)
  BY DEF Going
<1>. HIDE DEF k, g
<1>4. PICK acc : Turns(acc, k, g, s) /\ f = acc[Len(s)]
  BY FoldLeftSteps
<1>5. PICK z \in Nat : z = Len(s) /\ DOMAIN s = 1..z /\ \A n \in 1..z : s[n] \in Objs
  OBVIOUS
<1>6. acc[0] = g /\ \A n \in 1..z : acc[n] = MigrateOverloaded(acc[n - 1], s[n])
  BY <1>4, <1>5 DEF Turns, Step, k
<1>7. CASE z = 0
  <2>1. f.w = w /\ DOMAIN s = {}
    BY <1>3, <1>4, <1>5, <1>6, <1>7
  <2>. HIDE DEF f
  <2> QED
    BY <1>2, <2>1 DEF Within
<1>8. CASE z # 0
  <2>1. PICK p : In(p, s) /\ p \in Objs /\ MinLoad(s) = objLoad[p]
    <3>1. s # <<>>
      BY <1>5, <1>8
    <3> QED
      BY <1>5, <3>1, MinIsOne DEF In
  <2>2. objLoad[p] \in Nat /\ \A n \in 1..z : p \in Peers(s[n])
    BY <1>5, <2>1, Before DEF In, Peers
  <2>. DEFINE Good(m, h) ==
                  /\ Going(h) /\ Migrated(World, h.w) /\ Within(s, w, h.w)
                  /\ h.min_load \in Nat /\ objLoad[p] <= h.min_load
                  /\ \A n \in 1..z : IF n <= m THEN Ahead(h.w, s[n]) ELSE Untouched(h.w, s[n])
              T == {m \in 0..z : Good(m, acc[m])}
  <2>3. 0 \in T
    <3>1. \A n \in 1..z : ~(n <= 0)
      OBVIOUS
    <3>2. objLoad[p] <= g.min_load
      BY <1>3, <2>1, <2>2
    <3> QED
      BY <1>3, <1>5, <1>6, <2>1, <2>2, <3>1, <3>2 DEF Within
  <2>4. ASSUME NEW m \in 1..z, m - 1 \in T PROVE m \in T
    <3>. DEFINE h == acc[m - 1]
                r == acc[m]
                o == s[m]
    <3>1. Good(m - 1, h) /\ m \in 0..z /\ ~(m <= m - 1)
      BY <2>4
    <3>2. r = MigrateOverloaded(h, o) /\ o \in Objs /\ p \in Peers(o) /\ In(o, s)
      BY <1>5, <1>6, <2>2 DEF In
    <3>3. Untouched(h.w, o)
      BY <3>1
    <3>4. /\ Going(h) /\ Migrated(World, h.w) /\ Within(s, w, h.w)
          /\ h.min_load \in Nat /\ objLoad[p] <= h.min_load
      BY <3>1
    <3>5. \A n \in 1..z : n # m => s[n] # o /\ s[n] \in Objs /\ (n <= m <=> n <= m - 1)
      BY <1>5 DEF NoRepeat
    <3>. HIDE DEF h, r
    <3>. HIDE DEF o
    <3>6. Comes(h, o, p)
      BY <3>2, <3>4 DEF Comes
    <3>7. /\ Comes(r, o, p) /\ Ahead(r.w, o)
          /\ \A i \in Irqs : assigned_obj[i] # o => r.w.at[i] = h.w.at[i]
      BY <3>2, <3>3, <3>6, OverloadedAhead
    <3>8. Within(s, w, r.w)
      BY <3>2, <3>4, <3>7 DEF Within
    <3>9. ASSUME NEW n \in 1..z
          PROVE  IF n <= m THEN Ahead(r.w, s[n]) ELSE Untouched(r.w, s[n])
      <4>1. CASE n = m
        BY <3>7, <4>1 DEF o
      <4>2. CASE n # m
        <5>1. \A i \in Irqs : assigned_obj[i] = s[n] => r.w.at[i] = h.w.at[i]
          BY <3>5, <3>7, <4>2
        <5>2. /\ Untouched(h.w, s[n]) => Untouched(r.w, s[n])
              /\ Ahead(h.w, s[n]) => Ahead(r.w, s[n])
          BY <3>5, <4>2, <5>1, AheadSame
        <5> QED
          BY <3>1, <3>5, <4>2, <5>2
      <4> QED
        BY <4>1, <4>2
    <3> QED
      BY <3>1, <3>7, <3>8, <3>9 DEF Comes, r
  <2>5. z \in T
    <3>. HIDE DEF T
    <3> QED
      BY <2>3, <2>4, EveryTurn
  <2>6. Good(z, f)
    BY <1>4, <1>5, <2>5
  <2>7. \A n \in 1..z : n <= z
    OBVIOUS
  <2>. HIDE DEF f
  <2> QED
    BY <1>2, <1>5, <2>6, <2>7
<1> QED
  BY <1>7, <1>8

(* The list has the objects of depth d; nothing has gone from those in w;  *)
(* v has these ahead and the others as they were.                          *)
AllOfDepth(d, s) ==
    s \in Seq(Objs) /\ NoRepeat(s) /\ \A x \in Objs : In(x, s) <=> depth[x] = d
Due(d, w) == Migrated(World, w) /\ \A x \in Objs : depth[x] = d => Untouched(w, x)
Done(d, w, v) ==
    /\ Migrated(World, v)
    /\ \A x \in Objs : depth[x] = d => Ahead(v, x)
    /\ \A x \in Objs : depth[x] # d /\ Untouched(w, x) => Untouched(v, x)
    /\ \A x \in Objs : depth[x] # d /\ Ahead(w, x) => Ahead(v, x)

(* find_overloaded_objs for the objects of a depth.                        *)
LEMMA FindDepth ==
    ASSUME Rightly(World), NEW d, NEW s, AllOfDepth(d, s), NEW w, Due(d, w)
    PROVE  Done(d, w, FindOverloaded(w, s))
<1>. DEFINE r == FindOverloaded(w, s)
<1>0. s \in Seq(Objs) /\ NoRepeat(s) /\ Migrated(World, w)
  BY DEF AllOfDepth, Due
<1>1. Migrated(World, r)
  <2>1. Migrated(w, r)
    BY <1>0, FindMigrates DEF Migrated
  <2>. HIDE DEF r
  <2> QED
    BY <1>0, <2>1, MigratedTwice
<1>2. \A n \in DOMAIN s : s[n] \in Objs /\ In(s[n], s) /\ depth[s[n]] = d /\ Untouched(w, s[n])
  BY DEF In, AllOfDepth, Due
<1>3. Within(s, w, r) /\ \A n \in DOMAIN s : Ahead(r, s[n])
  BY <1>0, <1>2, FindAhead
<1>. HIDE DEF r
<1>4. ASSUME NEW x \in Objs, depth[x] = d PROVE Ahead(r, x)
  BY <1>3, <1>4 DEF In, AllOfDepth
<1>5. ASSUME NEW x \in Objs, depth[x] # d
      PROVE  (Untouched(w, x) => Untouched(r, x)) /\ (Ahead(w, x) => Ahead(r, x))
  <2>1. \A i \in Irqs : assigned_obj[i] = x => r.at[i] = w.at[i]
    BY <1>3, <1>5 DEF Within, AllOfDepth
  <2> QED
    BY <2>1, AheadSame
<1> QED
  BY <1>1, <1>4, <1>5 DEF r, Done

(* Each call of find_overloaded_objs looks after the objects of its list   *)
(* and no other call touches them; the CPU put to sleep loses everything.  *)
LEMMA StatusAhead ==
    ASSUME Rightly(World), NEW o \in Objs, EntersPowersave => o # Sleeper
    PROVE  Ahead(Freed, o)
<1>. DEFINE w1 == FindOverloaded(World, CpuList)
            w2 == EvictSleeper(w1)
            w3 == FindOverloaded(w2, CacheList)
            w4 == FindOverloaded(w3, PackageList)
            w5 == FindOverloaded(w4, NodeList)
<1>1. /\ AllOfDepth(0, NodeList) /\ AllOfDepth(1, PackageList)
      /\ AllOfDepth(2, CacheList) /\ AllOfDepth(3, CpuList)
  BY FourLists, PlacementAssumption DEF AllOfDepth
<1>2. \A x \in Objs : depth[x] \in 0..3
  BY FourLists
<1>3. Due(3, World) /\ \A x \in Objs : Untouched(World, x)
  BY DEF Rightly, Migrated, Untouched, World, Due
<1>4. Migrated(World, w1) /\ Done(3, World, w1)
  BY <1>1, <1>3, FindDepth DEF Done
<1>. HIDE DEF w1
<1>5. /\ Migrated(World, w2)
      /\ \A i \in Irqs : \/ EntersPowersave /\ w1.at[i] = Sleeper
                         \/ w2.at[i] = w1.at[i]
  <2>1. /\ Migrated(w1, w2)
        /\ \A i \in Irqs : IF EntersPowersave /\ w1.at[i] = Sleeper THEN w2.at[i] # Sleeper
                           ELSE w2.at[i] = w1.at[i]
    BY <1>4, EvictMigrates DEF Migrated
  <2>. HIDE DEF w2
  <2> QED
    BY <1>4, <2>1, MigratedTwice
<1>. HIDE DEF w2
<1>6. ASSUME NEW x \in Objs, EntersPowersave => x # Sleeper
      PROVE  (Untouched(w1, x) => Untouched(w2, x)) /\ (Ahead(w1, x) => Ahead(w2, x))
  <2>1. ASSUME NEW i \in Irqs, assigned_obj[i] = x PROVE w2.at[i] = w1.at[i]
    <3>1. w1.at[i] = x \/ w1.at[i] = NoObj
      BY <1>4, <2>1 DEF Migrated, World
    <3>2. EntersPowersave => Sleeper # NoObj
      BY SleeperIs, PlacementAssumption
    <3> QED
      BY <1>5, <1>6, <3>1, <3>2
  <2> QED
    BY <2>1, AheadSame
<1>7. EntersPowersave => Sleeper \in Objs /\ depth[Sleeper] = 3
  BY SleeperIs, Ranks
<1>8. ASSUME NEW x \in Objs, depth[x] # 3 PROVE Untouched(w2, x)
  BY <1>3, <1>4, <1>6, <1>7, <1>8 DEF Done
<1>9. depth[o] = 3 => Ahead(w2, o)
  BY <1>4, <1>6 DEF Done
<1>10. Done(2, w2, w3)
  BY <1>1, <1>5, <1>8, FindDepth DEF Due
<1>. HIDE DEF w3
<1>11. Due(1, w3) /\ Done(1, w3, w4)
  <2>1. Due(1, w3)
    BY <1>8, <1>10 DEF Due, Done
  <2> QED
    BY <1>1, <2>1, FindDepth
<1>. HIDE DEF w4
<1>12. Due(0, w4) /\ Done(0, w4, w5)
  <2>1. \A x \in Objs : depth[x] = 0 => Untouched(w3, x)
    BY <1>8, <1>10 DEF Done
  <2>2. Due(0, w4)
    BY <1>11, <2>1 DEF Due, Done
  <2> QED
    BY <1>1, <2>2, FindDepth
<1>13. Freed = w5
  BY DEF Freed, w5, w4, w3, w2, w1
<1>. HIDE DEF w5
<1> QED
  BY <1>2, <1>9, <1>10, <1>11, <1>12, <1>13 DEF Done

-----------------------------------------------------------------------------
(* The theorems                                                            *)

(* An interrupt that is on a list is there once.                           *)
LEMMA HowOften ==
    ASSUME NEW s \in Seq(Irqs), NoRepeat(s), NEW i
    PROVE  Cardinality({n \in DOMAIN s : s[n] = i}) = IF In(i, s) THEN 1 ELSE 0
<1>1. CASE In(i, s)
  <2>1. PICK n \in DOMAIN s : s[n] = i
    BY <1>1 DEF In
  <2>2. {m \in DOMAIN s : s[m] = i} = {n}
    BY <2>1 DEF NoRepeat
  <2> QED
    BY <1>1, <2>2, FS_Singleton
<1>2. CASE ~In(i, s)
  <2>1. {m \in DOMAIN s : s[m] = i} = {}
    BY <1>2 DEF In
  <2> QED
    BY <1>2, <2>1, FS_EmptySet
<1> QED
  BY <1>1, <1>2

(* The invariant the others rest on: migrate_irq and assigned_obj are kept *)
(* in step by every loop of a cycle, no interrupt is on a CPU that sleeps  *)
(* or below its level, or on a node that may not be used.                  *)
THEOREM PlacesAreRight == Spec => []Rightly(World)
<1>1. Init => Rightly(World)
  BY StartsHomed
<1>2. Rightly(World) /\ [Next]_vars => Rightly(World)'
  BY StaysRight
<1> QED
  BY <1>1, <1>2, PTL DEF Spec

(* An interrupt is on the list of assigned_obj and on no other, once; one  *)
(* without an object is on the rebalance list, if it may be balanced       *)
(* (migrate_irq, classify.c:611-628, and its callers).                     *)
THEOREM OneHomeEach == Spec => []OneHome
<1>1. Rightly(World) => OneHome
  <2>. SUFFICES ASSUME Rightly(World), NEW i \in Irqs, NEW l \in Objs \cup {Rebalance}
                PROVE  Cardinality({n \in DOMAIN interrupts[l] : interrupts[l][n] = i}) =
                           IF l = assigned_obj[i]
                              \/ (l = Rebalance /\ assigned_obj[i] = NoObj /\ Level[i] # 0)
                           THEN 1 ELSE 0
    BY DEF OneHome
  <2>1. /\ interrupts[l] \in Seq(Irqs) /\ NoRepeat(interrupts[l])
        /\ In(i, interrupts[l]) <=> Belongs(i, assigned_obj[i], l)
    BY DEF Rightly, Homed, World, Lists
  <2>2. Cardinality({n \in DOMAIN interrupts[l] : interrupts[l][n] = i})
            = IF In(i, interrupts[l]) THEN 1 ELSE 0
    BY <2>1, HowOften
  <2> QED
    BY <2>1, <2>2 DEF Belongs
<1> QED
  BY <1>1, PlacesAreRight, PTL

(* Once the interrupts are placed, a CPU in powersave mode has none        *)
(* (irqlist.c:162-166, placement.c:46); indeed it never has any.           *)
THEOREM SleepersAreEmpty == Spec => []SleepersEmpty
<1>1. Rightly(World) => SleepersEmpty
  <2>. SUFFICES ASSUME Rightly(World), NEW c \in CpuObjs, powersave_mode[c]
                PROVE  interrupts[c] = <<>>
    BY DEF SleepersEmpty
  <2>1. c \in Objs /\ c \in Lists
    BY DEF CpuObjs, Objs, Lists
  <2>2. interrupts[c] \in Seq(Irqs) /\ \A n \in DOMAIN interrupts[c] :
            interrupts[c][n] \in Irqs /\ assigned_obj[interrupts[c][n]] = c
    BY <2>1, ListOf DEF Rightly, World
  <2>3. \A i \in Irqs : assigned_obj[i] # c
    BY DEF Rightly, Awake, World
  <2>4. DOMAIN interrupts[c] = {}
    BY <2>2, <2>3
  <2>5. Len(interrupts[c]) \in Nat /\ DOMAIN interrupts[c] = 1..Len(interrupts[c])
    BY <2>2
  <2>6. Len(interrupts[c]) = 0
    BY <2>4, <2>5
  <2> QED
    BY <2>2, <2>6
<1> QED
  BY <1>1, PlacesAreRight, PTL

(* An interrupt that calculate_placement gives an object is not below its  *)
(* level, and above it only if none of the children can have it            *)
(* (placement.c:75-115, 187-198).                                          *)
THEOREM LevelsAreReached == Spec => ReachesLevel
<1>1. ASSUME Rightly(World), Next, pc = "place", NEW i \in Irqs,
             assigned_obj'[i] # assigned_obj[i]
      PROVE  LET o == assigned_obj'[i] IN
             \/ depth[o] = Level[i]
             \/ /\ depth[o] < Level[i]
                /\ \A c \in ToSet(children[o]) : ~Eligible(i, c)
  <2>1. Becomes(Placed)
    BY <1>1 DEF Next, Measure, MeasureFails, UpdateMigrationStatus, ActivateMappings,
                CalculatePlacement, Placed, Above
  <2>2. Rightly(Placed) /\ (Placed.at[i] # World.at[i] =>
                                Placed.at[i] \in Objs /\ Settled(i, Placed.at[i]))
    BY <1>1, PlacementPlaces
  <2>3. assigned_obj' = Placed.at /\ World.at = assigned_obj
    BY <2>1 DEF Becomes, World
  <2>. DEFINE o == Placed.at[i]
  <2>4. o \in Objs /\ Settled(i, o) /\ o # NoObj
    BY <1>1, <2>2, <2>3, PlacementAssumption
  <2>5. depth[o] <= Level[i] /\ depth[o] \in 0..3 /\ Level[i] \in 0..3
    BY <2>2, <2>4, Ranks, PlacementAssumption DEF Rightly, NotBelow
  <2>. HIDE DEF o
  <2>6. \A c \in ToSet(children[o]) : In(c, children[o])
    BY DEF ToSet, In
  <2>7. \/ depth[o] = Level[i]
        \/ depth[o] < Level[i] /\ \A c \in ToSet(children[o]) : ~Eligible(i, c)
    BY <2>4, <2>5, <2>6 DEF Settled
  <2> QED
    BY <2>3, <2>7 DEF o
<1>2. Rightly(World) /\ [Next]_vars =>
          [pc = "place" =>
              \A i \in Irqs :
                  assigned_obj'[i] # assigned_obj[i] =>
                      LET o == assigned_obj'[i] IN
                      \/ depth[o] = Level[i]
                      \/ /\ depth[o] < Level[i]
                         /\ \A c \in ToSet(children[o]) : ~Eligible(i, c)]_vars
  BY <1>1
<1> QED
  BY <1>2, PlacesAreRight, PTL DEF Spec, ReachesLevel

(* What the marks are for: an interrupt that is not marked as moved has    *)
(* the affinity of its place, if the kernel takes every mask that is       *)
(* written (activate.c:96-102 does not look at the result of the write).   *)
THEOREM MappingIsDone == "rejected" \notin IoOutcomes => (Spec => []MappingDone)
<1>. SUFFICES ASSUME "rejected" \notin IoOutcomes PROVE Spec => []MappingDone
  OBVIOUS
<1>1. Init => MappingDone
  BY DEF Init, MappingDone, HasTarget
<1>2. ASSUME Rightly(World), MappingDone, [Next]_vars PROVE MappingDone'
  <2>1. ASSUME affinity' = affinity,
               \A i \in Irqs : ~moved'[i] => ~moved[i] /\ assigned_obj'[i] = assigned_obj[i]
        PROVE  MappingDone'
    BY <1>2, <2>1 DEF MappingDone, HasTarget, Target
  <2>2. CASE UNCHANGED vars \/ Measure \/ MeasureFails
    BY <2>1, <2>2 DEF vars, irqVars, Measure, MeasureFails
  <2>3. CASE UpdateMigrationStatus
    <3>1. Becomes(Freed) /\ Migrated(World, Freed) /\ affinity' = affinity
      BY <1>2, <2>3, StatusMigrates DEF UpdateMigrationStatus, Freed, Rightly
    <3> QED
      BY <2>1, <3>1 DEF Becomes, Migrated, World
  <2>4. CASE CalculatePlacement
    <3>1. Becomes(Placed) /\ Marked(World, Placed) /\ affinity' = affinity
      BY <1>2, <2>4, PlacementPlaces DEF CalculatePlacement, Placed, Above
    <3> QED
      BY <2>1, <3>1 DEF Becomes, Marked, World
  <2>5. CASE ActivateMappings
    <3>1. PICK io \in [Irqs -> IoOutcomes] :
              /\ moved' = [i \in Irqs |-> moved[i] /\ ~Written(i, io[i])]
              /\ affinity' = [i \in Irqs |-> IF Written(i, io[i]) /\ io[i] # "rejected"
                                             THEN Target(i) ELSE affinity[i]]
              /\ assigned_obj' = assigned_obj
      BY <2>5 DEF ActivateMappings
    <3>2. \A i \in Irqs : io[i] # "rejected"
      OBVIOUS
    <3>3. ASSUME NEW i \in Irqs, ~moved'[i], HasTarget(i) PROVE affinity'[i] = Target(i)
      <4>1. CASE Written(i, io[i])
        BY <3>1, <3>2, <4>1
      <4>2. CASE ~Written(i, io[i])
        <5>1. ~moved[i] /\ affinity'[i] = affinity[i]
          BY <3>1, <3>3, <4>2
        <5> QED
          BY <1>2, <3>3, <5>1 DEF MappingDone
      <4> QED
        BY <4>1, <4>2
    <3> QED
      BY <3>1, <3>3 DEF MappingDone, HasTarget, Target
  <2> QED
    BY <1>2, <2>2, <2>3, <2>4, <2>5 DEF Next
<1>3. Rightly(World) /\ MappingDone /\ [Next]_vars => MappingDone'
  BY <1>2
<1> QED
  BY <1>1, <1>3, PlacesAreRight, PTL DEF Spec

(* The hint of i allows a CPU of the object o.                             *)
Fits(i, o) == Policy[i] = "subset" /\ Hint[i] # {} => Hint[i] \cap Mask[o] # {}

(* An interrupt is left on a node only if it fits none of the packages.    *)
NodesLeft ==
    \A i \in Irqs :
        assigned_obj[i] # NoObj /\ depth[assigned_obj[i]] = 0 =>
            \A c \in Objs : Parent[c] = assigned_obj[i] => ~Fits(i, c)

(* Who need not go down from a node fits none of its packages.             *)
LEMMA PackagesFit ==
    ASSUME NEW i \in Irqs, NEW o \in Objs, depth[o] = 0, Settled(i, o), Level[i] # 0,
           NEW c \in Objs, Parent[c] = o
    PROVE  ~Fits(i, c)
<1>1. ~Eligible(i, c)
  BY ChildrenAre DEF Settled
<1>2. o # NoObj /\ depth[c] # 0 /\ depth[c] = 1
  <2>1. o # NoObj /\ depth[c] \in 0..3
    BY PlacementAssumption, Ranks
  <2>2. depth[c] # 0 /\ depth[o] = depth[c] - 1
    BY <2>1, PlacementAssumption
  <2> QED
    BY <2>1, <2>2
<1>3. c # Unspecified /\ c \notin CpuObjs
  <2>1. c \notin ToSet(NodeList)
    <3>1. ~In(c, NodeList)
      BY <1>2, Ranks
    <3> QED
      BY <3>1 DEF ToSet, In
  <2> QED
    BY <1>2, <2>1, Ranks, PlacementAssumption
<1> QED
  BY <1>1, <1>2, <1>3 DEF Eligible, Fits

(* Where a mask that is written comes from.                                *)
LEMMA TargetAllowed ==
    ASSUME Rightly(World), NodesLeft, NEW i \in Irqs, HasTarget(i)
    PROVE  /\ WithinHint(i, Target(i))
           /\ Target(i) \cap Banned # {} => LeftOnNode(i, Target(i))
<1>1. CASE IsExact(i)
  BY <1>1 DEF HasTarget, Target, IsExact, WithinHint
<1>2. CASE ~IsExact(i)
  <2>. DEFINE o == assigned_obj[i]
              Subset == Policy[i] = "subset" /\ Hint[i] # {}
  <2>1. o \in Objs /\ depth[o] \in 0..3 /\ o # NoObj
    BY Ranks, PlacementAssumption DEF HasTarget, Rightly, Homed, World
  <2>2. Unbanned \cap Banned = {}
    BY DEF Unbanned
  <2>3. Target(i) = IF Subset THEN Mask[o] \cap Hint[i] ELSE Mask[o]
    BY <1>2 DEF Target
  <2>4. Subset => Target(i) \cap Unbanned # {}
    BY DEF HasTarget
  <2>5. WithinHint(i, Target(i))
    BY <1>2, <2>3, <2>4 DEF WithinHint, IsExact
  <2>6. CASE depth[o] # 0
    <3>1. Mask[o] \subseteq Unbanned
      BY <2>1, <2>6, PlacementAssumption
    <3> QED
      BY <2>2, <2>3, <2>5, <3>1
  <2>7. CASE depth[o] = 0
    <3>1. o \in ToSet(NodeList)
      BY <2>1, <2>7, Ranks DEF ToSet, In
    <3>2. Target(i) \ Banned # {}
      <4>1. Mask[o] \cap Unbanned # {}
        BY <2>1, <2>7 DEF Rightly, OnUsable, Usable, World
      <4>2. Target(i) \cap Unbanned # {}
        BY <2>3, <2>4, <4>1
      <4> QED
        BY <2>2, <4>2
    <3>3. ASSUME NEW c \in ToSet(children[o]) PROVE Mask[c] \cap Target(i) = {}
      <4>1. c \in Objs /\ Parent[c] = o
        BY <2>1, ChildrenAre DEF ToSet, In
      <4>2. ~Fits(i, c)
        BY <2>1, <2>7, <4>1 DEF NodesLeft
      <4> QED
        BY <2>3, <4>2 DEF Fits
    <3> QED
      BY <2>5, <3>1, <3>2, <3>3 DEF LeftOnNode
  <2> QED
    BY <2>6, <2>7
<1> QED
  BY <1>1, <1>2

(* A mask that is written keeps to the hint, and has a banned CPU only for *)
(* an interrupt that fits no package of the node it is on (activate.c:50-  *)
(* 105, placement.c:65-161), on any topology.                              *)
THEOREM MasksAreAllowed == Spec => MasksAllowed
<1>1. Init => NodesLeft
  BY DEF Init, NodesLeft
<1>2. ASSUME Rightly(World), NodesLeft, [Next]_vars PROVE NodesLeft'
  <2>1. ASSUME NEW v, assigned_obj' = v.at,
               \A i \in Irqs : \/ v.at[i] = NoObj \/ v.at[i] = assigned_obj[i]
                               \/ v.at[i] \in Objs /\ Settled(i, v.at[i]) /\ Level[i] # 0
        PROVE  NodesLeft'
    <3>. SUFFICES ASSUME NEW i \in Irqs, v.at[i] # NoObj, depth[v.at[i]] = 0,
                         NEW c \in Objs, Parent[c] = v.at[i]
                  PROVE  ~Fits(i, c)
      BY <2>1 DEF NodesLeft
    <3> QED
      BY <1>2, <2>1, PackagesFit DEF NodesLeft
  <2>2. CASE assigned_obj' = assigned_obj
    BY <1>2, <2>2 DEF NodesLeft
  <2>3. CASE UpdateMigrationStatus
    <3>1. Becomes(Freed) /\ Migrated(World, Freed)
      BY <1>2, <2>3, StatusMigrates DEF UpdateMigrationStatus, Freed, Rightly
    <3> QED
      BY <2>1, <3>1 DEF Becomes, Migrated, World
  <2>4. CASE CalculatePlacement
    <3>1. /\ Becomes(Placed) /\ Rightly(Placed)
          /\ \A i \in Irqs : Placed.at[i] # World.at[i] =>
                                 Placed.at[i] \in Objs /\ Settled(i, Placed.at[i])
      BY <1>2, <2>4, PlacementPlaces DEF CalculatePlacement, Placed, Above
    <3>2. \A i \in Irqs : Placed.at[i] \in Objs => Level[i] # 0
      BY <3>1, PlacementAssumption DEF Rightly, Homed
    <3> QED
      BY <2>1, <3>1, <3>2 DEF Becomes, World
  <2> QED
    BY <1>2, <2>2, <2>3, <2>4
       DEF Next, Measure, MeasureFails, ActivateMappings, vars, irqVars
<1>3. Rightly(World) /\ NodesLeft /\ [Next]_vars => NodesLeft'
  BY <1>2
<1>4. Rightly(World) /\ NodesLeft /\ [Next]_vars =>
          [\A i \in Irqs : affinity'[i] # affinity[i] =>
               /\ WithinHint(i, affinity'[i])
               /\ affinity'[i] \cap Banned # {} => LeftOnNode(i, affinity'[i])]_vars
  <2>. SUFFICES ASSUME Rightly(World), NodesLeft, Next, NEW i \in Irqs,
                       affinity'[i] # affinity[i]
                PROVE  /\ WithinHint(i, affinity'[i])
                       /\ affinity'[i] \cap Banned # {} => LeftOnNode(i, affinity'[i])
    OBVIOUS
  <2>1. affinity'[i] = Target(i) /\ HasTarget(i)
    BY DEF Next, Measure, MeasureFails, UpdateMigrationStatus, CalculatePlacement,
           ActivateMappings, Written, Writes
  <2> QED
    BY <2>1, TargetAllowed
<1> QED
  BY <1>1, <1>3, <1>4, PlacesAreRight, PTL DEF Spec, MasksAllowed

(* The interrupts that move_candidate_irqs may take from an object have no *)
(* more load than the object, so its differences do not wrap               *)
(* (irqlist.c:77-80, procinterrupts.c:214-260).                            *)
THEOREM LoadsAlwaysFit == Spec => []LoadsFit
<1>1. Init => (pc = "migrate" => Fitting)
  BY DEF Init
<1>2. Rightly(World) /\ (pc = "migrate" => Fitting) /\ [Next]_vars => (pc = "migrate" => Fitting)'
  <2>. SUFFICES ASSUME Rightly(World), pc = "migrate" => Fitting, [Next]_vars
                PROVE  (pc = "migrate" => Fitting)'
    OBVIOUS
  <2>1. CASE UNCHANGED vars
    BY <2>1 DEF vars, irqVars, Fitting
  <2>2. CASE Measure
    BY <2>2, MeasureFits
  <2>3. CASE MeasureFails
    BY <2>3, MeasureFailsFits
  <2>4. CASE UpdateMigrationStatus \/ CalculatePlacement \/ ActivateMappings
    <3>1. pc' # "migrate"
      BY <2>4 DEF UpdateMigrationStatus, CalculatePlacement, ActivateMappings
    <3> QED
      BY <3>1
  <2> QED
    BY <2>1, <2>2, <2>3, <2>4 DEF Next
<1>3. (pc = "migrate" => Fitting) <=> LoadsFit
  BY DEF LoadsFit, Fitting
<1> QED
  BY <1>1, <1>2, <1>3, PlacesAreRight, PTL DEF Spec

(* An object that gives interrupts up keeps one, and has more load left    *)
(* than the least loaded object of its list has with all of them; only the *)
(* CPU that is put to sleep loses every interrupt (irqlist.c:52-120,       *)
(* 161-171).                                                               *)
THEOREM GiversStayAhead == Spec => StaysAhead
<1>1. ASSUME Rightly(World), Next, pc = "migrate", NEW o \in Objs,
             GivenUp(o) # {}, EntersPowersave => o # Sleeper
      PROVE  LET out == LoadGivenUp(o)
             IN  /\ GivenUp(o) # On(o)
                 /\ \E p \in Peers(o) : objLoad[o] - out > objLoad[p] + out
  <2>1. Becomes(Freed)
    BY <1>1 DEF Next, Measure, MeasureFails, CalculatePlacement, ActivateMappings,
                UpdateMigrationStatus, Freed
  <2>2. assigned_obj' = Freed.at
    BY <2>1 DEF Becomes
  <2>3. Ahead(Freed, o)
    BY <1>1, StatusAhead
  <2>4. /\ \A i \in On(o) : i \in Irqs /\ assigned_obj[i] = o
        /\ \A i \in Irqs : assigned_obj[i] = o => i \in On(o)
    BY <1>1, Before DEF On, ToSet, In
  <2>5. o # NoObj
    BY PlacementAssumption
  <2>6. ~Untouched(Freed, o)
    BY <1>1, <2>2, <2>4, <2>5 DEF GivenUp, Untouched
  <2>7. LoadGivenUp(o) = Lost(Freed, o)
    BY <2>2 DEF LoadGivenUp, Lost
  <2>8. GivenUp(o) # On(o)
    <3>1. PICK i \in Irqs : assigned_obj[i] = o /\ Freed.at[i] = o
      BY <2>3, <2>6 DEF Ahead
    <3> QED
      BY <2>2, <2>4, <2>5, <3>1 DEF GivenUp
  <2> QED
    BY <2>3, <2>6, <2>7, <2>8 DEF Ahead
<1>2. Rightly(World) /\ [Next]_vars =>
          [pc = "migrate" =>
              \A o \in Objs :
                  LET out == LoadGivenUp(o) IN
                  GivenUp(o) # {} /\ (EntersPowersave => o # Sleeper) =>
                      /\ GivenUp(o) # On(o)
                      /\ \E p \in Peers(o) : objLoad[o] - out > objLoad[p] + out]_vars
  BY <1>1
<1> QED
  BY <1>2, PlacesAreRight, PTL DEF Spec, StaysAhead

-----------------------------------------------------------------------------
(* The type                                                                *)

(* A list on which no interrupt is twice is as long as there are some.     *)
LEMMA ShortList ==
    ASSUME NEW s \in Seq(Irqs), NoRepeat(s)
    PROVE  s \in SeqOf(Irqs, Cardinality(Irqs))
<1>. DEFINE D == 1..Len(s)
<1>1. Len(s) \in Nat /\ s \in [D -> Irqs]
  OBVIOUS
<1>2. IsFiniteSet(D) /\ Cardinality(D) = Len(s)
  BY <1>1, FS_Interval
<1>3. s \in Injection(D, Irqs)
  BY <1>1 DEF NoRepeat, Injection, IsInjective
<1>4. IsFiniteSet(Irqs) /\ Cardinality(Irqs) \in Nat
  BY PlacementAssumption, FS_CardinalityType
<1>. HIDE DEF D
<1>5. Cardinality(D) <= Cardinality(Irqs)
  BY <1>3, <1>4, FS_Injection
<1>6. Len(s) \in 0..Cardinality(Irqs)
  BY <1>1, <1>2, <1>4, <1>5
<1> QED
  BY <1>1, <1>6 DEF SeqOf, D

(* What the kernel, the CPUs and main keep.                                *)
Kept ==
    /\ powersave_mode \in [CpuObjs -> BOOLEAN]
    /\ affinity \in [Irqs -> SUBSET CpuNumbers]
    /\ cycle_count \in 0..(WarmUp + 1)
    /\ pc \in {"measure", "migrate", "place", "activate"}

(* activate_mappings writes masks of CPUs only (activate.c:50-103).        *)
LEMMA TargetNamesCpus ==
    ASSUME MasksNameCpus, Rightly(World), NEW i \in Irqs, HasTarget(i)
    PROVE  Target(i) \subseteq CpuNumbers
<1>1. assigned_obj[i] \in Objs
  BY DEF HasTarget, Rightly, Homed, World
<1> QED
  BY <1>1 DEF Target, MasksNameCpus

(* All that main's loop keeps between two calls has its type; no list has  *)
(* more entries than there are interrupts (main, irqbalance.c:338-375).    *)
THEOREM PlacementTypeCorrect == MasksNameCpus => (Spec => []TypeOK)
<1>. SUFFICES ASSUME MasksNameCpus PROVE Spec => []TypeOK
  OBVIOUS
<1>1. WarmUp \in Nat
  BY PlacementAssumption
<1>2. Init => Kept
  BY <1>1 DEF Init, Kept
<1>3. Rightly(World) /\ Kept /\ [Next]_vars => Kept'
  <2>. SUFFICES ASSUME Rightly(World), Kept, [Next]_vars PROVE Kept'
    OBVIOUS
  <2>1. CASE UNCHANGED vars
    BY <2>1 DEF vars, Kept
  <2>2. CASE Measure
    BY <2>2 DEF Measure, AfterMeasure, Kept
  <2>3. CASE MeasureFails
    BY <2>3 DEF MeasureFails, AfterMeasure, Kept
  <2>4. CASE UpdateMigrationStatus
    <3>1. powersave_mode' \in [CpuObjs -> BOOLEAN]
      <4>1. \A c \in CpuObjs : powersave_mode[c] \in BOOLEAN
        BY DEF Kept
      <4>. HIDE DEF EntersPowersave, LeavesPowersave
      <4> QED
        BY <2>4, <4>1 DEF UpdateMigrationStatus, UpdatePowersave
    <3> QED
      BY <2>4, <3>1 DEF UpdateMigrationStatus, Kept
  <2>5. CASE CalculatePlacement
    BY <2>5 DEF CalculatePlacement, Kept
  <2>6. CASE ActivateMappings
    <3>1. PICK io \in [Irqs -> IoOutcomes] :
              affinity' = [i \in Irqs |-> IF Written(i, io[i]) /\ io[i] # "rejected"
                                          THEN Target(i) ELSE affinity[i]]
      BY <2>6 DEF ActivateMappings
    <3>2. ASSUME NEW i \in Irqs, Written(i, io[i]) PROVE Target(i) \subseteq CpuNumbers
      BY <3>2, TargetNamesCpus DEF Written, Writes
    <3>3. affinity' \in [Irqs -> SUBSET CpuNumbers]
      BY <3>1, <3>2 DEF Kept
    <3>4. cycle_count' \in 0..(WarmUp + 1)
      BY <1>1, <2>6 DEF ActivateMappings, Kept
    <3> QED
      BY <2>6, <3>3, <3>4 DEF ActivateMappings, Kept
  <2> QED
    BY <2>1, <2>2, <2>3, <2>4, <2>5, <2>6 DEF Next
<1>4. Rightly(World) /\ Kept => TypeOK
  <2>. SUFFICES ASSUME Rightly(World), Kept PROVE TypeOK
    OBVIOUS
  <2>1. /\ interrupts \in [Lists -> Seq(Irqs)] /\ \A l \in Lists : NoRepeat(interrupts[l])
        /\ assigned_obj \in [Irqs -> Objs \cup {NoObj}] /\ moved \in [Irqs -> BOOLEAN]
        /\ load \in [Irqs -> Nat] /\ objLoad \in [Objs -> Nat]
    BY DEF Rightly, Homed, World, Loaded
  <2>2. \A l \in Lists : interrupts[l] \in SeqOf(Irqs, Cardinality(Irqs))
    BY <2>1, ShortList
  <2>3. interrupts \in [Lists -> SeqOf(Irqs, Cardinality(Irqs))]
    BY <2>1, <2>2
  <2> QED
    BY <2>1, <2>3 DEF TypeOK, Kept, Lists
<1> QED
  BY <1>2, <1>3, <1>4, PlacesAreRight, PTL DEF Spec
=============================================================================
