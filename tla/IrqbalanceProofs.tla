--------------------------- MODULE IrqbalanceProofs ---------------------------
(***************************************************************************)
(* Two parts of irqbalance that stand by themselves.  The masks of Bitmap  *)
(* are the sets that the other modules take them for, of any size, what is *)
(* printed of them is read back, and a text is read as the comments say.   *)
(* And the main loop of IrqDaemon compares loads only on a topology that   *)
(* its last look at the kernel agrees with, whatever the kernel and the    *)
(* signals do.                                                             *)
(***************************************************************************)
EXTENDS Bitmap, IrqDaemon, FiniteSetTheorems, SequenceTheorems, WellFoundedInduction, TLAPS

-----------------------------------------------------------------------------
(* Induction and folds                                                     *)

(* A set of natural numbers that is not empty has a least member.          *)
LEMMA Least ==
    ASSUME NEW T, T \subseteq Nat, T # {}
    PROVE  \E p \in T : \A q \in T : p <= q
<1>. DEFINE R == {ss \in Nat \X Nat : ss[1] < ss[2]}
<1>1. IsWellFoundedOn(R, Nat)
  BY NatLessThanWellFounded DEF OpToRel
<1>2. PICK p \in T : \A q \in T : ~(<<q, p>> \in R)
  BY <1>1, WFMin
<1>3. ASSUME NEW q \in T PROVE p <= q
  <2>1. p \in Nat /\ q \in Nat /\ <<q, p>> \in Nat \X Nat /\ <<q, p>> \notin R
    BY <1>2, <1>3
  <2>2. ~(q < p)
    BY <2>1
  <2> QED
    BY <2>1, <2>2
<1> QED
  BY <1>3

(* A set that contains zero and with a number the next one contains all.   *)
LEMMA Induct ==
    ASSUME NEW T, 0 \in T, \A n \in Nat : n \in T => n + 1 \in T
    PROVE  Nat \subseteq T
<1>. DEFINE U == Nat \ T
            R == {ss \in Nat \X Nat : ss[1] < ss[2]}
<1>1. SUFFICES ASSUME U # {} PROVE FALSE
  OBVIOUS
<1>2. IsWellFoundedOn(R, Nat)
  BY NatLessThanWellFounded DEF OpToRel
<1>3. PICK i \in U : \A j \in U : ~(<<j, i>> \in R)
  BY <1>1, <1>2, WFMin
<1>4. i # 0 /\ i - 1 \in Nat /\ (i - 1) + 1 = i /\ i - 1 < i
  BY <1>3
<1>5. i - 1 \in T
  BY <1>3, <1>4
<1> QED
  BY <1>3, <1>4, <1>5

(* What holds before a loop and is kept by every turn holds behind it.     *)
LEMMA EveryTurn ==
    ASSUME NEW n \in Nat, NEW T, 0 \in T, \A m \in 1..n : m - 1 \in T => m \in T
    PROVE  n \in T
<1>. DEFINE U == {m \in Nat : m <= n => m \in T}
<1>1. 0 \in U
  OBVIOUS
<1>2. ASSUME NEW m \in Nat, m \in U PROVE m + 1 \in U
  <2>1. m + 1 <= n => m + 1 \in 1..n /\ (m + 1) - 1 = m /\ m <= n
    OBVIOUS
  <2> QED
    BY <1>2, <2>1
<1>. HIDE DEF U
<1>3. Nat \subseteq U
  BY <1>1, <1>2, Induct
<1> QED
  BY <1>3 DEF U

(* One turn of the loop that k names, with p carried along and q its turn. *)
Step(k, p, q) ==
    CASE k[1] = "weight" -> p + Cardinality(Inside(k[2], q - 1))
      [] k[1] = "print"  -> PrintChunk(k[2], p, q)
      [] k[1] = "parse"  -> ParseChar(p, q)

(* What FoldLeft chooses: the results of the loop on the first elements.   *)
Top(t) == CHOOSE p \in t : \A q \in t : p >= q
Folds(g, k, b, s, n) ==
    g = [t \in SUBSET (1..n) |-> IF t = {} THEN b ELSE Step(k, g[t \ {Top(t)}], s[Top(t)])]
Folded(k, b, s) == (CHOOSE g : Folds(g, k, b, s, Len(s)))[1..Len(s)]

(* The largest of the first n indices, if it is among them, is the last.   *)
LEMMA TopIs ==
    ASSUME NEW n \in Nat, NEW t \in SUBSET (1..n), n \in t
    PROVE  Top(t) = n
<1>1. \A q \in t : n >= q
  OBVIOUS
<1>2. \A p \in t : (\A q \in t : p >= q) => p = n
  OBVIOUS
<1> QED
  BY <1>1, <1>2 DEF Top

(* There is such a function, by induction over the number of turns.        *)
LEMMA FoldExists ==
    ASSUME NEW k, NEW b, NEW s
    PROVE  \A n \in Nat : \E g : Folds(g, k, b, s, n)
<1>. DEFINE T == {n \in Nat : \E g : Folds(g, k, b, s, n)}
<1>1. 0 \in T
  <2>. DEFINE g == [t \in SUBSET (1..0) |-> b]
  <2>1. g = [t \in SUBSET (1..0) |-> IF t = {} THEN b ELSE Step(k, g[t \ {Top(t)}], s[Top(t)])]
    OBVIOUS
  <2> QED
    BY <2>1 DEF Folds
<1>2. ASSUME NEW n \in Nat, n \in T PROVE n + 1 \in T
  <2>1. PICK g : Folds(g, k, b, s, n)
    BY <1>2
  <2>. DEFINE h == [t \in SUBSET (1..(n + 1)) |->
                       IF n + 1 \in t THEN Step(k, g[t \ {n + 1}], s[n + 1]) ELSE g[t]]
  <2>2. ASSUME NEW t \in SUBSET (1..(n + 1))
        PROVE  h[t] = IF t = {} THEN b ELSE Step(k, h[t \ {Top(t)}], s[Top(t)])
    <3>1. CASE n + 1 \in t
      <4>1. Top(t) = n + 1
        BY <3>1, TopIs
      <4>2. t \ {n + 1} \in SUBSET (1..(n + 1)) /\ n + 1 \notin t \ {n + 1}
        OBVIOUS
      <4>3. h[t \ {n + 1}] = g[t \ {n + 1}]
        BY <4>2
      <4> QED
        BY <3>1, <4>1, <4>3
    <3>2. CASE n + 1 \notin t
      <4>1. t \in SUBSET (1..n)
        BY <3>2
      <4>2. h[t] = g[t]
        BY <3>2
      <4>3. g[t] = IF t = {} THEN b ELSE Step(k, g[t \ {Top(t)}], s[Top(t)])
        BY <2>1, <4>1 DEF Folds
      <4>4. t \ {Top(t)} \in SUBSET (1..(n + 1)) /\ n + 1 \notin t \ {Top(t)}
        BY <3>2
      <4>5. h[t \ {Top(t)}] = g[t \ {Top(t)}]
        BY <4>4
      <4> QED
        BY <4>2, <4>3, <4>5
    <3> QED
      BY <3>1, <3>2
  <2>3. Folds(h, k, b, s, n + 1)
    BY <2>2 DEF Folds
  <2> QED
    BY <2>3
<1>3. Nat \subseteq T
  <2>. HIDE DEF T
  <2> QED
    BY <1>1, <1>2, Induct
<1> QED
  BY <1>3

(* A loop is a sequence of turns.                                          *)
Turns(acc, k, b, s) ==
    /\ acc[0] = b
    /\ \A n \in 1..Len(s) : acc[n] = Step(k, acc[n - 1], s[n])

(* A fold over a list has the result of its last turn.                     *)
LEMMA FoldLeftSteps ==
    ASSUME NEW k, NEW b, NEW S, NEW s \in Seq(S)
    PROVE  \E acc : Turns(acc, k, b, s) /\ Folded(k, b, s) = acc[Len(s)]
<1>. DEFINE g == CHOOSE g : Folds(g, k, b, s, Len(s))
<1>1. Len(s) \in Nat /\ DOMAIN s = 1..Len(s)
  OBVIOUS
<1>2. Folds(g, k, b, s, Len(s))
  BY <1>1, FoldExists
<1>3. Folded(k, b, s) = g[1..Len(s)]
  BY <1>1 DEF Folded
<1>. HIDE DEF g
<1>. DEFINE acc == [n \in 0..Len(s) |-> g[1..n]]
<1>4. acc[0] = b
  BY <1>1, <1>2 DEF Folds
<1>5. ASSUME NEW n \in 1..Len(s) PROVE acc[n] = Step(k, acc[n - 1], s[n])
  <2>0. n \in Nat /\ n <= Len(s) /\ 1 <= n /\ n \in 1..n /\ n - 1 \in 0..Len(s)
    BY <1>1
  <2>1. 1..n \in SUBSET (1..Len(s)) /\ 1..n # {}
    <3>1. \A j \in 1..n : j \in 1..Len(s)
      BY <1>1, <2>0
    <3> QED
      BY <2>0, <3>1
  <2>4. (1..n) \ {n} = 1..(n - 1)
    <3>1. \A j \in Int : j \in (1..n) \ {n} <=> j \in 1..(n - 1)
      BY <2>0
    <3> QED
      BY <3>1
  <2>2. Top(1..n) = n
    BY <2>0, TopIs
  <2>3. g[1..n] = Step(k, g[(1..n) \ {n}], s[n])
    BY <1>2, <2>1, <2>2 DEF Folds
  <2>5. acc[n] = g[1..n] /\ acc[n - 1] = g[1..(n - 1)]
    BY <2>0, <1>1
  <2> QED
    BY <2>3, <2>4, <2>5
<1>6. acc[Len(s)] = g[1..Len(s)]
  BY <1>1
<1>. HIDE DEF acc
<1> QED
  BY <1>3, <1>4, <1>5, <1>6 DEF Turns

-----------------------------------------------------------------------------
(* Positions                                                               *)

(* A position is one of a word and one in it.                              *)
LEMMA Position ==
    ASSUME NEW i \in Int
    PROVE  /\ i \div W \in Int /\ i % W \in 0..(W - 1) /\ i = W * (i \div W) + (i % W)
           /\ i \in Nat => i \div W \in Nat
  BY BitmapAssumption

(* And of no other.                                                        *)
LEMMA OnePosition ==
    ASSUME NEW k \in Int, NEW l \in Int, NEW b \in 0..(W - 1), NEW c \in 0..(W - 1),
           W * k + b = W * l + c
    PROVE  k = l /\ b = c
<1>1. ~(k < l)
  BY BitmapAssumption
<1>2. ~(l < k)
  BY BitmapAssumption
<1>3. k = l
  BY <1>1, <1>2
<1> QED
  BY <1>3, BitmapAssumption

(* See OnePosition.                                                        *)
LEMMA WordOf ==
    ASSUME NEW k \in Int, NEW b \in 0..(W - 1)
    PROVE  (W * k + b) \div W = k /\ (W * k + b) % W = b
<1>1. PICK i \in Int : i = W * k + b
  BY BitmapAssumption
<1>2. i \div W \in Int /\ i % W \in 0..(W - 1) /\ i = W * (i \div W) + (i % W)
  BY Position
<1>3. PICK l \in Int, c \in 0..(W - 1) : l = i \div W /\ c = i % W /\ i = W * l + c
  BY <1>2
<1>4. k = l /\ b = c
  BY <1>1, <1>3, OnePosition
<1> QED
  BY <1>1, <1>3, <1>4

(* Multiples of W.                                                         *)
LEMMA Grows ==
    ASSUME NEW k \in Int, NEW l \in Int
    PROVE  /\ W * k \in Int /\ W * (k + 1) = W * k + W /\ W * (k + l) = W * k + W * l
           /\ k < l => W * k + W <= W * l
           /\ k <= l => W * k <= W * l
           /\ W * k < W * l => k < l
           /\ W * k <= W * l => k <= l
<1>1. W \in Nat /\ W > 0
  BY BitmapAssumption
<1>2. k < l => W * k + W <= W * l
  BY <1>1
<1>3. k <= l => W * k <= W * l
  BY <1>1
<1>4. l < k => W * l + W <= W * k
  BY <1>1
<1> QED
  BY <1>1, <1>2, <1>3, <1>4

(* The words are as many as it takes.                                      *)
LEMMA HowMany ==
    /\ Lim \in Nat /\ Lim > 1 /\ W * Lim >= NB /\ W * (Lim - 1) < NB
    /\ Left \in 0..(W - 1)
    /\ Left = 0 => NB = W * Lim /\ NB \div W = Lim
    /\ Left # 0 => NB = W * (Lim - 1) + Left /\ NB \div W = Lim - 1
<1>0. W \in Nat /\ W > 0 /\ NB \in Nat /\ NB > W /\ NB + W - 1 \in Nat
  BY BitmapAssumption
<1>1. PICK l \in Nat, c \in 0..(W - 1) : l = Lim /\ NB + W - 1 = W * l + c
  BY <1>0, Position DEF Lim
<1>2. PICK q \in Nat, r \in 0..(W - 1) : q = NB \div W /\ r = Left /\ NB = W * q + r
  BY <1>0, Position DEF Left
<1>3. PICK u \in Int, v \in Int : u = W * l /\ v = W * q
  BY <1>0
<1>4. W * (l - 1) = u - W /\ u >= NB /\ u - W < NB
  <2>1. W * (l - 1) = W * l - W
    BY <1>0
  <2> QED
    BY <1>0, <1>1, <1>3, <2>1
<1>5. l > 1
  <2>1. ~(l <= 1)
    <3>1. l <= 1 => W * l <= W * 1
      BY Grows
    <3> QED
      BY <1>0, <1>3, <1>4, <3>1
  <2> QED
    BY <2>1
<1>6. r = 0 => q = l
  <2>1. ASSUME r = 0 PROVE v <= u /\ u < v + W
    BY <1>0, <1>1, <1>2, <1>3, <2>1
  <2>2. W * q <= W * l => q <= l
    BY Grows
  <2>3. W * l < W * (q + 1) => l < q + 1
    BY Grows
  <2>4. W * (q + 1) = v + W
    BY <1>0, <1>3
  <2> QED
    BY <1>3, <2>1, <2>2, <2>3, <2>4
<1>7. r # 0 => q = l - 1
  <2>1. ASSUME r # 0 PROVE v + W <= u /\ u < v + W + W
    BY <1>0, <1>1, <1>2, <1>3, <2>1
  <2>2. W * (q + 1) <= W * l => q + 1 <= l
    BY Grows
  <2>3. W * l < W * (q + 2) => l < q + 2
    BY Grows
  <2>4. W * (q + 1) = v + W /\ W * (q + 2) = v + W + W
    BY <1>0, <1>3
  <2> QED
    BY <1>3, <2>1, <2>2, <2>3, <2>4
<1> QED
  BY <1>1, <1>2, <1>3, <1>4, <1>5, <1>6, <1>7

(* The positions in word k that are bits of a mask.                        *)
Own(k) == {b \in 0..(W - 1) : W * k + b < NB}

(* A bit of a mask has a place among its words, and only bits have.        *)
LEMMA Places ==
    /\ \A k \in Words : Own(k) = IF k = Lim - 1 THEN LastWordMask ELSE 0..(W - 1)
    /\ \A i \in 0..(NB - 1) : \E k \in Words : \E b \in Own(k) : i = W * k + b
    /\ \A k \in Words : \A b \in Own(k) : W * k + b \in 0..(NB - 1)
    /\ \A k \in Int, b \in 0..(W - 1) : W * k + b \in 0..(NB - 1) => k \in Words /\ b \in Own(k)
<1>1. /\ W \in Nat /\ W > 0 /\ NB \in Nat /\ Lim \in Nat
      /\ W * Lim >= NB /\ W * (Lim - 1) < NB /\ Left \in 0..(W - 1)
      /\ Left = 0 => NB = W * Lim
      /\ Left # 0 => NB = W * (Lim - 1) + Left
  BY BitmapAssumption, HowMany
<1>2. PICK u \in Int : u = W * (Lim - 1) /\ W * Lim = u + W
  BY <1>1, Grows
<1>3. ASSUME NEW k \in Words PROVE Own(k) = IF k = Lim - 1 THEN LastWordMask ELSE 0..(W - 1)
  <2>1. CASE k = Lim - 1
    <3>1. \A b \in 0..(W - 1) : W * k + b < NB <=> (Left = 0 \/ b <= Left - 1)
      BY <1>1, <1>2, <2>1
    <3>2. Own(k) = {b \in 0..(W - 1) : Left = 0 \/ b <= Left - 1}
      BY <3>1 DEF Own
    <3>3. LastWordMask = {b \in 0..(W - 1) : Left = 0 \/ b <= Left - 1}
      BY <1>1 DEF LastWordMask
    <3> QED
      BY <2>1, <3>2, <3>3
  <2>2. CASE k # Lim - 1
    <3>1. k \in Int /\ k < Lim - 1 /\ Lim - 1 \in Int
      BY <1>1, <2>2 DEF Words
    <3>2. W * k + W <= u /\ W * k \in Int
      BY <1>2, <3>1, Grows
    <3>3. \A b \in 0..(W - 1) : W * k + b < NB
      BY <1>1, <1>2, <3>2
    <3> QED
      BY <2>2, <3>3 DEF Own
  <2> QED
    BY <2>1, <2>2
<1>4. ASSUME NEW k \in Int, NEW b \in 0..(W - 1), W * k + b \in 0..(NB - 1)
      PROVE  k \in Words /\ b \in Own(k)
  <2>1. PICK v \in Int : v = W * k
    BY Grows
  <2>2. v + b >= 0 /\ v + b < NB
    BY <1>1, <1>4, <2>1
  <2>3. W * (k + 1) = v + W /\ W * 0 = 0
    BY <1>1, <2>1, Grows
  <2>4. W * 0 < W * (k + 1) /\ W * k < W * Lim
    BY <1>1, <1>2, <2>1, <2>2, <2>3
  <2>5. 0 < k + 1 /\ k < Lim
    BY <1>1, <2>4, Grows
  <2> QED
    BY <1>1, <2>1, <2>2, <2>5 DEF Words, Own
<1>5. ASSUME NEW i \in 0..(NB - 1)
      PROVE  \E k \in Words : \E b \in Own(k) : i = W * k + b
  <2>1. i \div W \in Int /\ i % W \in 0..(W - 1) /\ i = W * (i \div W) + (i % W)
    BY <1>1, Position
  <2> QED
    BY <1>4, <2>1
<1>6. ASSUME NEW k \in Words, NEW b \in Own(k) PROVE W * k + b \in 0..(NB - 1)
  <2>1. k \in Nat /\ b \in Nat /\ W * k + b < NB
    BY <1>1 DEF Words, Own
  <2>2. W * k \in Int /\ W * 0 <= W * k /\ W * 0 = 0
    BY <1>1, <2>1, Grows
  <2> QED
    BY <1>1, <2>1, <2>2
<1> QED
  BY <1>3, <1>4, <1>5, <1>6

(* Bits by words.                                                          *)
LEMMA BitsAre ==
    ASSUME NEW a
    PROVE  /\ Bits(a) \subseteq 0..(NB - 1)
           /\ \A k \in Words : \A b \in Own(k) : W * k + b \in Bits(a) <=> b \in a[k]
<1>1. ASSUME NEW k \in Words, NEW b \in Own(k)
      PROVE  W * k + b \in Bits(a) <=> b \in a[k]
  <2>1. W * k + b \in 0..(NB - 1)
    BY Places DEF Own
  <2>2. (W * k + b) \div W = k /\ (W * k + b) % W = b
    BY WordOf DEF Words, Own
  <2> QED
    BY <2>1, <2>2 DEF Bits
<1> QED
  BY <1>1 DEF Bits

(* r has just the bits of S, by words.                                     *)
Has(r, S) ==
    /\ S \subseteq 0..(NB - 1)
    /\ \A k \in Words : \A b \in Own(k) : b \in r[k] <=> W * k + b \in S

(* So they are its bits.                                                   *)
LEMMA SameBits ==
    ASSUME NEW r, NEW S, Has(r, S)
    PROVE  Bits(r) = S
<1>1. ASSUME NEW i \in 0..(NB - 1) PROVE i \in Bits(r) <=> i \in S
  <2>1. PICK k \in Words, b \in 0..(W - 1) : b \in Own(k) /\ i = W * k + b
    BY Places DEF Own
  <2> QED
    BY <2>1, BitsAre DEF Has
<1> QED
  BY <1>1, BitsAre DEF Has

-----------------------------------------------------------------------------
(* The operations on words and bits                                        *)

(* __bitmap_and, __bitmap_or, __bitmap_xor and __bitmap_andnot.            *)
LEMMA WordByWord ==
    ASSUME NEW a, NEW b
    PROVE  /\ Bits(And(a, b)) = Bits(a) \cap Bits(b)
           /\ Bits(Or(a, b)) = Bits(a) \cup Bits(b)
           /\ Bits(Xor(a, b)) = (Bits(a) \ Bits(b)) \cup (Bits(b) \ Bits(a))
           /\ Bits(Andnot(a, b)) = Bits(a) \ Bits(b)
<1>1. Has(And(a, b), Bits(a) \cap Bits(b))
  BY BitsAre DEF And, Has
<1>2. Has(Or(a, b), Bits(a) \cup Bits(b))
  BY BitsAre DEF Or, Has
<1>3. Has(Xor(a, b), (Bits(a) \ Bits(b)) \cup (Bits(b) \ Bits(a)))
  BY BitsAre DEF Xor, Has
<1>4. Has(Andnot(a, b), Bits(a) \ Bits(b))
  BY BitsAre DEF Andnot, Has
<1> QED
  BY <1>1, <1>2, <1>3, <1>4, SameBits

(* __bitmap_complement.                                                    *)
LEMMA ComplementIs ==
    ASSUME NEW a
    PROVE  /\ Bits(Complement(a)) = (0..(NB - 1)) \ Bits(a)
           /\ \A k \in Words : Complement(a)[k] = Own(k) \ a[k]
<1>1. \A k \in Words : Complement(a)[k] = Own(k) \ a[k]
  BY Places DEF Complement
<1>2. Has(Complement(a), (0..(NB - 1)) \ Bits(a))
  BY <1>1, BitsAre, Places DEF Has
<1> QED
  BY <1>1, <1>2, SameBits

(* __set_bit and __clear_bit.                                              *)
LEMMA OneBit ==
    ASSUME NEW a \in Masks, NEW i \in 0..(NB - 1)
    PROVE  Bits(SetBit(a, i)) = Bits(a) \cup {i} /\ Bits(ClearBit(a, i)) = Bits(a) \ {i}
<1>1. PICK l \in Words, c \in 0..(W - 1) : c \in Own(l) /\ i = W * l + c
  BY Places DEF Own
<1>2. i \div W = l /\ i % W = c
  BY <1>1, WordOf DEF Words, Own
<1>3. ASSUME NEW k \in Words, NEW b \in Own(k) PROVE W * k + b = i <=> k = l /\ b = c
  BY <1>1, OnePosition DEF Words, Own
<1>4. \A k \in Words : /\ SetBit(a, i)[k] = IF k = l THEN a[l] \cup {c} ELSE a[k]
                       /\ ClearBit(a, i)[k] = IF k = l THEN a[l] \ {c} ELSE a[k]
  BY <1>2 DEF SetBit, ClearBit, Masks
<1>5. Has(SetBit(a, i), Bits(a) \cup {i})
  BY <1>3, <1>4, BitsAre DEF Has
<1>6. Has(ClearBit(a, i), Bits(a) \ {i})
  BY <1>3, <1>4, BitsAre DEF Has
<1> QED
  BY <1>5, <1>6, SameBits

-----------------------------------------------------------------------------
(* The questions                                                           *)

(* What the questions look at in a word.                                   *)
LEMMA InsideIs ==
    ASSUME NEW a, NEW k \in Words, a[k] \in Word
    PROVE  Inside(a, k) = a[k] \cap Own(k)
<1>1. /\ Own(k) = IF k = Lim - 1 THEN LastWordMask ELSE 0..(W - 1)
      /\ Left = 0 => NB \div W = Lim
      /\ Left # 0 => NB \div W = Lim - 1
      /\ Left = 0 => LastWordMask = 0..(W - 1)
  BY Places, HowMany DEF LastWordMask
<1>2. k # Lim
  BY HowMany DEF Words
<1>3. a[k] \subseteq 0..(W - 1)
  BY DEF Word
<1> QED
  BY <1>1, <1>2, <1>3 DEF Inside

(* Words of masks are words of masks.                                      *)
LEMMA StayMasks ==
    ASSUME NEW a \in Masks, NEW b \in Masks
    PROVE  /\ And(a, b) \in Masks /\ Or(a, b) \in Masks /\ Xor(a, b) \in Masks
           /\ Andnot(a, b) \in Masks /\ Complement(a) \in Masks
           /\ Zero \in Masks /\ Fill \in Masks
<1>1. LastWordMask \in Word
  <2>1. Left \in 0..(W - 1) /\ W \in Nat
    BY HowMany, BitmapAssumption
  <2> QED
    BY <2>1 DEF LastWordMask, Word
<1>2. And(a, b) \in Masks /\ Or(a, b) \in Masks
  BY DEF And, Or, Masks, Word
<1>3. Xor(a, b) \in Masks /\ Andnot(a, b) \in Masks
  BY DEF Xor, Andnot, Masks, Word
<1>4. Complement(a) \in Masks
  BY <1>1 DEF Complement, Masks, Word
<1>5. Zero \in Masks /\ Fill \in Masks
  BY <1>1 DEF Zero, Fill, Masks, Word
<1> QED
  BY <1>2, <1>3, <1>4, <1>5

(* The bits of a mask, word by word.                                       *)
LEMMA AnyBit ==
    ASSUME NEW a \in Masks
    PROVE  Bits(a) = {} <=> \A k \in Words : Inside(a, k) = {}
<1>1. \A k \in Words : Inside(a, k) = a[k] \cap Own(k)
  BY InsideIs DEF Masks
<1>2. ASSUME NEW i \in Bits(a) PROVE \E k \in Words : Inside(a, k) # {}
  <2>1. PICK k \in Words, b \in 0..(W - 1) : b \in Own(k) /\ i = W * k + b
    BY BitsAre, Places DEF Own
  <2>2. b \in a[k]
    BY <2>1, BitsAre
  <2> QED
    BY <1>1, <2>1, <2>2
<1>3. ASSUME NEW k \in Words, Inside(a, k) # {} PROVE Bits(a) # {}
  BY <1>1, <1>3, BitsAre
<1> QED
  BY <1>2, <1>3

(* bitmap_empty, bitmap_full, bitmap_equal, bitmap_intersects, test_bit.   *)
LEMMA Answers ==
    ASSUME NEW a \in Masks, NEW b \in Masks
    PROVE  /\ Empty(a) <=> Bits(a) = {}
           /\ Full(a) <=> Bits(a) = 0..(NB - 1)
           /\ Equal(a, b) <=> Bits(a) = Bits(b)
           /\ Intersects(a, b) <=> Bits(a) \cap Bits(b) # {}
           /\ \A i \in 0..(NB - 1) : TestBit(a, i) <=> i \in Bits(a)
<1>1. Empty(a) <=> Bits(a) = {}
  BY AnyBit DEF Empty
<1>2. Full(a) <=> Bits(a) = 0..(NB - 1)
  <2>1. Full(a) <=> Bits(Complement(a)) = {}
    BY AnyBit, StayMasks DEF Full
  <2> QED
    BY <2>1, ComplementIs, BitsAre
<1>3. Equal(a, b) <=> Bits(a) = Bits(b)
  <2>1. Equal(a, b) <=> Bits(Xor(a, b)) = {}
    BY AnyBit, StayMasks DEF Equal
  <2>2. Bits(Xor(a, b)) = (Bits(a) \ Bits(b)) \cup (Bits(b) \ Bits(a))
    BY WordByWord
  <2> QED
    BY <2>1, <2>2
<1>4. Intersects(a, b) <=> Bits(a) \cap Bits(b) # {}
  <2>1. Intersects(a, b) <=> Bits(And(a, b)) # {}
    BY AnyBit, StayMasks DEF Intersects
  <2> QED
    BY <2>1, WordByWord
<1>5. \A i \in 0..(NB - 1) : TestBit(a, i) <=> i \in Bits(a)
  BY DEF TestBit, Bits
<1> QED
  BY <1>1, <1>2, <1>3, <1>4, <1>5

(* The loop of __bitmap_weight.                                            *)
LEMMA WeightLoop ==
    ASSUME NEW a, NEW s \in Seq(Nat)
    PROVE  FoldLeft(LAMBDA w, k : w + Cardinality(Inside(a, k - 1)), 0, s)
               = Folded(<<"weight", a>>, 0, s)
<1>1. DOMAIN s = 1..Len(s)
  OBVIOUS
<1> QED
  BY <1>1, SMTT(60) DEF FoldLeft, MapThenFoldSet, Max, Folded, Folds, Top, Step

(* The bits of a word are as many as its positions.                        *)
LEMMA MovedCount ==
    ASSUME NEW w \in Word, NEW u \in Int
    PROVE  /\ IsFiniteSet(w) /\ IsFiniteSet({u + b : b \in w})
           /\ Cardinality({u + b : b \in w}) = Cardinality(w)
<1>. DEFINE S == {u + b : b \in w}
            f == [b \in w |-> u + b]
<1>1. w \subseteq 0..(W - 1) /\ \A b \in w : b \in Int
  BY BitmapAssumption DEF Word
<1>2. IsFiniteSet(w)
  <2>1. IsFiniteSet(0..(W - 1))
    BY BitmapAssumption, FS_Interval
  <2> QED
    BY <1>1, <2>1, FS_Subset
<1>3. f \in Bijection(w, S)
  <2>1. f \in [w -> S]
    OBVIOUS
  <2>2. \A b, c \in w : f[b] = f[c] => b = c
    BY <1>1
  <2>3. \A t \in S : \E b \in w : f[b] = t
    OBVIOUS
  <2> QED
    BY <2>1, <2>2, <2>3 DEF Bijection, Injection, Surjection, IsInjective
<1>4. ExistsBijection(w, S)
  BY <1>3 DEF ExistsBijection
<1> QED
  BY <1>2, <1>4, FS_Bijection

(* __bitmap_weight.                                                        *)
LEMMA WeightIs ==
    ASSUME NEW a \in Masks
    PROVE  Weight(a) = Cardinality(Bits(a))
<1>. DEFINE s == [k \in 1..Lim |-> k]
            key == <<"weight", a>>
            Below(n) == {i \in Bits(a) : i < W * n}
            In(n) == Inside(a, n)
<1>1. s \in Seq(Nat) /\ Len(s) = Lim /\ Lim \in Nat /\ key[1] = "weight" /\ key[2] = a
  BY HowMany
<1>2. Weight(a) = Folded(key, 0, s)
  <2>. HIDE DEF s
  <2>1. FoldLeft(LAMBDA w, k : w + Cardinality(Inside(a, k - 1)), 0, s) = Folded(key, 0, s)
    BY <1>1, WeightLoop
  <2> QED
    BY <2>1 DEF Weight, s
<1>3. PICK acc : Turns(acc, key, 0, s) /\ Folded(key, 0, s) = acc[Lim]
  <2>. HIDE DEF key, s
  <2> QED
    BY <1>1, FoldLeftSteps
<1>4. acc[0] = 0 /\ \A n \in 1..Lim : acc[n] = acc[n - 1] + Cardinality(In(n - 1))
  <2>1. \A n \in 1..Lim : s[n] = n
    OBVIOUS
  <2>. HIDE DEF key, s
  <2> QED
    BY <1>1, <1>3, <2>1 DEF Turns, Step
<1>. DEFINE T == {n \in 0..Lim : IsFiniteSet(Below(n)) /\ acc[n] = Cardinality(Below(n))}
<1>5. 0 \in T
  <2>1. W * 0 = 0 /\ NB \in Nat
    BY BitmapAssumption
  <2>2. Below(0) = {}
    BY <2>1, BitsAre
  <2>3. IsFiniteSet(Below(0)) /\ Cardinality(Below(0)) = 0
    BY <2>2, FS_EmptySet
  <2>. HIDE DEF Below
  <2> QED
    BY <1>1, <1>4, <2>3
<1>6. ASSUME NEW n \in 1..Lim, n - 1 \in T PROVE n \in T
  <2>. DEFINE k == n - 1
              A == {W * k + b : b \in In(k)}
  <2>1. k \in Words /\ k \in Int /\ k + 1 = n
    BY <1>1 DEF Words
  <2>. HIDE DEF k
  <2>2. In(k) = a[k] \cap Own(k) /\ In(k) \in Word /\ W * k \in Int /\ W * n = W * k + W
    <3>1. a[k] \in Word
      BY <2>1 DEF Masks
    <3>2. In(k) = a[k] \cap Own(k)
      BY <2>1, <3>1, InsideIs
    <3> QED
      BY <2>1, <3>1, <3>2, Grows DEF Word
  <2>3. IsFiniteSet(A) /\ Cardinality(A) = Cardinality(In(k))
    <3>. HIDE DEF In
    <3> QED
      BY <2>2, MovedCount
  <2>4. Below(n) = Below(k) \cup A
    <3>1. ASSUME NEW i \in Bits(a), i < W * n, ~(i < W * k) PROVE i \in A
      <4>1. i \in 0..(NB - 1)
        BY BitsAre
      <4>2. PICK l \in Words, b \in 0..(W - 1) : b \in Own(l) /\ i = W * l + b
        BY <4>1, Places DEF Own
      <4>3. l \in Int /\ W * l \in Int /\ W * (l + 1) = W * l + W /\ W \in Int /\ n \in Int
        BY Grows, HowMany, BitmapAssumption DEF Words
      <4>4. W * l < W * n /\ W * k < W * (l + 1)
        <5>1. PICK u \in Int, v \in Int, z \in Int : u = W * l /\ v = W * k /\ z = W * n
          BY <2>2, <4>3
        <5>2. u < z /\ v < u + W
          BY <3>1, <4>2, <4>3, <5>1
        <5> QED
          BY <4>3, <5>1, <5>2
      <4>5. l < n /\ k < l + 1
        BY <2>1, <4>3, <4>4, Grows
      <4>6. l = k
        BY <2>1, <4>3, <4>5
      <4>7. b \in a[k]
        BY <4>2, <4>6, BitsAre
      <4> QED
        BY <2>2, <4>2, <4>6, <4>7
    <3>2. ASSUME NEW b \in In(k) PROVE W * k + b \in Bits(a) /\ W * k + b < W * n
      <4>1. b \in Own(k) /\ b \in a[k] /\ b \in 0..(W - 1)
        BY <2>2 DEF Word
      <4>2. W * k + b \in Bits(a)
        BY <2>1, <4>1, BitsAre
      <4>3. W * k + b < W * k + W
        BY <2>2, <4>1, BitmapAssumption
      <4> QED
        BY <2>2, <4>2, <4>3
    <3>3. \A i \in Bits(a) : i < W * k => i < W * n
      <4>1. W * k <= W * n /\ W * n \in Int
        BY <2>2, BitmapAssumption
      <4>2. Bits(a) \subseteq Int
        BY BitsAre, BitmapAssumption
      <4>3. PICK v \in Int, z \in Int : v = W * k /\ z = W * n
        BY <2>2, <4>1
      <4> QED
        BY <4>1, <4>2, <4>3
    <3>. HIDE DEF In
    <3> QED
      BY <3>1, <3>2, <3>3
  <2>5. Below(k) \cap A = {}
    <3>1. ASSUME NEW b \in In(k) PROVE ~(W * k + b < W * k)
      <4>1. b \in Nat
        BY <2>2, <3>1 DEF Word
      <4> QED
        BY <2>2, <4>1
    <3> QED
      BY <3>1
  <2>6. k \in T
    BY <1>6 DEF k
  <2>7. IsFiniteSet(Below(n)) /\ Cardinality(Below(n)) = Cardinality(Below(k)) + Cardinality(A)
    <3>. HIDE DEF A
    <3>1. IsFiniteSet(Below(k))
      BY <2>6
    <3>. HIDE DEF Below
    <3>2. /\ IsFiniteSet(Below(k) \cup A)
          /\ Cardinality(Below(k) \cup A)
                = Cardinality(Below(k)) + Cardinality(A) - Cardinality(Below(k) \cap A)
      BY <2>3, <3>1, FS_Union
    <3>3. Cardinality(Below(k)) \in Nat /\ Cardinality(A) \in Nat /\ Cardinality({}) = 0
      BY <2>3, <3>1, FS_EmptySet, FS_CardinalityType
    <3>4. Cardinality(Below(k) \cap A) = 0
      BY <2>5, <3>3
    <3>5. PICK u \in Nat, v \in Nat : u = Cardinality(Below(k)) /\ v = Cardinality(A)
      BY <3>3
    <3>6. u + v - 0 = u + v
      OBVIOUS
    <3>7. Cardinality(Below(k) \cup A) = u + v
      BY <3>2, <3>4, <3>5, <3>6
    <3> QED
      BY <2>4, <3>2, <3>5, <3>7
  <2>8. acc[n] = acc[k] + Cardinality(In(k))
    BY <1>4 DEF k
  <2>. HIDE DEF Below, In, A
  <2>9. acc[n] = Cardinality(Below(n))
    BY <2>3, <2>6, <2>7, <2>8
  <2> QED
    BY <1>1, <2>7, <2>9
<1>7. Lim \in T
  <2>. HIDE DEF T
  <2> QED
    BY <1>1, <1>5, <1>6, EveryTurn
<1>8. Below(Lim) = Bits(a)
  <2>1. ASSUME NEW i \in 0..(NB - 1) PROVE i < W * Lim
    <3>1. PICK v \in Int : v = W * Lim
      BY <1>1, Grows
    <3> QED
      BY <3>1, HowMany, BitmapAssumption
  <2> QED
    BY <2>1, BitsAre
<1> QED
  BY <1>2, <1>3, <1>7, <1>8

-----------------------------------------------------------------------------
(* The shifts, in place                                                    *)

(* The masks in memory.                                                    *)
Memory(R) == [R -> Masks]

(* The words that the loop of __bitmap_shift_right reads for word k, and   *)
(* what it makes of them.                                                  *)
Upper(m, s, off, rem, k) ==
    IF rem = 0 \/ off + k + 1 >= Lim THEN {} ELSE Clip(off + k + 1, m[s][off + k + 1])
RightAt(m, s, off, rem, k) ==
    Clip(k, ShiftWord(Upper(m, s, off, rem, k), W - rem)
               \cup ShiftWord(Clip(off + k, m[s][off + k]), -rem))
Rightward(f, m, d, s, off, rem) ==
    f = [k \in 0..(Lim - off) |->
            IF k = 0 THEN m
            ELSE [f[k - 1] EXCEPT ![d][k - 1] = RightAt(f[k - 1], s, off, rem, k - 1)]]

(* The memory after k turns, if the words read are those there at first.   *)
RightDone(m, d, s, off, rem, k) ==
    [m EXCEPT ![d] = [j \in Words |-> IF j < k THEN RightAt(m, s, off, rem, j) ELSE m[d][j]]]

(* They are: a turn reads no word that an earlier one has written.         *)
LEMMA RightTurn ==
    ASSUME NEW R, NEW m \in Memory(R), NEW d \in R, NEW s \in R, NEW off \in 0..Lim, NEW rem,
           NEW k \in 1..(Lim - off)
    PROVE  RightDone(m, d, s, off, rem, k)
               = [RightDone(m, d, s, off, rem, k - 1) EXCEPT
                     ![d][k - 1] = RightAt(RightDone(m, d, s, off, rem, k - 1),
                                           s, off, rem, k - 1)]
<1>. DEFINE h == RightDone(m, d, s, off, rem, k - 1)
            r == RightDone(m, d, s, off, rem, k)
            v == RightAt(m, s, off, rem, k - 1)
<1>1. Lim \in Nat /\ Words = 0..(Lim - 1) /\ k - 1 \in Words /\ off + (k - 1) \in Words
  BY HowMany DEF Words
<1>2. m \in [R -> Masks] /\ m[d] \in [Words -> Word]
  BY DEF Memory, Masks
<1>3. /\ h = [m EXCEPT ![d] = h[d]] /\ h[d] \in [Words -> {h[d][j] : j \in Words}]
      /\ \A j \in Words : h[d][j] = IF j < k - 1 THEN RightAt(m, s, off, rem, j) ELSE m[d][j]
  BY <1>2 DEF RightDone
<1>4. \A j \in Words : ~(j < k - 1) => h[s][j] = m[s][j]
  BY <1>2, <1>3
<1>5. RightAt(h, s, off, rem, k - 1) = v
  <2>1. h[s][off + (k - 1)] = m[s][off + (k - 1)]
    BY <1>1, <1>4
  <2>2. ~(off + (k - 1) + 1 >= Lim) => h[s][off + (k - 1) + 1] = m[s][off + (k - 1) + 1]
    BY <1>1, <1>4
  <2>3. Upper(h, s, off, rem, k - 1) = Upper(m, s, off, rem, k - 1)
    BY <2>2 DEF Upper
  <2> QED
    BY <2>1, <2>3 DEF RightAt
<1>6. \A j \in Words : (j < k <=> j < k - 1 \/ j = k - 1) /\ ~(k - 1 < k - 1)
  BY <1>1
<1>7. [j \in Words |-> IF j < k THEN RightAt(m, s, off, rem, j) ELSE m[d][j]]
         = [h[d] EXCEPT ![k - 1] = v]
  BY <1>1, <1>3, <1>6
<1>8. r = [m EXCEPT ![d] = [h[d] EXCEPT ![k - 1] = v]]
  BY <1>7 DEF RightDone
<1>9. r = [h EXCEPT ![d][k - 1] = v]
  <2>. HIDE DEF h, r, v
  <2>1. h \in [R -> {h[j] : j \in R}]
    BY <1>2, <1>3
  <2> QED
    BY <1>2, <1>3, <1>8, <2>1
<1> QED
  BY <1>5, <1>9

(* By how many words and by how many bits in them.                         *)
LEMMA WholeAndRest ==
    ASSUME NEW n \in 0..NB
    PROVE  n \div W \in 0..Lim /\ n % W \in 0..(W - 1) /\ n = W * (n \div W) + (n % W)
<1>1. n \div W \in Nat /\ n % W \in 0..(W - 1) /\ n = W * (n \div W) + (n % W)
  BY BitmapAssumption, Position
<1>2. PICK q \in Nat, r \in 0..(W - 1) : q = n \div W /\ r = n % W /\ n = W * q + r
  BY <1>1
<1>3. W * q \in Int /\ W * Lim \in Int /\ W * Lim + W \in Int /\ NB \in Nat /\ W \in Nat
  BY HowMany, BitmapAssumption, Grows
<1>4. W * q < W * Lim + W
  <2>1. PICK u \in Int, v \in Int : u = W * q /\ v = W * Lim
    BY <1>3
  <2>2. v >= NB /\ n <= NB /\ u <= n
    BY <1>2, <1>3, <2>1, HowMany
  <2> QED
    BY <1>3, <2>1, <2>2, BitmapAssumption
<1>5. q <= Lim
  <2>1. W * (Lim + 1) = W * Lim + W
    BY Grows, HowMany
  <2>2. W * q < W * (Lim + 1) => q < Lim + 1
    BY Grows, HowMany
  <2> QED
    BY <1>2, <1>4, <2>1, <2>2, HowMany
<1> QED
  BY <1>1, <1>2, <1>5

(* What __bitmap_shift_right returns, whether dst is src or not.           *)
LEMMA RightIs ==
    ASSUME NEW R, NEW m \in Memory(R), NEW d \in R, NEW s \in R, NEW n \in 0..NB
    PROVE  ShiftRight(m, d, s, n)
               = [k \in Words |-> IF k < Lim - (n \div W)
                                  THEN RightAt(m, s, n \div W, n % W, k) ELSE {}]
<1>. DEFINE off == n \div W
            rem == n % W
            f == CHOOSE g : Rightward(g, m, d, s, off, rem)
            h == [k \in 0..(Lim - off) |-> RightDone(m, d, s, off, rem, k)]
<1>1. ShiftRight(m, d, s, n) = [k \in Words |-> IF k < Lim - off THEN f[Lim - off][d][k] ELSE {}]
  BY DEF ShiftRight, Rightward, RightAt, Upper
<1>2. off \in 0..Lim /\ Lim - off \in Nat /\ Words = 0..(Lim - 1)
  BY WholeAndRest, HowMany DEF Words
<1>. HIDE DEF off, rem
<1>3. RightDone(m, d, s, off, rem, 0) = m
  <2>1. m[d] \in [Words -> Word] /\ \A j \in Words : ~(j < 0)
    BY <1>2 DEF Memory, Masks
  <2>2. [j \in Words |-> IF j < 0 THEN RightAt(m, s, off, rem, j) ELSE m[d][j]] = m[d]
    BY <2>1
  <2>3. m = [m EXCEPT ![d] = m[d]]
    BY DEF Memory
  <2> QED
    BY <2>2, <2>3 DEF RightDone
<1>4. Rightward(h, m, d, s, off, rem)
  <2>1. ASSUME NEW k \in 0..(Lim - off), k # 0
        PROVE  h[k] = [h[k - 1] EXCEPT ![d][k - 1] = RightAt(h[k - 1], s, off, rem, k - 1)]
    <3>1. k \in 1..(Lim - off) /\ k - 1 \in 0..(Lim - off)
      BY <1>2, <2>1
    <3> QED
      BY <1>2, <3>1, RightTurn
  <2>2. 0 \in 0..(Lim - off) => h[0] = m
    BY <1>3
  <2>. HIDE DEF h
  <2>3. h = [k \in 0..(Lim - off) |-> h[k]]
    BY DEF h
  <2> QED
    BY <2>1, <2>2, <2>3 DEF Rightward
<1>5. Rightward(f, m, d, s, off, rem)
  BY <1>4
<1>. HIDE DEF f, h
<1>6. f[Lim - off] = RightDone(m, d, s, off, rem, Lim - off)
  <2>. DEFINE T == {k \in 0..(Lim - off) : f[k] = RightDone(m, d, s, off, rem, k)}
  <2>1. 0 \in T
    BY <1>2, <1>3, <1>5 DEF Rightward
  <2>2. ASSUME NEW k \in 1..(Lim - off), k - 1 \in T PROVE k \in T
    <3>1. k \in 0..(Lim - off) /\ k # 0
      BY <1>2
    <3>2. f[k] = [f[k - 1] EXCEPT ![d][k - 1] = RightAt(f[k - 1], s, off, rem, k - 1)]
      BY <1>5, <3>1 DEF Rightward
    <3>3. f[k - 1] = RightDone(m, d, s, off, rem, k - 1)
      BY <2>2
    <3> QED
      BY <1>2, <3>1, <3>2, <3>3, RightTurn
  <2>. HIDE DEF T
  <2>3. Lim - off \in T
    BY <1>2, <2>1, <2>2, EveryTurn
  <2> QED
    BY <2>3 DEF T
<1>7. RightDone(m, d, s, off, rem, Lim - off)[d]
        = [j \in Words |-> IF j < Lim - off THEN RightAt(m, s, off, rem, j) ELSE m[d][j]]
  BY DEF RightDone, Memory
<1> QED
  BY <1>1, <1>6, <1>7 DEF off, rem

(* A bit of a mask is one of a word, see Places.                           *)
LEMMA BitAt ==
    ASSUME NEW a, NEW k \in Int, NEW b \in 0..(W - 1)
    PROVE  W * k + b \in Bits(a) <=> k \in Words /\ b \in Own(k) /\ b \in a[k]
<1>1. W * k + b \in Bits(a) => k \in Words /\ b \in Own(k)
  BY BitsAre, Places
<1> QED
  BY <1>1, BitsAre

(* What the shifts keep of a word: the bits that are bits of the mask.     *)
LEMMA ClipIs ==
    ASSUME NEW k \in Words, NEW w \in Word
    PROVE  Clip(k, w) = w \cap Own(k)
<1>1. Own(k) = IF k = Lim - 1 THEN LastWordMask ELSE 0..(W - 1)
  BY Places
<1>2. w \subseteq 0..(W - 1) /\ (Left = 0 => LastWordMask = 0..(W - 1))
  BY DEF Word, LastWordMask
<1> QED
  BY <1>1, <1>2 DEF Clip

(* What they make of one: its bits moved, but for those that fall out.     *)
LEMMA ShiftWordIs ==
    ASSUME NEW w \in Word, NEW n \in Int, NEW b \in 0..(W - 1)
    PROVE  ShiftWord(w, n) \in Word /\ (b \in ShiftWord(w, n) <=> b - n \in w)
<1>1. \A c \in w : c \in Int
  BY BitmapAssumption DEF Word
<1>2. b - n \in w => b = (b - n) + n
  BY BitmapAssumption
<1> QED
  BY <1>1, <1>2, BitmapAssumption DEF ShiftWord, Word

(* The position n places above one.                                        *)
LEMMA Above ==
    ASSUME NEW k \in Int, NEW b \in 0..(W - 1), NEW off \in Int, NEW rem \in 0..(W - 1)
    PROVE  /\ (W * k + b) + (W * off + rem) = W * (k + off) + (b + rem)
           /\ (W * k + b) + (W * off + rem) = W * (k + off + 1) + (b + rem - W)
           /\ (W * k + b) - (W * off + rem) = W * (k - off) + (b - rem)
           /\ (W * k + b) - (W * off + rem) = W * (k - off - 1) + (b - rem + W)
<1>1. W \in Int
  BY BitmapAssumption
<1>2. PICK u \in Int, v \in Int : u = W * k /\ v = W * off
  BY <1>1
<1>3. W * (k + off) = u + v /\ W * (k - off) = u - v
  BY <1>1, <1>2
<1>4. W * (k + off + 1) = u + v + W /\ W * (k - off - 1) = u - v - W
  BY <1>1, <1>2
<1> QED
  BY <1>1, <1>2, <1>3, <1>4

(* A word of __bitmap_shift_right holds the bits that are n places above.  *)
LEMMA RightBit ==
    ASSUME NEW R, NEW m \in Memory(R), NEW s \in R, NEW off \in 0..Lim, NEW rem \in 0..(W - 1),
           NEW k \in Words
    PROVE  /\ k + off < Lim =>
                  /\ RightAt(m, s, off, rem, k) \in Word
                  /\ \A b \in Own(k) : b \in RightAt(m, s, off, rem, k)
                         <=> (W * k + b) + (W * off + rem) \in Bits(m[s])
           /\ ~(k + off < Lim) =>
                  \A b \in Own(k) : (W * k + b) + (W * off + rem) \notin Bits(m[s])
<1>. DEFINE l == k + off
            lo == Clip(off + k, m[s][off + k])
            hi == Upper(m, s, off, rem, k)
<1>0. /\ W \in Nat /\ W > 0 /\ Lim \in Nat /\ k \in Int /\ off \in Int /\ l \in Int /\ k >= 0
      /\ l >= 0 /\ Words = 0..(Lim - 1) /\ off + k = l /\ off + k + 1 = l + 1 /\ rem \in Int
  BY BitmapAssumption, HowMany DEF Words
<1>1. \A j \in Words : m[s][j] \in Word
  BY DEF Memory, Masks
<1>2. \A b \in Own(k) : b \in 0..(W - 1)
  BY DEF Own
<1>3. CASE ~(l < Lim)
  <2>1. l \notin Words /\ l + 1 \notin Words
    BY <1>0, <1>3
  <2>2. ASSUME NEW b \in Own(k) PROVE (W * k + b) + (W * off + rem) \notin Bits(m[s])
    <3>1. CASE b + rem < W
      <4>1. b + rem \in 0..(W - 1)
        BY <1>0, <1>2, <3>1
      <4>2. (W * k + b) + (W * off + rem) = W * l + (b + rem)
        BY <1>0, <1>2, Above
      <4> QED
        BY <1>0, <2>1, <4>1, <4>2, BitAt
    <3>2. CASE ~(b + rem < W)
      <4>1. b + rem - W \in 0..(W - 1) /\ l + 1 \in Int
        BY <1>0, <1>2, <3>2
      <4>2. (W * k + b) + (W * off + rem) = W * (l + 1) + (b + rem - W)
        BY <1>0, <1>2, Above
      <4> QED
        BY <2>1, <4>1, <4>2, BitAt
    <3> QED
      BY <3>1, <3>2
  <2> QED
    BY <1>3, <2>2
<1>4. CASE l < Lim
  <2>1. l \in Words /\ (l + 1 \in Words <=> ~(l + 1 >= Lim))
    BY <1>0, <1>4
  <2>2. lo = m[s][l] \cap Own(l) /\ lo \in Word
    BY <1>0, <1>1, <2>1, ClipIs DEF Word
  <2>3. /\ hi \in Word
        /\ rem # 0 /\ l + 1 \in Words => hi = m[s][l + 1] \cap Own(l + 1)
        /\ l + 1 \notin Words => hi = {}
    BY <1>0, <1>1, <2>1, ClipIs DEF Word, Upper
  <2>. HIDE DEF lo, hi
  <2>4. W - rem \in Int /\ -rem \in Int
    BY <1>0
  <2>5. /\ ShiftWord(hi, W - rem) \in Word /\ ShiftWord(lo, -rem) \in Word
        /\ \A b \in 0..(W - 1) : /\ b \in ShiftWord(hi, W - rem) <=> b - (W - rem) \in hi
                                 /\ b \in ShiftWord(lo, -rem) <=> b - (-rem) \in lo
    <3>1. 0 \in 0..(W - 1)
      BY <1>0
    <3> QED
      BY <2>2, <2>3, <2>4, <3>1, ShiftWordIs
  <2>6. ShiftWord(hi, W - rem) \cup ShiftWord(lo, -rem) \in Word
    BY <2>5 DEF Word
  <2>7. RightAt(m, s, off, rem, k)
           = (ShiftWord(hi, W - rem) \cup ShiftWord(lo, -rem)) \cap Own(k)
    BY <2>6, ClipIs DEF RightAt, hi, lo
  <2>8. ASSUME NEW b \in Own(k)
        PROVE  b \in RightAt(m, s, off, rem, k)
                   <=> (W * k + b) + (W * off + rem) \in Bits(m[s])
    <3>1. b \in RightAt(m, s, off, rem, k) <=> b + rem - W \in hi \/ b + rem \in lo
      <4>1. b - (W - rem) = b + rem - W /\ b - (-rem) = b + rem
        BY <1>0, <1>2
      <4> QED
        BY <1>2, <2>5, <2>7, <4>1
    <3>2. hi \subseteq 0..(W - 1) /\ lo \subseteq 0..(W - 1)
      BY <2>2, <2>3 DEF Word
    <3>3. CASE b + rem < W
      <4>1. b + rem \in 0..(W - 1) /\ b + rem - W \notin 0..(W - 1)
        BY <1>0, <1>2, <3>3
      <4>2. b + rem - W \notin hi
        BY <3>2, <4>1
      <4>3. (W * k + b) + (W * off + rem) \in Bits(m[s]) <=> b + rem \in lo
        <5>1. (W * k + b) + (W * off + rem) = W * l + (b + rem)
          BY <1>0, <1>2, Above
        <5>2. W * l + (b + rem) \in Bits(m[s])
                  <=> l \in Words /\ b + rem \in Own(l) /\ b + rem \in m[s][l]
          BY <1>0, <4>1, BitAt
        <5> QED
          BY <2>1, <2>2, <5>1, <5>2
      <4> QED
        BY <3>1, <4>2, <4>3
    <3>4. CASE ~(b + rem < W)
      <4>1. b + rem - W \in 0..(W - 1) /\ l + 1 \in Int /\ rem # 0 /\ b + rem \notin 0..(W - 1)
        BY <1>0, <1>2, <3>4
      <4>2. b + rem \notin lo
        BY <3>2, <4>1
      <4>3. (W * k + b) + (W * off + rem) \in Bits(m[s]) <=> b + rem - W \in hi
        <5>1. (W * k + b) + (W * off + rem) = W * (l + 1) + (b + rem - W)
          BY <1>0, <1>2, Above
        <5>2. W * (l + 1) + (b + rem - W) \in Bits(m[s])
                  <=> l + 1 \in Words /\ b + rem - W \in Own(l + 1) /\ b + rem - W \in m[s][l + 1]
          BY <4>1, BitAt
        <5> QED
          BY <2>3, <4>1, <5>1, <5>2
      <4> QED
        BY <3>1, <4>2, <4>3
    <3> QED
      BY <3>3, <3>4
  <2>9. RightAt(m, s, off, rem, k) \in Word
    BY <2>6, <2>7 DEF Word
  <2> QED
    BY <1>4, <2>8, <2>9
<1> QED
  BY <1>3, <1>4

(* __bitmap_shift_right.                                                   *)
LEMMA RightAgrees ==
    ASSUME NEW R, NEW m \in Memory(R), NEW d \in R, NEW s \in R, NEW n \in 0..NB
    PROVE  /\ Bits(ShiftRight(m, d, s, n)) = {i - n : i \in Bits(m[s])} \cap (0..(NB - 1))
           /\ ShiftRight(m, d, s, n) \in Masks
<1>. DEFINE off == n \div W
            rem == n % W
            S == {i - n : i \in Bits(m[s])} \cap (0..(NB - 1))
            r == ShiftRight(m, d, s, n)
<1>1. off \in 0..Lim /\ rem \in 0..(W - 1) /\ n = W * off + rem /\ n \in Int
  <2>1. n \in Int
    BY BitmapAssumption
  <2> QED
    BY <2>1, WholeAndRest
<1>2. r = [k \in Words |-> IF k < Lim - off THEN RightAt(m, s, off, rem, k) ELSE {}]
  BY RightIs
<1>3. \A k \in Words : k < Lim - off <=> k + off < Lim
  BY <1>1, HowMany DEF Words
<1>. HIDE DEF off, rem, r
<1>4. ASSUME NEW k \in Words, NEW b \in Own(k) PROVE b \in r[k] <=> W * k + b \in S
  <2>1. b \in r[k] <=> (W * k + b) + n \in Bits(m[s])
    BY <1>1, <1>2, <1>3, RightBit
  <2>2. W * k + b \in 0..(NB - 1)
    BY Places
  <2>3. W * k + b \in {i - n : i \in Bits(m[s])} <=> (W * k + b) + n \in Bits(m[s])
    <3>1. PICK p \in Int : p = W * k + b
      BY <2>2, BitmapAssumption
    <3>2. p = (p + n) - n /\ \A i \in Int : p = i - n => i = p + n
      BY <1>1
    <3>3. Bits(m[s]) \subseteq Int
      BY BitsAre, BitmapAssumption
    <3> QED
      BY <3>1, <3>2, <3>3
  <2> QED
    BY <2>1, <2>2, <2>3
<1>5. Bits(r) = S
  <2>. HIDE DEF S
  <2>1. S \subseteq 0..(NB - 1)
    BY DEF S
  <2> QED
    BY <1>4, <2>1, SameBits DEF Has
<1>6. r \in Masks
  BY <1>1, <1>2, <1>3, RightBit DEF Masks, Word
<1> QED
  BY <1>5, <1>6 DEF r

(* The same for __bitmap_shift_left, which starts from the last word.      *)
Lower(m, s, rem, k) == IF rem # 0 /\ k > 0 THEN m[s][k - 1] ELSE {}
LeftAt(m, s, off, rem, k) ==
    Clip(k + off, ShiftWord(Lower(m, s, rem, k), rem - W)
                      \cup ShiftWord(Clip(k, m[s][k]), rem))
Leftward(f, m, d, s, off, rem) ==
    f = [k \in 0..(Lim - off) |->
            IF k = Lim - off THEN m
            ELSE [f[k + 1] EXCEPT ![d][k + off] = LeftAt(f[k + 1], s, off, rem, k)]]

(* The memory when words k + off and up are written.                       *)
LeftDone(m, d, s, off, rem, k) ==
    [m EXCEPT ![d] = [j \in Words |-> IF j >= k + off THEN LeftAt(m, s, off, rem, j - off)
                                      ELSE m[d][j]]]

(* See RightTurn.                                                          *)
LEMMA LeftTurn ==
    ASSUME NEW R, NEW m \in Memory(R), NEW d \in R, NEW s \in R, NEW off \in 0..Lim, NEW rem,
           NEW k \in 0..(Lim - off - 1)
    PROVE  LeftDone(m, d, s, off, rem, k)
               = [LeftDone(m, d, s, off, rem, k + 1) EXCEPT
                     ![d][k + off] = LeftAt(LeftDone(m, d, s, off, rem, k + 1), s, off, rem, k)]
<1>. DEFINE h == LeftDone(m, d, s, off, rem, k + 1)
            r == LeftDone(m, d, s, off, rem, k)
            v == LeftAt(m, s, off, rem, k)
<1>1. /\ Lim \in Nat /\ Words = 0..(Lim - 1) /\ k \in Words /\ k + off \in Words
      /\ (k > 0 => k - 1 \in Words) /\ (k + off) - off = k
  BY HowMany DEF Words
<1>2. m \in [R -> Masks] /\ m[d] \in [Words -> Word]
  BY DEF Memory, Masks
<1>3. /\ h = [m EXCEPT ![d] = h[d]] /\ h[d] \in [Words -> {h[d][j] : j \in Words}]
      /\ \A j \in Words : h[d][j] = IF j >= k + 1 + off THEN LeftAt(m, s, off, rem, j - off)
                                    ELSE m[d][j]
  BY <1>2 DEF LeftDone
<1>4. \A j \in Words : ~(j >= k + 1 + off) => h[s][j] = m[s][j]
  BY <1>2, <1>3
<1>5. LeftAt(h, s, off, rem, k) = v
  <2>1. h[s][k] = m[s][k]
    BY <1>1, <1>4
  <2>2. k > 0 => h[s][k - 1] = m[s][k - 1]
    BY <1>1, <1>4
  <2>3. Lower(h, s, rem, k) = Lower(m, s, rem, k)
    BY <2>2 DEF Lower
  <2> QED
    BY <2>1, <2>3 DEF LeftAt
<1>6. \A j \in Words : (j >= k + off <=> j >= k + 1 + off \/ j = k + off)
                       /\ ~(k + off >= k + 1 + off)
  BY <1>1
<1>7. [j \in Words |-> IF j >= k + off THEN LeftAt(m, s, off, rem, j - off) ELSE m[d][j]]
         = [h[d] EXCEPT ![k + off] = v]
  BY <1>1, <1>3, <1>6
<1>8. r = [m EXCEPT ![d] = [h[d] EXCEPT ![k + off] = v]]
  BY <1>7 DEF LeftDone
<1>9. r = [h EXCEPT ![d][k + off] = v]
  <2>. HIDE DEF h, r, v
  <2>1. h \in [R -> {h[j] : j \in R}]
    BY <1>2, <1>3
  <2> QED
    BY <1>2, <1>3, <1>8, <2>1
<1> QED
  BY <1>5, <1>9

(* What __bitmap_shift_left returns, whether dst is src or not.            *)
LEMMA LeftIs ==
    ASSUME NEW R, NEW m \in Memory(R), NEW d \in R, NEW s \in R, NEW n \in 0..NB
    PROVE  ShiftLeft(m, d, s, n)
               = [k \in Words |-> IF k < n \div W THEN {}
                                  ELSE LeftAt(m, s, n \div W, n % W, k - (n \div W))]
<1>. DEFINE off == n \div W
            rem == n % W
            f == CHOOSE g : Leftward(g, m, d, s, off, rem)
            h == [k \in 0..(Lim - off) |-> LeftDone(m, d, s, off, rem, k)]
<1>1. ShiftLeft(m, d, s, n) = [k \in Words |-> IF k < off THEN {} ELSE f[0][d][k]]
  BY DEF ShiftLeft, Leftward, LeftAt, Lower
<1>2. off \in 0..Lim /\ Lim - off \in Nat /\ Words = 0..(Lim - 1) /\ Lim \in Nat
  BY WholeAndRest, HowMany DEF Words
<1>. HIDE DEF off, rem
<1>3. LeftDone(m, d, s, off, rem, Lim - off) = m
  <2>1. m[d] \in [Words -> Word] /\ \A j \in Words : ~(j >= (Lim - off) + off)
    BY <1>2 DEF Memory, Masks
  <2>2. [j \in Words |-> IF j >= (Lim - off) + off THEN LeftAt(m, s, off, rem, j - off)
                         ELSE m[d][j]] = m[d]
    BY <2>1
  <2>3. m = [m EXCEPT ![d] = m[d]]
    BY DEF Memory
  <2> QED
    BY <2>2, <2>3 DEF LeftDone
<1>4. Leftward(h, m, d, s, off, rem)
  <2>1. ASSUME NEW k \in 0..(Lim - off), k # Lim - off
        PROVE  h[k] = [h[k + 1] EXCEPT ![d][k + off] = LeftAt(h[k + 1], s, off, rem, k)]
    <3>1. k \in 0..(Lim - off - 1) /\ k + 1 \in 0..(Lim - off)
      BY <1>2, <2>1
    <3> QED
      BY <1>2, <3>1, LeftTurn
  <2>2. Lim - off \in 0..(Lim - off) => h[Lim - off] = m
    BY <1>3
  <2>. HIDE DEF h
  <2>3. h = [k \in 0..(Lim - off) |-> h[k]]
    BY DEF h
  <2> QED
    BY <2>1, <2>2, <2>3 DEF Leftward
<1>5. Leftward(f, m, d, s, off, rem)
  BY <1>4
<1>. HIDE DEF f, h
<1>6. f[0] = LeftDone(m, d, s, off, rem, 0)
  <2>. DEFINE T == {j \in 0..(Lim - off) :
                      f[(Lim - off) - j] = LeftDone(m, d, s, off, rem, (Lim - off) - j)}
  <2>1. 0 \in T
    <3>1. f[Lim - off] = m
      BY <1>2, <1>5 DEF Leftward
    <3>2. (Lim - off) - 0 = Lim - off /\ 0 \in 0..(Lim - off)
      BY <1>2
    <3> QED
      BY <1>3, <3>1, <3>2
  <2>2. ASSUME NEW j \in 1..(Lim - off), j - 1 \in T PROVE j \in T
    <3>. DEFINE k == (Lim - off) - j
    <3>1. /\ k \in 0..(Lim - off) /\ k # Lim - off /\ k \in 0..(Lim - off - 1)
          /\ (Lim - off) - (j - 1) = k + 1 /\ j \in 0..(Lim - off)
      BY <1>2
    <3>. HIDE DEF k
    <3>2. f[k] = [f[k + 1] EXCEPT ![d][k + off] = LeftAt(f[k + 1], s, off, rem, k)]
      BY <1>5, <3>1 DEF Leftward
    <3>3. f[k + 1] = LeftDone(m, d, s, off, rem, k + 1)
      BY <2>2, <3>1
    <3>4. f[k] = LeftDone(m, d, s, off, rem, k)
      BY <1>2, <3>1, <3>2, <3>3, LeftTurn
    <3> QED
      BY <3>1, <3>4 DEF k
  <2>. HIDE DEF T
  <2>3. Lim - off \in T
    BY <1>2, <2>1, <2>2, EveryTurn
  <2>4. (Lim - off) - (Lim - off) = 0
    BY <1>2
  <2> QED
    BY <2>3, <2>4 DEF T
<1>7. LeftDone(m, d, s, off, rem, 0)[d]
        = [j \in Words |-> IF j >= 0 + off THEN LeftAt(m, s, off, rem, j - off) ELSE m[d][j]]
  BY DEF LeftDone, Memory
<1>8. \A k \in Words : ~(k < off) => k >= 0 + off
  BY <1>2
<1> QED
  BY <1>1, <1>6, <1>7, <1>8 DEF off, rem

(* A word of __bitmap_shift_left holds the bits that are n places below.   *)
LEMMA LeftBit ==
    ASSUME NEW R, NEW m \in Memory(R), NEW s \in R, NEW off \in 0..Lim, NEW rem \in 0..(W - 1),
           NEW k \in Words
    PROVE  /\ ~(k < off) =>
                  /\ LeftAt(m, s, off, rem, k - off) \in Word
                  /\ \A b \in Own(k) : b \in LeftAt(m, s, off, rem, k - off)
                         <=> (W * k + b) - (W * off + rem) \in Bits(m[s])
           /\ k < off =>
                  \A b \in Own(k) : (W * k + b) - (W * off + rem) \notin Bits(m[s])
<1>. DEFINE l == k - off
            hi == Clip(l, m[s][l])
            lo == Lower(m, s, rem, l)
<1>0. /\ W \in Nat /\ W > 0 /\ Lim \in Nat /\ k \in Int /\ off \in Int /\ l \in Int /\ k < Lim
      /\ Words = 0..(Lim - 1) /\ l + off = k /\ rem \in Int /\ l < Lim /\ off >= 0
  BY BitmapAssumption, HowMany DEF Words
<1>1. \A j \in Words : m[s][j] \in Word
  BY DEF Memory, Masks
<1>2. \A b \in Own(k) : b \in 0..(W - 1)
  BY DEF Own
<1>3. CASE k < off
  <2>1. l \notin Words /\ l - 1 \notin Words
    BY <1>0, <1>3
  <2>2. ASSUME NEW b \in Own(k) PROVE (W * k + b) - (W * off + rem) \notin Bits(m[s])
    <3>1. CASE b - rem >= 0
      <4>1. b - rem \in 0..(W - 1)
        BY <1>0, <1>2, <3>1
      <4>2. (W * k + b) - (W * off + rem) = W * l + (b - rem)
        BY <1>0, <1>2, Above
      <4> QED
        BY <1>0, <2>1, <4>1, <4>2, BitAt
    <3>2. CASE ~(b - rem >= 0)
      <4>1. b - rem + W \in 0..(W - 1) /\ l - 1 \in Int
        BY <1>0, <1>2, <3>2
      <4>2. (W * k + b) - (W * off + rem) = W * (l - 1) + (b - rem + W)
        BY <1>0, <1>2, Above
      <4> QED
        BY <2>1, <4>1, <4>2, BitAt
    <3> QED
      BY <3>1, <3>2
  <2> QED
    BY <1>3, <2>2
<1>4. CASE ~(k < off)
  <2>1. l \in Words /\ (l - 1 \in Words <=> l > 0)
    BY <1>0, <1>4
  <2>2. hi = m[s][l] \cap Own(l) /\ hi \in Word
    <3>1. m[s][l] \in Word
      BY <1>1, <2>1
    <3>2. hi = m[s][l] \cap Own(l)
      BY <2>1, <3>1, ClipIs
    <3> QED
      BY <3>1, <3>2 DEF Word
  <2>3. /\ lo \in Word
        /\ rem # 0 /\ l - 1 \in Words => lo = m[s][l - 1]
        /\ l - 1 \notin Words => lo = {}
    BY <1>0, <1>1, <2>1 DEF Word, Lower
  <2>4. l - 1 \in Words => \A b \in 0..(W - 1) : b \in Own(l - 1)
    <3>1. l - 1 \in Words => l - 1 # Lim - 1
      BY <1>0
    <3> QED
      BY <3>1, Places
  <2>. HIDE DEF lo, hi
  <2>5. /\ ShiftWord(lo, rem - W) \in Word /\ ShiftWord(hi, rem) \in Word
        /\ \A b \in 0..(W - 1) : /\ b \in ShiftWord(lo, rem - W) <=> b - (rem - W) \in lo
                                 /\ b \in ShiftWord(hi, rem) <=> b - rem \in hi
    <3>1. 0 \in 0..(W - 1) /\ rem - W \in Int
      BY <1>0
    <3> QED
      BY <1>0, <2>2, <2>3, <3>1, ShiftWordIs
  <2>6. ShiftWord(lo, rem - W) \cup ShiftWord(hi, rem) \in Word
    BY <2>5 DEF Word
  <2>7. LeftAt(m, s, off, rem, l)
           = (ShiftWord(lo, rem - W) \cup ShiftWord(hi, rem)) \cap Own(k)
    BY <1>0, <2>6, ClipIs DEF LeftAt, hi, lo
  <2>8. ASSUME NEW b \in Own(k)
        PROVE  b \in LeftAt(m, s, off, rem, l)
                   <=> (W * k + b) - (W * off + rem) \in Bits(m[s])
    <3>1. b \in LeftAt(m, s, off, rem, l) <=> b - rem + W \in lo \/ b - rem \in hi
      <4>1. b - (rem - W) = b - rem + W
        BY <1>0, <1>2
      <4> QED
        BY <1>2, <2>5, <2>7, <4>1
    <3>2. hi \subseteq 0..(W - 1) /\ lo \subseteq 0..(W - 1)
      BY <2>2, <2>3 DEF Word
    <3>3. CASE b - rem >= 0
      <4>1. b - rem \in 0..(W - 1) /\ b - rem + W \notin 0..(W - 1)
        BY <1>0, <1>2, <3>3
      <4>2. b - rem + W \notin lo
        BY <3>2, <4>1
      <4>3. (W * k + b) - (W * off + rem) \in Bits(m[s]) <=> b - rem \in hi
        <5>1. (W * k + b) - (W * off + rem) = W * l + (b - rem)
          BY <1>0, <1>2, Above
        <5>2. W * l + (b - rem) \in Bits(m[s])
                  <=> l \in Words /\ b - rem \in Own(l) /\ b - rem \in m[s][l]
          BY <1>0, <4>1, BitAt
        <5> QED
          BY <2>1, <2>2, <5>1, <5>2
      <4> QED
        BY <3>1, <4>2, <4>3
    <3>4. CASE ~(b - rem >= 0)
      <4>1. b - rem + W \in 0..(W - 1) /\ l - 1 \in Int /\ rem # 0 /\ b - rem \notin 0..(W - 1)
        BY <1>0, <1>2, <3>4
      <4>2. b - rem \notin hi
        BY <3>2, <4>1
      <4>3. (W * k + b) - (W * off + rem) \in Bits(m[s]) <=> b - rem + W \in lo
        <5>1. (W * k + b) - (W * off + rem) = W * (l - 1) + (b - rem + W)
          BY <1>0, <1>2, Above
        <5>2. W * (l - 1) + (b - rem + W) \in Bits(m[s])
                  <=> l - 1 \in Words /\ b - rem + W \in Own(l - 1)
                      /\ b - rem + W \in m[s][l - 1]
          BY <4>1, BitAt
        <5> QED
          BY <2>3, <2>4, <4>1, <5>1, <5>2
      <4> QED
        BY <3>1, <4>2, <4>3
    <3> QED
      BY <3>3, <3>4
  <2>9. LeftAt(m, s, off, rem, l) \in Word
    BY <2>6, <2>7 DEF Word
  <2> QED
    BY <1>4, <2>8, <2>9
<1> QED
  BY <1>3, <1>4

(* __bitmap_shift_left.                                                    *)
LEMMA LeftAgrees ==
    ASSUME NEW R, NEW m \in Memory(R), NEW d \in R, NEW s \in R, NEW n \in 0..NB
    PROVE  /\ Bits(ShiftLeft(m, d, s, n)) = {i + n : i \in Bits(m[s])} \cap (0..(NB - 1))
           /\ ShiftLeft(m, d, s, n) \in Masks
<1>. DEFINE off == n \div W
            rem == n % W
            S == {i + n : i \in Bits(m[s])} \cap (0..(NB - 1))
            r == ShiftLeft(m, d, s, n)
<1>1. off \in 0..Lim /\ rem \in 0..(W - 1) /\ n = W * off + rem /\ n \in Int
  <2>1. n \in Int
    BY BitmapAssumption
  <2> QED
    BY <2>1, WholeAndRest
<1>2. r = [k \in Words |-> IF k < off THEN {} ELSE LeftAt(m, s, off, rem, k - off)]
  BY LeftIs
<1>. HIDE DEF off, rem, r
<1>4. ASSUME NEW k \in Words, NEW b \in Own(k) PROVE b \in r[k] <=> W * k + b \in S
  <2>1. b \in r[k] <=> (W * k + b) - n \in Bits(m[s])
    BY <1>1, <1>2, LeftBit
  <2>2. W * k + b \in 0..(NB - 1)
    BY Places
  <2>3. W * k + b \in {i + n : i \in Bits(m[s])} <=> (W * k + b) - n \in Bits(m[s])
    <3>1. PICK p \in Int : p = W * k + b
      BY <2>2, BitmapAssumption
    <3>2. p = (p - n) + n /\ \A i \in Int : p = i + n => i = p - n
      BY <1>1
    <3>3. Bits(m[s]) \subseteq Int
      BY BitsAre, BitmapAssumption
    <3> QED
      BY <3>1, <3>2, <3>3
  <2> QED
    BY <2>1, <2>2, <2>3
<1>5. Bits(r) = S
  <2>. HIDE DEF S
  <2>1. S \subseteq 0..(NB - 1)
    BY DEF S
  <2> QED
    BY <1>4, <2>1, SameBits DEF Has
<1>6. r \in Masks
  BY <1>1, <1>2, LeftBit DEF Masks, Word
<1> QED
  BY <1>5, <1>6 DEF r

-----------------------------------------------------------------------------
(* Texts                                                                   *)

(* The loops of bitmap_scnprintf and __bitmap_parse.                       *)
LEMMA PrintLoop ==
    ASSUME NEW a, NEW b, NEW S, NEW s \in Seq(S)
    PROVE  FoldLeft(LAMBDA p, j : PrintChunk(a, p, j), b, s) = Folded(<<"print", a>>, b, s)
<1>1. DOMAIN s = 1..Len(s)
  OBVIOUS
<1> QED
  BY <1>1, SMTT(60) DEF FoldLeft, MapThenFoldSet, Max, Folded, Folds, Top, Step

(* See PrintLoop.                                                          *)
LEMMA ParseLoop ==
    ASSUME NEW b, NEW S, NEW s \in Seq(S)
    PROVE  FoldLeft(ParseChar, b, s) = Folded(<<"parse">>, b, s)
<1>1. DOMAIN s = 1..Len(s)
  OBVIOUS
<1> QED
  BY <1>1, SMTT(60) DEF FoldLeft, MapThenFoldSet, Max, Folded, Folds, Top, Step

(* What every turn of a loop keeps is so behind it.                        *)
LEMMA FoldKeeps ==
    ASSUME NEW k, NEW b, NEW S, NEW s \in Seq(S), NEW T,
           b \in T, \A p \in T, q \in S : Step(k, p, q) \in T
    PROVE  Folded(k, b, s) \in T
<1>1. PICK acc : Turns(acc, k, b, s) /\ Folded(k, b, s) = acc[Len(s)]
  BY FoldLeftSteps
<1>2. PICK z \in Nat : z = Len(s) /\ \A n \in 1..z : s[n] \in S
  OBVIOUS
<1>. DEFINE U == {n \in 0..z : acc[n] \in T}
<1>3. 0 \in U
  BY <1>1 DEF Turns
<1>4. ASSUME NEW n \in 1..z, n - 1 \in U PROVE n \in U
  <2>1. acc[n] = Step(k, acc[n - 1], s[n]) /\ acc[n - 1] \in T /\ s[n] \in S
    BY <1>1, <1>2, <1>4 DEF Turns
  <2> QED
    BY <2>1
<1>5. z \in U
  <2>. HIDE DEF U
  <2> QED
    BY <1>3, <1>4, EveryTurn
<1> QED
  BY <1>1, <1>2, <1>5

(* The digits of a chunk.                                                  *)
LEMMA DigitsType ==
    ASSUME NEW val, NEW size \in Nat
    PROVE  /\ (size + D - 1) \div D \in Nat
           /\ Digits(val, size) \in Seq(Chars)
           /\ Len(Digits(val, size)) = (size + D - 1) \div D
<1>. DEFINE n == (size + D - 1) \div D
            c(j) == Digit({b \in 0..(D - 1) : b + D * (n - j) \in val})
<1>1. n \in Nat
  BY BitmapAssumption
<1>2. \A j : c(j) \in Chars
  BY DEF Chars
<1>3. Digits(val, size) = [j \in 1..n |-> c(j)]
  BY DEF Digits
<1>. HIDE DEF n, c
<1>4. [j \in 1..n |-> c(j)] \in Seq(Chars) /\ Len([j \in 1..n |-> c(j)]) = n
  BY <1>1, <1>2
<1> QED
  BY <1>1, <1>3, <1>4 DEF n

(* What bitmap_scnprintf prints is a text.                                 *)
LEMMA PrintType ==
    ASSUME NEW a PROVE Printed(a) \in Seq(Chars)
<1>. DEFINE P == [text : Seq(Chars), size : Nat]
            s == [j \in 1..Chunks |-> j]
            b == [text |-> <<>>, size |-> IF NB % CHUNK = 0 THEN CHUNK ELSE NB % CHUNK]
            key == <<"print", a>>
<1>1. CHUNK \in Nat /\ NB % CHUNK \in Nat /\ Chunks \in Nat
  BY BitmapAssumption DEF Chunks
<1>2. b \in P /\ s \in Seq(Nat)
  BY <1>1
<1>3. ASSUME NEW p \in P, NEW j PROVE PrintChunk(a, p, j) \in P
  <2>. DEFINE i   == (Chunks - j) * CHUNK
              val == ChunkAt(a, i, p.size)
              new == p.text \o (IF p.text = <<>> THEN <<>> ELSE <<Comma>>) \o Digits(val, p.size)
  <2>1. PrintChunk(a, p, j) = p \/ PrintChunk(a, p, j) = [text |-> new, size |-> CHUNK]
    BY DEF PrintChunk
  <2>2. Digits(val, p.size) \in Seq(Chars)
    BY DigitsType
  <2>3. <<Comma>> \in Seq(Chars) /\ <<>> \in Seq(Chars)
    BY DEF Chars
  <2>4. new \in Seq(Chars)
    <3>. HIDE DEF val
    <3> QED
      BY <2>2, <2>3
  <2>. HIDE DEF new
  <2> QED
    BY <1>1, <2>1, <2>4
<1>. HIDE DEF P, s, b
<1>4. Folded(key, b, s) \in P
  <2>1. key[1] = "print" /\ key[2] = a
    OBVIOUS
  <2>. HIDE DEF key
  <2>2. \A p \in P, j \in Nat : Step(key, p, j) \in P
    BY <1>3, <2>1 DEF Step
  <2> QED
    BY <1>2, <2>2, FoldKeeps
<1>5. Printed(a) = Folded(key, b, s).text
  BY <1>2, PrintLoop DEF Printed, b, s
<1> QED
  BY <1>4, <1>5 DEF P

(* The states of __bitmap_parse between two characters.                    *)
States == [mask : Masks, chunk : SUBSET (0..(CHUNK - 1)), ndigits : Nat, totaldigits : Nat,
           nchunks : Nat, nbits : Nat, was : Chars, rc : {"reading", "ok", "EINVAL", "EOVERFLOW"}]

(* The mask with one chunk more, and the number of its bits.               *)
Merged(m, c) == [ShiftLeft([x |-> m], "x", "x", CHUNK) EXCEPT ![0] = @ \cup c]
Longer(nb, nc, c) == nb + IF nc = 0 THEN Fls(c) ELSE CHUNK

(* A chunk is not longer than a word.                                      *)
LEMMA ChunkFits ==
    CHUNK \in Nat /\ CHUNK > 0 /\ CHUNK <= W /\ CHUNK \in 0..NB /\ 0 \in Words
<1>1. CHUNK \in Nat /\ CHUNK > 0 /\ W \in Nat /\ W > 0 /\ NB > W /\ W % CHUNK = 0 /\ NB \in Nat
  BY BitmapAssumption
<1>2. ~(W < CHUNK)
  <2>1. W < CHUNK => W % CHUNK = W
    BY <1>1
  <2> QED
    BY <1>1, <2>1
<1> QED
  BY <1>1, <1>2, HowMany DEF Words

(* Fls is the number of the bits that a chunk takes.                       *)
LEMMA FlsIs ==
    ASSUME NEW c \in SUBSET (0..(CHUNK - 1))
    PROVE  /\ Fls(c) \in 0..CHUNK /\ \A b \in c : b < Fls(c)
           /\ c # {} => Fls(c) - 1 \in c
<1>1. CASE c = {}
  BY <1>1, ChunkFits DEF Fls
<1>2. CASE c # {}
  <2>1. \E b \in c : \A e \in c : e <= b
    <3>. DEFINE T == {CHUNK - b : b \in c}
    <3>1. T \subseteq Nat /\ T # {}
      <4>1. \A b \in c : CHUNK - b \in Nat
        BY ChunkFits
      <4> QED
        BY <1>2, <4>1
    <3>2. PICK t \in T : \A u \in T : t <= u
      <4>. HIDE DEF T
      <4> QED
        BY <3>1, Least
    <3>3. PICK b \in c : t = CHUNK - b
      BY <3>2
    <3>4. \A e \in c : t <= CHUNK - e
      BY <3>2
    <3>5. \A e \in c : e <= b
      BY <3>3, <3>4, ChunkFits
    <3> QED
      BY <3>5
  <2>2. PICK b \in c : b = (CHOOSE h \in c : \A e \in c : e <= h) /\ \A e \in c : e <= b
    BY <2>1
  <2>3. Fls(c) = 1 + b /\ b \in 0..(CHUNK - 1)
    BY <1>2, <2>2 DEF Fls
  <2>4. \A e \in c : e \in Int /\ (e <= b => e < 1 + b)
    BY <2>3, ChunkFits
  <2>5. \A e \in c : e < 1 + b
    BY <2>2, <2>3, <2>4
  <2>6. 1 + b \in 0..CHUNK /\ (1 + b) - 1 = b
    BY <2>3, ChunkFits
  <2> QED
    BY <1>2, <2>2, <2>3, <2>5, <2>6
<1> QED
  BY <1>1, <1>2

(* A state by its parts.                                                   *)
State(m, c, nd, td, nc, nb, w, r) ==
    [mask |-> m, chunk |-> c, ndigits |-> nd, totaldigits |-> td, nchunks |-> nc,
     nbits |-> nb, was |-> w, rc |-> r]

(* What the end of a chunk does.                                           *)
LEMMA EndChunkIs ==
    ASSUME NEW m, NEW c, NEW nd, NEW td, NEW nc, NEW nb, NEW w, NEW r
    PROVE  LET p == State(m, c, nd, td, nc, nb, w, r) IN
           /\ nd = 0 => EndChunk(p) = State(m, c, nd, td, nc, nb, w, "EINVAL")
           /\ nd # 0 /\ nc = 0 /\ c = {} => EndChunk(p) = State(m, {}, 0, td, nc, nb, w, r)
           /\ nd # 0 /\ ~(nc = 0 /\ c = {}) =>
                  EndChunk(p) = State(Merged(m, c), {}, 0, td, nc + 1, Longer(nb, nc, c), w,
                                      IF Longer(nb, nc, c) > NB THEN "EOVERFLOW" ELSE "reading")
<1>. DEFINE p == State(m, c, nd, td, nc, nb, w, r)
            q == State(m, {}, 0, td, nc, nb, w, r)
            s == Merged(m, c)
            u == Longer(nb, nc, c)
            v == IF u > NB THEN "EOVERFLOW" ELSE "reading"
<1>1. /\ p.ndigits = nd /\ p.nchunks = nc /\ p.chunk = c /\ p.nbits = nb /\ p.mask = m
      /\ q.nchunks = nc
      /\ [p EXCEPT !.rc = "EINVAL"] = State(m, c, nd, td, nc, nb, w, "EINVAL")
      /\ [p EXCEPT !.chunk = {}] = State(m, {}, nd, td, nc, nb, w, r)
  BY DEF State
<1>2. [p EXCEPT !.chunk = {}, !.ndigits = 0] = q
  <2>1. [State(m, {}, nd, td, nc, nb, w, r) EXCEPT !.ndigits = 0] = q
    BY DEF State
  <2>. HIDE DEF p, q
  <2> QED
    BY <1>1, <2>1
<1>. HIDE DEF p, u, v, s
<1>3. [q EXCEPT !.mask = s, !.nchunks = nc + 1, !.nbits = u, !.rc = v]
         = State(s, {}, 0, td, nc + 1, u, w, v)
  <2>1. [q EXCEPT !.mask = s] = State(s, {}, 0, td, nc, nb, w, r)
    BY DEF State
  <2>2. [State(s, {}, 0, td, nc, nb, w, r) EXCEPT !.nchunks = nc + 1]
           = State(s, {}, 0, td, nc + 1, nb, w, r)
    BY DEF State
  <2>3. [State(s, {}, 0, td, nc + 1, nb, w, r) EXCEPT !.nbits = u]
           = State(s, {}, 0, td, nc + 1, u, w, r)
    BY DEF State
  <2>4. [State(s, {}, 0, td, nc + 1, u, w, r) EXCEPT !.rc = v]
           = State(s, {}, 0, td, nc + 1, u, w, v)
    BY DEF State
  <2>. HIDE DEF q
  <2> QED
    BY <2>1, <2>2, <2>3, <2>4
<1>. HIDE DEF q
<1>4. nd = 0 => EndChunk(p) = State(m, c, nd, td, nc, nb, w, "EINVAL")
  BY <1>1 DEF EndChunk
<1>5. nd # 0 /\ nc = 0 /\ c = {} => EndChunk(p) = q
  BY <1>1, <1>2 DEF EndChunk
<1>6. nd # 0 /\ ~(nc = 0 /\ c = {}) =>
         EndChunk(p) = [q EXCEPT !.mask = s, !.nchunks = nc + 1, !.nbits = u, !.rc = v]
  BY <1>1, <1>2 DEF EndChunk, s, u, v, Merged, Longer
<1> QED
  BY <1>3, <1>4, <1>5, <1>6 DEF p, q, s, u, v

(* The chunk with one digit more.                                          *)
With(c, e) == {b + D : b \in c} \cup e.bits

(* What a character does.                                                  *)
LEMMA ParseCharIs ==
    ASSUME NEW m, NEW c, NEW nd, NEW td, NEW nc, NEW nb, NEW w, NEW r, NEW e
    PROVE  LET p == State(m, c, nd, td, nc, nb, w, r)
               q == State(m, c, nd, td, nc, nb, e, r) IN
           ParseChar(p, e)
               = IF r # "reading" THEN p
                 ELSE IF e = Space THEN q
                 ELSE IF td > 0 /\ e # Nul /\ w = Space
                 THEN State(m, c, nd, td, nc, nb, e, "ok")
                 ELSE IF e = Comma THEN EndChunk(q)
                 ELSE IF e = Nul THEN Return(EndChunk(q), "ok")
                 ELSE IF e = Junk THEN State(m, c, nd, td, nc, nb, e, "EINVAL")
                 ELSE IF c \cap ((CHUNK - D)..(CHUNK - 1)) # {}
                 THEN State(m, c, nd, td, nc, nb, e, "EOVERFLOW")
                 ELSE State(m, With(c, e), nd + 1, td + 1, nc, nb, e, r)
<1>. DEFINE p == State(m, c, nd, td, nc, nb, w, r)
            q == State(m, c, nd, td, nc, nb, e, r)
            s == With(c, e)
<1>1. /\ p.rc = r /\ p.totaldigits = td /\ p.was = w /\ p.chunk = c
      /\ q.chunk = c /\ q.ndigits = nd /\ q.totaldigits = td
      /\ [p EXCEPT !.was = e] = q
  BY DEF State
<1>2. /\ [q EXCEPT !.rc = "ok"] = State(m, c, nd, td, nc, nb, e, "ok")
      /\ [q EXCEPT !.rc = "EINVAL"] = State(m, c, nd, td, nc, nb, e, "EINVAL")
      /\ [q EXCEPT !.rc = "EOVERFLOW"] = State(m, c, nd, td, nc, nb, e, "EOVERFLOW")
  BY DEF State
<1>3. ASSUME NEW u
      PROVE  [q EXCEPT !.chunk = u, !.ndigits = nd + 1, !.totaldigits = td + 1]
                = State(m, u, nd + 1, td + 1, nc, nb, e, r)
  <2>1. [q EXCEPT !.chunk = u] = State(m, u, nd, td, nc, nb, e, r)
    BY DEF State
  <2>2. [State(m, u, nd, td, nc, nb, e, r) EXCEPT !.ndigits = nd + 1]
           = State(m, u, nd + 1, td, nc, nb, e, r)
    BY DEF State
  <2>3. [State(m, u, nd + 1, td, nc, nb, e, r) EXCEPT !.totaldigits = td + 1]
           = State(m, u, nd + 1, td + 1, nc, nb, e, r)
    BY DEF State
  <2> QED
    BY <2>1, <2>2, <2>3
<1>4. [q EXCEPT !.chunk = s, !.ndigits = nd + 1, !.totaldigits = td + 1]
         = State(m, s, nd + 1, td + 1, nc, nb, e, r)
  <2>. HIDE DEF s
  <2> QED
    BY <1>3
<1>. HIDE DEF p, q
<1>5. ParseChar(p, e)
         = IF r # "reading" THEN p
           ELSE IF e = Space THEN q
           ELSE IF td > 0 /\ e # Nul /\ w = Space
           THEN [q EXCEPT !.rc = "ok"]
           ELSE IF e = Comma THEN EndChunk(q)
           ELSE IF e = Nul THEN Return(EndChunk(q), "ok")
           ELSE IF e = Junk THEN [q EXCEPT !.rc = "EINVAL"]
           ELSE IF c \cap ((CHUNK - D)..(CHUNK - 1)) # {}
           THEN [q EXCEPT !.rc = "EOVERFLOW"]
           ELSE [q EXCEPT !.chunk = s, !.ndigits = nd + 1, !.totaldigits = td + 1]
  BY <1>1 DEF ParseChar, With
<1> QED
  BY <1>2, <1>4, <1>5 DEF p, q

(* The mask stays one.                                                     *)
LEMMA MergedType ==
    ASSUME NEW m \in Masks, NEW c \in SUBSET (0..(CHUNK - 1))
    PROVE  /\ ShiftLeft([x |-> m], "x", "x", CHUNK) \in Masks
           /\ Bits(ShiftLeft([x |-> m], "x", "x", CHUNK))
                  = {i + CHUNK : i \in Bits(m)} \cap (0..(NB - 1))
           /\ Merged(m, c) \in Masks
<1>. DEFINE f == [x |-> m]
<1>1. f \in Memory({"x"}) /\ f["x"] = m
  BY DEF Memory
<1>2. /\ ShiftLeft(f, "x", "x", CHUNK) \in Masks
      /\ Bits(ShiftLeft(f, "x", "x", CHUNK)) = {i + CHUNK : i \in Bits(f["x"])} \cap (0..(NB - 1))
  <2>. HIDE DEF f
  <2> QED
    BY <1>1, LeftAgrees, ChunkFits
<1>3. c \in Word
  <2>1. \A b \in c : b \in 0..(W - 1)
    BY ChunkFits, BitmapAssumption
  <2> QED
    BY <2>1 DEF Word
<1>. DEFINE r == ShiftLeft(f, "x", "x", CHUNK)
<1>4. [r EXCEPT ![0] = @ \cup c] \in Masks
  <2>. HIDE DEF r
  <2>1. r \in Masks
    BY <1>2 DEF r
  <2> QED
    BY <1>3, <2>1, ChunkFits DEF Masks, Word
<1> QED
  BY <1>1, <1>2, <1>4 DEF Merged

(* So do the other parts.                                                  *)
LEMMA EndChunkType ==
    ASSUME NEW p \in States
    PROVE  EndChunk(p) \in States
<1>1. PICK m \in Masks, c \in SUBSET (0..(CHUNK - 1)), nd \in Nat, td \in Nat, nc \in Nat,
           nb \in Nat, w \in Chars, r \in {"reading", "ok", "EINVAL", "EOVERFLOW"} :
          p = State(m, c, nd, td, nc, nb, w, r)
  BY DEF States, State
<1>2. Merged(m, c) \in Masks
  BY <1>1, MergedType
<1>3. Longer(nb, nc, c) \in Nat
  <2>1. Fls(c) \in Nat /\ CHUNK \in Nat
    BY <1>1, FlsIs, ChunkFits
  <2> QED
    BY <1>1, <2>1 DEF Longer
<1>4. CASE nd = 0
  <2>1. EndChunk(p) = State(m, c, nd, td, nc, nb, w, "EINVAL")
    BY <1>1, <1>4, EndChunkIs
  <2>2. State(m, c, nd, td, nc, nb, w, "EINVAL") \in States
    BY <1>1 DEF States, State
  <2> QED
    BY <2>1, <2>2
<1>5. CASE nd # 0 /\ nc = 0 /\ c = {}
  <2>1. EndChunk(p) = State(m, {}, 0, td, nc, nb, w, r)
    BY <1>1, <1>5, EndChunkIs
  <2> QED
    BY <1>1, <2>1 DEF States, State
<1>6. CASE nd # 0 /\ ~(nc = 0 /\ c = {})
  <2>1. EndChunk(p) = State(Merged(m, c), {}, 0, td, nc + 1, Longer(nb, nc, c), w,
                            IF Longer(nb, nc, c) > NB THEN "EOVERFLOW" ELSE "reading")
    BY <1>1, <1>6, EndChunkIs
  <2> QED
    BY <1>1, <1>2, <1>3, <2>1 DEF States, State
<1> QED
  BY <1>4, <1>5, <1>6

(* And so does a character.                                                *)
LEMMA ParseCharType ==
    ASSUME NEW p \in States, NEW e \in Chars
    PROVE  ParseChar(p, e) \in States
<1>1. PICK m \in Masks, c \in SUBSET (0..(CHUNK - 1)), nd \in Nat, td \in Nat, nc \in Nat,
           nb \in Nat, w \in Chars, r \in {"reading", "ok", "EINVAL", "EOVERFLOW"} :
          p = State(m, c, nd, td, nc, nb, w, r)
  BY DEF States, State
<1>. DEFINE q == State(m, c, nd, td, nc, nb, e, r)
<1>2. q \in States
  BY <1>1 DEF States, State
<1>3. EndChunk(q) \in States
  <2>. HIDE DEF q
  <2> QED
    BY <1>2, EndChunkType
<1>4. Return(EndChunk(q), "ok") \in States
  <2>. DEFINE z == EndChunk(q)
  <2>. HIDE DEF z
  <2>1. z \in States
    BY <1>3 DEF z
  <2>2. Return(z, "ok") \in States
    BY <2>1 DEF Return, States
  <2> QED
    BY <2>2 DEF z
<1>5. ASSUME NEW rc \in {"ok", "EINVAL", "EOVERFLOW"}
      PROVE  State(m, c, nd, td, nc, nb, e, rc) \in States
  BY <1>1 DEF States, State
<1>6. ASSUME e # Space, e # Comma, e # Nul, e # Junk, c \cap ((CHUNK - D)..(CHUNK - 1)) = {}
      PROVE  State(m, With(c, e), nd + 1, td + 1, nc, nb, e, r) \in States
  <2>. DEFINE s == With(c, e)
  <2>1. PICK d \in SUBSET (0..(D - 1)) : e = Digit(d)
    BY <1>6 DEF Chars
  <2>2. e.bits = d
    BY <2>1 DEF Digit
  <2>3. \A b \in c : b + D \in 0..(CHUNK - 1)
    <3>1. \A b \in c : b \in 0..(CHUNK - 1) /\ b \notin (CHUNK - D)..(CHUNK - 1)
      BY <1>1, <1>6
    <3> QED
      BY <3>1, BitmapAssumption
  <2>4. \A b \in d : b \in 0..(CHUNK - 1)
    <3>1. \A b \in d : b \in 0..(D - 1)
      BY <2>1
    <3> QED
      BY <3>1, BitmapAssumption
  <2>5. s \in SUBSET (0..(CHUNK - 1))
    BY <2>2, <2>3, <2>4 DEF With
  <2>. HIDE DEF s
  <2>6. State(m, s, nd + 1, td + 1, nc, nb, e, r) \in States
    BY <1>1, <2>5 DEF States, State
  <2> QED
    BY <2>6 DEF s
<1>. HIDE DEF q
<1>. DEFINE s == State(m, With(c, e), nd + 1, td + 1, nc, nb, e, r)
<1>. HIDE DEF s
<1>7. ParseChar(p, e)
         = IF r # "reading" THEN p
           ELSE IF e = Space THEN q
           ELSE IF td > 0 /\ e # Nul /\ w = Space THEN State(m, c, nd, td, nc, nb, e, "ok")
           ELSE IF e = Comma THEN EndChunk(q)
           ELSE IF e = Nul THEN Return(EndChunk(q), "ok")
           ELSE IF e = Junk THEN State(m, c, nd, td, nc, nb, e, "EINVAL")
           ELSE IF c \cap ((CHUNK - D)..(CHUNK - 1)) # {}
           THEN State(m, c, nd, td, nc, nb, e, "EOVERFLOW")
           ELSE s
  BY <1>1, ParseCharIs DEF q, s
<1>8. e # Space /\ e # Comma /\ e # Nul /\ e # Junk /\ ~(c \cap ((CHUNK - D)..(CHUNK - 1)) # {})
         => s \in States
  BY <1>6 DEF s
<1> QED
  BY <1>2, <1>3, <1>4, <1>5, <1>7, <1>8

(* What __bitmap_parse leaves in the mask is a mask, whatever it returns.  *)
LEMMA ParseType ==
    ASSUME NEW t \in Seq(Chars)
    PROVE  BitmapParse(t) \in States
<1>. DEFINE key == <<"parse">>
            z == FoldLeft(ParseChar, ParseStart, t)
<1>1. ParseStart \in States
  <2>1. Zero \in Masks /\ Nul \in Chars
    BY DEF Zero, Masks, Word, Chars
  <2> QED
    BY <2>1 DEF ParseStart, States
<1>2. z \in States
  <2>1. z = Folded(key, ParseStart, t)
    BY ParseLoop
  <2>2. key[1] = "parse"
    OBVIOUS
  <2>. HIDE DEF key, z
  <2>3. \A p \in States, e \in Chars : Step(key, p, e) \in States
    BY <2>2, ParseCharType DEF Step
  <2> QED
    BY <1>1, <2>1, <2>3, FoldKeeps
<1>. HIDE DEF z
<1>3. ASSUME NEW p \in States PROVE Return(p, "ok") \in States
  BY DEF Return, States
<1>4. EndChunk(z) \in States
  BY <1>2, EndChunkType
<1> QED
  BY <1>2, <1>3, <1>4 DEF BitmapParse, z

-----------------------------------------------------------------------------
(* What is printed is read back                                            *)

(* __bitmap_parse on the characters of t, from state b.                    *)
Read(b, t) == Folded(<<"parse">>, b, t)

(* Its states after each character.                                        *)
Reads(acc, b, t) ==
    /\ acc[0] = b /\ Read(b, t) = acc[Len(t)]
    /\ \A n \in 1..Len(t) : acc[n] = ParseChar(acc[n - 1], t[n])

(* There are such states.                                                  *)
LEMMA ReadSteps ==
    ASSUME NEW b, NEW S, NEW t \in Seq(S)
    PROVE  \E acc : Reads(acc, b, t)
<1>. DEFINE key == <<"parse">>
<1>1. key[1] = "parse" /\ Read(b, t) = Folded(key, b, t)
  BY DEF Read
<1>. HIDE DEF key
<1>2. PICK acc : Turns(acc, key, b, t) /\ Folded(key, b, t) = acc[Len(t)]
  BY FoldLeftSteps
<1>3. \A n \in 1..Len(t) : acc[n] = ParseChar(acc[n - 1], t[n])
  BY <1>1, <1>2 DEF Turns, Step
<1> QED
  BY <1>1, <1>2, <1>3 DEF Reads, Turns

(* A text in two parts is read in two parts.                               *)
LEMMA ReadMore ==
    ASSUME NEW b, NEW S, NEW s \in Seq(S), NEW t \in Seq(S)
    PROVE  Read(b, s \o t) = Read(Read(b, s), t)
<1>1. /\ s \o t \in Seq(S) /\ Len(s \o t) = Len(s) + Len(t) /\ Len(s) \in Nat /\ Len(t) \in Nat
      /\ \A i \in 1 .. Len(s) + Len(t) : (s \o t)[i] = IF i <= Len(s) THEN s[i] ELSE t[i - Len(s)]
  BY ConcatProperties
<1>2. PICK f : Reads(f, b, s \o t)
  BY <1>1, ReadSteps
<1>3. PICK g : Reads(g, b, s)
  BY ReadSteps
<1>4. PICK h : Reads(h, Read(b, s), t)
  BY ReadSteps
<1>5. PICK u \in Nat, v \in Nat : u = Len(s) /\ v = Len(t)
  BY <1>1
<1>6. f[u] = g[u]
  <2>. DEFINE T == {n \in 0..u : f[n] = g[n]}
  <2>1. 0 \in T
    BY <1>2, <1>3 DEF Reads
  <2>2. ASSUME NEW n \in 1..u, n - 1 \in T PROVE n \in T
    <3>1. n \in 1..(u + v) /\ n <= u
      BY <1>5
    <3>2. (s \o t)[n] = s[n]
      BY <1>1, <1>5, <3>1
    <3>3. f[n] = ParseChar(f[n - 1], s[n])
      BY <1>1, <1>2, <1>5, <3>1, <3>2 DEF Reads
    <3>4. g[n] = ParseChar(g[n - 1], s[n])
      BY <1>3, <1>5 DEF Reads
    <3> QED
      BY <2>2, <3>3, <3>4
  <2>3. u \in T
    <3>. HIDE DEF T
    <3> QED
      BY <1>5, <2>1, <2>2, EveryTurn
  <2> QED
    BY <2>3
<1>7. f[u + v] = h[v]
  <2>. DEFINE T == {n \in 0..v : f[u + n] = h[n]}
  <2>1. 0 \in T
    <3>1. u + 0 = u /\ 0 \in 0..v
      BY <1>5
    <3> QED
      BY <1>3, <1>4, <1>5, <1>6, <3>1 DEF Reads
  <2>2. ASSUME NEW n \in 1..v, n - 1 \in T PROVE n \in T
    <3>1. u + n \in 1..(u + v) /\ ~(u + n <= u) /\ (u + n) - u = n /\ (u + n) - 1 = u + (n - 1)
          /\ n \in 0..v
      BY <1>5
    <3>2. (s \o t)[u + n] = t[n]
      BY <1>1, <1>5, <3>1
    <3>3. f[u + n] = ParseChar(f[u + (n - 1)], t[n])
      BY <1>1, <1>2, <1>5, <3>1, <3>2 DEF Reads
    <3>4. h[n] = ParseChar(h[n - 1], t[n])
      BY <1>4, <1>5 DEF Reads
    <3> QED
      BY <2>2, <3>1, <3>3, <3>4
  <2>3. v \in T
    <3>. HIDE DEF T
    <3> QED
      BY <1>5, <2>1, <2>2, EveryTurn
  <2> QED
    BY <2>3
<1> QED
  BY <1>1, <1>2, <1>4, <1>5, <1>7 DEF Reads

(* A text of one character.                                                *)
LEMMA ReadOne ==
    ASSUME NEW b, NEW e
    PROVE  Read(b, <<e>>) = ParseChar(b, e)
<1>1. <<e>> \in Seq({e}) /\ Len(<<e>>) = 1 /\ <<e>>[1] = e
  OBVIOUS
<1>2. PICK acc : Reads(acc, b, <<e>>)
  BY <1>1, ReadSteps
<1> QED
  BY <1>1, <1>2 DEF Reads

(* The digits of a chunk are those of CHUNK bits.                          *)
LEMMA DigitCount ==
    \E n \in Nat : n = (CHUNK + D - 1) \div D /\ n > 0 /\ CHUNK = D * n
<1>1. D \in Nat /\ D > 0 /\ CHUNK \in Nat /\ CHUNK > 0 /\ CHUNK % D = 0
  BY BitmapAssumption
<1>2. PICK n \in Nat : n = (CHUNK + D - 1) \div D
  BY <1>1
<1>3. PICK q \in Nat : q = CHUNK \div D /\ CHUNK = D * q + (CHUNK % D)
  BY <1>1
<1>4. CHUNK = D * q
  BY <1>1, <1>3
<1>5. PICK r \in 0..(D - 1) : CHUNK + D - 1 = D * n + r
  BY <1>1, <1>2
<1>6. n = q
  <2>1. ~(n < q)
    <3>1. n < q => D * n + D <= D * q
      BY <1>1
    <3>2. PICK u \in Int, v \in Int : u = D * n /\ v = D * q
      BY <1>1
    <3> QED
      BY <1>1, <1>4, <1>5, <3>1, <3>2
  <2>2. ~(q < n)
    <3>1. q < n => D * q + D <= D * n
      BY <1>1
    <3>2. PICK u \in Int, v \in Int : u = D * n /\ v = D * q
      BY <1>1
    <3> QED
      BY <1>1, <1>4, <1>5, <3>1, <3>2
  <2> QED
    BY <2>1, <2>2
<1>7. n > 0
  <2>1. D * 0 = 0
    BY <1>1
  <2> QED
    BY <1>1, <1>4, <1>6, <2>1
<1> QED
  BY <1>2, <1>4, <1>6, <1>7

(* A digit among the characters.                                           *)
IsDigit(e) == e \in Chars /\ e # Space /\ e # Comma /\ e # Nul /\ e # Junk

(* Reading the digits of a chunk gives the chunk.                          *)
LEMMA ReadDigits ==
    ASSUME NEW val \in SUBSET (0..(CHUNK - 1)), NEW m, NEW td \in Nat, NEW nc, NEW nb,
           NEW w, w # Space
    PROVE  \E n \in Nat : \E e :
              /\ n > 0 /\ IsDigit(e)
              /\ Read(State(m, {}, 0, td, nc, nb, w, "reading"), Digits(val, CHUNK))
                    = State(m, val, n, td + n, nc, nb, e, "reading")
<1>1. PICK n \in Nat : n = (CHUNK + D - 1) \div D /\ n > 0 /\ CHUNK = D * n
  BY DigitCount
<1>2. D \in Nat /\ D > 0 /\ CHUNK \in Nat
  BY BitmapAssumption
<1>. DEFINE t == Digits(val, CHUNK)
            b == State(m, {}, 0, td, nc, nb, w, "reading")
            Rest(j) == D * (n - j)
            Bit(j) == {c \in 0..(D - 1) : c + Rest(j) \in val}
            Lead(j) == {c - Rest(j) : c \in {z \in val : z >= Rest(j)}}
<1>3. t = [j \in 1..n |-> Digit(Bit(j))]
  BY <1>1 DEF Digits
<1>4. t \in Seq(Chars) /\ Len(t) = n
  BY <1>1, <1>2, DigitsType
<1>5. PICK acc : Reads(acc, b, t)
  BY <1>4, ReadSteps
<1>6. \A j \in 0..n : Rest(j) \in Nat /\ (j > 0 => Rest(j - 1) = Rest(j) + D)
  <2>1. ASSUME NEW j \in 0..n PROVE Rest(j) \in Nat /\ (j > 0 => Rest(j - 1) = Rest(j) + D)
    <3>1. n - j \in Nat /\ n - (j - 1) = (n - j) + 1
      BY <1>1
    <3>2. PICK k \in Nat : k = n - j
      BY <3>1
    <3>3. D * k \in Nat /\ D * (k + 1) = D * k + D
      BY <1>2
    <3> QED
      BY <3>1, <3>2, <3>3
  <2> QED
    BY <2>1
<1>7. Rest(0) = CHUNK /\ Rest(n) = 0
  BY <1>1, <1>2
<1>8. \A c \in val : c \in Int /\ c >= 0 /\ c < CHUNK
  BY <1>2
<1>. HIDE DEF Rest
<1>9. Lead(0) = {} /\ Lead(n) = val
  <2>1. \A c \in val : ~(c >= CHUNK) /\ c >= 0 /\ c - 0 = c
    BY <1>2, <1>8
  <2>2. Lead(0) = {c - CHUNK : c \in {z \in val : z >= CHUNK}}
    BY <1>7
  <2>3. Lead(n) = {c - 0 : c \in {z \in val : z >= 0}}
    BY <1>7
  <2>. HIDE DEF Lead
  <2>4. Lead(0) = {}
    BY <2>1, <2>2
  <2>5. Lead(n) = val
    BY <2>1, <2>3
  <2> QED
    BY <2>4, <2>5
<1>10. ASSUME NEW j \in 1..n
       PROVE  /\ IsDigit(t[j]) /\ With(Lead(j - 1), t[j]) = Lead(j)
              /\ Lead(j - 1) \cap ((CHUNK - D)..(CHUNK - 1)) = {}
  <2>1. t[j] = Digit(Bit(j)) /\ t[j].bits = Bit(j)
    BY <1>3 DEF Digit
  <2>2. IsDigit(t[j])
    <3>1. Digit(Bit(j)) \in Chars
      BY DEF Chars
    <3>2. /\ Digit(Bit(j)).is = "digit" /\ Space.is = "space" /\ Comma.is = "comma"
          /\ Nul.is = "nul" /\ Junk.is = "junk"
      BY DEF Digit, Space, Comma, Nul, Junk
    <3> QED
      BY <2>1, <3>1, <3>2 DEF IsDigit
  <2>3. PICK r \in Nat : r = Rest(j) /\ Rest(j - 1) = r + D
    BY <1>6
  <2>4. Lead(j - 1) = {c - (r + D) : c \in {z \in val : z >= r + D}}
    BY <2>3
  <2>5. Lead(j) = {c - r : c \in {z \in val : z >= r}}
    BY <2>3
  <2>6. Bit(j) = {c \in 0..(D - 1) : c + r \in val}
    BY <2>3
  <2>. HIDE DEF Lead, Bit
  <2>7. With(Lead(j - 1), t[j]) = Lead(j)
    <3>1. With(Lead(j - 1), t[j]) = {c + D : c \in Lead(j - 1)} \cup Bit(j)
      BY <2>1 DEF With
    <3>2. \A c \in val : c >= r + D => (c - (r + D)) + D = c - r /\ c >= r
      BY <1>2, <1>8
    <3>3. {c + D : c \in Lead(j - 1)} \subseteq Lead(j)
      BY <2>4, <2>5, <3>2
    <3>4. Bit(j) \subseteq Lead(j)
      <4>1. \A c \in 0..(D - 1) : c + r >= r /\ (c + r) - r = c
        BY <1>2
      <4> QED
        BY <2>5, <2>6, <4>1
    <3>5. ASSUME NEW c \in val, c >= r
          PROVE  c - r \in {e + D : e \in Lead(j - 1)} \cup Bit(j)
      <4>1. CASE c >= r + D
        BY <2>4, <3>2, <4>1
      <4>2. CASE ~(c >= r + D)
        <5>1. c - r \in 0..(D - 1) /\ (c - r) + r = c
          BY <1>2, <1>8, <3>5, <4>2
        <5> QED
          BY <2>6, <5>1
      <4> QED
        BY <4>1, <4>2
    <3> QED
      BY <2>5, <3>1, <3>3, <3>4, <3>5
  <2>8. Lead(j - 1) \cap ((CHUNK - D)..(CHUNK - 1)) = {}
    <3>1. \A c \in val : c - (r + D) < CHUNK - D
      BY <1>2, <1>8
    <3> QED
      BY <1>2, <2>4, <3>1
  <2> QED
    BY <2>2, <2>7, <2>8
<1>. HIDE DEF Lead, t
<1>. DEFINE T == {j \in 0..n :
                     \E e : /\ acc[j] = State(m, Lead(j), j, td + j, nc, nb, e, "reading")
                            /\ e # Space /\ (j > 0 => IsDigit(e))}
<1>11. 0 \in T
  <2>1. acc[0] = State(m, {}, 0, td, nc, nb, w, "reading") /\ td + 0 = td /\ 0 \in 0..n
    BY <1>1, <1>5 DEF Reads
  <2> QED
    BY <1>9, <2>1
<1>12. ASSUME NEW j \in 1..n, j - 1 \in T PROVE j \in T
  <2>1. PICK e : acc[j - 1] = State(m, Lead(j - 1), j - 1, td + (j - 1), nc, nb, e, "reading")
                 /\ e # Space
    BY <1>12
  <2>2. acc[j] = ParseChar(acc[j - 1], t[j])
    BY <1>4, <1>5 DEF Reads
  <2>3. PICK z : z = t[j] /\ IsDigit(z)
    BY <1>10
  <2>4. ParseChar(State(m, Lead(j - 1), j - 1, td + (j - 1), nc, nb, e, "reading"), z)
           = State(m, With(Lead(j - 1), z), (j - 1) + 1, (td + (j - 1)) + 1, nc, nb, z, "reading")
    BY <1>10, <2>1, <2>3, ParseCharIs DEF IsDigit
  <2>5. (j - 1) + 1 = j /\ (td + (j - 1)) + 1 = td + j /\ j \in 0..n
    OBVIOUS
  <2>6. acc[j] = State(m, Lead(j), j, td + j, nc, nb, z, "reading")
    BY <1>10, <2>1, <2>2, <2>3, <2>4, <2>5
  <2> QED
    BY <2>3, <2>5, <2>6 DEF IsDigit
<1>13. n \in T
  <2>. HIDE DEF T
  <2> QED
    BY <1>1, <1>11, <1>12, EveryTurn
<1>14. PICK e : acc[n] = State(m, val, n, td + n, nc, nb, e, "reading") /\ IsDigit(e)
  BY <1>1, <1>9, <1>13
<1> QED
  BY <1>1, <1>4, <1>5, <1>14 DEF Reads, t

(* The bits of a mask in the chunk at i.                                   *)
Chunk(a, i) == {b \in 0..(CHUNK - 1) : i + b \in Bits(a)}

(* Multiples of any number.                                                *)
LEMMA Multiples ==
    ASSUME NEW n \in Nat, n > 0, NEW k \in Int, NEW l \in Int
    PROVE  /\ n * k \in Int /\ n * l \in Int
           /\ n * k < n * l => n * k + n <= n * l
<1>1. n * k \in Int /\ n * l \in Int
  OBVIOUS
<1>2. k < l => n * k + n <= n * l
  OBVIOUS
<1>3. l <= k => n * l <= n * k
  OBVIOUS
<1>4. PICK u \in Int, v \in Int : u = n * k /\ v = n * l
  BY <1>1
<1> QED
  BY <1>2, <1>3, <1>4

(* A chunk is in one word.                                                 *)
LEMMA InOneWord ==
    ASSUME NEW k \in Nat, NEW i \in Nat, i = CHUNK * k
    PROVE  (i % W) + CHUNK <= W
<1>1. CHUNK \in Nat /\ CHUNK > 0 /\ W \in Nat /\ W % CHUNK = 0
  BY ChunkFits, BitmapAssumption
<1>2. PICK g \in Nat : W = CHUNK * g
  <2>1. W = CHUNK * (W \div CHUNK) + (W % CHUNK) /\ W \div CHUNK \in Nat
    BY <1>1
  <2> QED
    BY <1>1, <2>1
<1>3. PICK l \in Nat, c \in 0..(W - 1) : l = i \div W /\ c = i % W /\ i = W * l + c
  BY Position
<1>4. c = CHUNK * (k - g * l)
  <2>1. W * l = CHUNK * (g * l)
    BY <1>1, <1>2
  <2>2. g * l \in Int
    OBVIOUS
  <2>3. PICK h \in Int : h = g * l
    BY <2>2
  <2>4. CHUNK * (k - h) = CHUNK * k - CHUNK * h
    BY <1>1, <2>3
  <2>5. PICK u \in Int, v \in Int : u = CHUNK * k /\ v = CHUNK * h
    BY <1>1, <2>3
  <2>6. i = u /\ i = v + c
    BY <1>3, <2>1, <2>3, <2>5
  <2>7. c = u - v
    BY <1>3, <2>5, <2>6
  <2> QED
    BY <2>3, <2>4, <2>5, <2>7
<1>5. PICK h \in Int : h = k - g * l
  OBVIOUS
<1>6. c = CHUNK * h /\ c < CHUNK * g
  BY <1>1, <1>2, <1>3, <1>4, <1>5
<1>7. c + CHUNK <= CHUNK * g
  BY <1>1, <1>5, <1>6, Multiples
<1> QED
  BY <1>2, <1>3, <1>7

(* What bitmap_scnprintf takes for the bits of a chunk are those.          *)
LEMMA ChunkIs ==
    ASSUME NEW a \in Masks, NEW k \in Nat, NEW i \in Nat, i = CHUNK * k, i + CHUNK <= NB
    PROVE  ChunkAt(a, i, CHUNK) = Chunk(a, i)
<1>1. /\ CHUNK \in Nat /\ CHUNK > 0 /\ W \in Nat /\ NB \in Nat /\ CHUNK <= W
      /\ (i % W) + CHUNK <= W
  BY ChunkFits, BitmapAssumption, InOneWord
<1>2. PICK l \in Nat, c \in 0..(W - 1) : l = i \div W /\ c = i % W /\ i = W * l + c
  BY Position
<1>3. l \in Words
  <2>1. i \in 0..(NB - 1)
    BY <1>1
  <2> QED
    BY <1>2, <2>1, Places
<1>4. a[l] \in SUBSET (0..(W - 1))
  BY <1>3 DEF Masks, Word
<1>5. ASSUME NEW b \in 0..(CHUNK - 1)
      PROVE  i + b \in Bits(a) <=> c + b \in a[l]
  <2>1. c + b \in 0..(W - 1) /\ i + b \in 0..(NB - 1)
    BY <1>1, <1>2
  <2>2. W * l \in Int
    BY <1>1
  <2>3. i + b = W * l + (c + b)
    BY <1>1, <1>2, <2>2
  <2>4. (i + b) \div W = l /\ (i + b) % W = c + b
    BY <2>1, <2>3, WordOf
  <2> QED
    BY <2>1, <2>4 DEF Bits
<1>6. ASSUME NEW b \in 0..(CHUNK - 1)
      PROVE  b \in ShiftWord(a[l], -c) <=> c + b \in a[l]
  <2>1. b \in 0..(W - 1) /\ (c + b) + (-c) = b
    BY <1>1
  <2>2. ASSUME NEW z \in a[l], b = z + (-c) PROVE z = c + b
    <3>1. z \in Int /\ c \in Int
      BY <1>1, <1>2, <1>4
    <3> QED
      BY <2>2, <3>1
  <2> QED
    BY <2>1, <2>2 DEF ShiftWord
<1>7. ChunkAt(a, i, CHUNK) = ShiftWord(a[l], -c) \cap (0..(CHUNK - 1))
  BY <1>2 DEF ChunkAt
<1> QED
  BY <1>5, <1>6, <1>7 DEF Chunk

(* One chunk more in front of the mask.                                    *)
LEMMA MergedBits ==
    ASSUME NEW m \in Masks, NEW c \in SUBSET (0..(CHUNK - 1)), NEW q \in 0..(NB - 1)
    PROVE  q \in Bits(Merged(m, c)) <=> q \in c \/ q - CHUNK \in Bits(m)
<1>. DEFINE r == ShiftLeft([x |-> m], "x", "x", CHUNK)
<1>1. r \in Masks /\ Bits(r) = {i + CHUNK : i \in Bits(m)} \cap (0..(NB - 1))
      /\ Merged(m, c) = [r EXCEPT ![0] = @ \cup c]
  BY MergedType DEF Merged
<1>. HIDE DEF r
<1>2. /\ CHUNK \in Nat /\ CHUNK <= W /\ W \in Nat /\ W > 0 /\ NB \in Nat
      /\ 0 \in Words /\ Bits(m) \subseteq 0..(NB - 1)
  BY ChunkFits, BitmapAssumption, BitsAre
<1>3. q \in Bits(r) <=> q - CHUNK \in Bits(m)
  <2>1. (q - CHUNK) + CHUNK = q
    BY <1>2
  <2>2. ASSUME NEW i \in Bits(m), q = i + CHUNK PROVE i = q - CHUNK
    BY <1>2, <2>2
  <2> QED
    BY <1>1, <2>1, <2>2
<1>4. PICK k \in Int, b \in 0..(W - 1) : k = q \div W /\ b = q % W /\ q = W * k + b
  BY <1>2, Position
<1>5. k \in Words
  BY <1>4, Places
<1>6. CASE k = 0
  <2>1. q = b
    BY <1>2, <1>4, <1>6
  <2>2. Merged(m, c)[0] = r[0] \cup c
    BY <1>1, <1>2 DEF Masks
  <2>3. q \in Bits(Merged(m, c)) <=> b \in r[0] \cup c
    BY <1>4, <1>6, <2>2 DEF Bits
  <2>4. q \in Bits(r) <=> b \in r[0]
    BY <1>4, <1>6 DEF Bits
  <2> QED
    BY <1>3, <2>1, <2>3, <2>4
<1>7. CASE k # 0
  <2>1. q \notin c
    <3>1. k > 0
      BY <1>2, <1>5, <1>7 DEF Words
    <3>2. W * 0 + W <= W * k
      BY <3>1, Grows
    <3>3. PICK u \in Int : u = W * k
      BY <1>2
    <3>4. q >= CHUNK
      BY <1>2, <1>4, <3>2, <3>3
    <3> QED
      BY <1>2, <3>4
  <2>2. Merged(m, c)[k] = r[k]
    BY <1>1, <1>5, <1>7 DEF Masks
  <2>3. q \in Bits(Merged(m, c)) <=> q \in Bits(r)
    BY <1>4, <2>2 DEF Bits
  <2> QED
    BY <1>3, <2>1, <2>3
<1> QED
  BY <1>6, <1>7

(* The part of the mask from i on has been read: the chunk at i is still   *)
(* being read, the chunks behind it are in the mask, and the bits counted  *)
(* are not more than those.  Nothing has been counted as long as the       *)
(* chunks were zero, which only a chunk at 0 can be.                       *)
ReadFrom(a, i, m, c, nc, nb) ==
    /\ m \in Masks /\ c = Chunk(a, i) /\ nb + i + CHUNK <= NB
    /\ \A q \in 0..(NB - 1) : q \in Bits(m) <=> q + i + CHUNK \in Bits(a)
    /\ nc = 0 => Bits(m) = {} /\ (c # {} \/ i = 0)

(* With the chunk the mask has the bits from i on.                         *)
LEMMA MergedFrom ==
    ASSUME NEW a, NEW i \in Nat, NEW m, NEW c, NEW nc, NEW nb, ReadFrom(a, i, m, c, nc, nb)
    PROVE  \A q \in 0..(NB - 1) : /\ q \in Bits(Merged(m, c)) <=> q + i \in Bits(a)
                                  /\ q \in c \/ q - CHUNK \in Bits(m) <=> q + i \in Bits(a)
<1> SUFFICES ASSUME NEW q \in 0..(NB - 1)
             PROVE  q \in c \/ q - CHUNK \in Bits(m) <=> q + i \in Bits(a)
  <2>1. m \in Masks /\ c \in SUBSET (0..(CHUNK - 1))
    BY DEF ReadFrom, Chunk
  <2> QED
    BY <2>1, MergedBits
<1>1. CHUNK \in Nat /\ CHUNK > 0 /\ NB \in Nat /\ Bits(m) \subseteq 0..(NB - 1)
  BY ChunkFits, BitmapAssumption, BitsAre
<1>2. CASE q < CHUNK
  <2>1. q \in 0..(CHUNK - 1) /\ i + q = q + i
    BY <1>1, <1>2
  <2>2. q - CHUNK \notin Bits(m)
    BY <1>1, <1>2
  <2>3. q \in c <=> i + q \in Bits(a)
    BY <2>1 DEF ReadFrom, Chunk
  <2> QED
    BY <2>1, <2>2, <2>3
<1>3. CASE ~(q < CHUNK)
  <2>1. q \notin c
    BY <1>1, <1>3 DEF ReadFrom, Chunk
  <2>2. q - CHUNK \in 0..(NB - 1) /\ (q - CHUNK) + i + CHUNK = q + i
    BY <1>1, <1>3
  <2> QED
    BY <2>1, <2>2 DEF ReadFrom
<1> QED
  BY <1>2, <1>3

(* The text t is read as the part of the mask from i on.                   *)
ReadsFrom(a, i, t) ==
    \E m \in Masks, c \in SUBSET (0..(CHUNK - 1)), nc, nb, n, td \in Nat, e \in Chars :
        /\ ReadFrom(a, i, m, c, nc, nb) /\ n > 0 /\ IsDigit(e)
        /\ Read(ParseStart, t) = State(m, c, n, td, nc, nb, e, "reading")

(* It is, if it is with these.                                             *)
LEMMA Readable ==
    ASSUME NEW a, NEW i, NEW t, NEW m \in Masks, NEW c \in SUBSET (0..(CHUNK - 1)),
           NEW nc \in Nat, NEW nb \in Nat, NEW n \in Nat, NEW td \in Nat, NEW e \in Chars,
           ReadFrom(a, i, m, c, nc, nb), n > 0, IsDigit(e),
           Read(ParseStart, t) = State(m, c, n, td, nc, nb, e, "reading")
    PROVE  ReadsFrom(a, i, t)
  BY DEF ReadsFrom

(* The chunks from i on have been printed; the text is empty as long as    *)
(* they are zero.                                                          *)
Sofar(a, p, i) ==
    /\ p.text \in Seq(Chars) /\ p.size = CHUNK
    /\ IF p.text = <<>> THEN i # 0 /\ \A q \in Bits(a) : q < i
                        ELSE ReadsFrom(a, i, p.text)

(* The next chunk, in front of them.                                       *)
LEMMA PrintTurn ==
    ASSUME NEW a \in Masks, NEW p, NEW j, NEW k \in Nat, NEW i \in Nat,
           i = CHUNK * k, i = (Chunks - j) * CHUNK, i + CHUNK <= NB, Sofar(a, p, i + CHUNK)
    PROVE  Sofar(a, PrintChunk(a, p, j), i)
<1>. DEFINE val == Chunk(a, i)
            lead == IF p.text = <<>> THEN <<>> ELSE <<Comma>>
            new == [text |-> p.text \o lead \o Digits(val, CHUNK), size |-> CHUNK]
<1>1. ChunkAt(a, i, p.size) = val
  BY ChunkIs DEF Sofar
<1>2. PrintChunk(a, p, j) = IF val = {} /\ p.text = <<>> /\ i # 0 THEN p ELSE new
  BY <1>1 DEF PrintChunk, Sofar
<1>3. /\ CHUNK \in Nat /\ CHUNK > 0 /\ NB \in Nat /\ Bits(a) \subseteq 0..(NB - 1)
      /\ val \in SUBSET (0..(CHUNK - 1)) /\ p.text \in Seq(Chars) /\ p.size = CHUNK
  BY ChunkFits, BitmapAssumption, BitsAre DEF Chunk, Sofar
<1>4. PICK z : z = Digits(val, CHUNK) /\ z \in Seq(Chars) /\ Len(z) > 0
  <2>1. Len(Digits(val, CHUNK)) > 0
    BY <1>3, DigitsType, DigitCount
  <2> QED
    BY <1>3, <2>1, DigitsType
<1>5. /\ Comma # Space /\ Nul # Space /\ Comma # Nul
      /\ <<Comma>> \in Seq(Chars) /\ <<>> \in Seq(Chars)
  BY DEF Comma, Space, Nul, Chars
<1>6. CASE val = {} /\ p.text = <<>> /\ i # 0
  <2>1. ASSUME NEW q \in Bits(a) PROVE q < i
    <3>1. q \in Int /\ q < i + CHUNK
      BY <1>3, <1>6 DEF Sofar
    <3>2. ~(q >= i)
      <4>1. q >= i => q - i \in 0..(CHUNK - 1) /\ i + (q - i) = q
        BY <1>3, <3>1
      <4>2. \A b \in 0..(CHUNK - 1) : i + b \notin Bits(a)
        BY <1>6 DEF Chunk
      <4> QED
        BY <4>1, <4>2
    <3> QED
      BY <3>1, <3>2
  <2> QED
    BY <1>2, <1>3, <1>6, <2>1 DEF Sofar
<1>. HIDE DEF val
<1>7. CASE p.text = <<>> /\ ~(val = {} /\ i # 0)
  <2>1. new = [text |-> z, size |-> CHUNK] /\ z # <<>>
    BY <1>4, <1>7
  <2>2. PICK n \in Nat : \E e :
            /\ n > 0 /\ IsDigit(e)
            /\ Read(State(Zero, {}, 0, 0, 0, 0, Nul, "reading"), z)
                  = State(Zero, val, n, 0 + n, 0, 0, e, "reading")
    <3>1. \E n \in Nat : \E e :
            /\ n > 0 /\ IsDigit(e)
            /\ Read(State(Zero, {}, 0, 0, 0, 0, Nul, "reading"), Digits(val, CHUNK))
                  = State(Zero, val, n, 0 + n, 0, 0, e, "reading")
      <4>1. 0 \in Nat /\ Nul # Space /\ val \in SUBSET (0..(CHUNK - 1))
        BY <1>3, <1>5
      <4> QED
        BY <4>1, ReadDigits
    <3> QED
      BY <1>4, <3>1
  <2>3. ParseStart = State(Zero, {}, 0, 0, 0, 0, Nul, "reading")
    BY DEF ParseStart, State
  <2>4. ReadFrom(a, i, Zero, val, 0, 0)
    <3>1. Zero \in Masks /\ Bits(Zero) = {}
      <4>1. Zero \in Masks
        BY DEF Zero, Masks, Word
      <4>2. Has(Zero, {})
        BY DEF Has, Zero
      <4> QED
        BY <4>1, <4>2, SameBits
    <3>2. 0 + i + CHUNK <= NB
      BY <1>3
    <3>3. \A q \in 0..(NB - 1) : q + i + CHUNK \notin Bits(a)
      <4>1. \A b \in Bits(a) : b < i + CHUNK
        BY <1>7 DEF Sofar
      <4>2. \A q \in 0..(NB - 1) : q + i + CHUNK \in Int /\ ~(q + i + CHUNK < i + CHUNK)
        BY <1>3
      <4> QED
        BY <4>1, <4>2
    <3> QED
      BY <1>7, <3>1, <3>2, <3>3 DEF ReadFrom, val
  <2>5. PICK e : /\ n > 0 /\ IsDigit(e)
                 /\ Read(ParseStart, z) = State(Zero, val, n, 0 + n, 0, 0, e, "reading")
    BY <2>2, <2>3
  <2>6. ReadsFrom(a, i, z)
    <3>1. /\ Zero \in Masks /\ val \in SUBSET (0..(CHUNK - 1)) /\ e \in Chars
          /\ 0 \in Nat /\ 0 + n \in Nat
      BY <1>3, <2>4, <2>5 DEF ReadFrom, IsDigit
    <3> QED
      BY <2>4, <2>5, <3>1, Readable
  <2> QED
    BY <1>2, <1>4, <1>7, <2>1, <2>6 DEF Sofar
<1>8. CASE p.text # <<>>
  <2>1. ReadsFrom(a, i + CHUNK, p.text)
    BY <1>8 DEF Sofar
  <2>2. PICK m \in Masks, c \in SUBSET (0..(CHUNK - 1)), nc \in Nat, nb \in Nat,
             n \in Nat, td \in Nat, e \in Chars :
                /\ ReadFrom(a, i + CHUNK, m, c, nc, nb) /\ n > 0 /\ IsDigit(e)
                /\ Read(ParseStart, p.text) = State(m, c, n, td, nc, nb, e, "reading")
    BY <2>1 DEF ReadsFrom
  <2>3. /\ m \in Masks /\ c \in SUBSET (0..(CHUNK - 1)) /\ nb + (i + CHUNK) + CHUNK <= NB
        /\ nc = 0 => c # {}
    BY <1>3, <2>2 DEF ReadFrom, Chunk
  <2>4. Longer(nb, nc, c) \in Nat /\ Longer(nb, nc, c) <= nb + CHUNK
    <3>1. Fls(c) \in 0..CHUNK
      BY <2>3, FlsIs
    <3> QED
      BY <1>3, <3>1 DEF Longer
  <2>5. PICK nb2 \in Nat : /\ nb2 = Longer(nb, nc, c)
                           /\ nb2 + i + CHUNK <= NB /\ ~(nb2 > NB)
    BY <1>3, <2>3, <2>4
  <2>6. EndChunk(State(m, c, n, td, nc, nb, Comma, "reading"))
           = State(Merged(m, c), {}, 0, td, nc + 1, nb2, Comma, "reading")
    BY <2>2, <2>3, <2>5, EndChunkIs
  <2>7. ParseChar(State(m, c, n, td, nc, nb, e, "reading"), Comma)
           = State(Merged(m, c), {}, 0, td, nc + 1, nb2, Comma, "reading")
    BY <1>5, <2>2, <2>6, ParseCharIs DEF IsDigit
  <2>8. Read(ParseStart, p.text \o <<Comma>>)
           = State(Merged(m, c), {}, 0, td, nc + 1, nb2, Comma, "reading")
    <3>1. Read(ParseStart, p.text \o <<Comma>>) = Read(Read(ParseStart, p.text), <<Comma>>)
      <4>1. PICK s, t : s = p.text /\ s \in Seq(Chars) /\ t = <<Comma>> /\ t \in Seq(Chars)
        BY <1>3, <1>5
      <4>2. s \in Seq(Chars) /\ t \in Seq(Chars)
        BY <4>1
      <4>3. Read(ParseStart, s \o t) = Read(Read(ParseStart, s), t)
        BY <4>2, ReadMore
      <4> QED
        BY <4>1, <4>3
    <3>2. Read(State(m, c, n, td, nc, nb, e, "reading"), <<Comma>>)
             = ParseChar(State(m, c, n, td, nc, nb, e, "reading"), Comma)
      BY ReadOne
    <3> QED
      BY <2>2, <2>7, <3>1, <3>2
  <2>9. PICK n2 \in Nat : \E e2 :
            /\ n2 > 0 /\ IsDigit(e2)
            /\ Read(State(Merged(m, c), {}, 0, td, nc + 1, nb2, Comma, "reading"), z)
                  = State(Merged(m, c), val, n2, td + n2, nc + 1, nb2, e2, "reading")
    <3>1. td \in Nat /\ Comma # Space /\ val \in SUBSET (0..(CHUNK - 1))
      BY <1>3, <1>5, <2>2
    <3>2. PICK m1, nc1 : m1 = Merged(m, c) /\ nc1 = nc + 1
      OBVIOUS
    <3>3. \E n2 \in Nat : \E e2 :
            /\ n2 > 0 /\ IsDigit(e2)
            /\ Read(State(m1, {}, 0, td, nc1, nb2, Comma, "reading"), Digits(val, CHUNK))
                  = State(m1, val, n2, td + n2, nc1, nb2, e2, "reading")
      BY <3>1, ReadDigits
    <3> QED
      BY <1>4, <3>2, <3>3
  <2>10. PICK u : u = p.text \o <<Comma>> /\ u \in Seq(Chars)
    <3>1. PICK s, t : s = p.text /\ s \in Seq(Chars) /\ t = <<Comma>> /\ t \in Seq(Chars)
      BY <1>3, <1>5
    <3>2. s \o t \in Seq(Chars)
      BY <3>1
    <3> QED
      BY <3>1, <3>2
  <2>11. Read(ParseStart, u \o z) = Read(Read(ParseStart, u), z)
    <3>1. u \in Seq(Chars) /\ z \in Seq(Chars)
      BY <1>4, <2>10
    <3> QED
      BY <3>1, ReadMore
  <2>12. new = [text |-> u \o z, size |-> CHUNK]
    BY <1>4, <1>8, <2>10
  <2>13. u \o z \in Seq(Chars) /\ u \o z # <<>>
    BY <1>4, <2>10
  <2>14. ReadFrom(a, i, Merged(m, c), val, nc + 1, nb2)
    <3>1. Merged(m, c) \in Masks
      BY <2>3, MergedType
    <3>2. nc + 1 # 0
      OBVIOUS
    <3>3. \A q \in 0..(NB - 1) : q \in Bits(Merged(m, c)) <=> q + (i + CHUNK) \in Bits(a)
      BY <1>3, <2>2, MergedFrom
    <3>4. \A q \in 0..(NB - 1) : q + (i + CHUNK) = q + i + CHUNK
      BY <1>3
    <3> QED
      BY <2>5, <3>1, <3>2, <3>3, <3>4 DEF ReadFrom, val
  <2>15. nc + 1 \in Nat /\ td + n2 \in Nat
    OBVIOUS
  <2>16. PrintChunk(a, p, j) = new /\ new.text = u \o z /\ new.size = CHUNK
    BY <1>2, <1>8, <2>12
  <2>17. PICK e2 : /\ n2 > 0 /\ IsDigit(e2)
                   /\ Read(ParseStart, u \o z)
                         = State(Merged(m, c), val, n2, td + n2, nc + 1, nb2, e2, "reading")
    BY <2>8, <2>9, <2>10, <2>11
  <2>18. ReadsFrom(a, i, u \o z)
    <3>1. Merged(m, c) \in Masks /\ val \in SUBSET (0..(CHUNK - 1)) /\ e2 \in Chars
      BY <1>3, <2>14, <2>17 DEF ReadFrom, IsDigit
    <3> QED
      BY <2>5, <2>14, <2>15, <2>17, <3>1, Readable
  <2> QED
    BY <2>13, <2>16, <2>18 DEF Sofar
<1> QED
  BY <1>6, <1>7, <1>8

(* The chunks fill the mask.                                               *)
LEMMA ChunkCount ==
    ASSUME NB % CHUNK = 0
    PROVE  Chunks \in Nat /\ Chunks > 0 /\ NB = CHUNK * Chunks
<1>1. CHUNK \in Nat /\ CHUNK > 0 /\ NB \in Nat /\ NB > 0
  BY ChunkFits, BitmapAssumption
<1>2. PICK g \in Nat : NB = CHUNK * g
  <2>1. NB = CHUNK * (NB \div CHUNK) + (NB % CHUNK) /\ NB \div CHUNK \in Nat
    BY <1>1
  <2> QED
    BY <1>1, <2>1
<1>3. PICK n \in Nat : n = Chunks
  BY <1>1 DEF Chunks
<1>4. PICK r \in 0..(CHUNK - 1) : NB + CHUNK - 1 = CHUNK * n + r
  BY <1>1, <1>3 DEF Chunks
<1>5. PICK u \in Int, v \in Int : u = CHUNK * n /\ v = CHUNK * g
  BY <1>1
<1>6. n = g
  <2>1. ~(n < g)
    <3>1. n < g => CHUNK * n + CHUNK <= CHUNK * g
      BY <1>1
    <3> QED
      BY <1>1, <1>2, <1>4, <1>5, <3>1
  <2>2. ~(g < n)
    <3>1. g < n => CHUNK * g + CHUNK <= CHUNK * n
      BY <1>1
    <3> QED
      BY <1>1, <1>2, <1>4, <1>5, <3>1
  <2> QED
    BY <2>1, <2>2
<1>7. n > 0
  <2>1. CHUNK * 0 = 0
    BY <1>1
  <2> QED
    BY <1>1, <1>2, <1>6, <2>1
<1> QED
  BY <1>2, <1>3, <1>6, <1>7

(* What bitmap_scnprintf prints has been printed from 0 on.                *)
LEMMA PrintEnds ==
    ASSUME NEW a \in Masks, NB % CHUNK = 0
    PROVE  \E p : Printed(a) = p.text /\ Sofar(a, p, 0)
<1>. DEFINE s == [j \in 1..Chunks |-> j]
            b == [text |-> <<>>, size |-> IF NB % CHUNK = 0 THEN CHUNK ELSE NB % CHUNK]
            key == <<"print", a>>
<1>1. /\ CHUNK \in Nat /\ CHUNK > 0 /\ Chunks \in Nat /\ Chunks > 0 /\ NB = CHUNK * Chunks
      /\ NB \in Nat /\ Bits(a) \subseteq 0..(NB - 1)
  BY ChunkFits, ChunkCount, BitmapAssumption, BitsAre
<1>2. PICK z \in Nat : z = Chunks /\ z > 0 /\ NB = CHUNK * z
  BY <1>1
<1>3. s \in Seq(Nat) /\ Len(s) = z /\ \A j \in 1..z : s[j] = j
  BY <1>2
<1>4. b.text = <<>> /\ b.size = CHUNK /\ key[1] = "print" /\ key[2] = a
  OBVIOUS
<1>5. Printed(a) = Folded(key, b, s).text
  BY <1>3, PrintLoop DEF Printed
<1>. HIDE DEF s, b, key
<1>6. PICK acc : Turns(acc, key, b, s) /\ Folded(key, b, s) = acc[Len(s)]
  BY <1>3, FoldLeftSteps
<1>7. \A j \in 1..z : acc[j] = PrintChunk(a, acc[j - 1], j)
  BY <1>3, <1>4, <1>6 DEF Turns, Step
<1>. DEFINE T == {j \in 0..z : Sofar(a, acc[j], CHUNK * (z - j))}
<1>8. 0 \in T
  <2>1. acc[0] = b /\ CHUNK * (z - 0) = NB /\ 0 \in 0..z
    BY <1>2, <1>6 DEF Turns
  <2>2. NB # 0 /\ \A q \in Bits(a) : q < NB
    BY <1>1, BitmapAssumption
  <2>3. Sofar(a, b, NB)
    BY <1>4, <2>2 DEF Sofar
  <2> QED
    BY <2>1, <2>3
<1>9. ASSUME NEW j \in 1..z, j - 1 \in T PROVE j \in T
  <2>1. PICK k \in Nat : k = z - j /\ z - (j - 1) = k + 1 /\ k + 1 <= z
    BY <1>2
  <2>2. PICK i \in Nat : i = CHUNK * k
    BY <1>1
  <2>3. CHUNK * (k + 1) = i + CHUNK /\ (Chunks - j) * CHUNK = i
    <3>1. CHUNK * (k + 1) = CHUNK * k + CHUNK /\ k * CHUNK = CHUNK * k
      BY <1>1
    <3> QED
      BY <1>2, <2>1, <2>2, <3>1
  <2>4. i + CHUNK <= NB
    <3>1. CHUNK * (k + 1) <= CHUNK * z
      BY <1>1, <1>2, <2>1
    <3> QED
      BY <1>2, <2>3, <3>1
  <2>5. PICK p : p = acc[j - 1] /\ Sofar(a, p, i + CHUNK)
    BY <1>9, <2>1, <2>3
  <2>6. Sofar(a, PrintChunk(a, p, j), i)
    BY <2>2, <2>3, <2>4, <2>5, PrintTurn
  <2>7. Sofar(a, acc[j], CHUNK * (z - j))
    BY <1>7, <2>1, <2>2, <2>5, <2>6
  <2> QED
    BY <2>7
<1>10. z \in T
  <2>. HIDE DEF T
  <2> QED
    BY <1>8, <1>9, EveryTurn
<1>11. CHUNK * (z - z) = 0
  BY <1>1
<1> QED
  BY <1>3, <1>5, <1>6, <1>10, <1>11

(* A text that is read from 0 on is the mask.                              *)
LEMMA ParseEnds ==
    ASSUME NEW a, NEW t \in Seq(Chars), ReadsFrom(a, 0, t)
    PROVE  BitmapParse(t).rc = "ok" /\ Bits(BitmapParse(t).mask) = Bits(a)
<1>1. PICK m \in Masks, c \in SUBSET (0..(CHUNK - 1)), nc \in Nat, nb \in Nat,
           n \in Nat, td \in Nat, e \in Chars :
              /\ ReadFrom(a, 0, m, c, nc, nb) /\ n > 0 /\ IsDigit(e)
              /\ Read(ParseStart, t) = State(m, c, n, td, nc, nb, e, "reading")
  BY DEF ReadsFrom
<1>2. PICK p : p = State(m, c, n, td, nc, nb, e, "reading")
               /\ FoldLeft(ParseChar, ParseStart, t) = p
  BY <1>1, ParseLoop DEF Read
<1>3. p.was # Comma /\ p.rc = "reading"
  BY <1>1, <1>2 DEF State, IsDigit
<1>4. BitmapParse(t) = Return(EndChunk(p), "ok")
  BY <1>2, <1>3 DEF BitmapParse
<1>5. CHUNK \in Nat /\ CHUNK > 0 /\ NB \in Nat /\ Bits(a) \subseteq 0..(NB - 1)
  BY ChunkFits, BitmapAssumption, BitsAre
<1>6. \A q \in 0..(NB - 1) : /\ q \in Bits(Merged(m, c)) <=> q \in Bits(a)
                             /\ q \in c \/ q - CHUNK \in Bits(m) <=> q \in Bits(a)
  <2>1. \A q \in 0..(NB - 1) : /\ q \in Bits(Merged(m, c)) <=> q + 0 \in Bits(a)
                               /\ q \in c \/ q - CHUNK \in Bits(m) <=> q + 0 \in Bits(a)
    BY <1>1, MergedFrom
  <2>2. \A q \in 0..(NB - 1) : q + 0 = q
    BY <1>5
  <2> QED
    BY <2>1, <2>2
<1>7. ASSUME NEW m1, NEW td1, NEW nc1, NEW nb1, NEW d
      PROVE  LET q == Return(State(m1, {}, 0, td1, nc1, nb1, d, "reading"), "ok")
             IN  q.rc = "ok" /\ q.mask = m1
  BY DEF Return, State
<1>8. CASE nc = 0 /\ c = {}
  <2>1. EndChunk(p) = State(m, {}, 0, td, nc, nb, e, "reading")
    BY <1>1, <1>2, <1>8, EndChunkIs
  <2>2. Bits(m) = {}
    BY <1>1, <1>8 DEF ReadFrom
  <2>3. Bits(a) = {}
    BY <1>5, <1>6, <1>8, <2>2
  <2> QED
    BY <1>4, <1>7, <2>1, <2>2, <2>3
<1>9. CASE ~(nc = 0 /\ c = {})
  <2>1. Longer(nb, nc, c) \in Nat /\ ~(Longer(nb, nc, c) > NB)
    <3>1. Fls(c) \in 0..CHUNK /\ nb + 0 + CHUNK <= NB
      BY <1>1, FlsIs DEF ReadFrom
    <3> QED
      BY <1>1, <1>5, <3>1 DEF Longer
  <2>2. EndChunk(p) = State(Merged(m, c), {}, 0, td, nc + 1, Longer(nb, nc, c), e, "reading")
    BY <1>1, <1>2, <1>9, <2>1, EndChunkIs
  <2>3. Bits(Merged(m, c)) = Bits(a)
    BY <1>5, <1>6, BitsAre
  <2> QED
    BY <1>4, <1>7, <2>2, <2>3
<1> QED
  BY <1>8, <1>9

-----------------------------------------------------------------------------
(* What is read of a text                                                  *)

(* b is what lies between the white space of a text, as a list of digits   *)
(* and commas.  Behind position j and up to m there are these commas, and  *)
(* up to the first of them that many digits.                               *)
CommasTo(b, j, m) == {k \in (j + 1)..m : b[k] = Comma}
DigitsTo(b, j, m) == IF CommasTo(b, j, m) = {} THEN m - j
                     ELSE (CHOOSE k \in CommasTo(b, j, m) : \A l \in CommasTo(b, j, m) : k <= l)
                             - j - 1

(* What __bitmap_parse has read behind m: the value of the chunk that it   *)
(* is in and the one of those before.                                      *)
Inner(b, m) == {v \in Nat : \E j \in 1..m : \E e \in b[j].bits :
                    CommasTo(b, j, m) = {} /\ v = D * DigitsTo(b, j, m) + e}
Outer(b, m) == {v \in Nat : \E j \in 1..m : \E e \in b[j].bits :
                    /\ CommasTo(b, j, m) # {}
                    /\ v = CHUNK * (Cardinality(CommasTo(b, j, m)) - 1)
                              + (D * DigitsTo(b, j, m) + e)}

(* Every digit has its place in a chunk.                                   *)
Fits(b, m) == \A j \in 1..m : \A e \in b[j].bits : D * DigitsTo(b, j, m) + e < CHUNK

(* The largest member of a set.                                            *)
LEMMA Greatest ==
    ASSUME NEW n \in Nat, NEW T, T \subseteq 0..n, T # {}
    PROVE  \E p \in T : \A q \in T : p >= q
<1>. DEFINE U == {n - p : p \in T}
<1>1. U \subseteq Nat /\ U # {}
  <2>1. \A p \in T : n - p \in Nat
    OBVIOUS
  <2> QED
    BY <2>1
<1>2. PICK u \in U : \A v \in U : u <= v
  <2>. HIDE DEF U
  <2> QED
    BY <1>1, Least
<1>3. PICK p \in T : u = n - p
  BY <1>2
<1>4. \A q \in T : u <= n - q
  BY <1>2
<1>5. \A q \in T : p >= q
  BY <1>3, <1>4
<1> QED
  BY <1>5

(* At position j itself nothing is behind it.                              *)
LEMMA PlaceStart ==
    ASSUME NEW b, NEW j \in Nat
    PROVE  CommasTo(b, j, j) = {} /\ DigitsTo(b, j, j) = 0
<1>1. CommasTo(b, j, j) = {}
  BY DEF CommasTo
<1> QED
  BY <1>1 DEF DigitsTo

(* These are numbers, and they say where the first comma is.               *)
LEMMA PlaceType ==
    ASSUME NEW b, NEW j \in Nat, NEW m \in Nat, j <= m
    PROVE  /\ IsFiniteSet(CommasTo(b, j, m)) /\ Cardinality(CommasTo(b, j, m)) \in Nat
           /\ Cardinality(CommasTo(b, j, m)) = 0 <=> CommasTo(b, j, m) = {}
           /\ DigitsTo(b, j, m) \in Nat /\ DigitsTo(b, j, m) <= m - j
           /\ CommasTo(b, j, m) # {} =>
                 /\ j + 1 + DigitsTo(b, j, m) \in CommasTo(b, j, m)
                 /\ \A l \in CommasTo(b, j, m) : j + 1 + DigitsTo(b, j, m) <= l
<1>. DEFINE C == CommasTo(b, j, m)
<1>1. C \in SUBSET ((j + 1)..m)
  BY DEF CommasTo
<1>2. IsFiniteSet((j + 1)..m)
  BY FS_Interval
<1>. HIDE DEF C
<1>3. IsFiniteSet(C)
  BY <1>1, <1>2, FS_Subset
<1>4. Cardinality(C) \in Nat /\ (Cardinality(C) = 0 <=> C = {})
  BY <1>3, FS_CardinalityType, FS_EmptySet
<1>5. CASE C = {}
  <2>1. DigitsTo(b, j, m) = m - j
    BY <1>5 DEF DigitsTo, C
  <2> QED
    BY <1>3, <1>4, <1>5, <2>1 DEF C
<1>6. CASE C # {}
  <2>1. \E k \in C : \A l \in C : k <= l
    <3>1. C \subseteq Nat
      BY <1>1
    <3> QED
      BY <1>6, <3>1, Least
  <2>2. PICK k \in C : k = (CHOOSE h \in C : \A l \in C : h <= l) /\ \A l \in C : k <= l
    BY <2>1
  <2>3. DigitsTo(b, j, m) = k - j - 1
    BY <1>6, <2>2 DEF DigitsTo, C
  <2>4. k \in Nat /\ k - j - 1 \in Nat /\ k - j - 1 <= m - j /\ j + 1 + (k - j - 1) = k
    <3>1. k \in (j + 1)..m
      BY <1>1, <2>2
    <3> QED
      BY <3>1
  <2> QED
    BY <1>3, <1>4, <1>6, <2>2, <2>3, <2>4 DEF C
<1> QED
  BY <1>5, <1>6

(* One character more.                                                     *)
LEMMA PlaceStep ==
    ASSUME NEW b, NEW j \in Nat, NEW m \in Nat, j <= m
    PROVE  /\ b[m + 1] = Comma =>
                 /\ CommasTo(b, j, m + 1) = CommasTo(b, j, m) \cup {m + 1}
                 /\ Cardinality(CommasTo(b, j, m + 1)) = Cardinality(CommasTo(b, j, m)) + 1
                 /\ DigitsTo(b, j, m + 1) = DigitsTo(b, j, m)
           /\ b[m + 1] # Comma =>
                 /\ CommasTo(b, j, m + 1) = CommasTo(b, j, m)
                 /\ DigitsTo(b, j, m + 1)
                       = DigitsTo(b, j, m) + IF CommasTo(b, j, m) = {} THEN 1 ELSE 0
<1>1. \A k : k \in (j + 1)..(m + 1) <=> k \in (j + 1)..m \/ k = m + 1
  OBVIOUS
<1>2. CASE b[m + 1] = Comma
  <2>1. CommasTo(b, j, m + 1) = CommasTo(b, j, m) \cup {m + 1}
    BY <1>1, <1>2 DEF CommasTo
  <2>2. m + 1 \notin CommasTo(b, j, m)
    BY DEF CommasTo
  <2>3. Cardinality(CommasTo(b, j, m + 1)) = Cardinality(CommasTo(b, j, m)) + 1
    BY <2>1, <2>2, PlaceType, FS_AddElement
  <2>4. PICK d \in Nat, e \in Nat : d = DigitsTo(b, j, m) /\ e = DigitsTo(b, j, m + 1)
    <3>1. m + 1 \in Nat /\ j <= m + 1
      OBVIOUS
    <3>2. DigitsTo(b, j, m) \in Nat
      BY PlaceType
    <3>3. DigitsTo(b, j, m + 1) \in Nat
      BY <3>1, PlaceType
    <3> QED
      BY <3>2, <3>3
  <2>5. /\ j + 1 + e \in CommasTo(b, j, m + 1)
        /\ \A l \in CommasTo(b, j, m + 1) : j + 1 + e <= l
    <3>1. m + 1 \in Nat /\ j <= m + 1 /\ CommasTo(b, j, m + 1) # {}
      BY <2>1
    <3> QED
      BY <2>4, <3>1, PlaceType
  <2>6. CASE CommasTo(b, j, m) = {}
    <3>1. d = m - j
      BY <2>4, <2>6 DEF DigitsTo
    <3>2. j + 1 + e = m + 1
      BY <2>1, <2>5, <2>6
    <3> QED
      BY <1>2, <2>1, <2>3, <2>4, <3>1, <3>2
  <2>7. CASE CommasTo(b, j, m) # {}
    <3>1. /\ j + 1 + d \in CommasTo(b, j, m)
          /\ \A l \in CommasTo(b, j, m) : j + 1 + d <= l
      BY <2>4, <2>7, PlaceType
    <3>2. j + 1 + e <= j + 1 + d
      BY <2>1, <2>5, <3>1
    <3>3. j + 1 + d <= m
      BY <3>1 DEF CommasTo
    <3>4. j + 1 + e \in CommasTo(b, j, m)
      BY <2>1, <2>5, <3>2, <3>3
    <3>5. j + 1 + d <= j + 1 + e
      BY <3>1, <3>4
    <3> QED
      BY <1>2, <2>1, <2>3, <2>4, <3>2, <3>5
  <2> QED
    BY <2>6, <2>7
<1>3. CASE b[m + 1] # Comma
  <2>1. CommasTo(b, j, m + 1) = CommasTo(b, j, m)
    BY <1>1, <1>3 DEF CommasTo
  <2>2. CASE CommasTo(b, j, m) = {}
    <3>1. DigitsTo(b, j, m) = m - j /\ DigitsTo(b, j, m + 1) = (m + 1) - j
      BY <2>1, <2>2 DEF DigitsTo
    <3> QED
      BY <1>3, <2>1, <2>2, <3>1
  <2>3. CASE CommasTo(b, j, m) # {}
    <3>1. m + 1 \in Nat /\ j <= m + 1
      OBVIOUS
    <3>2. PICK d \in Nat : /\ d = DigitsTo(b, j, m) /\ j + 1 + d \in CommasTo(b, j, m)
                           /\ \A l \in CommasTo(b, j, m) : j + 1 + d <= l
      BY <2>3, PlaceType
    <3>3. PICK e \in Nat : /\ e = DigitsTo(b, j, m + 1) /\ j + 1 + e \in CommasTo(b, j, m)
                           /\ \A l \in CommasTo(b, j, m) : j + 1 + e <= l
      BY <2>1, <2>3, <3>1, PlaceType
    <3>4. j + 1 + d <= j + 1 + e /\ j + 1 + e <= j + 1 + d
      BY <3>2, <3>3
    <3>5. d = e
      BY <3>4
    <3> QED
      BY <1>3, <2>1, <2>3, <3>2, <3>3, <3>5
  <2> QED
    BY <2>2, <2>3
<1> QED
  BY <1>2, <1>3

(* A digit only moves up.                                                  *)
LEMMA PlaceGrows ==
    ASSUME NEW b, NEW j \in Nat, NEW m \in Nat, NEW n \in Nat, j <= m, m <= n
    PROVE  /\ Cardinality(CommasTo(b, j, m)) <= Cardinality(CommasTo(b, j, n))
           /\ DigitsTo(b, j, m) <= DigitsTo(b, j, n)
<1>1. CommasTo(b, j, m) \in SUBSET CommasTo(b, j, n)
  BY DEF CommasTo
<1>0. j <= n
  OBVIOUS
<1>2. IsFiniteSet(CommasTo(b, j, n))
  BY <1>0, PlaceType
<1>3. Cardinality(CommasTo(b, j, m)) <= Cardinality(CommasTo(b, j, n))
  BY <1>1, <1>2, FS_Subset
<1>4. PICK d \in Nat, e \in Nat : d = DigitsTo(b, j, m) /\ e = DigitsTo(b, j, n)
  <2>1. DigitsTo(b, j, m) \in Nat
    BY PlaceType
  <2>2. DigitsTo(b, j, n) \in Nat
    BY <1>0, PlaceType
  <2> QED
    BY <2>1, <2>2
<1>5. CASE CommasTo(b, j, n) = {}
  <2>1. d = m - j /\ e = n - j
    BY <1>1, <1>4, <1>5 DEF DigitsTo
  <2> QED
    BY <1>3, <1>4, <2>1
<1>6. CASE CommasTo(b, j, n) # {}
  <2>1. j + 1 + e \in CommasTo(b, j, n)
    BY <1>0, <1>4, <1>6, PlaceType
  <2>2. CASE j + 1 + e <= m
    <3>1. j + 1 + e \in CommasTo(b, j, m)
      BY <2>1, <2>2 DEF CommasTo
    <3>2. j + 1 + d <= j + 1 + e
      BY <1>4, <3>1, PlaceType
    <3> QED
      BY <1>3, <1>4, <3>2
  <2>3. CASE ~(j + 1 + e <= m)
    <3>1. d <= m - j
      BY <1>4, PlaceType
    <3> QED
      BY <1>3, <1>4, <2>3, <3>1
  <2> QED
    BY <2>2, <2>3
<1> QED
  BY <1>5, <1>6

(* The bits of a character.                                                *)
LEMMA CharBits ==
    ASSUME NEW e \in Chars
    PROVE  /\ e.bits \subseteq 0..(D - 1) /\ e.bits \subseteq Nat
           /\ e \in {Comma, Space, Nul, Junk} => e.bits = {}
<1>1. D \in Nat /\ D > 0
  BY BitmapAssumption
<1>2. CASE e \in {Comma, Space, Nul, Junk}
  BY <1>2 DEF Comma, Space, Nul, Junk
<1>3. CASE e \notin {Comma, Space, Nul, Junk}
  <2>1. PICK d \in SUBSET (0..(D - 1)) : e = Digit(d)
    BY <1>3 DEF Chars
  <2>2. e.bits = d
    BY <2>1 DEF Digit
  <2>3. \A i \in d : i \in Nat
    BY <1>1
  <2> QED
    BY <1>3, <2>2, <2>3
<1> QED
  BY <1>2, <1>3

(* Where a bit is.                                                         *)
LEMMA BitPlace ==
    ASSUME NEW b, NEW j \in Nat, NEW m \in Nat, j <= m, NEW e \in Nat
    PROVE  /\ D * DigitsTo(b, j, m) + e \in Nat
           /\ CommasTo(b, j, m) # {} =>
                  CHUNK * (Cardinality(CommasTo(b, j, m)) - 1)
                     + (D * DigitsTo(b, j, m) + e) \in Nat
<1>1. PICK d \in Nat, n \in Nat : /\ d = DigitsTo(b, j, m) /\ n = Cardinality(CommasTo(b, j, m))
                                  /\ n = 0 <=> CommasTo(b, j, m) = {}
  BY PlaceType
<1>2. PICK u \in Nat : u = D * d
  BY BitmapAssumption
<1>3. ASSUME n # 0 PROVE CHUNK * (n - 1) \in Nat
  <2>1. PICK k \in Nat : k = n - 1
    BY <1>3
  <2>2. CHUNK * k \in Nat
    BY ChunkFits
  <2> QED
    BY <2>1, <2>2
<1>4. u + e \in Nat /\ \A v \in Nat : v + (u + e) \in Nat
  BY <1>2
<1> QED
  BY <1>1, <1>2, <1>3, <1>4

(* The value of what has been read.                                        *)
Values(b, m) == {v \in Nat : \E j \in 1..m : \E e \in b[j].bits :
    v = CHUNK * Cardinality(CommasTo(b, j, m)) + (D * DigitsTo(b, j, m) + e)}

(* It is that of the chunk, and in front of it that of those before.       *)
LEMMA ValuesAre ==
    ASSUME NEW b, NEW m \in Nat, \A j \in 1..m : b[j] \in Chars
    PROVE  Values(b, m) = Inner(b, m) \cup {v + CHUNK : v \in Outer(b, m)}
<1>1. ASSUME NEW j \in 1..m, NEW e \in b[j].bits
      PROVE  LET here == D * DigitsTo(b, j, m) + e
                 now  == CHUNK * Cardinality(CommasTo(b, j, m)) + here
             IN  /\ here \in Nat
                 /\ CommasTo(b, j, m) = {} => now = here
                 /\ CommasTo(b, j, m) # {} =>
                       LET then == CHUNK * (Cardinality(CommasTo(b, j, m)) - 1) + here
                       IN  then \in Nat /\ now = then + CHUNK
  <2>1. j \in Nat /\ j <= m
    OBVIOUS
  <2>2. e \in Nat
    BY CharBits
  <2>3. PICK n \in Nat : /\ n = Cardinality(CommasTo(b, j, m))
                         /\ n = 0 <=> CommasTo(b, j, m) = {}
    BY <2>1, PlaceType
  <2>4. PICK h \in Nat : h = D * DigitsTo(b, j, m) + e
    BY <2>1, <2>2, BitPlace
  <2>5. CHUNK * 0 + h = h
    BY ChunkFits
  <2>6. ASSUME n # 0
        PROVE  CHUNK * (n - 1) + h \in Nat /\ CHUNK * n + h = (CHUNK * (n - 1) + h) + CHUNK
    <3>1. PICK k \in Nat : k = n - 1 /\ n = k + 1
      BY <2>6
    <3>2. CHUNK * (k + 1) = CHUNK * k + CHUNK /\ CHUNK * k \in Nat
      BY ChunkFits
    <3>3. PICK c \in Nat : c = CHUNK * k
      BY <3>2
    <3>4. c + h \in Nat /\ (c + CHUNK) + h = (c + h) + CHUNK
      BY <3>3, ChunkFits
    <3> QED
      BY <3>1, <3>2, <3>3, <3>4
  <2> QED
    BY <2>3, <2>4, <2>5, <2>6
<1>2. ASSUME NEW v \in Values(b, m) PROVE v \in Inner(b, m) \cup {u + CHUNK : u \in Outer(b, m)}
  <2>1. PICK j \in 1..m : \E e \in b[j].bits :
            v = CHUNK * Cardinality(CommasTo(b, j, m)) + (D * DigitsTo(b, j, m) + e)
    BY <1>2 DEF Values
  <2>2. PICK e \in b[j].bits :
            v = CHUNK * Cardinality(CommasTo(b, j, m)) + (D * DigitsTo(b, j, m) + e)
    BY <2>1
  <2> QED
    BY <1>1, <2>2 DEF Inner, Outer
<1>3. ASSUME NEW v \in Inner(b, m) PROVE v \in Values(b, m)
  <2>1. PICK j \in 1..m : \E e \in b[j].bits :
            CommasTo(b, j, m) = {} /\ v = D * DigitsTo(b, j, m) + e
    BY <1>3 DEF Inner
  <2>2. PICK e \in b[j].bits : CommasTo(b, j, m) = {} /\ v = D * DigitsTo(b, j, m) + e
    BY <2>1
  <2>3. v \in Nat /\ v = CHUNK * Cardinality(CommasTo(b, j, m)) + (D * DigitsTo(b, j, m) + e)
    BY <1>1, <2>2
  <2> QED
    BY <2>3 DEF Values
<1>4. ASSUME NEW u \in Outer(b, m) PROVE u + CHUNK \in Values(b, m)
  <2>1. PICK j \in 1..m : \E e \in b[j].bits :
            /\ CommasTo(b, j, m) # {}
            /\ u = CHUNK * (Cardinality(CommasTo(b, j, m)) - 1) + (D * DigitsTo(b, j, m) + e)
    BY <1>4 DEF Outer
  <2>2. PICK e \in b[j].bits :
            /\ CommasTo(b, j, m) # {}
            /\ u = CHUNK * (Cardinality(CommasTo(b, j, m)) - 1) + (D * DigitsTo(b, j, m) + e)
    BY <2>1
  <2>3. u + CHUNK = CHUNK * Cardinality(CommasTo(b, j, m)) + (D * DigitsTo(b, j, m) + e)
    BY <1>1, <2>2
  <2>4. u + CHUNK \in Nat
    BY <1>4, ChunkFits DEF Outer
  <2> QED
    BY <2>3, <2>4 DEF Values
<1> QED
  BY <1>2, <1>3, <1>4

(* A comma ends the chunk.                                                 *)
LEMMA AfterComma ==
    ASSUME NEW b, NEW m \in Nat, \A j \in 1..(m + 1) : b[j] \in Chars, b[m + 1] = Comma
    PROVE  /\ Inner(b, m + 1) = {} /\ Outer(b, m + 1) = Values(b, m)
           /\ Fits(b, m) => Fits(b, m + 1)
<1>1. b[m + 1].bits = {}
  <2>1. m + 1 \in 1..(m + 1)
    OBVIOUS
  <2> QED
    BY <2>1, CharBits
<1>2. \A j : j \in 1..(m + 1) <=> j \in 1..m \/ j = m + 1
  OBVIOUS
<1>3. ASSUME NEW j \in 1..m
      PROVE  /\ CommasTo(b, j, m + 1) # {} /\ DigitsTo(b, j, m + 1) = DigitsTo(b, j, m)
             /\ Cardinality(CommasTo(b, j, m + 1)) - 1 = Cardinality(CommasTo(b, j, m))
  <2>1. j \in Nat /\ j <= m
    OBVIOUS
  <2>2. PICK n \in Nat : n = Cardinality(CommasTo(b, j, m))
    BY <2>1, PlaceType
  <2>3. /\ CommasTo(b, j, m + 1) = CommasTo(b, j, m) \cup {m + 1}
        /\ Cardinality(CommasTo(b, j, m + 1)) = n + 1
        /\ DigitsTo(b, j, m + 1) = DigitsTo(b, j, m)
    BY <2>1, <2>2, PlaceStep
  <2>4. (n + 1) - 1 = n
    OBVIOUS
  <2> QED
    BY <2>2, <2>3, <2>4
<1>4. Inner(b, m + 1) = {}
  BY <1>1, <1>2, <1>3 DEF Inner
<1>5. Outer(b, m + 1) = Values(b, m)
  BY <1>1, <1>2, <1>3 DEF Outer, Values
<1>6. Fits(b, m) => Fits(b, m + 1)
  BY <1>1, <1>2, <1>3 DEF Fits
<1> QED
  BY <1>4, <1>5, <1>6

(* Anything else moves it up.                                              *)
LEMMA AfterDigit ==
    ASSUME NEW b, NEW m \in Nat, \A j \in 1..(m + 1) : b[j] \in Chars, b[m + 1] # Comma
    PROVE  /\ Inner(b, m + 1) = With(Inner(b, m), b[m + 1])
           /\ Outer(b, m + 1) = Outer(b, m)
           /\ Fits(b, m) /\ (\A v \in Inner(b, m) : v < CHUNK - D) => Fits(b, m + 1)
<1>0. D \in Nat /\ D > 0 /\ CHUNK \in Nat /\ CHUNK >= D
  BY BitmapAssumption
<1>1. \A j : j \in 1..(m + 1) <=> j \in 1..m \/ j = m + 1
  OBVIOUS
<1>2. CommasTo(b, m + 1, m + 1) = {} /\ D * DigitsTo(b, m + 1, m + 1) = 0
  BY <1>0, PlaceStart
<1>3. \A e \in b[m + 1].bits : e \in Nat /\ e < CHUNK
                                    /\ D * DigitsTo(b, m + 1, m + 1) + e = e
  <2>1. \A e \in b[m + 1].bits : e \in 0..(D - 1)
    BY <1>1, CharBits
  <2> QED
    BY <1>0, <1>2, <2>1
<1>4. ASSUME NEW j \in 1..m, NEW e \in b[j].bits
      PROVE  LET here == D * DigitsTo(b, j, m) + e
             IN  /\ here \in Nat
                 /\ CommasTo(b, j, m + 1) = CommasTo(b, j, m)
                 /\ D * DigitsTo(b, j, m + 1) + e
                       = here + IF CommasTo(b, j, m) = {} THEN D ELSE 0
  <2>1. j \in Nat /\ j <= m /\ j \in 1..(m + 1)
    OBVIOUS
  <2>2. e \in Nat
    BY <2>1, CharBits
  <2>3. PICK d \in Nat : d = DigitsTo(b, j, m)
    BY <2>1, PlaceType
  <2>4. /\ CommasTo(b, j, m + 1) = CommasTo(b, j, m)
        /\ DigitsTo(b, j, m + 1) = d + IF CommasTo(b, j, m) = {} THEN 1 ELSE 0
    BY <2>1, <2>3, PlaceStep
  <2>5. D * (d + 1) + e = (D * d + e) + D /\ D * (d + 0) + e = (D * d + e) + 0
        /\ D * d + e \in Nat
    <3>1. PICK u \in Nat : u = D * d
      BY <1>0
    <3>2. D * (d + 1) = u + D /\ D * (d + 0) = u
      BY <1>0, <3>1
    <3> QED
      BY <1>0, <2>2, <3>1, <3>2
  <2> QED
    BY <2>3, <2>4, <2>5
<1>5. ASSUME NEW v \in Inner(b, m + 1) PROVE v \in With(Inner(b, m), b[m + 1])
  <2>1a. PICK j \in 1..(m + 1) : \E e \in b[j].bits :
            CommasTo(b, j, m + 1) = {} /\ v = D * DigitsTo(b, j, m + 1) + e
    BY <1>5 DEF Inner
  <2>1. PICK e \in b[j].bits :
            CommasTo(b, j, m + 1) = {} /\ v = D * DigitsTo(b, j, m + 1) + e
    BY <2>1a
  <2>2. CASE j = m + 1
    BY <1>3, <2>1, <2>2 DEF With
  <2>3. CASE j \in 1..m
    <3>1. D * DigitsTo(b, j, m) + e \in Inner(b, m)
      BY <1>4, <2>1, <2>3 DEF Inner
    <3> QED
      BY <1>4, <2>1, <2>3, <3>1 DEF With
  <2> QED
    BY <1>1, <2>2, <2>3
<1>6. ASSUME NEW v \in With(Inner(b, m), b[m + 1]) PROVE v \in Inner(b, m + 1)
  <2>1. CASE v \in b[m + 1].bits
    BY <1>1, <1>2, <1>3, <2>1 DEF Inner
  <2>2. CASE \E u \in Inner(b, m) : v = u + D
    <3>1a. PICK j \in 1..m : \E e \in b[j].bits :
              CommasTo(b, j, m) = {} /\ v = (D * DigitsTo(b, j, m) + e) + D
      BY <2>2 DEF Inner
    <3>1. PICK e \in b[j].bits :
              CommasTo(b, j, m) = {} /\ v = (D * DigitsTo(b, j, m) + e) + D
      BY <3>1a
    <3>2. CommasTo(b, j, m + 1) = {} /\ v = D * DigitsTo(b, j, m + 1) + e
      BY <1>4, <3>1
    <3>3. v \in Nat
      BY <1>0, <1>4, <3>1
    <3> QED
      BY <1>1, <3>2, <3>3 DEF Inner
  <2> QED
    BY <1>6, <2>1, <2>2 DEF With
<1>7. ASSUME NEW v PROVE v \in Outer(b, m + 1) <=> v \in Outer(b, m)
  <2>1. ASSUME NEW j \in 1..m, NEW e \in b[j].bits, CommasTo(b, j, m) # {}
        PROVE  /\ CommasTo(b, j, m + 1) = CommasTo(b, j, m)
               /\ D * DigitsTo(b, j, m + 1) + e = D * DigitsTo(b, j, m) + e
    BY <1>4, <2>1
  <2>2. v \in Outer(b, m + 1) => v \in Outer(b, m)
    <3>1. ASSUME v \in Outer(b, m + 1) PROVE v \in Outer(b, m)
      <4>1a. PICK j \in 1..(m + 1) : \E e \in b[j].bits :
                /\ v \in Nat /\ CommasTo(b, j, m + 1) # {}
                /\ v = CHUNK * (Cardinality(CommasTo(b, j, m + 1)) - 1)
                          + (D * DigitsTo(b, j, m + 1) + e)
        BY <3>1 DEF Outer
      <4>1. PICK e \in b[j].bits :
                /\ v \in Nat /\ CommasTo(b, j, m + 1) # {}
                /\ v = CHUNK * (Cardinality(CommasTo(b, j, m + 1)) - 1)
                          + (D * DigitsTo(b, j, m + 1) + e)
        BY <4>1a
      <4>2. j \in 1..m
        BY <1>1, <1>2, <4>1
      <4>3. CommasTo(b, j, m) # {}
        BY <1>4, <4>1, <4>2
      <4> QED
        BY <2>1, <4>1, <4>2, <4>3 DEF Outer
    <3> QED
      BY <3>1
  <2>3. v \in Outer(b, m) => v \in Outer(b, m + 1)
    BY <1>1, <2>1 DEF Outer
  <2> QED
    BY <2>2, <2>3
<1>8. ASSUME Fits(b, m), \A v \in Inner(b, m) : v < CHUNK - D PROVE Fits(b, m + 1)
  <2>1. ASSUME NEW j \in 1..m, NEW e \in b[j].bits
        PROVE  D * DigitsTo(b, j, m + 1) + e < CHUNK
    <3>1. PICK h \in Nat : h = D * DigitsTo(b, j, m) + e
      BY <1>4
    <3>2. h < CHUNK /\ (CommasTo(b, j, m) = {} => h < CHUNK - D)
      BY <1>8, <3>1 DEF Fits, Inner
    <3>3. D * DigitsTo(b, j, m + 1) + e = h + IF CommasTo(b, j, m) = {} THEN D ELSE 0
      BY <1>4, <3>1
    <3> QED
      BY <1>0, <3>2, <3>3
  <2> QED
    BY <1>1, <1>3, <2>1 DEF Fits
<1> QED
  BY <1>5, <1>6, <1>7, <1>8

(* What nbits and nchunks say of the set of the bits in the mask.          *)
Counted(nb, nc, H) ==
    IF nc = 0 THEN nb = 0 /\ H = {} ELSE nb - 1 \in H /\ \A v \in H : v < nb

(* The end of a chunk puts it behind the others, if there is room.         *)
LEMMA EndsChunk ==
    ASSUME NEW m \in Masks, NEW c \in SUBSET (0..(CHUNK - 1)), NEW nd \in Nat, nd # 0,
           NEW td, NEW nc \in Nat, NEW nb \in Nat, NEW w, Counted(nb, nc, Bits(m)),
           NEW U, U = c \cup {v + CHUNK : v \in Bits(m)}
    PROVE  LET p == EndChunk(State(m, c, nd, td, nc, nb, w, "reading")) IN
           \/ /\ \A v \in U : v < NB
              /\ \E n \in Masks, mc \in Nat, mb \in Nat :
                    /\ p = State(n, {}, 0, td, mc, mb, w, "reading")
                    /\ Bits(n) = U /\ Counted(mb, mc, U)
           \/ (\E v \in U : v >= NB) /\ p.rc = "EOVERFLOW"
<1>. DEFINE p == EndChunk(State(m, c, nd, td, nc, nb, w, "reading"))
<1>1. /\ CHUNK \in Nat /\ CHUNK > 0 /\ CHUNK <= NB /\ NB \in Nat
      /\ Bits(m) \subseteq 0..(NB - 1)
  BY ChunkFits, BitmapAssumption, BitsAre
<1>2. U \subseteq Nat
  <2>1. \A v \in c : v \in Nat
    BY <1>1
  <2>2. \A v \in Bits(m) : v + CHUNK \in Nat
    BY <1>1
  <2> QED
    BY <2>1, <2>2
<1>3. CASE nc = 0 /\ c = {}
  <2>1. p = State(m, {}, 0, td, nc, nb, w, "reading")
    BY <1>3, EndChunkIs
  <2>2. Bits(m) = {} /\ U = {}
    BY <1>3 DEF Counted
  <2> QED
    BY <2>1, <2>2
<1>4. CASE ~(nc = 0 /\ c = {})
  <2>1. p = State(Merged(m, c), {}, 0, td, nc + 1, Longer(nb, nc, c), w,
                  IF Longer(nb, nc, c) > NB THEN "EOVERFLOW" ELSE "reading")
    BY <1>4, EndChunkIs
  <2>2. PICK l \in Nat : l = Longer(nb, nc, c)
    <3>1. Fls(c) \in Nat
      BY <1>1, FlsIs
    <3> QED
      BY <1>1, <3>1 DEF Longer
  <2>3. l - 1 \in U /\ \A v \in U : v < l
    <3>1. CASE nc = 0
      <4>1. U = c /\ nb = 0 /\ c # {}
        BY <1>4, <3>1 DEF Counted
      <4>2. PICK f \in Nat : f = Fls(c) /\ f - 1 \in c /\ \A v \in c : v < f
        BY <1>1, <4>1, FlsIs
      <4>3. l = f
        BY <2>2, <3>1, <4>1, <4>2 DEF Longer
      <4> QED
        BY <4>1, <4>2, <4>3
    <3>2. CASE nc # 0
      <4>1. l = nb + CHUNK /\ nb - 1 \in Bits(m) /\ \A v \in Bits(m) : v < nb
        BY <2>2, <3>2 DEF Longer, Counted
      <4>2. (nb - 1) + CHUNK = l - 1
        BY <1>1, <4>1
      <4>3. \A v \in c : v < l
        BY <1>1, <4>1
      <4>4. \A v \in Bits(m) : v + CHUNK < l
        BY <1>1, <4>1
      <4> QED
        BY <4>1, <4>2, <4>3, <4>4
    <3> QED
      BY <3>1, <3>2
  <2>4. CASE l > NB
    <3>1. l - 1 >= NB
      BY <1>1, <2>4
    <3>2. p.rc = "EOVERFLOW"
      BY <2>1, <2>2, <2>4 DEF State
    <3> QED
      BY <2>3, <3>1, <3>2
  <2>5. CASE ~(l > NB)
    <3>1. \A v \in U : v < NB
      BY <1>1, <1>2, <2>3, <2>5
    <3>2. p = State(Merged(m, c), {}, 0, td, nc + 1, l, w, "reading")
      BY <2>1, <2>2, <2>5
    <3>3. Merged(m, c) \in Masks
      BY MergedType
    <3>4. Bits(Merged(m, c)) = U
      <4>1. U \subseteq 0..(NB - 1) /\ Bits(Merged(m, c)) \subseteq 0..(NB - 1)
        BY <1>1, <1>2, <3>1, BitsAre
      <4>2. ASSUME NEW q \in 0..(NB - 1) PROVE q \in Bits(Merged(m, c)) <=> q \in U
        <5>1. q \in Bits(Merged(m, c)) <=> q \in c \/ q - CHUNK \in Bits(m)
          BY MergedBits
        <5>2. q - CHUNK \in Bits(m) <=> \E v \in Bits(m) : q = v + CHUNK
          <6>1. (q - CHUNK) + CHUNK = q
            BY <1>1
          <6>2. \A v \in Bits(m) : q = v + CHUNK => v = q - CHUNK
            BY <1>1
          <6> QED
            BY <6>1, <6>2
        <5> QED
          BY <5>1, <5>2
      <4> QED
        BY <4>1, <4>2
    <3>5. nc + 1 \in Nat /\ nc + 1 # 0
      OBVIOUS
    <3>6. Counted(l, nc + 1, U)
      BY <2>3, <3>5 DEF Counted
    <3> QED
      BY <3>1, <3>2, <3>3, <3>4, <3>5, <3>6
  <2> QED
    BY <2>4, <2>5
<1> QED
  BY <1>3, <1>4

(* The errors of a text: a comma without a digit in front of it, or a      *)
(* character that is none of a number; a bit that has no place.            *)
Wrong(b, m) == \E i \in 1..m : \/ b[i] = Junk
                               \/ b[i] = Comma /\ (i = 1 \/ b[i - 1] = Comma)
Big(b, m) ==
    \E j \in 1..m : \E e \in b[j].bits :
       \/ D * DigitsTo(b, j, m) + e >= CHUNK
       \/ CHUNK * Cardinality(CommasTo(b, j, m)) + (D * DigitsTo(b, j, m) + e) >= NB

(* A bit that has no place gets none.                                      *)
LEMMA BigStays ==
    ASSUME NEW b, NEW m \in Nat, NEW n \in Nat, m <= n, \A j \in 1..n : b[j] \in Chars, Big(b, m)
    PROVE  Big(b, n)
<1>1. PICK j \in 1..m : \E e \in b[j].bits :
         \/ D * DigitsTo(b, j, m) + e >= CHUNK
         \/ CHUNK * Cardinality(CommasTo(b, j, m)) + (D * DigitsTo(b, j, m) + e) >= NB
  BY DEF Big
<1>2. PICK e \in b[j].bits :
         \/ D * DigitsTo(b, j, m) + e >= CHUNK
         \/ CHUNK * Cardinality(CommasTo(b, j, m)) + (D * DigitsTo(b, j, m) + e) >= NB
  BY <1>1
<1>3. j \in Nat /\ j <= m /\ j <= n /\ j \in 1..n
  OBVIOUS
<1>4. e \in Nat /\ CHUNK \in Nat /\ D \in Nat /\ NB \in Nat
  BY <1>3, CharBits, BitmapAssumption
<1>5. PICK d \in Nat, f \in Nat, k \in Nat, l \in Nat :
         /\ d = DigitsTo(b, j, m) /\ f = DigitsTo(b, j, n) /\ d <= f
         /\ k = Cardinality(CommasTo(b, j, m)) /\ l = Cardinality(CommasTo(b, j, n)) /\ k <= l
  <2>1. DigitsTo(b, j, m) \in Nat /\ Cardinality(CommasTo(b, j, m)) \in Nat
    BY <1>3, PlaceType
  <2>2. DigitsTo(b, j, n) \in Nat /\ Cardinality(CommasTo(b, j, n)) \in Nat
    BY <1>3, PlaceType
  <2>3. /\ DigitsTo(b, j, m) <= DigitsTo(b, j, n)
        /\ Cardinality(CommasTo(b, j, m)) <= Cardinality(CommasTo(b, j, n))
    BY <1>3, PlaceGrows
  <2> QED
    BY <2>1, <2>2, <2>3
<1>6. ASSUME NEW s \in Nat PROVE s * d <= s * f /\ s * k <= s * l
                                 /\ {s * d, s * f, s * k, s * l} \subseteq Nat
  <2>1. PICK g \in Nat, h \in Nat : g = f - d /\ f = d + g /\ h = l - k /\ l = k + h
    BY <1>5
  <2>2. s * f = s * d + s * g /\ s * l = s * k + s * h
        /\ {s * d, s * g, s * k, s * h} \subseteq Nat
    BY <2>1
  <2>3. PICK x1 \in Nat, x2 \in Nat, x3 \in Nat, x4 \in Nat :
           x1 = s * d /\ x2 = s * g /\ x3 = s * k /\ x4 = s * h
    BY <2>2
  <2> QED
    BY <2>2, <2>3
<1>7. PICK x1 \in Nat, x2 \in Nat, x3 \in Nat, x4 \in Nat :
         x1 = D * d /\ x2 = D * f /\ x1 <= x2 /\ x3 = CHUNK * k /\ x4 = CHUNK * l /\ x3 <= x4
  BY <1>4, <1>6
<1>8. x1 + e <= x2 + e /\ x3 + (x1 + e) <= x4 + (x2 + e)
  BY <1>4, <1>7
<1>9. x2 + e >= CHUNK \/ x4 + (x2 + e) >= NB
  BY <1>2, <1>4, <1>5, <1>7, <1>8
<1> QED
  BY <1>3, <1>5, <1>7, <1>9 DEF Big

(* After m characters of b all is well, or it has been given up.           *)
GoodAt(b, m, p) ==
    \E mk \in Masks, nd \in Nat, td \in Nat, nc \in Nat, nb \in Nat, w \in Chars :
       /\ p = State(mk, Inner(b, m), nd, td, nc, nb, w, "reading")
       /\ Bits(mk) = Outer(b, m) /\ Counted(nb, nc, Outer(b, m))
       /\ nd = 0 <=> m = 0 \/ b[m] = Comma
       /\ td = 0 <=> m = 0
       /\ m > 0 => w = b[m]
       /\ Fits(b, m) /\ ~Wrong(b, m)
BadFor(b, p) == \/ p.rc = "EINVAL" /\ Wrong(b, Len(b))
                \/ p.rc = "EOVERFLOW" /\ Big(b, Len(b))

(* A list of digits and commas, and perhaps of what cannot be read.        *)
Readably(b) == b \in Seq(Chars) /\ \A i \in 1..Len(b) : b[i] # Space /\ b[i] # Nul

(* Chunks are made of the bits of a chunk.                                 *)
LEMMA InnerType ==
    ASSUME NEW b, NEW m \in Nat, Fits(b, m)
    PROVE  Inner(b, m) \in SUBSET (0..(CHUNK - 1))
<1>1. ASSUME NEW v \in Inner(b, m) PROVE v \in 0..(CHUNK - 1)
  <2>1. v \in Nat /\ v < CHUNK
    BY <1>1 DEF Inner, Fits
  <2> QED
    BY <2>1, ChunkFits
<1> QED
  BY <1>1

(* Before the first character.                                             *)
LEMMA NothingRead ==
    ASSUME NEW b
    PROVE  Inner(b, 0) = {} /\ Outer(b, 0) = {} /\ Fits(b, 0) /\ ~Wrong(b, 0)
  BY DEF Inner, Outer, Fits, Wrong

(* One character more.                                                     *)
LEMMA GoodStep ==
    ASSUME NEW b, Readably(b), NEW n \in 1..Len(b), NEW p, GoodAt(b, n - 1, p)
    PROVE  GoodAt(b, n, ParseChar(p, b[n])) \/ BadFor(b, ParseChar(p, b[n]))
<1>0. PICK z \in Nat : z = Len(b) /\ \A i \in 1..z : b[i] \in Chars /\ b[i] # Space /\ b[i] # Nul
  BY DEF Readably
<1>1. PICK m \in Nat : m = n - 1 /\ n = m + 1 /\ n # 0 /\ n \in 1..z /\ m < z
  BY <1>0
<1>2. \A j \in 1..(m + 1) : b[j] \in Chars
  BY <1>0, <1>1
<1>. DEFINE e == b[n]
            q == ParseChar(p, e)
<1>3. PICK mk \in Masks, nd \in Nat, td \in Nat, nc \in Nat, nb \in Nat, w \in Chars :
       /\ p = State(mk, Inner(b, m), nd, td, nc, nb, w, "reading")
       /\ Bits(mk) = Outer(b, m) /\ Counted(nb, nc, Outer(b, m))
       /\ nd = 0 <=> m = 0 \/ b[m] = Comma
       /\ td = 0 <=> m = 0
       /\ m > 0 => w = b[m]
       /\ Fits(b, m) /\ ~Wrong(b, m)
  BY <1>1 DEF GoodAt
<1>4. e \in Chars /\ e # Space /\ e # Nul /\ ~(td > 0 /\ w = Space)
  <2>1. m > 0 => m \in 1..z
    BY <1>1
  <2> QED
    BY <1>0, <1>1, <1>3, <2>1
<1>5. Inner(b, m) \in SUBSET (0..(CHUNK - 1))
  BY <1>3, InnerType
<1>. DEFINE c == Inner(b, m)
            s == State(mk, c, nd, td, nc, nb, e, "reading")
<1>6. q = IF e = Comma THEN EndChunk(s)
          ELSE IF e = Junk THEN State(mk, c, nd, td, nc, nb, e, "EINVAL")
          ELSE IF c \cap ((CHUNK - D)..(CHUNK - 1)) # {}
          THEN State(mk, c, nd, td, nc, nb, e, "EOVERFLOW")
          ELSE State(mk, With(c, e), nd + 1, td + 1, nc, nb, e, "reading")
  BY <1>3, <1>4, ParseCharIs
<1>7. ASSUME NEW a, NEW u, NEW h, NEW k, NEW l, NEW d, NEW rc
      PROVE  State(a, u, h, k, l, d, e, rc).rc = rc
  BY DEF State
<1>8. (m = 0 \/ b[m] = Comma) /\ e = Comma => Wrong(b, z)
  BY <1>1 DEF Wrong
<1>9. e = Junk => Wrong(b, z)
  BY <1>1 DEF Wrong
<1>10. e # Junk /\ ~(e = Comma /\ (m = 0 \/ b[m] = Comma)) => ~Wrong(b, n)
  <2>1. ASSUME NEW i \in 1..n PROVE i \in 1..m \/ i = n
    BY <1>1
  <2>2. (n = 1 <=> m = 0) /\ n - 1 = m
    BY <1>1
  <2> QED
    BY <1>1, <1>3, <2>1, <2>2 DEF Wrong
<1>. HIDE DEF c, s, e, q
<1>11. CASE e = Comma
  <2>1. CASE nd = 0
    <3>1. EndChunk(s) = State(mk, c, nd, td, nc, nb, e, "EINVAL")
      BY <2>1, EndChunkIs DEF s
    <3>2. q.rc = "EINVAL"
      BY <1>6, <1>7, <1>11, <3>1
    <3>3. Wrong(b, Len(b))
      BY <1>0, <1>3, <1>8, <1>11, <2>1
    <3> QED
      BY <3>2, <3>3 DEF BadFor, q, e
  <2>2. CASE nd # 0
    <3>. DEFINE U == c \cup {v + CHUNK : v \in Bits(mk)}
    <3>0. U = Values(b, m)
      BY <1>2, <1>3, ValuesAre DEF c
    <3>1. /\ Inner(b, m + 1) = {} /\ Outer(b, m + 1) = U /\ Fits(b, m + 1)
      BY <1>1, <1>2, <1>3, <1>11, <3>0, AfterComma DEF e
    <3>2. c \in SUBSET (0..(CHUNK - 1)) /\ Counted(nb, nc, Bits(mk))
      BY <1>3, <1>5 DEF c
    <3>. HIDE DEF U
    <3>3. \/ /\ \A v \in U : v < NB
             /\ \E x1 \in Masks, mc \in Nat, mb \in Nat :
                   /\ EndChunk(s) = State(x1, {}, 0, td, mc, mb, e, "reading")
                   /\ Bits(x1) = U /\ Counted(mb, mc, U)
          \/ (\E v \in U : v >= NB) /\ EndChunk(s).rc = "EOVERFLOW"
      BY <2>2, <3>2, EndsChunk DEF s, U
    <3>4. CASE (\E v \in U : v >= NB) /\ EndChunk(s).rc = "EOVERFLOW"
      <4>2. Big(b, m)
        BY <3>0, <3>4 DEF Values, Big
      <4>3. Big(b, z)
        BY <1>0, <1>1, <4>2, BigStays
      <4>4. q.rc = "EOVERFLOW"
        BY <1>6, <1>11, <3>4
      <4> QED
        BY <1>0, <4>3, <4>4 DEF BadFor, q, e
    <3>5. CASE \E x1 \in Masks, mc \in Nat, mb \in Nat :
                   /\ EndChunk(s) = State(x1, {}, 0, td, mc, mb, e, "reading")
                   /\ Bits(x1) = U /\ Counted(mb, mc, U)
      <4>1. PICK x1 \in Masks, mc \in Nat, mb \in Nat :
                   /\ EndChunk(s) = State(x1, {}, 0, td, mc, mb, e, "reading")
                   /\ Bits(x1) = U /\ Counted(mb, mc, U)
        BY <3>5
      <4>2. q = State(x1, Inner(b, n), 0, td, mc, mb, e, "reading")
        BY <1>1, <1>6, <1>11, <3>1, <4>1
      <4>3. Bits(x1) = Outer(b, n) /\ Counted(mb, mc, Outer(b, n)) /\ Fits(b, n)
        BY <1>1, <3>1, <4>1
      <4>4. ~Wrong(b, n) /\ td # 0
        <5>1. Junk # Comma
          BY DEF Junk, Comma
        <5> QED
          BY <1>3, <1>10, <1>11, <2>2, <5>1
      <4>5. GoodAt(b, n, q)
        BY <1>1, <1>4, <1>11, <4>1, <4>2, <4>3, <4>4 DEF GoodAt, e
      <4> QED
        BY <4>5 DEF q, e
    <3> QED
      BY <3>3, <3>4, <3>5
  <2> QED
    BY <2>1, <2>2
<1>12. CASE e = Junk
  <2>1. e # Comma
    BY <1>12 DEF Junk, Comma
  <2>2. q.rc = "EINVAL"
    BY <1>6, <1>7, <1>12, <2>1
  <2> QED
    BY <1>0, <1>9, <1>12, <2>2 DEF BadFor, q, e
<1>13. CASE e # Comma /\ e # Junk
  <2>0. D \in Nat /\ D > 0 /\ CHUNK \in Nat /\ CHUNK >= D
    BY BitmapAssumption
  <2>1. /\ Inner(b, n) = With(c, e) /\ Outer(b, n) = Outer(b, m)
        /\ (\A v \in c : v < CHUNK - D) => Fits(b, n)
    BY <1>1, <1>2, <1>3, <1>13, AfterDigit DEF c, e
  <2>2. \A v \in c : v \in 0..(CHUNK - 1)
    BY <1>5 DEF c
  <2>3. CASE c \cap ((CHUNK - D)..(CHUNK - 1)) # {}
    <3>1. q.rc = "EOVERFLOW"
      BY <1>6, <1>7, <1>13, <2>3
    <3>2. PICK v \in c : v >= CHUNK - D
      BY <2>0, <2>3
    <3>3. PICK j \in 1..m : \E f \in b[j].bits :
              CommasTo(b, j, m) = {} /\ v = D * DigitsTo(b, j, m) + f
      BY <3>2 DEF c, Inner
    <3>4. PICK f \in b[j].bits :
              CommasTo(b, j, m) = {} /\ v = D * DigitsTo(b, j, m) + f
      BY <3>3
    <3>5. j \in Nat /\ j <= m /\ f \in Nat /\ j \in 1..n
      BY <1>1, <1>2, CharBits
    <3>6. PICK d \in Nat : d = DigitsTo(b, j, m)
      BY <3>5, PlaceType
    <3>7. DigitsTo(b, j, n) = d + 1
      BY <1>1, <1>13, <3>4, <3>5, <3>6, PlaceStep DEF e
    <3>8. D * (d + 1) = D * d + D /\ D * d \in Nat
      BY <2>0
    <3>9. PICK x1 \in Nat : x1 = D * d
      BY <3>8
    <3>10. (x1 + D) + f >= CHUNK
      BY <2>0, <3>2, <3>4, <3>5, <3>6, <3>9
    <3>11. D * DigitsTo(b, j, n) + f >= CHUNK
      BY <3>7, <3>8, <3>9, <3>10
    <3>12. Big(b, n)
      BY <3>5, <3>11 DEF Big
    <3>13. Big(b, z)
      BY <1>0, <1>1, <3>12, BigStays
    <3> QED
      BY <1>0, <3>1, <3>13 DEF BadFor, q, e
  <2>4. CASE c \cap ((CHUNK - D)..(CHUNK - 1)) = {}
    <3>1. \A v \in c : v < CHUNK - D
      BY <2>0, <2>2, <2>4
    <3>2. q = State(mk, Inner(b, n), nd + 1, td + 1, nc, nb, e, "reading")
      BY <1>6, <1>13, <2>1, <2>4
    <3>3. Bits(mk) = Outer(b, n) /\ Counted(nb, nc, Outer(b, n)) /\ Fits(b, n)
      BY <1>3, <2>1, <3>1
    <3>4. ~Wrong(b, n)
      BY <1>10, <1>13
    <3>5. nd + 1 \in Nat /\ td + 1 \in Nat /\ nd + 1 # 0 /\ td + 1 # 0
      OBVIOUS
    <3>6. GoodAt(b, n, q)
      BY <1>1, <1>4, <1>13, <3>2, <3>3, <3>4, <3>5 DEF GoodAt, e
    <3> QED
      BY <3>6 DEF q, e
  <2> QED
    BY <2>3, <2>4
<1> QED
  BY <1>11, <1>12, <1>13

(* Between the body and the end of the text.                               *)
Paused(b, p) ==
    \E mk \in Masks, nd \in Nat, td \in Nat, nc \in Nat, nb \in Nat, w \in Chars :
       /\ p = State(mk, Inner(b, Len(b)), nd, td, nc, nb, w, "reading")
       /\ Bits(mk) = Outer(b, Len(b)) /\ Counted(nb, nc, Outer(b, Len(b)))
       /\ nd = 0 <=> Len(b) = 0
       /\ td = 0 <=> Len(b) = 0
       /\ w # Comma /\ Fits(b, Len(b)) /\ ~Wrong(b, Len(b))

(* What __bitmap_parse makes of a text with body b.                        *)
Verdict(b, r) ==
    \/ BadFor(b, r)
    \/ Len(b) = 0 /\ r.rc = "EINVAL"
    \/ /\ Len(b) > 0 /\ ~Wrong(b, Len(b)) /\ ~Big(b, Len(b))
       /\ r.rc = "ok" /\ Bits(r.mask) = Values(b, Len(b))

(* It does not take back what it has decided.                              *)
LEMMA Decided ==
    ASSUME NEW p, NEW e, p.rc # "reading"
    PROVE  ParseChar(p, e) = p
  BY DEF ParseChar

(* At the start.                                                           *)
LEMMA PausedStart == Paused(<<>>, ParseStart)
<1>1. ParseStart = State(Zero, {}, 0, 0, 0, 0, Nul, "reading")
  BY DEF ParseStart, State
<1>2. Zero \in Masks /\ Bits(Zero) = {}
  <2>1. Zero \in Masks
    BY DEF Zero, Masks, Word
  <2>2. ASSUME NEW i \in 0..(NB - 1) PROVE i \div W \in Words
    <3>1. i \in Int
      BY BitmapAssumption
    <3>2. i \div W \in Int /\ i % W \in 0..(W - 1) /\ i = W * (i \div W) + (i % W)
      BY <3>1, Position
    <3> QED
      BY <3>2, Places
  <2>3. \A i \in 0..(NB - 1) : Zero[i \div W] = {}
    BY <2>2 DEF Zero
  <2> QED
    BY <2>1, <2>3 DEF Bits
<1>3. Nul \in Chars /\ Nul # Comma
  BY DEF Chars, Nul, Comma
<1>4. Len(<<>>) = 0
  OBVIOUS
<1>5. Inner(<<>>, 0) = {} /\ Outer(<<>>, 0) = {} /\ Fits(<<>>, 0) /\ ~Wrong(<<>>, 0)
  BY NothingRead
<1>6. Counted(0, 0, {})
  BY DEF Counted
<1> QED
  BY <1>1, <1>2, <1>3, <1>4, <1>5, <1>6 DEF Paused

(* A space changes nothing.                                                *)
LEMMA SpaceKeeps ==
    ASSUME NEW b, NEW p, Paused(b, p)
    PROVE  Paused(b, ParseChar(p, Space))
<1>1. PICK mk \in Masks, nd \in Nat, td \in Nat, nc \in Nat, nb \in Nat, w \in Chars :
       /\ p = State(mk, Inner(b, Len(b)), nd, td, nc, nb, w, "reading")
       /\ Bits(mk) = Outer(b, Len(b)) /\ Counted(nb, nc, Outer(b, Len(b)))
       /\ nd = 0 <=> Len(b) = 0
       /\ td = 0 <=> Len(b) = 0
       /\ w # Comma /\ Fits(b, Len(b)) /\ ~Wrong(b, Len(b))
  BY DEF Paused
<1>2. ParseChar(p, Space) = State(mk, Inner(b, Len(b)), nd, td, nc, nb, Space, "reading")
  BY <1>1, ParseCharIs
<1>3. Space \in Chars /\ Space # Comma
  BY DEF Chars, Space, Comma
<1> QED
  BY <1>1, <1>2, <1>3 DEF Paused

(* The body comes after the spaces in front of it.                         *)
LEMMA PausedIsGood ==
    ASSUME NEW b, NEW p, Paused(<<>>, p)
    PROVE  GoodAt(b, 0, p)
<1>1. Len(<<>>) = 0
  OBVIOUS
<1>2. /\ Inner(<<>>, 0) = {} /\ Outer(<<>>, 0) = {}
      /\ Inner(b, 0) = {} /\ Outer(b, 0) = {} /\ Fits(b, 0) /\ ~Wrong(b, 0)
  BY NothingRead
<1>3. PICK mk \in Masks, nd \in Nat, td \in Nat, nc \in Nat, nb \in Nat, w \in Chars :
       /\ p = State(mk, Inner(<<>>, Len(<<>>)), nd, td, nc, nb, w, "reading")
       /\ Bits(mk) = Outer(<<>>, Len(<<>>)) /\ Counted(nb, nc, Outer(<<>>, Len(<<>>)))
       /\ nd = 0 <=> Len(<<>>) = 0
       /\ td = 0 <=> Len(<<>>) = 0
  BY DEF Paused
<1>4. /\ p = State(mk, Inner(b, 0), nd, td, nc, nb, w, "reading")
      /\ Bits(mk) = Outer(b, 0) /\ Counted(nb, nc, Outer(b, 0))
      /\ nd = 0 /\ td = 0 /\ ~(0 > 0)
  <2>1. p = State(mk, Inner(b, 0), nd, td, nc, nb, w, "reading")
    BY <1>1, <1>2, <1>3
  <2>2. Bits(mk) = Outer(b, 0) /\ Counted(nb, nc, Outer(b, 0))
    BY <1>1, <1>2, <1>3
  <2> QED
    BY <1>1, <1>3, <2>1, <2>2
<1> QED
  BY <1>2, <1>4 DEF GoodAt

(* And the spaces behind it after it.                                      *)
LEMMA GoodIsPaused ==
    ASSUME NEW b, NEW p, Len(b) \in Nat, Len(b) # 0, b[Len(b)] # Comma, GoodAt(b, Len(b), p)
    PROVE  Paused(b, p)
<1>1. PICK z \in Nat : z = Len(b) /\ z > 0
  OBVIOUS
<1>2. PICK mk \in Masks, nd \in Nat, td \in Nat, nc \in Nat, nb \in Nat, w \in Chars :
       /\ p = State(mk, Inner(b, z), nd, td, nc, nb, w, "reading")
       /\ Bits(mk) = Outer(b, z) /\ Counted(nb, nc, Outer(b, z))
       /\ nd = 0 <=> z = 0 \/ b[z] = Comma
       /\ td = 0 <=> z = 0
       /\ z > 0 => w = b[z]
       /\ Fits(b, z) /\ ~Wrong(b, z)
  BY <1>1 DEF GoodAt
<1>3. w # Comma
  BY <1>1, <1>2
<1> QED
  BY <1>1, <1>2, <1>3 DEF Paused

(* The end of the text ends the last chunk.                                *)
LEMMA PausedEnds ==
    ASSUME NEW b, b \in Seq(Chars), NEW p, Paused(b, p)
    PROVE  Verdict(b, Return(EndChunk(p), "ok")) /\ Verdict(b, ParseChar(p, Nul))
<1>1. PICK z \in Nat : z = Len(b) /\ \A i \in 1..z : b[i] \in Chars
  OBVIOUS
<1>2. PICK mk \in Masks, nd \in Nat, td \in Nat, nc \in Nat, nb \in Nat, w \in Chars :
       /\ p = State(mk, Inner(b, z), nd, td, nc, nb, w, "reading")
       /\ Bits(mk) = Outer(b, z) /\ Counted(nb, nc, Outer(b, z))
       /\ nd = 0 <=> z = 0
       /\ td = 0 <=> z = 0
       /\ w # Comma /\ Fits(b, z) /\ ~Wrong(b, z)
  BY <1>1 DEF Paused
<1>. DEFINE s(h) == State(mk, Inner(b, z), nd, td, nc, nb, h, "reading")
            r(h) == Return(EndChunk(s(h)), "ok")
<1>3. Inner(b, z) \in SUBSET (0..(CHUNK - 1))
  BY <1>2, InnerType
<1>4. Values(b, z) = Inner(b, z) \cup {v + CHUNK : v \in Bits(mk)}
  BY <1>1, <1>2, ValuesAre
<1>5. ASSUME NEW h PROVE Verdict(b, r(h))
  <2>1. CASE z = 0
    <3>1. EndChunk(s(h)) = State(mk, Inner(b, z), nd, td, nc, nb, h, "EINVAL")
      BY <1>2, <2>1, EndChunkIs
    <3>2. r(h).rc = "EINVAL"
      BY <3>1 DEF Return, State
    <3> QED
      BY <1>1, <2>1, <3>2 DEF Verdict
  <2>2. CASE z # 0
    <3>1. \/ /\ \A v \in Values(b, z) : v < NB
             /\ \E n \in Masks, mc \in Nat, mb \in Nat :
                   /\ EndChunk(s(h)) = State(n, {}, 0, td, mc, mb, h, "reading")
                   /\ Bits(n) = Values(b, z)
          \/ (\E v \in Values(b, z) : v >= NB) /\ EndChunk(s(h)).rc = "EOVERFLOW"
      <4>1. nd # 0 /\ Counted(nb, nc, Bits(mk))
        BY <1>2, <2>2
      <4> QED
        BY <1>3, <1>4, <4>1, EndsChunk
    <3>2. CASE (\E v \in Values(b, z) : v >= NB) /\ EndChunk(s(h)).rc = "EOVERFLOW"
      <4>1. Big(b, z)
        BY <3>2 DEF Values, Big
      <4>2. r(h).rc = "EOVERFLOW"
        BY <3>2 DEF Return
      <4> QED
        BY <1>1, <4>1, <4>2 DEF Verdict, BadFor
    <3>3. CASE /\ \A v \in Values(b, z) : v < NB
               /\ \E n \in Masks, mc \in Nat, mb \in Nat :
                   /\ EndChunk(s(h)) = State(n, {}, 0, td, mc, mb, h, "reading")
                   /\ Bits(n) = Values(b, z)
      <4>1. PICK n \in Masks, mc \in Nat, mb \in Nat :
                   /\ EndChunk(s(h)) = State(n, {}, 0, td, mc, mb, h, "reading")
                   /\ Bits(n) = Values(b, z)
        BY <3>3
      <4>2. r(h).rc = "ok" /\ r(h).mask = n
        BY <4>1 DEF Return, State
      <4>3. ~Big(b, z)
        <5>1. ASSUME NEW j \in 1..z, NEW f \in b[j].bits
              PROVE  /\ ~(D * DigitsTo(b, j, z) + f >= CHUNK)
                     /\ ~(CHUNK * Cardinality(CommasTo(b, j, z))
                             + (D * DigitsTo(b, j, z) + f) >= NB)
          <6>1. f \in Nat /\ j \in Nat /\ j <= z
            BY <1>1, CharBits
          <6>2. PICK g \in Nat : g = D * DigitsTo(b, j, z) + f
            BY <6>1, BitPlace
          <6>3. PICK k \in Nat : k = CHUNK * Cardinality(CommasTo(b, j, z))
            <7>1. PICK i \in Nat : i = Cardinality(CommasTo(b, j, z))
              BY <6>1, PlaceType
            <7>2. CHUNK * i \in Nat
              BY ChunkFits
            <7> QED
              BY <7>1, <7>2
          <6>4. g < CHUNK
            BY <1>2, <6>2 DEF Fits
          <6>5. k + g \in Nat
            OBVIOUS
          <6>6. k + g \in Values(b, z)
            BY <6>2, <6>3, <6>5 DEF Values
          <6>7. k + g < NB
            BY <3>3, <6>6
          <6> QED
            BY <6>2, <6>3, <6>4, <6>5, <6>7, ChunkFits, BitmapAssumption
        <5> QED
          BY <5>1 DEF Big
      <4> QED
        BY <1>1, <1>2, <2>2, <4>1, <4>2, <4>3 DEF Verdict
    <3> QED
      BY <3>1, <3>2, <3>3
  <2> QED
    BY <2>1, <2>2
<1>6. ParseChar(p, Nul) = r(Nul)
  <2>1. Nul # Space /\ Nul # Comma
    BY DEF Nul, Space, Comma
  <2> QED
    BY <1>2, <2>1, ParseCharIs
<1>7. Return(EndChunk(p), "ok") = r(w)
  BY <1>2
<1>. HIDE DEF r
<1> QED
  BY <1>5, <1>6, <1>7

(* A verdict is one.                                                       *)
LEMMA VerdictIs ==
    ASSUME NEW b, NEW p, Verdict(b, p)
    PROVE  p.rc # "reading"
  BY DEF Verdict, BadFor

(* b is the body of t, whose first NUL, if it has one, comes after u.      *)
Framed(t, b, u) ==
    /\ u \in 0..Len(t) /\ (u < Len(t) => t[u + 1] = Nul)
    /\ \E s \in 0..u :
          /\ s + Len(b) <= u
          /\ \A i \in 1..s : t[i] = Space
          /\ \A i \in 1..Len(b) : b[i] = t[s + i]
          /\ \A i \in (s + Len(b) + 1)..u : t[i] = Space

(* A text is read as its body.                                             *)
LEMMA ReadsBody ==
    ASSUME NEW t \in Seq(Chars), t # <<>>, NEW b, Readably(b), NEW u, Framed(t, b, u),
           Len(b) # 0 => b[Len(b)] # Comma
    PROVE  Verdict(b, BitmapParse(t))
<1>1. PICK acc : Reads(acc, ParseStart, t)
  BY ReadSteps
<1>2. PICK l \in Nat, z \in Nat : l = Len(t) /\ l > 0 /\ z = Len(b) /\ u \in 0..l /\ u \in Nat
  <2>1. b \in Seq(Chars) /\ u \in 0..Len(t)
    BY DEF Framed, Readably
  <2> QED
    BY <2>1
<1>3. PICK s \in Nat : /\ s + z <= u
                       /\ \A i \in 1..s : t[i] = Space
                       /\ \A i \in 1..z : b[i] = t[s + i]
                       /\ \A i \in ((s + z) + 1)..u : t[i] = Space
  <2>1. PICK s \in 0..u : /\ s + Len(b) <= u
                          /\ \A i \in 1..s : t[i] = Space
                          /\ \A i \in 1..Len(b) : b[i] = t[s + i]
                          /\ \A i \in (s + Len(b) + 1)..u : t[i] = Space
    BY DEF Framed
  <2>2. s \in Nat
    BY <1>2
  <2> QED
    BY <1>2, <2>1, <2>2
<1>4. acc[0] = ParseStart /\ \A n \in 1..l : acc[n] = ParseChar(acc[n - 1], t[n])
  BY <1>1, <1>2 DEF Reads
<1>5. BitmapParse(t) = LET p == acc[l]
                       IN  IF p.was = Comma THEN Return(p, "ok")
                           ELSE IF p.rc # "reading" THEN p ELSE Return(EndChunk(p), "ok")
  <2>1. FoldLeft(ParseChar, ParseStart, t) = acc[l]
    BY <1>1, <1>2, ParseLoop DEF Reads, Read
  <2> QED
    BY <2>1 DEF BitmapParse
<1>6. Paused(<<>>, acc[s])
  <2>. DEFINE T == {n \in 0..s : Paused(<<>>, acc[n])}
  <2>1. 0 \in T
    BY <1>4, PausedStart
  <2>2. ASSUME NEW n \in 1..s, n - 1 \in T PROVE n \in T
    <3>1. n \in 1..l /\ n \in 0..s
      BY <1>2, <1>3
    <3>2. acc[n] = ParseChar(acc[n - 1], Space)
      BY <1>3, <1>4, <3>1
    <3> QED
      BY <2>2, <3>1, <3>2, SpaceKeeps
  <2>3. s \in T
    <3>. HIDE DEF T
    <3> QED
      BY <2>1, <2>2, EveryTurn
  <2> QED
    BY <2>3
<1>7. Paused(b, acc[s + z]) \/ BadFor(b, acc[s + z])
  <2>1. CASE z = 0
    <3>0. b \in Seq(Chars)
      BY DEF Readably
    <3>1. b = <<>>
      BY <1>2, <2>1, <3>0, EmptySeq
    <3>2. s + z = s
      BY <2>1
    <3> QED
      BY <1>6, <3>1, <3>2
  <2>2. CASE z # 0
    <3>. DEFINE T == {m \in 0..z : GoodAt(b, m, acc[s + m]) \/ BadFor(b, acc[s + m])}
    <3>1. 0 \in T
      <4>1. s + 0 = s /\ 0 \in 0..z
        OBVIOUS
      <4> QED
        BY <1>6, <4>1, PausedIsGood
    <3>2. ASSUME NEW m \in 1..z, m - 1 \in T PROVE m \in T
      <4>1. s + m \in 1..l /\ (s + m) - 1 = s + (m - 1) /\ m \in 0..z /\ m \in 1..Len(b)
        BY <1>2, <1>3
      <4>2. acc[s + m] = ParseChar(acc[s + (m - 1)], b[m])
        BY <1>3, <1>4, <4>1
      <4>3. CASE GoodAt(b, m - 1, acc[s + (m - 1)])
        BY <4>1, <4>2, <4>3, GoodStep
      <4>4. CASE BadFor(b, acc[s + (m - 1)])
        <5>1. acc[s + m] = acc[s + (m - 1)]
          BY <4>2, <4>4, Decided DEF BadFor
        <5> QED
          BY <4>1, <4>4, <5>1
      <4> QED
        BY <3>2, <4>3, <4>4
    <3>3. z \in T
      <4>. HIDE DEF T
      <4> QED
        BY <3>1, <3>2, EveryTurn
    <3> QED
      BY <1>2, <2>2, <3>3, GoodIsPaused
  <2> QED
    BY <2>1, <2>2
<1>8. Paused(b, acc[u]) \/ BadFor(b, acc[u])
  <2>0. PICK v \in Nat, w \in Nat : v = u /\ w = s + z /\ w <= v
    <3>1. s + z \in Nat /\ s + z <= u /\ u \in Nat
      BY <1>2, <1>3
    <3>. DEFINE w == s + z
    <3>. HIDE DEF w
    <3>2. w \in Nat /\ w <= u /\ w = s + z
      BY <3>1 DEF w
    <3> QED
      BY <3>1, <3>2
  <2>1. PICK k \in Nat : k = v - w /\ (s + z) + k = u
    BY <2>0
  <2>. DEFINE T == {n \in 0..k : Paused(b, acc[(s + z) + n]) \/ BadFor(b, acc[(s + z) + n])}
  <2>2. 0 \in T
    <3>1. (s + z) + 0 = s + z /\ 0 \in 0..k
      OBVIOUS
    <3> QED
      BY <1>7, <3>1
  <2>3. ASSUME NEW n \in 1..k, n - 1 \in T PROVE n \in T
    <3>1. /\ (s + z) + n \in 1..l /\ ((s + z) + n) - 1 = (s + z) + (n - 1) /\ n \in 0..k
          /\ (s + z) + n \in ((s + z) + 1)..u
      BY <1>2, <1>3, <2>0, <2>1
    <3>2. acc[(s + z) + n] = ParseChar(acc[(s + z) + (n - 1)], Space)
      BY <1>3, <1>4, <3>1
    <3>3. CASE Paused(b, acc[(s + z) + (n - 1)])
      BY <3>1, <3>2, <3>3, SpaceKeeps
    <3>4. CASE BadFor(b, acc[(s + z) + (n - 1)])
      <4>1. acc[(s + z) + n] = acc[(s + z) + (n - 1)]
        BY <3>2, <3>4, Decided DEF BadFor
      <4> QED
        BY <3>1, <3>4, <4>1
    <3> QED
      BY <2>3, <3>3, <3>4
  <2>4. k \in T
    <3>. HIDE DEF T
    <3> QED
      BY <2>2, <2>3, EveryTurn
  <2> QED
    BY <2>1, <2>4
<1>9. ASSUME NEW v \in Nat, v <= l, acc[v].rc # "reading" PROVE BitmapParse(t) = acc[v]
  <2>1. PICK k \in Nat : k = l - v /\ v + k = l
    BY <1>9
  <2>. DEFINE T == {n \in 0..k : acc[v + n] = acc[v]}
  <2>2. 0 \in T
    <3>1. v + 0 = v /\ 0 \in 0..k
      OBVIOUS
    <3> QED
      BY <3>1
  <2>3. ASSUME NEW n \in 1..k, n - 1 \in T PROVE n \in T
    <3>1. v + n \in 1..l /\ (v + n) - 1 = v + (n - 1) /\ n \in 0..k
      BY <1>2, <2>1
    <3>2. acc[v + n] = ParseChar(acc[v + (n - 1)], t[v + n])
      BY <1>4, <3>1
    <3> QED
      BY <1>9, <2>3, <3>1, <3>2, Decided
  <2>4. k \in T
    <3>. HIDE DEF T
    <3> QED
      BY <2>2, <2>3, EveryTurn
  <2>5. acc[l] = acc[v]
    BY <2>1, <2>4
  <2> QED
    BY <1>5, <1>9, <2>5 DEF Return
<1>10. CASE BadFor(b, acc[u])
  <2>1. acc[u].rc # "reading"
    BY <1>10 DEF BadFor
  <2> QED
    BY <1>2, <1>9, <1>10, <2>1 DEF Verdict
<1>11. CASE Paused(b, acc[u])
  <2>0. b \in Seq(Chars)
    BY DEF Readably
  <2>1. CASE u = l
    <3>1. acc[l].was # Comma /\ acc[l].rc = "reading"
      BY <1>11, <2>1 DEF Paused, State
    <3>2. BitmapParse(t) = Return(EndChunk(acc[u]), "ok")
      BY <1>5, <2>1, <3>1
    <3> QED
      BY <1>11, <2>0, <3>2, PausedEnds
  <2>2. CASE u < l
    <3>1. u + 1 \in 1..l /\ (u + 1) - 1 = u /\ u + 1 \in Nat /\ u + 1 <= l
      BY <1>2, <2>2
    <3>2. acc[u + 1] = ParseChar(acc[u], Nul)
      BY <1>2, <1>4, <2>2, <3>1 DEF Framed
    <3>3. Verdict(b, acc[u + 1])
      BY <1>11, <2>0, <3>2, PausedEnds
    <3>4. BitmapParse(t) = acc[u + 1]
      BY <1>9, <3>1, <3>3, VerdictIs
    <3> QED
      BY <3>3, <3>4
  <2> QED
    BY <1>2, <2>1, <2>2
<1> QED
  BY <1>8, <1>10, <1>11

(* Where the body of a text is.                                            *)
LEMMA BodyIs ==
    ASSUME text \in Seq(Chars)
    PROVE  /\ Body \in Seq(Chars) /\ \A i \in 1..Len(Body) : Body[i] # Nul
           /\ \E u : Framed(text, Body, u)
<1>. DEFINE ends  == {i \in DOMAIN text : text[i] = Nul}
            until == IF ends = {} THEN Len(text)
                     ELSE (CHOOSE i \in ends : \A j \in ends : i <= j) - 1
            marks == {i \in 1..until : text[i] # Space}
<1>1. PICK l \in Nat : l = Len(text) /\ DOMAIN text = 1..l /\ \A i \in 1..l : text[i] \in Chars
  OBVIOUS
<1>2. /\ until \in 0..l /\ (until < l => text[until + 1] = Nul)
      /\ \A i \in 1..until : text[i] # Nul
  <2>1. CASE ends = {}
    <3>1. until = l
      BY <1>1, <2>1
    <3> QED
      BY <1>1, <2>1, <3>1
  <2>2. CASE ends # {}
    <3>1. ends \subseteq Nat
      BY <1>1
    <3>2. \E i \in ends : \A j \in ends : i <= j
      <4>. HIDE DEF ends
      <4> QED
        BY <2>2, <3>1, Least
    <3>3. PICK i \in ends : /\ i = (CHOOSE h \in ends : \A j \in ends : h <= j)
                            /\ \A j \in ends : i <= j
      BY <3>2
    <3>4. i \in 1..l /\ text[i] = Nul
      BY <1>1, <3>3
    <3>5. until = i - 1
      BY <2>2, <3>3
    <3>. HIDE DEF until
    <3>6. until \in 0..l /\ until + 1 = i
      BY <3>4, <3>5
    <3>7. ASSUME NEW j \in 1..until PROVE text[j] # Nul
      <4>1. j \in 1..l /\ ~(i <= j)
        BY <3>4, <3>6
      <4> QED
        BY <1>1, <3>3, <4>1
    <3> QED
      BY <3>4, <3>6, <3>7
  <2> QED
    BY <2>1, <2>2
<1>3. Body = IF marks = {} THEN <<>>
             ELSE SubSeq(text, CHOOSE i \in marks : \A j \in marks : i <= j,
                               CHOOSE i \in marks : \A j \in marks : i >= j)
  BY DEF Body
<1>4. PICK u \in Nat : u = until /\ u <= l
  <2>. HIDE DEF until
  <2> QED
    BY <1>1, <1>2
<1>5. \A i \in 1..u : i \in marks <=> text[i] # Space
  BY <1>4
<1>6. marks \subseteq 1..u
  BY <1>4
<1>7. u \in 0..Len(text) /\ (u < Len(text) => text[u + 1] = Nul) /\ \A i \in 1..u : text[i] # Nul
  <2>. HIDE DEF until
  <2> QED
    BY <1>1, <1>2, <1>4
<1>. HIDE DEF ends, until, marks
<1>8. CASE marks = {}
  <2>1. Body = <<>> /\ Len(<<>>) = 0 /\ <<>> \in Seq(Chars)
    BY <1>3, <1>8
  <2>2. \A i \in 1..u : text[i] = Space
    BY <1>5, <1>8
  <2>3. /\ 0 \in 0..u /\ 0 + 0 <= u /\ (0 + 0) + 1 = 1
        /\ \A i \in 1..0 : text[i] = Space
        /\ \A i \in 1..0 : <<>>[i] = text[0 + i]
    OBVIOUS
  <2>4. Framed(text, <<>>, u)
    BY <1>7, <2>1, <2>2, <2>3 DEF Framed
  <2>5. \A i \in 1..Len(<<>>) : <<>>[i] # Nul
    BY <2>1
  <2> QED
    BY <2>1, <2>4, <2>5
<1>9. CASE marks # {}
  <2>1. \E i \in marks : \A j \in marks : i <= j
    <3>1. marks \subseteq Nat
      BY <1>6
    <3> QED
      BY <1>9, <3>1, Least
  <2>2. \E i \in marks : \A j \in marks : i >= j
    <3>1. marks \subseteq 0..u
      BY <1>6
    <3> QED
      BY <1>9, <3>1, Greatest
  <2>3. PICK f \in marks : /\ f = (CHOOSE i \in marks : \A j \in marks : i <= j)
                           /\ \A j \in marks : f <= j
    BY <2>1
  <2>4. PICK g \in marks : /\ g = (CHOOSE i \in marks : \A j \in marks : i >= j)
                           /\ \A j \in marks : g >= j
    BY <2>2
  <2>5. Body = SubSeq(text, f, g)
    BY <1>3, <1>9, <2>3, <2>4
  <2>6. f \in 1..u /\ g \in 1..u /\ f <= g
    BY <1>6, <2>3, <2>4
  <2>7. PICK z \in Nat, s \in Nat : z = g - f + 1 /\ s = f - 1 /\ f = s + 1 /\ g = s + z /\ z > 0
    <3>1. PICK f1 \in Nat, g1 \in Nat : f1 = f /\ g1 = g /\ f1 >= 1 /\ f1 <= g1
      BY <2>6
    <3>2. g1 - f1 + 1 \in Nat /\ f1 - 1 \in Nat /\ f1 = (f1 - 1) + 1
          /\ g1 = (f1 - 1) + (g1 - f1 + 1) /\ g1 - f1 + 1 > 0
      BY <3>1
    <3> QED
      BY <3>1, <3>2
  <2>8. /\ Body \in Seq(Chars) /\ Len(Body) = z
        /\ \A i \in 1..z : Body[i] = text[s + i] /\ s + i \in 1..u
    <3>1. \A i \in f..g : text[i] \in Chars
      BY <1>1, <1>4, <2>6
    <3>2. /\ SubSeq(text, f, g) \in Seq(Chars)
          /\ Len(SubSeq(text, f, g)) = g - f + 1
          /\ \A i \in 1..(g - f + 1) : SubSeq(text, f, g)[i] = text[f + i - 1]
      <4>1. f \in Int /\ g \in Int /\ f <= g
        BY <2>6
      <4> QED
        BY <3>1, <4>1, SubSeqProperties
    <3>3. \A i \in 1..z : f + i - 1 = s + i /\ s + i \in 1..u
      BY <1>4, <2>6, <2>7
    <3> QED
      BY <2>5, <2>7, <3>2, <3>3
  <2>9. \A i \in 1..s : text[i] = Space
    <3>1. \A i \in 1..s : i \in 1..u /\ ~(f <= i)
      BY <1>4, <2>6, <2>7
    <3> QED
      BY <1>5, <2>3, <3>1
  <2>10. \A i \in (s + z + 1)..u : text[i] = Space
    <3>1. \A i \in (s + z + 1)..u : i \in 1..u /\ ~(g >= i)
      BY <1>4, <2>6, <2>7
    <3> QED
      BY <1>5, <2>4, <3>1
  <2>11. s \in 0..u /\ s + z <= u
    BY <1>4, <2>6, <2>7
  <2>12. Framed(text, Body, u)
    BY <1>7, <2>8, <2>9, <2>10, <2>11 DEF Framed
  <2> QED
    BY <1>7, <2>8, <2>12
<1> QED
  BY <1>8, <1>9

(* The errors of the comment are those.                                    *)
LEMMA IllegalIs ==
    ASSUME Body \in Seq(Chars)
    PROVE  Illegal <=> Len(Body) = 0 \/ Wrong(Body, Len(Body))
<1>1. PICK z \in Nat : z = Len(Body)
  OBVIOUS
<1>2. DOMAIN Body = 1..z /\ (z = 0 <=> Body = <<>>)
  BY <1>1, EmptySeq
<1>3. Junk \in ToSet(Body) <=> \E i \in 1..z : Body[i] = Junk
  BY <1>2 DEF ToSet
<1>4. (\E i \in 1..(z - 1) : Body[i] = Comma /\ Body[i + 1] = Comma)
         <=> \E i \in 1..z : i # 1 /\ Body[i] = Comma /\ Body[i - 1] = Comma
  <2>1. \A i \in 1..(z - 1) : i + 1 \in 1..z /\ i + 1 # 1 /\ (i + 1) - 1 = i
    OBVIOUS
  <2>2. \A i \in 1..z : i # 1 => i - 1 \in 1..(z - 1) /\ (i - 1) + 1 = i
    OBVIOUS
  <2> QED
    BY <2>1, <2>2
<1>5. z # 0 => 1 \in 1..z
  OBVIOUS
<1>6. Wrong(Body, z) <=> \/ \E i \in 1..z : Body[i] = Junk
                         \/ 1 \in 1..z /\ Body[1] = Comma
                         \/ \E i \in 1..z : i # 1 /\ Body[i] = Comma /\ Body[i - 1] = Comma
  BY DEF Wrong
<1>7. Illegal <=> \/ z = 0 \/ Junk \in ToSet(Body)
                  \/ z # 0 /\ Body[1] = Comma
                  \/ \E i \in 1..(z - 1) : Body[i] = Comma /\ Body[i + 1] = Comma
  BY <1>1, <1>2 DEF Illegal
<1> QED
  BY <1>1, <1>3, <1>4, <1>5, <1>6, <1>7

(* And so are the places of the bits.                                      *)
LEMMA PlacedIs ==
    ASSUME Body \in Seq(Chars)
    PROVE  Value = Values(Body, Len(Body)) /\ (TooLong <=> Big(Body, Len(Body)))
<1>1. PICK z \in Nat : z = Len(Body) /\ DOMAIN Body = 1..z /\ \A j \in 1..z : Body[j] \in Chars
  OBVIOUS
<1>. DEFINE Pl(j, e) == [chunk |-> Cardinality(CommasTo(Body, j, z)),
                         bit   |-> D * DigitsTo(Body, j, z) + e]
<1>2. Placed = UNION {{Pl(j, e) : e \in Body[j].bits} : j \in 1..z}
  BY <1>1 DEF Placed, CommasTo, DigitsTo
<1>3. \A p : p \in Placed <=> \E j \in 1..z : \E e \in Body[j].bits : p = Pl(j, e)
  BY <1>2
<1>4. \A j, e : /\ Pl(j, e).chunk = Cardinality(CommasTo(Body, j, z))
                /\ Pl(j, e).bit = D * DigitsTo(Body, j, z) + e
  OBVIOUS
<1>. HIDE DEF Pl
<1>5. ASSUME NEW j \in 1..z, NEW e \in Body[j].bits
      PROVE  CHUNK * Cardinality(CommasTo(Body, j, z)) + (D * DigitsTo(Body, j, z) + e) \in Nat
  <2>1. e \in Nat /\ j \in Nat /\ j <= z
    BY <1>1, CharBits
  <2>2. PICK g \in Nat : g = D * DigitsTo(Body, j, z) + e
    BY <2>1, BitPlace
  <2>3. PICK i \in Nat : i = Cardinality(CommasTo(Body, j, z))
    BY <2>1, PlaceType
  <2>4. CHUNK * i \in Nat
    BY ChunkFits
  <2> QED
    BY <2>2, <2>3, <2>4
<1>6. Value = Values(Body, z)
  <2>1. ASSUME NEW v PROVE v \in Value <=> v \in Values(Body, z)
    <3>1. v \in Value <=> \E p \in Placed : v = CHUNK * p.chunk + p.bit
      BY DEF Value
    <3>2. v \in Value <=> \E j \in 1..z : \E e \in Body[j].bits :
             v = CHUNK * Cardinality(CommasTo(Body, j, z)) + (D * DigitsTo(Body, j, z) + e)
      BY <1>3, <1>4, <3>1
    <3> QED
      BY <1>5, <3>2 DEF Values
  <2> QED
    BY <2>1
<1>7. (\E p \in Placed : p.bit >= CHUNK)
         <=> \E j \in 1..z : \E e \in Body[j].bits : D * DigitsTo(Body, j, z) + e >= CHUNK
  BY <1>3, <1>4
<1>8. (\E v \in Value : v >= NB)
         <=> \E j \in 1..z : \E e \in Body[j].bits :
                CHUNK * Cardinality(CommasTo(Body, j, z)) + (D * DigitsTo(Body, j, z) + e) >= NB
  <2>1. (\E v \in Values(Body, z) : v >= NB)
           => \E j \in 1..z : \E e \in Body[j].bits :
                CHUNK * Cardinality(CommasTo(Body, j, z)) + (D * DigitsTo(Body, j, z) + e) >= NB
    BY DEF Values
  <2>2. ASSUME NEW j \in 1..z, NEW e \in Body[j].bits
        PROVE  CHUNK * Cardinality(CommasTo(Body, j, z)) + (D * DigitsTo(Body, j, z) + e)
                  \in Values(Body, z)
    BY <1>5 DEF Values
  <2> QED
    BY <1>6, <2>1, <2>2
<1>9. Big(Body, z) <=>
         \/ \E j \in 1..z : \E e \in Body[j].bits : D * DigitsTo(Body, j, z) + e >= CHUNK
         \/ \E j \in 1..z : \E e \in Body[j].bits :
                CHUNK * Cardinality(CommasTo(Body, j, z)) + (D * DigitsTo(Body, j, z) + e) >= NB
  BY DEF Big
<1> QED
  BY <1>1, <1>6, <1>7, <1>8, <1>9 DEF TooLong

-----------------------------------------------------------------------------
(* The theorems                                                            *)

(* What a step makes of the masks are masks.                               *)
LEMMA MaskTypeStep == MaskTypeOK /\ [MaskNext]_maskVars => MaskTypeOK'
<1> SUFFICES ASSUME MaskTypeOK, [MaskNext]_maskVars PROVE MaskTypeOK'
  OBVIOUS
<1>0. mem \in Memory(Regs) /\ mem["x"] = x /\ mem["y"] = y /\ "x" \in Regs
  BY DEF MaskTypeOK, mem, Regs, Memory
<1>1. \A s \in Regs : mem[s] \in Masks
  BY <1>0 DEF Memory
<1>2. CASE Operation
  <2>1. UNCHANGED <<y, text>>
    BY <1>2 DEF Operation
  <2>2. ASSUME NEW i \in 0..(NB - 1) PROVE SetBit(x, i) \in Masks /\ ClearBit(x, i) \in Masks
    <3>1. i \in Int
      BY BitmapAssumption
    <3>2. i % W \in 0..(W - 1)
      BY <3>1, Position
    <3>3. x \in Masks
      BY DEF MaskTypeOK
    <3> QED
      BY <3>2, <3>3 DEF SetBit, ClearBit, Masks, Word
  <2>3. \A s, t \in Regs : /\ And(mem[s], mem[t]) \in Masks /\ Or(mem[s], mem[t]) \in Masks
                           /\ Xor(mem[s], mem[t]) \in Masks
                           /\ Andnot(mem[s], mem[t]) \in Masks
                           /\ Complement(mem[s]) \in Masks
    BY <1>1, StayMasks
  <2>4. \A s \in Regs, n \in 0..NB : /\ ShiftRight(mem, "x", s, n) \in Masks
                                     /\ ShiftLeft(mem, "x", s, n) \in Masks
    BY <1>0, RightAgrees, LeftAgrees
  <2>5. Zero \in Masks /\ Fill \in Masks
    BY StayMasks DEF MaskTypeOK
  <2>6. x' \in Masks
    BY <1>2, <2>2, <2>3, <2>4, <2>5 DEF Operation
  <2> QED
    BY <2>1, <2>6 DEF MaskTypeOK
<1>3. CASE PrintMask
  BY <1>3, PrintType DEF PrintMask, MaskTypeOK
<1>4. CASE ReadMask
  <2>1. BitmapParse(text) \in States
    BY ParseType DEF MaskTypeOK
  <2>2. x' \in Masks
    BY <1>4, <2>1 DEF ReadMask, States
  <2>3. text' \in Seq(Chars) /\ y' = y
    BY <1>4 DEF ReadMask
  <2> QED
    BY <2>2, <2>3 DEF MaskTypeOK
<1>5. CASE UNCHANGED maskVars
  BY <1>5 DEF maskVars, MaskTypeOK
<1> QED
  BY <1>2, <1>3, <1>4, <1>5 DEF MaskNext

(* The words of the masks stay words and the buffer a text, whatever is    *)
(* done with them and whatever __bitmap_parse has been given.              *)
THEOREM MaskTypeCorrect == MaskSpec => []MaskTypeOK
<1>1. MaskInit => MaskTypeOK
  <2> SUFFICES ASSUME MaskInit PROVE MaskTypeOK
    OBVIOUS
  <2>1. CASE x \in Masks /\ y \in Others /\ text = <<>>
    BY <2>1, OthersAssumption DEF MaskTypeOK
  <2>2. CASE x = Zero /\ y = Zero /\ text \in UNION {[1..n -> Chars] : n \in 1..MaxText}
    <3>1. PICK n \in 1..MaxText : text \in [1..n -> Chars]
      BY <2>2
    <3>2. text \in Seq(Chars)
      BY <3>1, BitmapAssumption
    <3>3. Zero \in Masks
      BY DEF Zero, Masks, Word
    <3> QED
      BY <2>2, <3>2, <3>3 DEF MaskTypeOK
  <2> QED
    BY <2>1, <2>2 DEF MaskInit
<1> QED
  BY <1>1, MaskTypeStep, PTL DEF MaskSpec

(* The operations and the questions of bitmap.c and bitmap.h are those of  *)
(* sets, for masks and words of any size and whatever is behind the end of *)
(* the masks; the shifts also when they write over what they read.         *)
THEOREM MasksAreSets == MaskSpec => []AgreesWithSets
<1>1. MaskTypeOK => AgreesWithSets
  <2> SUFFICES ASSUME MaskTypeOK PROVE OperationsAgree /\ QuestionsAgree
    BY DEF AgreesWithSets
  <2>1. mem \in Memory(Regs) /\ \A s \in Regs : mem[s] \in Masks
    BY DEF MaskTypeOK, mem, Regs, Memory
  <2>2. OperationsAgree
    <3> SUFFICES ASSUME NEW s \in Regs, NEW t \in Regs
                 PROVE  LET a == mem[s]
                            b == mem[t]
                            Universe == 0..(NB - 1)
                        IN  /\ Bits(And(a, b)) = Bits(a) \cap Bits(b)
                            /\ Bits(Or(a, b)) = Bits(a) \cup Bits(b)
                            /\ Bits(Xor(a, b)) = (Bits(a) \ Bits(b)) \cup (Bits(b) \ Bits(a))
                            /\ Bits(Andnot(a, b)) = Bits(a) \ Bits(b)
                            /\ Bits(Complement(a)) = Universe \ Bits(a)
                            /\ \A i \in Universe : /\ Bits(SetBit(a, i)) = Bits(a) \cup {i}
                                                   /\ Bits(ClearBit(a, i)) = Bits(a) \ {i}
                            /\ \A n \in 0..NB :
                                   /\ Bits(ShiftRight(mem, t, s, n))
                                          = {i - n : i \in Bits(a)} \cap Universe
                                   /\ Bits(ShiftLeft(mem, t, s, n))
                                          = {i + n : i \in Bits(a)} \cap Universe
      BY DEF OperationsAgree
    <3>1. mem[s] \in Masks /\ mem[t] \in Masks
      BY <2>1
    <3>2. ASSUME NEW n \in 0..NB
          PROVE  /\ Bits(ShiftRight(mem, t, s, n))
                        = {i - n : i \in Bits(mem[s])} \cap (0..(NB - 1))
                 /\ Bits(ShiftLeft(mem, t, s, n))
                        = {i + n : i \in Bits(mem[s])} \cap (0..(NB - 1))
      BY <2>1, RightAgrees, LeftAgrees
    <3> QED
      BY <3>1, <3>2, WordByWord, ComplementIs, OneBit
  <2>3. QuestionsAgree
    BY <2>1, Answers, WeightIs DEF QuestionsAgree
  <2> QED
    BY <2>2, <2>3
<1> QED
  BY MaskTypeCorrect, <1>1, PTL

(* What bitmap_scnprintf prints, __bitmap_parse reads, and it returns 0    *)
(* and the mask that was printed, when the chunks fill the mask, as they   *)
(* do with NR_CPUS: chunksz is what the first chunk that is printed has,   *)
(* not the first one of the mask.                                          *)
THEOREM PrintedIsRead == NB % CHUNK = 0 => (MaskSpec => []PrintParses)
<1> SUFFICES ASSUME NB % CHUNK = 0 PROVE MaskSpec => []PrintParses
  OBVIOUS
<1>1. MaskTypeOK => PrintParses
  <2> SUFFICES ASSUME MaskTypeOK PROVE BitmapParse(Printed(x)).rc = "ok"
                                   /\ Bits(BitmapParse(Printed(x)).mask) = Bits(x)
    BY DEF PrintParses
  <2>1. x \in Masks
    BY DEF MaskTypeOK
  <2>2. PICK p : Printed(x) = p.text /\ Sofar(x, p, 0)
    BY <2>1, PrintEnds
  <2>3. p.text \in Seq(Chars) /\ ReadsFrom(x, 0, p.text)
    BY <2>2 DEF Sofar
  <2> QED
    BY <2>2, <2>3, ParseEnds
<1> QED
  BY MaskTypeCorrect, <1>1, PTL

(* A text of any length, from the environment or a file of /proc, is read  *)
(* as the comment in front of __bitmap_parse says, or refused with the     *)
(* error that it names: no digit is lost, and none is put in the place of  *)
(* another.  White space inside and a comma at the end are left open.      *)
THEOREM ParsesAsItSays == MaskSpec => []ParseMeetsContract
<1>1. MaskTypeOK => ParseMeetsContract
  <2> SUFFICES ASSUME text \in Seq(Chars), text # <<>>, ~Embedded,
                      Body # <<>> => Body[Len(Body)] # Comma
               PROVE  LET p == BitmapParse(text)
                      IN  IF Illegal THEN p.rc \in {"EINVAL", "EOVERFLOW"}
                          ELSE IF TooLong THEN p.rc = "EOVERFLOW"
                          ELSE p.rc = "ok" /\ Bits(p.mask) = Value
    BY DEF ParseMeetsContract, MaskTypeOK
  <2>1. Body \in Seq(Chars) /\ (Body = <<>> <=> Len(Body) = 0)
    BY BodyIs, EmptySeq
  <2>2. Readably(Body)
    <3>1. \A i \in 1..Len(Body) : Body[i] # Nul
      BY BodyIs
    <3>2. \A i \in 1..Len(Body) : Body[i] # Space
      <4>1. DOMAIN Body = 1..Len(Body)
        BY <2>1
      <4> QED
        BY <4>1 DEF Embedded, ToSet
    <3> QED
      BY <2>1, <3>1, <3>2 DEF Readably
  <2>3. PICK u : Framed(text, Body, u)
    BY BodyIs
  <2>4. Len(Body) # 0 => Body[Len(Body)] # Comma
    BY <2>1
  <2>5. Verdict(Body, BitmapParse(text))
    BY <2>2, <2>3, <2>4, ReadsBody
  <2>6. /\ Illegal <=> Len(Body) = 0 \/ Wrong(Body, Len(Body))
        /\ TooLong <=> Big(Body, Len(Body))
        /\ Value = Values(Body, Len(Body))
    BY <2>1, IllegalIs, PlacedIs
  <2>7. PICK z \in Nat : z = Len(Body)
    BY <2>1
  <2> QED
    BY <2>5, <2>6, <2>7 DEF Verdict, BadFor
<1> QED
  BY MaskTypeCorrect, <1>1, PTL

-----------------------------------------------------------------------------
(* The main loop (IrqDaemon)                                               *)

(* What lies between the look and the comparison: a tree that is new has   *)
(* not been looked at; a mismatch sets need_rescan, which stays set, also  *)
(* over looks that fail, until its test leads to a rescan; and during the  *)
(* rescan cycle_count stays zero up to the balancing.                      *)
NotLooked == {"cpus", "irqs", "pidfile", "read", "recpus", "reirqs", "reread"}
Looked    == {"sighup", "parseAgain"} \cup Looping

LooksBeforeItMigrates ==
  /\ pc \in NotLooked => seenIrqs = {}
  /\ pc \in Looked /\ ~need_rescan => SeenMatches
  /\ pc \in Rescans \ {"reset"} => cycle_count = 0
  /\ MigratesOnMatch

DaemonInv == TypeOK /\ LooksBeforeItMigrates

(* Before main nothing has been read or compared.                          *)
LEMMA DaemonInit == Init => DaemonInv
<1> SUFFICES ASSUME Init PROVE DaemonInv
  OBVIOUS
<1>1. TypeOK
  <2>1. changes \in 0..MaxChanges
    BY DaemonAssumption DEF Init
  <2>2. pc \in Starting /\ cycle_count \in 0..1 /\ treeCpus \in SUBSET Cpus
    BY DEF Init, Starting
  <2>3. /\ keep_going \in BOOLEAN /\ need_rescan \in BOOLEAN /\ hup \in BOOLEAN
        /\ one_shot_mode \in BOOLEAN
    BY DEF Init
  <2>4. /\ online \in SUBSET Cpus /\ irqs \in SUBSET Irqs /\ reborn \in SUBSET Irqs
        /\ db \in SUBSET Irqs /\ seenCpus \in SUBSET Cpus /\ seenIrqs \in SUBSET Irqs
        /\ opens \in SUBSET Files /\ pidfile \in {"none", "mine", "other"}
    BY DEF Init
  <2> QED
    BY <2>1, <2>2, <2>3, <2>4 DEF TypeOK
<1>2. LooksBeforeItMigrates
  BY DEF Init, LooksBeforeItMigrates, MigratesOnMatch, Rescans, NotLooked, Looked, Looping
<1> QED
  BY <1>1, <1>2 DEF DaemonInv

(* Every step keeps the types of the state.                                *)
LEMMA DaemonTypeStep == TypeOK /\ [Next]_vars => TypeOK'
<1> SUFFICES ASSUME TypeOK, [Next]_vars PROVE TypeOK'
  OBVIOUS
<1> USE DEF TypeOK, worldVars, flagVars, treeVars, seenVars,
            Starting, Looping, Rescans, Goto
<1>1. CASE Kernel
  BY <1>1, DaemonAssumption DEF Kernel, ChangeCpus, ChangeIrqs, ChangeOpens
<1>2. CASE Sigint
  BY <1>2 DEF Sigint
<1>3. CASE Sighup
  BY <1>3 DEF Sighup
<1>4. CASE Killed
  BY <1>4 DEF Killed
<1>5. CASE BuildCpus
  BY <1>5 DEF BuildCpus, ParseCpuTree
<1>6. CASE BuildIrqs
  BY <1>6 DEF BuildIrqs, RebuildIrqDb
<1>7. CASE WritePidfile
  BY <1>7 DEF WritePidfile
<1>8. CASE FirstRead
  BY <1>8 DEF FirstRead, ParseProcInterrupts, ReadInterrupts, Unmatched
<1>9. CASE InstallSighup
  BY <1>9 DEF InstallSighup
<1>10. CASE Loop
  BY <1>10 DEF Loop
<1>11. CASE Parse
  BY <1>11 DEF Parse, ParseProcInterrupts, ReadInterrupts, Unmatched
<1>12. CASE Test
  BY <1>12 DEF Test
<1>13. CASE Reset
  BY <1>13 DEF Reset
<1>14. CASE FreeObjectTree
  BY <1>14 DEF FreeObjectTree
<1>15. CASE RebuildCpus
  BY <1>15 DEF RebuildCpus, ParseCpuTree
<1>16. CASE RebuildIrqs
  BY <1>16 DEF RebuildIrqs, RebuildIrqDb
<1>17. CASE Reread
  BY <1>17 DEF Reread, ParseProcInterrupts, ReadInterrupts, Unmatched
<1>18. CASE ParseAgain
  BY <1>18 DEF ParseAgain, ParseProcInterrupts, ReadInterrupts, Unmatched
<1>19. CASE Balance
  BY <1>19 DEF Balance
<1>20. CASE Count
  BY <1>20 DEF Count
<1>21. CASE Cleanup
  BY <1>21 DEF Cleanup
<1>22. CASE UNCHANGED vars
  BY <1>22 DEF vars
<1> QED
  BY <1>1, <1>2, <1>3, <1>4, <1>5, <1>6, <1>7, <1>8, <1>9, <1>10, <1>11, <1>12, <1>13,
       <1>14, <1>15, <1>16, <1>17, <1>18, <1>19, <1>20, <1>21, <1>22
    DEF Next, Main

(* A look at the kernel that asks for no rescan has found what the tree    *)
(* has; one that fails leaves what was found before (parse_proc_interrupts).*)
LEMMA LookMatches ==
  ASSUME NEW from, NEW to, ParseProcInterrupts(from, to), ~need_rescan',
         ~need_rescan => SeenMatches
  PROVE  SeenMatches'
<1>1. treeCpus' = treeCpus /\ db' = db
  BY DEF ParseProcInterrupts, treeVars
<1>2. CASE ReadInterrupts
  BY <1>1, <1>2 DEF ReadInterrupts, Unmatched, SeenMatches, core_count
<1>3. CASE UNCHANGED <<need_rescan, reborn, seenVars>>
  BY <1>1, <1>3 DEF SeenMatches, seenVars, core_count
<1> QED
  BY <1>2, <1>3 DEF ParseProcInterrupts

(* An interrupt that was not read is no mismatch.                          *)
LEMMA NothingSeenMatches == seenIrqs = {} => SeenMatches
BY DEF SeenMatches

(* Every step keeps the look before the comparison.                        *)
LEMMA LooksStep ==
    TypeOK /\ LooksBeforeItMigrates /\ [Next]_vars
        => LooksBeforeItMigrates'
<1> SUFFICES ASSUME TypeOK, LooksBeforeItMigrates, [Next]_vars
             PROVE  LooksBeforeItMigrates'
  OBVIOUS
<1> USE DEF LooksBeforeItMigrates, MigratesOnMatch, Rescans, NotLooked, Looked, Looping, Goto
<1>0. ASSUME UNCHANGED <<treeVars, seenVars>>
      PROVE  (SeenMatches' <=> SeenMatches) /\ seenIrqs' = seenIrqs
  BY <1>0 DEF SeenMatches, treeVars, seenVars, core_count
<1>1. ASSUME UNCHANGED <<pc, cycle_count, treeVars, seenVars>>, need_rescan => need_rescan'
      PROVE  LooksBeforeItMigrates'
  BY <1>0, <1>1
<1>2. CASE Kernel \/ Sigint \/ Sighup \/ UNCHANGED vars
  BY <1>1, <1>2 DEF Kernel, Sigint, Sighup, vars, flagVars, TypeOK
<1>4. CASE Killed
  BY <1>4 DEF Killed
<1>5. CASE BuildCpus
  BY <1>5 DEF BuildCpus, ParseCpuTree, seenVars
<1>6. CASE BuildIrqs
  BY <1>6 DEF BuildIrqs, RebuildIrqDb, seenVars
<1>7. CASE WritePidfile
  BY <1>7 DEF WritePidfile, seenVars
<1>8. CASE FirstRead
  <2>1. pc' = "sighup"
    BY <1>8 DEF FirstRead, ParseProcInterrupts
  <2>2. ~need_rescan' => SeenMatches'
    BY <1>8, LookMatches, NothingSeenMatches DEF FirstRead, ParseProcInterrupts
  <2> QED
    BY <2>1, <2>2
<1>9. CASE InstallSighup
  BY <1>0, <1>9 DEF InstallSighup, flagVars
<1>10. CASE Loop
  BY <1>0, <1>10 DEF Loop, flagVars
<1>11. CASE Parse
  <2>1. pc = "parse" /\ pc' = "test" /\ cycle_count' = cycle_count
    BY <1>11 DEF Parse, ParseProcInterrupts
  <2>2. ~need_rescan' => SeenMatches'
    BY <1>11, <2>1, LookMatches DEF Parse
  <2> QED
    BY <2>1, <2>2
<1>12. CASE Test
  BY <1>0, <1>12 DEF Test
<1>13. CASE Reset
  BY <1>13 DEF Reset
<1>14. CASE FreeObjectTree
  BY <1>14 DEF FreeObjectTree, flagVars
<1>15. CASE RebuildCpus
  BY <1>15 DEF RebuildCpus, ParseCpuTree, flagVars, seenVars
<1>16. CASE RebuildIrqs
  BY <1>16 DEF RebuildIrqs, RebuildIrqDb, flagVars, seenVars
<1>17. CASE Reread
  <2>1. pc' = "parseAgain" /\ cycle_count' = 0
    BY <1>17 DEF Reread, ParseProcInterrupts
  <2>2. ~need_rescan' => SeenMatches'
    BY <1>17, LookMatches, NothingSeenMatches DEF Reread, ParseProcInterrupts
  <2> QED
    BY <2>1, <2>2
<1>18. CASE ParseAgain
  <2>1. pc = "parseAgain" /\ pc' = "balance" /\ cycle_count' = 0
    BY <1>18 DEF ParseAgain, ParseProcInterrupts
  <2>2. ~need_rescan' => SeenMatches'
    BY <1>18, <2>1, LookMatches DEF ParseAgain
  <2> QED
    BY <2>1, <2>2
<1>19. CASE Balance
  BY <1>0, <1>19 DEF Balance, flagVars
<1>20. CASE Count
  BY <1>0, <1>20 DEF Count
<1>21. CASE Cleanup
  BY <1>21 DEF Cleanup
<1> QED
  BY <1>2, <1>4, <1>5, <1>6, <1>7, <1>8, <1>9, <1>10, <1>11, <1>12, <1>13,
       <1>14, <1>15, <1>16, <1>17, <1>18, <1>19, <1>20, <1>21 DEF Next, Main

(* So both are invariant.                                                  *)
LEMMA DaemonInvariance == Spec => []DaemonInv
<1>1. DaemonInv /\ [Next]_vars => DaemonInv'
  BY DaemonTypeStep, LooksStep DEF DaemonInv
<1> QED
  BY <1>1, DaemonInit, PTL DEF Spec

(* The types of the daemon's state: main's flags, its tree and the files   *)
(* it has read (irqbalance.c:217-384).                                     *)
THEOREM DaemonTypeCorrect == Spec => []TypeOK
<1>1. DaemonInv => TypeOK
  BY DEF DaemonInv
<1> QED
  BY <1>1, DaemonInvariance, PTL

(* update_migration_status (irqbalance.c:364-365) only runs on a topology  *)
(* whose interrupts and number of CPUs the last look that succeeded agreed *)
(* with, whatever could not be opened before or since.                     *)
THEOREM MigratesOnlyOnMatch == Spec => []MigratesOnMatch
<1>1. DaemonInv => MigratesOnMatch
  BY DEF DaemonInv, LooksBeforeItMigrates
<1> QED
  BY <1>1, DaemonInvariance, PTL
=============================================================================
