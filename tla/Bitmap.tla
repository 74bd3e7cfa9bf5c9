-------------------------------- MODULE Bitmap --------------------------------
(***************************************************************************)
(* The CPU masks of irqbalance: bitmaps in arrays of words (bitmap.c,      *)
(* bitmap.h, non-atomic.h, under the names of cpumask.h), and the texts    *)
(* they are read from and written to.  The other modules of irqbalance     *)
(* take a mask for the set of its CPUs.                                    *)
(*                                                                         *)
(* A word is the set of the positions of its bits, a mask a function from  *)
(* the indices of its words.  Bits of the last word past the end of the    *)
(* mask can have any value, as in a mask that is not initialised.          *)
(***************************************************************************)
EXTENDS Integers, FiniteSets, SequencesExt

CONSTANTS
    NB,        \* NR_CPUS, 4096
    W,         \* BITS_PER_LONG
    CHUNK,     \* CHUNKSZ, 32
    D,         \* the bits of a digit, 4
    Others,    \* the masks that y starts as
    MaxText    \* bound on the texts to be read

\* The inline functions of bitmap.h have a branch for NB <= W, which NR_CPUS
\* does not take.
ASSUME BitmapAssumption ==
    /\ W \in Nat \ {0} /\ NB \in Nat /\ NB > W
    /\ D \in Nat \ {0} /\ CHUNK \in Nat /\ CHUNK >= D
    /\ W % CHUNK = 0 /\ CHUNK % D = 0
    /\ MaxText \in Nat

Lim   == (NB + W - 1) \div W
Left  == NB % W
Words == 0..(Lim - 1)
Word  == SUBSET (0..(W - 1))
Masks == [Words -> Word]

ASSUME OthersAssumption == Others \subseteq Masks

LastWordMask == IF Left = 0 THEN 0..(W - 1) ELSE 0..(Left - 1)

(* The set that a mask stands for. *)
Bits(a) == {i \in 0..(NB - 1) : i % W \in a[i \div W]}

-----------------------------------------------------------------------------
(* Operations *)

SetBit(a, i)   == [a EXCEPT ![i \div W] = @ \cup {i % W}]
ClearBit(a, i) == [a EXCEPT ![i \div W] = @ \ {i % W}]

Zero == [k \in Words |-> {}]
Fill == [k \in Words |-> IF k < Lim - 1 THEN 0..(W - 1) ELSE LastWordMask]

And(a, b)    == [k \in Words |-> a[k] \cap b[k]]
Or(a, b)     == [k \in Words |-> a[k] \cup b[k]]
Xor(a, b)    == [k \in Words |-> (a[k] \ b[k]) \cup (b[k] \ a[k])]
Andnot(a, b) == [k \in Words |-> a[k] \ b[k]]

Complement(a) ==
    [k \in Words |-> IF k = Lim - 1 THEN LastWordMask \ a[k] ELSE (0..(W - 1)) \ a[k]]

ShiftWord(w, n) == {b + n : b \in w} \cap (0..(W - 1))

Clip(k, w) == IF Left # 0 /\ k = Lim - 1 THEN w \cap LastWordMask ELSE w

(* Both loops write into an array they read from when dst is src, which is *)
(* why their direction matters.  mem holds the masks, d and s say which.   *)
ShiftRight(mem, d, s, n) ==
    LET off == n \div W
        rem == n % W
        Upper(m, k) == IF rem = 0 \/ off + k + 1 >= Lim THEN {}
                       ELSE Clip(off + k + 1, m[s][off + k + 1])
        At(m, k) == Clip(k, ShiftWord(Upper(m, k), W - rem)
                               \cup ShiftWord(Clip(off + k, m[s][off + k]), -rem))
        done[k \in 0..(Lim - off)] ==
            IF k = 0 THEN mem
            ELSE [done[k - 1] EXCEPT ![d][k - 1] = At(done[k - 1], k - 1)]
    IN  [k \in Words |-> IF k < Lim - off THEN done[Lim - off][d][k] ELSE {}]

ShiftLeftUpward(mem, d, s, n) ==                                    \* mutant
    LET off == n \div W
        rem == n % W
        Lower(m, k) == IF rem # 0 /\ k > 0 THEN m[s][k - 1] ELSE {}
        At(m, k) == Clip(k + off, ShiftWord(Lower(m, k), rem - W)
                                      \cup ShiftWord(Clip(k, m[s][k]), rem))
        done[k \in 0..(Lim - off)] ==
            IF k = 0 THEN mem
            ELSE [done[k - 1] EXCEPT ![d][k - 1 + off] = At(done[k - 1], k - 1)]
    IN  [k \in Words |-> IF k < off THEN {} ELSE done[Lim - off][d][k]]

ShiftLeft(mem, d, s, n) ==
    LET off == n \div W
        rem == n % W
        Lower(m, k) == IF rem # 0 /\ k > 0 THEN m[s][k - 1] ELSE {}
        At(m, k) == Clip(k + off, ShiftWord(Lower(m, k), rem - W)
                                      \cup ShiftWord(Clip(k, m[s][k]), rem))
        done[k \in 0..(Lim - off)] ==
            IF k = Lim - off THEN mem
            ELSE [done[k + 1] EXCEPT ![d][k + off] = At(done[k + 1], k)]
    IN  [k \in Words |-> IF k < off THEN {} ELSE done[0][d][k]]

-----------------------------------------------------------------------------
(* Questions.  For the last word only the bits of the mask count.          *)

TestBit(a, i) == i % W \in a[i \div W]

Inside(a, k) == IF k = NB \div W THEN a[k] \cap LastWordMask ELSE a[k]

Empty(a)         == \A k \in Words : Inside(a, k) = {}
Full(a)          == \A k \in Words : Inside(Complement(a), k) = {}
Equal(a, b)      == \A k \in Words : Inside(Xor(a, b), k) = {}
Intersects(a, b) == \E k \in Words : Inside(And(a, b), k) # {}
Weight(a)        == FoldLeft(LAMBDA w, k : w + Cardinality(Inside(a, k - 1)), 0,
                             [k \in 1..Lim |-> k])

-----------------------------------------------------------------------------
(* Texts *)

Digit(bits) == [is |-> "digit", bits |-> bits]
Comma == [is |-> "comma", bits |-> {}]
Space == [is |-> "space", bits |-> {}]
Nul   == [is |-> "nul",   bits |-> {}]
Junk  == [is |-> "junk",  bits |-> {}]

Chars == {Digit(b) : b \in SUBSET (0..(D - 1))} \cup {Comma, Space, Nul, Junk}

FlsFromZero(w) == IF w = {} THEN 0 ELSE CHOOSE b \in w : \A c \in w : c <= b  \* mutant
Fls(w) == IF w = {} THEN 0 ELSE 1 + CHOOSE b \in w : \A c \in w : c <= b

(* bitmap_scnprintf: the bits of a chunk, its digits, and its turn in the  *)
(* loop.  chunksz becomes CHUNK with the first chunk that is printed, not  *)
(* with the first one.                                                     *)
ChunkAt(a, i, size) == ShiftWord(a[i \div W], -(i % W)) \cap (0..(size - 1))

Digits(val, size) ==
    LET n == (size + D - 1) \div D
    IN  [j \in 1..n |-> Digit({b \in 0..(D - 1) : b + D * (n - j) \in val})]

Chunks == (NB + CHUNK - 1) \div CHUNK

PrintChunk(a, p, j) ==
    LET i   == (Chunks - j) * CHUNK
        val == ChunkAt(a, i, p.size)
    IN  IF val = {} /\ p.text = <<>> /\ i # 0 THEN p
        ELSE [text |-> p.text \o (IF p.text = <<>> THEN <<>> ELSE <<Comma>>)
                              \o Digits(val, p.size),
              size |-> CHUNK]

Printed(a) ==
    FoldLeft(LAMBDA p, j : PrintChunk(a, p, j),
             [text |-> <<>>, size |-> IF NB % CHUNK = 0 THEN CHUNK ELSE NB % CHUNK],
             [j \in 1..Chunks |-> j]).text

(* __bitmap_parse, one character of the buffer at a time.  rc is "reading" *)
(* as long as it has not returned; was is the character before.            *)
ParseStart == [mask |-> Zero, chunk |-> {}, ndigits |-> 0, totaldigits |-> 0,
               nchunks |-> 0, nbits |-> 0, was |-> Nul, rc |-> "reading"]

EndChunkZeros(p) ==                                                 \* mutant
    LET nbits == p.nbits + IF p.nchunks = 0 THEN Fls(p.chunk) ELSE CHUNK
        shifted == ShiftLeft([x |-> p.mask], "x", "x", CHUNK)
        started == [p EXCEPT !.chunk = {}, !.ndigits = 0]
    IN  IF p.ndigits = 0 THEN [p EXCEPT !.rc = "EINVAL"]
        ELSE IF p.chunk = {} THEN started
        ELSE [started EXCEPT !.mask = [shifted EXCEPT ![0] = @ \cup p.chunk],
                             !.nchunks = @ + 1, !.nbits = nbits,
                             !.rc = IF nbits > NB THEN "EOVERFLOW" ELSE "reading"]

(* After the inner loop.  A chunk in front that is zero is passed over.    *)
EndChunk(p) ==
    LET nbits == p.nbits + IF p.nchunks = 0 THEN Fls(p.chunk) ELSE CHUNK
        shifted == ShiftLeft([x |-> p.mask], "x", "x", CHUNK)
        started == [p EXCEPT !.chunk = {}, !.ndigits = 0]
    IN  IF p.ndigits = 0 THEN [p EXCEPT !.rc = "EINVAL"]
        ELSE IF p.nchunks = 0 /\ p.chunk = {} THEN started
        ELSE [started EXCEPT !.mask = [shifted EXCEPT ![0] = @ \cup p.chunk],
                             !.nchunks = @ + 1, !.nbits = nbits,
                             !.rc = IF nbits > NB THEN "EOVERFLOW" ELSE "reading"]

Return(p, rc) == IF p.rc = "reading" THEN [p EXCEPT !.rc = rc] ELSE p

ParseChar(p, c) ==
    LET q == [p EXCEPT !.was = c]
    IN  IF p.rc # "reading" \/ c = Space THEN IF p.rc # "reading" THEN p ELSE q
        ELSE IF p.totaldigits > 0 /\ c # Nul /\ p.was = Space THEN [q EXCEPT !.rc = "ok"]
        ELSE IF c = Comma THEN EndChunk(q)
        ELSE IF c = Nul THEN Return(EndChunk(q), "ok")
        ELSE IF c = Junk THEN [q EXCEPT !.rc = "EINVAL"]
        ELSE IF p.chunk \cap ((CHUNK - D)..(CHUNK - 1)) # {} THEN [q EXCEPT !.rc = "EOVERFLOW"]
        ELSE [q EXCEPT !.chunk = {b + D : b \in @} \cup c.bits,
                       !.ndigits = @ + 1, !.totaldigits = @ + 1]

(* At the end of the buffer nothing is left to do after a comma.           *)
BitmapParse(text) ==
    LET p == FoldLeft(ParseChar, ParseStart, text)
    IN  IF text # <<>> /\ p.was = Comma THEN Return(p, "ok")
        ELSE IF p.rc # "reading" THEN p ELSE Return(EndChunk(p), "ok")
-----------------------------------------------------------------------------
(* Two masks and a buffer *)

VARIABLES
    x, y,      \* the masks
    text       \* the buffer: a line of a file, or of the environment

maskVars == <<x, y, text>>
mem  == [x |-> x, y |-> y]
Regs == {"x", "y"}

MaskInit ==
    \/ x \in Masks /\ y \in Others /\ text = <<>>
    \/ x = Zero /\ y = Zero /\ text \in UNION {[1..n -> Chars] : n \in 1..MaxText}

(* One of the operations on x, with its operands in any of the masks.      *)
Operation ==
    /\ text = <<>>
    /\ \/ x' \in {Zero, Fill}
       \/ \E i \in 0..(NB - 1) : x' \in {SetBit(x, i), ClearBit(x, i)}
       \/ \E s, t \in Regs : x' \in {And(mem[s], mem[t]), Or(mem[s], mem[t]),
                                     Xor(mem[s], mem[t]), Andnot(mem[s], mem[t])}
       \/ \E s \in Regs : x' = Complement(mem[s])
       \/ \E s \in Regs, n \in 0..NB : x' \in {ShiftRight(mem, "x", s, n),
                                               ShiftLeft(mem, "x", s, n)}
    /\ UNCHANGED <<y, text>>

(* cpumask_scnprintf *)
PrintMask ==
    /\ text = <<>> /\ text' = Printed(x)
    /\ UNCHANGED <<x, y>>

(* cpumask_parse_user *)
ReadMask ==
    /\ text # <<>> /\ x' = BitmapParse(text).mask /\ text' = <<>>
    /\ UNCHANGED y

MaskNext == Operation \/ PrintMask \/ ReadMask

MaskSpec == MaskInit /\ [][MaskNext]_maskVars

MaskTypeOK == x \in Masks /\ y \in Masks /\ text \in Seq(Chars)

-----------------------------------------------------------------------------
(* Properties *)

(* Every operation does to the sets what its name says, whatever is behind *)
(* the end of the masks and also when it writes to one of its operands.    *)
OperationsAgree ==
    \A s, t \in Regs :
        LET a == mem[s]
            b == mem[t]
            Universe == 0..(NB - 1)
        IN  /\ Bits(And(a, b)) = Bits(a) \cap Bits(b)
            /\ Bits(Or(a, b)) = Bits(a) \cup Bits(b)
            /\ Bits(Xor(a, b)) = (Bits(a) \ Bits(b)) \cup (Bits(b) \ Bits(a))
            /\ Bits(Andnot(a, b)) = Bits(a) \ Bits(b)
            /\ Bits(Complement(a)) = Universe \ Bits(a)
            /\ \A i \in Universe : /\ Bits(SetBit(a, i)) = Bits(a) \cup {i}
                                   /\ Bits(ClearBit(a, i)) = Bits(a) \ {i}
            /\ \A n \in 0..NB :
                   /\ Bits(ShiftRight(mem, t, s, n)) = {i - n : i \in Bits(a)} \cap Universe
                   /\ Bits(ShiftLeft(mem, t, s, n)) = {i + n : i \in Bits(a)} \cap Universe

(* The same for the questions. *)
QuestionsAgree ==
    \A s, t \in Regs :
        LET a == mem[s]
            b == mem[t]
        IN  /\ Empty(a) <=> Bits(a) = {}
            /\ Full(a) <=> Bits(a) = 0..(NB - 1)
            /\ Equal(a, b) <=> Bits(a) = Bits(b)
            /\ Intersects(a, b) <=> Bits(a) \cap Bits(b) # {}
            /\ Weight(a) = Cardinality(Bits(a))
            /\ \A i \in 0..(NB - 1) : TestBit(a, i) <=> i \in Bits(a)

AgreesWithSets == text = <<>> => OperationsAgree /\ QuestionsAgree

(* What activate_mapping writes to smp_affinity (activate.c, line 98) is   *)
(* what check_affinity reads back (line 32) and compares.                  *)
PrintParses ==
    text = <<>> => LET p == BitmapParse(Printed(x)) IN p.rc = "ok" /\ Bits(p.mask) = Bits(x)

(* The parts of the comment in front of __bitmap_parse (lines 272-277):    *)
(* a body of digits and commas, with white space around it, up to the end  *)
(* of the string.                                                          *)
Body ==
    LET ends  == {i \in DOMAIN text : text[i] = Nul}
        until == IF ends = {} THEN Len(text) ELSE (CHOOSE i \in ends : \A j \in ends : i <= j) - 1
        marks == {i \in 1..until : text[i] # Space}
    IN  IF marks = {} THEN <<>>
        ELSE SubSeq(text, CHOOSE i \in marks : \A j \in marks : i <= j,
                          CHOOSE i \in marks : \A j \in marks : i >= j)

Embedded == Space \in ToSet(Body)

(* "illegal characters and grouping errors such as ..." *)
Illegal ==
    \/ Body = <<>> \/ Junk \in ToSet(Body)
    \/ Body # <<>> /\ Body[1] = Comma
    \/ \E i \in 1..(Len(Body) - 1) : Body[i] = Comma /\ Body[i + 1] = Comma

(* "Each chunk defines exactly 32 bits": where the bits of the digits go,  *)
(* by the commas behind them and the digits between.                       *)
Placed ==
    LET Commas(i) == {j \in (i + 1)..Len(Body) : Body[j] = Comma}
        InChunk(i) == IF Commas(i) = {} THEN Len(Body) - i
                      ELSE (CHOOSE j \in Commas(i) : \A k \in Commas(i) : j <= k) - i - 1
    IN  UNION {{[chunk |-> Cardinality(Commas(i)), bit |-> D * InChunk(i) + b] : b \in Body[i].bits}
                   : i \in DOMAIN Body}

Value   == {CHUNK * p.chunk + p.bit : p \in Placed}
TooLong == (\E p \in Placed : p.bit >= CHUNK) \/ (\E v \in Value : v >= NB)

(* A text is read as the comment says, or refused; a comma at the end, of  *)
(* which the comment does not speak, is left open, and so is an embedded   *)
(* space.                                                                  *)
ParseMeetsContract ==
    text # <<>> /\ ~Embedded /\ (Body # <<>> => Body[Len(Body)] # Comma) =>
        LET p == BitmapParse(text)
        IN  IF Illegal THEN p.rc \in {"EINVAL", "EOVERFLOW"}
            ELSE IF TooLong THEN p.rc = "EOVERFLOW"
            ELSE p.rc = "ok" /\ Bits(p.mask) = Value
-----------------------------------------------------------------------------
(* Statements of comments that the code does not keep.                     *)

(* "Leading and trailing whitespace accepted, but not embedded whitespace" *)
(* (bitmap.c, line 277): 0 is returned, and a part of the mask.            *)
EmbeddedRefused == text # <<>> /\ Embedded => BitmapParse(text).rc # "ok"

(* "Exactly nmaskbits bits are displayed" (bitmap.c, line 229).            *)
AllBitsPrinted ==
    text = <<>> => Cardinality({i \in DOMAIN Printed(x) : Printed(x)[i] # Comma}) * D >= NB
=============================================================================
