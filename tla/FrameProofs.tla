----------------------------- MODULE FrameProofs -----------------------------
(***************************************************************************)
(* Proofs about the frame pool and the ownership of frames, for an arena   *)
(* and frames of every size and any number of Task objects and awaiters.   *)
(***************************************************************************)
EXTENDS Task, FiniteSetTheorems, TLAPS

-----------------------------------------------------------------------------
(* Rounding up.                                                            *)

LEMMA Euclid ==
  ASSUME NEW v \in Nat, NEW a \in Nat \ {0}
  PROVE  \E q \in Nat : v = (q * a) + (v % a) /\ v % a \in 0..(a - 1)
<1> DEFINE q == v \div a
           r == v % a
<1>1. q \in Nat /\ r \in 0..(a - 1) /\ r = v - (a * q)
  OBVIOUS
<1> HIDE DEF q, r
<1>2. v = (q * a) + r
  BY <1>1
<1> QED
  BY <1>1, <1>2 DEF r

LEMMA Multiple ==
  ASSUME NEW q \in Nat, NEW a \in Nat \ {0}, NEW v \in Nat
  PROVE  (q * a) % a = 0 /\ (v % a = 0 => \E k \in Nat : v = k * a)
<1>1. (q * a) % a = 0
  OBVIOUS
<1>2. ASSUME v % a = 0 PROVE \E k \in Nat : v = k * a
  <2>1. PICK k \in Nat : v = (k * a) + (v % a)
    BY Euclid
  <2>2. v = k * a
    BY <1>2, <2>1
  <2> QED
    BY <2>2
<1> QED
  BY <1>1, <1>2

\* Multiples that are apart are apart by a whole period.
LEMMA Apart ==
  ASSUME NEW j \in Nat, NEW k \in Nat, NEW a \in Nat \ {0}, j * a < k * a
  PROVE  (j * a) + a <= k * a
<1>1. j < k
  BY Z3
<1>2. j + 1 <= k
  BY <1>1
<1>3. (j + 1) * a <= k * a
  BY <1>2, Z3
<1> QED
  BY <1>3

\* Sums and differences of multiples.
LEMMA MultipleSum ==
  ASSUME NEW v \in Nat, NEW w \in Nat, NEW a \in Nat \ {0}, v % a = 0, w % a = 0
  PROVE  (v + w) % a = 0 /\ (v <= w => (w - v) % a = 0)
<1>1. PICK j \in Nat : v = j * a
  BY Multiple
<1>2. PICK k \in Nat : w = k * a
  BY Multiple
<1>3. v + w = (j + k) * a
  BY <1>1, <1>2
<1>4. ASSUME v <= w PROVE (w - v) % a = 0
  <2>1. j <= k
    <3>1. CASE k < j
      <4>1. (k * a) + a <= j * a
        <5>1. k + 1 <= j
          BY <3>1
        <5>2. (k + 1) * a <= j * a
          BY <5>1, Z3
        <5> QED
          BY <5>2
      <4> QED
        BY <1>1, <1>2, <1>4, <4>1
    <3> QED
      BY <3>1
  <2>2. w - v = (k - j) * a /\ k - j \in Nat
    BY <1>1, <1>2, <2>1
  <2> QED
    BY <2>2, Multiple
<1>5. (v + w) % a = 0
  <2> DEFINE n == j + k
  <2>1. n \in Nat /\ v + w = n * a
    BY <1>3
  <2> HIDE DEF n
  <2>2. (n * a) % a = 0
    BY <2>1, Multiple
  <2> QED
    BY <2>1, <2>2
<1> QED
  BY <1>4, <1>5

\* round_up() yields the least multiple of a that is not below v.
LEMMA RoundUp ==
  ASSUME NEW v \in Nat, NEW a \in Nat \ {0}
  PROVE  /\ round_up(v, a) \in Nat /\ v <= round_up(v, a) /\ round_up(v, a) % a = 0
         /\ \A w \in Nat : v <= w /\ w % a = 0 => round_up(v, a) <= w
<1> DEFINE r == v % a
           u == round_up(v, a)
<1>1. PICK q \in Nat : v = (q * a) + r /\ r \in 0..(a - 1)
  BY Euclid
<1>2. u = v + ((a - r) % a)
  BY DEF round_up
<1> HIDE DEF r, u
<1>3. CASE r = 0
  <2>1. (a - r) % a = 0
    BY <1>3
  <2>2. u = v /\ v = q * a
    BY <1>1, <1>2, <1>3, <2>1
  <2>3. u % a = 0
    BY <2>2, Multiple
  <2> QED
    BY <2>2, <2>3 DEF u
<1>4. CASE r # 0
  <2>1. (a - r) % a = a - r
    BY <1>1, <1>4
  <2>2. u = (q + 1) * a /\ u = (q * a) + a /\ q * a < v /\ v < u /\ q * a \in Nat
    BY <1>1, <1>2, <1>4, <2>1
  <2>3. ASSUME NEW w \in Nat, v <= w, w % a = 0 PROVE u <= w
    <3>1. PICK k \in Nat : w = k * a
      BY <2>3, Multiple
    <3>2. q * a < k * a
      BY <2>2, <2>3, <3>1
    <3> QED
      BY <2>2, <3>1, <3>2, Apart
  <2>4. u % a = 0
    BY <2>2, Multiple
  <2> QED
    BY <2>2, <2>3, <2>4 DEF u
<1> QED
  BY <1>1, <1>3, <1>4

\* A nonempty set of naturals has a least element.
LEMMA Least ==
  ASSUME NEW T \in SUBSET Nat, T # {}
  PROVE  \E x \in T : \A y \in T : x <= y
<1> DEFINE R == OpToRel(<, Nat)
<1>1. IsWellFoundedOn(R, Nat)
  BY NatLessThanWellFounded
<1>2. \A x, y \in Nat : y < x => <<y, x>> \in R
  BY DEF OpToRel
<1> HIDE DEF R
<1>3. PICK x \in T : \A y \in T : ~(<<y, x>> \in R)
  BY <1>1, WFMin
<1>4. ASSUME NEW y \in T PROVE x <= y
  <2>1. x \in Nat /\ y \in Nat
    OBVIOUS
  <2>2. ~(y < x)
    BY <1>2, <1>3, <2>1
  <2> QED
    BY <2>1, <2>2
<1> QED
  BY <1>4

-----------------------------------------------------------------------------
(* The arena.                                                              *)

Block == [size : Nat, payloadOffset : Nat, allocated : BOOLEAN]

\* The offset behind the block at o.
End(b, o) == o + b[o].size

\* The blocks tile the arena, said so that every step can keep it: a block is
\* followed by a block or by the end of the arena and every byte lies in a block.
\* Free blocks carry no more than their size.
Shape(b) ==
  /\ b \in [DOMAIN b -> Block] /\ DOMAIN b \subseteq Offsets /\ 0 \in DOMAIN b
  /\ \A o \in DOMAIN b :
       /\ o % kAlign = 0 /\ b[o].size > 0
       /\ End(b, o) \in DOMAIN b \union {kUsable}
       /\ \A k \in DOMAIN b : k > o => End(b, o) <= k
       /\ b[o].allocated => kHeader <= b[o].payloadOffset /\ b[o].payloadOffset <= b[o].size
       /\ ~b[o].allocated => b[o] = FreeBlock(b[o].size)
  /\ \A x \in Offsets : \E o \in DOMAIN b : o <= x /\ x < End(b, o)

\* No free block follows a free block.
Coalesced(b) ==
  \A o \in DOMAIN b :
    ~b[o].allocated /\ End(b, o) \in DOMAIN b => b[End(b, o)].allocated

LEMMA PoolConstants ==
  /\ kAlign \in Nat \ {0} /\ kHeader \in Nat \ {0} /\ Base \in Nat
  /\ kUsable \in Nat \ {0} /\ kUsable % kAlign = 0
<1>1. /\ kAlign \in Nat \ {0} /\ kHeader \in Nat \ {0} /\ Base \in Nat /\ Bytes \in Nat
      /\ Bytes >= kHeader + kAlign
  BY PoolAssumption
<1> DEFINE r == Bytes % kAlign
<1>2. PICK q \in Nat : Bytes = (q * kAlign) + r /\ r \in 0..(kAlign - 1)
  BY <1>1, Euclid
<1>3. kUsable = Bytes - r
  BY DEF kUsable
<1> HIDE DEF r
<1>4. kUsable = q * kAlign /\ kUsable \in Nat \ {0}
  BY <1>1, <1>2, <1>3
<1>5. (q * kAlign) % kAlign = 0
  BY <1>1, Multiple
<1> QED
  BY <1>1, <1>4, <1>5

\* Where a block starts and ends.
LEMMA BlockBounds ==
  ASSUME NEW b, Shape(b), NEW o \in DOMAIN b
  PROVE  /\ o \in Nat /\ o < kUsable /\ b[o] \in Block
         /\ b[o].size \in Nat \ {0} /\ b[o].payloadOffset \in Nat /\ b[o].allocated \in BOOLEAN
         /\ End(b, o) \in Nat /\ o < End(b, o) /\ End(b, o) <= kUsable
         /\ b[o].size % kAlign = 0 /\ End(b, o) % kAlign = 0 /\ o % kAlign = 0
<1>1. o \in Offsets /\ b[o] \in Block /\ b[o].size > 0
  BY DEF Shape
<1>2. o \in Nat /\ o < kUsable /\ b[o].size \in Nat \ {0} /\ b[o].payloadOffset \in Nat
  BY <1>1, PoolConstants DEF Offsets, Block
<1>3. b[o].allocated \in BOOLEAN
  BY <1>1, Zenon DEF Block
<1>4. End(b, o) \in Nat /\ o < End(b, o) /\ b[o].size = End(b, o) - o
  BY <1>2 DEF End
<1>5. End(b, o) \in DOMAIN b \union {kUsable} /\ o % kAlign = 0
  BY DEF Shape
<1>6. End(b, o) <= kUsable /\ End(b, o) % kAlign = 0
  BY <1>5, PoolConstants DEF Shape, Offsets
<1>7. b[o].size % kAlign = 0
  BY <1>2, <1>4, <1>5, <1>6, PoolConstants, MultipleSum
<1> QED
  BY <1>1, <1>2, <1>3, <1>4, <1>5, <1>6, <1>7

\* Every block but the first follows a block.
LEMMA BlockBefore ==
  ASSUME NEW b, Shape(b), NEW o \in DOMAIN b, o # 0
  PROVE  \E q \in DOMAIN b : q < o /\ End(b, q) = o
<1>1. o \in Nat /\ o < kUsable
  BY BlockBounds
<1>2. o - 1 \in Offsets
  BY <1>1, PoolConstants DEF Offsets
<1>3. PICK q \in DOMAIN b : q <= o - 1 /\ o - 1 < End(b, q)
  BY <1>2 DEF Shape
<1>4. q \in Nat /\ End(b, q) \in Nat
  BY BlockBounds
<1>5. End(b, q) <= o
  BY <1>1, <1>3, <1>4 DEF Shape
<1> QED
  BY <1>1, <1>3, <1>4, <1>5

\* Blocks that end at the same offset are the same.
LEMMA BlockUnique ==
  ASSUME NEW b, Shape(b), NEW o \in DOMAIN b, NEW q \in DOMAIN b, End(b, o) = End(b, q)
  PROVE  o = q
<1>1. /\ o \in Nat /\ q \in Nat /\ End(b, o) \in Nat /\ o < End(b, o)
      /\ End(b, q) \in Nat /\ q < End(b, q)
  BY BlockBounds
<1>2. (q > o => End(b, o) <= q) /\ (o > q => End(b, q) <= o)
  BY DEF Shape
<1> QED
  BY <1>1, <1>2

LEMMA MinIs ==
  ASSUME NEW S \in SUBSET Nat, NEW m \in S, \A k \in S : m <= k
  PROVE  Min(S) = m
<1>1. \A x \in S : (\A y \in S : x <= y) => x = m
  OBVIOUS
<1>2. \E x \in S : \A y \in S : x <= y
  OBVIOUS
<1>3. Min(S) \in S /\ \A y \in S : Min(S) <= y
  BY <1>2 DEF Min
<1> QED
  BY <1>1, <1>3

\* The next header behind the block at o is where the block ends.
LEMMA NextHeader ==
  ASSUME NEW b, Shape(b), NEW o \in DOMAIN b
  PROVE  Min({k \in DOMAIN b \union {kUsable} : k > o}) = End(b, o)
<1> DEFINE S == {k \in DOMAIN b \union {kUsable} : k > o}
<1>1. o \in Nat /\ End(b, o) \in Nat /\ o < End(b, o) /\ End(b, o) <= kUsable
  BY BlockBounds
<1>2. DOMAIN b \subseteq Nat /\ kUsable \in Nat
  BY PoolConstants DEF Shape, Offsets
<1>3. S \in SUBSET Nat
  BY <1>2
<1>4. End(b, o) \in S
  BY <1>1 DEF Shape
<1>5. \A k \in S : End(b, o) <= k
  BY <1>1 DEF Shape
<1> HIDE DEF S
<1>6. Min(S) = End(b, o)
  BY <1>3, <1>4, <1>5, MinIs
<1> QED
  BY <1>6 DEF S

LEMMA ShapeTiles ==
  ASSUME NEW b, Shape(b)
  PROVE  Tiles(b)
<1>1. \A o \in DOMAIN b : o + b[o].size = Min({k \in DOMAIN b \union {kUsable} : k > o})
  BY NextHeader DEF End
<1> QED
  BY <1>1 DEF Tiles, Shape

-----------------------------------------------------------------------------
(* allocate().                                                             *)

\* The payload is aligned, and a later header never has an earlier payload.
LEMMA PayloadPlace ==
  ASSUME NEW off \in Nat, NEW align \in Nat
  PROVE  /\ PayloadOffset(off, align) \in Nat /\ kHeader <= PayloadOffset(off, align)
         /\ (Base + (off + PayloadOffset(off, align))) % Effective(align) = 0
         /\ \A h \in Nat : off <= h =>
              off + PayloadOffset(off, align) <= h + PayloadOffset(h, align)
<1> DEFINE a == Effective(align)
           Addr(h) == Base + h + kHeader
<1>1. a \in Nat \ {0} /\ kHeader \in Nat /\ Base \in Nat
  BY PoolConstants DEF Effective
<1> HIDE DEF a
<1>2. ASSUME NEW h \in Nat
      PROVE  /\ Addr(h) \in Nat /\ round_up(Addr(h), a) \in Nat
             /\ Addr(h) <= round_up(Addr(h), a) /\ round_up(Addr(h), a) % a = 0
             /\ \A w \in Nat : Addr(h) <= w /\ w % a = 0 => round_up(Addr(h), a) <= w
             /\ PayloadOffset(h, align) = kHeader + (round_up(Addr(h), a) - Addr(h))
  <2> DEFINE x == Addr(h)
  <2>1. x \in Nat
    BY <1>1
  <2>2. PayloadOffset(h, align) = kHeader + align_padding(x, a)
    BY DEF PayloadOffset, a
  <2> HIDE DEF x
  <2>3. /\ round_up(x, a) \in Nat /\ x <= round_up(x, a) /\ round_up(x, a) % a = 0
        /\ \A w \in Nat : x <= w /\ w % a = 0 => round_up(x, a) <= w
    BY <1>1, <2>1, RoundUp
  <2> DEFINE p == align_padding(x, a)
  <2>4. round_up(x, a) = x + p
    BY DEF round_up, align_padding
  <2>5. p \in Int
    BY <1>1, <2>1 DEF align_padding
  <2> HIDE DEF p
  <2>6. p = round_up(x, a) - x
    BY <2>1, <2>3, <2>4, <2>5
  <2>7. PayloadOffset(h, align) = kHeader + (round_up(x, a) - x)
    BY <2>2, <2>6 DEF p
  <2> QED
    BY <2>1, <2>3, <2>7 DEF x
<1> DEFINE r(h) == round_up(Addr(h), a)
<1>3. ASSUME NEW h \in Nat
      PROVE  /\ r(h) \in Nat /\ Base + h + kHeader <= r(h) /\ r(h) % a = 0
             /\ PayloadOffset(h, align) \in Nat /\ kHeader <= PayloadOffset(h, align)
             /\ Base + (h + PayloadOffset(h, align)) = r(h)
             /\ \A w \in Nat : Base + h + kHeader <= w /\ w % a = 0 => r(h) <= w
  <2> DEFINE x == round_up(Addr(h), a)
  <2>1. /\ x \in Nat /\ Base + h + kHeader <= x /\ x % a = 0
        /\ \A w \in Nat : Base + h + kHeader <= w /\ w % a = 0 => x <= w
        /\ PayloadOffset(h, align) = kHeader + (x - (Base + h + kHeader))
    BY <1>2
  <2> HIDE DEF x
  <2>2. /\ PayloadOffset(h, align) \in Nat /\ kHeader <= PayloadOffset(h, align)
        /\ Base + (h + PayloadOffset(h, align)) = x
    BY <1>1, <2>1
  <2> QED
    BY <2>1, <2>2 DEF x
<1> HIDE DEF r
<1>4. ASSUME NEW h \in Nat, off <= h
      PROVE  off + PayloadOffset(off, align) <= h + PayloadOffset(h, align)
  <2>1. Base + off + kHeader <= r(h)
    BY <1>1, <1>3, <1>4
  <2>2. r(off) <= r(h)
    BY <1>3, <2>1
  <2> QED
    BY <1>1, <1>3, <2>2
<1> QED
  BY <1>3, <1>4 DEF a

\* The block at off is taken up to e, and what is behind e becomes a free block.
Carved(b, off, e, c) ==
  /\ e \in Nat /\ off < e /\ e <= End(b, off) /\ e % kAlign = 0
  /\ c \in [DOMAIN b \union (IF e < End(b, off) THEN {e} ELSE {}) -> Block]
  /\ c[off].size = e - off /\ c[off].allocated
  /\ kHeader <= c[off].payloadOffset /\ c[off].payloadOffset <= e - off
  /\ e < End(b, off) => c[e] = FreeBlock(End(b, off) - e)
  /\ \A o \in DOMAIN b \ {off} : c[o] = b[o]

LEMMA CarveIs ==
  ASSUME NEW b, Shape(b), NEW off \in DOMAIN b, NEW size \in Nat, NEW align \in Nat,
         FitsAt(b, off, size, align), NEW c, c = Carve(b, off, size, align)
  PROVE  \E e \in Nat : /\ Carved(b, off, e, c)
                        /\ c[off].payloadOffset = PayloadOffset(off, align)
                        /\ c[off].payloadOffset + size <= e - off
<1> DEFINE p == PayloadOffset(off, align)
           n == round_up(p + size, kAlign)
           z == b[off].size
           split == z - n >= kHeader + kAlign
           D == DOMAIN b \union (IF split THEN {off + n} ELSE {})
<1>1. /\ off \in Nat /\ z \in Nat \ {0} /\ z % kAlign = 0 /\ off % kAlign = 0
      /\ End(b, off) = off + z /\ End(b, off) % kAlign = 0
      /\ \A o \in DOMAIN b : b[o] \in Block /\ o \in Nat
  BY BlockBounds DEF End
<1>2. p \in Nat /\ kHeader <= p
  BY <1>1, PayloadPlace
<1>3. p <= z /\ size <= z - p
  BY DEF FitsAt
<1>4. kAlign \in Nat \ {0} /\ kHeader \in Nat \ {0}
  BY PoolConstants
<1>5. c = [o \in D |->
            IF o = off
            THEN [size |-> IF split THEN n ELSE z, payloadOffset |-> p, allocated |-> TRUE]
            ELSE IF o \in DOMAIN b THEN b[o] ELSE FreeBlock(z - n)]
  BY DEF Carve
<1> HIDE DEF p, z
<1> DEFINE u == p + size
<1>6. u \in Nat /\ u <= z /\ n = round_up(u, kAlign)
  BY <1>1, <1>2, <1>3
<1> HIDE DEF u, n
<1>7. n \in Nat /\ u <= n /\ n % kAlign = 0 /\ n <= z
  BY <1>1, <1>4, <1>6, RoundUp
<1>8. p + size <= n /\ p <= n /\ n > 0
  BY <1>2, <1>4, <1>7 DEF u
<1> DEFINE e == IF split THEN off + n ELSE off + z
<1>9. /\ e \in Nat /\ off < e /\ e <= End(b, off) /\ p + size <= e - off /\ p <= e - off
      /\ (split <=> e < End(b, off)) /\ (split => e = off + n)
      /\ e - off = IF split THEN n ELSE z
  BY <1>1, <1>2, <1>4, <1>7, <1>8
<1>10. e % kAlign = 0
  <2>1. (off + n) % kAlign = 0
    BY <1>1, <1>4, <1>7, MultipleSum
  <2> QED
    BY <1>1, <2>1
<1>11. split => e \notin DOMAIN b
  BY <1>1, <1>9 DEF Shape
<1>12. off \in D /\ (split => e \in D)
  BY <1>9
<1>13. z - n \in Nat
  BY <1>1, <1>7
<1>14. D = DOMAIN b \union (IF e < End(b, off) THEN {e} ELSE {})
  BY <1>9
<1> HIDE DEF split, e
<1>15. c[off] = [size |-> e - off, payloadOffset |-> p, allocated |-> TRUE]
  BY <1>5, <1>9, <1>12
<1>16. \A o \in DOMAIN b \ {off} : c[o] = b[o]
  BY <1>5
<1>17. split => c[e] = FreeBlock(z - n)
  BY <1>5, <1>9, <1>11, <1>12
<1>18. ASSUME NEW o \in D PROVE c[o] \in Block
  <2>1. CASE o = off
    <3>1. e - off \in Nat
      BY <1>1, <1>9
    <3>2. [size |-> e - off, payloadOffset |-> p, allocated |-> TRUE] \in Block
      BY <1>2, <3>1 DEF Block
    <3> QED
      BY <1>15, <2>1, <3>2
  <2>2. CASE o # off /\ o \in DOMAIN b
    BY <1>1, <1>16, <2>2
  <2>3. CASE o \notin DOMAIN b
    <3>1. split /\ o = e
      BY <1>9, <2>3
    <3>2. FreeBlock(z - n) \in Block
      BY <1>4, <1>13 DEF FreeBlock, Block
    <3> QED
      BY <1>17, <3>1, <3>2
  <2> QED
    BY <2>1, <2>2, <2>3
<1>19. c \in [D -> Block]
  BY <1>5, <1>18
<1>20. split => End(b, off) - e = z - n
  BY <1>1, <1>7, <1>9
<1>21. Carved(b, off, e, c)
  <2>1. c[off].size = e - off /\ c[off].allocated /\ c[off].payloadOffset = p
    BY <1>15
  <2> QED
    BY <1>2, <1>9, <1>10, <1>14, <1>16, <1>17, <1>19, <1>20, <2>1 DEF Carved
<1>22. c[off].payloadOffset = p
  BY <1>15
<1> QED
  BY <1>9, <1>21, <1>22 DEF p

LEMMA CarvedShape ==
  ASSUME NEW b, Shape(b), Coalesced(b), NEW off \in DOMAIN b, ~b[off].allocated,
         NEW e, NEW c, Carved(b, off, e, c)
  PROVE  Shape(c) /\ Coalesced(c)
<1> DEFINE D == DOMAIN b
           E == End(b, off)
           F == DOMAIN c
<1>1. /\ \A o \in D : /\ o \in Nat /\ o < kUsable /\ End(b, o) \in Nat /\ o < End(b, o)
                      /\ End(b, o) <= kUsable /\ o % kAlign = 0
      /\ kUsable \in Nat \ {0} /\ kHeader \in Nat \ {0}
  BY BlockBounds, PoolConstants
<1>2. /\ 0 \in D /\ \A o \in D : End(b, o) \in D \union {kUsable}
      /\ \A o \in D, k \in D : k > o => End(b, o) <= k
      /\ \A x \in Offsets : \E o \in D : o <= x /\ x < End(b, o)
  BY DEF Shape
<1>3. /\ e \in Nat /\ off < e /\ e <= E /\ e % kAlign = 0 /\ F = D \union (IF e < E THEN {e} ELSE {})
      /\ c \in [F -> Block] /\ E \in Nat /\ E <= kUsable
  BY <1>1 DEF Carved
<1>4. /\ c[off].size = e - off /\ c[off].allocated
      /\ kHeader <= c[off].payloadOffset /\ c[off].payloadOffset <= e - off
      /\ e < E => c[e] = FreeBlock(E - e)
      /\ \A o \in D \ {off} : c[o] = b[o]
  BY DEF Carved
<1>5. e < E => e \notin D
  BY <1>1, <1>2, <1>3
<1>6. End(c, off) = e
  BY <1>1, <1>3, <1>4 DEF End
<1>7. e < E => End(c, e) = E /\ c[e].size > 0 /\ ~c[e].allocated /\ c[e] = FreeBlock(c[e].size)
  BY <1>3, <1>4 DEF End, FreeBlock
<1>8. \A o \in D \ {off} : End(c, o) = End(b, o)
  BY <1>4 DEF End
<1>9. F \subseteq Offsets /\ 0 \in F
  BY <1>1, <1>2, <1>3 DEF Offsets
<1> HIDE DEF D, E, F
<1>10. off \in D
  BY DEF D
<1>11. ASSUME NEW o \in F
       PROVE  /\ o % kAlign = 0 /\ c[o].size > 0
              /\ End(c, o) \in F \union {kUsable}
              /\ \A k \in F : k > o => End(c, o) <= k
              /\ c[o].allocated =>
                   kHeader <= c[o].payloadOffset /\ c[o].payloadOffset <= c[o].size
              /\ ~c[o].allocated => c[o] = FreeBlock(c[o].size)
  <2>1. CASE o = off
    <3>1. End(c, o) \in F \union {kUsable}
      BY <1>2, <1>3, <1>6, <1>10, <2>1 DEF E
    <3>2. \A k \in F : k > o => End(c, o) <= k
      BY <1>1, <1>2, <1>3, <1>6, <1>10, <2>1 DEF E
    <3>3. c[o].size > 0
      BY <1>1, <1>3, <1>4, <1>10, <2>1
    <3> QED
      BY <1>1, <1>4, <1>10, <2>1, <3>1, <3>2, <3>3
  <2>2. CASE o \in D \ {off}
    <3>1. \A k \in F : k > o => End(c, o) <= k
      <4>1. ASSUME NEW k \in F, k > o PROVE End(b, o) <= k
        <5>1. CASE k \in D
          BY <1>2, <2>2, <4>1, <5>1
        <5>2. CASE k = e /\ e < E
          <6>1. o < off
            BY <1>1, <1>2, <1>3, <1>10, <2>2, <4>1, <5>2 DEF E
          <6>2. End(b, o) <= off
            BY <1>2, <1>10, <2>2, <6>1
          <6> QED
            BY <1>1, <1>3, <1>10, <2>2, <5>2, <6>2
        <5> QED
          BY <1>3, <4>1, <5>1, <5>2
      <4> QED
        BY <1>8, <2>2, <4>1
    <3>2. End(c, o) \in F \union {kUsable}
      BY <1>2, <1>3, <1>8, <2>2
    <3>3. c[o] = b[o]
      BY <1>4, <2>2
    <3>4. /\ b[o].size > 0
          /\ b[o].allocated => kHeader <= b[o].payloadOffset /\ b[o].payloadOffset <= b[o].size
          /\ ~b[o].allocated => b[o] = FreeBlock(b[o].size)
      BY <2>2 DEF Shape, D
    <3> QED
      BY <1>1, <2>2, <3>1, <3>2, <3>3, <3>4
  <2>3. CASE o = e /\ e < E
    <3>1. \A k \in F : k > e => E <= k
      BY <1>1, <1>2, <1>3, <1>10 DEF E
    <3>2. E \in F \union {kUsable}
      BY <1>2, <1>3, <1>10 DEF E
    <3> QED
      BY <1>3, <1>7, <2>3, <3>1, <3>2
  <2> QED
    BY <1>3, <2>1, <2>2, <2>3
<1>12. ASSUME NEW x \in Offsets PROVE \E o \in F : o <= x /\ x < End(c, o)
  <2>1. PICK o \in D : o <= x /\ x < End(b, o)
    BY <1>2
  <2>2. x \in Nat
    BY <1>1 DEF Offsets
  <2>3. CASE o # off
    BY <1>3, <1>8, <2>1, <2>3
  <2>4. CASE o = off /\ x < e
    BY <1>3, <1>6, <2>1, <2>4
  <2>5. CASE o = off /\ ~(x < e)
    <3>1. e <= x /\ x < E /\ e < E
      BY <1>3, <2>1, <2>2, <2>5 DEF E
    <3> QED
      BY <1>3, <1>7, <3>1
  <2> QED
    BY <2>3, <2>4, <2>5
<1>13. Shape(c)
  BY <1>3, <1>9, <1>11, <1>12 DEF Shape, F
<1>14. ASSUME NEW o \in F, ~c[o].allocated, End(c, o) \in F PROVE c[End(c, o)].allocated
  <2>1. o # off
    BY <1>4, <1>14
  <2>2. \A q \in D : ~b[q].allocated /\ End(b, q) \in D => b[End(b, q)].allocated
    BY DEF Coalesced, D
  <2>3. CASE o \in D
    <3>1. ~b[o].allocated /\ End(c, o) = End(b, o)
      BY <1>4, <1>8, <1>14, <2>1, <2>3
    <3>2. End(b, o) \in D
      <4>1. CASE End(b, o) = e /\ e < E
        <5>1. e \in D \union {kUsable} /\ e # kUsable
          BY <1>2, <1>3, <2>3, <4>1
        <5> QED
          BY <1>5, <4>1, <5>1 DEF D, E
      <4> QED
        BY <1>3, <1>14, <3>1, <4>1
    <3>3. b[End(b, o)].allocated
      BY <2>2, <2>3, <3>1, <3>2
    <3> QED
      BY <1>4, <3>1, <3>2, <3>3
  <2>4. CASE o = e /\ e < E
    <3>1. End(c, o) = E /\ E \in D
      BY <1>3, <1>7, <1>14, <2>4
    <3>2. b[E].allocated
      BY <1>10, <2>2, <3>1 DEF E
    <3>3. E # off
      BY <1>1, <1>10 DEF E
    <3> QED
      BY <1>4, <3>1, <3>2, <3>3
  <2> QED
    BY <1>3, <2>3, <2>4
<1> QED
  BY <1>13, <1>14 DEF Coalesced, F

\* Payloads of different blocks differ.
LEMMA PayloadBounds ==
  ASSUME NEW b, Shape(b), NEW o \in DOMAIN b, b[o].allocated
  PROVE  Payload(b, o) \in Nat /\ o < Payload(b, o) /\ Payload(b, o) <= End(b, o)
         /\ Payload(b, o) \in Pointers
<1>1. o \in Nat /\ b[o].size \in Nat /\ b[o].payloadOffset \in Nat /\ kHeader \in Nat \ {0}
      /\ o + b[o].size <= kUsable /\ kUsable \in Nat
  BY BlockBounds, PoolConstants DEF End
<1>2. kHeader <= b[o].payloadOffset /\ b[o].payloadOffset <= b[o].size
  BY DEF Shape
<1> QED
  BY <1>1, <1>2 DEF Payload, End, Pointers

LEMMA PayloadUnique ==
  ASSUME NEW b, Shape(b), NEW o \in DOMAIN b, b[o].allocated,
         NEW q \in DOMAIN b, b[q].allocated, Payload(b, o) = Payload(b, q)
  PROVE  o = q
<1>1. /\ o \in Nat /\ End(b, o) \in Nat /\ q \in Nat /\ End(b, q) \in Nat
      /\ Payload(b, o) \in Nat /\ o < Payload(b, o) /\ Payload(b, o) <= End(b, o)
      /\ Payload(b, q) \in Nat /\ q < Payload(b, q) /\ Payload(b, q) <= End(b, q)
  BY BlockBounds, PayloadBounds
<1>2. (q > o => End(b, o) <= q) /\ (o > q => End(b, q) <= o)
  BY DEF Shape
<1> QED
  BY <1>1, <1>2

\* A byte is used if it lies in an allocated block.
LEMMA UsedIs ==
  ASSUME NEW b, Shape(b)
  PROVE  \A x : x \in UsedBytes(b) <=>
                 \E o \in Allocated(b) : x \in o..(End(b, o) - 1)
<1> DEFINE A == Allocated(b)
           Span(o) == o..(o + b[o].size - 1)
<1>1. UsedBytes(b) = UNION {Span(o) : o \in A}
  BY Zenon DEF UsedBytes
<1> HIDE DEF A, Span
<1>2. \A x : x \in UsedBytes(b) <=> \E o \in A : x \in Span(o)
  BY <1>1, Zenon
<1>3. \A o \in A : o \in Nat /\ b[o].size \in Nat
  BY BlockBounds DEF A, Allocated
<1>4. \A o \in A : Span(o) = o..(End(b, o) - 1)
  BY <1>3 DEF Span, End
<1> QED
  BY <1>2, <1>4, Zenon DEF A

\* A taken block adds its payload to the live pointers and its bytes to the used ones.
LEMMA CarvedAdds ==
  ASSUME NEW b, Shape(b), NEW off \in DOMAIN b, ~b[off].allocated,
         NEW e, NEW c, Carved(b, off, e, c), Shape(c)
  PROVE  /\ LivePointers(c) = LivePointers(b) \union {Payload(c, off)}
         /\ Payload(c, off) \notin LivePointers(b) /\ Payload(c, off) \in Pointers
         /\ UsedBytes(c) = UsedBytes(b) \union (off..(e - 1))
         /\ UsedBytes(b) \cap (off..(e - 1)) = {}
<1> DEFINE D == DOMAIN b
           A == Allocated(b)
           C == Allocated(c)
<1>1. /\ e \in Nat /\ off < e /\ e <= End(b, off)
      /\ DOMAIN c = D \union (IF e < End(b, off) THEN {e} ELSE {})
      /\ c[off].size = e - off /\ c[off].allocated
      /\ e < End(b, off) => c[e] = FreeBlock(End(b, off) - e)
      /\ \A o \in D \ {off} : c[o] = b[o]
  BY DEF Carved
<1>2. e < End(b, off) => ~c[e].allocated
  BY <1>1 DEF FreeBlock
<1>3. C = A \union {off} /\ off \notin A
  BY <1>1, <1>2 DEF Allocated
<1>4. \A o \in A : c[o] = b[o] /\ c[o].allocated /\ o \in DOMAIN c
  BY <1>1 DEF Allocated
<1>5. \A o \in A : Payload(c, o) = Payload(b, o)
  BY <1>4 DEF Payload
<1>6. LivePointers(b) = {Payload(b, o) : o \in A} /\ LivePointers(c) = {Payload(c, o) : o \in C}
  BY DEF LivePointers
<1>7. off \in DOMAIN c
  BY <1>1
<1> HIDE DEF A, C, D
<1>8. LivePointers(c) = LivePointers(b) \union {Payload(c, off)}
  BY <1>3, <1>5, <1>6
<1>9. Payload(c, off) \notin LivePointers(b)
  BY <1>1, <1>3, <1>4, <1>5, <1>6, <1>7, PayloadUnique
<1>10. Payload(c, off) \in Pointers
  BY <1>1, <1>7, PayloadBounds
<1>11. /\ off \in Nat /\ \A o \in A : o \in Nat /\ End(b, o) \in Nat
       /\ \A o \in A : (o > off => End(b, off) <= o) /\ (off > o => End(b, o) <= off)
       /\ End(b, off) \in Nat
  BY BlockBounds DEF A, Allocated, Shape
<1>12. \A x : x \in UsedBytes(b) <=> \E o \in A : x \in o..(End(b, o) - 1)
  BY UsedIs, Zenon DEF A
<1>13. \A x : x \in UsedBytes(c) <=> \E o \in C : x \in o..(End(c, o) - 1)
  BY UsedIs, Zenon DEF C
<1>14. End(c, off) = e /\ \A o \in A : End(c, o) = End(b, o)
  BY <1>1, <1>4, <1>11 DEF End
<1>15. UsedBytes(c) = UsedBytes(b) \union (off..(e - 1))
  BY <1>3, <1>12, <1>13, <1>14
<1>16. UsedBytes(b) \cap (off..(e - 1)) = {}
  <2> SUFFICES ASSUME NEW o \in A, NEW x \in o..(End(b, o) - 1), x \in off..(e - 1)
               PROVE  FALSE
    BY <1>12
  <2>1. o \in Nat /\ End(b, o) \in Nat /\ o # off
    BY <1>3, <1>11
  <2> QED
    BY <1>1, <1>11, <2>1
<1> QED
  BY <1>8, <1>9, <1>10, <1>15, <1>16

-----------------------------------------------------------------------------
(* deallocate().                                                           *)

\* The free run around the block at off once that is freed: from lo up to hi.
Run(b, off, lo, hi) ==
  /\ lo \in DOMAIN b /\ hi \in DOMAIN b \union {kUsable}
  /\ lo <= off /\ End(b, off) <= hi
  /\ \A o \in DOMAIN b : lo <= o /\ o < hi /\ o # off => ~b[o].allocated
  /\ \A o \in DOMAIN b : End(b, o) = lo => b[o].allocated
  /\ hi \in DOMAIN b => b[hi].allocated

\* The blocks once that run is one free block.
Merged(b, lo, hi) ==
  [o \in {k \in DOMAIN b : k <= lo \/ hi <= k} |->
     IF o = lo THEN FreeBlock(hi - lo) ELSE b[o]]

\* Since no two free blocks were adjacent, at most one on either side joins the run.
LEMMA RunExists ==
  ASSUME NEW b, Shape(b), Coalesced(b), NEW off \in DOMAIN b, b[off].allocated
  PROVE  \E lo, hi : Run(b, off, lo, hi)
<1> DEFINE D == DOMAIN b
           n == End(b, off)
<1>1. /\ \A o \in D : /\ o \in Nat /\ o < kUsable /\ End(b, o) \in Nat /\ o < End(b, o)
                      /\ End(b, o) <= kUsable
      /\ kUsable \in Nat \ {0}
  BY BlockBounds, PoolConstants
<1>2. /\ \A o \in D : End(b, o) \in D \union {kUsable}
      /\ \A o \in D, k \in D : k > o => End(b, o) <= k
  BY DEF Shape
<1>3. \A o \in D : ~b[o].allocated /\ End(b, o) \in D => b[End(b, o)].allocated
  BY DEF Coalesced
<1>4. PICK lo \in D : \/ lo = off /\ \A q \in D : End(b, q) = off => b[q].allocated
                      \/ End(b, lo) = off /\ ~b[lo].allocated
  OBVIOUS
<1>5. PICK hi \in D \union {kUsable} :
        \/ hi = n /\ (n \in D => b[n].allocated)
        \/ n \in D /\ ~b[n].allocated /\ hi = End(b, n)
  BY <1>2
<1>6. n \in Nat /\ off < n /\ off \in Nat /\ n \in D \union {kUsable}
  BY <1>1, <1>2
<1>7. lo <= off /\ n <= hi /\ lo \in Nat /\ hi \in Nat
  BY <1>1, <1>4, <1>5, <1>6
<1>8. ASSUME NEW o \in D, lo <= o, o < hi, o # off PROVE ~b[o].allocated
  <2>1. o \in Nat
    BY <1>1
  <2>2. CASE o < off
    <3>1. lo # off /\ End(b, lo) = off /\ ~b[lo].allocated
      BY <1>4, <1>6, <1>8, <2>1, <2>2
    <3>2. o = lo
      BY <1>1, <1>2, <1>6, <1>8, <2>1, <2>2, <3>1
    <3> QED
      BY <3>1, <3>2
  <2>3. CASE o > off
    <3>1. n <= o
      BY <1>2, <2>3
    <3>2. n \in D /\ ~b[n].allocated /\ hi = End(b, n)
      BY <1>5, <1>6, <1>8, <2>1, <3>1
    <3>3. o = n
      BY <1>1, <1>2, <1>6, <1>8, <2>1, <3>1, <3>2
    <3> QED
      BY <3>2, <3>3
  <2> QED
    BY <1>6, <1>8, <2>1, <2>2, <2>3
<1>9. ASSUME NEW o \in D, End(b, o) = lo PROVE b[o].allocated
  BY <1>3, <1>4, <1>9
<1>10. hi \in D => b[hi].allocated
  BY <1>3, <1>5
<1>11. Run(b, off, lo, hi)
  BY <1>7, <1>8, <1>9, <1>10 DEF Run
<1> QED
  BY <1>11

\* coalesce() keeps the headers outside of the run and merges the run.
LEMMA FreeIs ==
  ASSUME NEW b, Shape(b), Coalesced(b), NEW off \in DOMAIN b, b[off].allocated,
         NEW lo, NEW hi, Run(b, off, lo, hi)
  PROVE  Free(b, off) = Merged(b, lo, hi)
<1> DEFINE D == DOMAIN b
           f == [b EXCEPT ![off] = FreeBlock(b[off].size)]
           K == {k \in D : k <= lo \/ hi <= k}
           Gap(o) == {k \in K \union {kUsable} : k > o}
<1>1. /\ \A o \in D : /\ o \in Nat /\ o < kUsable /\ End(b, o) \in Nat /\ o < End(b, o)
                      /\ End(b, o) <= kUsable
      /\ kUsable \in Nat \ {0}
  BY BlockBounds, PoolConstants
<1>2. /\ \A o \in D : End(b, o) \in D \union {kUsable}
      /\ \A o \in D, k \in D : k > o => End(b, o) <= k
      /\ \A o \in D : ~b[o].allocated => b[o] = FreeBlock(b[o].size)
  BY DEF Shape
<1>3. \A o \in D : ~b[o].allocated /\ End(b, o) \in D => b[End(b, o)].allocated
  BY DEF Coalesced
<1>4. /\ lo \in D /\ hi \in D \union {kUsable} /\ lo <= off /\ End(b, off) <= hi
      /\ \A o \in D : lo <= o /\ o < hi /\ o # off => ~b[o].allocated
      /\ \A o \in D : End(b, o) = lo => b[o].allocated
      /\ hi \in D => b[hi].allocated
  BY DEF Run
<1>5. lo \in Nat /\ hi \in Nat /\ off \in Nat /\ lo < hi /\ off < hi /\ hi <= kUsable
  BY <1>1, <1>4
<1>6. /\ DOMAIN f = D /\ ~f[off].allocated /\ f[off].size = b[off].size
      /\ \A o \in D \ {off} : f[o] = b[o]
  BY DEF FreeBlock, Shape
<1> HIDE DEF f
<1>7. \A o \in D : o + f[o].size = End(b, o)
  BY <1>6 DEF End
<1>8. \A o \in D : ~f[o].allocated <=> (o = off \/ ~b[o].allocated)
  BY <1>6
<1> HIDE DEF D
<1>9. off \in D
  BY DEF D
<1>10. ASSUME NEW k \in D
       PROVE  k \in K <=> ~(~f[k].allocated /\ \E q \in D : ~f[q].allocated /\ End(b, q) = k)
  <2>1. ASSUME k \in K, NEW q \in D, ~f[k].allocated, ~f[q].allocated, End(b, q) = k
        PROVE  FALSE
    <3>1. CASE k = lo
      <4>1. q # off
        BY <1>1, <1>4, <1>5, <2>1, <3>1
      <4> QED
        BY <1>4, <1>8, <2>1, <3>1, <4>1
    <3>2. CASE k < lo
      <4>1. q # off /\ k # off
        BY <1>1, <1>4, <1>5, <2>1, <3>2
      <4> QED
        BY <1>3, <1>8, <2>1, <4>1
    <3>3. CASE hi <= k
      <4>1. k # off
        BY <1>1, <1>5, <3>3
      <4>2. CASE q = off
        BY <1>1, <1>4, <1>5, <1>8, <2>1, <3>3, <4>1, <4>2
      <4> QED
        BY <1>3, <1>8, <2>1, <4>1, <4>2
    <3> QED
      BY <1>1, <1>5, <2>1, <3>1, <3>2, <3>3
  <2>2. ASSUME k \notin K
        PROVE  ~f[k].allocated /\ \E q \in D : ~f[q].allocated /\ End(b, q) = k
    <3>1. lo < k /\ k < hi /\ k \in Nat
      BY <1>1, <1>5, <2>2
    <3>2. k # 0
      BY <1>5, <3>1
    <3>3. PICK q \in D : q < k /\ End(b, q) = k
      BY <3>2, BlockBefore DEF D
    <3>4. q \in Nat /\ lo <= q /\ q < hi
      BY <1>1, <1>2, <1>4, <1>5, <3>1, <3>3
    <3>5. ~f[k].allocated /\ ~f[q].allocated
      BY <1>4, <1>5, <1>8, <3>1, <3>4
    <3> QED
      BY <3>3, <3>5
  <2> QED
    BY <2>1, <2>2
<1>11. Kept(f) = K
  <2>1. \A q, k \in D : q + f[q].size = k <=> End(b, q) = k
    BY <1>7
  <2>2. Kept(f) = {o \in D : ~(~f[o].allocated /\
                               \E q \in D : ~f[q].allocated /\ q + f[q].size = o)}
    BY <1>6, Zenon DEF Kept, IsFreeAt
  <2>3. K \subseteq D
    OBVIOUS
  <2> HIDE DEF K
  <2> QED
    BY <1>10, <2>1, <2>2, <2>3
<1>12. ASSUME NEW o \in K
       PROVE  /\ o = lo => Min(Gap(o)) = hi
              /\ o # lo => Min(Gap(o)) = End(b, o)
  <2>1. \A x \in Nat : Gap(x) \in SUBSET Nat
    BY <1>1
  <2>2. o \in Nat /\ End(b, o) \in Nat /\ o \in D
    BY <1>1
  <2>3. CASE o = lo
    <3>1. hi \in Gap(o) /\ \A k \in Gap(o) : hi <= k
      BY <1>1, <1>4, <1>5, <2>3
    <3> HIDE DEF Gap
    <3> QED
      BY <2>1, <2>2, <2>3, <3>1, MinIs
  <2>4. CASE o # lo
    <3>1. o < lo \/ hi <= o
      BY <1>1, <1>5, <2>4
    <3>2. End(b, o) \in K \union {kUsable}
      <4>1. End(b, o) <= lo \/ hi <= End(b, o)
        BY <1>1, <1>2, <1>4, <1>5, <2>2, <3>1
      <4> QED
        BY <1>2, <2>2, <4>1
    <3>3. End(b, o) \in Gap(o) /\ \A k \in Gap(o) : End(b, o) <= k
      BY <1>1, <1>2, <2>2, <3>2
    <3> HIDE DEF Gap
    <3> QED
      BY <2>1, <2>2, <2>4, <3>3, MinIs
  <2> QED
    BY <2>3, <2>4
<1>13. coalesce(f) = [o \in K |-> IF f[o].allocated THEN f[o] ELSE FreeBlock(Min(Gap(o)) - o)]
  BY <1>11, Zenon DEF coalesce
<1>14. ASSUME NEW o \in K
       PROVE  (IF f[o].allocated THEN f[o] ELSE FreeBlock(Min(Gap(o)) - o))
                = (IF o = lo THEN FreeBlock(hi - lo) ELSE b[o])
  <2> HIDE DEF Gap
  <2>1. o \in D /\ o \in Nat
    BY <1>1
  <2>2. CASE o = lo
    <3>1. ~f[o].allocated
      BY <1>4, <1>5, <1>8, <2>1, <2>2
    <3> QED
      BY <1>12, <2>2, <3>1
  <2>3. CASE o # lo
    <3>1. o # off
      BY <1>4, <1>5, <1>9, <2>1, <2>3
    <3>2. f[o] = b[o]
      BY <1>6, <2>1, <3>1 DEF D
    <3>3. End(b, o) - o = b[o].size
      BY <2>1, BlockBounds DEF End, D
    <3> QED
      BY <1>2, <1>12, <2>1, <2>3, <3>2, <3>3
  <2> QED
    BY <2>2, <2>3
<1>15. coalesce(f) = [o \in K |-> IF o = lo THEN FreeBlock(hi - lo) ELSE b[o]]
  <2> HIDE DEF Gap, K
  <2> QED
    BY <1>13, <1>14, Zenon
<1> QED
  BY <1>15, Zenon DEF Free, Merged, f, K, D

LEMMA MergedShape ==
  ASSUME NEW b, Shape(b), Coalesced(b), NEW off \in DOMAIN b, b[off].allocated,
         NEW lo, NEW hi, Run(b, off, lo, hi), NEW c, c = Merged(b, lo, hi)
  PROVE  /\ Shape(c) /\ Coalesced(c)
         /\ Allocated(c) = Allocated(b) \ {off} /\ \A o \in Allocated(c) : c[o] = b[o]
<1> DEFINE D == DOMAIN b
           K == {k \in D : k <= lo \/ hi <= k}
<1>1. /\ \A o \in D : /\ o \in Nat /\ o < kUsable /\ End(b, o) \in Nat /\ o < End(b, o)
                      /\ End(b, o) <= kUsable /\ b[o] \in Block
      /\ kUsable \in Nat \ {0} /\ kHeader \in Nat \ {0}
  BY BlockBounds, PoolConstants
<1>2. /\ \A o \in D : End(b, o) \in D \union {kUsable}
      /\ \A o \in D, k \in D : k > o => End(b, o) <= k
      /\ \A x \in Offsets : \E o \in D : o <= x /\ x < End(b, o)
      /\ 0 \in D /\ D \subseteq Offsets
  BY DEF Shape
<1>3. \A o \in D : ~b[o].allocated /\ End(b, o) \in D => b[End(b, o)].allocated
  BY DEF Coalesced
<1>4. /\ lo \in D /\ hi \in D \union {kUsable} /\ lo <= off /\ End(b, off) <= hi
      /\ \A o \in D : lo <= o /\ o < hi /\ o # off => ~b[o].allocated
      /\ \A o \in D : End(b, o) = lo => b[o].allocated
      /\ hi \in D => b[hi].allocated
  BY DEF Run
<1>5. lo \in Nat /\ hi \in Nat /\ off \in Nat /\ lo < hi /\ off < hi /\ hi <= kUsable
  BY <1>1, <1>4
<1>6. /\ DOMAIN c = K /\ c = [o \in K |-> c[o]] /\ c[lo] = FreeBlock(hi - lo)
      /\ \A o \in K \ {lo} : c[o] = b[o]
  BY <1>4, <1>5 DEF Merged
<1>7. lo \in K /\ 0 \in K /\ K \subseteq D /\ K \subseteq Offsets
  BY <1>2, <1>4, <1>5
<1>8. \A o \in K \ {lo} : o \in D /\ (o < lo \/ hi <= o) /\ o # off
  BY <1>1, <1>5, <1>4
<1>9. hi - lo \in Nat /\ hi - lo > 0 /\ FreeBlock(hi - lo) \in Block
  <2>1. hi - lo \in Nat /\ hi - lo > 0
    BY <1>5
  <2> DEFINE z == hi - lo
  <2> HIDE DEF z
  <2>2. z \in Nat => FreeBlock(z) \in Block
    BY <1>1 DEF FreeBlock, Block
  <2> QED
    BY <2>1, <2>2 DEF z
<1>10. /\ End(c, lo) = hi /\ ~c[lo].allocated /\ c[lo].size = hi - lo
       /\ \A o \in K \ {lo} : End(c, o) = End(b, o)
  BY <1>5, <1>6, <1>9 DEF End, FreeBlock
<1>11. \A o \in K \ {lo} : End(b, o) \in K \union {kUsable}
  BY <1>1, <1>2, <1>4, <1>5, <1>8
<1>12. hi \in K \union {kUsable}
  BY <1>4, <1>5
<1> HIDE DEF K
<1>13. ASSUME NEW o \in K
       PROVE  /\ o % kAlign = 0 /\ c[o].size > 0
              /\ End(c, o) \in K \union {kUsable}
              /\ \A k \in K : k > o => End(c, o) <= k
              /\ c[o].allocated =>
                   kHeader <= c[o].payloadOffset /\ c[o].payloadOffset <= c[o].size
              /\ ~c[o].allocated => c[o] = FreeBlock(c[o].size)
  <2>1. CASE o = lo
    <3>1. \A k \in K : k > o => hi <= k
      BY <1>1, <1>5, <1>8, <2>1
    <3>2. lo % kAlign = 0
      BY <1>4 DEF Shape
    <3> QED
      BY <1>6, <1>9, <1>10, <1>12, <2>1, <3>1, <3>2
  <2>2. CASE o # lo
    <3>1. /\ o % kAlign = 0 /\ b[o].size > 0
          /\ b[o].allocated => kHeader <= b[o].payloadOffset /\ b[o].payloadOffset <= b[o].size
          /\ ~b[o].allocated => b[o] = FreeBlock(b[o].size)
          /\ \A k \in D : k > o => End(b, o) <= k
      BY <1>7 DEF Shape
    <3>2. c[o] = b[o] /\ End(c, o) = End(b, o) /\ End(b, o) \in K \union {kUsable}
      BY <1>6, <1>10, <1>11, <2>2
    <3> QED
      BY <1>7, <3>1, <3>2
  <2> QED
    BY <2>1, <2>2
<1>14. ASSUME NEW x \in Offsets PROVE \E o \in K : o <= x /\ x < End(c, o)
  <2>1. PICK o \in D : o <= x /\ x < End(b, o)
    BY <1>2
  <2>2. x \in Nat /\ o \in Nat /\ End(b, o) \in Nat
    BY <1>1 DEF Offsets
  <2>3. CASE o \in K \ {lo}
    BY <1>10, <2>1, <2>3
  <2>4. CASE o \notin K \ {lo}
    <3>1. lo <= o /\ o < hi
      BY <1>5, <2>2, <2>4 DEF K
    <3>2. End(b, o) <= hi
      BY <1>1, <1>2, <1>4, <1>5, <2>2, <3>1
    <3>3. lo <= x /\ x < hi
      BY <1>5, <2>1, <2>2, <3>1, <3>2
    <3> QED
      BY <1>7, <1>10, <3>3
  <2> QED
    BY <2>3, <2>4
<1>15. c \in [K -> Block]
  <2>1. \A o \in K : c[o] \in Block
    BY <1>1, <1>6, <1>7, <1>9
  <2> QED
    BY <1>6, <2>1
<1>16. Shape(c)
  BY <1>6, <1>7, <1>13, <1>14, <1>15 DEF Shape
<1>17. ASSUME NEW o \in K, ~c[o].allocated, End(c, o) \in K PROVE c[End(c, o)].allocated
  <2>1. CASE o = lo
    <3>1. hi \in D /\ hi # lo /\ hi \in K
      BY <1>5, <1>7, <1>10, <1>17, <2>1
    <3> QED
      BY <1>4, <1>6, <1>10, <2>1, <3>1
  <2>2. CASE o # lo
    <3>1. o \in D /\ ~b[o].allocated /\ End(c, o) = End(b, o) /\ End(b, o) \in D
      BY <1>6, <1>7, <1>10, <1>17, <2>2
    <3>2. End(b, o) # lo /\ b[End(b, o)].allocated
      BY <1>3, <1>4, <3>1
    <3> QED
      BY <1>6, <1>17, <3>1, <3>2
  <2> QED
    BY <2>1, <2>2
<1>18. Allocated(c) = Allocated(b) \ {off}
  <2>1. ASSUME NEW o \in Allocated(c) PROVE o \in Allocated(b) \ {off}
    <3>1. o \in K /\ c[o].allocated
      BY <1>6 DEF Allocated
    <3>2. o # lo
      BY <1>10, <3>1
    <3> QED
      BY <1>6, <1>8, <3>1, <3>2 DEF Allocated
  <2>2. ASSUME NEW o \in Allocated(b), o # off PROVE o \in Allocated(c)
    <3>1. o \in D /\ b[o].allocated
      BY DEF Allocated
    <3>2. o \in Nat /\ ~(lo <= o /\ o < hi)
      BY <1>1, <1>4, <2>2, <3>1
    <3>3. o \in K /\ o # lo
      BY <1>5, <3>1, <3>2 DEF K
    <3> QED
      BY <1>6, <3>1, <3>3 DEF Allocated
  <2> QED
    BY <2>1, <2>2
<1>19. \A o \in Allocated(c) : c[o] = b[o]
  BY <1>6, <1>10 DEF Allocated
<1> QED
  BY <1>6, <1>16, <1>17, <1>18, <1>19 DEF Coalesced

\* A freed block takes its payload from the live pointers and its bytes from the used.
LEMMA FreeRemoves ==
  ASSUME NEW b, Shape(b), NEW off \in DOMAIN b, b[off].allocated, NEW c, Shape(c),
         Allocated(c) = Allocated(b) \ {off}, \A o \in Allocated(c) : c[o] = b[o]
  PROVE  /\ LivePointers(c) = LivePointers(b) \ {Payload(b, off)}
         /\ Payload(b, off) \in LivePointers(b)
         /\ UsedBytes(c) = UsedBytes(b) \ (off..(End(b, off) - 1))
         /\ off..(End(b, off) - 1) \subseteq UsedBytes(b)
<1> DEFINE A == Allocated(b)
           C == Allocated(c)
<1>1. off \in A /\ C = A \ {off} /\ \A o \in C : Payload(c, o) = Payload(b, o)
  BY DEF Allocated, Payload
<1>2. LivePointers(b) = {Payload(b, o) : o \in A} /\ LivePointers(c) = {Payload(c, o) : o \in C}
  BY DEF LivePointers
<1>3. \A o \in C : Payload(b, o) # Payload(b, off)
  BY PayloadUnique DEF Allocated
<1>4. \A o \in C : End(c, o) = End(b, o)
  BY DEF End
<1>5. \A x : x \in UsedBytes(b) <=> \E o \in A : x \in o..(End(b, o) - 1)
  BY UsedIs, Zenon
<1>6. \A x : x \in UsedBytes(c) <=> \E o \in C : x \in o..(End(c, o) - 1)
  BY UsedIs, Zenon
<1>7. /\ off \in Nat /\ \A o \in A : o \in Nat /\ End(b, o) \in Nat
      /\ \A o \in A : (o > off => End(b, off) <= o) /\ (off > o => End(b, o) <= off)
      /\ End(b, off) \in Nat
  BY BlockBounds DEF Allocated, Shape
<1> HIDE DEF A, C
<1>8. \A o \in C : \A x \in o..(End(b, o) - 1) : x \notin off..(End(b, off) - 1)
  BY <1>1, <1>7
<1>9. UsedBytes(c) = UsedBytes(b) \ (off..(End(b, off) - 1))
  BY <1>1, <1>4, <1>5, <1>6, <1>8
<1>10. off..(End(b, off) - 1) \subseteq UsedBytes(b)
  BY <1>1, <1>5
<1>11. LivePointers(c) = LivePointers(b) \ {Payload(b, off)}
  BY <1>1, <1>2, <1>3
<1> QED
  BY <1>1, <1>2, <1>9, <1>10, <1>11

-----------------------------------------------------------------------------
(* The pool.                                                               *)

PoolInv ==
  /\ Shape(blocks)
  /\ Coalesced(blocks)
  /\ bytesUsed = Cardinality(UsedBytes(blocks))

LEMMA UsedFinite ==
  ASSUME NEW b, Shape(b)
  PROVE  IsFiniteSet(UsedBytes(b)) /\ Cardinality(UsedBytes(b)) \in Nat
<1>1. \A o \in Allocated(b) : o \in Nat /\ End(b, o) \in Nat /\ End(b, o) <= kUsable
  BY BlockBounds DEF Allocated
<1>2. \A x : x \in UsedBytes(b) <=> \E o \in Allocated(b) : x \in o..(End(b, o) - 1)
  BY UsedIs, Zenon
<1>3. UsedBytes(b) \subseteq 0..kUsable
  BY <1>1, <1>2, PoolConstants
<1>4. IsFiniteSet(0..kUsable)
  BY FS_Interval, PoolConstants
<1>5. IsFiniteSet(UsedBytes(b))
  BY <1>3, <1>4, FS_Subset
<1> QED
  BY <1>5, FS_CardinalityType

LEMMA IntervalSize ==
  ASSUME NEW m \in Nat, NEW n \in Nat, m < n
  PROVE  IsFiniteSet(m..(n - 1)) /\ Cardinality(m..(n - 1)) = n - m
<1> DEFINE k == n - 1
<1>1. k \in Int /\ m \in Int /\ ~(m > k) /\ (k - m) + 1 = n - m
  OBVIOUS
<1> HIDE DEF k
<1>2. IsFiniteSet(m..k) /\ Cardinality(m..k) = IF m > k THEN 0 ELSE k - m + 1
  BY <1>1, FS_Interval
<1> QED
  BY <1>1, <1>2 DEF k

\* allocate() refuses, or hands out a pointer that nobody holds.
LEMMA AllocateStep ==
  ASSUME PoolInv, NEW size \in Nat, NEW align \in Nat, NEW p, allocate(p, size, align)
  PROVE  /\ PoolInv'
         /\ \/ p = Null /\ UNCHANGED blocks
            \/ /\ p \in Pointers /\ p \notin LivePointers(blocks)
               /\ LivePointers(blocks') = LivePointers(blocks) \union {p}
<1> USE DEF PoolInv
<1>1. CASE p = Null /\ UNCHANGED poolVars
  <2>1. UNCHANGED blocks /\ UNCHANGED bytesUsed
    BY <1>1 DEF poolVars
  <2> QED
    BY <1>1, <2>1
<1>2. ASSUME NEW off \in DOMAIN blocks, FirstFit(blocks, off, size, align),
             blocks' = Carve(blocks, off, size, align),
             bytesUsed' = bytesUsed + blocks'[off].size, p = Payload(blocks', off)
      PROVE  /\ PoolInv' /\ p \in Pointers /\ p \notin LivePointers(blocks)
             /\ LivePointers(blocks') = LivePointers(blocks) \union {p}
  <2> DEFINE b == blocks
             c == blocks'
  <2>1. FitsAt(b, off, size, align) /\ ~b[off].allocated
    BY <1>2 DEF FirstFit, FitsAt
  <2>2. c = Carve(b, off, size, align)
    BY <1>2
  <2>3. Shape(b) /\ Coalesced(b) /\ off \in DOMAIN b
    BY <1>2
  <2> HIDE DEF b, c
  <2>4. PICK e \in Nat : Carved(b, off, e, c)
    BY <2>1, <2>2, <2>3, CarveIs
  <2>5. Shape(c) /\ Coalesced(c)
    BY <2>1, <2>3, <2>4, CarvedShape
  <2> DEFINE q == Payload(c, off)
             S == UsedBytes(b)
             T == off..(e - 1)
  <2>6. /\ LivePointers(c) = LivePointers(b) \union {q}
        /\ q \notin LivePointers(b) /\ q \in Pointers
        /\ UsedBytes(c) = S \union T /\ S \cap T = {}
    BY <2>1, <2>3, <2>4, <2>5, CarvedAdds
  <2>7. off \in Nat /\ off < e /\ c[off].size = e - off
    BY <2>3, <2>4, BlockBounds DEF Carved
  <2>8. IsFiniteSet(S) /\ Cardinality(S) \in Nat /\ IsFiniteSet(T) /\ Cardinality(T) = e - off
    BY <2>3, <2>7, UsedFinite, IntervalSize
  <2> HIDE DEF q, S, T
  <2>9. Cardinality(S \union T) = Cardinality(S) + Cardinality(T) - Cardinality(S \cap T)
    BY <2>8, FS_Union
  <2>10. Cardinality(S \cap T) = 0
    BY <2>6, FS_EmptySet
  <2>11. Cardinality(UsedBytes(c)) = Cardinality(S) + (e - off)
    <3>1. Cardinality(UsedBytes(c)) = Cardinality(S \union T)
      BY <2>6
    <3> QED
      BY <2>7, <2>8, <2>9, <2>10, <3>1
  <2>12. bytesUsed = Cardinality(S) /\ bytesUsed' = bytesUsed + c[off].size
    BY <1>2 DEF S, b, c
  <2>13. bytesUsed' = Cardinality(UsedBytes(c))
    BY <2>7, <2>11, <2>12
  <2>14. PoolInv'
    BY <2>5, <2>13 DEF c
  <2> QED
    BY <1>2, <2>6, <2>14 DEF b, c, q
<1> QED
  BY <1>1, <1>2 DEF allocate, poolVars

\* deallocate() takes back a live pointer.
LEMMA DeallocateStep ==
  ASSUME PoolInv, NEW p, deallocate(p)
  PROVE  /\ PoolInv' /\ p \in LivePointers(blocks)
         /\ LivePointers(blocks') = LivePointers(blocks) \ {p}
<1> USE DEF PoolInv
<1>1. PICK off \in DOMAIN blocks :
        /\ blocks[off].allocated /\ Payload(blocks, off) = p
        /\ bytesUsed' = bytesUsed - blocks[off].size /\ blocks' = Free(blocks, off)
  BY DEF deallocate
<1> DEFINE b == blocks
           c == blocks'
           S == UsedBytes(b)
           T == off..(End(b, off) - 1)
<1>2. /\ Shape(b) /\ Coalesced(b) /\ off \in DOMAIN b /\ b[off].allocated
      /\ c = Free(b, off) /\ bytesUsed = Cardinality(S)
      /\ bytesUsed' = bytesUsed - b[off].size /\ p = Payload(b, off)
  BY <1>1
<1> HIDE DEF b, c
<1>3. PICK lo, hi : Run(b, off, lo, hi)
  BY <1>2, RunExists
<1>4. c = Merged(b, lo, hi)
  BY <1>2, <1>3, FreeIs
<1>5. /\ Shape(c) /\ Coalesced(c)
      /\ Allocated(c) = Allocated(b) \ {off} /\ \A o \in Allocated(c) : c[o] = b[o]
  BY <1>2, <1>3, <1>4, MergedShape
<1>6. /\ LivePointers(c) = LivePointers(b) \ {p} /\ p \in LivePointers(b)
      /\ UsedBytes(c) = S \ T /\ T \subseteq S
  BY <1>2, <1>5, FreeRemoves
<1>7. off \in Nat /\ End(b, off) \in Nat /\ off < End(b, off) /\ b[off].size \in Nat
      /\ b[off].size = End(b, off) - off
  BY <1>2, BlockBounds DEF End
<1>8. IsFiniteSet(S) /\ Cardinality(S) \in Nat /\ Cardinality(T) = b[off].size
  BY <1>2, <1>7, UsedFinite, IntervalSize
<1> HIDE DEF S, T
<1>9. Cardinality(S \ T) = Cardinality(S) - Cardinality(S \cap T) /\ S \cap T = T
  BY <1>6, <1>8, FS_Difference
<1>10. bytesUsed' = Cardinality(UsedBytes(c))
  BY <1>2, <1>6, <1>8, <1>9
<1> QED
  BY <1>5, <1>6, <1>10 DEF b, c

LEMMA PoolInvInit == PoolInit => PoolInv
<1> SUFFICES ASSUME PoolInit PROVE PoolInv
  OBVIOUS
<1>1. /\ blocks = [o \in {0} |-> FreeBlock(kUsable)] /\ bytesUsed = 0
  BY DEF PoolInit
<1>2. kUsable \in Nat \ {0} /\ kHeader \in Nat \ {0} /\ kAlign \in Nat \ {0}
  BY PoolConstants
<1>3. FreeBlock(kUsable) \in Block
  BY <1>2 DEF FreeBlock, Block
<1>4. /\ DOMAIN blocks = {0} /\ blocks[0] = FreeBlock(kUsable) /\ blocks \in [{0} -> Block]
  BY <1>1, <1>3
<1>5. ~blocks[0].allocated /\ blocks[0].size = kUsable /\ End(blocks, 0) = kUsable
  BY <1>2, <1>4 DEF FreeBlock, End
<1>6. 0 % kAlign = 0
  BY <1>2
<1>7. Shape(blocks)
  BY <1>2, <1>4, <1>5, <1>6 DEF Shape, Offsets
<1>8. Coalesced(blocks)
  BY <1>2, <1>4, <1>5 DEF Coalesced
<1>9. Allocated(blocks) = {}
  BY <1>4, <1>5 DEF Allocated
<1>10. UsedBytes(blocks) = {}
  BY <1>7, <1>9, UsedIs, Zenon
<1>11. Cardinality(UsedBytes(blocks)) = 0
  BY <1>10, FS_EmptySet
<1> QED
  BY <1>1, <1>7, <1>8, <1>11 DEF PoolInv

\* A free block that fits is found, and the first one is taken.
LEMMA FirstFitExists ==
  ASSUME NEW b, Shape(b), NEW size, NEW align, ValidAlign(align),
         NEW o \in DOMAIN b, FitsAt(b, o, size, align)
  PROVE  \E off \in DOMAIN b : FirstFit(b, off, size, align)
<1> DEFINE T == {k \in DOMAIN b : FitsAt(b, k, size, align)}
<1>1. \A k \in DOMAIN b : k \in Nat
  BY BlockBounds
<1>2. T \in SUBSET Nat /\ o \in T
  BY <1>1
<1>3. PICK off \in T : \A k \in T : off <= k
  BY <1>2, Least
<1>4. \A k \in DOMAIN b : k < off => ~FitsAt(b, k, size, align)
  BY <1>1, <1>3
<1> QED
  BY <1>3, <1>4 DEF FirstFit

\* Room for a request lies in one free block, whose header comes no later.
LEMMA RoomIsFound ==
  ASSUME PoolInv, NEW size \in Nat \ {0}, NEW align \in Nat, ValidAlign(align),
         NEW h \in Offsets, Unused(h, h + PayloadOffset(h, align) + size)
  PROVE  \E off \in DOMAIN blocks : FirstFit(blocks, off, size, align)
<1> DEFINE b == blocks
           p == PayloadOffset(h, align)
           e == h + p + size
<1>1. Shape(b) /\ Coalesced(b)
  BY DEF PoolInv
<1>2. h \in Nat /\ h < kUsable /\ kUsable \in Nat
  BY PoolConstants DEF Offsets
<1>3. p \in Nat
  BY <1>2, PayloadPlace
<1>4. /\ e <= kUsable
      /\ \A o \in DOMAIN b : b[o].allocated => e <= o \/ o + b[o].size <= h
  BY DEF Unused
<1> HIDE DEF b
<1>5. PICK o \in DOMAIN b : o <= h /\ h < End(b, o)
  BY <1>1 DEF Shape
<1>6. /\ o \in Nat /\ End(b, o) \in Nat /\ End(b, o) = o + b[o].size /\ b[o].size \in Nat
      /\ End(b, o) <= kUsable
  BY <1>1, BlockBounds DEF End
<1> DEFINE q == PayloadOffset(o, align)
<1>7. q \in Nat /\ o + q <= h + p
  BY <1>2, <1>5, <1>6, PayloadPlace
<1> HIDE DEF p, q
<1>8. e \in Nat /\ h < e /\ e = h + p + size
  BY <1>2, <1>3
<1> HIDE DEF e
<1>9. ~b[o].allocated
  BY <1>2, <1>4, <1>5, <1>6, <1>8
<1>10. e <= End(b, o)
  <2>1. SUFFICES ASSUME End(b, o) < e PROVE FALSE
    BY <1>6, <1>8
  <2> DEFINE n == End(b, o)
  <2>2. n \in DOMAIN b
    BY <1>1, <1>2, <1>4, <1>6, <1>8, <2>1 DEF Shape
  <2>3. b[n].allocated
    BY <1>1, <1>9, <2>2 DEF Coalesced
  <2>4. n \in Nat /\ b[n].size \in Nat
    BY <1>1, <2>2, BlockBounds
  <2> HIDE DEF n
  <2>5. h < n /\ n < e
    BY <1>5, <2>1 DEF n
  <2> QED
    BY <1>2, <1>4, <1>8, <2>2, <2>3, <2>4, <2>5
<1>11. q + size <= b[o].size
  BY <1>2, <1>3, <1>6, <1>7, <1>8, <1>10
<1>12. FitsAt(b, o, size, align)
  <2>1. q <= b[o].size /\ size <= b[o].size - q
    BY <1>6, <1>7, <1>11
  <2> QED
    BY <1>9, <2>1 DEF FitsAt, q
<1> QED
  BY <1>1, <1>12, FirstFitExists DEF b

\* Carving a block and freeing it again restores the blocks.
LEMMA CarvedUndone ==
  ASSUME NEW b, Shape(b), Coalesced(b), NEW off \in DOMAIN b, ~b[off].allocated,
         NEW e, NEW c, Carved(b, off, e, c), Shape(c), Coalesced(c)
  PROVE  Free(c, off) = b
<1> DEFINE D == DOMAIN b
           E == End(b, off)
<1>1. /\ \A o \in D : /\ o \in Nat /\ End(b, o) \in Nat /\ o < End(b, o)
                      /\ End(b, o) <= kUsable
      /\ off \in D /\ kUsable \in Nat \ {0}
  BY BlockBounds, PoolConstants
<1>2. /\ \A o \in D : End(b, o) \in D \union {kUsable}
      /\ \A o \in D, k \in D : k > o => End(b, o) <= k
      /\ b[off] = FreeBlock(b[off].size) /\ b = [o \in D |-> b[o]]
  BY DEF Shape
<1>3. \A o \in D : ~b[o].allocated /\ End(b, o) \in D => b[End(b, o)].allocated
  BY DEF Coalesced
<1>4. /\ e \in Nat /\ off < e /\ e <= E /\ DOMAIN c = D \union (IF e < E THEN {e} ELSE {})
      /\ c[off].size = e - off /\ c[off].allocated
      /\ e < E => c[e] = FreeBlock(E - e)
      /\ \A o \in D \ {off} : c[o] = b[o]
  BY DEF Carved
<1>5. b[off].size = E - off /\ E \in Nat /\ off < E
  BY BlockBounds DEF End
<1>6. End(c, off) = e
  BY <1>1, <1>4 DEF End
<1>7. e < E => ~c[e].allocated /\ End(c, e) = E
  BY <1>4, <1>5 DEF FreeBlock, End
<1>8. \A o \in D \ {off} : End(c, o) = End(b, o)
  BY <1>4 DEF End
<1> HIDE DEF D, E
<1>9. Run(c, off, off, E)
  <2>1. off \in DOMAIN c /\ E \in DOMAIN c \union {kUsable} /\ off <= off /\ End(c, off) <= E
    BY <1>1, <1>2, <1>4, <1>6 DEF E
  <2>2. ASSUME NEW o \in DOMAIN c, off <= o, o < E, o # off PROVE ~c[o].allocated
    <3>1. ASSUME o \in D PROVE FALSE
      <4>1. o \in Nat /\ off \in Nat /\ off < o
        BY <1>1, <2>2, <3>1
      <4>2. E <= o
        BY <1>1, <1>2, <3>1, <4>1 DEF E
      <4> QED
        BY <1>5, <2>2, <4>1, <4>2
    <3> QED
      BY <1>4, <1>7, <3>1
  <2>3. ASSUME NEW o \in DOMAIN c, End(c, o) = off PROVE c[o].allocated
    <3>1. o \in D \ {off}
      BY <1>1, <1>4, <1>5, <1>6, <1>7, <2>3
    <3> QED
      BY <1>1, <1>3, <1>4, <1>8, <2>3, <3>1
  <2>4. ASSUME E \in DOMAIN c PROVE c[E].allocated
    <3>1. E \in D /\ E # off
      BY <1>4, <1>5, <2>4
    <3> QED
      BY <1>1, <1>3, <1>4, <3>1 DEF E
  <2> QED
    BY <2>1, <2>2, <2>3, <2>4 DEF Run
<1>10. Free(c, off) = Merged(c, off, E)
  BY <1>1, <1>4, <1>9, FreeIs
<1>11. {k \in DOMAIN c : k <= off \/ E <= k} = D
  BY <1>1, <1>2, <1>4, <1>5 DEF E
<1>12. \A o \in D : (IF o = off THEN FreeBlock(E - off) ELSE c[o]) = b[o]
  BY <1>2, <1>4, <1>5
<1>13. Merged(c, off, E) = [o \in D |-> IF o = off THEN FreeBlock(E - off) ELSE c[o]]
  BY <1>11, Zenon DEF Merged
<1>14. Merged(c, off, E) = [o \in D |-> b[o]]
  BY <1>12, <1>13, Zenon
<1> QED
  BY <1>2, <1>10, <1>14

\* What the properties of the pool need.
LEMMA PoolInvImplies == PoolInv => BlocksTile /\ RefusedOnlyWhenFull /\ AllocationUndone
<1> SUFFICES ASSUME PoolInv PROVE BlocksTile /\ RefusedOnlyWhenFull /\ AllocationUndone
  OBVIOUS
<1>1. BlocksTile
  BY ShapeTiles DEF PoolInv, BlocksTile
<1>2. Sizes \subseteq Nat \ {0} /\ Aligns \subseteq Nat
  BY PoolAssumption
<1>3. RefusedOnlyWhenFull
  BY <1>2, RoomIsFound DEF RefusedOnlyWhenFull
<1>4. ASSUME NEW size \in Sizes, NEW align \in Aligns, NEW off \in DOMAIN blocks,
             FirstFit(blocks, off, size, align), NEW c, c = Carve(blocks, off, size, align)
      PROVE  /\ (Base + Payload(c, off)) % Effective(align) = 0
             /\ Payload(c, off) + size <= off + c[off].size
             /\ Tiles(c)
             /\ Free(c, off) = blocks
  <2> DEFINE b == blocks
  <2>1. /\ Shape(b) /\ Coalesced(b) /\ off \in DOMAIN b /\ size \in Nat /\ align \in Nat
        /\ FitsAt(b, off, size, align) /\ ~b[off].allocated
        /\ c = Carve(b, off, size, align)
    BY <1>2, <1>4 DEF PoolInv, FirstFit, FitsAt
  <2> HIDE DEF b
  <2>2. PICK e \in Nat : /\ Carved(b, off, e, c)
                         /\ c[off].payloadOffset = PayloadOffset(off, align)
                         /\ c[off].payloadOffset + size <= e - off
    BY <2>1, CarveIs
  <2>3. Shape(c) /\ Coalesced(c)
    BY <2>1, <2>2, CarvedShape
  <2>4. Free(c, off) = b
    BY <2>1, <2>2, <2>3, CarvedUndone
  <2>5. off \in Nat
    BY <2>1, BlockBounds
  <2>6. PayloadOffset(off, align) \in Nat
        /\ (Base + (off + PayloadOffset(off, align))) % Effective(align) = 0
    BY <2>1, <2>5, PayloadPlace
  <2>7. Payload(c, off) = off + PayloadOffset(off, align)
    BY <2>2 DEF Payload
  <2>8. c[off].size = e - off
    BY <2>2 DEF Carved
  <2>9. Payload(c, off) + size <= off + c[off].size
    BY <2>1, <2>2, <2>5, <2>6, <2>7, <2>8
  <2> QED
    BY <2>3, <2>4, <2>6, <2>7, <2>9, ShapeTiles DEF b
<1>5. AllocationUndone
  BY <1>4 DEF AllocationUndone
<1> QED
  BY <1>1, <1>3, <1>5

-----------------------------------------------------------------------------
(* Ownership of frames.                                                    *)

Handles == Pointers \union {Null}

OwnerTypeOK ==
  /\ task \in [Vars -> Handles]
  /\ param \in [Pointers -> Handles]
  /\ awaiter \in [Awaiters -> [child : Handles, was_empty : BOOLEAN]]
  /\ adopted \subseteq Pointers
  /\ dying \in Seq(Pointers)

\* The place q of kind k holds the address f.
Holds(k, q, f) ==
  \/ k = "task" /\ q \in Vars /\ task[q] = f
  \/ k = "param" /\ q \in Pointers /\ param[q] = f
  \/ k = "awaiter" /\ q \in Awaiters /\ awaiter[q].child = f
  \/ k = "slot" /\ q \in Held /\ q = f
  \/ k = "destroy" /\ q \in DOMAIN dying /\ dying[q] = f

\* At most one place holds f, and one does exactly if f is allocated.
OwnedOnce(f) ==
  /\ \A k, q, l, r : Holds(k, q, f) /\ Holds(l, r, f) => k = l /\ q = r
  /\ f \in LivePointers(blocks) <=> \E k, q : Holds(k, q, f)

\* Only an allocated frame has a parameter.
ParamsLive == \A p \in Pointers : param[p] # Null => p \in LivePointers(blocks)

OwnerInv ==
  /\ PoolInv
  /\ OwnerTypeOK
  /\ ParamsLive
  /\ \A f \in Pointers : OwnedOnce(f)

\* A step that leaves the places of f alone, or moves f from one to another.
Stays(f) == \A k, q : Holds(k, q, f)' <=> Holds(k, q, f)
Moves(f, k1, q1, k2, q2) ==
  /\ Holds(k1, q1, f)
  /\ \A k, q : Holds(k, q, f)' <=>
       \/ k = k2 /\ q = q2
       \/ Holds(k, q, f) /\ ~(k = k1 /\ q = q1)

LEMMA KeepsOwner ==
  ASSUME NEW f, OwnedOnce(f), UNCHANGED blocks,
         Stays(f) \/ \E k1, q1, k2, q2 : Moves(f, k1, q1, k2, q2)
  PROVE  OwnedOnce(f)'
<1>1. CASE Stays(f)
  <2>1. \A k, q : Holds(k, q, f)' <=> Holds(k, q, f)
    BY <1>1 DEF Stays
  <2> QED
    BY <2>1 DEF OwnedOnce
<1>2. ASSUME NEW k1, NEW q1, NEW k2, NEW q2, Moves(f, k1, q1, k2, q2) PROVE OwnedOnce(f)'
  <2>1. /\ Holds(k1, q1, f)
        /\ \A k, q : Holds(k, q, f)' <=>
             \/ k = k2 /\ q = q2
             \/ Holds(k, q, f) /\ ~(k = k1 /\ q = q1)
    BY <1>2 DEF Moves
  <2>2. \A k, q : Holds(k, q, f) => k = k1 /\ q = q1
    BY <2>1 DEF OwnedOnce
  <2>3. \A k, q : Holds(k, q, f)' <=> k = k2 /\ q = q2
    BY <2>1, <2>2
  <2>4. f \in LivePointers(blocks)
    BY <2>1 DEF OwnedOnce
  <2> QED
    BY <2>3, <2>4 DEF OwnedOnce
<1> QED
  BY <1>1, <1>2

LEMMA NullIsNone == Null \notin Pointers /\ Pointers \subseteq Nat
  BY PoolConstants DEF Null, Pointers

\* f.destroy() makes the call stack the last holder of f.
LEMMA DestroyPushes ==
  ASSUME dying \in Seq(Pointers), NEW f \in Handles, Destroy(f)
  PROVE  /\ dying' \in Seq(Pointers)
         /\ \A i : \A g \in Pointers :
              (i \in DOMAIN dying' /\ dying'[i] = g) <=>
                 \/ i \in DOMAIN dying /\ dying[i] = g
                 \/ f = g /\ i = Len(dying) + 1
<1> DEFINE n == Len(dying)
<1>1. n \in Nat /\ DOMAIN dying = 1..n
  OBVIOUS
<1>2. CASE f = Null
  BY <1>2, NullIsNone DEF Destroy
<1>3. CASE f # Null
  <2>1. f \in Pointers /\ dying' = Append(dying, f)
    BY <1>3 DEF Destroy, Handles
  <2>2. /\ dying' \in Seq(Pointers) /\ DOMAIN dying' = 1..(n + 1) /\ dying'[n + 1] = f
        /\ \A i \in 1..n : dying'[i] = dying[i]
    BY <2>1
  <2> HIDE DEF n
  <2>3. ASSUME NEW i, NEW g \in Pointers
        PROVE  (i \in 1..(n + 1) /\ dying'[i] = g) <=>
                 \/ i \in 1..n /\ dying[i] = g
                 \/ f = g /\ i = n + 1
    <3>1. i \in 1..(n + 1) <=> i \in 1..n \/ i = n + 1
      BY <1>1
    <3>2. n + 1 \notin 1..n
      BY <1>1
    <3> QED
      BY <2>2, <3>1, <3>2
  <2> QED
    BY <1>1, <2>2, <2>3 DEF n
<1> QED
  BY <1>2, <1>3

\* destroy() of a frame takes it from the slots that hold one.
LEMMA HeldDestroyed ==
  ASSUME OwnerTypeOK, NEW x \in Handles, Destroy(x),
         UNCHANGED adopted \/ adopted' = adopted \ {x}
  PROVE  Held' = Held \ {x}
<1>1. adopted \subseteq Pointers /\ dying \in Seq(Pointers)
  BY DEF OwnerTypeOK
<1>2. \A i : \A g \in Pointers :
        (i \in DOMAIN dying' /\ dying'[i] = g) <=>
          \/ i \in DOMAIN dying /\ dying[i] = g
          \/ x = g /\ i = Len(dying) + 1
  BY <1>1, DestroyPushes
<1>3. ASSUME NEW g \in Pointers
      PROVE  (\A i \in DOMAIN dying' : dying'[i] # g) <=>
               (\A i \in DOMAIN dying : dying[i] # g) /\ g # x
  BY <1>2
<1> QED
  BY <1>1, <1>3 DEF Held

\* A frame that a task, a parameter or an awaiter holds is in no slot and inside no
\* destroy().
LEMMA NotHeld ==
  ASSUME OwnerInv, NEW k, NEW q, NEW x, Holds(k, q, x), k \notin {"slot", "destroy"}
  PROVE  x \notin Held /\ (x # Null => \A i \in DOMAIN dying : dying[i] # x)
<1>1. adopted \subseteq Pointers /\ dying \in Seq(Pointers)
  BY DEF OwnerInv, OwnerTypeOK
<1>2. CASE x \in Held
  <2>1. Holds("slot", x, x) /\ x \in Pointers
    BY <1>1, <1>2 DEF Holds, Held
  <2> QED
    BY <2>1 DEF OwnerInv, OwnedOnce
<1>3. ASSUME NEW i \in DOMAIN dying, dying[i] = x PROVE FALSE
  <2>1. Holds("destroy", i, x) /\ x \in Pointers
    BY <1>1, <1>3 DEF Holds
  <2> QED
    BY <2>1 DEF OwnerInv, OwnedOnce
<1> QED
  BY <1>2, <1>3

LEMMA HeldKept ==
  ASSUME OwnerInv, NEW k, NEW q, NEW x \in Handles, Holds(k, q, x),
         k \notin {"slot", "destroy"}, Destroy(x), UNCHANGED adopted
  PROVE  UNCHANGED Held
<1>1. x \notin Held
  BY NotHeld
<1>2. Held' = Held \ {x}
  BY HeldDestroyed DEF OwnerInv
<1> QED
  BY <1>1, <1>2

\* A slot adopts a frame that a task or an awaiter holds.
LEMMA HeldAdopted ==
  ASSUME OwnerInv, NEW k, NEW q, NEW x \in Pointers, Holds(k, q, x),
         k \notin {"slot", "destroy"}, UNCHANGED dying, adopted' = adopted \union {x}
  PROVE  Held' = Held \union {x}
<1>1. \A i \in DOMAIN dying : dying[i] # x
  BY NotHeld, NullIsNone
<1> QED
  BY <1>1 DEF Held

\* The owners of f are the places that hold it.
LEMMA OwnersAre ==
  ASSUME NEW f
  PROVE  \A x : x \in Owners(f) <=> \E k, q : Holds(k, q, f) /\ x = <<k, q>>
<1>1. ASSUME NEW x, x \in Owners(f) PROVE \E k, q : Holds(k, q, f) /\ x = <<k, q>>
  <2>1. CASE x \in {<<"task", v>> : v \in {v \in Vars : task[v] = f}}
    BY <2>1 DEF Holds
  <2>2. CASE x \in {<<"param", p>> : p \in {p \in Pointers : param[p] = f}}
    BY <2>2 DEF Holds
  <2>3. CASE x \in {<<"awaiter", a>> : a \in {a \in Awaiters : awaiter[a].child = f}}
    BY <2>3 DEF Holds
  <2>4. CASE x \in {<<"slot", p>> : p \in Held \intersect {f}}
    BY <2>4 DEF Holds
  <2>5. CASE x \in {<<"destroy", i>> : i \in {i \in DOMAIN dying : dying[i] = f}}
    BY <2>5 DEF Holds
  <2> QED
    BY <1>1, <2>1, <2>2, <2>3, <2>4, <2>5, Zenon DEF Owners
<1>2. ASSUME NEW k, NEW q, Holds(k, q, f) PROVE <<k, q>> \in Owners(f)
  BY <1>2, Zenon DEF Holds, Owners
<1> QED
  BY <1>1, <1>2

LEMMA OwnersCount ==
  ASSUME NEW f, OwnedOnce(f)
  PROVE  /\ Cardinality(Owners(f)) = IF f \in LivePointers(blocks) THEN 1 ELSE 0
         /\ Owners(f) = {} => f \notin LivePointers(blocks)
<1>1. \A x : x \in Owners(f) <=> \E k, q : Holds(k, q, f) /\ x = <<k, q>>
  BY OwnersAre
<1>2. CASE f \in LivePointers(blocks)
  <2>1. PICK k, q : Holds(k, q, f)
    BY <1>2 DEF OwnedOnce
  <2>2. \A l, r : Holds(l, r, f) => l = k /\ r = q
    BY <2>1 DEF OwnedOnce
  <2>3. Owners(f) = {<<k, q>>}
    BY <1>1, <2>1, <2>2, Zenon
  <2>4. Cardinality(Owners(f)) = 1
    BY <2>3, FS_Singleton
  <2>5. Owners(f) # {}
    BY <2>3
  <2> QED
    BY <1>2, <2>4, <2>5
<1>3. CASE f \notin LivePointers(blocks)
  <2>1. Owners(f) = {}
    BY <1>1, <1>3, Zenon DEF OwnedOnce
  <2>2. Cardinality(Owners(f)) = 0
    BY <2>1, FS_EmptySet
  <2> QED
    BY <1>3, <2>2
<1> QED
  BY <1>2, <1>3

\* A step that leaves the pool alone and only moves addresses keeps the invariant.
LEMMA KeepsAll ==
  ASSUME OwnerInv, UNCHANGED poolVars, OwnerTypeOK', ParamsLive',
         \A f \in Pointers : Stays(f) \/ \E k1, q1, k2, q2 : Moves(f, k1, q1, k2, q2)
  PROVE  OwnerInv'
<1>1. UNCHANGED blocks /\ UNCHANGED bytesUsed
  BY DEF poolVars
<1>2. PoolInv'
  BY <1>1 DEF OwnerInv, PoolInv, Shape, Coalesced, UsedBytes, Allocated
<1>3. ASSUME NEW f \in Pointers PROVE OwnedOnce(f)'
  BY <1>1, KeepsOwner DEF OwnerInv
<1> QED
  BY <1>2, <1>3 DEF OwnerInv

LEMMA MoveAssignKeeps ==
  ASSUME OwnerInv, NEW v \in Vars, NEW u \in Vars, MoveAssign(v, u)
  PROVE  OwnerInv'
<1> DEFINE n == Len(dying)
<1>1. /\ u # v
      /\ task' = [task EXCEPT ![v] = task[u], ![u] = Null]
      /\ Destroy(task[v])
      /\ UNCHANGED <<poolVars, param, awaiter, adopted>>
  BY DEF MoveAssign
<1>2. OwnerTypeOK /\ ParamsLive
  BY DEF OwnerInv
<1>3. task[v] \in Handles /\ task[u] \in Handles
  BY <1>2 DEF OwnerTypeOK
<1>4. /\ dying' \in Seq(Pointers)
      /\ \A i : \A g \in Pointers :
           (i \in DOMAIN dying' /\ dying'[i] = g) <=>
             \/ i \in DOMAIN dying /\ dying[i] = g
             \/ task[v] = g /\ i = n + 1
  BY <1>1, <1>2, <1>3, DestroyPushes DEF OwnerTypeOK
<1> HIDE DEF n
<1> UNCHANGED Held
  BY <1>1, <1>3, HeldKept DEF Holds
<1>5. /\ task' \in [Vars -> Handles] /\ task'[v] = task[u] /\ task'[u] = Null
      /\ \A w \in Vars : w # v /\ w # u => task'[w] = task[w]
  BY <1>1, <1>2 DEF OwnerTypeOK, Handles
<1>6. OwnerTypeOK'
  BY <1>1, <1>2, <1>4, <1>5 DEF OwnerTypeOK
<1>7. ParamsLive'
  BY <1>1, <1>2 DEF ParamsLive, poolVars
<1>8. ASSUME NEW f \in Pointers
      PROVE  Stays(f) \/ \E k1, q1, k2, q2 : Moves(f, k1, q1, k2, q2)
  <2>1. OwnedOnce(f) /\ f # Null
    BY <1>2, NullIsNone DEF OwnerInv
  <2>2. CASE task[u] = f
    <3>1. task[v] # f
      BY <1>1, <2>1, <2>2 DEF OwnedOnce, Holds
    <3>2. \A q : (q \in Vars /\ task'[q] = f) <=>
                   q = v \/ (q \in Vars /\ task[q] = f /\ q # u)
      BY <1>1, <1>5, <2>1, <2>2, <3>1
    <3>3. \A i : (i \in DOMAIN dying' /\ dying'[i] = f) <=> (i \in DOMAIN dying /\ dying[i] = f)
      BY <1>4, <3>1
    <3>4. ASSUME NEW k, NEW q
          PROVE  Holds(k, q, f)' <=>
                   \/ k = "task" /\ q = v
                   \/ Holds(k, q, f) /\ ~(k = "task" /\ q = u)
      BY <1>1, <3>2, <3>3 DEF Holds
    <3>5. Moves(f, "task", u, "task", v)
      BY <2>2, <3>4 DEF Moves, Holds
    <3> QED
      BY <3>5
  <2>3. CASE task[u] # f /\ task[v] = f
    <3>1. ASSUME NEW k, NEW q
          PROVE  Holds(k, q, f)' <=>
                   \/ k = "destroy" /\ q = n + 1
                   \/ Holds(k, q, f) /\ ~(k = "task" /\ q = v)
      BY <1>1, <1>4, <1>5, <2>1, <2>3 DEF Holds
    <3>2. Moves(f, "task", v, "destroy", n + 1)
      BY <2>3, <3>1 DEF Moves, Holds
    <3> QED
      BY <3>2
  <2>4. CASE task[u] # f /\ task[v] # f
    BY <1>1, <1>4, <1>5, <2>1, <2>4 DEF Stays, Holds
  <2> QED
    BY <2>2, <2>3, <2>4
<1> QED
  BY <1>1, <1>6, <1>7, <1>8, KeepsAll

\* A place holds one address.
LEMMA HoldsOne ==
  ASSUME NEW k, NEW q, NEW f, NEW g, Holds(k, q, f), Holds(k, q, g)
  PROVE  f = g
  BY DEF Holds

\* The step that moves one address x from a place to another.
Moved(x, k1, q1, k2, q2) ==
  \A f \in Pointers : \A k, q : Holds(k, q, f)' <=>
    \/ f = x /\ k = k2 /\ q = q2
    \/ Holds(k, q, f) /\ ~(k = k1 /\ q = q1)

LEMMA Transfer ==
  ASSUME OwnerInv, UNCHANGED poolVars, OwnerTypeOK', ParamsLive',
         NEW k1, NEW q1, NEW k2, NEW q2, NEW x, Holds(k1, q1, x),
         Moved(x, k1, q1, k2, q2)
  PROVE  OwnerInv'
<1>1. ASSUME NEW f \in Pointers
      PROVE  Stays(f) \/ \E l1, r1, l2, r2 : Moves(f, l1, r1, l2, r2)
  <2>1. CASE f = x
    <3>1. Moves(f, k1, q1, k2, q2)
      BY <2>1 DEF Moves, Moved
    <3> QED
      BY <3>1
  <2>2. CASE f # x
    <3>1. ~Holds(k1, q1, f)
      BY <2>2, HoldsOne
    <3>2. ASSUME NEW k, NEW q PROVE Holds(k, q, f)' <=> Holds(k, q, f)
      BY <2>2, <3>1 DEF Moved
    <3> QED
      BY <3>2 DEF Stays
  <2> QED
    BY <2>1, <2>2
<1> QED
  BY <1>1, KeepsAll

\* The step that destroys the frame x of one place, which it empties first.
LEMMA TransferToDestroy ==
  ASSUME OwnerInv, UNCHANGED poolVars, OwnerTypeOK', ParamsLive',
         NEW k1, k1 # "destroy", NEW q1, NEW x \in Handles, Holds(k1, q1, x), Destroy(x),
         \A f \in Pointers : \A k, q : k # "destroy" =>
           (Holds(k, q, f)' <=> Holds(k, q, f) /\ ~(k = k1 /\ q = q1))
  PROVE  OwnerInv'
<1> DEFINE n == Len(dying)
<1>1. dying \in Seq(Pointers)
  BY DEF OwnerInv, OwnerTypeOK
<1>2. \A i : \A g \in Pointers :
        (i \in DOMAIN dying' /\ dying'[i] = g) <=>
          \/ i \in DOMAIN dying /\ dying[i] = g
          \/ x = g /\ i = n + 1
  BY <1>1, DestroyPushes
<1> HIDE DEF n
<1>3. ASSUME NEW f \in Pointers, NEW k, NEW q
      PROVE  Holds(k, q, f)' <=>
               \/ f = x /\ k = "destroy" /\ q = n + 1
               \/ Holds(k, q, f) /\ ~(k = k1 /\ q = q1)
  <2>1. CASE k # "destroy"
    BY <2>1
  <2>2. CASE k = "destroy"
    <3>1. Holds(k, q, f)' <=> q \in DOMAIN dying' /\ dying'[q] = f
      BY <2>2 DEF Holds
    <3>2. Holds(k, q, f) <=> q \in DOMAIN dying /\ dying[q] = f
      BY <2>2 DEF Holds
    <3> QED
      BY <1>2, <2>2, <3>1, <3>2
  <2> QED
    BY <2>1, <2>2
<1>4. Moved(x, k1, q1, "destroy", n + 1)
  BY <1>3 DEF Moved
<1> QED
  BY <1>4, Transfer

LEMMA ResetKeeps ==
  ASSUME OwnerInv, NEW v \in Vars, reset(v)
  PROVE  OwnerInv'
<1>1. /\ task' = [task EXCEPT ![v] = Null]
      /\ Destroy(task[v])
      /\ UNCHANGED <<poolVars, param, awaiter, adopted>>
  BY DEF reset
<1>2. OwnerTypeOK /\ ParamsLive
  BY DEF OwnerInv
<1>3. /\ task' \in [Vars -> Handles] /\ task'[v] = Null
      /\ \A w \in Vars : w # v => task'[w] = task[w]
      /\ task[v] \in Handles
  BY <1>1, <1>2 DEF OwnerTypeOK, Handles
<1>4. OwnerTypeOK'
  BY <1>1, <1>2, <1>3, DestroyPushes DEF OwnerTypeOK
<1>5. ParamsLive'
  BY <1>1, <1>2 DEF ParamsLive, poolVars
<1>6. Holds("task", v, task[v])
  BY DEF Holds
<1> UNCHANGED Held
  BY <1>1, <1>3, <1>6, HeldKept
<1>7. ASSUME NEW f \in Pointers, NEW k, NEW q, k # "destroy"
      PROVE  Holds(k, q, f)' <=> Holds(k, q, f) /\ ~(k = "task" /\ q = v)
  BY <1>1, <1>3, <1>7, NullIsNone DEF Holds
<1> QED
  BY <1>1, <1>3, <1>4, <1>5, <1>6, <1>7, TransferToDestroy

LEMMA ScheduleKeeps ==
  ASSUME OwnerInv, NEW v \in Vars, Schedule(v)
  PROVE  OwnerInv'
<1>1. UNCHANGED <<poolVars, param, awaiter, dying>>
  BY DEF Schedule
<1>2. OwnerTypeOK /\ ParamsLive
  BY DEF OwnerInv
<1>3. ParamsLive'
  BY <1>1, <1>2 DEF ParamsLive, poolVars
<1>4. CASE UNCHANGED <<adopted, task>>
  <2>1. OwnerTypeOK'
    BY <1>1, <1>2, <1>4 DEF OwnerTypeOK
  <2>2. ASSUME NEW f \in Pointers PROVE Stays(f)
    BY <1>1, <1>4 DEF Stays, Holds, Held
  <2> QED
    BY <1>1, <1>3, <2>1, <2>2, KeepsAll
<1>5. CASE /\ task[v] # Null
           /\ adopted' = adopted \union {task[v]}
           /\ task' = [task EXCEPT ![v] = Null]
  <2>1. /\ task' \in [Vars -> Handles] /\ task'[v] = Null
        /\ \A w \in Vars : w # v => task'[w] = task[w]
        /\ task[v] \in Pointers
    BY <1>2, <1>5 DEF OwnerTypeOK, Handles
  <2>2. OwnerTypeOK'
    BY <1>1, <1>2, <1>5, <2>1 DEF OwnerTypeOK
  <2>3. Holds("task", v, task[v])
    BY DEF Holds
  <2> Held' = Held \union {task[v]}
    BY <1>1, <1>5, <2>1, <2>3, HeldAdopted
  <2>4. ASSUME NEW f \in Pointers, NEW k, NEW q
        PROVE  Holds(k, q, f)' <=>
                 \/ f = task[v] /\ k = "slot" /\ q = task[v]
                 \/ Holds(k, q, f) /\ ~(k = "task" /\ q = v)
    BY <1>1, <1>5, <2>1, NullIsNone DEF Holds
  <2>5. Moved(task[v], "task", v, "slot", task[v])
    BY <2>4 DEF Moved
  <2> QED
    BY <1>1, <1>3, <2>2, <2>3, <2>5, Transfer
<1> QED
  BY <1>4, <1>5 DEF Schedule

LEMMA CoAwaitKeeps ==
  ASSUME OwnerInv, NEW v \in Vars, NEW a \in Awaiters, CoAwait(v, a)
  PROVE  OwnerInv'
<1>1. /\ awaiter[a] = Absent
      /\ awaiter' = [awaiter EXCEPT ![a] = [child |-> task[v], was_empty |-> task[v] = Null]]
      /\ task' = [task EXCEPT ![v] = Null]
      /\ UNCHANGED <<poolVars, param, adopted, dying>>
  BY DEF CoAwait
<1>2. OwnerTypeOK /\ ParamsLive
  BY DEF OwnerInv
<1>3. /\ task' \in [Vars -> Handles] /\ task'[v] = Null
      /\ \A w \in Vars : w # v => task'[w] = task[w]
      /\ task[v] \in Handles
  BY <1>1, <1>2 DEF OwnerTypeOK, Handles
<1>4. awaiter[a].child = Null
  BY <1>1 DEF Absent
<1>5. (task[v] = Null) \in BOOLEAN
  OBVIOUS
<1>6. /\ awaiter' \in [Awaiters -> [child : Handles, was_empty : BOOLEAN]]
      /\ awaiter'[a].child = task[v]
      /\ \A b \in Awaiters : b # a => awaiter'[b].child = awaiter[b].child
  BY <1>1, <1>2, <1>3, <1>5 DEF OwnerTypeOK
<1>7. OwnerTypeOK'
  BY <1>1, <1>2, <1>3, <1>6 DEF OwnerTypeOK
<1>8. ParamsLive'
  BY <1>1, <1>2 DEF ParamsLive, poolVars
<1>9. Holds("task", v, task[v])
  BY DEF Holds
<1>10. ASSUME NEW f \in Pointers, NEW k, NEW q
       PROVE  Holds(k, q, f)' <=>
                \/ f = task[v] /\ k = "awaiter" /\ q = a
                \/ Holds(k, q, f) /\ ~(k = "task" /\ q = v)
  <2>1. UNCHANGED <<param, Held, dying>> /\ f # Null
    BY <1>1, NullIsNone DEF Held
  <2> QED
    BY <1>3, <1>4, <1>6, <2>1 DEF Holds
<1>11. Moved(task[v], "task", v, "awaiter", a)
  BY <1>10 DEF Moved
<1> QED
  BY <1>1, <1>7, <1>8, <1>9, <1>11, Transfer

LEMMA MoveAwaiterKeeps ==
  ASSUME OwnerInv, NEW a \in Awaiters, NEW b \in Awaiters, MoveAwaiter(a, b)
  PROVE  OwnerInv'
<1>1. /\ awaiter[b] = Absent /\ a # b
      /\ awaiter' = [awaiter EXCEPT ![b] = awaiter[a], ![a].child = Null]
      /\ UNCHANGED <<poolVars, task, param, adopted, dying>>
  BY DEF MoveAwaiter
<1>2. OwnerTypeOK /\ ParamsLive
  BY DEF OwnerInv
<1>3. awaiter[b].child = Null
  BY <1>1 DEF Absent
<1>4. /\ awaiter' \in [Awaiters -> [child : Handles, was_empty : BOOLEAN]]
      /\ awaiter'[a].child = Null
      /\ awaiter'[b].child = awaiter[a].child
      /\ \A c \in Awaiters : c # a /\ c # b => awaiter'[c].child = awaiter[c].child
  BY <1>1, <1>2 DEF OwnerTypeOK, Handles
<1>5. OwnerTypeOK'
  BY <1>1, <1>2, <1>4 DEF OwnerTypeOK
<1>6. ParamsLive'
  BY <1>1, <1>2 DEF ParamsLive, poolVars
<1>7. Holds("awaiter", a, awaiter[a].child)
  BY DEF Holds
<1>8. ASSUME NEW f \in Pointers, NEW k, NEW q
      PROVE  Holds(k, q, f)' <=>
               \/ f = awaiter[a].child /\ k = "awaiter" /\ q = b
               \/ Holds(k, q, f) /\ ~(k = "awaiter" /\ q = a)
  <2>1. UNCHANGED <<task, param, Held, dying>> /\ f # Null
    BY <1>1, NullIsNone DEF Held
  <2>2. (q \in Awaiters /\ awaiter'[q].child = f) <=>
          \/ f = awaiter[a].child /\ q = b
          \/ q \in Awaiters /\ awaiter[q].child = f /\ q # a
    BY <1>1, <1>3, <1>4, <2>1
  <2> QED
    BY <2>1, <2>2 DEF Holds
<1>9. Moved(awaiter[a].child, "awaiter", a, "awaiter", b)
  BY <1>8 DEF Moved
<1> QED
  BY <1>1, <1>5, <1>6, <1>7, <1>9, Transfer

\* Emptying an awaiter, which the two ways its child leaves it share.
LEMMA AwaiterEmptied ==
  ASSUME OwnerTypeOK, NEW a \in Awaiters, awaiter' = [awaiter EXCEPT ![a] = Absent]
  PROVE  /\ awaiter' \in [Awaiters -> [child : Handles, was_empty : BOOLEAN]]
         /\ awaiter'[a].child = Null
         /\ \A b \in Awaiters : b # a => awaiter'[b].child = awaiter[b].child
         /\ awaiter[a].child \in Handles
  BY DEF OwnerTypeOK, Handles, Absent

LEMMA AwaiterDestroys ==
  ASSUME OwnerInv, NEW a \in Awaiters, awaiter' = [awaiter EXCEPT ![a] = Absent],
         Destroy(awaiter[a].child), UNCHANGED <<poolVars, task, param, adopted>>
  PROVE  OwnerInv'
<1>1. OwnerTypeOK /\ ParamsLive
  BY DEF OwnerInv
<1>2. /\ awaiter' \in [Awaiters -> [child : Handles, was_empty : BOOLEAN]]
      /\ awaiter'[a].child = Null
      /\ \A b \in Awaiters : b # a => awaiter'[b].child = awaiter[b].child
      /\ awaiter[a].child \in Handles
  BY <1>1, AwaiterEmptied
<1>3. OwnerTypeOK'
  BY <1>1, <1>2, DestroyPushes DEF OwnerTypeOK
<1>4. ParamsLive'
  BY <1>1 DEF ParamsLive, poolVars
<1>5. Holds("awaiter", a, awaiter[a].child)
  BY DEF Holds
<1> UNCHANGED Held
  BY <1>2, <1>5, HeldKept
<1>6. ASSUME NEW f \in Pointers, NEW k, NEW q, k # "destroy"
      PROVE  Holds(k, q, f)' <=> Holds(k, q, f) /\ ~(k = "awaiter" /\ q = a)
  BY <1>2, <1>6, NullIsNone DEF Holds
<1> QED
  BY <1>2, <1>3, <1>4, <1>5, <1>6, TransferToDestroy

LEMMA AwaitSuspendKeeps ==
  ASSUME OwnerInv, NEW a \in Awaiters, AwaitSuspend(a)
  PROVE  OwnerInv'
<1>1. /\ awaiter[a].child # Null
      /\ awaiter' = [awaiter EXCEPT ![a] = Absent]
      /\ UNCHANGED <<poolVars, task, param>>
  BY DEF AwaitSuspend
<1>2. CASE Destroy(awaiter[a].child) /\ UNCHANGED adopted
  BY <1>1, <1>2, AwaiterDestroys
<1>3. CASE adopted' = adopted \union {awaiter[a].child} /\ UNCHANGED dying
  <2>1. OwnerTypeOK /\ ParamsLive
    BY DEF OwnerInv
  <2>2. /\ awaiter' \in [Awaiters -> [child : Handles, was_empty : BOOLEAN]]
        /\ awaiter'[a].child = Null
        /\ \A b \in Awaiters : b # a => awaiter'[b].child = awaiter[b].child
        /\ awaiter[a].child \in Pointers
    BY <1>1, <2>1, AwaiterEmptied DEF Handles
  <2>3. OwnerTypeOK'
    BY <1>1, <1>3, <2>1, <2>2 DEF OwnerTypeOK
  <2>4. ParamsLive'
    BY <1>1, <2>1 DEF ParamsLive, poolVars
  <2>5. Holds("awaiter", a, awaiter[a].child)
    BY DEF Holds
  <2> Held' = Held \union {awaiter[a].child}
    BY <1>3, <2>2, <2>5, HeldAdopted
  <2>6. ASSUME NEW f \in Pointers, NEW k, NEW q
        PROVE  Holds(k, q, f)' <=>
                 \/ f = awaiter[a].child /\ k = "slot" /\ q = awaiter[a].child
                 \/ Holds(k, q, f) /\ ~(k = "awaiter" /\ q = a)
    BY <1>1, <1>3, <2>2, NullIsNone DEF Holds
  <2>7. Moved(awaiter[a].child, "awaiter", a, "slot", awaiter[a].child)
    BY <2>6 DEF Moved
  <2> QED
    BY <1>1, <2>3, <2>4, <2>5, <2>7, Transfer
<1> QED
  BY <1>2, <1>3 DEF AwaitSuspend

LEMMA RetireKeeps ==
  ASSUME OwnerInv, NEW f \in Pointers, Retire(f)
  PROVE  OwnerInv'
<1>1. /\ f \in Held
      /\ adopted' = adopted \ {f} \/ UNCHANGED adopted
      /\ Destroy(f)
      /\ UNCHANGED <<poolVars, task, param, awaiter>>
  BY DEF Retire
<1>2. OwnerTypeOK /\ ParamsLive /\ f \in Handles
  BY DEF OwnerInv, Handles
<1>3. OwnerTypeOK'
  BY <1>1, <1>2, DestroyPushes DEF OwnerTypeOK
<1>4. ParamsLive'
  BY <1>1, <1>2 DEF ParamsLive, poolVars
<1>5. Holds("slot", f, f)
  BY <1>1 DEF Holds
<1> Held' = Held \ {f}
  BY <1>1, <1>2, HeldDestroyed
<1>6. ASSUME NEW g \in Pointers, NEW k, NEW q, k # "destroy"
      PROVE  Holds(k, q, g)' <=> Holds(k, q, g) /\ ~(k = "slot" /\ q = f)
  BY <1>1, <1>6 DEF Holds
<1> QED
  BY <1>1, <1>2, <1>3, <1>4, <1>5, <1>6, TransferToDestroy

LEMMA DestroyParamKeeps ==
  ASSUME OwnerInv, DestroyParam
  PROVE  OwnerInv'
<1> DEFINE e == Innermost
<1>1. /\ dying # << >> /\ param[e] # Null
      /\ param' = [param EXCEPT ![e] = Null]
      /\ Destroy(param[e])
      /\ UNCHANGED <<poolVars, task, awaiter, adopted>>
  BY DEF DestroyParam
<1>2. OwnerTypeOK /\ ParamsLive
  BY DEF OwnerInv
<1>3. e \in Pointers
  BY <1>1, <1>2 DEF OwnerTypeOK, Innermost
<1> HIDE DEF e
<1>4. /\ param' \in [Pointers -> Handles] /\ param'[e] = Null
      /\ \A p \in Pointers : p # e => param'[p] = param[p]
      /\ param[e] \in Handles
  BY <1>1, <1>2, <1>3 DEF OwnerTypeOK, Handles
<1>5. OwnerTypeOK'
  BY <1>1, <1>2, <1>4, DestroyPushes DEF OwnerTypeOK
<1>6. ParamsLive'
  BY <1>1, <1>2, <1>4 DEF ParamsLive, poolVars
<1>7. Holds("param", e, param[e])
  BY <1>3 DEF Holds
<1> UNCHANGED Held
  BY <1>1, <1>4, <1>7, HeldKept
<1>8. ASSUME NEW f \in Pointers, NEW k, NEW q, k # "destroy"
      PROVE  Holds(k, q, f)' <=> Holds(k, q, f) /\ ~(k = "param" /\ q = e)
  BY <1>1, <1>4, <1>8, NullIsNone DEF Holds
<1> QED
  BY <1>1, <1>4, <1>5, <1>6, <1>7, <1>8, TransferToDestroy

LEMMA MoveFromParamKeeps ==
  ASSUME OwnerInv, NEW v \in Vars, NEW p \in Pointers, MoveFromParam(v, p)
  PROVE  OwnerInv'
<1> DEFINE n == Len(dying)
<1>1. /\ param[p] # Null
      /\ task' = [task EXCEPT ![v] = param[p]]
      /\ param' = [param EXCEPT ![p] = Null]
      /\ Destroy(task[v])
      /\ UNCHANGED <<poolVars, awaiter, adopted>>
  BY DEF MoveFromParam
<1>2. OwnerTypeOK /\ ParamsLive
  BY DEF OwnerInv
<1>3. task[v] \in Handles /\ param[p] \in Handles
  BY <1>2 DEF OwnerTypeOK
<1>4. /\ dying' \in Seq(Pointers)
      /\ \A i : \A g \in Pointers :
           (i \in DOMAIN dying' /\ dying'[i] = g) <=>
             \/ i \in DOMAIN dying /\ dying[i] = g
             \/ task[v] = g /\ i = n + 1
  BY <1>1, <1>2, <1>3, DestroyPushes DEF OwnerTypeOK
<1> HIDE DEF n
<1>5. /\ task' \in [Vars -> Handles] /\ task'[v] = param[p]
      /\ \A w \in Vars : w # v => task'[w] = task[w]
      /\ param' \in [Pointers -> Handles] /\ param'[p] = Null
      /\ \A o \in Pointers : o # p => param'[o] = param[o]
  BY <1>1, <1>2, <1>3 DEF OwnerTypeOK, Handles
<1>6. OwnerTypeOK'
  BY <1>1, <1>2, <1>4, <1>5 DEF OwnerTypeOK
<1>7. ParamsLive'
  BY <1>1, <1>2, <1>5 DEF ParamsLive, poolVars
<1>8. ASSUME NEW f \in Pointers
      PROVE  Stays(f) \/ \E k1, q1, k2, q2 : Moves(f, k1, q1, k2, q2)
  <2>1. OwnedOnce(f) /\ f # Null
    BY <1>2, NullIsNone DEF OwnerInv
  <2>2. UNCHANGED <<awaiter, Held>>
    BY <1>1, <1>3, HeldKept DEF Holds
  <2>3. CASE param[p] = f
    <3>1. task[v] # f
      BY <2>1, <2>3 DEF OwnedOnce, Holds
    <3>2. ASSUME NEW k, NEW q
          PROVE  Holds(k, q, f)' <=>
                   \/ k = "task" /\ q = v
                   \/ Holds(k, q, f) /\ ~(k = "param" /\ q = p)
      <4>1. (q \in DOMAIN dying' /\ dying'[q] = f) <=> (q \in DOMAIN dying /\ dying[q] = f)
        BY <1>4, <3>1
      <4>2. (q \in Vars /\ task'[q] = f) <=> q = v \/ (q \in Vars /\ task[q] = f)
        BY <1>5, <2>3, <3>1
      <4>3. (q \in Pointers /\ param'[q] = f) <=> (q \in Pointers /\ param[q] = f /\ q # p)
        BY <1>5, <2>1
      <4> QED
        BY <2>2, <4>1, <4>2, <4>3 DEF Holds
    <3>3. Moves(f, "param", p, "task", v)
      BY <2>3, <3>2 DEF Moves, Holds
    <3> QED
      BY <3>3
  <2>4. CASE param[p] # f /\ task[v] = f
    <3>1. ASSUME NEW k, NEW q
          PROVE  Holds(k, q, f)' <=>
                   \/ k = "destroy" /\ q = n + 1
                   \/ Holds(k, q, f) /\ ~(k = "task" /\ q = v)
      BY <1>4, <1>5, <2>1, <2>2, <2>4 DEF Holds
    <3>2. Moves(f, "task", v, "destroy", n + 1)
      BY <2>4, <3>1 DEF Moves, Holds
    <3> QED
      BY <3>2
  <2>5. CASE param[p] # f /\ task[v] # f
    BY <1>4, <1>5, <2>1, <2>2, <2>5 DEF Stays, Holds
  <2> QED
    BY <2>3, <2>4, <2>5
<1> QED
  BY <1>1, <1>6, <1>7, <1>8, KeepsAll

\* The innermost destroy() ends: nobody holds the frame it frees.
LEMMA FreeFrameKeeps ==
  ASSUME OwnerInv, FreeFrame
  PROVE  OwnerInv'
<1> DEFINE e == Innermost
           n == Len(dying)
<1>1. /\ dying # << >> /\ param[e] = Null
      /\ deallocate(e)
      /\ dying' = SubSeq(dying, 1, n - 1)
      /\ adopted' = adopted \ {e}
      /\ UNCHANGED <<task, param, awaiter>>
  BY DEF FreeFrame
<1>2. OwnerTypeOK /\ ParamsLive
  BY DEF OwnerInv
<1>3. /\ n \in Nat \ {0} /\ e \in Pointers /\ e = dying[n] /\ DOMAIN dying = 1..n
      /\ dying' \in Seq(Pointers) /\ DOMAIN dying' = 1..(n - 1)
      /\ \A i \in 1..(n - 1) : dying'[i] = dying[i]
  BY <1>1, <1>2 DEF OwnerTypeOK, Innermost
<1>4. PoolInv' /\ e \in LivePointers(blocks) /\ LivePointers(blocks') = LivePointers(blocks) \ {e}
  BY <1>1, DeallocateStep DEF OwnerInv
<1> HIDE DEF e, n
<1>5. OwnerTypeOK'
  BY <1>1, <1>2, <1>3 DEF OwnerTypeOK
<1>6. ParamsLive'
  BY <1>1, <1>2, <1>4 DEF ParamsLive
<1>7. \A i : i \in 1..n <=> i \in 1..(n - 1) \/ i = n
  BY <1>3
<1>8. n \notin 1..(n - 1)
  BY <1>3
<1> UNCHANGED Held
  <2>1. ASSUME NEW f, f # e
        PROVE  (\A i \in DOMAIN dying' : dying'[i] # f) <=> (\A i \in DOMAIN dying : dying[i] # f)
    BY <1>3, <1>7, <2>1
  <2>2. e \notin Held /\ e \notin Held'
    BY <1>1, <1>3 DEF Held
  <2> QED
    BY <1>1, <2>1, <2>2 DEF Held
<1>9. ASSUME NEW f \in Pointers, NEW k, NEW q
      PROVE  Holds(k, q, f)' <=> Holds(k, q, f) /\ ~(k = "destroy" /\ q = n)
  BY <1>1, <1>3, <1>7, <1>8 DEF Holds
<1>10. ASSUME NEW f \in Pointers PROVE OwnedOnce(f)'
  <2>1. OwnedOnce(f)
    BY DEF OwnerInv
  <2>2. CASE f = e
    <3>1. Holds("destroy", n, f)
      BY <1>3, <2>2 DEF Holds
    <3>2. \A k, q : Holds(k, q, f) => k = "destroy" /\ q = n
      BY <2>1, <3>1 DEF OwnedOnce
    <3>3. \A k, q : ~Holds(k, q, f)'
      BY <1>9, <3>2
    <3>4. f \notin LivePointers(blocks')
      BY <1>4, <2>2
    <3> QED
      BY <3>3, <3>4 DEF OwnedOnce
  <2>3. CASE f # e
    <3>1. ~Holds("destroy", n, f)
      BY <1>3, <2>3 DEF Holds
    <3>2. \A k, q : Holds(k, q, f)' <=> Holds(k, q, f)
      BY <1>9, <3>1
    <3>3. f \in LivePointers(blocks') <=> f \in LivePointers(blocks)
      BY <1>4, <2>3
    <3> QED
      BY <2>1, <3>2, <3>3 DEF OwnedOnce
  <2> QED
    BY <2>2, <2>3
<1> QED
  BY <1>4, <1>5, <1>6, <1>10 DEF OwnerInv

\* A call that is refused: the argument, if there is one, is destroyed.
LEMMA CallRefused ==
  ASSUME OwnerInv, NEW v \in Vars, NEW u \in Vars \union {NoVar}, NEW arg,
         arg = (IF u = NoVar THEN Null ELSE task[u]),
         task[v] = Null \/ u = v, PoolInv', UNCHANGED blocks,
         task' = [w \in Vars |-> IF w = v THEN Null ELSE IF w = u THEN Null ELSE task[w]],
         Destroy(arg), UNCHANGED <<param, awaiter, adopted>>
  PROVE  OwnerInv'
<1>1. OwnerTypeOK /\ ParamsLive /\ PoolInv /\ NoVar \notin Vars
  BY TaskAssumption DEF OwnerInv
<1>2. UNCHANGED poolVars
  BY <1>1 DEF PoolInv, poolVars
<1>3. ParamsLive'
  BY <1>1 DEF ParamsLive
<1>4. /\ task' \in [Vars -> Handles] /\ arg \in Handles
      /\ \A w \in Vars : task'[w] = IF w = u THEN Null ELSE task[w]
  BY <1>1 DEF OwnerTypeOK, Handles
<1>5. OwnerTypeOK'
  BY <1>1, <1>4, DestroyPushes DEF OwnerTypeOK
<1>6. CASE u \in Vars
  <2>1. u # NoVar /\ arg = task[u]
    BY <1>1, <1>6
  <2>2. Holds("task", u, arg)
    BY <1>6, <2>1 DEF Holds
  <2> UNCHANGED Held
    BY <1>4, <2>2, HeldKept
  <2>3. ASSUME NEW f \in Pointers, NEW k, NEW q, k # "destroy"
        PROVE  Holds(k, q, f)' <=> Holds(k, q, f) /\ ~(k = "task" /\ q = u)
    BY <1>4, <2>3, NullIsNone DEF Holds
  <2> QED
    BY <1>2, <1>3, <1>4, <1>5, <2>2, <2>3, TransferToDestroy
<1>7. CASE u = NoVar
  <2>1. UNCHANGED dying
    BY <1>7 DEF Destroy
  <2>2. \A w \in Vars : task'[w] = task[w]
    BY <1>1, <1>4, <1>7
  <2>3. ASSUME NEW f \in Pointers PROVE Stays(f)
    BY <2>1, <2>2 DEF Stays, Holds, Held
  <2> QED
    BY <1>2, <1>3, <1>5, <2>3, KeepsAll
<1> QED
  BY <1>6, <1>7

\* A call that creates the frame p: nobody held that address, and the argument
\* moves into it.
LEMMA CallCreates ==
  ASSUME OwnerInv, NEW v \in Vars, NEW u \in Vars \union {NoVar}, NEW arg,
         arg = (IF u = NoVar THEN Null ELSE task[u]),
         task[v] = Null \/ u = v, PoolInv', NEW p \in Pointers,
         p \notin LivePointers(blocks), LivePointers(blocks') = LivePointers(blocks) \union {p},
         task' = [w \in Vars |-> IF w = v THEN p ELSE IF w = u THEN Null ELSE task[w]],
         param' = [param EXCEPT ![p] = arg], UNCHANGED <<dying, awaiter, adopted>>
  PROVE  OwnerInv'
<1>1. OwnerTypeOK /\ ParamsLive /\ NoVar \notin Vars
  BY TaskAssumption DEF OwnerInv
<1>2. \A k, q : ~Holds(k, q, p)
  BY DEF OwnerInv, OwnedOnce
<1>3. /\ task' \in [Vars -> Handles] /\ arg \in Handles /\ task'[v] = p
      /\ u \in Vars => arg = task[u]
      /\ u \notin Vars => arg = Null
      /\ \A w \in Vars : w # v => task'[w] = IF w = u THEN Null ELSE task[w]
  BY <1>1 DEF OwnerTypeOK, Handles
<1>4. /\ param' \in [Pointers -> Handles] /\ param'[p] = arg /\ param[p] = Null
      /\ \A o \in Pointers : o # p => param'[o] = param[o]
  BY <1>1, <1>3 DEF OwnerTypeOK, ParamsLive
<1>5. OwnerTypeOK'
  BY <1>1, <1>3, <1>4 DEF OwnerTypeOK
<1>6. ParamsLive'
  BY <1>1, <1>4 DEF ParamsLive
<1>7. arg # p
  BY <1>2, <1>3, NullIsNone DEF Holds
<1> UNCHANGED Held
  BY DEF Held
<1>8. ASSUME NEW f \in Pointers PROVE OwnedOnce(f)'
  <2>1. OwnedOnce(f) /\ f # Null
    BY NullIsNone DEF OwnerInv
  <2>2. CASE f = p
    <3>1. \A w \in Vars : task[w] # f
      BY <1>2, <2>2 DEF Holds
    <3>2. ASSUME NEW k, NEW q PROVE Holds(k, q, f)' <=> k = "task" /\ q = v
      <4>1. (q \in Vars /\ task'[q] = f) <=> q = v
        BY <1>3, <2>1, <2>2, <3>1
      <4>2. ~(q \in Pointers /\ param'[q] = f)
        BY <1>2, <1>4, <1>7, <2>2 DEF Holds
      <4>3. /\ ~(q \in Awaiters /\ awaiter'[q].child = f)
            /\ ~(q \in Held' /\ q = f)
            /\ ~(q \in DOMAIN dying' /\ dying'[q] = f)
        BY <1>2, <2>2 DEF Holds
      <4> QED
        BY <4>1, <4>2, <4>3 DEF Holds
    <3> QED
      BY <2>2, <3>2 DEF OwnedOnce
  <2>3. f # p => (f \in LivePointers(blocks') <=> f \in LivePointers(blocks))
    OBVIOUS
  <2>4. CASE f # p /\ f = arg
    <3>1. u \in Vars /\ task[u] = f
      BY <1>3, <2>1, <2>4
    <3>2. Holds("task", u, f)
      BY <3>1 DEF Holds
    <3>3. \A k, q : Holds(k, q, f) => k = "task" /\ q = u
      BY <2>1, <3>2 DEF OwnedOnce
    <3>4. /\ \A w \in Vars : w # u => task[w] # f
          /\ \A o \in Pointers : param[o] # f
      BY <3>3 DEF Holds
    <3>5. ASSUME NEW k, NEW q PROVE Holds(k, q, f)' <=> k = "param" /\ q = p
      <4>1. ~(q \in Vars /\ task'[q] = f)
        BY <1>3, <2>1, <2>4, <3>4
      <4>2. (q \in Pointers /\ param'[q] = f) <=> q = p
        BY <1>4, <2>4, <3>4
      <4>3. /\ ~(q \in Awaiters /\ awaiter'[q].child = f)
            /\ ~(q \in Held' /\ q = f)
            /\ ~(q \in DOMAIN dying' /\ dying'[q] = f)
        BY <3>3 DEF Holds
      <4> QED
        BY <4>1, <4>2, <4>3 DEF Holds
    <3>6. f \in LivePointers(blocks)
      BY <2>1, <3>2 DEF OwnedOnce
    <3> QED
      BY <2>3, <2>4, <3>5, <3>6 DEF OwnedOnce
  <2>5. CASE f # p /\ f # arg
    <3>1. ASSUME NEW k, NEW q PROVE Holds(k, q, f)' <=> Holds(k, q, f)
      <4>1. (q \in Vars /\ task'[q] = f) <=> (q \in Vars /\ task[q] = f)
        BY <1>3, <2>1, <2>5
      <4>2. (q \in Pointers /\ param'[q] = f) <=> (q \in Pointers /\ param[q] = f)
        BY <1>4, <2>1, <2>5
      <4> QED
        BY <4>1, <4>2 DEF Holds
    <3> QED
      BY <2>1, <2>3, <2>5, <3>1 DEF OwnedOnce
  <2> QED
    BY <2>2, <2>4, <2>5
<1> QED
  BY <1>5, <1>6, <1>8 DEF OwnerInv

LEMMA CallKeeps ==
  ASSUME OwnerInv, NEW v \in Vars, NEW u \in Vars \union {NoVar}, NEW size \in Sizes,
         Call(v, u, size)
  PROVE  OwnerInv'
<1> DEFINE arg == IF u = NoVar THEN Null ELSE task[u]
<1>1. PICK p \in Pointers \union {Null} :
        /\ allocate(p, size, kAlign)
        /\ task' = [w \in Vars |-> IF w = v THEN p ELSE IF w = u THEN Null ELSE task[w]]
        /\ \/ /\ p # Null
              /\ param' = [param EXCEPT ![p] = arg]
              /\ UNCHANGED dying
           \/ /\ p = Null
              /\ Destroy(arg)
              /\ UNCHANGED param
  BY DEF Call
<1>2. (task[v] = Null \/ u = v) /\ UNCHANGED <<awaiter, adopted>>
  BY DEF Call
<1>3. size \in Nat /\ kAlign \in Nat
  BY PoolAssumption
<1>4. /\ PoolInv'
      /\ \/ p = Null /\ UNCHANGED blocks
         \/ /\ p \in Pointers /\ p \notin LivePointers(blocks)
            /\ LivePointers(blocks') = LivePointers(blocks) \union {p}
  BY <1>1, <1>3, AllocateStep DEF OwnerInv
<1> HIDE DEF arg
<1>5. CASE p = Null
  <2>1. UNCHANGED blocks /\ Destroy(arg) /\ UNCHANGED param
    BY <1>1, <1>4, <1>5, NullIsNone
  <2> QED
    BY <1>1, <1>2, <1>4, <1>5, <2>1, CallRefused DEF arg
<1>6. CASE p # Null
  BY <1>1, <1>2, <1>4, <1>6, CallCreates DEF arg
<1> QED
  BY <1>5, <1>6

-----------------------------------------------------------------------------
(* The theorems.                                                           *)

LEMMA OwnerInvInit == TaskInit => OwnerInv
<1> SUFFICES ASSUME TaskInit PROVE OwnerInv
  OBVIOUS
<1>1. /\ PoolInit /\ task = [v \in Vars |-> Null] /\ param = [p \in Pointers |-> Null]
      /\ awaiter = [a \in Awaiters |-> Absent] /\ adopted = {} /\ dying = << >>
  BY DEF TaskInit
<1>2. PoolInv
  BY <1>1, PoolInvInit
<1>3. OwnerTypeOK
  BY <1>1 DEF OwnerTypeOK, Handles, Absent
<1>4. ParamsLive
  BY <1>1 DEF ParamsLive
<1>5. LivePointers(blocks) = {}
  <2>1. blocks = [o \in {0} |-> FreeBlock(kUsable)]
    BY <1>1 DEF PoolInit
  <2>2. DOMAIN blocks = {0} /\ ~blocks[0].allocated
    BY <2>1 DEF FreeBlock
  <2>3. Allocated(blocks) = {}
    BY <2>2 DEF Allocated
  <2> QED
    BY <2>3, Zenon DEF LivePointers
<1>6. ASSUME NEW f \in Pointers PROVE OwnedOnce(f)
  <2>1. ASSUME NEW k, NEW q PROVE ~Holds(k, q, f)
    BY <1>1, NullIsNone DEF Holds, Held, Absent
  <2> QED
    BY <1>5, <2>1 DEF OwnedOnce
<1> QED
  BY <1>2, <1>3, <1>4, <1>6 DEF OwnerInv

LEMMA OwnerInvNext == OwnerInv /\ [TaskNext]_tvars => OwnerInv'
<1> SUFFICES ASSUME OwnerInv, [TaskNext]_tvars PROVE OwnerInv'
  OBVIOUS
\* AwaitEmpty only reports; a stuttering step does nothing.
<1>1. CASE UNCHANGED <<poolVars, task, param, awaiter, adopted, dying>>
  <2>1. OwnerTypeOK' /\ ParamsLive'
    BY <1>1 DEF OwnerInv, OwnerTypeOK, ParamsLive, poolVars
  <2>2. ASSUME NEW f \in Pointers PROVE Stays(f)
    BY <1>1 DEF Stays, Holds, Held
  <2> QED
    BY <1>1, <2>1, <2>2, KeepsAll
<1>2. CASE \E v \in Vars, u \in Vars \union {NoVar}, size \in Sizes : Call(v, u, size)
  BY <1>2, CallKeeps
<1>3. CASE \E v \in Vars, u \in Vars : MoveAssign(v, u)
  BY <1>3, MoveAssignKeeps
<1>4. CASE \E v \in Vars, f \in Pointers : MoveFromParam(v, f)
  BY <1>4, MoveFromParamKeeps
<1>5. CASE \E v \in Vars : reset(v)
  BY <1>5, ResetKeeps
<1>6. CASE \E v \in Vars : Schedule(v)
  BY <1>6, ScheduleKeeps
<1>7. CASE \E v \in Vars, a \in Awaiters : CoAwait(v, a)
  BY <1>7, CoAwaitKeeps
<1>8. CASE \E a \in Awaiters, b \in Awaiters : MoveAwaiter(a, b)
  BY <1>8, MoveAwaiterKeeps
<1>9. CASE \E a \in Awaiters : AwaitEmpty(a)
  BY <1>1, <1>9 DEF AwaitEmpty
<1>10. CASE \E a \in Awaiters : AwaitSuspend(a)
  BY <1>10, AwaitSuspendKeeps
<1>11. CASE \E a \in Awaiters : DropAwaiter(a)
  BY <1>11, AwaiterDestroys DEF DropAwaiter
<1>12. CASE \E f \in Pointers : Retire(f)
  BY <1>12, RetireKeeps
<1>13. CASE DestroyParam
  BY <1>13, DestroyParamKeeps
<1>14. CASE FreeFrame
  BY <1>14, FreeFrameKeeps
<1>15. CASE UNCHANGED tvars
  BY <1>1, <1>15 DEF tvars
<1> QED
  BY <1>2, <1>3, <1>4, <1>5, <1>6, <1>7, <1>8, <1>9, <1>10, <1>11, <1>12, <1>13, <1>14,
     <1>15 DEF TaskNext

LEMMA OwnerInvariant == TaskSpec => []OwnerInv
  BY OwnerInvInit, OwnerInvNext, PTL DEF TaskSpec

\* For every arena, alignment and mix of frame sizes, the blocks of the pool tile the
\* arena, payloads lie inside their blocks and bytesUsed_ is exact.
THEOREM PoolTiles == TaskSpec => []BlocksTile
<1>1. OwnerInv => BlocksTile
  BY PoolInvImplies DEF OwnerInv
<1> QED
  BY <1>1, OwnerInvariant, PTL

\* allocate() refuses a request only if the arena has no room for it anywhere.
THEOREM PoolRefusesOnlyWhenFull == TaskSpec => []RefusedOnlyWhenFull
<1>1. OwnerInv => RefusedOnlyWhenFull
  BY PoolInvImplies DEF OwnerInv
<1> QED
  BY <1>1, OwnerInvariant, PTL

\* In every reachable pool, deallocate() undoes allocate() to the last header, and
\* what was handed out is aligned and large enough.
THEOREM PoolUndoesAllocation == TaskSpec => []AllocationUndone
<1>1. OwnerInv => AllocationUndone
  BY PoolInvImplies DEF OwnerInv
<1> QED
  BY <1>1, OwnerInvariant, PTL

\* Every allocated frame has exactly one owner and no freed address has any: no
\* frame leaks, is destroyed twice or is used after it was destroyed.
THEOREM FramesOwnedOnce == TaskSpec => []SingleOwner
<1>1. OwnerInv => SingleOwner
  BY OwnersCount DEF OwnerInv, SingleOwner
<1> QED
  BY <1>1, OwnerInvariant, PTL

\* When no frame has an owner the arena is one free block again.
THEOREM PoolAlwaysRecovers == TaskSpec => []PoolRecovered
<1>1. ASSUME OwnerInv, \A f \in Pointers : Owners(f) = {}
      PROVE  blocks = [o \in {0} |-> FreeBlock(kUsable)] /\ bytesUsed = 0
  <2>1. Shape(blocks) /\ Coalesced(blocks) /\ bytesUsed = Cardinality(UsedBytes(blocks))
    BY <1>1 DEF OwnerInv, PoolInv
  <2>2. \A f \in Pointers : f \notin LivePointers(blocks)
    BY <1>1, OwnersCount DEF OwnerInv
  <2>3. ASSUME NEW o \in DOMAIN blocks PROVE ~blocks[o].allocated
    <3>1. blocks[o].allocated => Payload(blocks, o) \in Pointers
      BY <2>1, PayloadBounds
    <3>2. blocks[o].allocated => Payload(blocks, o) \in LivePointers(blocks)
      BY DEF LivePointers, Allocated
    <3> QED
      BY <2>2, <3>1, <3>2
  <2>4. ASSUME NEW o \in DOMAIN blocks PROVE End(blocks, o) = kUsable
    <3>1. End(blocks, o) \in DOMAIN blocks \union {kUsable}
      BY <2>1 DEF Shape
    <3>2. End(blocks, o) \in DOMAIN blocks => blocks[End(blocks, o)].allocated
      BY <2>1, <2>3 DEF Coalesced
    <3> QED
      BY <2>3, <3>1, <3>2
  <2>5. 0 \in DOMAIN blocks
    BY <2>1 DEF Shape
  <2>6. DOMAIN blocks = {0}
    BY <2>1, <2>4, <2>5, BlockUnique
  <2>7. blocks[0].size = kUsable
    BY <2>1, <2>4, <2>5, BlockBounds DEF End
  <2>8. blocks \in [{0} -> Block] /\ blocks[0] = FreeBlock(kUsable)
    BY <2>1, <2>3, <2>5, <2>6, <2>7 DEF Shape
  <2>9. blocks = [o \in {0} |-> FreeBlock(kUsable)]
    BY <2>8
  <2>10. Allocated(blocks) = {}
    BY <2>3 DEF Allocated
  <2>11. UsedBytes(blocks) = {}
    BY <2>1, <2>10, UsedIs, Zenon
  <2>12. bytesUsed = 0
    BY <2>1, <2>11, FS_EmptySet
  <2> QED
    BY <2>9, <2>12
<1>2. OwnerInv => PoolRecovered
  BY <1>1 DEF PoolRecovered
<1> QED
  BY <1>2, OwnerInvariant, PTL
==============================================================================
