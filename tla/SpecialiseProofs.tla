-------------------------- MODULE SpecialiseProofs --------------------------
(***************************************************************************)
(* Proofs about Specialise, for all functions, widths of words, sizes of   *)
(* the stack, and data: what the emulator takes as known is so.            *)
(***************************************************************************)
EXTENDS Specialise, TLAPS

----------------------------------------------------------------------------
(***************************************************************************)
(* Words.  All divisors are powers of two, of which there are few: facts   *)
(* are proved for each.                                                    *)
(***************************************************************************)
Half    == 2 ^ (W - 1)
Quarter == 2 ^ (W - 2)
Bits    == 0 .. (W - 1)

\* Powers of two, as numbers.
LEMMA PowersTo8 ==
  /\ 2 ^ 0 = 1 /\ 2 ^ 1 = 2 /\ 2 ^ 2 = 4 /\ 2 ^ 3 = 8 /\ 2 ^ 4 = 16
  /\ 2 ^ 5 = 32 /\ 2 ^ 6 = 64 /\ 2 ^ 7 = 128 /\ 2 ^ 8 = 256
  OBVIOUS

\* The same for a number that is not written down.
LEMMA PowerOf ==
  ASSUME NEW k \in 0 .. 7
  PROVE  /\ k = 0 => 2 ^ k = 1
         /\ k = 1 => 2 ^ k = 2
         /\ k = 2 => 2 ^ k = 4
         /\ k = 3 => 2 ^ k = 8
         /\ k = 4 => 2 ^ k = 16
         /\ k = 5 => 2 ^ k = 32
         /\ k = 6 => 2 ^ k = 64
         /\ k = 7 => 2 ^ k = 128
         /\ 2 ^ k \in {1, 2, 4, 8, 16, 32, 64, 128}
<1>1. k = 0 => 2 ^ k = 1 BY PowersTo8, Zenon
<1>2. k = 1 => 2 ^ k = 2 BY PowersTo8, Zenon
<1>3. k = 2 => 2 ^ k = 4 BY PowersTo8, Zenon
<1>4. k = 3 => 2 ^ k = 8 BY PowersTo8, Zenon
<1>5. k = 4 => 2 ^ k = 16 BY PowersTo8, Zenon
<1>6. k = 5 => 2 ^ k = 32 BY PowersTo8, Zenon
<1>7. k = 6 => 2 ^ k = 64 BY PowersTo8, Zenon
<1>8. k = 7 => 2 ^ k = 128 BY PowersTo8, Zenon
<1>9. k \in {0, 1, 2, 3, 4, 5, 6, 7} OBVIOUS
<1> QED BY <1>1, <1>2, <1>3, <1>4, <1>5, <1>6, <1>7, <1>8, <1>9

\* The modulus, and its half and quarter.
LEMMA Sizes ==
  /\ W \in {2, 4, 8}
  /\ \/ W = 2 /\ 2 ^ W = 4 /\ Half = 2 /\ Quarter = 1
     \/ W = 4 /\ 2 ^ W = 16 /\ Half = 8 /\ Quarter = 4
     \/ W = 8 /\ 2 ^ W = 256 /\ Half = 128 /\ Quarter = 64
<1>1. CASE W = 2
  <2>1. W - 1 = 1 /\ W - 2 = 0 BY <1>1
  <2>2. 2 ^ W = 4 /\ Half = 2 /\ Quarter = 1
    BY <1>1, <2>1, PowersTo8, Zenon DEF Half, Quarter
  <2> QED BY <1>1, <2>2
<1>2. CASE W = 4
  <2>1. W - 1 = 3 /\ W - 2 = 2 BY <1>2
  <2>2. 2 ^ W = 16 /\ Half = 8 /\ Quarter = 4
    BY <1>2, <2>1, PowersTo8, Zenon DEF Half, Quarter
  <2> QED BY <1>2, <2>2
<1>3. CASE W = 8
  <2>1. W - 1 = 7 /\ W - 2 = 6 BY <1>3
  <2>2. 2 ^ W = 256 /\ Half = 128 /\ Quarter = 64
    BY <1>3, <2>1, PowersTo8, Zenon DEF Half, Quarter
  <2> QED BY <1>3, <2>2
<1> QED BY <1>1, <1>2, <1>3, MachineAssumption

\* Words are small natural numbers.
LEMMA WordFacts ==
  /\ 2 ^ W \in {4, 16, 256} /\ Half \in {2, 8, 128} /\ Quarter \in {1, 4, 64}
  /\ 2 ^ W = 2 * Half /\ Half = 2 * Quarter
  /\ \A x : x \in Word <=> x \in Int /\ 0 <= x /\ x < 2 ^ W
<1>1. /\ 2 ^ W \in {4, 16, 256} /\ Half \in {2, 8, 128} /\ Quarter \in {1, 4, 64}
      /\ 2 ^ W = 2 * Half /\ Half = 2 * Quarter
  BY Sizes
<1> QED BY <1>1 DEF Word

\* Bits are 0 or 1.
LEMMA BitType == ASSUME NEW v \in Int, NEW k \in Bits PROVE Bit(v, k) \in {0, 1}
<1>1. k \in 0 .. 7 BY Sizes DEF Bits
<1>2. 2 ^ k \in {1, 2, 4, 8, 16, 32, 64, 128} BY <1>1, PowerOf
<1> QED BY <1>2 DEF Bit

\* Cutting off.
LEMMA MaskFacts ==
  /\ \A x \in Int : Mask(x) \in Word /\ Mask(Mask(x)) = Mask(x)
  /\ \A x \in Word : Mask(x) = x
  /\ \A x, y \in Int : /\ Mask(Mask(x) + y) = Mask(x + y) /\ Mask(x + Mask(y)) = Mask(x + y)
                       /\ Mask(Mask(x) - y) = Mask(x - y) /\ Mask(x - Mask(y)) = Mask(x - y)
<1> DEFINE M == 2 ^ W
<1>1. M \in {4, 16, 256} /\ \A x : x \in Word <=> x \in Int /\ 0 <= x /\ x < M
  BY WordFacts
<1>2. \A x : Mask(x) = x % M BY DEF Mask
<1> HIDE DEF M
<1>3. CASE M = 4 BY <1>1, <1>2, <1>3
<1>4. CASE M = 16 BY <1>1, <1>2, <1>4
<1>5. CASE M = 256 BY <1>1, <1>2, <1>5
<1> QED BY <1>1, <1>3, <1>4, <1>5

\* The sign is the top bit.
LEMMA SignFacts ==
  ASSUME NEW v \in Word
  PROVE  /\ Negative(v) <=> v >= Half
         /\ Signed(v) = IF v >= Half THEN v - 2 ^ W ELSE v
         /\ Signed(v) \in Int /\ Signed(v) < Half /\ Signed(v) >= 0 - Half
         /\ Bit(v, W - 1) = IF v >= Half THEN 1 ELSE 0
<1>1. /\ Half \in {2, 8, 128} /\ 2 ^ W = 2 * Half
      /\ v \in Int /\ 0 <= v /\ v < 2 ^ W
  BY WordFacts
<1>2. Bit(v, W - 1) = (v \div Half) % 2 BY DEF Bit, Half
<1>3. (v \div Half) % 2 = IF v >= Half THEN 1 ELSE 0 BY <1>1
<1>4. Negative(v) <=> v >= Half BY <1>2, <1>3 DEF Negative
<1>5. Signed(v) = IF v >= Half THEN v - 2 ^ W ELSE v BY <1>4 DEF Signed
<1> QED BY <1>1, <1>2, <1>3, <1>4, <1>5

\* A bit, by the power of two it stands for.
LEMMA BitAt == ASSUME NEW c, NEW k, NEW p, 2 ^ k = p PROVE Bit(c, k) = (c \div p) % 2
  BY DEF Bit

\* Any bits make a word.
LEMMA BitsMakeWord ==
  ASSUME NEW f \in [Bits -> {0, 1}]
  PROVE  \E c \in Word : \A k \in Bits : Bit(c, k) = f[k]
<1>1. CASE W = 2
  <2> DEFINE c == f[0] + 2 * f[1]
  <2>1. f[0] \in {0, 1} /\ f[1] \in {0, 1} BY <1>1 DEF Bits
  <2>2. c \in Word BY <1>1, <2>1, Sizes, WordFacts
  <2>3. ASSUME NEW k \in Bits PROVE Bit(c, k) = f[k]
    <3>1. k \in {0, 1} /\ k \in 0 .. 7 BY <1>1 DEF Bits
    <3>2. /\ k = 0 => 2 ^ k = 1
          /\ k = 1 => 2 ^ k = 2
      BY <3>1, PowerOf
    <3>3. (c \div 1) % 2 = f[0] /\ (c \div 2) % 2 = f[1] BY <2>1
    <3> QED BY <3>1, <3>2, <3>3 DEF Bit
  <2> QED BY <2>2, <2>3
<1>2. CASE W = 4
  <2> DEFINE c == f[0] + 2 * f[1] + 4 * f[2] + 8 * f[3]
  <2>1. /\ f[0] \in {0, 1} /\ f[1] \in {0, 1} /\ f[2] \in {0, 1} /\ f[3] \in {0, 1}
    BY <1>2 DEF Bits
  <2>2. c \in Word
    <3>1. c \in Int /\ 0 <= c /\ c < 16 BY <2>1
    <3> HIDE DEF c
    <3> QED BY <1>2, <3>1, Sizes, WordFacts
  <2>3. ASSUME NEW k \in Bits PROVE Bit(c, k) = f[k]
    <3>1. k \in {0, 1, 2, 3} /\ k \in 0 .. 7 BY <1>2 DEF Bits
    <3>2. /\ k = 0 => 2 ^ k = 1
          /\ k = 1 => 2 ^ k = 2
          /\ k = 2 => 2 ^ k = 4
          /\ k = 3 => 2 ^ k = 8
      BY <3>1, PowerOf
    <3>3. /\ (c \div 1) % 2 = f[0] /\ (c \div 2) % 2 = f[1]
          /\ (c \div 4) % 2 = f[2] /\ (c \div 8) % 2 = f[3]
      BY <2>1
    <3>4. ASSUME k = 0 PROVE Bit(c, k) = f[k]
      <4>1. 2 ^ k = 1 BY <3>2, <3>4
      <4>2. Bit(c, k) = (c \div 1) % 2 BY <4>1, BitAt, Zenon
      <4> HIDE DEF c
      <4> QED BY <3>3, <3>4, <4>2
    <3>5. ASSUME k = 1 PROVE Bit(c, k) = f[k]
      <4>1. 2 ^ k = 2 BY <3>2, <3>5
      <4>2. Bit(c, k) = (c \div 2) % 2 BY <4>1, BitAt, Zenon
      <4> HIDE DEF c
      <4> QED BY <3>3, <3>5, <4>2
    <3>6. ASSUME k = 2 PROVE Bit(c, k) = f[k]
      <4>1. 2 ^ k = 4 BY <3>2, <3>6
      <4>2. Bit(c, k) = (c \div 4) % 2 BY <4>1, BitAt, Zenon
      <4> HIDE DEF c
      <4> QED BY <3>3, <3>6, <4>2
    <3>7. ASSUME k = 3 PROVE Bit(c, k) = f[k]
      <4>1. 2 ^ k = 8 BY <3>2, <3>7
      <4>2. Bit(c, k) = (c \div 8) % 2 BY <4>1, BitAt, Zenon
      <4> HIDE DEF c
      <4> QED BY <3>3, <3>7, <4>2
    <3> QED BY <3>1, <3>4, <3>5, <3>6, <3>7
  <2> QED BY <2>2, <2>3
<1>3. CASE W = 8
  <2> DEFINE c == f[0] + 2 * f[1] + 4 * f[2] + 8 * f[3]
                    + 16 * f[4] + 32 * f[5] + 64 * f[6] + 128 * f[7]
  <2>1. /\ f[0] \in {0, 1} /\ f[1] \in {0, 1} /\ f[2] \in {0, 1} /\ f[3] \in {0, 1}
        /\ f[4] \in {0, 1} /\ f[5] \in {0, 1} /\ f[6] \in {0, 1} /\ f[7] \in {0, 1}
    BY <1>3 DEF Bits
  <2>2. c \in Word
    <3>1. c \in Int /\ 0 <= c /\ c < 256 BY <2>1
    <3> HIDE DEF c
    <3> QED BY <1>3, <3>1, Sizes, WordFacts
  <2>3. ASSUME NEW k \in Bits PROVE Bit(c, k) = f[k]
    <3>1. k \in {0, 1, 2, 3, 4, 5, 6, 7} /\ k \in 0 .. 7 BY <1>3 DEF Bits
    <3>2. /\ k = 0 => 2 ^ k = 1
          /\ k = 1 => 2 ^ k = 2
          /\ k = 2 => 2 ^ k = 4
          /\ k = 3 => 2 ^ k = 8
          /\ k = 4 => 2 ^ k = 16
          /\ k = 5 => 2 ^ k = 32
          /\ k = 6 => 2 ^ k = 64
          /\ k = 7 => 2 ^ k = 128
      BY <3>1, PowerOf
    <3>3. /\ (c \div 1) % 2 = f[0] /\ (c \div 2) % 2 = f[1]
          /\ (c \div 4) % 2 = f[2] /\ (c \div 8) % 2 = f[3]
          /\ (c \div 16) % 2 = f[4] /\ (c \div 32) % 2 = f[5]
          /\ (c \div 64) % 2 = f[6] /\ (c \div 128) % 2 = f[7]
      BY <2>1
    <3>4. ASSUME k = 0 PROVE Bit(c, k) = f[k]
      <4>1. 2 ^ k = 1 BY <3>2, <3>4
      <4>2. Bit(c, k) = (c \div 1) % 2 BY <4>1, BitAt, Zenon
      <4> HIDE DEF c
      <4> QED BY <3>3, <3>4, <4>2
    <3>5. ASSUME k = 1 PROVE Bit(c, k) = f[k]
      <4>1. 2 ^ k = 2 BY <3>2, <3>5
      <4>2. Bit(c, k) = (c \div 2) % 2 BY <4>1, BitAt, Zenon
      <4> HIDE DEF c
      <4> QED BY <3>3, <3>5, <4>2
    <3>6. ASSUME k = 2 PROVE Bit(c, k) = f[k]
      <4>1. 2 ^ k = 4 BY <3>2, <3>6
      <4>2. Bit(c, k) = (c \div 4) % 2 BY <4>1, BitAt, Zenon
      <4> HIDE DEF c
      <4> QED BY <3>3, <3>6, <4>2
    <3>7. ASSUME k = 3 PROVE Bit(c, k) = f[k]
      <4>1. 2 ^ k = 8 BY <3>2, <3>7
      <4>2. Bit(c, k) = (c \div 8) % 2 BY <4>1, BitAt, Zenon
      <4> HIDE DEF c
      <4> QED BY <3>3, <3>7, <4>2
    <3>8. ASSUME k = 4 PROVE Bit(c, k) = f[k]
      <4>1. 2 ^ k = 16 BY <3>2, <3>8
      <4>2. Bit(c, k) = (c \div 16) % 2 BY <4>1, BitAt, Zenon
      <4> HIDE DEF c
      <4> QED BY <3>3, <3>8, <4>2
    <3>9. ASSUME k = 5 PROVE Bit(c, k) = f[k]
      <4>1. 2 ^ k = 32 BY <3>2, <3>9
      <4>2. Bit(c, k) = (c \div 32) % 2 BY <4>1, BitAt, Zenon
      <4> HIDE DEF c
      <4> QED BY <3>3, <3>9, <4>2
    <3>10. ASSUME k = 6 PROVE Bit(c, k) = f[k]
      <4>1. 2 ^ k = 64 BY <3>2, <3>10
      <4>2. Bit(c, k) = (c \div 64) % 2 BY <4>1, BitAt, Zenon
      <4> HIDE DEF c
      <4> QED BY <3>3, <3>10, <4>2
    <3>11. ASSUME k = 7 PROVE Bit(c, k) = f[k]
      <4>1. 2 ^ k = 128 BY <3>2, <3>11
      <4>2. Bit(c, k) = (c \div 128) % 2 BY <4>1, BitAt, Zenon
      <4> HIDE DEF c
      <4> QED BY <3>3, <3>11, <4>2
    <3> QED BY <3>1, <3>4, <3>5, <3>6, <3>7, <3>8, <3>9, <3>10, <3>11
  <2> QED BY <2>2, <2>3
<1> QED BY <1>1, <1>2, <1>3, Sizes

\* What the tables hold.
LEMMA TableValue ==
  ASSUME NEW a \in Word, NEW b \in Word
  PROVE  /\ AndOf(a, b) = CHOOSE c \in Word : \A k \in 0 .. (W - 1) : Bit(c, k) = And(Bit(a, k), Bit(b, k))
         /\ OrOf(a, b) = CHOOSE c \in Word : \A k \in 0 .. (W - 1) : Bit(c, k) = Or(Bit(a, k), Bit(b, k))
         /\ XorOf(a, b) = CHOOSE c \in Word : \A k \in 0 .. (W - 1) : Bit(c, k) = Xor(Bit(a, k), Bit(b, k))
<1>1. AndOf(a, b) = CHOOSE c \in Word : \A k \in 0 .. (W - 1) : Bit(c, k) = And(Bit(a, k), Bit(b, k))
  BY SMT DEF AndOf, AndTable, BitTable
<1>2. OrOf(a, b) = CHOOSE c \in Word : \A k \in 0 .. (W - 1) : Bit(c, k) = Or(Bit(a, k), Bit(b, k))
  BY SMT DEF OrOf, OrTable, BitTable
<1>3. XorOf(a, b) = CHOOSE c \in Word : \A k \in 0 .. (W - 1) : Bit(c, k) = Xor(Bit(a, k), Bit(b, k))
  BY SMT DEF XorOf, XorTable, BitTable
<1> QED BY <1>1, <1>2, <1>3

\* AND, OR and XOR yield words, bit by bit.
LEMMA BitwiseBits ==
  ASSUME NEW a \in Word, NEW b \in Word
  PROVE  /\ AndOf(a, b) \in Word /\ OrOf(a, b) \in Word /\ XorOf(a, b) \in Word
         /\ \A k \in Bits : /\ Bit(AndOf(a, b), k) = And(Bit(a, k), Bit(b, k))
                            /\ Bit(OrOf(a, b), k) = Or(Bit(a, k), Bit(b, k))
                            /\ Bit(XorOf(a, b), k) = Xor(Bit(a, k), Bit(b, k))
<1>1. \A k \in Bits : Bit(a, k) \in {0, 1} /\ Bit(b, k) \in {0, 1}
  BY WordFacts, BitType
<1>2. AndOf(a, b) \in Word /\ \A k \in Bits : Bit(AndOf(a, b), k) = And(Bit(a, k), Bit(b, k))
  <2> DEFINE f == [k \in Bits |-> And(Bit(a, k), Bit(b, k))]
  <2>1. f \in [Bits -> {0, 1}] BY <1>1 DEF And
  <2>2. \E c \in Word : \A k \in Bits : Bit(c, k) = f[k] BY <2>1, BitsMakeWord
  <2> QED BY <2>2, TableValue DEF Bits
<1>3. OrOf(a, b) \in Word /\ \A k \in Bits : Bit(OrOf(a, b), k) = Or(Bit(a, k), Bit(b, k))
  <2> DEFINE f == [k \in Bits |-> Or(Bit(a, k), Bit(b, k))]
  <2>1. f \in [Bits -> {0, 1}] BY <1>1 DEF Or
  <2>2. \E c \in Word : \A k \in Bits : Bit(c, k) = f[k] BY <2>1, BitsMakeWord
  <2> QED BY <2>2, TableValue DEF Bits
<1>4. XorOf(a, b) \in Word /\ \A k \in Bits : Bit(XorOf(a, b), k) = Xor(Bit(a, k), Bit(b, k))
  <2> DEFINE f == [k \in Bits |-> Xor(Bit(a, k), Bit(b, k))]
  <2>1. f \in [Bits -> {0, 1}] BY <1>1 DEF Xor
  <2>2. \E c \in Word : \A k \in Bits : Bit(c, k) = f[k] BY <2>1, BitsMakeWord
  <2> QED BY <2>2, TableValue DEF Bits
<1> QED BY <1>2, <1>3, <1>4

\* The carry out of bit k of d - s = r, as the code computes it.
ChainBit(rk, dk, sk) == (dk = 0 /\ sk = 1) \/ (rk = 1 /\ (dk = 0 \/ sk = 1))

\* The top bit and the one below it, of numbers below M.
ChainRight(Q, d, s, r) ==
  /\ ChainBit((r \div (2 * Q)) % 2, (d \div (2 * Q)) % 2, (s \div (2 * Q)) % 2) <=> d < s
  /\ ChainBit((r \div Q) % 2, (d \div Q) % 2, (s \div Q) % 2) <=> d % (2 * Q) < s % (2 * Q)
  /\ r = IF d < s THEN d - s + 4 * Q ELSE d - s

\* The borrow formula of the emulator, for each of the word sizes.
LEMMA Borrows ==
  ASSUME NEW Q \in {1, 4, 64}, NEW d \in 0 .. (4 * Q - 1), NEW s \in 0 .. (4 * Q - 1)
  PROVE  ChainRight(Q, d, s, (d - s) % (4 * Q))
<1>1. CASE Q = 1 BY <1>1 DEF ChainBit, ChainRight
<1>2. CASE Q = 4 BY <1>2 DEF ChainBit, ChainRight
<1>3. CASE Q = 64 BY <1>3 DEF ChainBit, ChainRight
<1> QED BY <1>1, <1>2, <1>3

\* Differences overflow if carries into and out of the top bit differ.
LEMMA Overflows ==
  ASSUME NEW H \in Int, NEW M, M = 2 * H, H > 0,
         NEW d \in 0 .. (M - 1), NEW s \in 0 .. (M - 1), NEW r,
         r = IF d < s THEN d - s + M ELSE d - s,
         NEW dl, NEW sl, dl = (IF d >= H THEN d - H ELSE d), sl = (IF s >= H THEN s - H ELSE s)
  PROVE  ((d < s) # (dl < sl)) <=>
           ((IF d >= H THEN d - M ELSE d) - (IF s >= H THEN s - M ELSE s)
              # (IF r >= H THEN r - M ELSE r))
  OBVIOUS

\* The bits of a chain of carries.
LEMMA ChainBits ==
  ASSUME NEW r \in Word, NEW d \in Word, NEW s \in Word, NEW k \in {W - 1, W - 2}
  PROVE  /\ Chain(r, d, s) \in Word /\ k \in Bits
         /\ Bit(Chain(r, d, s), k) = 1 <=> ChainBit(Bit(r, k), Bit(d, k), Bit(s, k))
         /\ Bit(Chain(r, d, s), k) \in {0, 1}
<1> DEFINE n == NotOf(d)
<1>0. k \in Bits BY Sizes DEF Bits
<1>1. n \in Word /\ Bit(n, k) = 1 - Bit(d, k)
  <2>1. /\ n = 2 ^ W - 1 - d /\ 2 ^ W \in {4, 16, 256} /\ Half \in {2, 8, 128}
        /\ Quarter \in {1, 4, 64} /\ 2 ^ W = 2 * Half /\ Half = 2 * Quarter
        /\ d \in Int /\ 0 <= d /\ d < 2 ^ W
    BY WordFacts DEF NotOf
  <2>2. n \in Word BY <2>1, WordFacts
  <2> HIDE DEF n
  <2>3. CASE k = W - 1
    <3>1. Bit(n, k) = (n \div Half) % 2 /\ Bit(d, k) = (d \div Half) % 2 BY <2>3 DEF Bit, Half
    <3>2. (n \div Half) % 2 = 1 - ((d \div Half) % 2) BY <2>1
    <3> QED BY <2>2, <3>1, <3>2
  <2>4. CASE k = W - 2
    <3>1. Bit(n, k) = (n \div Quarter) % 2 /\ Bit(d, k) = (d \div Quarter) % 2 BY <2>4 DEF Bit, Quarter
    <3>2. (n \div Quarter) % 2 = 1 - ((d \div Quarter) % 2)
      <4>1. CASE Quarter = 1 BY <2>1, <4>1
      <4>2. CASE Quarter = 4 BY <2>1, <4>2
      <4>3. CASE Quarter = 64 BY <2>1, <4>3
      <4> QED BY <2>1, <4>1, <4>2, <4>3
    <3> QED BY <2>2, <3>1, <3>2
  <2> QED BY <2>3, <2>4
<1> HIDE DEF n
<1>2. OrOf(n, s) \in Word /\ Bit(OrOf(n, s), k) = Or(Bit(n, k), Bit(s, k))
  BY <1>0, <1>1, BitwiseBits
<1>3. /\ AndOf(r, OrOf(n, s)) \in Word
      /\ Bit(AndOf(r, OrOf(n, s)), k) = And(Bit(r, k), Bit(OrOf(n, s), k))
  BY <1>0, <1>2, BitwiseBits
<1>4. AndOf(n, s) \in Word /\ Bit(AndOf(n, s), k) = And(Bit(n, k), Bit(s, k))
  BY <1>0, <1>1, BitwiseBits
<1>5. Chain(r, d, s) = OrOf(AndOf(r, OrOf(n, s)), AndOf(n, s)) BY DEF Chain, n
<1>6. /\ Chain(r, d, s) \in Word
      /\ Bit(Chain(r, d, s), k)
           = Or(Bit(AndOf(r, OrOf(n, s)), k), Bit(AndOf(n, s), k))
  BY <1>0, <1>3, <1>4, <1>5, BitwiseBits
<1>7. Bit(r, k) \in {0, 1} /\ Bit(d, k) \in {0, 1} /\ Bit(s, k) \in {0, 1}
  BY <1>0, BitType, WordFacts
<1>8. Bit(Chain(r, d, s), k) \in {0, 1} BY <1>0, <1>6, BitType, WordFacts
<1>9. Bit(Chain(r, d, s), k) = 1 <=> ChainBit(Bit(r, k), Bit(d, k), Bit(s, k))
  BY <1>1, <1>2, <1>3, <1>4, <1>6, <1>7 DEF And, Or, ChainBit
<1> QED BY <1>0, <1>6, <1>8, <1>9

\* Subtracting: the emulator's flags are the processor's.
LEMMA SubFlagsRight ==
  ASSUME NEW d \in Word, NEW s \in Word
  PROVE  FlagsOf(Mask(d - s), d = s, Chain(Mask(d - s), d, s)) = SubFlags(d, s)
<1> DEFINE M == 2 ^ W
           r == Mask(d - s)
           c == Chain(r, d, s)
<1>1. /\ M = 4 * Quarter /\ Half = 2 * Quarter /\ Quarter \in {1, 4, 64}
      /\ d \in 0 .. (M - 1) /\ s \in 0 .. (M - 1) /\ r = (d - s) % M
      /\ r \in Word
  <2>1. d - s \in Int BY WordFacts
  <2>2. r \in Word BY <2>1, MaskFacts
  <2>3. r = (d - s) % M BY DEF Mask
  <2> HIDE DEF r
  <2> QED BY <2>2, <2>3, WordFacts
<1> HIDE DEF M, r
<1>2. /\ ChainBit((r \div Half) % 2, (d \div Half) % 2, (s \div Half) % 2) <=> d < s
      /\ ChainBit((r \div Quarter) % 2, (d \div Quarter) % 2, (s \div Quarter) % 2)
           <=> d % Half < s % Half
      /\ r = IF d < s THEN d - s + M ELSE d - s
      /\ \A x \in {d, s} : x % Half = IF x >= Half THEN x - Half ELSE x
  <2>1. /\ Quarter \in {1, 4, 64} /\ d \in 0 .. (4 * Quarter - 1) /\ s \in 0 .. (4 * Quarter - 1)
        /\ r = (d - s) % (4 * Quarter)
    BY <1>1
  <2>2. /\ ChainBit((r \div (2 * Quarter)) % 2, (d \div (2 * Quarter)) % 2, (s \div (2 * Quarter)) % 2)
             <=> d < s
        /\ ChainBit((r \div Quarter) % 2, (d \div Quarter) % 2, (s \div Quarter) % 2)
             <=> d % (2 * Quarter) < s % (2 * Quarter)
        /\ r = IF d < s THEN d - s + 4 * Quarter ELSE d - s
    <3>1. ChainRight(Quarter, d, s, (d - s) % (4 * Quarter)) BY <2>1, Borrows, Zenon
    <3>2. ChainRight(Quarter, d, s, r) BY <2>1, <3>1, Zenon
    <3> QED BY <3>2, Zenon DEF ChainRight
  <2>3. \A x \in {d, s} : x % Half = IF x >= Half THEN x - Half ELSE x
    <3>1. CASE Quarter = 1 BY <1>1, <3>1
    <3>2. CASE Quarter = 4 BY <1>1, <3>2
    <3>3. CASE Quarter = 64 BY <1>1, <3>3
    <3> QED BY <1>1, <3>1, <3>2, <3>3
  <2>4. M = 4 * Quarter /\ Half = 2 * Quarter BY <1>1
  <2> QED BY <2>2, <2>3, <2>4, Zenon
<1>3. \A x : Bit(x, W - 1) = (x \div Half) % 2 /\ Bit(x, W - 2) = (x \div Quarter) % 2
  BY DEF Bit, Half, Quarter
<1>4. /\ c \in Word
      /\ Bit(c, W - 1) = 1 <=> ChainBit(Bit(r, W - 1), Bit(d, W - 1), Bit(s, W - 1))
      /\ Bit(c, W - 2) = 1 <=> ChainBit(Bit(r, W - 2), Bit(d, W - 2), Bit(s, W - 2))
      /\ Bit(c, W - 1) \in {0, 1} /\ Bit(c, W - 2) \in {0, 1}
  BY <1>1, ChainBits DEF r
<1> HIDE DEF c
<1>5. Bit(c, W - 1) = 1 <=> d < s BY <1>2, <1>3, <1>4
<1>6. Bit(c, W - 2) = 1 <=> d % Half < s % Half BY <1>2, <1>3, <1>4
<1>7. Bit(c, W - 1) # Bit(c, W - 2) <=> ((d < s) # (d % Half < s % Half))
  BY <1>4, <1>5, <1>6
<1>8. ((d < s) # (d % Half < s % Half)) <=> Signed(d) - Signed(s) # Signed(r)
  <2>1. \A x \in {d, s, r} : Signed(x) = IF x >= Half THEN x - M ELSE x
    BY <1>1, SignFacts DEF M
  <2>2. d % Half = (IF d >= Half THEN d - Half ELSE d)
        /\ s % Half = (IF s >= Half THEN s - Half ELSE s)
    BY <1>2
  <2>3. Half \in Int /\ M = 2 * Half /\ Half > 0 BY <1>1
  <2> QED BY <1>1, <1>2, <2>1, <2>2, <2>3, Overflows
<1>9. (d = s) = (r = 0) BY <1>1, <1>2
<1>10. /\ (Bit(r, W - 1) = 1) = Negative(r)
       /\ (Bit(c, W - 1) = 1) = (d < s)
       /\ (Bit(c, W - 1) # Bit(c, W - 2)) = (Signed(d) - Signed(s) # Signed(r))
  BY <1>5, <1>7, <1>8 DEF Negative
<1>11. FlagsOf(r, d = s, c) = Flags(r, d < s, Signed(d) - Signed(s) # Signed(r))
  BY <1>9, <1>10, Zenon DEF FlagsOf, Flags
<1> QED BY <1>11 DEF SubFlags, c, r

----------------------------------------------------------------------------
(***************************************************************************)
(* What is known of values, and of what is computed from them.             *)
(***************************************************************************)
\* The states of combinations.
LEMMA CombinedState ==
  ASSUME NEW s1 \in CaptureState, NEW s2 \in CaptureState, NEW same \in BOOLEAN
  PROVE  LET c == combineState(s1, s2, same)
         IN /\ c \in CaptureState
            /\ csIsStatic(c) => csIsStatic(s1) /\ csIsStatic(s2)
            /\ c = "STACKRELATIVE" /\ same => s1 = "STACKRELATIVE" /\ s2 = "STACKRELATIVE"
            /\ c = "STACKRELATIVE" /\ ~same =>
                 \/ s1 = "STACKRELATIVE" /\ csIsStatic(s2)
                 \/ s2 = "STACKRELATIVE" /\ csIsStatic(s1)
<1>1. CASE "DEAD" \in {s1, s2} BY <1>1 DEF combineState, CaptureState, csIsStatic
<1>2. CASE "DEAD" \notin {s1, s2} /\ {s1, s2} \subseteq {"STATIC", "STATIC2"}
  BY <1>2 DEF combineState, CaptureState, csIsStatic
<1>3. CASE "DEAD" \notin {s1, s2} /\ ~({s1, s2} \subseteq {"STATIC", "STATIC2"})
  BY <1>3 DEF combineState, CaptureState, csIsStatic
<1> QED BY <1>1, <1>2, <1>3

\* Flags of a combination are known only if both values are.
LEMMA CombinedForFlags ==
  ASSUME NEW s1 \in CaptureState, NEW s2 \in CaptureState
  PROVE  /\ combineState4Flags(s1, s2) \in {"DEAD", "DYNAMIC", "STATIC"}
         /\ combineState4Flags(s1, s2) = "STATIC" => csIsStatic(s1) /\ csIsStatic(s2)
<1> DEFINE c == combineState(s1, s2, FALSE)
<1>1. c \in CaptureState /\ (csIsStatic(c) => csIsStatic(s1) /\ csIsStatic(s2))
  BY CombinedState
<1>2. combineState4Flags(s1, s2) =
        CASE c = "STACKRELATIVE" -> "DYNAMIC" [] c = "STATIC2" -> "STATIC" [] OTHER -> c
  BY DEF combineState4Flags
<1> HIDE DEF c
<1> QED BY <1>1, <1>2 DEF CaptureState, csIsStatic

\* Where the stack is.
LEMMA StackFacts ==
  /\ StackStart \in Nat /\ StackSize \in Nat /\ StackTop \in Word /\ Base \in Word
  /\ StackTop = StackStart + StackSize /\ Base >= StackSize
  /\ \A o \in Slots : SlotAddr(o) \in Word /\ SlotAddr(o) \in StackAddrs
  /\ \A o, p \in Slots : SlotAddr(o) = SlotAddr(p) => o = p
<1>1. /\ StackStart \in Nat /\ StackSize \in Nat /\ StackTop \in Word /\ Base \in Word
      /\ StackTop = StackStart + StackSize /\ Base >= StackSize
  BY EmulatorAssumption, SpecialiseAssumption DEF StackTop
<1>2. \A o \in Slots : SlotAddr(o) \in Word BY <1>1, WordFacts DEF Slots, SlotAddr
<1>3. \A o, p \in Slots : SlotAddr(o) = SlotAddr(p) => o = p
  BY <1>1, WordFacts DEF Slots, SlotAddr
<1> QED BY <1>1, <1>2, <1>3 DEF StackAddrs

\* Nothing is claimed of values that are dead or dynamic.
LEMMA MeansNothing ==
  ASSUME NEW v, NEW x
  PROVE  MeansValue("DYNAMIC", v, x) /\ MeansValue("DEAD", v, x)
  BY DEF MeansValue, csIsStatic

\* Sums of values, as the emulator forms them.
LEMMA MeansSum ==
  ASSUME NEW s1 \in CaptureState, NEW s2 \in CaptureState,
         NEW v1 \in Word, NEW v2 \in Word, NEW x1 \in Word, NEW x2 \in Word,
         MeansValue(s1, v1, x1), MeansValue(s2, v2, x2)
  PROVE  MeansValue(combineState(s1, s2, FALSE), Mask(v1 + v2), Mask(x1 + x2))
<1> DEFINE c == combineState(s1, s2, FALSE)
<1>1. /\ csIsStatic(c) => csIsStatic(s1) /\ csIsStatic(s2)
      /\ c = "STACKRELATIVE" => \/ s1 = "STACKRELATIVE" /\ csIsStatic(s2)
                                \/ s2 = "STACKRELATIVE" /\ csIsStatic(s1)
  BY CombinedState
<1> HIDE DEF c
<1>2. /\ v1 \in Int /\ v2 \in Int /\ x1 \in Int /\ x2 \in Int /\ Base \in Int /\ StackTop \in Int
      /\ x1 + x2 \in Int /\ v1 + v2 \in Int
      /\ x1 - Base \in Int /\ v1 - StackTop \in Int /\ x2 - Base \in Int /\ v2 - StackTop \in Int
  BY WordFacts, StackFacts
<1>3. ASSUME csIsStatic(c) PROVE Mask(x1 + x2) = Mask(v1 + v2)
  BY <1>1, <1>3 DEF MeansValue
<1>4. ASSUME c = "STACKRELATIVE" PROVE Mask(Mask(x1 + x2) - Base) = Mask(Mask(v1 + v2) - StackTop)
  <2>1. /\ Mask(Mask(x1 + x2) - Base) = Mask((x1 + x2) - Base)
        /\ Mask(Mask(v1 + v2) - StackTop) = Mask((v1 + v2) - StackTop)
    BY <1>2, MaskFacts, Zenon
  <2>2. CASE s1 = "STACKRELATIVE" /\ csIsStatic(s2)
    <3>1. x2 = v2 /\ Mask(x1 - Base) = Mask(v1 - StackTop) BY <2>2 DEF MeansValue
    <3>2. /\ Mask(Mask(x1 - Base) + x2) = Mask((x1 - Base) + x2)
          /\ Mask(Mask(v1 - StackTop) + x2) = Mask((v1 - StackTop) + x2)
      BY <1>2, MaskFacts, Zenon
    <3>3. (x1 - Base) + x2 = (x1 + x2) - Base /\ (v1 - StackTop) + v2 = (v1 + v2) - StackTop
      BY <1>2
    <3> QED BY <2>1, <3>1, <3>2, <3>3
  <2>3. CASE s2 = "STACKRELATIVE" /\ csIsStatic(s1)
    <3>1. x1 = v1 /\ Mask(x2 - Base) = Mask(v2 - StackTop) BY <2>3 DEF MeansValue
    <3>2. /\ Mask(Mask(x2 - Base) + x1) = Mask((x2 - Base) + x1)
          /\ Mask(Mask(v2 - StackTop) + x1) = Mask((v2 - StackTop) + x1)
      BY <1>2, MaskFacts, Zenon
    <3>3. (x2 - Base) + x1 = (x1 + x2) - Base /\ (v2 - StackTop) + v1 = (v1 + v2) - StackTop
      BY <1>2
    <3> QED BY <2>1, <3>1, <3>2, <3>3
  <2> QED BY <1>1, <1>4, <2>2, <2>3
<1> QED BY <1>3, <1>4 DEF MeansValue, c

\* Differences, when what is subtracted is not stack-relative.
LEMMA MeansDifference ==
  ASSUME NEW s1 \in CaptureState, NEW s2 \in CaptureState, s2 # "STACKRELATIVE",
         NEW v1 \in Word, NEW v2 \in Word, NEW x1 \in Word, NEW x2 \in Word,
         MeansValue(s1, v1, x1), MeansValue(s2, v2, x2)
  PROVE  MeansValue(combineState(s1, s2, FALSE), Mask(v1 - v2), Mask(x1 - x2))
<1> DEFINE c == combineState(s1, s2, FALSE)
<1>1. /\ csIsStatic(c) => csIsStatic(s1) /\ csIsStatic(s2)
      /\ c = "STACKRELATIVE" => s1 = "STACKRELATIVE" /\ csIsStatic(s2)
  BY CombinedState
<1> HIDE DEF c
<1>2. /\ v1 \in Int /\ v2 \in Int /\ x1 \in Int /\ x2 \in Int /\ Base \in Int /\ StackTop \in Int
      /\ x1 - x2 \in Int /\ v1 - v2 \in Int
      /\ x1 - Base \in Int /\ v1 - StackTop \in Int
  BY WordFacts, StackFacts
<1>3. ASSUME csIsStatic(c) PROVE Mask(x1 - x2) = Mask(v1 - v2)
  BY <1>1, <1>3 DEF MeansValue
<1>4. ASSUME c = "STACKRELATIVE" PROVE Mask(Mask(x1 - x2) - Base) = Mask(Mask(v1 - v2) - StackTop)
  <2>1. /\ Mask(Mask(x1 - x2) - Base) = Mask((x1 - x2) - Base)
        /\ Mask(Mask(v1 - v2) - StackTop) = Mask((v1 - v2) - StackTop)
    BY <1>2, MaskFacts, Zenon
  <2>2. x2 = v2 /\ Mask(x1 - Base) = Mask(v1 - StackTop) BY <1>1, <1>4 DEF MeansValue
  <2>3. /\ Mask(Mask(x1 - Base) - x2) = Mask((x1 - Base) - x2)
        /\ Mask(Mask(v1 - StackTop) - x2) = Mask((v1 - StackTop) - x2)
    BY <1>2, MaskFacts, Zenon
  <2>4. (x1 - Base) - x2 = (x1 - x2) - Base /\ (v1 - StackTop) - v2 = (v1 - v2) - StackTop
    BY <1>2
  <2> QED BY <2>1, <2>2, <2>3, <2>4
<1> QED BY <1>3, <1>4 DEF MeansValue, c

\* One more, or one less.
LEMMA MeansShift ==
  ASSUME NEW s \in CaptureState, NEW v \in Word, NEW x \in Word, NEW d \in {1, -1},
         MeansValue(s, v, x)
  PROVE  MeansValue(s, Mask(v + d), Mask(x + d))
<1>1. v \in Int /\ x \in Int /\ Base \in Int /\ StackTop \in Int /\ d \in Int
      /\ x + d \in Int /\ v + d \in Int /\ x - Base \in Int /\ v - StackTop \in Int
  BY WordFacts, StackFacts
<1>2. csIsStatic(s) => Mask(x + d) = Mask(v + d) BY DEF MeansValue
<1>3. ASSUME s = "STACKRELATIVE" PROVE Mask(Mask(x + d) - Base) = Mask(Mask(v + d) - StackTop)
  <2>1. /\ Mask(Mask(x + d) - Base) = Mask((x + d) - Base)
        /\ Mask(Mask(v + d) - StackTop) = Mask((v + d) - StackTop)
    BY <1>1, MaskFacts, Zenon
  <2>2. Mask(x - Base) = Mask(v - StackTop) BY <1>3 DEF MeansValue
  <2>3. /\ Mask(Mask(x - Base) + d) = Mask((x - Base) + d)
        /\ Mask(Mask(v - StackTop) + d) = Mask((v - StackTop) + d)
    BY <1>1, MaskFacts, Zenon
  <2>4. (x - Base) + d = (x + d) - Base /\ (v - StackTop) + d = (v + d) - StackTop
    BY <1>1
  <2> QED BY <2>1, <2>2, <2>3, <2>4
<1> QED BY <1>2, <1>3 DEF MeansValue

\* Places on the stack that are known relative to where it starts.
LEMMA SlotOf ==
  ASSUME NEW a, a.val \in Word, a.state = "STACKRELATIVE", OnStack(a),
         NEW x \in Word, MeansValue(a.state, a.val, x)
  PROVE  Offset(a) \in Slots /\ x = SlotAddr(Offset(a))
<1> DEFINE v == a.val
           t == SlotAddr(Offset(a))
<1>1. Offset(a) \in Slots
  BY StackFacts, WordFacts DEF OnStack, Offset, Slots
<1>2. t \in Word /\ t = (v - StackTop) + Base
  <2>1. t \in Word BY <1>1, StackFacts
  <2>2. t = Base - StackSize + (v - StackStart) BY DEF SlotAddr, Offset
  <2>3. v \in Int /\ Base \in Int BY WordFacts, StackFacts
  <2> HIDE DEF t, v
  <2> QED BY <2>1, <2>2, <2>3, StackFacts
<1>3. Mask(x - Base) = Mask(v - StackTop) BY DEF MeansValue
<1> HIDE DEF t, v
<1>4. /\ x \in Int /\ v \in Int /\ t \in Int /\ Base \in Int /\ StackTop \in Int
      /\ x - Base \in Int /\ v - StackTop \in Int
  BY <1>2, WordFacts, StackFacts DEF v
<1>5. /\ Mask(Mask(x - Base) + Base) = Mask((x - Base) + Base)
      /\ Mask(Mask(v - StackTop) + Base) = Mask((v - StackTop) + Base)
  BY <1>4, MaskFacts, Zenon
<1>6. (x - Base) + Base = x BY <1>4
<1>7. Mask(x) = Mask(t) BY <1>2, <1>3, <1>5, <1>6, Zenon
<1>8. Mask(x) = x /\ Mask(t) = t BY <1>2, MaskFacts
<1> QED BY <1>1, <1>7, <1>8 DEF t

----------------------------------------------------------------------------
(***************************************************************************)
(* States of the emulator, and what it means that they agree with a        *)
(* machine.                                                                *)
(***************************************************************************)
\* Flags are never known relative to anything, and of the stack nothing is known
\* where it was not accessed.
Kept(e) ==
  /\ \A f \in FlagType : e.flag_state[f] \in {"DEAD", "DYNAMIC", "STATIC"}
  /\ \A o \in Slots : o < e.stackAccessed => e.stackState[o] = "DEAD"

Proper(e) == e \in EmuState /\ Kept(e)

\* A value the emulator holds, and what it stands for.
Means(v, x) ==
  /\ v.val \in Word /\ v.state \in CaptureState /\ x \in Word
  /\ MeansValue(v.state, v.val, x)

RegsAgree(e, m) == \A r \in Regs : MeansValue(e.reg_state[r], e.reg[r], m.reg[r])

StackAgrees(e, m) ==
  \A o \in Slots : o >= e.stackAccessed =>
    MeansValue(e.stackState[o], e.stack[o], m.mem[SlotAddr(o)])

DataAgrees(e, m) == \A v \in Data : e.mem[v] = m.mem[v]

FlagsAgree(e, m, L) ==
  \A f \in FlagType : e.flag_state[f] = "STATIC" /\ f \notin L => e.flag[f] = m.flag[f]

Agrees(e, m) == RegsAgree(e, m) /\ StackAgrees(e, m) /\ DataAgrees(e, m)

\* How an operand in memory may be used.
Reachable(e, m, o) ==
  o.kind = "Ind" =>
    LET addr == getOpAddr(e, o)
    IN /\ (OnStack(addr) /\ KnownOffset(addr)) <=> AddrOf(m, o) \in StackAddrs
       /\ addr.state = "STATIC2" => addr.val \in Data

\* What the fields of states hold.
LEMMA EmuFields ==
  ASSUME NEW e, e \in EmuState
  PROVE  /\ \A r \in Regs : e.reg[r] \in Word /\ e.reg_state[r] \in CaptureState
         /\ \A f \in FlagType : e.flag[f] \in BOOLEAN /\ e.flag_state[f] \in CaptureState
         /\ \A o \in Slots : e.stack[o] \in Word /\ e.stackState[o] \in CaptureState
         /\ e.stackAccessed \in 0 .. StackSize
         /\ \A v \in Word : e.mem[v] \in Word
  BY DEF EmuState

\* What a machine consists of.
LEMMA MachineFields ==
  ASSUME NEW m, m \in Machine
  PROVE  /\ \A r \in Regs : m.reg[r] \in Word
         /\ \A f \in FlagType : m.flag[f] \in BOOLEAN
         /\ \A v \in Word : m.mem[v] \in Word
         /\ m.vec \in Word
  BY DEF Machine

\* What an operand consists of, by its kind.
LEMMA OperandFields ==
  ASSUME NEW o, o \in Operand
  PROVE  /\ o.kind \in {"None", "Imm", "Reg", "Ind"}
         /\ o.kind = "None" => o = NoOp
         /\ o.kind = "Imm" => o.val \in Word
         /\ o.kind = "Reg" => o.reg \in Regs
         /\ o.kind = "Ind" => /\ o.val \in Word /\ o.reg \in Regs \cup {"None"}
                              /\ o.ireg \in Regs \cup {"None"}
<1>1. CASE o = NoOp BY <1>1 DEF NoOp
<1>2. CASE \E v \in Word : o = Imm(v)
  <2>1. PICK v \in Word : o = [ kind |-> "Imm", val |-> v, reg |-> "None", ireg |-> "None" ]
    BY <1>2 DEF Imm, NoOp
  <2> QED BY <2>1
<1>3. CASE \E r \in Regs : o = RegOp(r)
  <2>1. PICK r \in Regs : o = [ kind |-> "Reg", val |-> 0, reg |-> r, ireg |-> "None" ]
    BY <1>3 DEF RegOp, NoOp
  <2> QED BY <2>1
<1>4. CASE o \in [ kind : {"Ind"}, val : Word, reg : Regs \cup {"None"}, ireg : Regs \cup {"None"} ]
  BY <1>4
<1>5. \/ o = NoOp
      \/ \E v \in Word : o = Imm(v)
      \/ \E r \in Regs : o = RegOp(r)
      \/ o \in [ kind : {"Ind"}, val : Word, reg : Regs \cup {"None"}, ireg : Regs \cup {"None"} ]
  BY DEF Operand
<1> QED BY <1>1, <1>2, <1>3, <1>4, <1>5

\* Registers that agree stand for what is in the processor.
LEMMA RegMeans ==
  ASSUME NEW e, NEW m, e \in EmuState, m \in Machine, RegsAgree(e, m), NEW r \in Regs
  PROVE  Means(RegValue(e, r), m.reg[r])
  BY EmuFields, MachineFields DEF RegsAgree, Means, RegValue, EmuValue

\* Adding a register, if there is one.
LEMMA RegAdded ==
  ASSUME NEW e, NEW m, e \in EmuState, m \in Machine, RegsAgree(e, m),
         NEW r \in Regs \cup {"None"}, NEW v, NEW x, Means(v, x)
  PROVE  Means(addRegToValue(v, e, r), Mask(x + RegOr0(m.reg, r)))
<1>0. x \in Word /\ x \in Int BY WordFacts DEF Means
<1>1. CASE r = "None"
  <2>1. addRegToValue(v, e, r) = v /\ RegOr0(m.reg, r) = 0 BY <1>1 DEF addRegToValue, RegOr0
  <2>2. Mask(x + 0) = x BY <1>0, MaskFacts
  <2> QED BY <2>1, <2>2
<1>2. CASE r # "None"
  <2> DEFINE n == addRegToValue(v, e, r)
  <2>1. r \in Regs BY <1>2
  <2>2. e.reg[r] \in Word /\ e.reg_state[r] \in CaptureState /\ m.reg[r] \in Word
    BY <2>1, EmuFields, MachineFields
  <2>3. MeansValue(e.reg_state[r], e.reg[r], m.reg[r]) BY <2>1 DEF RegsAgree
  <2>4. /\ n.val = Mask(v.val + e.reg[r])
        /\ n.state = combineState(v.state, e.reg_state[r], FALSE)
        /\ RegOr0(m.reg, r) = m.reg[r]
    BY <1>2 DEF addRegToValue, EmuValue, RegOr0
  <2>5. v.val \in Word /\ v.state \in CaptureState /\ MeansValue(v.state, v.val, x) BY DEF Means
  <2>6. MeansValue(n.state, n.val, Mask(x + m.reg[r]))
    BY <1>0, <2>2, <2>3, <2>4, <2>5, MeansSum
  <2>7. n.state \in CaptureState
    <3>1. combineState(v.state, e.reg_state[r], FALSE) \in CaptureState BY <2>2, <2>5, CombinedState
    <3> QED BY <2>4, <3>1, Zenon
  <2>8. Mask(x + m.reg[r]) \in Word /\ n.val \in Word
    <3>1. x + m.reg[r] \in Int /\ v.val + e.reg[r] \in Int BY <1>0, <2>2, <2>5, WordFacts
    <3> QED BY <2>4, <3>1, MaskFacts
  <2> QED BY <2>4, <2>6, <2>7, <2>8 DEF Means
<1> QED BY <1>1, <1>2

\* Addresses of operands in memory.
LEMMA AddrMeans ==
  ASSUME NEW e, NEW m, e \in EmuState, m \in Machine, RegsAgree(e, m),
         NEW o, o \in Operand, o.kind = "Ind"
  PROVE  Means(getOpAddr(e, o), AddrOf(m, o))
<1> DEFINE v0 == EmuValue(o.val, "STATIC")
           v1 == addRegToValue(v0, e, o.reg)
           r1 == RegOr0(m.reg, o.reg)
           r2 == RegOr0(m.reg, o.ireg)
<1>1. o.val \in Word /\ o.reg \in Regs \cup {"None"} /\ o.ireg \in Regs \cup {"None"}
  BY OperandFields
<1>2. Means(v0, o.val) BY <1>1 DEF Means, EmuValue, MeansValue, CaptureState
<1>3. Means(v1, Mask(o.val + r1)) BY <1>1, <1>2, RegAdded
<1>4. Means(addRegToValue(v1, e, o.ireg), Mask(Mask(o.val + r1) + r2)) BY <1>1, <1>3, RegAdded
<1>5. r1 \in Int /\ r2 \in Int /\ o.val \in Int
  BY <1>1, MachineFields, WordFacts DEF RegOr0
<1>6. AddrOf(m, o) = Mask((o.val + r1) + r2) BY DEF AddrOf
<1>7. getOpAddr(e, o) = addRegToValue(v1, e, o.ireg) BY DEF getOpAddr
<1> HIDE DEF v1, r1, r2
<1>8. o.val + r1 \in Int BY <1>5
<1>9. Mask(Mask(o.val + r1) + r2) = Mask((o.val + r1) + r2) BY <1>5, <1>8, MaskFacts, Zenon
<1> QED BY <1>4, <1>6, <1>7, <1>9

\* Memory at an address: the stack, and data that never change.
LEMMA MemMeans ==
  ASSUME NEW e, NEW m, e \in EmuState, m \in Machine, Agrees(e, m),
         NEW addr, NEW x, Means(addr, x), addr.state = "STATIC2" => OnStack(addr) \/ addr.val \in Data
  PROVE  Means(getMemValue(e, addr), m.mem[x])
<1> DEFINE v == getMemValue(e, addr)
<1>0. addr.val \in Word /\ addr.state \in CaptureState /\ x \in Word /\ MeansValue(addr.state, addr.val, x)
  BY DEF Means
<1>1. m.mem[x] \in Word BY <1>0, MachineFields
<1>2. CASE OnStack(addr)
  <2>1. Offset(addr) \in Slots BY <1>0, <1>2, StackFacts, WordFacts DEF OnStack, Offset, Slots
  <2>2. v.val = e.stack[Offset(addr)] /\ v.state = getStackState(e, addr)
    BY <1>2 DEF getMemValue, EmuValue
  <2>3. v.val \in Word BY <2>1, <2>2, EmuFields
  <2>4. CASE ~KnownOffset(addr)
    <3>1. v.state = "DYNAMIC" BY <2>2, <2>4 DEF getStackState
    <3> QED BY <1>1, <2>3, <3>1, MeansNothing DEF Means, CaptureState
  <2>5. CASE KnownOffset(addr) /\ Offset(addr) < e.stackAccessed
    <3>1. v.state = "DEAD" BY <2>2, <2>5 DEF getStackState
    <3> QED BY <1>1, <2>3, <3>1, MeansNothing DEF Means, CaptureState
  <2>6. CASE KnownOffset(addr) /\ ~(Offset(addr) < e.stackAccessed)
    <3>1. v.state = e.stackState[Offset(addr)] BY <2>2, <2>6 DEF getStackState
    <3>2. x = SlotAddr(Offset(addr)) BY <1>0, <1>2, <2>6, SlotOf DEF KnownOffset
    <3>3. Offset(addr) >= e.stackAccessed
      BY <2>1, <2>6, EmuFields, StackFacts DEF Slots
    <3>4. MeansValue(v.state, v.val, m.mem[x]) BY <2>1, <2>2, <3>1, <3>2, <3>3 DEF Agrees, StackAgrees
    <3>5. v.state \in CaptureState BY <2>1, <3>1, EmuFields
    <3> QED BY <1>1, <2>3, <3>4, <3>5 DEF Means
  <2> QED BY <2>4, <2>5, <2>6
<1>3. CASE ~OnStack(addr)
  <2>1. v.val = e.mem[addr.val] /\ v.state = (IF addr.state = "STATIC2" THEN "STATIC2" ELSE "DYNAMIC")
    BY <1>3 DEF getMemValue, EmuValue
  <2>2. v.val \in Word /\ v.state \in CaptureState BY <1>0, <2>1, EmuFields DEF CaptureState
  <2>3. CASE addr.state = "STATIC2"
    <3>1. x = addr.val /\ addr.val \in Data BY <1>0, <1>3, <2>3 DEF MeansValue, csIsStatic
    <3>2. m.mem[x] = v.val BY <2>1, <3>1 DEF Agrees, DataAgrees
    <3>3. v.state = "STATIC2" BY <2>1, <2>3
    <3>4. MeansValue(v.state, v.val, m.mem[x]) BY <3>2, <3>3 DEF MeansValue
    <3> QED BY <1>1, <2>2, <3>4 DEF Means
  <2>4. CASE addr.state # "STATIC2"
    <3>1. v.state = "DYNAMIC" BY <2>1, <2>4
    <3> QED BY <1>1, <2>2, <3>1, MeansNothing DEF Means
  <2> QED BY <2>3, <2>4
<1> QED BY <1>2, <1>3

\* Operands: what the emulator knows of them is so.
LEMMA ValueMeans ==
  ASSUME NEW e, NEW m, e \in EmuState, m \in Machine, Agrees(e, m),
         NEW o, o \in Operand, o # NoOp, Reachable(e, m, o)
  PROVE  Means(getOpValue(e, o), Value(m, o))
<1>0. RegsAgree(e, m) BY DEF Agrees
<1>1. CASE o.kind = "Imm"
  <2>1. getOpValue(e, o) = EmuValue(o.val, "STATIC") /\ Value(m, o) = o.val
    BY <1>1 DEF getOpValue, Value
  <2>2. o.val \in Word BY <1>1, OperandFields
  <2> QED BY <2>1, <2>2 DEF Means, EmuValue, MeansValue, CaptureState
<1>2. CASE o.kind = "Reg"
  <2>1. getOpValue(e, o) = RegValue(e, o.reg) /\ Value(m, o) = m.reg[o.reg]
    BY <1>2 DEF getOpValue, Value
  <2>2. o.reg \in Regs BY <1>2, OperandFields
  <2> QED BY <1>0, <2>1, <2>2, RegMeans
<1>3. CASE o.kind = "Ind"
  <2>1. getOpValue(e, o) = getMemValue(e, getOpAddr(e, o)) /\ Value(m, o) = m.mem[AddrOf(m, o)]
    BY <1>3 DEF getOpValue, Value
  <2>2. Means(getOpAddr(e, o), AddrOf(m, o)) BY <1>0, <1>3, AddrMeans
  <2>3. getOpAddr(e, o).state = "STATIC2" => getOpAddr(e, o).val \in Data BY <1>3 DEF Reachable
  <2> QED BY <2>1, <2>2, <2>3, MemMeans
<1> QED BY <1>1, <1>2, <1>3, OperandFields

----------------------------------------------------------------------------
(***************************************************************************)
(* Writing: what agrees before a value is written agrees after it.         *)
(***************************************************************************)
\* From e and m to n and k, apart from flags.
DataStep(e, m, n, k) ==
  /\ Proper(n) /\ k \in Machine /\ Agrees(n, k)
  /\ n.flag = e.flag /\ n.flag_state = e.flag_state /\ k.flag = m.flag
  /\ n.ret_stack = e.ret_stack

\* Setting a register changes nothing else (setReg).
LEMMA SetRegFields ==
  ASSUME NEW e, e \in EmuState, NEW r \in Regs, NEW v, v.val \in Word, v.state \in CaptureState
  PROVE  LET n == setReg(e, r, v)
         IN /\ n \in EmuState
            /\ n.reg = [e.reg EXCEPT ![r] = v.val]
            /\ n.reg_state = [e.reg_state EXCEPT ![r] = v.state]
            /\ n.flag = e.flag /\ n.flag_state = e.flag_state
            /\ n.stack = e.stack /\ n.stackState = e.stackState
            /\ n.stackAccessed = e.stackAccessed
            /\ n.ret_stack = e.ret_stack /\ n.mem = e.mem
  BY DEF setReg, EmuState

\* Storing changes one place on the stack, or memory (setMemValue, setStackState).
LEMMA StoreFields ==
  ASSUME NEW e, e \in EmuState, NEW a, a.val \in Word,
         NEW v, v.val \in Word, v.state \in CaptureState
  PROVE  LET n == Store(e, a, v)
             o == Offset(a)
         IN /\ n \in EmuState
            /\ n.reg = e.reg /\ n.reg_state = e.reg_state
            /\ n.flag = e.flag /\ n.flag_state = e.flag_state
            /\ n.ret_stack = e.ret_stack
            /\ OnStack(a) => /\ o \in Slots
                             /\ n.stack = [e.stack EXCEPT ![o] = v.val]
                             /\ n.stackState = [e.stackState EXCEPT ![o] = v.state]
                             /\ n.stackAccessed = IF o < e.stackAccessed THEN o ELSE e.stackAccessed
                             /\ n.mem = e.mem
            /\ ~OnStack(a) => /\ n.stack = e.stack /\ n.stackState = e.stackState
                              /\ n.stackAccessed = e.stackAccessed
                              /\ n.mem = [e.mem EXCEPT ![a.val] = v.val]
<1> DEFINE o == Offset(a)
<1>1. CASE OnStack(a)
  <2>1. o \in Slots /\ o \in 0 .. StackSize
    BY <1>1, StackFacts, WordFacts DEF OnStack, Offset, Slots
  <2>2. Store(e, a, v) = [e EXCEPT !.stack[o] = v.val, !.stackState[o] = v.state,
                                   !.stackAccessed = IF o < @ THEN o ELSE @]
    BY <1>1 DEF Store
  <2> DEFINE n == Store(e, a, v)
             acc == IF o < e.stackAccessed THEN o ELSE e.stackAccessed
  <2> HIDE DEF o, n
  <2>3. /\ n.reg = e.reg /\ n.reg_state = e.reg_state
        /\ n.flag = e.flag /\ n.flag_state = e.flag_state
        /\ n.ret_stack = e.ret_stack /\ n.mem = e.mem /\ n.parent = e.parent
        /\ n.stack = [e.stack EXCEPT ![o] = v.val]
        /\ n.stackState = [e.stackState EXCEPT ![o] = v.state]
        /\ n.stackAccessed = acc
        /\ n = [ reg |-> n.reg, reg_state |-> n.reg_state, flag |-> n.flag,
                flag_state |-> n.flag_state, stack |-> n.stack, stackState |-> n.stackState,
                stackAccessed |-> n.stackAccessed, ret_stack |-> n.ret_stack,
                parent |-> n.parent, mem |-> n.mem ]
    BY <2>2 DEF EmuState, n
  <2>4. acc \in 0 .. StackSize BY <2>1, EmuFields
  <2>5. /\ [e.stack EXCEPT ![o] = v.val] \in [Slots -> Word]
        /\ [e.stackState EXCEPT ![o] = v.state] \in [Slots -> CaptureState]
    BY <2>1 DEF EmuState
  <2> HIDE DEF acc
  <2>6. n \in EmuState BY <2>3, <2>4, <2>5 DEF EmuState
  <2> QED BY <1>1, <2>1, <2>3, <2>6 DEF n, o, acc
<1>2. CASE ~OnStack(a)
  <2>1. Store(e, a, v) = [e EXCEPT !.mem[a.val] = v.val] BY <1>2 DEF Store
  <2> DEFINE n == Store(e, a, v)
  <2> HIDE DEF n
  <2>2. /\ n.reg = e.reg /\ n.reg_state = e.reg_state
        /\ n.flag = e.flag /\ n.flag_state = e.flag_state
        /\ n.ret_stack = e.ret_stack /\ n.parent = e.parent
        /\ n.stack = e.stack /\ n.stackState = e.stackState
        /\ n.stackAccessed = e.stackAccessed
        /\ n.mem = [e.mem EXCEPT ![a.val] = v.val]
        /\ n = [ reg |-> n.reg, reg_state |-> n.reg_state, flag |-> n.flag,
                flag_state |-> n.flag_state, stack |-> n.stack, stackState |-> n.stackState,
                stackAccessed |-> n.stackAccessed, ret_stack |-> n.ret_stack,
                parent |-> n.parent, mem |-> n.mem ]
    BY <2>1 DEF EmuState, n
  <2>3. [e.mem EXCEPT ![a.val] = v.val] \in [Word -> Word] BY DEF EmuState
  <2>4. n \in EmuState BY <2>2, <2>3 DEF EmuState
  <2> QED BY <1>2, <2>2, <2>4 DEF n
<1> QED BY <1>1, <1>2

\* Registers.
LEMMA RegWritten ==
  ASSUME NEW e, NEW m, Proper(e), m \in Machine, Agrees(e, m),
         NEW r \in Regs, NEW v, NEW x, Means(v, x)
  PROVE  DataStep(e, m, setReg(e, r, v), [m EXCEPT !.reg[r] = x])
<1> DEFINE n == setReg(e, r, v)
           k == [m EXCEPT !.reg[r] = x]
<1>0. e \in EmuState /\ v.val \in Word /\ v.state \in CaptureState /\ x \in Word
      /\ MeansValue(v.state, v.val, x)
  BY DEF Proper, Means
<1>1. /\ n \in EmuState
      /\ n.reg = [e.reg EXCEPT ![r] = v.val]
      /\ n.reg_state = [e.reg_state EXCEPT ![r] = v.state]
      /\ n.flag = e.flag /\ n.flag_state = e.flag_state
      /\ n.stack = e.stack /\ n.stackState = e.stackState
      /\ n.stackAccessed = e.stackAccessed
      /\ n.ret_stack = e.ret_stack /\ n.mem = e.mem
  BY <1>0, SetRegFields
<1>2. /\ k \in Machine /\ k.reg = [m.reg EXCEPT ![r] = x]
      /\ k.flag = m.flag /\ k.mem = m.mem
  BY <1>0 DEF Machine
<1> HIDE DEF n, k
<1>3. Proper(n) BY <1>1 DEF Proper, Kept
<1>4. RegsAgree(n, k)
  <2> SUFFICES ASSUME NEW q \in Regs PROVE MeansValue(n.reg_state[q], n.reg[q], k.reg[q])
    BY DEF RegsAgree
  <2>1. e.reg \in [Regs -> Word] /\ e.reg_state \in [Regs -> CaptureState] /\ m.reg \in [Regs -> Word]
    BY <1>0 DEF EmuState, Machine
  <2>2. CASE q = r
    <3>1. n.reg_state[q] = v.state /\ n.reg[q] = v.val /\ k.reg[q] = x BY <1>1, <1>2, <2>1, <2>2
    <3> QED BY <1>0, <3>1
  <2>3. CASE q # r
    <3>1. n.reg_state[q] = e.reg_state[q] /\ n.reg[q] = e.reg[q] /\ k.reg[q] = m.reg[q]
      BY <1>1, <1>2, <2>1, <2>3
    <3> QED BY <3>1 DEF Agrees, RegsAgree
  <2> QED BY <2>2, <2>3
<1>5. StackAgrees(n, k) /\ DataAgrees(n, k)
  BY <1>1, <1>2 DEF Agrees, StackAgrees, DataAgrees
<1> QED BY <1>1, <1>2, <1>3, <1>4, <1>5 DEF DataStep, Agrees, n, k

\* Memory.
LEMMA MemWritten ==
  ASSUME NEW e, NEW m, Proper(e), m \in Machine, Agrees(e, m),
         NEW a, NEW y, Means(a, y), NEW v, NEW x, Means(v, x),
         CanStore(a), OnStack(a) \/ (y \notin StackAddrs /\ a.val \notin Data), y \notin Data
  PROVE  DataStep(e, m, Store(e, a, v), [m EXCEPT !.mem[y] = x])
<1> DEFINE n == Store(e, a, v)
           k == [m EXCEPT !.mem[y] = x]
           s == Offset(a)
<1>0. /\ e \in EmuState /\ v.val \in Word /\ v.state \in CaptureState /\ x \in Word
      /\ MeansValue(v.state, v.val, x)
      /\ a.val \in Word /\ y \in Word /\ MeansValue(a.state, a.val, y)
  BY DEF Proper, Means
<1>1. /\ n \in EmuState
      /\ n.reg = e.reg /\ n.reg_state = e.reg_state
      /\ n.flag = e.flag /\ n.flag_state = e.flag_state
      /\ n.ret_stack = e.ret_stack
      /\ OnStack(a) => /\ s \in Slots
                       /\ n.stack = [e.stack EXCEPT ![s] = v.val]
                       /\ n.stackState = [e.stackState EXCEPT ![s] = v.state]
                       /\ n.stackAccessed = IF s < e.stackAccessed THEN s ELSE e.stackAccessed
                       /\ n.mem = e.mem
      /\ ~OnStack(a) => /\ n.stack = e.stack /\ n.stackState = e.stackState
                        /\ n.stackAccessed = e.stackAccessed
                        /\ n.mem = [e.mem EXCEPT ![a.val] = v.val]
  BY <1>0, StoreFields
<1>2. /\ k \in Machine /\ k.reg = m.reg
      /\ k.flag = m.flag /\ k.mem = [m.mem EXCEPT ![y] = x]
  BY <1>0 DEF Machine
<1> HIDE DEF n, k, s
<1>3. /\ e.stack \in [Slots -> Word] /\ e.stackState \in [Slots -> CaptureState]
      /\ e.mem \in [Word -> Word] /\ m.mem \in [Word -> Word]
      /\ e.stackAccessed \in 0 .. StackSize
      /\ \A o \in Slots : o < e.stackAccessed => e.stackState[o] = "DEAD"
  BY <1>0 DEF EmuState, Machine, Proper, Kept
<1>4. Data \subseteq Word BY SpecialiseAssumption
<1>5. RegsAgree(n, k) BY <1>1, <1>2 DEF Agrees, RegsAgree
<1>6. CASE OnStack(a)
  <2>1. s \in Slots /\ y = SlotAddr(s)
    BY <1>0, <1>6, SlotOf DEF CanStore, KnownOffset, s
  <2>2. StackSize \in Nat BY StackFacts
  <2>3. Kept(n)
    BY <1>1, <1>3, <1>6, <2>1, <2>2 DEF Kept, Slots, Proper
  <2>4. StackAgrees(n, k)
    <3> SUFFICES ASSUME NEW o \in Slots, o >= n.stackAccessed
                 PROVE  MeansValue(n.stackState[o], n.stack[o], k.mem[SlotAddr(o)])
      BY DEF StackAgrees
    <3>1. CASE o = s
      <4>1. n.stackState[o] = v.state /\ n.stack[o] = v.val /\ k.mem[SlotAddr(o)] = x
        BY <1>0, <1>1, <1>2, <1>3, <1>6, <2>1, <3>1
      <4> QED BY <1>0, <4>1
    <3>2. CASE o # s
      <4>1. n.stackState[o] = e.stackState[o] /\ n.stack[o] = e.stack[o]
        BY <1>1, <1>3, <1>6, <2>1, <3>2
      <4>2. SlotAddr(o) # y /\ SlotAddr(o) \in Word BY <2>1, <3>2, StackFacts
      <4>3. k.mem[SlotAddr(o)] = m.mem[SlotAddr(o)] BY <1>2, <1>3, <4>2
      <4>4. CASE o >= e.stackAccessed
        BY <4>1, <4>3, <4>4 DEF Agrees, StackAgrees
      <4>5. CASE o < e.stackAccessed
        <5>1. n.stackState[o] = "DEAD" BY <1>3, <4>1, <4>5
        <5> QED BY <5>1, MeansNothing
      <4> QED BY <1>3, <2>2, <4>4, <4>5 DEF Slots
    <3> QED BY <3>1, <3>2
  <2>5. DataAgrees(n, k)
    <3> SUFFICES ASSUME NEW d \in Data PROVE n.mem[d] = k.mem[d] BY DEF DataAgrees
    <3>1. k.mem[d] = m.mem[d] BY <1>0, <1>2, <1>3, <1>4
    <3>2. n.mem[d] = e.mem[d] BY <1>1, <1>6
    <3> QED BY <3>1, <3>2 DEF Agrees, DataAgrees
  <2> QED BY <1>1, <1>2, <1>5, <2>3, <2>4, <2>5 DEF DataStep, Agrees, Proper, n, k
<1>7. CASE ~OnStack(a)
  <2>1. y \notin StackAddrs /\ a.val \notin Data BY <1>7
  <2>2. Kept(n) BY <1>1, <1>7 DEF Kept, Proper
  <2>3. StackAgrees(n, k)
    <3> SUFFICES ASSUME NEW o \in Slots, o >= n.stackAccessed
                 PROVE  MeansValue(n.stackState[o], n.stack[o], k.mem[SlotAddr(o)])
      BY DEF StackAgrees
    <3>1. SlotAddr(o) # y /\ SlotAddr(o) \in Word BY <2>1, StackFacts
    <3>2. k.mem[SlotAddr(o)] = m.mem[SlotAddr(o)] BY <1>2, <1>3, <3>1
    <3> QED BY <1>1, <1>7, <3>2 DEF Agrees, StackAgrees
  <2>4. DataAgrees(n, k)
    <3> SUFFICES ASSUME NEW d \in Data PROVE n.mem[d] = k.mem[d] BY DEF DataAgrees
    <3>1. k.mem[d] = m.mem[d] BY <1>0, <1>2, <1>3, <1>4
    <3>2. n.mem[d] = e.mem[d] BY <1>0, <1>1, <1>3, <1>4, <1>7, <2>1
    <3> QED BY <3>1, <3>2 DEF Agrees, DataAgrees
  <2> QED BY <1>1, <1>2, <1>5, <2>2, <2>3, <2>4 DEF DataStep, Agrees, Proper, n, k
<1> QED BY <1>6, <1>7

\* Operands that may be written.
Writable(e, m, o) ==
  \/ o.kind = "Reg"
  \/ o.kind = "Ind" /\ Reachable(e, m, o) /\ Data \cap {AddrOf(m, o), getOpAddr(e, o).val} = {}

\* The end of most instructions.
LEMMA Assigned ==
  ASSUME NEW e, NEW m, Proper(e), m \in Machine, Agrees(e, m),
         NEW o, o \in Operand, Writable(e, m, o), NEW v, NEW x, Means(v, x), NEW out
  PROVE  LET r == Assign(e, o, v, out)
         IN /\ r.err \in {"none", "abort"} /\ r.out \in {out, <<>>}
            /\ r.err = "none" => r.out = out /\ DataStep(e, m, r.es, Write(m, o, x))
            /\ r.err # "none" => r.es = e
<1> DEFINE r == Assign(e, o, v, out)
<1>0. e \in EmuState /\ RegsAgree(e, m) BY DEF Proper, Agrees
<1>1. CASE o.kind = "Reg"
  <2>1. r = Done(setReg(e, o.reg, v), out) /\ Write(m, o, x) = [m EXCEPT !.reg[o.reg] = x]
    BY <1>1 DEF Assign, Write
  <2>2. o.reg \in Regs BY <1>1, OperandFields
  <2>3. DataStep(e, m, setReg(e, o.reg, v), Write(m, o, x)) BY <2>1, <2>2, RegWritten
  <2> QED BY <2>1, <2>3 DEF Done
<1>2. CASE o.kind = "Ind"
  <2> DEFINE a == getOpAddr(e, o)
             y == AddrOf(m, o)
  <2>1. Means(a, y) BY <1>0, <1>2, AddrMeans
  <2>2. Reachable(e, m, o) /\ Data \cap {y, a.val} = {} BY <1>2 DEF Writable
  <2>3. (OnStack(a) /\ KnownOffset(a)) <=> y \in StackAddrs BY <1>2, <2>2 DEF Reachable
  <2>4. Write(m, o, x) = [m EXCEPT !.mem[y] = x] BY <1>2 DEF Write
  <2>5. CASE CanStore(a)
    <3>1. r = Done(Store(e, a, v), out) BY <1>2, <2>5 DEF Assign
    <3>2. OnStack(a) \/ (y \notin StackAddrs /\ a.val \notin Data) BY <2>2, <2>3
    <3>3. y \notin Data BY <2>2
    <3> HIDE DEF a, y
    <3>4. DataStep(e, m, Store(e, a, v), [m EXCEPT !.mem[y] = x])
      BY <2>1, <2>5, <3>2, <3>3, MemWritten
    <3> QED BY <2>4, <3>1, <3>4 DEF Done
  <2>6. CASE ~CanStore(a)
    <3>1. r = Abort(e) BY <1>2, <2>6 DEF Assign
    <3> QED BY <3>1 DEF Abort
  <2> QED BY <2>5, <2>6
<1> QED BY <1>1, <1>2 DEF Writable

----------------------------------------------------------------------------
(***************************************************************************)
(* Results of operations                                                   *)
(***************************************************************************)
\* A word without bits is 0.
LEMMA NoBits ==
  ASSUME NEW c \in Word, \A k \in Bits : Bit(c, k) = 0
  PROVE  c = 0
<1>1. c \in Int /\ 0 <= c /\ c < 2 ^ W BY WordFacts
<1>2. CASE W = 2
  <2>1. 0 \in Bits /\ 1 \in Bits BY <1>2 DEF Bits
  <2>2. Bit(c, 0) = (c \div 1) % 2 /\ Bit(c, 1) = (c \div 2) % 2 BY PowersTo8 DEF Bit
  <2>3. (c \div 1) % 2 = 0 /\ (c \div 2) % 2 = 0 BY <2>1, <2>2
  <2> QED BY <1>1, <1>2, <2>3, Sizes
<1>3. CASE W = 4
  <2>1. 0 \in Bits /\ 1 \in Bits /\ 2 \in Bits /\ 3 \in Bits BY <1>3 DEF Bits
  <2>2. /\ Bit(c, 0) = (c \div 1) % 2 /\ Bit(c, 1) = (c \div 2) % 2
        /\ Bit(c, 2) = (c \div 4) % 2 /\ Bit(c, 3) = (c \div 8) % 2
    BY PowersTo8 DEF Bit
  <2>3. /\ (c \div 1) % 2 = 0 /\ (c \div 2) % 2 = 0
        /\ (c \div 4) % 2 = 0 /\ (c \div 8) % 2 = 0
    BY <2>1, <2>2
  <2>4. c < 16 BY <1>1, <1>3, Sizes
  <2> QED BY <1>1, <2>3, <2>4
<1>4. CASE W = 8
  <2>1. /\ 0 \in Bits /\ 1 \in Bits /\ 2 \in Bits /\ 3 \in Bits
        /\ 4 \in Bits /\ 5 \in Bits /\ 6 \in Bits /\ 7 \in Bits
    BY <1>4 DEF Bits
  <2>2. /\ Bit(c, 0) = (c \div 1) % 2 /\ Bit(c, 1) = (c \div 2) % 2
        /\ Bit(c, 2) = (c \div 4) % 2 /\ Bit(c, 3) = (c \div 8) % 2
        /\ Bit(c, 4) = (c \div 16) % 2 /\ Bit(c, 5) = (c \div 32) % 2
        /\ Bit(c, 6) = (c \div 64) % 2 /\ Bit(c, 7) = (c \div 128) % 2
    BY PowersTo8 DEF Bit
  <2>3. /\ (c \div 1) % 2 = 0 /\ (c \div 2) % 2 = 0
        /\ (c \div 4) % 2 = 0 /\ (c \div 8) % 2 = 0
        /\ (c \div 16) % 2 = 0 /\ (c \div 32) % 2 = 0
        /\ (c \div 64) % 2 = 0 /\ (c \div 128) % 2 = 0
    BY <2>1, <2>2
  <2>4. c < 256 BY <1>1, <1>4, Sizes
  <2> QED BY <1>1, <2>3, <2>4
<1> QED BY <1>2, <1>3, <1>4, Sizes

\* The bits of 0.
LEMMA ZeroBit == ASSUME NEW k \in Bits PROVE 0 \in Word /\ Bit(0, k) = 0
<1>1. k \in 0 .. 7 BY Sizes DEF Bits
<1>2. 2 ^ k \in {1, 2, 4, 8, 16, 32, 64, 128} BY <1>1, PowerOf
<1>3. (0 \div (2 ^ k)) % 2 = 0 BY <1>2
<1> QED BY <1>3, WordFacts DEF Bit

\* AND with 0, and XOR of equal words.
LEMMA BitwiseZero ==
  ASSUME NEW a \in Word
  PROVE  AndOf(0, a) = 0 /\ AndOf(a, 0) = 0 /\ XorOf(a, a) = 0
<1>0. 0 \in Word BY WordFacts
<1>1. \A k \in Bits : Bit(a, k) \in {0, 1} BY BitType, WordFacts
<1>2. AndOf(0, a) \in Word /\ \A k \in Bits : Bit(AndOf(0, a), k) = And(Bit(0, k), Bit(a, k))
  BY <1>0, BitwiseBits
<1>3. AndOf(a, 0) \in Word /\ \A k \in Bits : Bit(AndOf(a, 0), k) = And(Bit(a, k), Bit(0, k))
  BY <1>0, BitwiseBits
<1>4. XorOf(a, a) \in Word /\ \A k \in Bits : Bit(XorOf(a, a), k) = Xor(Bit(a, k), Bit(a, k))
  BY BitwiseBits
<1>5. \A k \in Bits : Bit(0, k) = 0 BY ZeroBit
<1>6. \A k \in Bits : Bit(AndOf(0, a), k) = 0 BY <1>1, <1>2, <1>5 DEF And
<1>7. \A k \in Bits : Bit(AndOf(a, 0), k) = 0 BY <1>1, <1>3, <1>5 DEF And
<1>8. \A k \in Bits : Bit(XorOf(a, a), k) = 0 BY <1>1, <1>4 DEF Xor
<1> QED BY <1>2, <1>3, <1>4, <1>6, <1>7, <1>8, NoBits

\* Operations yield words, and the emulator computes what the processor does.
LEMMA ResultFacts ==
  ASSUME NEW t \in BinaryOps, NEW a \in Word, NEW b \in Word
  PROVE  BinaryResult(t, a, b) \in Word /\ Result(t, a, b) = BinaryResult(t, a, b)
<1>1. /\ a \in Int /\ b \in Int /\ Signed(a) \in Int /\ Signed(b) \in Int
      /\ 0 <= a /\ 0 <= b /\ a < 2 ^ W
  BY WordFacts, SignFacts
<1>2. CASE t = "ADD"
  <2>1. a + b \in Int BY <1>1
  <2>2. BinaryResult(t, a, b) = Mask(a + b) /\ Result(t, a, b) = Mask(a + b)
    BY <1>2 DEF BinaryResult, Result
  <2> QED BY <2>1, <2>2, MaskFacts
<1>3. CASE t = "SUB"
  <2>1. a - b \in Int BY <1>1
  <2>2. BinaryResult(t, a, b) = Mask(a - b) /\ Result(t, a, b) = Mask(a - b)
    BY <1>3 DEF BinaryResult, Result
  <2> QED BY <2>1, <2>2, MaskFacts
<1>4. CASE t = "IMUL"
  <2>1. Signed(a) * Signed(b) \in Int BY <1>1
  <2>2. /\ BinaryResult(t, a, b) = Mask(Signed(a) * Signed(b))
        /\ Result(t, a, b) = Mask(Signed(a) * Signed(b))
    BY <1>4 DEF BinaryResult, Result
  <2> QED BY <2>1, <2>2, MaskFacts
<1> DEFINE p == 2 ^ (b % W)
<1>5. p \in {1, 2, 4, 8, 16, 32, 64, 128}
  <2>1. b % W \in 0 .. 7 BY <1>1, Sizes
  <2> QED BY <2>1, PowerOf
<1>6. CASE t = "SHL"
  <2>1. BinaryResult(t, a, b) = Mask(a * p) /\ Result(t, a, b) = Mask(a * p)
    BY <1>6 DEF BinaryResult, Result, ShiftLeft
  <2> HIDE DEF p
  <2>2. a * p \in Int BY <1>1, <1>5
  <2> QED BY <2>1, <2>2, MaskFacts
<1>7. CASE t = "SHR"
  <2>1. BinaryResult(t, a, b) = a \div p /\ Result(t, a, b) = a \div p
    BY <1>7 DEF BinaryResult, Result, ShiftRight
  <2> HIDE DEF p
  <2>2. a \div p \in Int /\ 0 <= a \div p /\ a \div p <= a BY <1>1, <1>5
  <2>3. a \div p \in Word BY <1>1, <2>2, WordFacts
  <2> QED BY <2>1, <2>3
<1>8. CASE t = "SAR"
  <2>1. BinaryResult(t, a, b) = Mask(Signed(a) \div p) /\ Result(t, a, b) = Mask(Signed(a) \div p)
    BY <1>8 DEF BinaryResult, Result, ShiftSigned
  <2> HIDE DEF p
  <2>2. Signed(a) \div p \in Int BY <1>1, <1>5
  <2> QED BY <2>1, <2>2, MaskFacts
<1>9. CASE t \in {"AND", "OR", "XOR"}
  <2>1. BinaryResult(t, a, b) = BitOp(t, a, b) /\ Result(t, a, b) = BitOp(t, a, b)
    BY <1>9 DEF BinaryResult, Result, BitOp
  <2>2. BitOp(t, a, b) \in Word BY <1>9, BitwiseBits DEF BitOp
  <2> QED BY <2>1, <2>2
<1> QED BY <1>2, <1>3, <1>4, <1>6, <1>7, <1>8, <1>9 DEF BinaryOps

\* Of bitwise operations.
LEMMA BitStateFacts ==
  ASSUME NEW t \in {"AND", "OR", "XOR"}, NEW v1, NEW v2, NEW x1, NEW x2,
         Means(v1, x1), Means(v2, x2), NEW same \in BOOLEAN, t = "XOR" /\ same => v1 = v2 /\ x1 = x2
  PROVE  /\ BitState(t, v1, v2, same) \in {"DEAD", "DYNAMIC", "STATIC"}
         /\ BitState(t, v1, v2, same) = "STATIC" => BitOp(t, v1.val, v2.val) = BitOp(t, x1, x2)
<1>1. /\ v1.val \in Word /\ v2.val \in Word /\ x1 \in Word /\ x2 \in Word
      /\ v1.state \in CaptureState /\ v2.state \in CaptureState
      /\ IsStatic(v1) => x1 = v1.val
      /\ IsStatic(v2) => x2 = v2.val
  BY DEF Means, MeansValue, IsStatic
<1>2. CASE t = "XOR" /\ same
  <2>1. BitState(t, v1, v2, same) = "STATIC" BY <1>2 DEF BitState
  <2>2. XorOf(v1.val, v1.val) = 0 /\ XorOf(x1, x1) = 0 BY <1>1, BitwiseZero
  <2>3. BitOp(t, v1.val, v2.val) = 0 /\ BitOp(t, x1, x2) = 0 BY <1>2, <2>2 DEF BitOp
  <2> QED BY <2>1, <2>3
<1>3. CASE t = "AND" /\ (KnownZero(v1) \/ KnownZero(v2))
  <2>1. BitState(t, v1, v2, same) = "STATIC" BY <1>3 DEF BitState
  <2>2. \/ v1.val = 0 /\ x1 = 0
        \/ v2.val = 0 /\ x2 = 0
    BY <1>1, <1>3 DEF KnownZero
  <2>3. /\ BitOp(t, v1.val, v2.val) = AndOf(v1.val, v2.val) /\ BitOp(t, x1, x2) = AndOf(x1, x2)
    BY <1>3 DEF BitOp
  <2>4. AndOf(0, v2.val) = 0 /\ AndOf(v1.val, 0) = 0 /\ AndOf(0, x2) = 0 /\ AndOf(x1, 0) = 0
    BY <1>1, BitwiseZero
  <2>5. CASE v1.val = 0 /\ x1 = 0 BY <2>1, <2>3, <2>4, <2>5
  <2>6. CASE v2.val = 0 /\ x2 = 0 BY <2>1, <2>3, <2>4, <2>6
  <2> QED BY <2>2, <2>5, <2>6
<1>4. CASE ~(t = "XOR" /\ same) /\ ~(t = "AND" /\ (KnownZero(v1) \/ KnownZero(v2)))
  <2> DEFINE c == combineState4Flags(v1.state, v2.state)
  <2>1. BitState(t, v1, v2, same) = c BY <1>4 DEF BitState
  <2>2. /\ c \in {"DEAD", "DYNAMIC", "STATIC"}
        /\ c = "STATIC" => IsStatic(v1) /\ IsStatic(v2)
    BY <1>1, CombinedForFlags DEF IsStatic
  <2>3. c = "STATIC" => x1 = v1.val /\ x2 = v2.val BY <1>1, <2>2
  <2> QED BY <2>1, <2>2, <2>3
<1> QED BY <1>2, <1>3, <1>4

\* Operations with two operands.  Only sums and differences of stack-relative values
\* make sense.
LEMMA BinaryMeans ==
  ASSUME NEW t \in BinaryOps, NEW v1, NEW v2, NEW x1, NEW x2,
         Means(v1, x1), Means(v2, x2), NEW same \in BOOLEAN, t = "XOR" /\ same => v1 = v2 /\ x1 = x2,
         t \notin {"ADD", "AND", "OR", "XOR"} => v2.state # "STACKRELATIVE",
         t \notin {"ADD", "SUB", "AND", "OR", "XOR"} => v1.state # "STACKRELATIVE"
  PROVE  Means(EmuValue(BinaryResult(t, v1.val, v2.val), BinaryState(t, v1, v2, same)),
               Result(t, x1, x2))
<1> DEFINE s == BinaryState(t, v1, v2, same)
           v == BinaryResult(t, v1.val, v2.val)
           x == Result(t, x1, x2)
<1>1. /\ v1.val \in Word /\ v2.val \in Word /\ x1 \in Word /\ x2 \in Word
      /\ v1.state \in CaptureState /\ v2.state \in CaptureState
      /\ MeansValue(v1.state, v1.val, x1) /\ MeansValue(v2.state, v2.val, x2)
      /\ IsStatic(v1) => x1 = v1.val
      /\ IsStatic(v2) => x2 = v2.val
  BY DEF Means, MeansValue, IsStatic
<1>2. v \in Word /\ x \in Word /\ x = BinaryResult(t, x1, x2) BY <1>1, ResultFacts
<1>3. SUFFICES s \in CaptureState /\ MeansValue(s, v, x)
  BY <1>2 DEF Means, EmuValue
<1>4. CASE t = "IMUL" /\ (KnownZero(v1) \/ KnownZero(v2))
  <2>1. s = "STATIC" BY <1>4 DEF BinaryState
  <2>2. \A a, b : BinaryResult("IMUL", a, b) = Mask(Signed(a) * Signed(b)) BY DEF BinaryResult
  <2>3. Signed(0) = 0 BY WordFacts, SignFacts
  <2>4. /\ Signed(v1.val) \in Int /\ Signed(v2.val) \in Int
        /\ Signed(x1) \in Int /\ Signed(x2) \in Int
    BY <1>1, SignFacts
  <2>5. /\ Signed(v1.val) * Signed(v2.val) = 0 /\ Signed(x1) * Signed(x2) = 0
    <3>1. CASE v1.val = 0 /\ x1 = 0 BY <2>3, <2>4, <3>1
    <3>2. CASE v2.val = 0 /\ x2 = 0 BY <2>3, <2>4, <3>2
    <3> QED BY <1>1, <1>4, <3>1, <3>2 DEF KnownZero
  <2>6. v = x BY <1>2, <1>4, <2>2, <2>5
  <2> QED BY <2>1, <2>6 DEF MeansValue, CaptureState
<1>5. CASE t \in {"AND", "OR", "XOR"}
  <2>1. s = BitState(t, v1, v2, same) BY <1>5 DEF BinaryState
  <2>2. v = BitOp(t, v1.val, v2.val) /\ x = BitOp(t, x1, x2) BY <1>2, <1>5 DEF BinaryResult
  <2>3. s \in {"DEAD", "DYNAMIC", "STATIC"} /\ (s = "STATIC" => v = x)
    BY <1>5, <2>1, <2>2, BitStateFacts
  <2> QED BY <2>3 DEF MeansValue, CaptureState, csIsStatic
<1>6. CASE t \notin {"AND", "OR", "XOR"} /\ ~(t = "IMUL" /\ (KnownZero(v1) \/ KnownZero(v2)))
  <2> DEFINE c == combineState(v1.state, v2.state, FALSE)
  <2>1. s = c BY <1>6 DEF BinaryState
  <2>2. /\ c \in CaptureState
        /\ csIsStatic(c) => csIsStatic(v1.state) /\ csIsStatic(v2.state)
        /\ c = "STACKRELATIVE" => \/ v1.state = "STACKRELATIVE" /\ csIsStatic(v2.state)
                                  \/ v2.state = "STACKRELATIVE" /\ csIsStatic(v1.state)
    BY <1>1, CombinedState
  <2>3. CASE t = "ADD"
    <3>1. v = Mask(v1.val + v2.val) /\ x = Mask(x1 + x2) BY <1>2, <2>3 DEF BinaryResult
    <3>2. MeansValue(c, Mask(v1.val + v2.val), Mask(x1 + x2)) BY <1>1, MeansSum
    <3> HIDE DEF c, v, x
    <3> QED BY <2>1, <2>2, <3>1, <3>2
  <2>4. CASE t = "SUB"
    <3>1. v = Mask(v1.val - v2.val) /\ x = Mask(x1 - x2) BY <1>2, <2>4 DEF BinaryResult
    <3>2. v2.state # "STACKRELATIVE" BY <2>4
    <3>3. MeansValue(c, Mask(v1.val - v2.val), Mask(x1 - x2)) BY <1>1, <3>2, MeansDifference
    <3> QED BY <2>1, <2>2, <3>1, <3>3
  <2>5. CASE t \notin {"ADD", "SUB"}
    <3>1. c # "STACKRELATIVE" BY <1>6, <2>2, <2>5
    <3>2. csIsStatic(c) => v = x BY <1>1, <1>2, <2>2 DEF IsStatic
    <3> HIDE DEF c, v, x
    <3> QED BY <2>1, <2>2, <3>1, <3>2 DEF MeansValue
  <2> QED BY <2>3, <2>4, <2>5
<1> QED BY <1>4, <1>5, <1>6

----------------------------------------------------------------------------
(***************************************************************************)
(* Flags                                                                   *)
(***************************************************************************)
LEMMA FlagRecord ==
  ASSUME NEW z \in BOOLEAN, NEW s \in BOOLEAN, NEW p \in BOOLEAN, NEW c \in BOOLEAN, NEW o \in BOOLEAN
  PROVE  /\ [ Zero |-> z, Sign |-> s, Parity |-> p, Carry |-> c, Overflow |-> o ] \in [FlagType -> BOOLEAN]
         /\ [ Zero |-> z, Parity |-> p, Sign |-> s, Carry |-> c, Overflow |-> o ] \in [FlagType -> BOOLEAN]
  BY DEF FlagType

\* Flags of the processor are flags.
LEMMA FlagsType ==
  ASSUME NEW r, NEW carry \in BOOLEAN, NEW over \in BOOLEAN
  PROVE  Flags(r, carry, over) \in [FlagType -> BOOLEAN]
<1>1. /\ (r = 0) \in BOOLEAN /\ (r \in EvenParity) \in BOOLEAN /\ Negative(r) \in BOOLEAN
  BY DEF Negative
<1> QED BY <1>1, FlagRecord, Zenon DEF Flags

\* Flags of the emulator are flags.
LEMMA FlagsOfType ==
  ASSUME NEW r, NEW zero \in BOOLEAN, NEW c
  PROVE  FlagsOf(r, zero, c) \in [FlagType -> BOOLEAN]
<1>1. /\ (r \in EvenParity) \in BOOLEAN /\ (Bit(r, W - 1) = 1) \in BOOLEAN
      /\ (Bit(c, W - 1) = 1) \in BOOLEAN /\ (Bit(c, W - 1) # Bit(c, W - 2)) \in BOOLEAN
  OBVIOUS
<1> QED BY <1>1, FlagRecord, Zenon DEF FlagsOf

\* Flags after sums, differences and bit operations are flags.
LEMMA SumFlagsType ==
  ASSUME NEW a, NEW b
  PROVE  /\ AddFlags(a, b) \in [FlagType -> BOOLEAN]
         /\ SubFlags(a, b) \in [FlagType -> BOOLEAN]
         /\ BitFlags(a) \in [FlagType -> BOOLEAN]
<1>1. /\ (a + b # Mask(a + b)) \in BOOLEAN /\ (a < b) \in BOOLEAN
      /\ (Signed(a) + Signed(b) # Signed(Mask(a + b))) \in BOOLEAN
      /\ (Signed(a) - Signed(b) # Signed(Mask(a - b))) \in BOOLEAN
      /\ FALSE \in BOOLEAN
  OBVIOUS
<1>2. AddFlags(a, b) \in [FlagType -> BOOLEAN] BY <1>1, FlagsType, Zenon DEF AddFlags
<1>3. SubFlags(a, b) \in [FlagType -> BOOLEAN] BY <1>1, FlagsType, Zenon DEF SubFlags
<1>4. BitFlags(a) \in [FlagType -> BOOLEAN] BY <1>1, FlagsType, Zenon DEF BitFlags
<1> QED BY <1>2, <1>3, <1>4

\* Flags after any operation with two operands are flags.
LEMMA FlagsAfterType ==
  ASSUME NEW t \in BinaryOps \cup {"CMP", "TEST"}, NEW a, NEW b, NEW f \in [FlagType -> BOOLEAN]
  PROVE  FlagsAfter(t, a, b, f) \in [FlagType -> BOOLEAN]
<1> DEFINE r == Result(t, a, b)
<1>1. CASE t = "ADD" BY <1>1, SumFlagsType DEF FlagsAfter
<1>2. CASE t \in {"SUB", "CMP"} BY <1>2, SumFlagsType DEF FlagsAfter
<1>3. CASE t \in {"AND", "TEST", "OR", "XOR"}
  <2>1. FlagsAfter(t, a, b, f) = BitFlags(r) BY <1>3 DEF FlagsAfter
  <2> QED BY <2>1, SumFlagsType
<1>4. CASE t = "IMUL"
  <2> DEFINE over == Signed(a) * Signed(b) # Signed(r)
  <2>1. FlagsAfter(t, a, b, f) = [f EXCEPT !["Carry"] = over, !["Overflow"] = over]
    BY <1>4 DEF FlagsAfter
  <2>2. over \in BOOLEAN OBVIOUS
  <2> HIDE DEF over
  <2> QED BY <2>1, <2>2 DEF FlagType
<1>5. CASE t \in {"SHL", "SHR", "SAR"}
  <2>1. FlagsAfter(t, a, b, f) = IF b % W = 0 THEN f ELSE Flags(r, f["Carry"], f["Overflow"])
    BY <1>5 DEF FlagsAfter
  <2>2. f["Carry"] \in BOOLEAN /\ f["Overflow"] \in BOOLEAN BY DEF FlagType
  <2>3. Flags(r, f["Carry"], f["Overflow"]) \in [FlagType -> BOOLEAN] BY <2>2, FlagsType
  <2> QED BY <2>1, <2>3
<1> QED BY <1>1, <1>2, <1>3, <1>4, <1>5 DEF BinaryOps

\* All but flags is the same.
SameData(n, e) ==
  /\ n.reg = e.reg /\ n.reg_state = e.reg_state
  /\ n.stack = e.stack /\ n.stackState = e.stackState /\ n.stackAccessed = e.stackAccessed
  /\ n.ret_stack = e.ret_stack /\ n.mem = e.mem

\* Operands do not depend on flags.
LEMMA SameOperands ==
  ASSUME NEW n, NEW e, SameData(n, e), NEW o, NEW m
  PROVE  /\ getOpAddr(n, o) = getOpAddr(e, o)
         /\ getOpValue(n, o) = getOpValue(e, o)
         /\ Writable(n, m, o) <=> Writable(e, m, o)
         /\ Agrees(n, m) <=> Agrees(e, m)
<1>1. /\ n.reg = e.reg /\ n.reg_state = e.reg_state
      /\ n.stack = e.stack /\ n.stackState = e.stackState /\ n.stackAccessed = e.stackAccessed
      /\ n.mem = e.mem
  BY DEF SameData
<1>2. \A v, r : addRegToValue(v, n, r) = addRegToValue(v, e, r) BY <1>1, Zenon DEF addRegToValue
<1>3. getOpAddr(n, o) = getOpAddr(e, o) BY <1>2, Zenon DEF getOpAddr
<1>4. \A a : getMemValue(n, a) = getMemValue(e, a) BY <1>1, Zenon DEF getMemValue, getStackState
<1>5. getOpValue(n, o) = getOpValue(e, o) BY <1>1, <1>3, <1>4, Zenon DEF getOpValue, RegValue
<1>6. Writable(n, m, o) <=> Writable(e, m, o) BY <1>3 DEF Writable, Reachable
<1>7. Agrees(n, m) <=> Agrees(e, m)
  BY <1>1 DEF Agrees, RegsAgree, StackAgrees, DataAgrees
<1> QED BY <1>3, <1>5, <1>6, <1>7

FlagStates == {"DEAD", "DYNAMIC", "STATIC"}

FlagsOnly(n, e, fs, fl) == Proper(n) /\ SameData(n, e) /\ n.flag = fl /\ n.flag_state = fs

\* Setting flags and their states changes nothing else.
LEMMA FlagsSet ==
  ASSUME NEW e, Proper(e), NEW fs \in [FlagType -> FlagStates], NEW fl \in [FlagType -> BOOLEAN],
         NEW n, n = [[e EXCEPT !.flag_state = fs] EXCEPT !.flag = fl]
  PROVE  FlagsOnly(n, e, fs, fl)
<1>1. e \in EmuState BY DEF Proper
<1>2. fs \in [FlagType -> CaptureState] BY DEF FlagStates, CaptureState
<1>3. /\ n.flag = fl /\ n.flag_state = fs
      /\ n.reg = e.reg /\ n.reg_state = e.reg_state
      /\ n.stack = e.stack /\ n.stackState = e.stackState /\ n.stackAccessed = e.stackAccessed
      /\ n.ret_stack = e.ret_stack /\ n.mem = e.mem
  BY <1>1 DEF EmuState
<1>4. n \in EmuState BY <1>1, <1>2 DEF EmuState
<1>5. Kept(n) BY <1>3 DEF Kept, Proper, FlagStates
<1> QED BY <1>3, <1>4, <1>5 DEF Proper, SameData, FlagsOnly

\* Flags F of n that are known are those in fl; other data are as in e.
KnownFlags(n, e, F, fl) ==
  /\ Proper(n) /\ SameData(n, e)
  /\ \A f \in F : n.flag_state[f] = "STATIC" => n.flag[f] = fl[f]

\* Flags of a difference.
LEMMA SubFlagsSet ==
  ASSUME NEW e, Proper(e), NEW v1, NEW v2, NEW x1, NEW x2, Means(v1, x1), Means(v2, x2)
  PROVE  KnownFlags(setFlagsSub(e, v1, v2), e, FlagType, SubFlags(x1, x2))
<1> DEFINE n  == setFlagsSub(e, v1, v2)
           r  == Mask(v1.val - v2.val)
           st == combineState4Flags(v1.state, v2.state)
           fs == [f \in FlagType |-> IF f \in FlagType THEN st ELSE e.flag_state[f]]
           fl == FlagsOf(r, v1.val = v2.val, Chain(r, v1.val, v2.val))
<1>0. /\ v1.val \in Word /\ v2.val \in Word
      /\ v1.state \in CaptureState /\ v2.state \in CaptureState
      /\ csIsStatic(v1.state) => x1 = v1.val
      /\ csIsStatic(v2.state) => x2 = v2.val
  BY DEF Means, MeansValue
<1>1. n = [[e EXCEPT !.flag_state = fs] EXCEPT !.flag = fl]
  BY DEF setFlagsSub, setFlagsState
<1>2. st \in FlagStates /\ (st = "STATIC" => csIsStatic(v1.state) /\ csIsStatic(v2.state))
  BY <1>0, CombinedForFlags DEF FlagStates
<1>3. fs \in [FlagType -> FlagStates] BY <1>2
<1>4. fl = SubFlags(v1.val, v2.val) BY <1>0, SubFlagsRight
<1>5. fl \in [FlagType -> BOOLEAN] BY <1>4, SumFlagsType
<1>6. \A f \in FlagType : fs[f] = st OBVIOUS
<1> HIDE DEF n, fs, fl, st
<1>7. Proper(n) /\ SameData(n, e) /\ n.flag = fl /\ n.flag_state = fs
  <2>1. FlagsOnly(n, e, fs, fl) BY <1>1, <1>3, <1>5, FlagsSet, Zenon
  <2> QED BY <2>1 DEF FlagsOnly
<1>8. st = "STATIC" => fl = SubFlags(x1, x2) BY <1>0, <1>2, <1>4
<1> QED BY <1>6, <1>7, <1>8 DEF n, KnownFlags

\* Flags of a sum; those of carries are wrong.
LEMMA AddFlagsSet ==
  ASSUME NEW e, Proper(e), NEW v1, NEW v2, NEW x1, NEW x2, Means(v1, x1), Means(v2, x2)
  PROVE  KnownFlags(setFlagsAdd(e, v1, v2), e, FlagType \ {"Carry", "Overflow"}, AddFlags(x1, x2))
<1> DEFINE n  == setFlagsAdd(e, v1, v2)
           r  == Mask(v1.val + v2.val)
           st == combineState4Flags(v1.state, v2.state)
           fs == [f \in FlagType |-> IF f \in FlagType THEN st ELSE e.flag_state[f]]
           fl == FlagsOf(r, r = 0, Chain(r, v1.val, v2.val))
<1>0. /\ v1.val \in Word /\ v2.val \in Word
      /\ v1.state \in CaptureState /\ v2.state \in CaptureState
      /\ csIsStatic(v1.state) => x1 = v1.val
      /\ csIsStatic(v2.state) => x2 = v2.val
  BY DEF Means, MeansValue
<1>1. n = [[e EXCEPT !.flag_state = fs] EXCEPT !.flag = fl]
  BY DEF setFlagsAdd, setFlagsState
<1>2. st \in FlagStates /\ (st = "STATIC" => csIsStatic(v1.state) /\ csIsStatic(v2.state))
  BY <1>0, CombinedForFlags DEF FlagStates
<1>3. fs \in [FlagType -> FlagStates] BY <1>2
<1>4. (r = 0) \in BOOLEAN OBVIOUS
<1>5. fl \in [FlagType -> BOOLEAN] BY <1>4, FlagsOfType
<1>6. \A f \in FlagType : fs[f] = st OBVIOUS
<1>7. \A f \in FlagType \ {"Carry", "Overflow"} : fl[f] = AddFlags(v1.val, v2.val)[f]
  <2>1. \A c1, c2, o1, o2, p, q, s :
          LET g == [ Zero |-> q, Parity |-> p, Sign |-> s, Carry |-> c1, Overflow |-> o1 ]
              h == [ Zero |-> q, Sign |-> s, Parity |-> p, Carry |-> c2, Overflow |-> o2 ]
          IN \A f \in FlagType \ {"Carry", "Overflow"} : g[f] = h[f]
    BY DEF FlagType
  <2> DEFINE q  == r = 0
             p  == r \in EvenParity
             s  == Bit(r, W - 1) = 1
             c1 == Bit(Chain(r, v1.val, v2.val), W - 1) = 1
             o1 == Bit(Chain(r, v1.val, v2.val), W - 1) # Bit(Chain(r, v1.val, v2.val), W - 2)
             c2 == v1.val + v2.val # r
             o2 == Signed(v1.val) + Signed(v2.val) # Signed(r)
  <2>2. fl = [ Zero |-> q, Parity |-> p, Sign |-> s, Carry |-> c1, Overflow |-> o1 ]
    BY Zenon DEF FlagsOf
  <2>3. AddFlags(v1.val, v2.val)
          = [ Zero |-> q, Sign |-> s, Parity |-> p, Carry |-> c2, Overflow |-> o2 ]
    BY Zenon DEF AddFlags, Flags, Negative
  <2> HIDE DEF q, p, s, c1, o1, c2, o2, fl, r
  <2> QED BY <2>1, <2>2, <2>3
<1> HIDE DEF n, fs, fl, st
<1>8. Proper(n) /\ SameData(n, e) /\ n.flag = fl /\ n.flag_state = fs
  <2>1. FlagsOnly(n, e, fs, fl) BY <1>1, <1>3, <1>5, FlagsSet, Zenon
  <2> QED BY <2>1 DEF FlagsOnly
<1>9. st = "STATIC" => x1 = v1.val /\ x2 = v2.val BY <1>0, <1>2
<1> QED BY <1>6, <1>7, <1>8, <1>9 DEF n, KnownFlags

\* Flags of bitwise operations.
LEMMA BitFlagsSet ==
  ASSUME NEW e, Proper(e), NEW t \in {"AND", "OR", "XOR"}, NEW v1, NEW v2, NEW x1, NEW x2,
         Means(v1, x1), Means(v2, x2), NEW same \in BOOLEAN, t = "XOR" /\ same => v1 = v2 /\ x1 = x2
  PROVE  KnownFlags(setFlagsBit(e, t, v1, v2, same), e, FlagType, BitFlags(BitOp(t, x1, x2)))
<1> DEFINE n  == setFlagsBit(e, t, v1, v2, same)
           r  == BitOp(t, v1.val, v2.val)
           st == BitState(t, v1, v2, same)
           f1 == [f \in FlagType |-> IF f \in {"Carry", "Overflow"} THEN "STATIC" ELSE e.flag_state[f]]
           fs == [f \in FlagType |-> IF f \in {"Zero", "Sign", "Parity"} THEN st ELSE f1[f]]
           fl == FlagsOf(r, r = 0, 0)
<1>1. n = [[e EXCEPT !.flag_state = fs] EXCEPT !.flag = fl]
  <2>1. e \in EmuState BY DEF Proper
  <2>2. setFlagsState(e, {"Carry", "Overflow"}, "STATIC") = [e EXCEPT !.flag_state = f1]
    BY DEF setFlagsState
  <2>3. setFlagsState([e EXCEPT !.flag_state = f1], {"Zero", "Sign", "Parity"}, st)
          = [e EXCEPT !.flag_state = fs]
    <3> HIDE DEF f1, st
    <3> QED BY <2>1 DEF setFlagsState, EmuState
  <2> QED BY <2>2, <2>3, Zenon DEF setFlagsBit
<1>2. st \in FlagStates /\ (st = "STATIC" => r = BitOp(t, x1, x2))
  BY BitStateFacts DEF FlagStates
<1>3. \A f \in FlagType : fs[f] = IF f \in {"Carry", "Overflow"} THEN "STATIC" ELSE st
  BY DEF FlagType
<1>4. fs \in [FlagType -> FlagStates] BY <1>2, <1>3 DEF FlagStates
<1>5. (r = 0) \in BOOLEAN OBVIOUS
<1>6. fl \in [FlagType -> BOOLEAN] BY <1>5, FlagsOfType
<1>7. /\ Bit(0, W - 1) = 0 /\ Bit(0, W - 2) = 0
  <2>1. W - 1 \in Bits /\ W - 2 \in Bits BY Sizes DEF Bits
  <2> QED BY <2>1, ZeroBit
<1>8. fl = BitFlags(r)
  <2>1. (Bit(0, W - 1) = 1) = FALSE /\ (Bit(0, W - 1) # Bit(0, W - 2)) = FALSE BY <1>7
  <2> QED BY <2>1, Zenon DEF FlagsOf, BitFlags, Flags, Negative
<1>9. \A y : BitFlags(y)["Carry"] = FALSE /\ BitFlags(y)["Overflow"] = FALSE
  BY DEF BitFlags, Flags
<1> HIDE DEF n, fs, fl, st, r
<1>10. Proper(n) /\ SameData(n, e) /\ n.flag = fl /\ n.flag_state = fs
  <2>1. FlagsOnly(n, e, fs, fl) BY <1>1, <1>4, <1>6, FlagsSet, Zenon
  <2> QED BY <2>1 DEF FlagsOnly
<1>11. ASSUME NEW f \in FlagType, fs[f] = "STATIC" PROVE fl[f] = BitFlags(BitOp(t, x1, x2))[f]
  <2>1. CASE f \in {"Carry", "Overflow"} BY <1>8, <1>9, <2>1, Zenon
  <2>2. CASE f \notin {"Carry", "Overflow"}
    <3>1. st = "STATIC" BY <1>3, <1>11, <2>2
    <3> QED BY <1>2, <1>8, <3>1
  <2> QED BY <2>1, <2>2
<1> QED BY <1>10, <1>11 DEF n, KnownFlags

----------------------------------------------------------------------------
(***************************************************************************)
(* What is executed, by type of instruction                                *)
(***************************************************************************)
CMovTypes == {"CMOVO", "CMOVNO", "CMOVC", "CMOVNC", "CMOVZ", "CMOVNZ", "CMOVS", "CMOVNS"}

\* The conditional moves, by name.
LEMMA CMovNames == DOMAIN CMovs = CMovTypes /\ DOMAIN CMovFlag = CMovTypes
  BY DEF CMovs, CMovFlag, CMovTypes

\* The processor.
LEMMA ExecOf ==
  ASSUME NEW m, NEW i
  PROVE  /\ i.type = "MOV" => Exec(m, i) = Write(m, i.dst, Value(m, i.src))
         /\ i.type = "LEA" => Exec(m, i) = Write(m, i.dst, AddrOf(m, i.src))
         /\ i.type \in CMovTypes => Exec(m, i) =
              IF Taken(CMovs[i.type], m.flag) THEN Write(m, i.dst, Value(m, i.src)) ELSE m
         /\ i.type \in (BinaryOps \ {"IMUL"}) \cup {"CMP", "TEST"} =>
              Exec(m, i) = Operate(m, i, Value(m, i.dst), Value(m, i.src))
         /\ i.type = "IMUL" => Exec(m, i) =
              IF i.src2 = NoOp THEN Operate(m, i, Value(m, i.dst), Value(m, i.src))
              ELSE Operate(m, i, Value(m, i.src), Value(m, i.src2))
         /\ i.type \in {"INC", "DEC", "NEG"} => Exec(m, i) = OneOperand(m, i)
         /\ i.type = "IDIV" => Exec(m, i) = Divide(m, i.dst)
         /\ i.type = "CQTO" => Exec(m, i) =
              [m EXCEPT !.reg["D"] = IF Negative(m.reg["A"]) THEN 2 ^ W - 1 ELSE 0]
         /\ i.type = "PUSH" => Exec(m, i) = PushWord(m, Value(m, i.dst))
         /\ i.type = "POP" => Exec(m, i) = PopWord(m, i.dst.reg)
         /\ i.type = "LEAVE" => Exec(m, i) = PopWord([m EXCEPT !.reg["SP"] = m.reg["BP"]], "BP")
         /\ i.type = "CALL" => Exec(m, i) = PushWord(m, i.src.val)
         /\ i.type = "RET" => Exec(m, i) = [m EXCEPT !.reg["SP"] = Mask(@ + 1)]
         /\ i.type = "VLOAD" => Exec(m, i) = [m EXCEPT !.vec = Value(m, i.src)]
         /\ i.type = "VADD" => Exec(m, i) = [m EXCEPT !.vec = Mask(@ + Value(m, i.src))]
         /\ i.type \in {"VSTORE", "VGET"} => Exec(m, i) = Write(m, i.dst, m.vec)
<1>1. i.type = "MOV" => Exec(m, i) = Write(m, i.dst, Value(m, i.src)) BY CMovNames DEF Exec, CMovTypes
<1>2. i.type = "LEA" => Exec(m, i) = Write(m, i.dst, AddrOf(m, i.src)) BY CMovNames DEF Exec, CMovTypes
<1>3. i.type \in CMovTypes => Exec(m, i) =
        IF Taken(CMovs[i.type], m.flag) THEN Write(m, i.dst, Value(m, i.src)) ELSE m
  BY CMovNames DEF Exec, CMovTypes
<1>4. i.type \in (BinaryOps \ {"IMUL"}) \cup {"CMP", "TEST"} =>
        Exec(m, i) = Operate(m, i, Value(m, i.dst), Value(m, i.src))
  BY CMovNames DEF Exec, BinaryOps, CMovTypes
<1>5. i.type = "IMUL" => Exec(m, i) =
        IF i.src2 = NoOp THEN Operate(m, i, Value(m, i.dst), Value(m, i.src))
        ELSE Operate(m, i, Value(m, i.src), Value(m, i.src2))
  BY CMovNames DEF Exec, CMovTypes
<1>6. i.type \in {"INC", "DEC", "NEG"} => Exec(m, i) = OneOperand(m, i)
  BY CMovNames DEF Exec, CMovTypes
<1>7. i.type = "IDIV" => Exec(m, i) = Divide(m, i.dst) BY CMovNames DEF Exec, CMovTypes
<1>8. i.type = "CQTO" => Exec(m, i) =
        [m EXCEPT !.reg["D"] = IF Negative(m.reg["A"]) THEN 2 ^ W - 1 ELSE 0]
  BY CMovNames DEF Exec, CMovTypes
<1>9. i.type = "PUSH" => Exec(m, i) = PushWord(m, Value(m, i.dst)) BY CMovNames DEF Exec, CMovTypes
<1>10. i.type = "POP" => Exec(m, i) = PopWord(m, i.dst.reg) BY CMovNames DEF Exec, CMovTypes
<1>11. i.type = "LEAVE" => Exec(m, i) = PopWord([m EXCEPT !.reg["SP"] = m.reg["BP"]], "BP")
  BY CMovNames DEF Exec, CMovTypes
<1>12. i.type = "CALL" => Exec(m, i) = PushWord(m, i.src.val) BY CMovNames DEF Exec, CMovTypes
<1>13. i.type = "RET" => Exec(m, i) = [m EXCEPT !.reg["SP"] = Mask(@ + 1)]
  BY CMovNames DEF Exec, CMovTypes
<1>14. i.type = "VLOAD" => Exec(m, i) = [m EXCEPT !.vec = Value(m, i.src)]
  BY CMovNames DEF Exec, CMovTypes
<1>15. i.type = "VADD" => Exec(m, i) = [m EXCEPT !.vec = Mask(@ + Value(m, i.src))]
  BY CMovNames DEF Exec, CMovTypes
<1>16. i.type \in {"VSTORE", "VGET"} => Exec(m, i) = Write(m, i.dst, m.vec)
  BY CMovNames DEF Exec, CMovTypes
<1> QED BY <1>1, <1>2, <1>3, <1>4, <1>5, <1>6, <1>7, <1>8, <1>9, <1>10, <1>11, <1>12, <1>13, <1>14,
           <1>15, <1>16, Zenon

\* The emulator.
LEMMA EmulationOf ==
  ASSUME NEW e, NEW i, NEW force
  PROVE  /\ i.type \in BinaryOps => processInstr(e, i, force) = emulateBinary(e, i, force)
         /\ i.type = "CMP" => processInstr(e, i, force) = emulateCmp(e, i)
         /\ i.type = "TEST" => processInstr(e, i, force) = emulateTest(e, i)
         /\ i.type \in {"INC", "DEC", "NEG"} => processInstr(e, i, force) = emulateUnary(e, i, force)
         /\ i.type = "MOV" => processInstr(e, i, force) = emulateMov(e, i)
         /\ i.type = "LEA" => processInstr(e, i, force) = emulateLea(e, i, force)
         /\ i.type \in CMovTypes => processInstr(e, i, force) = emulateCMov(e, i)
         /\ i.type = "IDIV" => processInstr(e, i, force) = emulateIDiv(e, i)
         /\ i.type = "CQTO" => processInstr(e, i, force) = emulateCqto(e, i)
         /\ i.type = "PUSH" => processInstr(e, i, force) = emulatePush(e, i)
         /\ i.type = "POP" => processInstr(e, i, force) = emulatePop(e, i)
         /\ i.type = "LEAVE" => processInstr(e, i, force) = emulateLeave(e)
         /\ i.type = "CALL" => processInstr(e, i, force) = emulateCall(e, i)
         /\ i.type = "RET" => processInstr(e, i, force) = emulateRet(e)
         /\ i.type \in {"VLOAD", "VADD", "VSTORE", "VGET"} =>
              processInstr(e, i, force) = emulateVector(e, i)
  BY CMovNames DEF processInstr, BinaryOps, CMovTypes

\* Flags lost, by type of instruction.
LEMMA LostOf ==
  ASSUME NEW i, NEW e, NEW out
  PROVE  /\ i.type \in {"NEG", "SHL", "SHR", "SAR", "IMUL", "IDIV"} => FlagType \subseteq LostBy(i, e, out)
         /\ i.type \in {"INC", "DEC"} => lost \cup (FlagType \ {"Carry"}) = LostBy(i, e, out)
         /\ i.type = "ADD" => \A f \in {"Carry", "Overflow"} :
              e.flag_state[f] = "STATIC" => f \in LostBy(i, e, out)
         /\ i.type \in CMovTypes \cup {"MOV", "LEA", "CQTO", "PUSH", "POP", "LEAVE", "CALL", "RET",
                                       "VLOAD", "VADD", "VSTORE", "VGET"} =>
              LostBy(i, e, out) = lost
<1>1. i.type \in {"NEG", "SHL", "SHR", "SAR", "IMUL", "IDIV"} => FlagType \subseteq LostBy(i, e, out)
  BY DEF LostBy
<1>2. i.type \in {"INC", "DEC"} => lost \cup (FlagType \ {"Carry"}) = LostBy(i, e, out) BY DEF LostBy
<1>3. i.type = "ADD" => \A f \in {"Carry", "Overflow"} :
        e.flag_state[f] = "STATIC" => f \in LostBy(i, e, out)
  BY DEF LostBy, FlagType
<1>4. i.type \in CMovTypes \cup {"MOV", "LEA", "CQTO", "PUSH", "POP", "LEAVE", "CALL", "RET",
                                 "VLOAD", "VADD", "VSTORE", "VGET"} =>
        LostBy(i, e, out) = lost
  BY DEF LostBy, CMovTypes
<1> QED BY <1>1, <1>2, <1>3, <1>4, Zenon

----------------------------------------------------------------------------
(***************************************************************************)
(* The inductive invariant, and what it yields for an instruction that may *)
(* be executed.                                                            *)
(***************************************************************************)
KnownInv ==
  /\ kind \in DOMAIN Functions
  /\ Proper(es) /\ (\A s \in savedState : Proper(s))
  /\ orig \in Machine
  /\ status = "running" => Agrees(es, orig) /\ FlagsAgree(es, orig, lost)

\* After an instruction with outcome r, unless it returns from the function.
Follows(i, r) ==
  /\ Proper(r.es)
  /\ r.err = "none" =>
       /\ Exec(orig, i) \in Machine
       /\ ~(i.type = "RET" /\ Depth(es) = 0) =>
            Agrees(r.es, Exec(orig, i)) /\ FlagsAgree(r.es, Exec(orig, i), LostBy(i, r.es, r.out))

\* An instruction that is executed next.
Executable(i) ==
  /\ Proper(es) /\ orig \in Machine /\ Agrees(es, orig) /\ FlagsAgree(es, orig, lost)
  /\ WellFormed(i) /\ Accesses(i) /\ WithinLimits(i)

\* What is known of the operands of an instruction that is executed.
LEMMA ExecutableFacts ==
  ASSUME NEW i, Executable(i)
  PROVE  /\ es \in EmuState /\ orig \in Machine /\ Agrees(es, orig) /\ RegsAgree(es, orig)
         /\ i.dst \in Operand /\ i.src \in Operand /\ i.src2 \in Operand
         /\ \A o \in Operands(i) : i.type # "LEA" => Means(getOpValue(es, o), Value(orig, o))
         /\ i.type # "LEA" => \A o \in Operands(i) : Reachable(es, orig, o)
         /\ /\ i.dst.kind \in {"Reg", "Ind"} /\ i.type \notin {"CMP", "TEST", "PUSH", "CALL", "IDIV"}
            /\ i.type = "LEA" => i.dst.kind = "Reg"
            => Writable(es, orig, i.dst)
<1>1. es \in EmuState /\ orig \in Machine /\ Agrees(es, orig) /\ RegsAgree(es, orig)
  BY DEF Executable, Proper, Agrees
<1>2. i.dst \in Operand /\ i.src \in Operand /\ i.src2 \in Operand
  BY DEF Executable, WellFormed
<1>3. ASSUME i.type # "LEA", NEW o \in Operands(i) PROVE Reachable(es, orig, o)
  <2>1. CASE o.kind = "Ind"
    <3>1. o \in MemOps(i) BY <1>3, <2>1 DEF MemOps
    <3>2. /\ IsStackOp(o) <=> AddrOf(orig, o) \in StackAddrs
          /\ getOpAddr(es, o).state = "STATIC2" => getOpAddr(es, o).val \in Data
      BY <3>1 DEF Executable, Accesses
    <3> QED BY <3>2 DEF Reachable, IsStackOp
  <2>2. CASE o.kind # "Ind" BY <2>2 DEF Reachable
  <2> QED BY <2>1, <2>2
<1>4. ASSUME i.type # "LEA", NEW o \in Operands(i) PROVE Means(getOpValue(es, o), Value(orig, o))
  <2>1. o \in Operand /\ o # NoOp BY <1>2 DEF Operands
  <2>2. Reachable(es, orig, o) BY <1>3, <1>4
  <2> QED BY <1>1, <2>1, <2>2, ValueMeans
<1>5. ASSUME i.dst.kind \in {"Reg", "Ind"}, i.type \notin {"CMP", "TEST", "PUSH", "CALL", "IDIV"},
             i.type = "LEA" => i.dst.kind = "Reg"
      PROVE  Writable(es, orig, i.dst)
  <2>1. CASE i.dst.kind = "Reg" BY <2>1 DEF Writable
  <2>2. CASE i.dst.kind = "Ind"
    <3>1. i.type # "LEA" BY <1>5, <2>2
    <3>2. i.dst # NoOp BY <2>2 DEF NoOp
    <3>3. i.dst \in Operands(i) BY <3>2 DEF Operands
    <3>4. i.dst \in StoresTo(i) BY <1>5, <2>2, <3>1, <3>3 DEF StoresTo, MemOps
    <3>5. Data \cap {AddrOf(orig, i.dst), getOpAddr(es, i.dst).val} = {}
      BY <3>4 DEF Executable, Accesses
    <3>6. Reachable(es, orig, i.dst) BY <1>3, <3>1, <3>3
    <3> QED BY <2>2, <3>5, <3>6 DEF Writable
  <2> QED BY <1>5, <2>1, <2>2
<1> QED BY <1>1, <1>2, <1>3, <1>4, <1>5

\* Instructions that set no flags, on either side.
LEMMA FollowsData ==
  ASSUME NEW i, Executable(i), NEW r,
         LostBy(i, r.es, r.out) = lost,
         r.err = "none" => DataStep(es, orig, r.es, Exec(orig, i)),
         r.err # "none" => Proper(r.es)
  PROVE  Follows(i, r)
<1>1. CASE r.err = "none"
  <2>1. DataStep(es, orig, r.es, Exec(orig, i)) BY <1>1
  <2>2. FlagsAgree(es, orig, lost) BY DEF Executable
  <2>3. FlagsAgree(r.es, Exec(orig, i), lost) BY <2>1, <2>2 DEF FlagsAgree, DataStep
  <2> QED BY <2>1, <2>3 DEF DataStep, Follows
<1>2. CASE r.err # "none" BY <1>2 DEF Follows
<1> QED BY <1>1, <1>2

\* The processor's flags are not data.
LEMMA MachineFlags ==
  ASSUME NEW m, m \in Machine, NEW fl \in [FlagType -> BOOLEAN], NEW k, k = [m EXCEPT !.flag = fl]
  PROVE  /\ k \in Machine /\ k.flag = fl /\ k.reg = m.reg /\ k.mem = m.mem
         /\ \A e : Agrees(e, m) <=> Agrees(e, k)
<1>1. k \in Machine /\ k.flag = fl /\ k.reg = m.reg /\ k.mem = m.mem BY DEF Machine
<1> QED BY <1>1 DEF Agrees, RegsAgree, StackAgrees, DataAgrees

\* A known result that is made unknown is still right.
LEMMA ForcedMeans ==
  ASSUME NEW v, NEW x, Means(v, x), NEW force
  PROVE  Means(Forced(v, force), x)
<1>1. CASE IsStatic(v) /\ force
  <2>1. Forced(v, force) = EmuValue(v.val, "DYNAMIC") BY <1>1 DEF Forced
  <2> QED BY <2>1, MeansNothing DEF Means, EmuValue, CaptureState
<1>2. CASE ~(IsStatic(v) /\ force)
  <2>1. Forced(v, force) = v BY <1>2 DEF Forced
  <2> QED BY <2>1
<1> QED BY <1>1, <1>2

----------------------------------------------------------------------------
(***************************************************************************)
(* The instructions                                                        *)
(***************************************************************************)
LEMMA MovFollows ==
  ASSUME NEW i, Executable(i), i.type = "MOV"
  PROVE  Follows(i, emulateMov(es, i))
<1> DEFINE r == emulateMov(es, i)
           v == getOpValue(es, i.src)
           x == Value(orig, i.src)
           out == captureMov(es, i, v)
<1>1. i.src.kind \in {"Reg", "Imm", "Ind"} /\ i.dst.kind \in {"Reg", "Ind"}
  BY DEF Executable, WellFormed, BinaryOps, CMovFlag
<1>2. i.src \in Operands(i) BY <1>1 DEF Operands, NoOp
<1>3. Means(v, x) BY <1>2, ExecutableFacts
<1>4. Proper(es) /\ orig \in Machine /\ Agrees(es, orig) /\ Writable(es, orig, i.dst) /\ i.dst \in Operand
  BY <1>1, ExecutableFacts DEF Executable
<1>5. r = Assign(es, i.dst, v, out) BY DEF emulateMov
<1>6. Exec(orig, i) = Write(orig, i.dst, x) BY ExecOf
<1> HIDE DEF r, v, x, out
<1>7. /\ r.err \in {"none", "abort"}
      /\ r.err = "none" => DataStep(es, orig, r.es, Write(orig, i.dst, x))
      /\ r.err # "none" => r.es = es
  BY <1>3, <1>4, <1>5, Assigned
<1>8. LostBy(i, r.es, r.out) = lost BY LostOf
<1>9. Follows(i, r) BY <1>4, <1>6, <1>7, <1>8, FollowsData
<1> QED BY <1>9 DEF r

\* LEA: the address is known or stack-relative as its registers are.
LEMMA LeaFollows ==
  ASSUME NEW i, Executable(i), i.type = "LEA", NEW force
  PROVE  Follows(i, emulateLea(es, i, force))
<1> DEFINE r == emulateLea(es, i, force)
           v == getOpAddr(es, i.src)
           f == Forced(v, force)
           x == AddrOf(orig, i.src)
           out == captureLea(es, i, v, force)
<1>1. i.src.kind = "Ind" /\ i.dst.kind = "Reg"
  BY DEF Executable, WellFormed, BinaryOps, CMovFlag
<1>2. Means(v, x) BY <1>1, ExecutableFacts, AddrMeans
<1>3. Means(f, x) BY <1>2, ForcedMeans
<1>4. Proper(es) /\ orig \in Machine /\ Agrees(es, orig) /\ Writable(es, orig, i.dst) /\ i.dst \in Operand
  BY <1>1, ExecutableFacts DEF Executable
<1>5. r = Assign(es, i.dst, f, out) BY DEF emulateLea
<1>6. Exec(orig, i) = Write(orig, i.dst, x) BY ExecOf
<1> HIDE DEF r, v, f, x, out
<1>7. /\ r.err \in {"none", "abort"}
      /\ r.err = "none" => DataStep(es, orig, r.es, Write(orig, i.dst, x))
      /\ r.err # "none" => r.es = es
  BY <1>3, <1>4, <1>5, Assigned
<1>8. LostBy(i, r.es, r.out) = lost BY LostOf
<1>9. Follows(i, r) BY <1>4, <1>6, <1>7, <1>8, FollowsData
<1> QED BY <1>9 DEF r

\* Flags the emulator computes right for an operation with two operands.
FlagsComputed(t) ==
  IF t = "ADD" THEN FlagType \ {"Carry", "Overflow"}
  ELSE IF t \in {"SUB", "AND", "OR", "XOR"} THEN FlagType ELSE {}

\* Flags after operations with two operands (setFlagsAdd, setFlagsSub, setFlagsBit).
LEMMA BinaryFlagsSet ==
  ASSUME NEW e, Proper(e), NEW t \in BinaryOps, NEW v1, NEW v2, NEW x1, NEW x2,
         Means(v1, x1), Means(v2, x2), NEW same \in BOOLEAN, t = "XOR" /\ same => v1 = v2 /\ x1 = x2,
         NEW fl
  PROVE  KnownFlags(BinaryFlags(e, t, v1, v2, same), e, FlagsComputed(t), FlagsAfter(t, x1, x2, fl))
<1> DEFINE n == BinaryFlags(e, t, v1, v2, same)
<1>1. CASE t = "ADD"
  <2>1. /\ n = setFlagsAdd(e, v1, v2) /\ FlagsAfter(t, x1, x2, fl) = AddFlags(x1, x2)
        /\ FlagsComputed(t) = FlagType \ {"Carry", "Overflow"}
    BY <1>1 DEF BinaryFlags, FlagsAfter, FlagsComputed
  <2> QED BY <2>1, AddFlagsSet
<1>2. CASE t = "SUB"
  <2>1. /\ n = setFlagsSub(e, v1, v2) /\ FlagsAfter(t, x1, x2, fl) = SubFlags(x1, x2)
        /\ FlagsComputed(t) = FlagType
    BY <1>2 DEF BinaryFlags, FlagsAfter, FlagsComputed
  <2> QED BY <2>1, SubFlagsSet
<1>3. CASE t \in {"AND", "OR", "XOR"}
  <2>1. n = setFlagsBit(e, t, v1, v2, same) /\ FlagsComputed(t) = FlagType
    BY <1>3 DEF BinaryFlags, FlagsComputed
  <2>2. FlagsAfter(t, x1, x2, fl) = BitFlags(BitOp(t, x1, x2)) BY <1>3 DEF FlagsAfter, Result, BitOp
  <2>3. KnownFlags(setFlagsBit(e, t, v1, v2, same), e, FlagType, BitFlags(BitOp(t, x1, x2)))
    BY <1>3, BitFlagsSet
  <2> QED BY <2>1, <2>2, <2>3
<1>4. CASE t \notin {"ADD", "SUB", "AND", "OR", "XOR"}
  <2>1. n = e /\ FlagsComputed(t) = {} BY <1>4 DEF BinaryFlags, FlagsComputed
  <2> QED BY <2>1 DEF SameData, KnownFlags
<1> QED BY <1>1, <1>2, <1>3, <1>4

\* Operations with two operands.
LEMMA BinaryFollows ==
  ASSUME NEW i, Executable(i), i.type \in BinaryOps, NEW force
  PROVE  Follows(i, emulateBinary(es, i, force))
<1> DEFINE t     == i.type
           three == i.src2 # NoOp
           o1    == IF three THEN i.src ELSE i.dst
           o2    == IF three THEN i.src2 ELSE i.src
           same  == i.dst = i.src
           v1    == getOpValue(es, o1)
           v2    == getOpValue(es, o2)
           x1    == Value(orig, o1)
           x2    == Value(orig, o2)
           v     == EmuValue(BinaryResult(t, v1.val, v2.val), BinaryState(t, v1, v2, same))
           e1    == BinaryFlags(es, t, v1, v2, same)
           x     == Result(t, x1, x2)
           fl    == FlagsAfter(t, x1, x2, orig.flag)
           w     == Write(orig, i.dst, x)
           r     == emulateBinary(es, i, force)
<1>1. /\ i.dst.kind \in {"Reg", "Ind"} /\ i.src.kind \in {"Reg", "Imm", "Ind"}
      /\ three => t = "IMUL" /\ i.src2.kind = "Imm"
  BY DEF Executable, WellFormed, BinaryOps, CMovFlag
<1>2. o1 \in Operands(i) /\ o2 \in Operands(i)
  BY <1>1 DEF Operands, NoOp
<1>3. t \in BinaryOps /\ t # "LEA" /\ t \notin {"CMP", "TEST", "PUSH", "CALL", "IDIV"} BY DEF BinaryOps
<1>4. Means(v1, x1) /\ Means(v2, x2) BY <1>2, <1>3, ExecutableFacts
<1>5. same \in BOOLEAN /\ (t = "XOR" /\ same => v1 = v2 /\ x1 = x2) BY <1>1
<1>6. /\ t \notin {"ADD", "AND", "OR", "XOR"} => v2.state # "STACKRELATIVE"
      /\ t \notin {"ADD", "SUB", "AND", "OR", "XOR"} => v1.state # "STACKRELATIVE"
  <2>1. /\ t \in BinaryOps \ {"ADD", "AND", "OR", "XOR"} =>
             ~(i.src # NoOp /\ getOpValue(es, i.src).state = "STACKRELATIVE")
        /\ t \in BinaryOps \ {"ADD", "SUB", "AND", "OR", "XOR"} =>
             ~(i.dst # NoOp /\ getOpValue(es, i.dst).state = "STACKRELATIVE")
    BY DEF Executable, WithinLimits, RelativeLimit
  <2>2. i.dst # NoOp /\ i.src # NoOp BY <1>1 DEF NoOp
  <2>3. CASE three
    <3>1. v2.state = "STATIC" BY <1>1, <2>3 DEF getOpValue, EmuValue
    <3>2. t = "IMUL" /\ v1 = getOpValue(es, i.src) BY <1>1, <2>3
    <3> QED BY <1>3, <2>1, <2>2, <3>1, <3>2
  <2>4. CASE ~three
    <3>1. v1 = getOpValue(es, i.dst) /\ v2 = getOpValue(es, i.src) BY <2>4
    <3> QED BY <1>3, <2>1, <2>2, <3>1
  <2> QED BY <2>3, <2>4
<1>7. r = Assign(e1, i.dst, Forced(v, force), captureBinaryOp(e1, i, v, force))
  BY DEF emulateBinary
<1>8. Exec(orig, i) = [w EXCEPT !.flag = fl]
  <2>1. Exec(orig, i) = Operate(orig, i, x1, x2)
    <3>1. CASE t = "IMUL" BY <3>1, ExecOf
    <3>2. CASE t # "IMUL"
      <4>1. ~three BY <1>1, <3>2
      <4> QED BY <1>3, <3>2, <4>1, ExecOf
    <3> QED BY <3>1, <3>2
  <2>2. Operate(orig, i, x1, x2) = [Write(orig, i.dst, Result(i.type, x1, x2))
                                      EXCEPT !.flag = FlagsAfter(i.type, x1, x2, orig.flag)]
    BY <1>3 DEF Operate
  <2> QED BY <2>1, <2>2
<1> HIDE DEF three, o1, o2, same, v1, v2, x1, x2
<1>9. Means(v, x) BY <1>3, <1>4, <1>5, <1>6, BinaryMeans
<1>10. Means(Forced(v, force), x) BY <1>9, ForcedMeans
<1>11. Proper(es) /\ orig \in Machine /\ Agrees(es, orig) /\ Writable(es, orig, i.dst) /\ i.dst \in Operand
  BY <1>1, <1>3, ExecutableFacts DEF Executable
<1>12. /\ Proper(e1) /\ SameData(e1, es)
       /\ \A f \in FlagsComputed(t) : e1.flag_state[f] = "STATIC" => e1.flag[f] = fl[f]
  <2>1. KnownFlags(e1, es, FlagsComputed(t), fl) BY <1>3, <1>4, <1>5, <1>11, BinaryFlagsSet
  <2> QED BY <2>1 DEF KnownFlags
<1>13. fl \in [FlagType -> BOOLEAN]
  <2>1. orig.flag \in [FlagType -> BOOLEAN] BY <1>11 DEF Machine
  <2> QED BY <1>3, <2>1, FlagsAfterType
<1> HIDE DEF v, e1, x, fl, w, r
<1>14. Agrees(e1, orig) /\ Writable(e1, orig, i.dst) BY <1>11, <1>12, SameOperands
<1>15. /\ r.err \in {"none", "abort"}
       /\ r.err = "none" => DataStep(e1, orig, r.es, w)
       /\ r.err # "none" => r.es = e1
  BY <1>7, <1>10, <1>11, <1>12, <1>14, Assigned DEF w
<1>16. ASSUME r.err = "none"
       PROVE  /\ Proper(r.es) /\ Exec(orig, i) \in Machine
              /\ Agrees(r.es, Exec(orig, i)) /\ FlagsAgree(r.es, Exec(orig, i), LostBy(i, r.es, r.out))
  <2>1. /\ Proper(r.es) /\ w \in Machine /\ Agrees(r.es, w)
        /\ r.es.flag = e1.flag /\ r.es.flag_state = e1.flag_state
    BY <1>15, <1>16 DEF DataStep
  <2>2. /\ Exec(orig, i) \in Machine /\ Agrees(r.es, Exec(orig, i)) /\ Exec(orig, i).flag = fl
    BY <1>8, <1>13, <2>1, MachineFlags
  <2>3. ASSUME NEW f \in FlagType, r.es.flag_state[f] = "STATIC", f \notin LostBy(i, r.es, r.out)
        PROVE  r.es.flag[f] = fl[f]
    <3>1. t \in {"ADD", "SUB", "AND", "OR", "XOR"} BY <1>3, <2>3, LostOf DEF BinaryOps
    <3>2. ~(t = "ADD" /\ f \in {"Carry", "Overflow"}) BY <2>3, LostOf
    <3>3. f \in FlagsComputed(t) BY <3>1, <3>2 DEF FlagsComputed
    <3> QED BY <1>12, <2>1, <2>3, <3>3
  <2> QED BY <2>1, <2>2, <2>3 DEF FlagsAgree
<1>17. Follows(i, r) BY <1>12, <1>15, <1>16 DEF Follows
<1> QED BY <1>17 DEF r

\* Comparisons only set flags.
LEMMA FollowsFlags ==
  ASSUME NEW i, Executable(i), NEW n, NEW fl \in [FlagType -> BOOLEAN],
         KnownFlags(n, es, FlagType, fl), Exec(orig, i) = [orig EXCEPT !.flag = fl],
         NEW r, r.es = n
  PROVE  Follows(i, r)
<1> DEFINE k == Exec(orig, i)
<1>1. /\ Proper(n) /\ SameData(n, es)
      /\ \A f \in FlagType : n.flag_state[f] = "STATIC" => n.flag[f] = fl[f]
  BY DEF KnownFlags
<1>2. Agrees(es, orig) /\ orig \in Machine BY DEF Executable
<1>3. Agrees(n, orig) BY <1>1, <1>2, SameOperands
<1>4. k \in Machine /\ k.flag = fl /\ Agrees(n, k) BY <1>2, <1>3, MachineFlags
<1> QED BY <1>1, <1>4 DEF Follows, FlagsAgree

\* CMP sets flags only.
LEMMA CmpFollows ==
  ASSUME NEW i, Executable(i), i.type = "CMP"
  PROVE  Follows(i, emulateCmp(es, i))
<1> DEFINE v1 == getOpValue(es, i.dst)
           v2 == getOpValue(es, i.src)
           x1 == Value(orig, i.dst)
           x2 == Value(orig, i.src)
           fl == SubFlags(x1, x2)
           n  == setFlagsSub(es, v1, v2)
           r  == emulateCmp(es, i)
<1>1. i.dst.kind \in {"Reg", "Ind"} /\ i.src.kind \in {"Reg", "Imm", "Ind"}
  BY DEF Executable, WellFormed, BinaryOps, CMovFlag
<1>2. i.dst \in Operands(i) /\ i.src \in Operands(i) BY <1>1 DEF Operands, NoOp
<1>3. Means(v1, x1) /\ Means(v2, x2) BY <1>2, ExecutableFacts
<1>4. Exec(orig, i) = [orig EXCEPT !.flag = fl]
  <2>1. Exec(orig, i) = Operate(orig, i, x1, x2) BY ExecOf
  <2>2. Operate(orig, i, x1, x2) = [orig EXCEPT !.flag = FlagsAfter(i.type, x1, x2, orig.flag)]
    BY DEF Operate
  <2>3. FlagsAfter(i.type, x1, x2, orig.flag) = fl BY DEF FlagsAfter
  <2> QED BY <2>1, <2>2, <2>3
<1>5. r.es = n BY DEF emulateCmp, Done
<1>6. Proper(es) BY DEF Executable
<1> HIDE DEF v1, v2, x1, x2
<1>7. KnownFlags(n, es, FlagType, fl) BY <1>3, <1>6, SubFlagsSet
<1>8. fl \in [FlagType -> BOOLEAN] BY SumFlagsType
<1> HIDE DEF n, r, fl
<1>9. Follows(i, r) BY <1>4, <1>5, <1>7, <1>8, FollowsFlags
<1> QED BY <1>9 DEF r

\* TEST sets flags only.
LEMMA TestFollows ==
  ASSUME NEW i, Executable(i), i.type = "TEST"
  PROVE  Follows(i, emulateTest(es, i))
<1> DEFINE v1 == getOpValue(es, i.dst)
           v2 == getOpValue(es, i.src)
           x1 == Value(orig, i.dst)
           x2 == Value(orig, i.src)
           fl == BitFlags(BitOp("AND", x1, x2))
           n  == setFlagsBit(es, "AND", v1, v2, FALSE)
           r  == emulateTest(es, i)
<1>1. i.dst.kind \in {"Reg", "Ind"} /\ i.src.kind \in {"Reg", "Imm", "Ind"}
  BY DEF Executable, WellFormed, BinaryOps, CMovFlag
<1>2. i.dst \in Operands(i) /\ i.src \in Operands(i) BY <1>1 DEF Operands, NoOp
<1>3. Means(v1, x1) /\ Means(v2, x2) BY <1>2, ExecutableFacts
<1>4. Exec(orig, i) = [orig EXCEPT !.flag = fl]
  <2>1. Exec(orig, i) = Operate(orig, i, x1, x2) BY ExecOf
  <2>2. Operate(orig, i, x1, x2) = [orig EXCEPT !.flag = FlagsAfter(i.type, x1, x2, orig.flag)]
    BY DEF Operate
  <2>3. FlagsAfter(i.type, x1, x2, orig.flag) = fl BY DEF FlagsAfter, Result, BitOp
  <2> QED BY <2>1, <2>2, <2>3
<1>5. r.es = n BY DEF emulateTest, Done
<1>6. Proper(es) BY DEF Executable
<1> HIDE DEF v1, v2, x1, x2
<1>7. KnownFlags(n, es, FlagType, fl) BY <1>3, <1>6, BitFlagsSet
<1>8. fl \in [FlagType -> BOOLEAN] BY SumFlagsType
<1> HIDE DEF n, r, fl
<1>9. Follows(i, r) BY <1>4, <1>5, <1>7, <1>8, FollowsFlags
<1> QED BY <1>9 DEF r

\* Values are records.
LEMMA ValueRecord ==
  ASSUME NEW o, o.kind \in {"Imm", "Reg", "Ind"}, NEW e
  PROVE  getOpValue(e, o) = EmuValue(getOpValue(e, o).val, getOpValue(e, o).state)
<1>1. CASE o.kind = "Imm" BY <1>1 DEF getOpValue, EmuValue
<1>2. CASE o.kind = "Reg" BY <1>2 DEF getOpValue, EmuValue, RegValue
<1>3. CASE o.kind = "Ind" BY <1>3 DEF getOpValue, EmuValue, getMemValue
<1> QED BY <1>1, <1>2, <1>3

\* Operations with one operand.
UnaryOf(t, a) == IF t = "INC" THEN Mask(a + 1) ELSE IF t = "DEC" THEN Mask(a - 1) ELSE Mask(0 - a)

\* Values after operations with one operand.
LEMMA UnaryMeans ==
  ASSUME NEW t \in {"INC", "DEC", "NEG"}, NEW v, NEW x, Means(v, x),
         t = "NEG" => v.state # "STACKRELATIVE"
  PROVE  /\ Means(EmuValue(UnaryOf(t, v.val), v.state), UnaryOf(t, x))
         /\ UnaryResult[t][v.val] = UnaryOf(t, v.val)
<1>1. /\ v.val \in Word /\ v.state \in CaptureState /\ x \in Word
      /\ MeansValue(v.state, v.val, x) /\ v.val \in Int /\ x \in Int
  BY WordFacts DEF Means
<1>2. UnaryResult[t][v.val] = UnaryOf(t, v.val) BY <1>1 DEF UnaryResult, UnaryOf
<1>3. UnaryOf(t, v.val) \in Word /\ UnaryOf(t, x) \in Word
  <2>1. /\ v.val + 1 \in Int /\ v.val - 1 \in Int /\ 0 - v.val \in Int
        /\ x + 1 \in Int /\ x - 1 \in Int /\ 0 - x \in Int
    BY <1>1
  <2> QED BY <2>1, MaskFacts DEF UnaryOf
<1>4. MeansValue(v.state, UnaryOf(t, v.val), UnaryOf(t, x))
  <2>1. CASE t = "INC"
    <3>1. MeansValue(v.state, Mask(v.val + 1), Mask(x + 1)) BY <1>1, MeansShift
    <3> QED BY <2>1, <3>1 DEF UnaryOf
  <2>2. CASE t = "DEC"
    <3>1. MeansValue(v.state, Mask(v.val + (-1)), Mask(x + (-1))) BY <1>1, MeansShift
    <3>2. v.val + (-1) = v.val - 1 /\ x + (-1) = x - 1 BY <1>1
    <3>3. MeansValue(v.state, Mask(v.val - 1), Mask(x - 1)) BY <3>1, <3>2
    <3> QED BY <2>2, <3>3 DEF UnaryOf
  <2>3. CASE t = "NEG"
    <3>1. csIsStatic(v.state) => x = v.val BY <1>1 DEF MeansValue
    <3> QED BY <2>3, <3>1 DEF MeansValue
  <2> QED BY <2>1, <2>2, <2>3
<1> QED BY <1>1, <1>2, <1>3, <1>4 DEF Means, EmuValue

\* INC, DEC and NEG.
LEMMA UnaryFollows ==
  ASSUME NEW i, Executable(i), i.type \in {"INC", "DEC", "NEG"}, NEW force
  PROVE  Follows(i, emulateUnary(es, i, force))
<1> DEFINE t  == i.type
           v1 == getOpValue(es, i.dst)
           x1 == Value(orig, i.dst)
           v  == [v1 EXCEPT !.val = UnaryResult[t][@]]
           x  == UnaryOf(t, x1)
           w  == Write(orig, i.dst, x)
           f0 == IF t = "INC" THEN AddFlags(x1, 1) ELSE SubFlags(x1, 1)
           fl == IF t = "NEG" THEN SubFlags(0, x1) ELSE [f0 EXCEPT !["Carry"] = orig.flag["Carry"]]
           r  == emulateUnary(es, i, force)
<1>1. i.dst.kind \in {"Reg", "Ind"}
  BY DEF Executable, WellFormed, BinaryOps, CMovFlag
<1>2. i.dst \in Operands(i) /\ i.dst # NoOp BY <1>1 DEF Operands, NoOp
<1>3. t # "LEA" /\ t \notin {"CMP", "TEST", "PUSH", "CALL", "IDIV"} OBVIOUS
<1>4. Means(v1, x1) BY <1>2, <1>3, ExecutableFacts
<1>5. t = "NEG" => v1.state # "STACKRELATIVE"
  BY <1>2 DEF Executable, WithinLimits, RelativeLimit
<1>6. Proper(es) /\ orig \in Machine /\ Agrees(es, orig) /\ Writable(es, orig, i.dst) /\ i.dst \in Operand
  BY <1>1, <1>3, ExecutableFacts DEF Executable
<1>7. v = EmuValue(UnaryOf(t, v1.val), v1.state)
  <2>1. v1 = EmuValue(v1.val, v1.state) BY <1>1, ValueRecord
  <2>2. UnaryResult[t][v1.val] = UnaryOf(t, v1.val) BY <1>4, <1>5, UnaryMeans
  <2>3. \A a, s, b : [EmuValue(a, s) EXCEPT !.val = b] = EmuValue(b, s) BY DEF EmuValue
  <2> HIDE DEF v1
  <2>4. v = [v1 EXCEPT !.val = UnaryResult[t][v1.val]] OBVIOUS
  <2> QED BY <2>1, <2>2, <2>3, <2>4, Zenon
<1>8. r = Assign(es, i.dst, Forced(v, force), captureUnaryOp(es, i, v, force))
  BY DEF emulateUnary
<1>9. Exec(orig, i) = [w EXCEPT !.flag = fl]
  <2>1. Exec(orig, i) = OneOperand(orig, i) BY ExecOf
  <2>2. CASE t = "INC"
    <3>1. x = Mask(x1 + 1) /\ fl = [AddFlags(x1, 1) EXCEPT !["Carry"] = orig.flag["Carry"]]
      BY <2>2 DEF UnaryOf
    <3>2. OneOperand(orig, i) = [Write(orig, i.dst, Mask(x1 + 1)) EXCEPT
                                   !.flag = [AddFlags(x1, 1) EXCEPT !["Carry"] = orig.flag["Carry"]]]
      BY <2>2 DEF OneOperand
    <3> QED BY <2>1, <3>1, <3>2, Zenon
  <2>3. CASE t = "DEC"
    <3>1. x = Mask(x1 - 1) /\ fl = [SubFlags(x1, 1) EXCEPT !["Carry"] = orig.flag["Carry"]]
      BY <2>3 DEF UnaryOf
    <3>2. OneOperand(orig, i) = [Write(orig, i.dst, Mask(x1 - 1)) EXCEPT
                                   !.flag = [SubFlags(x1, 1) EXCEPT !["Carry"] = orig.flag["Carry"]]]
      BY <2>3 DEF OneOperand
    <3> QED BY <2>1, <3>1, <3>2, Zenon
  <2>4. CASE t = "NEG"
    <3>1. x = Mask(0 - x1) /\ fl = SubFlags(0, x1) BY <2>4 DEF UnaryOf
    <3>2. OneOperand(orig, i) = [Write(orig, i.dst, Mask(0 - x1)) EXCEPT !.flag = SubFlags(0, x1)]
      BY <2>4 DEF OneOperand
    <3> QED BY <2>1, <3>1, <3>2, Zenon
  <2> QED BY <2>2, <2>3, <2>4
<1>10. fl \in [FlagType -> BOOLEAN] /\ (t # "NEG" => fl["Carry"] = orig.flag["Carry"])
  <2>1. f0 \in [FlagType -> BOOLEAN] /\ SubFlags(0, x1) \in [FlagType -> BOOLEAN] BY SumFlagsType
  <2>2. orig.flag["Carry"] \in BOOLEAN BY <1>6, MachineFields DEF FlagType
  <2> HIDE DEF f0
  <2> QED BY <2>1, <2>2 DEF FlagType
<1>11. Means(EmuValue(UnaryOf(t, v1.val), v1.state), x) BY <1>4, <1>5, UnaryMeans
<1>12. Means(Forced(v, force), x) BY <1>7, <1>11, ForcedMeans
<1> HIDE DEF v, x, fl, w, r
<1>13. /\ r.err \in {"none", "abort"}
       /\ r.err = "none" => DataStep(es, orig, r.es, w)
       /\ r.err # "none" => r.es = es
  BY <1>6, <1>8, <1>12, Assigned DEF w
<1>14. ASSUME r.err = "none"
       PROVE  /\ Proper(r.es) /\ Exec(orig, i) \in Machine
              /\ Agrees(r.es, Exec(orig, i)) /\ FlagsAgree(r.es, Exec(orig, i), LostBy(i, r.es, r.out))
  <2>1. /\ Proper(r.es) /\ w \in Machine /\ Agrees(r.es, w)
        /\ r.es.flag = es.flag /\ r.es.flag_state = es.flag_state
    BY <1>13, <1>14 DEF DataStep
  <2>2. /\ Exec(orig, i) \in Machine /\ Agrees(r.es, Exec(orig, i)) /\ Exec(orig, i).flag = fl
    BY <1>9, <1>10, <2>1, MachineFlags
  <2>3. ASSUME NEW f \in FlagType, r.es.flag_state[f] = "STATIC", f \notin LostBy(i, r.es, r.out)
        PROVE  r.es.flag[f] = fl[f]
    <3>1. t \in {"INC", "DEC"} /\ f = "Carry" /\ f \notin lost BY <2>3, LostOf
    <3>2. es.flag[f] = orig.flag[f] BY <2>1, <2>3, <3>1 DEF Executable, FlagsAgree
    <3> QED BY <1>10, <2>1, <3>1, <3>2
  <2> QED BY <2>1, <2>2, <2>3 DEF FlagsAgree
<1>15. Follows(i, r) BY <1>6, <1>13, <1>14 DEF Follows
<1> QED BY <1>15 DEF r

\* Nothing changes, or only one side of a register that is unknown does.
LEMMA SameStep ==
  ASSUME NEW e, NEW m, Proper(e), m \in Machine, Agrees(e, m)
  PROVE  DataStep(e, m, e, m)
  BY DEF DataStep

\* Storing what is there changes nothing.
LEMMA RegRewritten ==
  ASSUME NEW e, NEW m, Proper(e), m \in Machine, NEW r \in Regs
  PROVE  /\ setReg(e, r, RegValue(e, r)) = e
         /\ [m EXCEPT !.reg[r] = m.reg[r]] = m
<1>1. e \in EmuState BY DEF Proper
<1>2. setReg(e, r, RegValue(e, r)) = [e EXCEPT !.reg[r] = e.reg[r], !.reg_state[r] = e.reg_state[r]]
  BY DEF setReg, RegValue, EmuValue
<1>3. /\ [e.reg EXCEPT ![r] = e.reg[r]] = e.reg
      /\ [e.reg_state EXCEPT ![r] = e.reg_state[r]] = e.reg_state
      /\ [m.reg EXCEPT ![r] = m.reg[r]] = m.reg
  BY <1>1 DEF EmuState, Machine
<1>4. [m EXCEPT !.reg[r] = m.reg[r]] = m BY <1>3 DEF Machine
<1>5. [e EXCEPT !.reg[r] = e.reg[r], !.reg_state[r] = e.reg_state[r]] = e
  BY <1>1, <1>3 DEF EmuState
<1> QED BY <1>2, <1>4, <1>5

\* An unknown register may change on either side, or on both.
LEMMA UnknownRegChanged ==
  ASSUME NEW e, NEW m, Proper(e), m \in Machine, Agrees(e, m), NEW r \in Regs
  PROVE  /\ \A v : v.val \in Word /\ v.state = "DYNAMIC" =>
              DataStep(e, m, setReg(e, r, v), m)
         /\ \A v, x : v.val \in Word /\ v.state = "DYNAMIC" /\ x \in Word =>
              DataStep(e, m, setReg(e, r, v), [m EXCEPT !.reg[r] = x])
         /\ \A x : e.reg_state[r] = "DYNAMIC" /\ x \in Word =>
              DataStep(e, m, e, [m EXCEPT !.reg[r] = x])
<1>0. e \in EmuState /\ e.reg[r] \in Word /\ m.reg[r] \in Word
  BY EmuFields, MachineFields DEF Proper
<1>1. ASSUME NEW v, NEW x, v.val \in Word, v.state = "DYNAMIC", x \in Word
      PROVE  DataStep(e, m, setReg(e, r, v), [m EXCEPT !.reg[r] = x])
  <2>1. Means(v, x) BY <1>1, MeansNothing DEF Means, CaptureState
  <2> QED BY <2>1, RegWritten
<1>2. ASSUME NEW v, v.val \in Word, v.state = "DYNAMIC" PROVE DataStep(e, m, setReg(e, r, v), m)
  <2>1. DataStep(e, m, setReg(e, r, v), [m EXCEPT !.reg[r] = m.reg[r]]) BY <1>0, <1>1, <1>2
  <2> QED BY <2>1, RegRewritten
<1>3. ASSUME NEW x, e.reg_state[r] = "DYNAMIC", x \in Word
      PROVE  DataStep(e, m, e, [m EXCEPT !.reg[r] = x])
  <2>1. RegValue(e, r).val \in Word /\ RegValue(e, r).state = "DYNAMIC"
    BY <1>0, <1>3 DEF RegValue, EmuValue
  <2>2. DataStep(e, m, setReg(e, r, RegValue(e, r)), [m EXCEPT !.reg[r] = x]) BY <1>1, <1>3, <2>1
  <2> QED BY <2>2, RegRewritten
<1> QED BY <1>1, <1>2, <1>3

\* Conditional moves test one flag.
LEMMA CMovTaken ==
  ASSUME NEW t \in CMovTypes, NEW fl \in [FlagType -> BOOLEAN]
  PROVE  /\ CMovFlag[t] \in FlagType
         /\ Taken(CMovs[t], fl) <=> (fl[CMovFlag[t]] = (t \in {"CMOVO", "CMOVC", "CMOVZ", "CMOVS"}))
<1>1. \A f \in FlagType : fl[f] \in BOOLEAN OBVIOUS
<1>2. CASE t = "CMOVO"  BY <1>1, <1>2 DEF CMovs, CMovFlag, Taken, FlagType
<1>3. CASE t = "CMOVNO" BY <1>1, <1>3 DEF CMovs, CMovFlag, Taken, FlagType
<1>4. CASE t = "CMOVC"  BY <1>1, <1>4 DEF CMovs, CMovFlag, Taken, FlagType
<1>5. CASE t = "CMOVNC" BY <1>1, <1>5 DEF CMovs, CMovFlag, Taken, FlagType
<1>6. CASE t = "CMOVZ"  BY <1>1, <1>6 DEF CMovs, CMovFlag, Taken, FlagType
<1>7. CASE t = "CMOVNZ" BY <1>1, <1>7 DEF CMovs, CMovFlag, Taken, FlagType
<1>8. CASE t = "CMOVS"  BY <1>1, <1>8 DEF CMovs, CMovFlag, Taken, FlagType
<1>9. CASE t = "CMOVNS" BY <1>1, <1>9 DEF CMovs, CMovFlag, Taken, FlagType
<1> QED BY <1>2, <1>3, <1>4, <1>5, <1>6, <1>7, <1>8, <1>9 DEF CMovTypes

\* Conditional moves: on a known condition, and on an unknown one within CMovLimit.
LEMMA CMovFollows ==
  ASSUME NEW i, Executable(i), i.type \in CMovTypes, FlagsDefined({CMovFlag[i.type]})
  PROVE  Follows(i, emulateCMov(es, i))
<1> DEFINE f    == CMovFlag[i.type]
           pos  == i.type \in {"CMOVO", "CMOVC", "CMOVZ", "CMOVS"}
           cond == es.flag[f] = pos
           v    == getOpValue(es, i.src)
           x    == Value(orig, i.src)
           d    == i.dst.reg
           out  == captureCMov(es, i, v, es.flag_state[f], cond)
           unknown == ~csIsStatic(es.flag_state[f])
           forced  == Forced(v, unknown)
           r    == emulateCMov(es, i)
           taken == Taken(CMovs[i.type], orig.flag)
<1>1. i.dst.kind = "Reg" /\ i.src.kind \in {"Reg", "Ind"}
  BY CMovNames DEF Executable, WellFormed, BinaryOps, CMovTypes
<1>2. i.src \in Operands(i) /\ i.type # "LEA" BY <1>1 DEF Operands, NoOp, CMovTypes
<1>3. Means(v, x) BY <1>2, ExecutableFacts
<1>4. /\ Proper(es) /\ orig \in Machine /\ Agrees(es, orig) /\ FlagsAgree(es, orig, lost)
      /\ i.dst \in Operand /\ d \in Regs
  <2>1. i.dst \in Operand BY ExecutableFacts
  <2> QED BY <1>1, <2>1, OperandFields DEF Executable
<1>5. r = IF cond THEN Assign(es, i.dst, forced, out) ELSE Done(es, out)
  BY DEF emulateCMov
<1>6. Exec(orig, i) = IF taken THEN Write(orig, i.dst, x) ELSE orig BY ExecOf
<1>7. Write(orig, i.dst, x) = [orig EXCEPT !.reg[d] = x] BY <1>1 DEF Write
<1>8. f \in FlagType /\ (taken <=> (orig.flag[f] = pos))
  <2>1. orig.flag \in [FlagType -> BOOLEAN] BY <1>4 DEF Machine
  <2> QED BY <2>1, CMovTaken
<1>9. Assign(es, i.dst, forced, out) = Done(setReg(es, d, forced), out) BY <1>1 DEF Assign
<1>10. es.flag_state[f] \in {"DYNAMIC", "STATIC"} /\ f \notin lost
  BY <1>4, <1>8 DEF FlagsDefined, Proper, Kept
<1>11. Means(forced, x) BY <1>3, ForcedMeans
<1>12. es.flag_state[f] = "DYNAMIC" => forced.state = "DYNAMIC" /\ es.reg_state[d] = "DYNAMIC"
  <2>1. ASSUME es.flag_state[f] = "DYNAMIC"
        PROVE  /\ getOpValue(es, i.dst).state = "DYNAMIC"
               /\ v.state \in {"DYNAMIC", "STATIC", "STATIC2"}
    BY <2>1, CMovNames DEF Executable, WithinLimits, CMovLimit
  <2>2. getOpValue(es, i.dst).state = es.reg_state[d] BY <1>1 DEF getOpValue, RegValue, EmuValue
  <2>3. ASSUME es.flag_state[f] = "DYNAMIC" PROVE unknown BY <2>3 DEF csIsStatic
  <2> QED BY <2>1, <2>2, <2>3 DEF Forced, IsStatic, csIsStatic, EmuValue
<1> HIDE DEF r, v, x, out, f, pos, cond, taken, forced, d
<1>13. r.err = "none" /\ r.es = IF cond THEN setReg(es, d, forced) ELSE es
  BY <1>5, <1>9 DEF Done
<1>14. x \in Word /\ forced.val \in Word BY <1>11 DEF Means
<1>15. DataStep(es, orig, r.es, Exec(orig, i))
  <2>1. CASE es.flag_state[f] = "STATIC"
    <3>1. es.flag[f] = orig.flag[f] BY <1>4, <1>8, <1>10, <2>1 DEF FlagsAgree
    <3>2. cond <=> taken BY <1>8, <3>1 DEF cond
    <3>3. CASE cond
      <4>1. DataStep(es, orig, setReg(es, d, forced), [orig EXCEPT !.reg[d] = x])
        BY <1>4, <1>11, RegWritten
      <4> QED BY <1>6, <1>7, <1>13, <3>2, <3>3, <4>1
    <3>4. CASE ~cond BY <1>4, <1>6, <1>13, <3>2, <3>4, SameStep
    <3> QED BY <3>3, <3>4
  <2>2. CASE es.flag_state[f] = "DYNAMIC"
    <3>1. forced.state = "DYNAMIC" /\ es.reg_state[d] = "DYNAMIC" BY <1>12, <2>2
    <3>2. /\ DataStep(es, orig, setReg(es, d, forced), orig)
          /\ DataStep(es, orig, setReg(es, d, forced), [orig EXCEPT !.reg[d] = x])
          /\ DataStep(es, orig, es, [orig EXCEPT !.reg[d] = x])
      BY <1>4, <1>14, <3>1, UnknownRegChanged
    <3>3. DataStep(es, orig, es, orig) BY <1>4, SameStep
    <3> QED BY <1>6, <1>7, <1>13, <3>2, <3>3
  <2> QED BY <1>10, <2>1, <2>2
<1>16. LostBy(i, r.es, r.out) = lost BY LostOf
<1>17. Follows(i, r) BY <1>13, <1>15, <1>16, FollowsData
<1> QED BY <1>17 DEF r

\* Sign extension; the emulator looks at another bit than the processor.
LEMMA CqtoFollows ==
  ASSUME NEW i, Executable(i), i.type = "CQTO"
  PROVE  Follows(i, emulateCqto(es, i))
<1> DEFINE D == IF Bit(es.reg["A"], W - 2) = 1 THEN 2 ^ W - 1 ELSE 0
           x == IF Negative(orig.reg["A"]) THEN 2 ^ W - 1 ELSE 0
           v == EmuValue(D, es.reg_state["A"])
           r == emulateCqto(es, i)
<1>1. "A" \in Regs /\ "D" \in Regs BY MachineAssumption
<1>2. /\ Proper(es) /\ es \in EmuState /\ orig \in Machine /\ Agrees(es, orig) /\ RegsAgree(es, orig)
      /\ Bit(orig.reg["A"], W - 1) = Bit(orig.reg["A"], W - 2)
      /\ es.reg_state["A"] # "STACKRELATIVE"
  <2>1. SignLimit(i) /\ RelativeLimit(i) BY DEF Executable, WithinLimits
  <2>2. es.reg_state["A"] # "STACKRELATIVE" BY <2>1 DEF RelativeLimit
  <2> QED BY <2>1, <2>2, ExecutableFacts DEF Executable, SignLimit
<1>3. es.reg_state["A"] \in CaptureState BY <1>1, <1>2, EmuFields
<1>4. D \in Word /\ x \in Word
  <2>1. 0 \in Word /\ 2 ^ W - 1 \in Word BY WordFacts, Sizes DEF Word
  <2> QED BY <2>1
<1>5. csIsStatic(es.reg_state["A"]) => D = x
  BY <1>1, <1>2 DEF RegsAgree, MeansValue, Negative
<1>6. r.err = "none" /\ r.es = setReg(es, "D", v) BY DEF emulateCqto, Done
<1>7. Exec(orig, i) = [orig EXCEPT !.reg["D"] = x] BY ExecOf
<1> HIDE DEF D, x, r
<1>8. Means(v, x)
  <2>1. MeansValue(es.reg_state["A"], D, x) BY <1>2, <1>5 DEF MeansValue
  <2> QED BY <1>3, <1>4, <2>1 DEF Means, EmuValue
<1> HIDE DEF v
<1>9. DataStep(es, orig, r.es, Exec(orig, i)) BY <1>1, <1>2, <1>6, <1>7, <1>8, RegWritten
<1>10. LostBy(i, r.es, r.out) = lost BY LostOf
<1>11. Follows(i, r) BY <1>6, <1>9, <1>10, FollowsData
<1> QED BY <1>11 DEF r

\* Division of words that are not negative.
LEMMA DivisionFacts ==
  ASSUME NEW a \in Word, NEW b \in Word, b # 0
  PROVE  /\ a \div b \in Word /\ a % b \in Word
         /\ a - (a \div b) * b = a % b
         /\ Quotient(a, b) = a \div b
<1>1. /\ a \in Nat /\ b \in Nat /\ b > 0 /\ a < 2 ^ W /\ b < 2 ^ W /\ 2 ^ W \in Nat
  BY WordFacts
<1>2. a \div b \in Nat /\ a \div b <= a /\ a % b \in Nat /\ a % b < b BY <1>1
<1>3. a - (a \div b) * b = a % b BY <1>1
<1>4. Quotient(a, b) = a \div b
  <2>1. a >= 0 /\ b >= 0 /\ ~(a < 0) /\ ~(b < 0) BY <1>1
  <2>2. (a < 0) = (b < 0) BY <2>1
  <2> QED BY <2>1, <2>2 DEF Quotient
<1>5. a \div b < 2 ^ W /\ a % b < 2 ^ W BY <1>1, <1>2
<1> QED BY <1>2, <1>3, <1>4, <1>5, WordFacts

\* One step after another.
LEMMA StepsTogether ==
  ASSUME NEW e, NEW m, NEW n, NEW k, NEW p, NEW q, DataStep(e, m, n, k), DataStep(n, k, p, q)
  PROVE  DataStep(e, m, p, q)
  BY DEF DataStep

\* IDIV, within DivisionLimit and RelativeLimit.
LEMMA IDivFollows ==
  ASSUME NEW i, Executable(i), i.type = "IDIV"
  PROVE  Follows(i, emulateIDiv(es, i))
<1> DEFINE v  == getOpValue(es, i.dst)
           b  == Value(orig, i.dst)
           c1 == combineState(es.reg_state["D"], es.reg_state["A"], TRUE)
           cs == combineState(c1, v.state, FALSE)
           a  == es.reg["A"]
           x  == orig.reg["A"]
           va == EmuValue(a \div v.val, cs)
           vd == EmuValue(a % v.val, cs)
           e1 == setReg(es, "A", va)
           m1 == [orig EXCEPT !.reg["A"] = x \div b]
           e2 == setReg(e1, "D", vd)
           m2 == [m1 EXCEPT !.reg["D"] = x % b]
           r  == emulateIDiv(es, i)
<1>1. "A" \in Regs /\ "D" \in Regs BY MachineAssumption
<1>2. i.dst.kind \in {"Reg", "Ind"} BY DEF Executable, WellFormed, BinaryOps, CMovFlag
<1>3. i.dst \in Operands(i) BY <1>2 DEF Operands, NoOp
<1>4. Means(v, b) BY <1>3, ExecutableFacts
<1>5. /\ Proper(es) /\ es \in EmuState /\ orig \in Machine /\ Agrees(es, orig) /\ RegsAgree(es, orig)
  BY ExecutableFacts DEF Executable
<1>6. /\ orig.reg["D"] = 0 /\ ~Negative(x) /\ ~Negative(b)
      /\ v.state # "STACKRELATIVE"
      /\ es.reg_state["A"] # "STACKRELATIVE" /\ es.reg_state["D"] # "STACKRELATIVE"
      /\ Divides(orig, i.dst)
  <2>1. DivisionLimit(i) /\ RelativeLimit(i) /\ Accesses(i) BY DEF Executable, WithinLimits
  <2>2. i.dst # NoOp BY <1>2 DEF NoOp
  <2> QED BY <2>1, <2>2 DEF DivisionLimit, RelativeLimit, Accesses
<1>7. /\ a \in Word /\ x \in Word /\ es.reg_state["A"] \in CaptureState
      /\ es.reg_state["D"] \in CaptureState
      /\ MeansValue(es.reg_state["A"], a, x)
  BY <1>1, <1>5, EmuFields, MachineFields DEF RegsAgree
<1>8. v.val \in Word /\ v.state \in CaptureState /\ b \in Word /\ MeansValue(v.state, v.val, b)
  BY <1>4 DEF Means
<1>9. Signed(b) = b /\ Signed(x) = x /\ Signed(0) = 0
  <2>1. 0 \in Word /\ ~(0 >= Half) BY WordFacts
  <2> QED BY <1>6, <1>7, <1>8, <2>1, SignFacts
<1>10. b # 0 BY <1>6, <1>9 DEF Divides
<1>11. Dividend(orig) = x
  <2>1. 0 * 2 ^ W = 0 /\ 0 + x = x BY <1>7, WordFacts
  <2> QED BY <1>6, <1>9, <2>1 DEF Dividend
<1>12. Exec(orig, i) = m2
  <2>1. Exec(orig, i) = Divide(orig, i.dst) BY ExecOf
  <2> DEFINE q == x \div b
  <2>2. Quotient(Dividend(orig), Signed(b)) = q /\ Dividend(orig) - q * Signed(b) = x % b
    BY <1>7, <1>8, <1>9, <1>10, <1>11, DivisionFacts
  <2>3. Mask(q) = q /\ Mask(x % b) = x % b BY <1>7, <1>8, <1>10, DivisionFacts, MaskFacts
  <2> HIDE DEF q, b, x
  <2>4. Divide(orig, i.dst) = [orig EXCEPT !.reg["A"] = q, !.reg["D"] = x % b]
    BY <2>2, <2>3, Zenon DEF Divide, b
  <2>5. [orig EXCEPT !.reg["A"] = q, !.reg["D"] = x % b]
          = [[orig EXCEPT !.reg["A"] = q] EXCEPT !.reg["D"] = x % b]
    BY <1>5 DEF Machine
  <2> QED BY <2>1, <2>4, <2>5 DEF q
<1>13. /\ cs \in CaptureState /\ cs # "STACKRELATIVE"
       /\ csIsStatic(cs) => csIsStatic(v.state) /\ csIsStatic(es.reg_state["A"])
  <2>1. /\ c1 \in CaptureState /\ (csIsStatic(c1) => csIsStatic(es.reg_state["A"]))
        /\ c1 # "STACKRELATIVE"
    BY <1>6, <1>7, CombinedState
  <2> HIDE DEF c1
  <2> QED BY <1>6, <1>8, <2>1, CombinedState
<1>14. r = IF v.val = 0 THEN Abort(es) ELSE Done(e2, captureIDiv(es, i, cs))
  BY DEF emulateIDiv
<1>15. CASE v.val = 0
  <2>1. r.es = es /\ r.err = "abort" BY <1>14, <1>15 DEF Abort
  <2> QED BY <1>5, <2>1 DEF Follows
<1>16. CASE v.val # 0
  <2>1. r.es = e2 BY <1>14, <1>16 DEF Done
  <2>2. csIsStatic(cs) => x = a /\ b = v.val BY <1>7, <1>8, <1>13 DEF MeansValue
  <2>3. /\ x \div b \in Word /\ x % b \in Word /\ a \div v.val \in Word /\ a % v.val \in Word
    BY <1>7, <1>8, <1>10, <1>16, DivisionFacts
  <2>4. Means(va, x \div b) /\ Means(vd, x % b)
    <3>1. csIsStatic(cs) => x \div b = a \div v.val /\ x % b = a % v.val BY <2>2
    <3>2. MeansValue(cs, a \div v.val, x \div b) /\ MeansValue(cs, a % v.val, x % b)
      BY <1>13, <3>1 DEF MeansValue
    <3> HIDE DEF cs, v, b, a, x
    <3> QED BY <1>13, <2>3, <3>2 DEF Means, EmuValue
  <2> HIDE DEF va, vd, x, b, r
  <2>5. DataStep(es, orig, e1, m1) BY <1>1, <1>5, <2>4, RegWritten
  <2> HIDE DEF e1, m1
  <2>6. DataStep(e1, m1, e2, m2) BY <1>1, <2>4, <2>5, RegWritten DEF DataStep
  <2>7. DataStep(es, orig, e2, m2) BY <2>5, <2>6, StepsTogether
  <2>8. FlagType \subseteq LostBy(i, r.es, r.out) BY LostOf
  <2> HIDE DEF e2, m2
  <2>9. Follows(i, r) BY <1>12, <2>1, <2>7, <2>8 DEF Follows, DataStep, FlagsAgree
  <2> QED BY <2>9 DEF r
<1> QED BY <1>15, <1>16

\* Only the machine writes, where nothing is known of memory.
LEMMA UnknownMemChanged ==
  ASSUME NEW e, NEW m, Proper(e), m \in Machine, Agrees(e, m),
         NEW a, NEW y, Means(a, y), NEW x \in Word, y \notin Data,
         OnStack(a) /\ KnownOffset(a) <=> y \in StackAddrs,
         OnStack(a) /\ KnownOffset(a) => getStackState(e, a) = "DYNAMIC"
  PROVE  DataStep(e, m, e, [m EXCEPT !.mem[y] = x])
<1> DEFINE k == [m EXCEPT !.mem[y] = x]
<1>1. a.val \in Word /\ y \in Word /\ MeansValue(a.state, a.val, y) BY DEF Means
<1>2. k \in Machine /\ k.reg = m.reg /\ k.flag = m.flag /\ k.mem = [m.mem EXCEPT ![y] = x]
  BY <1>1 DEF Machine
<1>3. \A v \in Word : v # y => k.mem[v] = m.mem[v] BY <1>1, <1>2 DEF Machine
<1> HIDE DEF k
<1>4. Data \subseteq Word BY SpecialiseAssumption
<1>5. StackAgrees(e, k)
  <2> SUFFICES ASSUME NEW o \in Slots, o >= e.stackAccessed
               PROVE  MeansValue(e.stackState[o], e.stack[o], k.mem[SlotAddr(o)])
    BY DEF StackAgrees
  <2>1. SlotAddr(o) \in Word /\ SlotAddr(o) \in StackAddrs BY StackFacts
  <2>2. CASE SlotAddr(o) = y
    <3>1. OnStack(a) /\ KnownOffset(a) BY <2>1, <2>2
    <3>2. Offset(a) \in Slots /\ y = SlotAddr(Offset(a)) BY <1>1, <3>1, SlotOf DEF KnownOffset
    <3>3. Offset(a) = o BY <2>2, <3>2, StackFacts
    <3>4. e.stackState[o] = "DYNAMIC"
      <4>1. ~(Offset(a) < e.stackAccessed)
        BY <3>1, <3>2 DEF getStackState
      <4> QED BY <3>1, <3>3, <4>1 DEF getStackState
    <3> QED BY <3>4, MeansNothing
  <2>3. CASE SlotAddr(o) # y
    <3>1. k.mem[SlotAddr(o)] = m.mem[SlotAddr(o)] BY <1>3, <2>1, <2>3
    <3> QED BY <3>1 DEF Agrees, StackAgrees
  <2> QED BY <2>2, <2>3
<1>6. DataAgrees(e, k) BY <1>3, <1>4 DEF Agrees, DataAgrees
<1>7. RegsAgree(e, k) BY <1>2 DEF Agrees, RegsAgree
<1> QED BY <1>2, <1>5, <1>6, <1>7 DEF DataStep, Agrees, k

\* Only what is known of a register changes.
LEMMA RegStateSet ==
  ASSUME NEW e, Proper(e), NEW r \in Regs, NEW s
  PROVE  setReg(e, r, EmuValue(e.reg[r], s)) = [e EXCEPT !.reg_state[r] = s]
<1>1. e \in EmuState BY DEF Proper
<1>2. setReg(e, r, EmuValue(e.reg[r], s)) = [e EXCEPT !.reg[r] = e.reg[r], !.reg_state[r] = s]
  BY DEF setReg, EmuValue
<1>3. [e.reg EXCEPT ![r] = e.reg[r]] = e.reg BY <1>1 DEF EmuState
<1>4. [e EXCEPT !.reg[r] = e.reg[r], !.reg_state[r] = s] = [e EXCEPT !.reg_state[r] = s]
  BY <1>1, <1>3 DEF EmuState
<1> QED BY <1>2, <1>4

\* Instructions on vector registers.
LEMMA VectorFollows ==
  ASSUME NEW i, Executable(i), i.type \in {"VLOAD", "VADD", "VSTORE", "VGET"}
  PROVE  Follows(i, emulateVector(es, i))
<1> DEFINE r == emulateVector(es, i)
           w == Exec(orig, i)
<1>1. /\ Proper(es) /\ es \in EmuState /\ orig \in Machine /\ Agrees(es, orig) /\ RegsAgree(es, orig)
      /\ i.dst \in Operand /\ i.src \in Operand /\ orig.vec \in Word
  BY ExecutableFacts, MachineFields DEF Executable
<1>2. r.err = "none" BY DEF emulateVector, Done
<1>3. i.type # "VGET" => r.es = es BY DEF emulateVector, Done
<1> HIDE DEF r
<1>4. ASSUME i.type \in {"VLOAD", "VADD"} PROVE DataStep(es, orig, r.es, w)
  <2> DEFINE x == IF i.type = "VLOAD" THEN Value(orig, i.src) ELSE Mask(orig.vec + Value(orig, i.src))
  <2>1. i.src.kind = "Ind" BY <1>4 DEF Executable, WellFormed, BinaryOps, CMovFlag
  <2>2. w = [orig EXCEPT !.vec = x] BY <1>4, ExecOf
  <2>3. Value(orig, i.src) \in Word
    <3>1. i.src \in Operands(i) BY <2>1 DEF Operands, NoOp
    <3>2. Means(getOpValue(es, i.src), Value(orig, i.src)) BY <1>4, <3>1, ExecutableFacts
    <3> QED BY <3>2 DEF Means
  <2>4. x \in Word
    <3>1. orig.vec + Value(orig, i.src) \in Int BY <1>1, <2>3, WordFacts
    <3> QED BY <2>3, <3>1, MaskFacts
  <2> HIDE DEF x, w
  <2>5. w \in Machine /\ w.reg = orig.reg /\ w.flag = orig.flag /\ w.mem = orig.mem
    BY <1>1, <2>2, <2>4 DEF Machine
  <2>6. Agrees(es, w) BY <1>1, <2>5 DEF Agrees, RegsAgree, StackAgrees, DataAgrees
  <2> QED BY <1>1, <1>3, <1>4, <2>5, <2>6 DEF DataStep, w
<1>5. ASSUME i.type = "VSTORE" PROVE DataStep(es, orig, r.es, w)
  <2> DEFINE a == getOpAddr(es, i.dst)
             y == AddrOf(orig, i.dst)
  <2>1. i.dst.kind = "Ind" BY <1>5 DEF Executable, WellFormed, BinaryOps, CMovFlag
  <2>2. w = [orig EXCEPT !.mem[y] = orig.vec] BY <1>5, <2>1, ExecOf DEF Write
  <2>3. Means(a, y) BY <1>1, <2>1, AddrMeans
  <2>4. Writable(es, orig, i.dst) BY <1>5, <2>1, ExecutableFacts
  <2>5. y \notin Data /\ (OnStack(a) /\ KnownOffset(a) <=> y \in StackAddrs)
    BY <2>1, <2>4 DEF Writable, Reachable
  <2>6. OnStack(a) /\ KnownOffset(a) => getStackState(es, a) = "DYNAMIC"
    <3>1. i.dst \in MemOps(i) BY <1>5, <2>1 DEF MemOps, Operands, NoOp
    <3>2. VectorLimit(i) BY DEF Executable, WithinLimits
    <3>3. OnStack(a) /\ KnownOffset(a) => getOpValue(es, i.dst).state = "DYNAMIC"
      BY <1>5, <3>1, <3>2 DEF VectorLimit, IsStackOp
    <3>4. getOpValue(es, i.dst) = getMemValue(es, a) BY <2>1 DEF getOpValue
    <3> QED BY <3>3, <3>4 DEF getMemValue, EmuValue
  <2> HIDE DEF a, y, w
  <2> QED BY <1>1, <1>3, <1>5, <2>2, <2>3, <2>5, <2>6, UnknownMemChanged DEF w
<1>6. ASSUME i.type = "VGET" PROVE DataStep(es, orig, r.es, w)
  <2> DEFINE d == i.dst.reg
             v == EmuValue(es.reg[d], "DYNAMIC")
  <2>1. i.dst.kind = "Reg" BY <1>6 DEF Executable, WellFormed, BinaryOps, CMovFlag
  <2>2. d \in Regs BY <1>1, <2>1, OperandFields
  <2>3. w = [orig EXCEPT !.reg[d] = orig.vec] BY <1>6, <2>1, ExecOf DEF Write
  <2>4. r.es = [es EXCEPT !.reg_state[d] = "DYNAMIC"] BY <1>6 DEF emulateVector, Done, r
  <2>7. setReg(es, d, v) = r.es BY <1>1, <2>2, <2>4, RegStateSet
  <2>8. v.val \in Word /\ v.state = "DYNAMIC" BY <1>1, <2>2, EmuFields DEF EmuValue
  <2> HIDE DEF v, d, w
  <2>9. DataStep(es, orig, setReg(es, d, v), [orig EXCEPT !.reg[d] = orig.vec])
    BY <1>1, <2>2, <2>8, UnknownRegChanged
  <2> QED BY <2>3, <2>7, <2>9
<1>7. DataStep(es, orig, r.es, w) BY <1>4, <1>5, <1>6
<1>8. LostBy(i, r.es, r.out) = lost BY LostOf
<1>9. Follows(i, r) BY <1>2, <1>7, <1>8, FollowsData
<1> QED BY <1>9 DEF r

\* Pushing and popping move the stack pointer, on both sides.
LEMMA PointerMoved ==
  ASSUME NEW e, NEW m, Proper(e), m \in Machine, Agrees(e, m), NEW d \in {1, -1},
         NEW v, v = Mask(e.reg["SP"] + d), NEW x, x = Mask(m.reg["SP"] + d)
  PROVE  /\ DataStep(e, m, [e EXCEPT !.reg["SP"] = v], [m EXCEPT !.reg["SP"] = x])
         /\ v \in Word /\ x \in Word
         /\ [e EXCEPT !.reg["SP"] = v] = setReg(e, "SP", EmuValue(v, e.reg_state["SP"]))
<1> DEFINE n == EmuValue(v, e.reg_state["SP"])
<1>1. "SP" \in Regs BY MachineAssumption
<1>2. e \in EmuState /\ RegsAgree(e, m) BY DEF Proper, Agrees
<1>3. /\ e.reg["SP"] \in Word /\ m.reg["SP"] \in Word /\ e.reg_state["SP"] \in CaptureState
      /\ MeansValue(e.reg_state["SP"], e.reg["SP"], m.reg["SP"])
  BY <1>1, <1>2, EmuFields, MachineFields DEF RegsAgree
<1>4. v \in Word /\ x \in Word
  <2>1. e.reg["SP"] + d \in Int /\ m.reg["SP"] + d \in Int BY <1>3, WordFacts
  <2> QED BY <2>1, MaskFacts
<1>5. MeansValue(e.reg_state["SP"], v, x) BY <1>3, MeansShift
<1>6. Means(n, x) BY <1>3, <1>4, <1>5 DEF Means, EmuValue
<1>7. DataStep(e, m, setReg(e, "SP", n), [m EXCEPT !.reg["SP"] = x])
  <2> HIDE DEF n
  <2> QED BY <1>1, <1>6, RegWritten
<1>8. setReg(e, "SP", n) = [e EXCEPT !.reg["SP"] = v]
  <2>1. setReg(e, "SP", n) = [e EXCEPT !.reg["SP"] = v, !.reg_state["SP"] = e.reg_state["SP"]]
    BY DEF setReg, EmuValue
  <2>2. [e.reg_state EXCEPT !["SP"] = e.reg_state["SP"]] = e.reg_state BY <1>2 DEF EmuState
  <2>3. [e EXCEPT !.reg["SP"] = v, !.reg_state["SP"] = e.reg_state["SP"]] = [e EXCEPT !.reg["SP"] = v]
    BY <1>2, <2>2 DEF EmuState
  <2> QED BY <2>1, <2>3
<1> QED BY <1>4, <1>7, <1>8

\* Pushing a value that is not on the stack itself.
LEMMA Pushed ==
  ASSUME NEW e, NEW m, Proper(e), m \in Machine, Agrees(e, m),
         NEW i, i.dst.kind \in {"Imm", "Reg"}, i.dst.kind = "Reg" => i.dst.reg # "SP",
         i.dst \in Operand, NEW x, Means(getOpValue(e, i.dst), x)
  PROVE  LET r == emulatePush(e, i)
         IN /\ r.err \in {"none", "abort"}
            /\ r.err = "none" => DataStep(e, m, r.es, PushWord(m, x))
            /\ r.err # "none" => r.es = e
<1> DEFINE vs == Mask(e.reg["SP"] - 1)
           xs == Mask(m.reg["SP"] - 1)
           e1 == [e EXCEPT !.reg["SP"] = vs]
           m1 == [m EXCEPT !.reg["SP"] = xs]
           a  == RegValue(e1, "SP")
           v  == getOpValue(e1, i.dst)
           m2 == [m1 EXCEPT !.mem[xs] = x]
           out == IF IsStatic(v) THEN <<>> ELSE << i >>
           r  == emulatePush(e, i)
<1>1. "SP" \in Regs /\ e \in EmuState BY MachineAssumption DEF Proper
<1>2. DataStep(e, m, e1, m1)
  <2>1. e.reg["SP"] \in Int /\ m.reg["SP"] \in Int BY <1>1, EmuFields, MachineFields, WordFacts
  <2>2. vs = Mask(e.reg["SP"] + (-1)) /\ xs = Mask(m.reg["SP"] + (-1))
    <3>1. e.reg["SP"] - 1 = e.reg["SP"] + (-1) /\ m.reg["SP"] - 1 = m.reg["SP"] + (-1) BY <2>1
    <3> QED BY <3>1
  <2> HIDE DEF vs, xs
  <2> QED BY <2>2, PointerMoved
<1>3. Proper(e1) /\ e1 \in EmuState /\ m1 \in Machine /\ Agrees(e1, m1) /\ RegsAgree(e1, m1)
  BY <1>2 DEF DataStep, Proper, Agrees
<1>4. m1.reg["SP"] = xs BY <1>1 DEF Machine
<1>5. v = getOpValue(e, i.dst)
  <2>1. CASE i.dst.kind = "Imm" BY <2>1 DEF getOpValue
  <2>2. CASE i.dst.kind = "Reg"
    <3>1. i.dst.reg \in Regs /\ i.dst.reg # "SP" BY <2>2, OperandFields
    <3>2. e1.reg[i.dst.reg] = e.reg[i.dst.reg] /\ e1.reg_state = e.reg_state
      BY <1>1, <3>1 DEF EmuState
    <3> QED BY <2>2, <3>2 DEF getOpValue, RegValue
  <2> QED BY <2>1, <2>2
<1>6. r = IF OnStack(a) /\ CanStore(a) THEN Done(Store(e1, a, v), out) ELSE Abort(e)
  BY DEF emulatePush
<1>7. PushWord(m, x) = m2
  <2>1. PushWord(m, x) = [m EXCEPT !.reg["SP"] = xs, !.mem[xs] = x] BY DEF PushWord
  <2> HIDE DEF xs
  <2>2. [m EXCEPT !.reg["SP"] = xs, !.mem[xs] = x] = [[m EXCEPT !.reg["SP"] = xs] EXCEPT !.mem[xs] = x]
    BY DEF Machine
  <2> QED BY <2>1, <2>2
<1>8. Means(a, xs) BY <1>1, <1>3, <1>4, RegMeans
<1> HIDE DEF e1, a, v, xs, r, out, m1
<1>9. ASSUME OnStack(a), CanStore(a) PROVE DataStep(e, m, Store(e1, a, v), m2)
  <2>1. a.val \in Word /\ a.state = "STACKRELATIVE" /\ xs \in Word /\ MeansValue(a.state, a.val, xs)
    BY <1>8, <1>9 DEF Means, CanStore, KnownOffset
  <2>2. Offset(a) \in Slots /\ xs = SlotAddr(Offset(a)) BY <1>9, <2>1, SlotOf
  <2>3. xs \in StackAddrs BY <2>2, StackFacts
  <2>4. xs \notin Data BY <2>3, SpecialiseAssumption
  <2>5. Means(v, x) BY <1>5
  <2>6. DataStep(e1, m1, Store(e1, a, v), m2) BY <1>3, <1>8, <1>9, <2>4, <2>5, MemWritten
  <2> QED BY <1>2, <2>6, StepsTogether
<1>10. /\ r.err \in {"none", "abort"}
       /\ r.err = "none" => DataStep(e, m, r.es, PushWord(m, x))
       /\ r.err # "none" => r.es = e
  BY <1>6, <1>7, <1>9 DEF Done, Abort
<1> QED BY <1>10 DEF r

\* PUSH of a register or an immediate.
LEMMA PushFollows ==
  ASSUME NEW i, Executable(i), i.type = "PUSH"
  PROVE  Follows(i, emulatePush(es, i))
<1> DEFINE r == emulatePush(es, i)
           x == Value(orig, i.dst)
<1>1. /\ Proper(es) /\ orig \in Machine /\ Agrees(es, orig) /\ i.dst \in Operand
  BY ExecutableFacts DEF Executable
<1>2. i.dst.kind \in {"Reg", "Imm"} /\ ~Mentions(i, "SP")
  <2>1. i.dst.kind \in {"Reg", "Imm", "Ind"} BY DEF Executable, WellFormed, BinaryOps, CMovFlag
  <2>2. StackLimit(i) BY DEF Executable, WithinLimits
  <2> QED BY <2>1, <2>2 DEF StackLimit
<1>3. i.dst \in Operands(i) BY <1>2 DEF Operands, NoOp
<1>4. i.dst.reg # "SP" BY <1>2, <1>3 DEF Mentions
<1>5. Means(getOpValue(es, i.dst), x) BY <1>3, ExecutableFacts
<1>6. Exec(orig, i) = PushWord(orig, x) BY ExecOf
<1> HIDE DEF r, x
<1>7. /\ r.err \in {"none", "abort"}
      /\ r.err = "none" => DataStep(es, orig, r.es, PushWord(orig, x))
      /\ r.err # "none" => r.es = es
  BY <1>1, <1>2, <1>4, <1>5, Pushed DEF r
<1>8. LostBy(i, r.es, r.out) = lost BY LostOf
<1>9. Follows(i, r) BY <1>1, <1>6, <1>7, <1>8, FollowsData
<1> QED BY <1>9 DEF r

\* Popping to another register than the stack pointer.
LEMMA Popped ==
  ASSUME NEW e, NEW m, Proper(e), m \in Machine, Agrees(e, m),
         NEW i, i.dst.reg \in Regs, i.dst.reg # "SP"
  PROVE  LET r == emulatePop(e, i)
         IN /\ r.err \in {"none", "abort"}
            /\ r.err = "none" => DataStep(e, m, r.es, PopWord(m, i.dst.reg))
            /\ r.err # "none" => r.es = e
<1> DEFINE d  == i.dst.reg
           a  == RegValue(e, "SP")
           v  == getMemValue(e, a)
           x  == m.mem[m.reg["SP"]]
           e1 == setReg(e, d, v)
           m1 == [m EXCEPT !.reg[d] = x]
           vs == Mask(e1.reg["SP"] + 1)
           xs == Mask(m1.reg["SP"] + 1)
           e2 == [e1 EXCEPT !.reg["SP"] = vs]
           m2 == [m1 EXCEPT !.reg["SP"] = xs]
           out == IF IsStatic(v) THEN <<>> ELSE << i >>
           r  == emulatePop(e, i)
<1>1. "SP" \in Regs /\ e \in EmuState /\ RegsAgree(e, m) BY MachineAssumption DEF Proper, Agrees
<1>2. Means(a, m.reg["SP"]) BY <1>1, RegMeans
<1>3. r = IF OnStack(a) THEN Done(e2, out) ELSE Abort(e) BY DEF emulatePop
<1>4. PopWord(m, d) = m2
  <2>1. m1.reg["SP"] = m.reg["SP"] BY <1>1 DEF Machine
  <2>2. PopWord(m, d) = [m EXCEPT !.reg = [[m.reg EXCEPT !["SP"] = xs] EXCEPT ![d] = x]]
    BY <2>1 DEF PopWord
  <2> HIDE DEF xs, x, d
  <2>3. [[m.reg EXCEPT !["SP"] = xs] EXCEPT ![d] = x] = [[m.reg EXCEPT ![d] = x] EXCEPT !["SP"] = xs]
    BY <1>1 DEF Machine, d
  <2>4. [m EXCEPT !.reg = [[m.reg EXCEPT ![d] = x] EXCEPT !["SP"] = xs]]
          = [[m EXCEPT !.reg[d] = x] EXCEPT !.reg["SP"] = xs]
    BY <1>1 DEF Machine
  <2> QED BY <2>2, <2>3, <2>4
<1>5. ASSUME OnStack(a) PROVE DataStep(e, m, e2, m2)
  <2> HIDE DEF a
  <2>1. Means(v, x) BY <1>1, <1>2, <1>5, MemMeans
  <2> HIDE DEF v, x
  <2>2. DataStep(e, m, e1, m1) BY <2>1, RegWritten
  <2>3. Proper(e1) /\ m1 \in Machine /\ Agrees(e1, m1) BY <2>2 DEF DataStep
  <2> HIDE DEF e1, m1
  <2>4. DataStep(e1, m1, e2, m2) BY <2>3, PointerMoved
  <2> HIDE DEF e2, m2
  <2> QED BY <2>2, <2>4, StepsTogether
<1> HIDE DEF e2, m2, out, a, d, r
<1>6. /\ r.err \in {"none", "abort"}
      /\ r.err = "none" => DataStep(e, m, r.es, PopWord(m, d))
      /\ r.err # "none" => r.es = e
  BY <1>3, <1>4, <1>5 DEF Done, Abort
<1> QED BY <1>6 DEF r, d

\* POP into a register.
LEMMA PopFollows ==
  ASSUME NEW i, Executable(i), i.type = "POP"
  PROVE  Follows(i, emulatePop(es, i))
<1> DEFINE r == emulatePop(es, i)
<1>1. /\ Proper(es) /\ orig \in Machine /\ Agrees(es, orig) /\ i.dst \in Operand
  BY ExecutableFacts DEF Executable
<1>2. i.dst.kind = "Reg" BY DEF Executable, WellFormed, BinaryOps, CMovFlag
<1>3. i.dst \in Operands(i) /\ i.dst.reg \in Regs
  BY <1>1, <1>2, OperandFields DEF Operands, NoOp
<1>4. i.dst.reg # "SP"
  <2>1. StackLimit(i) BY DEF Executable, WithinLimits
  <2> QED BY <1>3, <2>1 DEF StackLimit, Mentions
<1>5. Exec(orig, i) = PopWord(orig, i.dst.reg) BY ExecOf
<1> HIDE DEF r
<1>6. /\ r.err \in {"none", "abort"}
      /\ r.err = "none" => DataStep(es, orig, r.es, PopWord(orig, i.dst.reg))
      /\ r.err # "none" => r.es = es
  BY <1>1, <1>3, <1>4, Popped DEF r
<1>7. LostBy(i, r.es, r.out) = lost BY LostOf
<1>8. Follows(i, r) BY <1>1, <1>5, <1>6, <1>7, FollowsData
<1> QED BY <1>8 DEF r

\* Leaving a stack frame is moving the base pointer to the stack pointer, and popping.
LEMMA LeaveFollows ==
  ASSUME NEW i, Executable(i), i.type = "LEAVE"
  PROVE  Follows(i, emulateLeave(es))
<1> DEFINE j   == Binary("MOV", RegOp("SP"), RegOp("BP"))
           p   == Unary("POP", RegOp("BP"))
           mov == emulateMov(es, j)
           e1  == setReg(es, "SP", RegValue(es, "BP"))
           m1  == [orig EXCEPT !.reg["SP"] = orig.reg["BP"]]
           pop == emulatePop(e1, p)
           r   == emulateLeave(es)
<1>1. /\ Proper(es) /\ es \in EmuState /\ orig \in Machine /\ Agrees(es, orig) /\ RegsAgree(es, orig)
  BY ExecutableFacts DEF Executable
<1>2. "SP" \in Regs /\ "BP" \in Regs BY MachineAssumption
<1>3. mov.es = e1
  <2>1. /\ j.dst.kind = "Reg" /\ j.dst.reg = "SP" /\ j.src.kind = "Reg" /\ j.src.reg = "BP"
    BY DEF Binary, Ternary, RegOp, NoOp
  <2> HIDE DEF j
  <2>2. getOpValue(es, j.src) = RegValue(es, "BP") BY <2>1 DEF getOpValue
  <2>3. mov = Done(e1, captureMov(es, j, RegValue(es, "BP"))) BY <2>1, <2>2 DEF emulateMov, Assign
  <2> QED BY <2>3 DEF Done
<1>4. DataStep(es, orig, e1, m1)
  <2>1. Means(RegValue(es, "BP"), orig.reg["BP"]) BY <1>1, <1>2, RegMeans
  <2> QED BY <1>1, <1>2, <2>1, RegWritten
<1>5. Exec(orig, i) = PopWord(m1, "BP") BY ExecOf
<1>6. r.es = pop.es /\ r.err = pop.err
  BY <1>3 DEF emulateLeave, Done
<1>7. p.dst.reg = "BP" BY DEF Unary, Ternary, RegOp, NoOp
<1> HIDE DEF e1, m1, p, r
<1>8. Proper(e1) /\ m1 \in Machine /\ Agrees(e1, m1) BY <1>4 DEF DataStep
<1>9. /\ pop.err \in {"none", "abort"}
      /\ pop.err = "none" => DataStep(e1, m1, pop.es, PopWord(m1, "BP"))
      /\ pop.err # "none" => pop.es = e1
  BY <1>2, <1>7, <1>8, Popped
<1> HIDE DEF pop
<1>10. r.err = "none" => DataStep(es, orig, r.es, Exec(orig, i))
  BY <1>4, <1>5, <1>6, <1>9, StepsTogether
<1>11. LostBy(i, r.es, r.out) = lost BY LostOf
<1>12. r.err # "none" => Proper(r.es) BY <1>6, <1>8, <1>9
<1>13. Follows(i, r) BY <1>6, <1>9, <1>10, <1>11, <1>12, FollowsData
<1> QED BY <1>13 DEF r

\* The stack of return addresses has no part in what is known.
LEMMA ReturnsSet ==
  ASSUME NEW e, Proper(e), NEW s \in Seq(Word), NEW n, n = [e EXCEPT !.ret_stack = s]
  PROVE  /\ Proper(n) /\ n.reg = e.reg /\ n.reg_state = e.reg_state
         /\ n.flag = e.flag /\ n.flag_state = e.flag_state
         /\ \A m : Agrees(n, m) <=> Agrees(e, m)
<1>1. e \in EmuState BY DEF Proper
<1>2. /\ n.reg = e.reg /\ n.reg_state = e.reg_state /\ n.flag = e.flag /\ n.flag_state = e.flag_state
      /\ n.stack = e.stack /\ n.stackState = e.stackState /\ n.stackAccessed = e.stackAccessed
      /\ n.mem = e.mem
  BY <1>1 DEF EmuState
<1>3. n \in EmuState BY <1>1 DEF EmuState
<1>4. Kept(n) BY <1>2 DEF Proper, Kept
<1> QED BY <1>2, <1>3, <1>4 DEF Proper, Agrees, RegsAgree, StackAgrees, DataAgrees

\* Pushing leaves the parameter alone.
LEMMA PushKeepsParameter ==
  ASSUME NEW e, Proper(e), NEW m, m \in Machine, NEW i, emulatePush(e, i).err = "none", NEW x
  PROVE  emulatePush(e, i).es.reg["DI"] = e.reg["DI"] /\ PushWord(m, x).reg["DI"] = m.reg["DI"]
<1> DEFINE e1 == [e EXCEPT !.reg["SP"] = Mask(e.reg["SP"] - 1)]
           a  == RegValue(e1, "SP")
           v  == getOpValue(e1, i.dst)
           out == IF IsStatic(v) THEN <<>> ELSE << i >>
<1>1. e \in EmuState /\ "DI" \in Regs BY MachineAssumption DEF Proper
<1>2. e1.reg["DI"] = e.reg["DI"] BY <1>1 DEF EmuState
<1>3. emulatePush(e, i) = IF OnStack(a) /\ CanStore(a) THEN Done(Store(e1, a, v), out) ELSE Abort(e)
  BY DEF emulatePush
<1>4. PushWord(m, x).reg["DI"] = m.reg["DI"] BY <1>1 DEF PushWord, Machine
<1>5. e1.reg = [e.reg EXCEPT !["SP"] = Mask(e.reg["SP"] - 1)] /\ "reg" \in DOMAIN e1
  BY <1>1 DEF EmuState
<1> HIDE DEF a, v, out, e1
<1>6. Store(e1, a, v).reg = e1.reg BY <1>5 DEF Store
<1>7. emulatePush(e, i).es = Store(e1, a, v) BY <1>3 DEF Done, Abort
<1> QED BY <1>2, <1>4, <1>6, <1>7

\* Calls: the return address is pushed, and the function called may tell what is
\* known of its parameter.
CallOutcome(i) ==
  LET call  == emulateCall(es, i)
      known == processKnownTargets(call.es, getOpValue(es, i.dst).val)
  IN IF call.err = "none" THEN Done(known.es, call.out \o known.out) ELSE call

\* An inlined call pushes the return address; makeStatic and makeDynamic change what
\* is known of the parameter.
LEMMA CallFollows ==
  ASSUME NEW i, Executable(i), i.type = "CALL",
         getOpValue(es, i.dst).val = MakeStatic => orig.reg["DI"] = es.reg["DI"]
  PROVE  Follows(i, CallOutcome(i))
<1> DEFINE target == getOpValue(es, i.dst)
           p      == Unary("PUSH", i.src)
           push   == emulatePush(es, p)
           call   == emulateCall(es, i)
           known  == processKnownTargets(call.es, target.val)
           r      == CallOutcome(i)
           x      == i.src.val
           w      == PushWord(orig, x)
           e3     == [push.es EXCEPT !.ret_stack = Append(@, x)]
<1>1. /\ Proper(es) /\ orig \in Machine /\ Agrees(es, orig) /\ FlagsAgree(es, orig, lost)
      /\ i.src \in Operand
  BY ExecutableFacts DEF Executable
<1>2. i.src.kind = "Imm" /\ x \in Word
  <2>1. i.src.kind = "Imm" BY DEF Executable, WellFormed, BinaryOps, CMovFlag
  <2> QED BY <1>1, <2>1, OperandFields
<1>3. /\ p.dst = i.src /\ p.dst.kind \in {"Imm", "Reg"} /\ p.dst.kind # "Reg"
      /\ p.dst \in Operand
  BY <1>1, <1>2 DEF Unary, Ternary
<1>4. Means(getOpValue(es, p.dst), x)
  BY <1>2, <1>3 DEF getOpValue, EmuValue, Means, MeansValue, CaptureState
<1>5. r = IF call.err = "none" THEN Done(known.es, call.out \o known.out) ELSE call
  BY DEF CallOutcome
<1>6. call = IF Depth(es) >= MAX_CALLDEPTH \/ ~IsStatic(target) THEN Error(es)
             ELSE IF push.err # "none" THEN push
             ELSE Done(e3, push.out)
  BY DEF emulateCall
<1>7. Exec(orig, i) = w BY ExecOf
<1>8. LostBy(i, r.es, r.out) = lost BY LostOf
<1> HIDE DEF p, x
<1>9. /\ push.err \in {"none", "abort"}
      /\ push.err = "none" => DataStep(es, orig, push.es, w)
      /\ push.err # "none" => push.es = es
  BY <1>1, <1>3, <1>4, Pushed
<1>10. push.err = "none" => push.es.reg["DI"] = es.reg["DI"] /\ w.reg["DI"] = orig.reg["DI"]
  BY <1>1, PushKeepsParameter
<1> HIDE DEF target, push, w, known, r
<1>11. ASSUME call.err = "none"
       PROVE  push.err = "none" /\ call.es = e3
  BY <1>6, <1>11 DEF Done, Error
<1>12. CASE r.err # "none"
  <2>1. call.err # "none" BY <1>5, <1>12 DEF Done
  <2>2. call = Error(es) \/ (call = push /\ push.err # "none") BY <1>6, <2>1 DEF Done
  <2>3. r.es = es BY <1>5, <1>9, <2>1, <2>2 DEF Error
  <2>4. Follows(i, r) BY <1>1, <1>12, <2>3 DEF Follows
  <2> QED BY <2>4 DEF r
<1>13. CASE r.err = "none"
  <2>1. call.err = "none" BY <1>5, <1>13
  <2>2. r.es = known.es BY <1>5, <2>1 DEF Done
  <2>3. push.err = "none" /\ call.es = e3 BY <1>11, <2>1
  <2>4. /\ Proper(push.es) /\ w \in Machine /\ Agrees(push.es, w)
        /\ push.es.flag = es.flag /\ push.es.flag_state = es.flag_state /\ w.flag = orig.flag
        /\ push.es.ret_stack = es.ret_stack
    BY <1>9, <2>3 DEF DataStep
  <2>5. Append(push.es.ret_stack, x) \in Seq(Word) BY <1>2, <2>4 DEF Proper, EmuState, x
  <2>6. /\ Proper(e3) /\ e3.reg = push.es.reg /\ Agrees(e3, w)
        /\ e3.flag = es.flag /\ e3.flag_state = es.flag_state
    <3> DEFINE s == Append(push.es.ret_stack, x)
    <3>1. e3 = [push.es EXCEPT !.ret_stack = s] OBVIOUS
    <3>2. s \in Seq(Word) BY <2>5
    <3> HIDE DEF s, e3
    <3> QED BY <2>4, <3>1, <3>2, ReturnsSet
  <2>7. "DI" \in Regs BY MachineAssumption
  <2> HIDE DEF e3, call
  <2>8. /\ e3.reg["DI"] \in Word /\ e3.reg["DI"] = es.reg["DI"] /\ w.reg["DI"] = orig.reg["DI"]
        /\ w.reg["DI"] \in Word
    BY <1>10, <2>3, <2>4, <2>6, <2>7, EmuFields, MachineFields DEF Proper
  <2>9. ASSUME NEW s \in {"DYNAMIC", "STATIC2"}, s = "STATIC2" => orig.reg["DI"] = es.reg["DI"]
        PROVE  DataStep(e3, w, [e3 EXCEPT !.reg_state["DI"] = s], w)
    <3> DEFINE v == EmuValue(e3.reg["DI"], s)
    <3>1. MeansValue(s, e3.reg["DI"], w.reg["DI"]) BY <2>8, <2>9 DEF MeansValue, csIsStatic
    <3>2. Means(v, w.reg["DI"]) BY <2>8, <3>1 DEF Means, EmuValue, CaptureState
    <3> HIDE DEF v
    <3>3. DataStep(e3, w, setReg(e3, "DI", v), [w EXCEPT !.reg["DI"] = w.reg["DI"]])
      BY <2>4, <2>6, <2>7, <3>2, RegWritten
    <3>4. setReg(e3, "DI", v) = [e3 EXCEPT !.reg_state["DI"] = s] BY <2>6, <2>7, RegStateSet DEF v
    <3>5. [w EXCEPT !.reg["DI"] = w.reg["DI"]] = w BY <2>4, <2>6, <2>7, RegRewritten
    <3> QED BY <3>3, <3>4, <3>5
  <2>10. \/ known.es = e3
         \/ known.es = [e3 EXCEPT !.reg_state["DI"] = "DYNAMIC"]
         \/ target.val = MakeStatic /\ known.es = [e3 EXCEPT !.reg_state["DI"] = "STATIC2"]
    BY <2>3 DEF known, processKnownTargets, Done
  <2>11. DataStep(e3, w, known.es, w)
    <3>1. DataStep(e3, w, e3, w) BY <2>4, <2>6, SameStep
    <3>2. target.val = MakeStatic => orig.reg["DI"] = es.reg["DI"] BY DEF target
    <3> QED BY <2>9, <2>10, <3>1, <3>2
  <2>12. /\ Proper(known.es) /\ Agrees(known.es, w)
         /\ known.es.flag = es.flag /\ known.es.flag_state = es.flag_state
    BY <2>6, <2>11 DEF DataStep
  <2>13. FlagsAgree(known.es, w, lost) BY <1>1, <2>4, <2>12 DEF FlagsAgree
  <2>14. Follows(i, r) BY <1>7, <1>8, <2>2, <2>4, <2>12, <2>13 DEF Follows
  <2> QED BY <2>14 DEF r
<1> QED BY <1>12, <1>13

\* Returning leaves nothing known of the registers a function may change.
LEMMA RegistersForgotten ==
  ASSUME NEW e, Proper(e), NEW n,
         n = [e EXCEPT !.reg_state = [r \in Regs |-> IF r \in CallerSaved THEN "DEAD" ELSE e.reg_state[r]]]
  PROVE  /\ Proper(n) /\ n.reg = e.reg /\ n.flag = e.flag /\ n.flag_state = e.flag_state
         /\ n.ret_stack = e.ret_stack
         /\ \A m : Agrees(e, m) => Agrees(n, m)
<1> DEFINE q == [r \in Regs |-> IF r \in CallerSaved THEN "DEAD" ELSE e.reg_state[r]]
<1>1. e \in EmuState BY DEF Proper
<1>2. q \in [Regs -> CaptureState] BY <1>1 DEF EmuState, CaptureState
<1>3. \A r \in Regs : q[r] = e.reg_state[r] \/ q[r] = "DEAD" OBVIOUS
<1> HIDE DEF q
<1>4. /\ n.reg = e.reg /\ n.reg_state = q /\ n.flag = e.flag /\ n.flag_state = e.flag_state
      /\ n.stack = e.stack /\ n.stackState = e.stackState /\ n.stackAccessed = e.stackAccessed
      /\ n.mem = e.mem /\ n.ret_stack = e.ret_stack
  BY <1>1 DEF EmuState, q
<1>5. n \in EmuState BY <1>1, <1>2 DEF EmuState, q
<1>6. Kept(n) BY <1>4 DEF Proper, Kept
<1>7. ASSUME NEW m, Agrees(e, m) PROVE Agrees(n, m)
  <2>1. \A r \in Regs : MeansValue(n.reg_state[r], n.reg[r], m.reg[r])
    BY <1>3, <1>4, <1>7, MeansNothing DEF Agrees, RegsAgree
  <2> QED BY <1>4, <1>7, <2>1 DEF Agrees, RegsAgree, StackAgrees, DataAgrees
<1> QED BY <1>4, <1>5, <1>6, <1>7 DEF Proper

\* A return pops the return address; what the caller may not rely on is forgotten.
LEMMA RetFollows ==
  ASSUME NEW i, Executable(i), i.type = "RET"
  PROVE  Follows(i, emulateRet(es))
<1> DEFINE e1 == [es EXCEPT !.reg_state =
                    [r \in Regs |-> IF r \in CallerSaved THEN "DEAD" ELSE es.reg_state[r]]]
           vs == Mask(e1.reg["SP"] + 1)
           xs == Mask(orig.reg["SP"] + 1)
           e2 == [e1 EXCEPT !.reg["SP"] = vs]
           m2 == [orig EXCEPT !.reg["SP"] = xs]
           s  == SubSeq(es.ret_stack, 1, Depth(es) - 1)
           e3 == [e2 EXCEPT !.ret_stack = s]
           r  == emulateRet(es)
<1>1. /\ Proper(es) /\ es \in EmuState /\ orig \in Machine /\ Agrees(es, orig)
      /\ FlagsAgree(es, orig, lost)
  BY ExecutableFacts DEF Executable
<1>2. /\ Proper(e1) /\ Agrees(e1, orig) /\ e1.flag = es.flag /\ e1.flag_state = es.flag_state
      /\ e1.ret_stack = es.ret_stack
  BY <1>1, RegistersForgotten
<1>3. \/ Depth(es) = 0 /\ r.es = e1
      \/ Depth(es) # 0 /\ r.err # "none" /\ r.es = es
      \/ /\ Depth(es) # 0 /\ r.err = "none"
         /\ r.es = [e1 EXCEPT !.reg["SP"] = Mask(@ + 1),
                              !.ret_stack = SubSeq(@, 1, Depth(es) - 1)]
  <2>1. CASE Depth(es) = 0 BY <2>1 DEF emulateRet, Done
  <2>2. CASE Depth(es) # 0 BY <2>2 DEF emulateRet, Done, Abort, Error
  <2> QED BY <2>1, <2>2
<1>4. [e1 EXCEPT !.reg["SP"] = Mask(@ + 1), !.ret_stack = SubSeq(@, 1, Depth(es) - 1)] = e3
  <2> HIDE DEF e1
  <2>1. e1 \in EmuState BY <1>2 DEF Proper
  <2>2. [e1 EXCEPT !.reg["SP"] = Mask(@ + 1), !.ret_stack = SubSeq(@, 1, Depth(es) - 1)]
          = [e1 EXCEPT !.reg["SP"] = vs, !.ret_stack = s]
    BY <1>2
  <2>3. [e1 EXCEPT !.reg["SP"] = vs, !.ret_stack = s]
          = [[e1 EXCEPT !.reg["SP"] = vs] EXCEPT !.ret_stack = s]
    <3> HIDE DEF vs, s
    <3> QED BY <2>1 DEF EmuState
  <2> QED BY <2>2, <2>3
<1>5. Exec(orig, i) = m2 BY ExecOf
<1>6. LostBy(i, r.es, r.out) = lost BY LostOf
<1>7. s \in Seq(Word)
  <2>1. es.ret_stack \in Seq(Word) BY <1>1 DEF EmuState
  <2>2. Depth(es) = Len(es.ret_stack) /\ Len(es.ret_stack) \in Nat BY <2>1 DEF Depth
  <2>3. Len(es.ret_stack) - 1 <= Len(es.ret_stack) /\ Len(es.ret_stack) - 1 \in Int BY <2>2
  <2>4. SubSeq(es.ret_stack, 1, Len(es.ret_stack) - 1) \in Seq(Word) BY <2>1, <2>2, <2>3
  <2> QED BY <2>2, <2>4
<1> HIDE DEF e1, r
<1>8. DataStep(e1, orig, e2, m2) BY <1>1, <1>2, PointerMoved
<1> HIDE DEF e2, m2, s, e3
<1>9. Proper(e2) /\ Agrees(e2, m2) /\ m2 \in Machine /\ m2.flag = orig.flag
      /\ e2.flag = es.flag /\ e2.flag_state = es.flag_state
  BY <1>2, <1>8 DEF DataStep
<1>10. Proper(e3) /\ Agrees(e3, m2) /\ e3.flag = es.flag /\ e3.flag_state = es.flag_state
  BY <1>7, <1>9, ReturnsSet DEF e3
<1>11. FlagsAgree(e3, m2, lost) BY <1>1, <1>9, <1>10 DEF FlagsAgree
<1>12. Follows(i, r)
  <2>1. CASE Depth(es) = 0 /\ r.es = e1 BY <1>2, <1>5, <1>9, <2>1 DEF Follows
  <2>2. CASE r.err # "none" /\ r.es = es BY <1>1, <2>2 DEF Follows
  <2>3. CASE r.err = "none" /\ r.es = e3
    BY <1>5, <1>6, <1>9, <1>10, <1>11, <2>3 DEF Follows
  <2> QED BY <1>3, <1>4, <2>1, <2>2, <2>3
<1> QED BY <1>12 DEF r

----------------------------------------------------------------------------
(***************************************************************************)
(* The steps                                                               *)
(***************************************************************************)
\* Every instruction but calls and returns.
LEMMA InstructionFollows ==
  ASSUME NEW i, Executable(i), i.type \notin {"CALL", "RET"},
         i.type \in DOMAIN CMovFlag => FlagsDefined({CMovFlag[i.type]}), NEW force
  PROVE  Follows(i, processInstr(es, i, force))
<1>1. i.type \in BinaryOps \cup {"CMP", "TEST", "INC", "DEC", "NEG", "MOV", "LEA", "IDIV", "CQTO",
                                 "PUSH", "POP", "LEAVE", "VLOAD", "VADD", "VSTORE", "VGET"}
                 \cup CMovTypes
  <2>1. \/ i.type \in BinaryOps \cup {"MOV", "CMP", "TEST"}
        \/ i.type = "IMUL" \/ i.type = "LEA" \/ i.type \in CMovTypes
        \/ i.type \in {"INC", "DEC", "NEG", "IDIV"}
        \/ i.type = "PUSH" \/ i.type \in {"POP", "VGET"}
        \/ i.type \in {"CQTO", "LEAVE", "RET"} \/ i.type = "CALL"
        \/ i.type \in {"VLOAD", "VADD"} \/ i.type = "VSTORE"
    BY CMovNames, Zenon DEF Executable, WellFormed
  <2> QED BY <2>1 DEF BinaryOps
<1>2. CASE i.type \in BinaryOps BY <1>2, EmulationOf, BinaryFollows
<1>3. CASE i.type = "CMP" BY <1>3, EmulationOf, CmpFollows
<1>4. CASE i.type = "TEST" BY <1>4, EmulationOf, TestFollows
<1>5. CASE i.type \in {"INC", "DEC", "NEG"} BY <1>5, EmulationOf, UnaryFollows
<1>6. CASE i.type = "MOV" BY <1>6, EmulationOf, MovFollows
<1>7. CASE i.type = "LEA" BY <1>7, EmulationOf, LeaFollows
<1>8. CASE i.type \in CMovTypes BY <1>8, CMovNames, EmulationOf, CMovFollows
<1>9. CASE i.type = "IDIV" BY <1>9, EmulationOf, IDivFollows
<1>10. CASE i.type = "CQTO" BY <1>10, EmulationOf, CqtoFollows
<1>11. CASE i.type = "PUSH" BY <1>11, EmulationOf, PushFollows
<1>12. CASE i.type = "POP" BY <1>12, EmulationOf, PopFollows
<1>13. CASE i.type = "LEAVE" BY <1>13, EmulationOf, LeaveFollows
<1>14. CASE i.type \in {"VLOAD", "VADD", "VSTORE", "VGET"} BY <1>14, EmulationOf, VectorFollows
<1> QED BY <1>1, <1>2, <1>3, <1>4, <1>5, <1>6, <1>7, <1>8, <1>9, <1>10, <1>11, <1>12, <1>13, <1>14

\* An instruction that may be executed, when the invariant holds.
LEMMA RunningExecutable ==
  ASSUME KnownInv, NEW i \in Functions[kind].palette, Running(i)
  PROVE  Executable(i)
<1>1. WellFormed(i) BY SpecialiseAssumption DEF KnownInv
<1> QED BY <1>1 DEF KnownInv, Running, Executable

\* A step with an instruction that follows keeps the invariant.
LEMMA ExecuteKeeps ==
  ASSUME KnownInv, NEW i, NEW r, Follows(i, r), Execute(i, r)
  PROVE  KnownInv'
<1>1. /\ es' = r.es /\ kind' = kind /\ savedState' = savedState
      /\ status' = CASE r.err # "none" -> "failed"
                     [] i.type = "RET" /\ Depth(es) = 0 -> "returned"
                     [] OTHER -> "running"
      /\ r.err # "none" => orig' = orig
      /\ r.err = "none" => orig' = Exec(orig, i) /\ lost' = LostBy(i, r.es, r.out)
  BY DEF Execute
<1>2. kind' \in DOMAIN Functions /\ (\A s \in savedState' : Proper(s)) BY <1>1 DEF KnownInv
<1>3. Proper(es') BY <1>1 DEF Follows
<1>4. orig' \in Machine BY <1>1 DEF Follows, KnownInv
<1>5. ASSUME status' = "running"
      PROVE  Agrees(es', orig') /\ FlagsAgree(es', orig', lost')
  <2>1. r.err = "none" /\ ~(i.type = "RET" /\ Depth(es) = 0) BY <1>1, <1>5
  <2> QED BY <1>1, <2>1 DEF Follows
<1> QED BY <1>2, <1>3, <1>4, <1>5 DEF KnownInv, Agrees, RegsAgree, StackAgrees, DataAgrees, FlagsAgree, Proper, Kept

\* States that count as equal know the same.
LEMMA EqualMeans ==
  ASSUME NEW s1, NEW v1, NEW s2 \in CaptureState, NEW v2, NEW same, csIsEqual(s1, v1, s2, v2, same),
         NEW x, MeansValue(s1, v1, x)
  PROVE  MeansValue(s2, v2, x)
  BY DEF csIsEqual, MeansValue, csIsStatic, CaptureState

\* A saved state that is equal can be used instead.
LEMMA EqualAgrees ==
  ASSUME NEW e, NEW s, NEW m, NEW L, Proper(e), Proper(s), m \in Machine,
         Agrees(e, m), FlagsAgree(e, m, L), esIsEqual(e, s)
  PROVE  LET n == copyEmuState(e, s) IN Proper(n) /\ Agrees(n, m) /\ FlagsAgree(n, m, L)
<1> DEFINE n == [s EXCEPT !.mem = e.mem]
           eq(s1, v1, s2, v2) == csIsEqual(s1, v1, s2, v2, e.parent = s.parent)
<1>1. e \in EmuState /\ s \in EmuState BY DEF Proper
<1>2. /\ \A r \in Regs : eq(e.reg_state[r], e.reg[r], s.reg_state[r], s.reg[r])
      /\ \A f \in FlagType : eq(e.flag_state[f], e.flag[f], s.flag_state[f], s.flag[f])
      /\ \A o \in Slots :
           IF o < s.stackAccessed THEN ~csIsStatic(e.stackState[o])
           ELSE eq(e.stackState[o], e.stack[o], s.stackState[o], s.stack[o])
  BY Zenon DEF esIsEqual
<1>3. n = copyEmuState(e, s) BY DEF copyEmuState
<1>4. /\ n.reg = s.reg /\ n.reg_state = s.reg_state /\ n.flag = s.flag /\ n.flag_state = s.flag_state
      /\ n.stack = s.stack /\ n.stackState = s.stackState /\ n.stackAccessed = s.stackAccessed
      /\ n.mem = e.mem
  BY <1>1 DEF EmuState
<1>5. n \in EmuState BY <1>1 DEF EmuState
<1> HIDE DEF n
<1>6. Proper(n) BY <1>4, <1>5 DEF Proper, Kept
<1>7. RegsAgree(n, m)
  <2> SUFFICES ASSUME NEW r \in Regs PROVE MeansValue(s.reg_state[r], s.reg[r], m.reg[r])
    BY <1>4 DEF RegsAgree
  <2>1. s.reg_state[r] \in CaptureState BY <1>1, EmuFields
  <2>2. MeansValue(e.reg_state[r], e.reg[r], m.reg[r]) BY DEF Agrees, RegsAgree
  <2>3. csIsEqual(e.reg_state[r], e.reg[r], s.reg_state[r], s.reg[r], e.parent = s.parent) BY <1>2
  <2> QED BY <2>1, <2>2, <2>3, EqualMeans
<1>8. StackAgrees(n, m)
  <2> SUFFICES ASSUME NEW o \in Slots, o >= s.stackAccessed
               PROVE  MeansValue(s.stackState[o], s.stack[o], m.mem[SlotAddr(o)])
    BY <1>4 DEF StackAgrees
  <2>1. s.stackState[o] \in CaptureState BY <1>1, EmuFields
  <2>2. MeansValue(e.stackState[o], e.stack[o], m.mem[SlotAddr(o)])
    <3>1. CASE o >= e.stackAccessed BY <3>1 DEF Agrees, StackAgrees
    <3>2. CASE o < e.stackAccessed
      <4>1. e.stackState[o] = "DEAD" BY <3>2 DEF Proper, Kept
      <4> QED BY <4>1, MeansNothing
    <3> QED BY <1>1, <3>1, <3>2, EmuFields, StackFacts DEF Slots
  <2>3. ~(o < s.stackAccessed) BY <1>1, EmuFields, StackFacts DEF Slots
  <2>4. csIsEqual(e.stackState[o], e.stack[o], s.stackState[o], s.stack[o], e.parent = s.parent)
    BY <1>2, <2>3, Zenon
  <2> QED BY <2>1, <2>2, <2>4, EqualMeans, Zenon
<1>9. DataAgrees(n, m) BY <1>4 DEF Agrees, DataAgrees
<1>10. FlagsAgree(n, m, L)
  <2> SUFFICES ASSUME NEW f \in FlagType, s.flag_state[f] = "STATIC", f \notin L
               PROVE  s.flag[f] = m.flag[f]
    BY <1>4 DEF FlagsAgree
  <2>1. csIsEqual(e.flag_state[f], e.flag[f], s.flag_state[f], s.flag[f], e.parent = s.parent) BY <1>2
  <2>2. csIsStatic(e.flag_state[f]) /\ e.flag[f] = s.flag[f] BY <2>1 DEF csIsEqual, csIsStatic
  <2>3. e.flag_state[f] = "STATIC" BY <2>2 DEF Proper, Kept, csIsStatic
  <2> QED BY <2>2, <2>3 DEF FlagsAgree
<1>11. Proper(n) /\ Agrees(n, m) /\ FlagsAgree(n, m, L)
  BY <1>6, <1>7, <1>8, <1>9, <1>10 DEF Agrees
<1> QED BY <1>3, <1>11

\* Saving a state and going on with the copy loses nothing.
LEMMA CopyAgrees ==
  ASSUME NEW e, NEW m, NEW L, Proper(e), m \in Machine, Agrees(e, m), FlagsAgree(e, m, L)
  PROVE  LET s == cloneEmuState(e)
             n == copyEmuState(e, s)
         IN Proper(s) /\ Proper(n) /\ Agrees(n, m) /\ FlagsAgree(n, m, L)
<1> DEFINE st == [o \in Slots |-> IF o < e.stackAccessed THEN 0 ELSE e.stack[o]]
           ss == [o \in Slots |-> IF o < e.stackAccessed THEN "DEAD" ELSE e.stackState[o]]
           s  == [e EXCEPT !.parent = "Rewriter", !.stack = st, !.stackState = ss]
           n  == [s EXCEPT !.mem = e.mem]
<1>1. e \in EmuState BY DEF Proper
<1>2. s = cloneEmuState(e) BY DEF cloneEmuState
<1>3. n = copyEmuState(e, s) BY DEF copyEmuState
<1>4. st \in [Slots -> Word] /\ ss \in [Slots -> CaptureState]
  <2>1. 0 \in Word BY WordFacts
  <2> QED BY <1>1, <2>1 DEF EmuState, CaptureState
<1>5. \A o \in Slots : /\ o < e.stackAccessed => ss[o] = "DEAD"
                       /\ ~(o < e.stackAccessed) => ss[o] = e.stackState[o] /\ st[o] = e.stack[o]
  OBVIOUS
<1> HIDE DEF st, ss
<1>6. /\ s.reg = e.reg /\ s.reg_state = e.reg_state /\ s.flag = e.flag /\ s.flag_state = e.flag_state
      /\ s.stack = st /\ s.stackState = ss /\ s.stackAccessed = e.stackAccessed /\ s.mem = e.mem
      /\ s \in EmuState
  BY <1>1, <1>4 DEF EmuState
<1>7. n = s BY <1>6 DEF EmuState
<1> HIDE DEF s, n
<1>8. Proper(s) BY <1>5, <1>6 DEF Proper, Kept
<1>9. StackAgrees(s, m)
  <2> SUFFICES ASSUME NEW o \in Slots, o >= e.stackAccessed
               PROVE  MeansValue(ss[o], st[o], m.mem[SlotAddr(o)])
    BY <1>6 DEF StackAgrees
  <2>1. ~(o < e.stackAccessed) BY <1>1, EmuFields, StackFacts DEF Slots
  <2>2. ss[o] = e.stackState[o] /\ st[o] = e.stack[o] BY <1>5, <2>1
  <2> QED BY <2>2 DEF Agrees, StackAgrees
<1>10. Agrees(s, m) BY <1>6, <1>9 DEF Agrees, RegsAgree, DataAgrees
<1>11. FlagsAgree(s, m, L) BY <1>6 DEF FlagsAgree
<1> QED BY <1>2, <1>3, <1>7, <1>8, <1>10, <1>11

\* A jump on unknown data goes on with a state that says no more than the current one.
LEMMA BranchKeeps ==
  ASSUME KnownInv, Branch
  PROVE  KnownInv'
<1>1. /\ status = "running"
      /\ kind' = kind /\ orig' = orig /\ status' = status /\ lost' = lost
      /\ \/ /\ \E s \in savedState : esIsEqual(es, s) /\ es' = copyEmuState(es, s)
            /\ savedState' = savedState
         \/ /\ es' = copyEmuState(es, cloneEmuState(es))
            /\ savedState' = savedState \cup {cloneEmuState(es)}
  BY DEF Branch
<1>2. /\ Proper(es) /\ (\A s \in savedState : Proper(s)) /\ orig \in Machine
      /\ Agrees(es, orig) /\ FlagsAgree(es, orig, lost) /\ kind \in DOMAIN Functions
  BY <1>1 DEF KnownInv
<1>3. /\ Proper(es') /\ Agrees(es', orig) /\ FlagsAgree(es', orig, lost)
      /\ \A s \in savedState' : Proper(s)
  <2>1. CASE /\ \E s \in savedState : esIsEqual(es, s) /\ es' = copyEmuState(es, s)
             /\ savedState' = savedState
    BY <1>2, <2>1, EqualAgrees
  <2>2. CASE /\ es' = copyEmuState(es, cloneEmuState(es))
             /\ savedState' = savedState \cup {cloneEmuState(es)}
    BY <1>2, <2>2, CopyAgrees
  <2> QED BY <1>1, <2>1, <2>2
<1> QED BY <1>1, <1>2, <1>3
    DEF KnownInv, Agrees, RegsAgree, StackAgrees, DataAgrees, FlagsAgree, Proper, Kept

----------------------------------------------------------------------------
(***************************************************************************)
(* The beginning                                                           *)
(***************************************************************************)
\* The emulator before the first instruction, with parameter par.
LEMMA StartAgrees ==
  ASSUME NEW mem \in [Word -> Word], NEW par \in Word,
         NEW state \in {"DYNAMIC", "STATIC", "STATIC2"},
         NEW m, m \in Machine, m.reg["SP"] = Base, state # "DYNAMIC" => m.reg["DI"] = par,
         \A v \in Data : mem[v] = m.mem[v]
  PROVE  LET e == withParameters(resetEmuState(mem), [r \in {"DI"} |-> par], [r \in {"DI"} |-> state])
         IN Proper(e) /\ Agrees(e, m) /\ FlagsAgree(e, m, {})
<1> DEFINE rs == [r \in Regs |-> IF r = "DI" THEN par ELSE IF r = "SP" THEN StackTop ELSE 0]
           ss == [r \in Regs |-> IF r = "DI" THEN state ELSE IF r = "SP" THEN "STACKRELATIVE"
                                 ELSE IF r \in calleeSave THEN "DYNAMIC" ELSE "DEAD"]
           e0 == resetEmuState(mem)
           e  == withParameters(e0, [r \in {"DI"} |-> par], [r \in {"DI"} |-> state])
           e1 == [ reg        |-> rs,
                   reg_state  |-> ss,
                   flag       |-> [f \in FlagType |-> FALSE],
                   flag_state |-> [f \in FlagType |-> "DEAD"],
                   stack      |-> [o \in Slots |-> 0],
                   stackState |-> [o \in Slots |-> "DEAD"],
                   stackAccessed |-> StackSize,
                   ret_stack  |-> <<>>,
                   parent     |-> "None",
                   mem        |-> mem ]
<1>1. /\ 0 \in Word /\ StackTop \in Word /\ Base \in Word /\ StackSize \in Nat
      /\ StackTop - StackTop = 0 /\ Base - Base = 0
  BY WordFacts, StackFacts
<1>2. e = e1
  <2>1. \A r \in Regs : r \in {"DI"} <=> r = "DI" OBVIOUS
  <2>2. e = [ e0 EXCEPT
      !.reg = [r \in Regs |-> IF r \in {"DI"} THEN [q \in {"DI"} |-> par][r]
                              ELSE IF r = "SP" THEN StackTop ELSE e0.reg[r]],
      !.reg_state = [r \in Regs |-> IF r \in {"DI"} THEN [q \in {"DI"} |-> state][r]
                                    ELSE IF r = "SP" THEN "STACKRELATIVE" ELSE e0.reg_state[r]] ]
    BY DEF withParameters
  <2>3. /\ e0.reg = [r \in Regs |-> 0]
        /\ e0.reg_state = [r \in Regs |-> IF r \in calleeSave THEN "DYNAMIC" ELSE "DEAD"]
    BY DEF resetEmuState
  <2>4. [r \in Regs |-> IF r \in {"DI"} THEN [q \in {"DI"} |-> par][r]
                        ELSE IF r = "SP" THEN StackTop ELSE e0.reg[r]] = rs
    <3> HIDE DEF e0
    <3> QED BY <2>3
  <2>5. [r \in Regs |-> IF r \in {"DI"} THEN [q \in {"DI"} |-> state][r]
                        ELSE IF r = "SP" THEN "STACKRELATIVE" ELSE e0.reg_state[r]] = ss
    <3> HIDE DEF e0
    <3> QED BY <2>3
  <2> HIDE DEF rs, ss, e
  <2>6. e = [e0 EXCEPT !.reg = rs, !.reg_state = ss] BY <2>2, <2>4, <2>5
  <2> QED BY <2>6 DEF resetEmuState
<1>3. rs \in [Regs -> Word] /\ ss \in [Regs -> CaptureState] BY <1>1 DEF CaptureState
<1>4. \A r \in Regs : MeansValue(ss[r], rs[r], m.reg[r])
  <2> TAKE r \in Regs
  <2>1. CASE r = "DI" BY <2>1 DEF MeansValue, csIsStatic
  <2>2. CASE r = "SP"
    <3>1. ss[r] = "STACKRELATIVE" /\ rs[r] = StackTop /\ m.reg[r] = Base BY <2>2
    <3> QED BY <1>1, <3>1 DEF MeansValue, csIsStatic
  <2>3. CASE r \notin {"DI", "SP"}
    <3>1. ss[r] \in {"DYNAMIC", "DEAD"} BY <2>3
    <3> QED BY <3>1, MeansNothing
  <2> QED BY <2>1, <2>2, <2>3
<1> HIDE DEF rs, ss
<1>5. e1 \in EmuState
  <2>1. /\ [f \in FlagType |-> FALSE] \in [FlagType -> BOOLEAN]
        /\ [f \in FlagType |-> "DEAD"] \in [FlagType -> CaptureState]
        /\ [o \in Slots |-> 0] \in [Slots -> Word]
        /\ [o \in Slots |-> "DEAD"] \in [Slots -> CaptureState]
        /\ StackSize \in 0 .. StackSize /\ <<>> \in Seq(Word)
    BY <1>1 DEF CaptureState
  <2> QED BY <1>3, <2>1 DEF EmuState
<1>6. Kept(e1) BY DEF Kept
<1>7. Agrees(e1, m)
  <2>1. StackAgrees(e1, m) BY <1>1 DEF StackAgrees, Slots
  <2> QED BY <1>4, <2>1 DEF Agrees, RegsAgree, DataAgrees
<1>8. FlagsAgree(e1, m, {}) BY DEF FlagsAgree
<1> QED BY <1>2, <1>5, <1>6, <1>7, <1>8 DEF Proper

\* What is known of the parameters when the function is called is so.
LEMMA InitKeeps == Init => KnownInv
<1> SUFFICES ASSUME Init PROVE KnownInv
  OBVIOUS
<1>0. PICK k \in DOMAIN Functions :
        \E par, di \in Functions[k].values, state \in Functions[k].states, x \in Others :
          /\ kind = k
          /\ state # "DYNAMIC" => di = par
          /\ es = withParameters(resetEmuState(StartMemory(0)),
                                 [r \in {"DI"} |-> par], [r \in {"DI"} |-> state])
          /\ orig = [ reg |-> StartRegs(di, x), flag |-> [f \in FlagType |-> FALSE],
                      mem |-> StartMemory(x), vec |-> x ]
          /\ new = orig
          /\ savedState = {}
          /\ status = "running"
          /\ steps = 0
          /\ lost = {} /\ skew = 0
          /\ at = [o \in Slots |-> 0]
  BY Zenon DEF Init
<1>1. PICK par \in Functions[k].values, di \in Functions[k].values,
           state \in Functions[k].states, x \in Others :
        /\ kind = k
        /\ state # "DYNAMIC" => di = par
        /\ es = withParameters(resetEmuState(StartMemory(0)),
                               [r \in {"DI"} |-> par], [r \in {"DI"} |-> state])
        /\ orig = [ reg |-> StartRegs(di, x), flag |-> [f \in FlagType |-> FALSE],
                    mem |-> StartMemory(x), vec |-> x ]
        /\ savedState = {} /\ status = "running" /\ lost = {}
  BY <1>0, Zenon
<1> DEFINE regs == StartRegs(di, x)
           e == withParameters(resetEmuState(StartMemory(0)),
                               [r \in {"DI"} |-> par], [r \in {"DI"} |-> state])
           m == [ reg |-> regs, flag |-> [f \in FlagType |-> FALSE], mem |-> StartMemory(x), vec |-> x ]
<1>2. es = e /\ orig = m /\ kind = k /\ savedState = {} /\ status = "running" /\ lost = {}
  BY <1>1
<1>3. /\ par \in Word /\ di \in Word /\ state \in {"DYNAMIC", "STATIC", "STATIC2"} /\ x \in Word
      /\ Base \in Word /\ Data \subseteq Word
  BY SpecialiseAssumption
<1>4. "DI" \in Regs /\ "SP" \in Regs BY MachineAssumption
<1>5. /\ StartMemory(0) \in [Word -> Word] /\ StartMemory(x) \in [Word -> Word]
      /\ \A v \in Data : StartMemory(0)[v] = StartMemory(x)[v]
  <2>1. \A v \in Word : v % 3 \in Word BY WordFacts
  <2>2. 0 \in Word BY WordFacts
  <2> QED BY <1>3, <2>1, <2>2 DEF StartMemory
<1>6. regs \in [Regs -> Word] /\ regs["DI"] = di /\ regs["SP"] = Base
  BY <1>3, <1>4 DEF StartRegs
<1> HIDE DEF regs
<1>7. m \in Machine /\ m.reg = regs /\ m.mem = StartMemory(x)
  BY <1>3, <1>5, <1>6 DEF Machine, FlagType
<1> HIDE DEF m
<1>8. Proper(e) /\ Agrees(e, m) /\ FlagsAgree(e, m, {})
  BY <1>1, <1>3, <1>5, <1>6, <1>7, StartAgrees
<1> HIDE DEF e
<1> QED BY <1>2, <1>7, <1>8 DEF KnownInv

----------------------------------------------------------------------------
(***************************************************************************)
(* The theorems                                                            *)
(***************************************************************************)
LEMMA NextKeeps == KnownInv /\ [Next]_vars => KnownInv'
<1> SUFFICES ASSUME KnownInv, [Next]_vars PROVE KnownInv'
  OBVIOUS
<1>1. CASE Instruction
  <2>1. PICK i \in Functions[kind].palette, force \in ForceUnknown(es) :
          /\ i.type \notin {"CALL", "RET"}
          /\ Running(i)
          /\ i.type \in DOMAIN CMovFlag => FlagsDefined({CMovFlag[i.type]})
          /\ Execute(i, processInstr(es, i, force))
    BY <1>1, Zenon DEF Instruction
  <2>2. Executable(i) BY <2>1, RunningExecutable
  <2>3. Follows(i, processInstr(es, i, force)) BY <2>1, <2>2, InstructionFollows
  <2> QED BY <2>1, <2>3, ExecuteKeeps
<1>2. CASE Call
  <2>1. PICK i \in Functions[kind].palette :
          /\ i.type = "CALL"
          /\ Running(i)
          /\ getOpValue(es, i.dst).val = MakeStatic => orig.reg["DI"] = es.reg["DI"]
          /\ Execute(i, LET call  == processInstr(es, i, FALSE)
                            known == processKnownTargets(call.es, getOpValue(es, i.dst).val)
                        IN IF call.err = "none" THEN Done(known.es, call.out \o known.out) ELSE call)
    BY <1>2, Zenon DEF Call
  <2>2. Executable(i) BY <2>1, RunningExecutable
  <2>3. processInstr(es, i, FALSE) = emulateCall(es, i) BY <2>1, EmulationOf
  <2>4. Execute(i, CallOutcome(i)) BY <2>1, <2>3, Zenon DEF CallOutcome
  <2>5. Follows(i, CallOutcome(i)) BY <2>1, <2>2, CallFollows
  <2> QED BY <2>4, <2>5, ExecuteKeeps
<1>3. CASE Return
  <2>1. PICK i \in Functions[kind].palette :
          i.type = "RET" /\ Running(i) /\ Execute(i, processInstr(es, i, FALSE))
    BY <1>3, Zenon DEF Return
  <2>2. Executable(i) BY <2>1, RunningExecutable
  <2>3. processInstr(es, i, FALSE) = emulateRet(es) BY <2>1, EmulationOf
  <2>4. Follows(i, processInstr(es, i, FALSE)) BY <2>1, <2>2, <2>3, RetFollows
  <2> QED BY <2>1, <2>4, ExecuteKeeps
<1>4. CASE Branch BY <1>4, BranchKeeps
<1>5. CASE UNCHANGED vars
  BY <1>5 DEF vars, KnownInv, Agrees, RegsAgree, StackAgrees, DataAgrees, FlagsAgree, Proper, Kept
<1> QED BY <1>1, <1>2, <1>3, <1>4, <1>5 DEF Next

\* Whatever a function does and whatever data it is called with: states of the emulator
\* are proper ones, and the one that goes with the function agrees with it.
THEOREM KnownInvHolds == Spec => []KnownInv
<1> QED BY InitKeeps, NextKeeps, PTL DEF Spec

\* What the emulator takes as known (getOpValue, combineState, the setFlags functions
\* and the cases of processInstr) has that value whenever the function runs.
THEOREM KnownIsRight == Spec => []KnownAgrees
<1>1. KnownInv => KnownAgrees
  <2> SUFFICES ASSUME KnownInv, status = "running" PROVE KnownAgrees
    BY DEF KnownAgrees
  <2>1. Agrees(es, orig) /\ FlagsAgree(es, orig, lost) BY DEF KnownInv
  <2> QED BY <2>1 DEF KnownAgrees, Live, Agrees, RegsAgree, StackAgrees, FlagsAgree
<1> QED BY <1>1, KnownInvHolds, PTL

JumpTypes == {"JO", "JNO", "JC", "JNC", "JZ", "JNZ", "JS", "JNS", "JP", "JNP", "JBE", "JA", "JL", "JGE"}

\* Conditional jumps on known flags are followed while rewriting (processInstr): the
\* function goes the same way.  Not so for JLE and JG, which are taken to look at the
\* zero and sign flags only.
JumpsAgree ==
  status = "running" =>
    \A t \in JumpTypes :
      FlagsDefined(FlagsOfJcc(t)) /\ ~JccUnknown(es, t) => (Taken(t, orig.flag) <=> JccTaken(es, t))

\* Jumps on flags the emulator knows go the way the function goes.
THEOREM KnownJumpsAreRight == Spec => []JumpsAgree
<1>1. ASSUME KnownInv, status = "running", NEW t \in JumpTypes,
             FlagsDefined(FlagsOfJcc(t)), ~JccUnknown(es, t)
      PROVE  Taken(t, orig.flag) <=> JccTaken(es, t)
  <2>1. /\ Proper(es) /\ orig \in Machine /\ FlagsAgree(es, orig, lost)
    BY <1>1 DEF KnownInv
  <2>2. FlagsOfJcc(t) = JccFlags(t) /\ JccFlags(t) \subseteq FlagType
    BY DEF FlagsOfJcc, JumpTypes, JccFlags, FlagType
  <2>3. \A f \in JccFlags(t) : es.flag_state[f] = "STATIC" /\ f \notin lost
    BY <1>1, <2>1, <2>2 DEF FlagsDefined, JccUnknown, Proper, Kept
  <2>4. \A f \in JccFlags(t) : es.flag[f] = orig.flag[f] /\ orig.flag[f] \in BOOLEAN
    BY <2>1, <2>2, <2>3, MachineFields DEF FlagsAgree
  <2>5. CASE t \in {"JO", "JC", "JZ", "JS", "JP"} BY <2>4, <2>5 DEF Taken, JccTaken, JccFlags
  <2>6. CASE t \in {"JNO", "JNC", "JNZ", "JNS", "JNP"} BY <2>4, <2>6 DEF Taken, JccTaken, JccFlags
  <2>7. CASE t \in {"JBE", "JA"} BY <2>4, <2>7 DEF Taken, JccTaken, JccFlags
  <2>8. CASE t = "JL" BY <2>4, <2>8 DEF Taken, JccTaken, JccFlags
  <2>9. CASE t = "JGE" BY <2>4, <2>9 DEF Taken, JccTaken, JccFlags
  <2> QED BY <2>5, <2>6, <2>7, <2>8, <2>9 DEF JumpTypes
<1>2. KnownInv => JumpsAgree
  <2> HIDE DEF KnownInv
  <2> QED BY <1>1 DEF JumpsAgree
<1> QED BY <1>2, KnownInvHolds, PTL
=============================================================================
