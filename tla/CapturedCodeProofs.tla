------------------------- MODULE CapturedCodeProofs -------------------------
(***************************************************************************)
(* Proofs about Specialise, for all functions, widths of words, sizes of   *)
(* the stack, and data: what the emulator does not know is computed by the *)
(* code it captures, and that code returns what the function returns.      *)
(***************************************************************************)
EXTENDS SpecialiseProofs

\* Sequences of up to four instructions.
LEMMA ExecAllFour ==
  ASSUME NEW m, NEW s, NEW n \in 0 .. 4, Len(s) = n
  PROVE  /\ n = 0 => ExecAll(m, s) = m
         /\ n = 1 => ExecAll(m, s) = Exec(m, s[1])
         /\ n = 2 => ExecAll(m, s) = Exec(Exec(m, s[1]), s[2])
         /\ n = 3 => ExecAll(m, s) = Exec(Exec(Exec(m, s[1]), s[2]), s[3])
         /\ n = 4 => ExecAll(m, s) = Exec(Exec(Exec(Exec(m, s[1]), s[2]), s[3]), s[4])
<1> DEFINE m1 == Exec(m, s[1])
           m2 == Exec(m1, s[2])
           m3 == Exec(m2, s[3])
           m4 == Exec(m3, s[4])
           g  == [k \in 0 .. n |-> IF k = 0 THEN m ELSE IF k = 1 THEN m1 ELSE IF k = 2 THEN m2
                                   ELSE IF k = 3 THEN m3 ELSE m4]
           After(f) == f = [k \in 0 .. Len(s) |-> IF k = 0 THEN m ELSE Exec(f[k - 1], s[k])]
           h  == CHOOSE f : After(f)
<1>1. ExecAll(m, s) = h[Len(s)] BY DEF ExecAll
<1>2. After(g)
  <2>1. ASSUME NEW k \in 0 .. n PROVE g[k] = IF k = 0 THEN m ELSE Exec(g[k - 1], s[k])
    <3>1. k \in {0, 1, 2, 3, 4} OBVIOUS
    <3>2. CASE k = 0 BY <3>2
    <3>3. CASE k = 1
      <4>1. k - 1 = 0 /\ k - 1 \in 0 .. n BY <3>3
      <4>2. g[k - 1] = m /\ g[k] = m1 BY <3>3, <4>1
      <4> QED BY <3>3, <4>2
    <3>4. CASE k = 2
      <4>1. k - 1 = 1 /\ k - 1 \in 0 .. n BY <3>4
      <4>2. g[k - 1] = m1 /\ g[k] = m2 BY <3>4, <4>1
      <4> QED BY <3>4, <4>2
    <3>5. CASE k = 3
      <4>1. k - 1 = 2 /\ k - 1 \in 0 .. n BY <3>5
      <4>2. g[k - 1] = m2 /\ g[k] = m3 BY <3>5, <4>1
      <4> QED BY <3>5, <4>2
    <3>6. CASE k = 4
      <4>1. k - 1 = 3 /\ k - 1 \in 0 .. n BY <3>6
      <4>2. g[k - 1] = m3 /\ g[k] = m4 BY <3>6, <4>1
      <4> QED BY <3>6, <4>2
    <3> QED BY <3>1, <3>2, <3>3, <3>4, <3>5, <3>6
  <2>2. g = [k \in 0 .. n |-> g[k]] OBVIOUS
  <2> HIDE DEF g
  <2> QED BY <2>1, <2>2
<1> HIDE DEF g
<1>3. After(h)
  <2> HIDE DEF After
  <2> QED BY <1>2
<1> HIDE DEF h
<1>4. \A k \in 0 .. n : h[k] = IF k = 0 THEN m ELSE Exec(h[k - 1], s[k]) BY <1>3
<1>5. h[0] = m BY <1>4
<1>6. n >= 1 => h[1] = m1
  <2>1. n >= 1 => h[1] = Exec(h[1 - 1], s[1]) BY <1>4
  <2> QED BY <1>5, <2>1
<1>7. n >= 2 => h[2] = m2
  <2>1. n >= 2 => h[2] = Exec(h[2 - 1], s[2]) BY <1>4
  <2> QED BY <1>6, <2>1
<1>8. n >= 3 => h[3] = m3
  <2>1. n >= 3 => h[3] = Exec(h[3 - 1], s[3]) BY <1>4
  <2> QED BY <1>7, <2>1
<1>9. n >= 4 => h[4] = m4
  <2>1. n >= 4 => h[4] = Exec(h[4 - 1], s[4]) BY <1>4
  <2> QED BY <1>8, <2>1
<1> QED BY <1>1, <1>5, <1>6, <1>7, <1>8, <1>9

\* The same for sequences that are written down.
LEMMA ExecAllOf ==
  ASSUME NEW m
  PROVE  /\ ExecAll(m, <<>>) = m
         /\ \A a : ExecAll(m, << a >>) = Exec(m, a)
         /\ \A a, b : ExecAll(m, << a, b >>) = Exec(Exec(m, a), b)
         /\ \A a, b, c : ExecAll(m, << a, b, c >>) = Exec(Exec(Exec(m, a), b), c)
         /\ \A a, b, c, d : ExecAll(m, << a, b, c, d >>) = Exec(Exec(Exec(Exec(m, a), b), c), d)
<1>1. ExecAll(m, <<>>) = m
  <2>1. Len(<<>>) = 0 OBVIOUS
  <2> QED BY <2>1, ExecAllFour
<1>2. ASSUME NEW a PROVE ExecAll(m, << a >>) = Exec(m, a)
  <2> DEFINE s == << a >>
  <2>1. Len(s) = 1 /\ s[1] = a OBVIOUS
  <2> HIDE DEF s
  <2>2. ExecAll(m, s) = Exec(m, a) BY <2>1, ExecAllFour
  <2> QED BY <2>2 DEF s
<1>3. ASSUME NEW a, NEW b PROVE ExecAll(m, << a, b >>) = Exec(Exec(m, a), b)
  <2> DEFINE s == << a, b >>
  <2>1. Len(s) = 2 /\ s[1] = a /\ s[2] = b OBVIOUS
  <2> HIDE DEF s
  <2>2. ExecAll(m, s) = Exec(Exec(m, a), b) BY <2>1, ExecAllFour
  <2> QED BY <2>2 DEF s
<1>4. ASSUME NEW a, NEW b, NEW c PROVE ExecAll(m, << a, b, c >>) = Exec(Exec(Exec(m, a), b), c)
  <2> DEFINE s == << a, b, c >>
  <2>1. Len(s) = 3 /\ s[1] = a /\ s[2] = b /\ s[3] = c OBVIOUS
  <2> HIDE DEF s
  <2>2. ExecAll(m, s) = Exec(Exec(Exec(m, a), b), c) BY <2>1, ExecAllFour
  <2> QED BY <2>2 DEF s
<1>5. ASSUME NEW a, NEW b, NEW c, NEW d
      PROVE  ExecAll(m, << a, b, c, d >>) = Exec(Exec(Exec(Exec(m, a), b), c), d)
  <2> DEFINE s == << a, b, c, d >>
  <2>1. Len(s) = 4 /\ s[1] = a /\ s[2] = b /\ s[3] = c /\ s[4] = d OBVIOUS
  <2> HIDE DEF s
  <2>2. ExecAll(m, s) = Exec(Exec(Exec(Exec(m, a), b), c), d) BY <2>1, ExecAllFour
  <2> QED BY <2>2 DEF s
<1> QED BY <1>1, <1>2, <1>3, <1>4, <1>5

----------------------------------------------------------------------------
(***************************************************************************)
(* What the captured code computes.  Machine k executes it, with a stack   *)
(* pointer that is off by sk, and values on the stack that are off by a.   *)
(***************************************************************************)
PlaceOf(a, o) == Mask(SlotAddr(o) + a[o])

RegsComputed(e, m, k, sk) ==
  /\ \A r \in Regs \ {"SP"} : Unknown(e.reg_state[r]) => k.reg[r] = m.reg[r]
  /\ Unknown(e.reg_state["SP"]) => k.reg["SP"] = Mask(m.reg["SP"] + sk)

StackComputed(e, m, k, a) ==
  \A o \in Slots : Unknown(e.stackState[o]) /\ a[o] # Gone =>
    k.mem[PlaceOf(a, o)] = m.mem[SlotAddr(o)]

OthersComputed(m, k) ==
  k.vec = m.vec /\ \A v \in Heap \cup Data : k.mem[v] = m.mem[v]

Computed(e, m, k, sk, a) ==
  RegsComputed(e, m, k, sk) /\ StackComputed(e, m, k, a) /\ OthersComputed(m, k)

\* If one flag is unknown, the known ones have been computed together with it.
UnknownFlags(e, L) == { f \in FlagType \ L : e.flag_state[f] = "DYNAMIC" }

FlagsCaptured(e, m, k, L) ==
  UnknownFlags(e, L) # {} =>
    \A f \in FlagType \ L : e.flag_state[f] # "DEAD" => k.flag[f] = m.flag[f]

\* Values pushed, from the last one in slot p to the first one in slot q that is known:
\* each is off by the number of known ones pushed before it.
KnownIn(e, o) == IF csIsStatic(e.stackState[o]) THEN 1 ELSE 0

Frame(e, p, q, sk, a) ==
  /\ p <= q /\ a[q] = 0 /\ KnownIn(e, q) = 1
  /\ sk = a[p] + KnownIn(e, p)
  /\ \A o \in p .. q : a[o] \in Nat /\ (o < q => a[o] >= 1 /\ a[o] = a[o + 1] + KnownIn(e, o + 1))
  /\ \A o1, o2 \in p .. q : o1 < o2 =>
       a[o2] <= a[o1] /\ a[o1] - a[o2] <= (o2 - o1) - 1 + KnownIn(e, o2)
  /\ \A o \in Slots : q < o /\ Unknown(e.stackState[o]) => a[o] = 0

InPlace(e, m, a) ==
  \A o \in Slots : Unknown(e.stackState[o]) /\ SlotAddr(o) >= m.reg["SP"] => a[o] = 0

InOrder(e, m, sk, a) ==
  \/ sk = 0 /\ InPlace(e, m, a)
  \/ sk \in Nat \ {0} /\ \E p, q \in Slots : m.reg["SP"] = SlotAddr(p) /\ Frame(e, p, q, sk, a)

\* Slots are next to each other, and so few that sums do not overflow.
LEMMA SlotPlaces ==
  /\ \A o \in Slots : SlotAddr(o) = Base - StackSize + o /\ o \in Nat /\ o < StackSize
  /\ Base < 2 ^ W /\ StackSize < 2 ^ W /\ Gone = 2 ^ W
  /\ \A o \in Slots : Mask(SlotAddr(o) + 0) = SlotAddr(o)
<1>1. /\ Base \in Nat /\ StackSize \in Nat /\ Base >= StackSize /\ Base < 2 ^ W /\ 2 ^ W \in Nat
  BY StackFacts, WordFacts
<1>2. \A o \in Slots : SlotAddr(o) = Base - StackSize + o /\ o \in Nat /\ o < StackSize
  BY <1>1 DEF SlotAddr, Slots
<1>3. \A o \in Slots : Mask(SlotAddr(o) + 0) = SlotAddr(o)
  <2> SUFFICES ASSUME NEW o \in Slots PROVE Mask(SlotAddr(o) + 0) = SlotAddr(o)
    OBVIOUS
  <2>1. SlotAddr(o) \in Word /\ SlotAddr(o) + 0 = SlotAddr(o) BY StackFacts, WordFacts
  <2> QED BY <2>1, MaskFacts
<1> QED BY <1>1, <1>2, <1>3 DEF Gone

\* Values on the stack that are not below the stack pointer are in other slots, all of
\* them different.
LEMMA InOrderPlaces ==
  ASSUME NEW e, NEW m, NEW sk, NEW a, InOrder(e, m, sk, a), NEW o \in Slots,
         Unknown(e.stackState[o]), SlotAddr(o) >= m.reg["SP"]
  PROVE  /\ a[o] \in Nat /\ a[o] # Gone /\ (sk = 0 => a[o] = 0)
         /\ o + a[o] \in Slots /\ PlaceOf(a, o) = SlotAddr(o + a[o])
<1>1. a[o] \in Nat /\ (sk = 0 => a[o] = 0) /\ o + a[o] < StackSize
  <2>1. CASE sk = 0 /\ InPlace(e, m, a)
    <3>1. a[o] = 0 BY <2>1 DEF InPlace
    <3> QED BY <3>1, SlotPlaces
  <2>2. CASE sk \in Nat \ {0} /\ \E p, q \in Slots : m.reg["SP"] = SlotAddr(p) /\ Frame(e, p, q, sk, a)
    <3>1. PICK p \in Slots, q \in Slots : m.reg["SP"] = SlotAddr(p) /\ Frame(e, p, q, sk, a)
      BY <2>2
    <3>2. /\ p \in Int /\ q \in Int /\ o \in Int /\ 0 <= q /\ q < StackSize /\ 0 <= p
          /\ o < StackSize /\ p <= o /\ StackSize \in Int
      BY <3>1, SlotPlaces, StackFacts, WordFacts
    <3>3. CASE q < o
      <4>1. a[o] = 0 BY <3>1, <3>3 DEF Frame
      <4> QED BY <2>2, <3>2, <4>1
    <3>4. CASE o = q
      <4>1. a[o] = 0 BY <3>1, <3>4 DEF Frame
      <4> QED BY <2>2, <3>2, <4>1
    <3>5. CASE o < q
      <4>1. o \in p .. q /\ q \in p .. q BY <3>2, <3>5
      <4>2. a[o] - a[q] <= (q - o) - 1 + KnownIn(e, q) /\ a[q] = 0 /\ KnownIn(e, q) = 1 /\ a[o] \in Nat
        BY <3>1, <3>5, <4>1 DEF Frame
      <4> QED BY <2>2, <3>2, <4>2
    <3> QED BY <3>2, <3>3, <3>4, <3>5
  <2> QED BY <2>1, <2>2 DEF InOrder
<1>2. o + a[o] \in Slots /\ a[o] # Gone BY <1>1, SlotPlaces, StackFacts DEF Slots
<1>3. SlotAddr(o) + a[o] = SlotAddr(o + a[o])
  BY <1>1, StackFacts, WordFacts, SlotPlaces DEF SlotAddr
<1>4. Mask(SlotAddr(o + a[o])) = SlotAddr(o + a[o]) BY <1>2, StackFacts, MaskFacts
<1> QED BY <1>1, <1>2, <1>3, <1>4 DEF PlaceOf

----------------------------------------------------------------------------
(***************************************************************************)
(* Operands, as they are captured.                                         *)
(***************************************************************************)
\* Known registers of an address become part of its offset (applyStaticToInd).
LEMMA AppliedOperand ==
  ASSUME NEW e, e \in EmuState, NEW o, o \in Operand
  PROVE  LET c == applyStaticToInd(e, o)
         IN /\ c \in Operand /\ c.kind = o.kind
            /\ o.kind # "Ind" => c = o
            /\ o.kind = "Ind" =>
                 /\ c.val = Mask(o.val + (IF o.reg # "None" /\ csIsStatic(e.reg_state[o.reg]) THEN e.reg[o.reg] ELSE 0)
                                       + (IF o.ireg # "None" /\ csIsStatic(e.reg_state[o.ireg]) THEN e.reg[o.ireg] ELSE 0))
                 /\ c.reg = IF o.reg # "None" /\ csIsStatic(e.reg_state[o.reg]) THEN "None" ELSE o.reg
                 /\ c.ireg = IF o.ireg # "None" /\ csIsStatic(e.reg_state[o.ireg]) THEN "None" ELSE o.ireg
            /\ o.kind = "Ind" /\ (\A r \in {o.reg, o.ireg} \ {"None"} : ~csIsStatic(e.reg_state[r])) => c = o
<1> DEFINE c == applyStaticToInd(e, o)
           v1 == IF o.reg # "None" /\ csIsStatic(e.reg_state[o.reg]) THEN e.reg[o.reg] ELSE 0
           v2 == IF o.ireg # "None" /\ csIsStatic(e.reg_state[o.ireg]) THEN e.reg[o.ireg] ELSE 0
           r1 == IF o.reg # "None" /\ csIsStatic(e.reg_state[o.reg]) THEN "None" ELSE o.reg
           r2 == IF o.ireg # "None" /\ csIsStatic(e.reg_state[o.ireg]) THEN "None" ELSE o.ireg
<1>1. CASE o.kind # "Ind"
  <2>1. c = o BY <1>1 DEF applyStaticToInd
  <2> QED BY <1>1, <2>1
<1>2. CASE o.kind = "Ind"
  <2>1. c = [ kind |-> "Ind", val |-> Mask(o.val + v1 + v2), reg |-> r1, ireg |-> r2 ]
    BY <1>2 DEF applyStaticToInd, Ind
  <2>2. o.val \in Word /\ o.reg \in Regs \cup {"None"} /\ o.ireg \in Regs \cup {"None"}
    BY <1>2, OperandFields
  <2>3. v1 \in Word /\ v2 \in Word
    <3>1. 0 \in Word BY WordFacts
    <3> QED BY <2>2, <3>1, EmuFields
  <2>4. r1 \in Regs \cup {"None"} /\ r2 \in Regs \cup {"None"} BY <2>2
  <2>5. o.val + v1 + v2 \in Int BY <2>2, <2>3, WordFacts
  <2>6. ASSUME \A r \in {o.reg, o.ireg} \ {"None"} : ~csIsStatic(e.reg_state[r]) PROVE c = o
    <3>1. v1 = 0 /\ v2 = 0 /\ r1 = o.reg /\ r2 = o.ireg BY <2>6
    <3>2. o \in [ kind : {"Ind"}, val : Word, reg : Regs \cup {"None"}, ireg : Regs \cup {"None"} ]
      <4>1. NoOp.kind = "None" BY DEF NoOp
      <4>2. \A v \in Word : Imm(v).kind = "Imm" BY DEF Imm, NoOp
      <4>3. \A r \in Regs : RegOp(r).kind = "Reg" BY DEF RegOp, NoOp
      <4>4. o # NoOp /\ (\A v \in Word : o # Imm(v)) /\ (\A r \in Regs : o # RegOp(r))
        BY <1>2, <4>1, <4>2, <4>3
      <4> QED BY <4>4 DEF Operand
    <3>3. o = [ kind |-> "Ind", val |-> o.val, reg |-> o.reg, ireg |-> o.ireg ] BY <3>2
    <3> HIDE DEF v1, v2, r1, r2, c
    <3>4. o.val + v1 + v2 = o.val BY <2>2, <3>1, WordFacts
    <3>5. Mask(o.val) = o.val BY <2>2, MaskFacts
    <3> QED BY <2>1, <3>1, <3>3, <3>4, <3>5
  <2> HIDE DEF v1, v2, r1, r2, c
  <2>7. c.val = Mask(o.val + v1 + v2) /\ c.reg = r1 /\ c.ireg = r2 /\ c.kind = "Ind" BY <2>1
  <2>8. Mask(o.val + v1 + v2) \in Word BY <2>5, MaskFacts
  <2>9. c \in Operand BY <2>1, <2>4, <2>8 DEF Operand
  <2> QED BY <1>2, <2>6, <2>7, <2>9 DEF v1, v2, r1, r2, c
<1> QED BY <1>1, <1>2

\* Where registers that are not known have been computed, so has the address.
LEMMA AddrComputed ==
  ASSUME NEW e, NEW m, NEW k, e \in EmuState, m \in Machine, k \in Machine, RegsAgree(e, m),
         NEW o, o \in Operand, o.kind = "Ind",
         \A r \in {o.reg, o.ireg} \ {"None"} : ~csIsStatic(e.reg_state[r]) => k.reg[r] = m.reg[r]
  PROVE  AddrOf(k, applyStaticToInd(e, o)) = AddrOf(m, o)
<1> DEFINE c == applyStaticToInd(e, o)
           v1 == IF o.reg # "None" /\ csIsStatic(e.reg_state[o.reg]) THEN e.reg[o.reg] ELSE 0
           v2 == IF o.ireg # "None" /\ csIsStatic(e.reg_state[o.ireg]) THEN e.reg[o.ireg] ELSE 0
           w1 == RegOr0(k.reg, c.reg)
           w2 == RegOr0(k.reg, c.ireg)
           x1 == RegOr0(m.reg, o.reg)
           x2 == RegOr0(m.reg, o.ireg)
<1>1. o.val \in Word /\ o.reg \in Regs \cup {"None"} /\ o.ireg \in Regs \cup {"None"}
  BY OperandFields
<1>2. /\ c.val = Mask(o.val + v1 + v2)
      /\ c.reg = IF o.reg # "None" /\ csIsStatic(e.reg_state[o.reg]) THEN "None" ELSE o.reg
      /\ c.ireg = IF o.ireg # "None" /\ csIsStatic(e.reg_state[o.ireg]) THEN "None" ELSE o.ireg
  BY AppliedOperand
<1> HIDE DEF c
<1>3. ASSUME NEW r \in Regs PROVE e.reg[r] \in Word /\ k.reg[r] \in Word /\ m.reg[r] \in Word
                                  /\ (csIsStatic(e.reg_state[r]) => m.reg[r] = e.reg[r])
  BY EmuFields, MachineFields DEF RegsAgree, MeansValue
<1>4. /\ v1 \in Int /\ w1 \in Int /\ x1 \in Int /\ v1 + w1 = x1
  <2>1. CASE o.reg = "None"
    <3>1. v1 = 0 /\ w1 = 0 /\ x1 = 0 BY <1>2, <2>1 DEF RegOr0
    <3> QED BY <3>1
  <2>2. CASE o.reg \in Regs /\ o.reg # "None" /\ csIsStatic(e.reg_state[o.reg])
    <3>1. v1 = e.reg[o.reg] /\ w1 = 0 /\ x1 = m.reg[o.reg] BY <1>2, <2>2 DEF RegOr0
    <3>2. e.reg[o.reg] \in Int /\ e.reg[o.reg] = m.reg[o.reg] BY <1>3, <2>2, WordFacts
    <3> QED BY <3>1, <3>2
  <2>3. CASE o.reg \in Regs /\ o.reg # "None" /\ ~csIsStatic(e.reg_state[o.reg])
    <3>1. v1 = 0 /\ w1 = k.reg[o.reg] /\ x1 = m.reg[o.reg] BY <1>2, <2>3 DEF RegOr0
    <3>2. k.reg[o.reg] \in Int /\ k.reg[o.reg] = m.reg[o.reg] BY <1>3, <2>3, WordFacts
    <3> QED BY <3>1, <3>2
  <2> QED BY <1>1, <2>1, <2>2, <2>3
<1>5. /\ v2 \in Int /\ w2 \in Int /\ x2 \in Int /\ v2 + w2 = x2
  <2>1. CASE o.ireg = "None"
    <3>1. v2 = 0 /\ w2 = 0 /\ x2 = 0 BY <1>2, <2>1 DEF RegOr0
    <3> QED BY <3>1
  <2>2. CASE o.ireg \in Regs /\ o.ireg # "None" /\ csIsStatic(e.reg_state[o.ireg])
    <3>1. v2 = e.reg[o.ireg] /\ w2 = 0 /\ x2 = m.reg[o.ireg] BY <1>2, <2>2 DEF RegOr0
    <3>2. e.reg[o.ireg] \in Int /\ e.reg[o.ireg] = m.reg[o.ireg] BY <1>3, <2>2, WordFacts
    <3> QED BY <3>1, <3>2
  <2>3. CASE o.ireg \in Regs /\ o.ireg # "None" /\ ~csIsStatic(e.reg_state[o.ireg])
    <3>1. v2 = 0 /\ w2 = k.reg[o.ireg] /\ x2 = m.reg[o.ireg] BY <1>2, <2>3 DEF RegOr0
    <3>2. k.reg[o.ireg] \in Int /\ k.reg[o.ireg] = m.reg[o.ireg] BY <1>3, <2>3, WordFacts
    <3> QED BY <3>1, <3>2
  <2> QED BY <1>1, <2>1, <2>2, <2>3
<1>6. AddrOf(k, c) = Mask(c.val + w1 + w2) /\ AddrOf(m, o) = Mask(o.val + x1 + x2) BY DEF AddrOf
<1> HIDE DEF v1, v2, w1, w2, x1, x2
<1>7. o.val \in Int /\ o.val + v1 + v2 \in Int /\ w1 + w2 \in Int BY <1>1, <1>4, <1>5, WordFacts
<1>8. c.val \in Int
  <2>1. Mask(o.val + v1 + v2) \in Word BY <1>7, MaskFacts
  <2> QED BY <1>2, <2>1, WordFacts DEF v1, v2
<1>9. c.val + w1 + w2 = Mask(o.val + v1 + v2) + (w1 + w2) BY <1>2, <1>4, <1>5, <1>8
<1>10. Mask(Mask(o.val + v1 + v2) + (w1 + w2)) = Mask((o.val + v1 + v2) + (w1 + w2))
  BY <1>7, MaskFacts
<1>11. (o.val + v1 + v2) + (w1 + w2) = o.val + x1 + x2 BY <1>4, <1>5, <1>7
<1> QED BY <1>6, <1>9, <1>10, <1>11 DEF c

\* The two executions before the next instruction.
Captured ==
  /\ new \in Machine /\ at \in [Slots -> Int] /\ lost \subseteq FlagType
  /\ Computed(es, orig, new, skew, at) /\ InOrder(es, orig, skew, at)
  /\ FlagsCaptured(es, orig, new, lost)

Ready(i) == Executable(i) /\ Defined(i) /\ Captured

\* The machine that executes captured code, after known values have been loaded.
Loaded(n) ==
  /\ n \in Machine /\ n.flag = new.flag /\ n.vec = new.vec
  /\ \A r \in Regs : Unknown(es.reg_state[r]) => n.reg[r] = new.reg[r]
  /\ \A v \in Heap \cup Data : n.mem[v] = new.mem[v]
  /\ \A o \in Slots : n.mem[SlotAddr(o)] # new.mem[SlotAddr(o)] => skew = 0 /\ ~Unknown(es.stackState[o])

\* Before any value is loaded.
LEMMA NothingLoaded == Captured => Loaded(new)
  BY DEF Captured, Loaded

\* An address is dead if one of its registers is.
LEMMA LiveAddress ==
  ASSUME NEW e, e \in EmuState, NEW o, o \in Operand, o.kind = "Ind", getOpAddr(e, o).state # "DEAD"
  PROVE  \A r \in {o.reg, o.ireg} \ {"None"} : e.reg_state[r] # "DEAD"
<1> DEFINE v0 == EmuValue(o.val, "STATIC")
           v1 == addRegToValue(v0, e, o.reg)
<1>1. \A s1, s2 : s1 = "DEAD" \/ s2 = "DEAD" => combineState(s1, s2, FALSE) = "DEAD"
  BY DEF combineState
<1>2. getOpAddr(e, o) = addRegToValue(v1, e, o.ireg) BY DEF getOpAddr
<1>3. o.reg # "None" => v1.state = combineState(v0.state, e.reg_state[o.reg], FALSE)
  BY DEF addRegToValue, EmuValue
<1> HIDE DEF v1
<1>4. o.ireg # "None" => getOpAddr(e, o).state = combineState(v1.state, e.reg_state[o.ireg], FALSE)
  BY <1>2 DEF addRegToValue, EmuValue
<1>5. o.ireg = "None" => getOpAddr(e, o) = v1 BY <1>2 DEF addRegToValue
<1> QED BY <1>1, <1>3, <1>4, <1>5

\* What is and what is not known.
LEMMA UnknownStates ==
  ASSUME NEW s \in CaptureState
  PROVE  Unknown(s) <=> s # "DEAD" /\ ~csIsStatic(s)
  BY DEF CaptureState, Unknown, csIsStatic

\* Registers an instruction uses.
LEMMA RegOperand ==
  ASSUME NEW i, Ready(i), NEW r \in Regs, Mentions(i, r)
  PROVE  /\ Unknown(es.reg_state[r]) => new.reg[r] = orig.reg[r]
         /\ r = "SP" => skew = 0
<1>1. r = "SP" => skew = 0
  BY DEF Ready, Executable, WithinLimits, StackLimit
<1>2. orig.reg[r] \in Word BY MachineFields DEF Ready, Executable
<1>3. CASE r # "SP" BY <1>3 DEF Ready, Captured, Computed, RegsComputed
<1>4. CASE r = "SP"
  <2>1. orig.reg["SP"] + 0 = orig.reg["SP"] BY <1>2, <1>4, WordFacts
  <2>2. Mask(orig.reg["SP"] + 0) = orig.reg["SP"] BY <1>2, <1>4, <2>1, MaskFacts
  <2>3. Unknown(es.reg_state[r]) => new.reg["SP"] = Mask(orig.reg["SP"] + skew)
    BY <1>4 DEF Ready, Captured, Computed, RegsComputed
  <2> QED BY <1>1, <1>4, <2>2, <2>3
<1> QED BY <1>1, <1>3, <1>4

\* Addresses of operands, as captured.
LEMMA AddrOperand ==
  ASSUME NEW i, Ready(i), NEW o \in Operands(i), o.kind = "Ind", NEW n, Loaded(n)
  PROVE  AddrOf(n, applyStaticToInd(es, o)) = AddrOf(orig, o)
<1>1. /\ es \in EmuState /\ orig \in Machine /\ RegsAgree(es, orig) /\ n \in Machine
      /\ o \in Operand
  BY ExecutableFacts DEF Ready, Operands, Loaded
<1>2. \A r \in {o.reg, o.ireg} \ {"None"} : r \in Regs /\ Mentions(i, r)
  BY <1>1, OperandFields DEF Mentions
<1>3. getOpAddr(es, o).state # "DEAD" BY DEF Ready, Defined
<1>4. ASSUME NEW r \in {o.reg, o.ireg} \ {"None"}, ~csIsStatic(es.reg_state[r])
      PROVE  n.reg[r] = orig.reg[r]
  <2>1. es.reg_state[r] \in CaptureState BY <1>1, <1>2, EmuFields
  <2>2. es.reg_state[r] # "DEAD" BY <1>1, <1>3, LiveAddress
  <2>3. Unknown(es.reg_state[r]) BY <1>4, <2>1, <2>2, UnknownStates
  <2>4. n.reg[r] = new.reg[r] BY <1>2, <2>3 DEF Loaded
  <2> QED BY <1>2, <2>3, <2>4, RegOperand
<1> QED BY <1>1, <1>4, AddrComputed

\* Memory an instruction accesses.
LEMMA MemOperand ==
  ASSUME NEW i, Ready(i), NEW o \in MemOps(i)
  PROVE  LET y == AddrOf(orig, o)
             s == Offset(getOpAddr(es, o))
         IN /\ y \in Word
            /\ ~IsStackOp(o) => y \in Heap \cup Data /\ y \notin StackAddrs /\ new.mem[y] = orig.mem[y]
            /\ IsStackOp(o) => /\ skew = 0 /\ s \in Slots /\ at[s] = 0 /\ y = SlotAddr(s)
                               /\ y \notin Heap \cup Data
                               /\ getOpValue(es, o).state = es.stackState[s]
                               /\ Unknown(es.stackState[s]) => new.mem[y] = orig.mem[y]
<1> DEFINE a == getOpAddr(es, o)
           y == AddrOf(orig, o)
           s == Offset(a)
<1>1. /\ es \in EmuState /\ orig \in Machine /\ RegsAgree(es, orig) /\ o \in Operand /\ Proper(es)
      /\ o.kind = "Ind" /\ i.type # "LEA" /\ o \in {i.dst, i.src, i.src2}
  BY ExecutableFacts DEF Ready, Operands, MemOps, Executable
<1>2. Means(a, y) BY <1>1, AddrMeans
<1>3. y \in Heap \cup Data \cup StackAddrs
  <2>1. y \in Accessed(orig, i) BY <1>1 DEF Accessed
  <2> QED BY <2>1 DEF Ready, Executable, Accesses
<1>4. IsStackOp(o) <=> y \in StackAddrs BY DEF Ready, Executable, Accesses
<1>5. CASE ~IsStackOp(o)
  <2>1. y \in Heap \cup Data /\ y \notin StackAddrs BY <1>3, <1>4, <1>5
  <2> QED BY <1>2, <1>5, <2>1 DEF Means, Ready, Captured, Computed, OthersComputed
<1>6. CASE IsStackOp(o)
  <2>1. skew = 0 /\ at[s] = 0
    BY <1>6 DEF Ready, Executable, WithinLimits, StackLimit
  <2>2. OnStack(a) /\ a.state = "STACKRELATIVE" BY <1>6 DEF IsStackOp, KnownOffset
  <2> HIDE DEF a, y
  <2>3. s \in Slots /\ y = SlotAddr(s) BY <1>2, <2>2, SlotOf DEF Means
  <2>4. y \notin Heap \cup Data BY <1>4, <1>6, SpecialiseAssumption
  <2>5. getOpValue(es, o).state = es.stackState[s]
    <3>1. getOpValue(es, o).state = getStackState(es, a)
      BY <1>1, <2>2 DEF getOpValue, getMemValue, EmuValue, a
    <3>2. getStackState(es, a) = IF s < es.stackAccessed THEN "DEAD" ELSE es.stackState[s]
      BY <2>2 DEF getStackState, KnownOffset
    <3>3. s < es.stackAccessed => es.stackState[s] = "DEAD" BY <1>1, <2>3 DEF Proper, Kept
    <3> QED BY <3>1, <3>2, <3>3
  <2>6. Unknown(es.stackState[s]) => new.mem[y] = orig.mem[y]
    <3>1. at[s] # Gone /\ PlaceOf(at, s) = SlotAddr(s)
      BY <2>1, <2>3, SlotPlaces, WordFacts DEF PlaceOf
    <3> QED BY <2>3, <3>1 DEF Ready, Captured, Computed, StackComputed
  <2> QED BY <1>2, <1>6, <2>1, <2>3, <2>4, <2>5, <2>6 DEF Means, a, y
<1> QED BY <1>5, <1>6

\* Operands read, as captured: a value the emulator keeps track of must not be known.
LEMMA ReadOperand ==
  ASSUME NEW i, Ready(i), NEW o \in Operands(i), i.type # "LEA", NEW n, Loaded(n),
         getOpValue(es, o).state # "DEAD",
         opStateIsTracked(es, o) => ~IsStatic(getOpValue(es, o))
  PROVE  Value(n, applyStaticToInd(es, o)) = Value(orig, o)
<1> DEFINE c == applyStaticToInd(es, o)
           v == getOpValue(es, o)
<1>1. es \in EmuState /\ orig \in Machine /\ n \in Machine /\ o \in Operand /\ o # NoOp
  BY ExecutableFacts DEF Ready, Operands, Loaded
<1>2. v.state \in CaptureState BY ExecutableFacts DEF Ready, Means
<1>3. c.kind = o.kind /\ (o.kind # "Ind" => c = o) BY <1>1, AppliedOperand
<1> HIDE DEF c
<1>4. CASE o.kind = "Imm" BY <1>3, <1>4 DEF Value, c
<1>5. CASE o.kind = "Reg"
  <2>1. o.reg \in Regs /\ Mentions(i, o.reg) BY <1>1, <1>5, OperandFields DEF Mentions
  <2>2. v.state = es.reg_state[o.reg] BY <1>5 DEF getOpValue, RegValue, EmuValue
  <2>3. Unknown(es.reg_state[o.reg])
    BY <1>2, <1>5, <2>2, UnknownStates DEF opStateIsTracked, IsStatic
  <2>4. new.reg[o.reg] = orig.reg[o.reg] BY <2>1, <2>3, RegOperand
  <2>5. n.reg[o.reg] = new.reg[o.reg] BY <2>1, <2>3 DEF Loaded
  <2> QED BY <1>3, <1>5, <2>4, <2>5 DEF Value, c
<1>6. CASE o.kind = "Ind"
  <2> DEFINE y == AddrOf(orig, o)
  <2>1. o \in MemOps(i) BY <1>6 DEF MemOps
  <2>2. AddrOf(n, c) = y BY <1>6, AddrOperand DEF c
  <2>3. Value(n, c) = n.mem[y] /\ Value(orig, o) = orig.mem[y]
    BY <1>3, <1>6, <2>2 DEF Value
  <2>4. CASE ~IsStackOp(o)
    <3>1. y \in Heap \cup Data /\ new.mem[y] = orig.mem[y] BY <2>1, <2>4, MemOperand
    <3>2. n.mem[y] = new.mem[y] BY <3>1 DEF Loaded
    <3> QED BY <2>3, <3>1, <3>2 DEF c
  <2>5. CASE IsStackOp(o)
    <3> DEFINE s == Offset(getOpAddr(es, o))
    <3>1. opStateIsTracked(es, o) BY <2>5 DEF opStateIsTracked, IsStackOp
    <3>2. Unknown(v.state) BY <1>2, <3>1, UnknownStates DEF IsStatic
    <3>3. /\ s \in Slots /\ y = SlotAddr(s) /\ v.state = es.stackState[s]
          /\ Unknown(es.stackState[s]) => new.mem[y] = orig.mem[y]
      BY <2>1, <2>5, MemOperand
    <3> HIDE DEF y, s, v
    <3>4. n.mem[y] = new.mem[y] BY <3>2, <3>3 DEF Loaded
    <3> QED BY <2>3, <3>2, <3>3, <3>4 DEF c, y
  <2> QED BY <2>4, <2>5
<1> QED BY <1>1, <1>4, <1>5, <1>6, OperandFields

\* Machines that differ in one register, or in one place in memory.
RegDiffers(k, n, r, x) == k.reg[r] = x /\ \A q \in Regs : q # r => k.reg[q] = n.reg[q]
MemDiffers(k, n, y, x) == k.mem[y] = x /\ \A a \in Word : a # y => k.mem[a] = n.mem[a]

\* Writing an operand.
LEMMA WriteFields ==
  ASSUME NEW m, m \in Machine, NEW o, o \in Operand, o.kind \in {"Reg", "Ind"}, NEW x \in Word
  PROVE  /\ Write(m, o, x) \in Machine /\ Write(m, o, x).flag = m.flag /\ Write(m, o, x).vec = m.vec
         /\ Value(Write(m, o, x), o) = x
         /\ o.kind = "Reg" => RegDiffers(Write(m, o, x), m, o.reg, x) /\ Write(m, o, x).mem = m.mem
         /\ o.kind = "Ind" => MemDiffers(Write(m, o, x), m, AddrOf(m, o), x) /\ Write(m, o, x).reg = m.reg
<1> DEFINE n == Write(m, o, x)
<1>1. CASE o.kind = "Reg"
  <2>1. o.reg \in Regs BY <1>1, OperandFields
  <2>2. n = [m EXCEPT !.reg[o.reg] = x] BY <1>1 DEF Write
  <2> HIDE DEF n
  <2>3. /\ n \in Machine /\ n.flag = m.flag /\ n.vec = m.vec
        /\ n.reg = [m.reg EXCEPT ![o.reg] = x] /\ n.mem = m.mem
    BY <2>1, <2>2 DEF Machine
  <2>4. n.reg[o.reg] = x BY <2>1, <2>3 DEF Machine
  <2>5. RegDiffers(n, m, o.reg, x) BY <2>1, <2>3 DEF Machine, RegDiffers
  <2> QED BY <1>1, <2>3, <2>4, <2>5 DEF Value, n
<1>2. CASE o.kind = "Ind"
  <2>1. AddrOf(m, o) \in Word
    <3>1. o.val \in Word /\ o.reg \in Regs \cup {"None"} /\ o.ireg \in Regs \cup {"None"}
      BY <1>2, OperandFields
    <3>2. RegOr0(m.reg, o.reg) \in Int /\ RegOr0(m.reg, o.ireg) \in Int
      BY <3>1, MachineFields, WordFacts DEF RegOr0
    <3>3. o.val + RegOr0(m.reg, o.reg) + RegOr0(m.reg, o.ireg) \in Int BY <3>1, <3>2, WordFacts
    <3> QED BY <3>3, MaskFacts DEF AddrOf
  <2>2. n = [m EXCEPT !.mem[AddrOf(m, o)] = x] BY <1>2 DEF Write
  <2> HIDE DEF n
  <2>3. /\ n \in Machine /\ n.flag = m.flag /\ n.vec = m.vec
        /\ n.reg = m.reg /\ n.mem = [m.mem EXCEPT ![AddrOf(m, o)] = x]
    BY <2>1, <2>2 DEF Machine
  <2>4. n.mem[AddrOf(m, o)] = x BY <2>1, <2>3 DEF Machine
  <2>5. AddrOf(n, o) = AddrOf(m, o) BY <2>3 DEF AddrOf
  <2>6. MemDiffers(n, m, AddrOf(m, o), x) BY <2>1, <2>3 DEF Machine, MemDiffers
  <2> QED BY <1>2, <2>3, <2>4, <2>5, <2>6 DEF Value, n
<1> QED BY <1>1, <1>2

\* Writing a register.
RegWrites(k, n, r, x) ==
  k \in Machine /\ k.flag = n.flag /\ k.vec = n.vec /\ k.mem = n.mem /\ RegDiffers(k, n, r, x)

\* A register written is the only one that differs.
LEMMA RegWriteFields ==
  ASSUME NEW n, n \in Machine, NEW r \in Regs, NEW x, x \in Word
  PROVE  RegWrites([n EXCEPT !.reg[r] = x], n, r, x)
  BY DEF Machine, RegWrites, RegDiffers

\* Loading a register whose value is known (captureIDiv, captureRet).
LEMMA RegLoaded ==
  ASSUME es \in EmuState, NEW n, Loaded(n), NEW r \in Regs, csIsStatic(es.reg_state[r]), NEW x,
         NEW k, RegWrites(k, n, r, x)
  PROVE  Loaded(k) /\ k.reg[r] = x /\ \A q \in Regs : q # r => k.reg[q] = n.reg[q]
<1>1. /\ k \in Machine /\ k.flag = n.flag /\ k.vec = n.vec /\ k.mem = n.mem
      /\ k.reg[r] = x /\ \A q \in Regs : q # r => k.reg[q] = n.reg[q]
  BY DEF RegWrites, RegDiffers
<1>2. ~Unknown(es.reg_state[r]) BY DEF csIsStatic, Unknown
<1>3. \A q \in Regs : Unknown(es.reg_state[q]) => k.reg[q] = n.reg[q] BY <1>1, <1>2
<1> QED BY <1>1, <1>3 DEF Loaded

\* Loading an operand whose value is known.
LEMMA OperandLoaded ==
  ASSUME NEW i, Ready(i), NEW o \in Operands(i), i.type # "LEA", o.kind \in {"Reg", "Ind"},
         IsStatic(getOpValue(es, o)), NEW n, Loaded(n)
  PROVE  LET k == Write(n, applyStaticToInd(es, o), getOpValue(es, o).val)
         IN /\ Loaded(k) /\ Value(k, applyStaticToInd(es, o)) = Value(orig, o)
            /\ getOpValue(es, o).val = Value(orig, o) /\ Value(orig, o) \in Word
            /\ o.kind = "Ind" => k.reg = n.reg
<1> DEFINE c == applyStaticToInd(es, o)
           v == getOpValue(es, o)
           x == Value(orig, o)
           k == Write(n, c, v.val)
<1>1. es \in EmuState /\ orig \in Machine /\ n \in Machine /\ o \in Operand
  BY ExecutableFacts DEF Ready, Operands, Loaded
<1>2. Means(v, x) BY ExecutableFacts DEF Ready
<1>3. v.val = x /\ x \in Word BY <1>2 DEF Means, MeansValue, IsStatic
<1>4. c \in Operand /\ c.kind = o.kind /\ (o.kind # "Ind" => c = o) BY <1>1, AppliedOperand
<1> HIDE DEF c, v, x
<1>5. /\ k \in Machine /\ k.flag = n.flag /\ k.vec = n.vec /\ Value(k, c) = x
      /\ c.kind = "Reg" => RegDiffers(k, n, c.reg, x) /\ k.mem = n.mem
      /\ c.kind = "Ind" => k.reg = n.reg /\ MemDiffers(k, n, AddrOf(n, c), x)
  BY <1>1, <1>3, <1>4, WriteFields
<1> HIDE DEF k
<1>6. CASE o.kind = "Reg"
  <2>1. o.reg \in Regs /\ c = o BY <1>1, <1>4, <1>6, OperandFields
  <2>2. csIsStatic(es.reg_state[o.reg]) BY <1>6 DEF getOpValue, RegValue, EmuValue, IsStatic
  <2>3. RegWrites(k, n, o.reg, x) BY <1>4, <1>5, <1>6, <2>1 DEF RegWrites
  <2>4. Loaded(k) BY <1>1, <2>1, <2>2, <2>3, RegLoaded
  <2> QED BY <1>3, <1>5, <1>6, <2>4 DEF k, v, x, c
<1>7. CASE o.kind = "Ind"
  <2> DEFINE y == AddrOf(orig, o)
             s == Offset(getOpAddr(es, o))
  <2>1. o \in MemOps(i) BY <1>7 DEF MemOps
  <2>2. AddrOf(n, c) = y BY <1>7, AddrOperand DEF c
  <2>3. /\ y \in Word
        /\ ~IsStackOp(o) => y \in Heap \cup Data /\ y \notin StackAddrs /\ new.mem[y] = orig.mem[y]
        /\ IsStackOp(o) => /\ skew = 0 /\ s \in Slots /\ y = SlotAddr(s) /\ y \notin Heap \cup Data
                           /\ v.state = es.stackState[s]
    BY <2>1, MemOperand DEF v
  <2>4. x = orig.mem[y] BY <1>7 DEF x, Value
  <2> HIDE DEF y, s
  <2>5. k.reg = n.reg /\ MemDiffers(k, n, y, x) BY <1>4, <1>5, <1>7, <2>2
  <2>6. ASSUME NEW a \in Word, a # y PROVE k.mem[a] = n.mem[a] BY <2>5, <2>6 DEF MemDiffers
  <2>7. k.mem[y] = x BY <2>5 DEF MemDiffers
  <2>8. Heap \cup Data \subseteq Word BY SpecialiseAssumption
  <2>9. ASSUME NEW a \in Heap \cup Data PROVE k.mem[a] = new.mem[a]
    <3>1. n.mem[a] = new.mem[a] BY DEF Loaded
    <3>2. CASE a # y BY <2>6, <2>8, <3>1, <3>2
    <3>3. CASE a = y BY <2>3, <2>4, <2>7, <3>3
    <3> QED BY <3>2, <3>3
  <2>10. ASSUME NEW q \in Slots, k.mem[SlotAddr(q)] # new.mem[SlotAddr(q)]
         PROVE  skew = 0 /\ ~Unknown(es.stackState[q])
    <3>1. SlotAddr(q) \in Word /\ SlotAddr(q) \in StackAddrs BY StackFacts
    <3>2. CASE SlotAddr(q) # y
      <4>1. n.mem[SlotAddr(q)] # new.mem[SlotAddr(q)] BY <2>6, <2>10, <3>1, <3>2
      <4> QED BY <4>1 DEF Loaded
    <3>3. CASE SlotAddr(q) = y
      <4>1. skew = 0 /\ s \in Slots /\ y = SlotAddr(s) /\ v.state = es.stackState[s]
        BY <2>3, <3>1, <3>3
      <4>2. q = s BY <3>3, <4>1, StackFacts
      <4>3. ~Unknown(v.state) BY DEF v, IsStatic, csIsStatic, Unknown
      <4> QED BY <4>1, <4>2, <4>3
    <3> QED BY <3>2, <3>3
  <2>11. Loaded(k) BY <1>5, <2>5, <2>9, <2>10 DEF Loaded
  <2> QED BY <1>3, <1>5, <2>5, <2>11 DEF k, v, x, c
<1> QED BY <1>6, <1>7

\* Loading a register does not disturb other operands.
LEMMA HoldsLoaded ==
  ASSUME NEW i, Ready(i), NEW o \in Operands(i), i.type # "LEA", o.kind # "None", NEW n, Loaded(n),
         NEW r \in Regs, csIsStatic(es.reg_state[r]), NEW k, RegWrites(k, n, r, orig.reg[r]),
         Value(n, applyStaticToInd(es, o)) = Value(orig, o)
  PROVE  Value(k, applyStaticToInd(es, o)) = Value(orig, o)
<1> DEFINE c == applyStaticToInd(es, o)
<1>1. es \in EmuState /\ orig \in Machine /\ n \in Machine /\ o \in Operand
  BY ExecutableFacts DEF Ready, Operands, Loaded
<1>2. c \in Operand /\ c.kind = o.kind /\ (o.kind # "Ind" => c = o) BY <1>1, AppliedOperand
<1>4. /\ Loaded(k) /\ k.mem = n.mem /\ k.reg[r] = orig.reg[r]
      /\ \A q \in Regs : q # r => k.reg[q] = n.reg[q]
  <2> HIDE DEF c
  <2>1. Loaded(k) /\ k.reg[r] = orig.reg[r] /\ \A q \in Regs : q # r => k.reg[q] = n.reg[q]
    BY <1>1, RegLoaded
  <2> QED BY <2>1 DEF RegWrites
<1> HIDE DEF c
<1>5. CASE o.kind = "Imm" BY <1>2, <1>5 DEF Value, c
<1>6. CASE o.kind = "Reg"
  <2>1. o.reg \in Regs BY <1>1, <1>6, OperandFields
  <2>2. o.reg # r => k.reg[o.reg] = n.reg[o.reg] BY <1>4, <2>1
  <2>3. n.reg[o.reg] = orig.reg[o.reg] BY <1>2, <1>6 DEF Value, c
  <2> QED BY <1>2, <1>4, <1>6, <2>2, <2>3 DEF Value, c
<1>7. CASE o.kind = "Ind"
  <2>1. AddrOf(n, c) = AddrOf(orig, o) /\ AddrOf(k, c) = AddrOf(orig, o)
    BY <1>4, <1>7, AddrOperand DEF c
  <2> QED BY <1>2, <1>4, <1>7, <2>1 DEF Value, c
<1> QED BY <1>1, <1>5, <1>6, <1>7, OperandFields

----------------------------------------------------------------------------
(***************************************************************************)
(* Steps that neither push nor pop.                                        *)
(***************************************************************************)
\* Where values on the stack are after instruction i, as in Execute.
Stored(i) == { AddrOf(orig, p) : p \in StoresTo(i) }

NextAt(i, e2, m2, k2) ==
  [o \in Slots |->
     IF \/ SlotAddr(o) \in Stored(i)
        \/ i.type \in {"PUSH", "CALL"} /\ SlotAddr(o) = m2.reg["SP"]
     THEN skew
     ELSE IF Unknown(e2.stackState[o]) /\ k2.mem[Place(o)] # new.mem[Place(o)]
     THEN Gone ELSE at[o]]

\* What is pushed depends on places and on which values are known.
LEMMA FrameSame ==
  ASSUME NEW e, NEW e2, NEW p \in Slots, NEW q \in Slots, NEW sk, NEW a, NEW a2,
         Frame(e, p, q, sk, a),
         \A o \in Slots : /\ KnownIn(e2, o) = KnownIn(e, o)
                          /\ Unknown(e2.stackState[o]) => Unknown(e.stackState[o])
                          /\ p <= o /\ (o <= q \/ Unknown(e2.stackState[o])) => a2[o] = a[o]
  PROVE  Frame(e2, p, q, sk, a2)
<1>1. /\ p \in Nat /\ q \in Nat /\ p < StackSize /\ q < StackSize /\ StackSize \in Nat
      /\ p <= q
  BY StackFacts DEF Slots, Frame
<1>2. \A o \in p .. q : o \in Slots /\ a2[o] = a[o] /\ KnownIn(e2, o) = KnownIn(e, o)
  <2> SUFFICES ASSUME NEW o \in p .. q PROVE o \in Slots /\ a2[o] = a[o] /\ KnownIn(e2, o) = KnownIn(e, o)
    OBVIOUS
  <2>1. o \in Slots /\ p <= o /\ o <= q BY <1>1 DEF Slots
  <2> QED BY <2>1
<1>3. p \in p .. q /\ q \in p .. q BY <1>1
<1>4. a2[q] = 0 /\ KnownIn(e2, q) = 1 /\ sk = a2[p] + KnownIn(e2, p) BY <1>2, <1>3 DEF Frame
<1>5. ASSUME NEW o \in p .. q
      PROVE  a2[o] \in Nat /\ (o < q => a2[o] >= 1 /\ a2[o] = a2[o + 1] + KnownIn(e2, o + 1))
  <2>1. a2[o] = a[o] /\ a[o] \in Nat BY <1>2 DEF Frame
  <2>2. ASSUME o < q PROVE a2[o] >= 1 /\ a2[o] = a2[o + 1] + KnownIn(e2, o + 1)
    <3>1. o + 1 \in p .. q BY <1>1, <2>2
    <3>2. a[o] >= 1 /\ a[o] = a[o + 1] + KnownIn(e, o + 1) BY <2>2 DEF Frame
    <3> QED BY <1>2, <2>1, <3>1, <3>2
  <2> QED BY <2>1, <2>2
<1>6. ASSUME NEW o1 \in p .. q, NEW o2 \in p .. q, o1 < o2
      PROVE  a2[o2] <= a2[o1] /\ a2[o1] - a2[o2] <= (o2 - o1) - 1 + KnownIn(e2, o2)
  BY <1>2, <1>6 DEF Frame
<1>7. ASSUME NEW o \in Slots, q < o, Unknown(e2.stackState[o]) PROVE a2[o] = 0
  <2>1. p <= o /\ a[o] = 0 BY <1>1, <1>7 DEF Frame, Slots
  <2> QED BY <1>7, <2>1
<1> QED BY <1>1, <1>4, <1>5, <1>6, <1>7 DEF Frame

\* Data have been computed if no place on the stack is overwritten that is still needed.
LEMMA EffectComputed ==
  ASSUME NEW i, Captured, orig \in Machine, i.type \notin {"PUSH", "CALL"},
         NEW e2, NEW m2, NEW k2, m2 \in Machine, k2 \in Machine,
         RegsComputed(e2, m2, k2, skew), OthersComputed(m2, k2),
         \A o \in Slots :
           SlotAddr(o) \notin Stored(i) =>
             e2.stackState[o] = es.stackState[o] /\ m2.mem[SlotAddr(o)] = orig.mem[SlotAddr(o)],
         \A o \in Slots :
           SlotAddr(o) \in Stored(i) =>
             skew = 0 /\ (Unknown(e2.stackState[o]) => k2.mem[SlotAddr(o)] = m2.mem[SlotAddr(o)]),
         \A o \in Slots : k2.mem[SlotAddr(o)] # new.mem[SlotAddr(o)] =>
             skew = 0 /\ (SlotAddr(o) \in Stored(i) \/ ~Unknown(e2.stackState[o])),
         \/ m2.reg["SP"] = orig.reg["SP"]
         \/ skew = 0 /\ InPlace(es, m2, at)
  PROVE  /\ Computed(e2, m2, k2, skew, NextAt(i, e2, m2, k2))
         /\ InOrder(e2, m2, skew, NextAt(i, e2, m2, k2))
<1> DEFINE a2 == NextAt(i, e2, m2, k2)
<1>1. ASSUME NEW o \in Slots
      PROVE  /\ SlotAddr(o) \in Stored(i) => a2[o] = skew
             /\ SlotAddr(o) \notin Stored(i) =>
                  a2[o] = IF Unknown(e2.stackState[o]) /\ k2.mem[PlaceOf(at, o)] # new.mem[PlaceOf(at, o)]
                          THEN Gone ELSE at[o]
  <2>1. Place(o) = PlaceOf(at, o) BY DEF Place, PlaceOf
  <2> HIDE DEF Stored
  <2>2. CASE SlotAddr(o) \in Stored(i)
    <3>1. a2[o] = skew BY <2>2 DEF NextAt
    <3> HIDE DEF a2
    <3> QED BY <2>2, <3>1
  <2>3. CASE SlotAddr(o) \notin Stored(i)
    <3>1. a2[o] = IF Unknown(e2.stackState[o]) /\ k2.mem[Place(o)] # new.mem[Place(o)]
                  THEN Gone ELSE at[o]
      BY <2>3 DEF NextAt
    <3> HIDE DEF a2
    <3> QED BY <2>1, <2>3, <3>1
  <2> QED BY <2>2, <2>3
<1> HIDE DEF a2
<1>2. StackComputed(e2, m2, k2, a2)
  <2> SUFFICES ASSUME NEW o \in Slots, Unknown(e2.stackState[o]), a2[o] # Gone
               PROVE  k2.mem[PlaceOf(a2, o)] = m2.mem[SlotAddr(o)]
    BY DEF StackComputed
  <2>1. CASE SlotAddr(o) \in Stored(i)
    <3>1. a2[o] = 0 BY <1>1, <2>1
    <3>2. PlaceOf(a2, o) = SlotAddr(o) BY <3>1, SlotPlaces DEF PlaceOf
    <3> QED BY <2>1, <3>2
  <2>2. CASE SlotAddr(o) \notin Stored(i)
    <3>1. a2[o] = at[o] /\ k2.mem[PlaceOf(at, o)] = new.mem[PlaceOf(at, o)] BY <1>1, <2>2
    <3>2. PlaceOf(a2, o) = PlaceOf(at, o) BY <3>1 DEF PlaceOf
    <3>3. Unknown(es.stackState[o]) /\ m2.mem[SlotAddr(o)] = orig.mem[SlotAddr(o)] BY <2>2
    <3>4. new.mem[PlaceOf(at, o)] = orig.mem[SlotAddr(o)]
      BY <3>1, <3>3 DEF Captured, Computed, StackComputed
    <3> QED BY <3>1, <3>2, <3>3, <3>4
  <2> QED BY <2>1, <2>2
<1>3. InOrder(es, orig, skew, at) BY DEF Captured
<1>4. InOrder(e2, m2, skew, a2)
  <2>1. CASE skew = 0
    <3>1. InPlace(es, m2, at)
      <4>1. InPlace(es, orig, at) BY <1>3, <2>1 DEF InOrder
      <4> QED BY <4>1 DEF InPlace
    <3>2. ASSUME NEW o \in Slots, Unknown(e2.stackState[o]), SlotAddr(o) >= m2.reg["SP"]
          PROVE  a2[o] = 0
      <4>1. CASE SlotAddr(o) \in Stored(i) BY <1>1, <2>1, <4>1
      <4>2. CASE SlotAddr(o) \notin Stored(i)
        <5>1. Unknown(es.stackState[o]) BY <3>2, <4>2
        <5>2. at[o] = 0 BY <3>1, <3>2, <5>1 DEF InPlace
        <5>3. PlaceOf(at, o) = SlotAddr(o) BY <5>2, SlotPlaces DEF PlaceOf
        <5>4. k2.mem[SlotAddr(o)] = new.mem[SlotAddr(o)] BY <3>2, <4>2
        <5> QED BY <1>1, <4>2, <5>2, <5>3, <5>4
      <4> QED BY <4>1, <4>2
    <3> QED BY <2>1, <3>2 DEF InOrder, InPlace
  <2>2. CASE skew # 0
    <3>1. skew \in Nat \ {0} /\ m2.reg["SP"] = orig.reg["SP"] BY <1>3, <2>2 DEF InOrder
    <3>2. PICK p \in Slots, q \in Slots : orig.reg["SP"] = SlotAddr(p) /\ Frame(es, p, q, skew, at)
      BY <1>3, <2>2 DEF InOrder
    <3>3. ASSUME NEW o \in Slots
          PROVE  /\ e2.stackState[o] = es.stackState[o]
                 /\ p <= o => a2[o] = at[o]
      <4>1. SlotAddr(o) \notin Stored(i) BY <2>2
      <4>2. e2.stackState[o] = es.stackState[o] BY <4>1
      <4>3. ASSUME p <= o PROVE a2[o] = at[o]
        <5>1. CASE ~Unknown(e2.stackState[o]) BY <1>1, <4>1, <5>1
        <5>2. CASE Unknown(e2.stackState[o])
          <6>1. SlotAddr(o) >= orig.reg["SP"] BY <3>2, <4>3, SlotPlaces, StackFacts, WordFacts
          <6>2. o + at[o] \in Slots /\ PlaceOf(at, o) = SlotAddr(o + at[o])
            BY <1>3, <4>2, <5>2, <6>1, InOrderPlaces
          <6>3. k2.mem[PlaceOf(at, o)] = new.mem[PlaceOf(at, o)] BY <2>2, <6>2
          <6> QED BY <1>1, <4>1, <6>3
        <5> QED BY <5>1, <5>2
      <4> QED BY <4>2, <4>3
    <3>4. Frame(e2, p, q, skew, a2)
      <4>1. \A o \in Slots : KnownIn(e2, o) = KnownIn(es, o) BY <3>3 DEF KnownIn
      <4> QED BY <3>2, <3>3, <4>1, FrameSame
    <3> QED BY <3>1, <3>2, <3>4 DEF InOrder
  <2> QED BY <2>1, <2>2
<1> QED BY <1>2, <1>4 DEF Computed, a2

\* Instructions that write no memory.
LEMMA PlainComputed ==
  ASSUME NEW i, Ready(i), StoresTo(i) = {}, i.type \notin {"PUSH", "CALL"},
         NEW e2, e2.stackState = es.stackState, NEW m2, m2 \in Machine, m2.mem = orig.mem,
         NEW n, Loaded(n), NEW k2, k2 \in Machine, k2.mem = n.mem, k2.vec = m2.vec,
         RegsComputed(e2, m2, k2, skew),
         \/ m2.reg["SP"] = orig.reg["SP"]
         \/ skew = 0 /\ InPlace(es, m2, at)
  PROVE  /\ Computed(e2, m2, k2, skew, NextAt(i, e2, m2, k2))
         /\ InOrder(e2, m2, skew, NextAt(i, e2, m2, k2))
<1>1. Captured /\ orig \in Machine BY DEF Ready, Executable
<1>2. Stored(i) = {} BY DEF Stored
<1>3. OthersComputed(m2, k2)
  BY DEF Captured, Ready, Computed, OthersComputed, Loaded
<1>4. \A o \in Slots : k2.mem[SlotAddr(o)] # new.mem[SlotAddr(o)] =>
        skew = 0 /\ ~Unknown(e2.stackState[o])
  BY DEF Loaded
<1> QED BY <1>1, <1>2, <1>3, <1>4, EffectComputed

\* Instructions that set a register.
LEMMA RegComputed ==
  ASSUME NEW i, Ready(i), i.dst.kind = "Reg", i.type \notin {"PUSH", "CALL", "LEAVE"},
         NEW e2, e2.stackState = es.stackState,
         \A q \in Regs : q # i.dst.reg => e2.reg_state[q] = es.reg_state[q],
         NEW x, NEW m2, m2 = Exec(orig, i), m2 \in Machine, m2.mem = orig.mem,
         RegDiffers(m2, orig, i.dst.reg, x),
         NEW n, Loaded(n), NEW k2, k2 \in Machine, k2.mem = n.mem, k2.vec = m2.vec,
         \A q \in Regs : q # i.dst.reg => k2.reg[q] = n.reg[q],
         Unknown(e2.reg_state[i.dst.reg]) => k2.reg[i.dst.reg] = x
  PROVE  /\ Computed(e2, m2, k2, skew, NextAt(i, e2, m2, k2))
         /\ InOrder(e2, m2, skew, NextAt(i, e2, m2, k2))
<1> DEFINE r == i.dst.reg
<1>1. /\ es \in EmuState /\ orig \in Machine /\ Captured /\ i.dst \in Operand /\ r \in Regs
      /\ Proper(es) /\ StackLimit(i)
  BY ExecutableFacts, OperandFields DEF Ready, Executable, WithinLimits
<1>2. i.dst = RegOp(r) /\ Mentions(i, r)
  <2>1. i.dst \in { RegOp(q) : q \in Regs }
    <3>1. NoOp.kind = "None" /\ \A v \in Word : Imm(v).kind = "Imm" BY DEF NoOp, Imm
    <3> QED BY <1>1, <3>1 DEF Operand
  <2>2. PICK q \in Regs : i.dst = RegOp(q) BY <2>1
  <2>3. RegOp(q).reg = q BY DEF RegOp, NoOp
  <2>4. i.dst # NoOp BY DEF NoOp
  <2> QED BY <2>2, <2>3, <2>4 DEF Mentions, Operands
<1>3. r = "SP" => skew = 0 BY <1>1, <1>2 DEF StackLimit
<1>4. /\ m2.reg[r] = x /\ x \in Word
      /\ \A q \in Regs : q # r => m2.reg[q] = orig.reg[q]
  <2>1. m2.reg[r] = x /\ \A q \in Regs : q # r => m2.reg[q] = orig.reg[q] BY DEF RegDiffers
  <2> QED BY <1>1, <2>1, MachineFields
<1>5. StoresTo(i) = {} BY DEF StoresTo, MemOps
<1> HIDE DEF r
<1>6. RegsComputed(e2, m2, k2, skew)
  <2>1. ASSUME NEW q \in Regs \ {"SP"}, Unknown(e2.reg_state[q]) PROVE k2.reg[q] = m2.reg[q]
    <3>1. CASE q = r BY <1>4, <2>1, <3>1 DEF r
    <3>2. CASE q # r
      <4>1. Unknown(es.reg_state[q]) /\ k2.reg[q] = n.reg[q] BY <2>1, <3>2 DEF r
      <4>2. n.reg[q] = new.reg[q] /\ new.reg[q] = orig.reg[q]
        BY <1>1, <4>1 DEF Loaded, Captured, Computed, RegsComputed
      <4> QED BY <1>4, <3>2, <4>1, <4>2
    <3> QED BY <3>1, <3>2
  <2>2. ASSUME Unknown(e2.reg_state["SP"]) PROVE k2.reg["SP"] = Mask(m2.reg["SP"] + skew)
    <3>0. "SP" \in Regs BY MachineAssumption
    <3>1. CASE r = "SP"
      <4>1. k2.reg["SP"] = x /\ m2.reg["SP"] = x /\ skew = 0 BY <1>3, <1>4, <2>2, <3>1 DEF r
      <4>2. x + 0 = x BY <1>4, WordFacts
      <4> QED BY <1>4, <4>1, <4>2, MaskFacts
    <3>2. CASE r # "SP"
      <4>1. Unknown(es.reg_state["SP"]) /\ k2.reg["SP"] = n.reg["SP"] BY <2>2, <3>0, <3>2 DEF r
      <4>2. n.reg["SP"] = new.reg["SP"] /\ new.reg["SP"] = Mask(orig.reg["SP"] + skew)
        BY <1>1, <3>0, <4>1 DEF Loaded, Captured, Computed, RegsComputed
      <4> QED BY <1>4, <3>0, <3>2, <4>1, <4>2
    <3> QED BY <3>1, <3>2
  <2> QED BY <2>1, <2>2 DEF RegsComputed
<1>7. \/ m2.reg["SP"] = orig.reg["SP"]
      \/ skew = 0 /\ InPlace(es, m2, at)
  <2>0. "SP" \in Regs BY MachineAssumption
  <2>1. CASE r # "SP" BY <1>4, <2>0, <2>1
  <2>2. CASE r = "SP"
    <3>1. \A o \in Slots : Live(o) /\ Unknown(es.stackState[o]) /\ SlotAddr(o) >= m2.reg["SP"] => at[o] = 0
      BY <1>1, <1>2, <2>2 DEF StackLimit
    <3>2. \A o \in Slots : Unknown(es.stackState[o]) => Live(o)
      <4> SUFFICES ASSUME NEW o \in Slots, Unknown(es.stackState[o]) PROVE Live(o)
        OBVIOUS
      <4>1. ~(o < es.stackAccessed) BY <1>1 DEF Proper, Kept, Unknown
      <4>2. o \in Int /\ es.stackAccessed \in Int BY <1>1, EmuFields, StackFacts DEF Slots
      <4> QED BY <4>1, <4>2 DEF Live
    <3> QED BY <1>3, <2>2, <3>1, <3>2 DEF InPlace
  <2> QED BY <2>1, <2>2
<1> QED BY <1>5, <1>6, <1>7, PlainComputed

\* Instructions that store to memory.
LEMMA MemComputed ==
  ASSUME NEW i, Ready(i), i.dst.kind = "Ind", i.type \notin {"LEA", "CMP", "TEST", "PUSH", "CALL", "IDIV"},
         NEW y, y = AddrOf(orig, i.dst),
         NEW e2, e2.reg_state = es.reg_state,
         \A o \in Slots : SlotAddr(o) # y => e2.stackState[o] = es.stackState[o],
         NEW x, NEW m2, m2 \in Machine, MemDiffers(m2, orig, y, x), m2.reg = orig.reg,
         NEW n, Loaded(n), NEW k2, k2 \in Machine, k2.vec = m2.vec, k2.reg = n.reg,
         \/ MemDiffers(k2, n, y, x)
         \/ /\ k2.mem = n.mem /\ y \in StackAddrs
            /\ \A o \in Slots : y = SlotAddr(o) => ~Unknown(e2.stackState[o])
  PROVE  /\ Computed(e2, m2, k2, skew, NextAt(i, e2, m2, k2))
         /\ InOrder(e2, m2, skew, NextAt(i, e2, m2, k2))
<1>1. Captured /\ orig \in Machine /\ n \in Machine BY DEF Ready, Executable, Loaded
<1>2. Stored(i) = {y}
  <2>1. i.dst # NoOp BY DEF NoOp
  <2>2. StoresTo(i) = {i.dst} BY <2>1 DEF StoresTo, MemOps, Operands
  <2> QED BY <2>2 DEF Stored
<1>3. i.dst \in MemOps(i)
  <2>1. i.dst # NoOp BY DEF NoOp
  <2> QED BY <2>1 DEF MemOps, Operands
<1>4. /\ y \in Word /\ (y \in StackAddrs => skew = 0) /\ (y \in StackAddrs => y \notin Heap \cup Data)
  <2>1. IsStackOp(i.dst) <=> y \in StackAddrs BY <1>3 DEF Ready, Executable, Accesses
  <2> QED BY <1>3, <2>1, MemOperand
<1>5. /\ \A a \in Word : a # y => m2.mem[a] = orig.mem[a] /\ k2.mem[a] = n.mem[a]
      /\ m2.mem[y] = x
      /\ \/ k2.mem[y] = x
         \/ y \in StackAddrs /\ \A o \in Slots : y = SlotAddr(o) => ~Unknown(e2.stackState[o])
  BY DEF MemDiffers
<1>6. RegsComputed(e2, m2, k2, skew)
  <2>1. "SP" \in Regs BY MachineAssumption
  <2> QED BY <1>1, <2>1 DEF Captured, Computed, RegsComputed, Loaded
<1>7. OthersComputed(m2, k2)
  <2> SUFFICES ASSUME NEW a \in Heap \cup Data PROVE k2.mem[a] = m2.mem[a]
    BY DEF OthersComputed
  <2>1. a \in Word BY SpecialiseAssumption
  <2>2. n.mem[a] = orig.mem[a] BY <1>1 DEF Captured, Computed, OthersComputed, Loaded
  <2>3. CASE a # y BY <1>5, <2>1, <2>2, <2>3
  <2>4. CASE a = y
    <3>1. y \notin StackAddrs BY <1>4, <2>4
    <3> QED BY <1>5, <2>4, <3>1
  <2> QED BY <2>3, <2>4
<1>8. ASSUME NEW o \in Slots, SlotAddr(o) \notin Stored(i)
      PROVE  e2.stackState[o] = es.stackState[o] /\ m2.mem[SlotAddr(o)] = orig.mem[SlotAddr(o)]
  <2>1. SlotAddr(o) # y /\ SlotAddr(o) \in Word BY <1>2, <1>8, StackFacts
  <2> QED BY <1>5, <2>1
<1>9. ASSUME NEW o \in Slots, SlotAddr(o) \in Stored(i)
      PROVE  skew = 0 /\ (Unknown(e2.stackState[o]) => k2.mem[SlotAddr(o)] = m2.mem[SlotAddr(o)])
  <2>1. SlotAddr(o) = y /\ y \in StackAddrs BY <1>2, <1>9, StackFacts
  <2> QED BY <1>4, <1>5, <2>1
<1>10. ASSUME NEW o \in Slots, k2.mem[SlotAddr(o)] # new.mem[SlotAddr(o)]
       PROVE  skew = 0 /\ (SlotAddr(o) \in Stored(i) \/ ~Unknown(e2.stackState[o]))
  <2>1. SlotAddr(o) \in Word /\ SlotAddr(o) \in StackAddrs BY StackFacts
  <2>2. CASE SlotAddr(o) = y BY <1>2, <1>4, <2>1, <2>2
  <2>3. CASE SlotAddr(o) # y
    <3>1. n.mem[SlotAddr(o)] # new.mem[SlotAddr(o)] BY <1>5, <1>10, <2>1, <2>3
    <3>2. skew = 0 /\ ~Unknown(es.stackState[o]) BY <3>1 DEF Loaded
    <3> QED BY <2>3, <3>2
  <2> QED BY <2>2, <2>3
<1>11. m2.reg["SP"] = orig.reg["SP"] OBVIOUS
<1> QED BY <1>1, <1>6, <1>7, <1>8, <1>9, <1>10, <1>11, EffectComputed

\* What is known of the stack after a store.
StateStored(n, e, o, s) == n.stackState[o] = s /\ \A p \in Slots : p # o => n.stackState[p] = e.stackState[p]

\* Store (setStackState) changes the state of one slot, or of none.
LEMMA StoreStates ==
  ASSUME NEW e, e \in EmuState, NEW a, a.val \in Word, NEW v, v.val \in Word, v.state \in CaptureState
  PROVE  /\ Store(e, a, v).reg_state = e.reg_state
         /\ OnStack(a) => Offset(a) \in Slots /\ StateStored(Store(e, a, v), e, Offset(a), v.state)
         /\ ~OnStack(a) => Store(e, a, v).stackState = e.stackState
<1> DEFINE n == Store(e, a, v)
           o == Offset(a)
<1>1. /\ n.reg_state = e.reg_state
      /\ OnStack(a) => /\ o \in Slots
                       /\ n.stackState = [e.stackState EXCEPT ![o] = v.state]
      /\ ~OnStack(a) => n.stackState = e.stackState
  <2>1. OnStack(a) => o \in Slots BY StackFacts, WordFacts DEF OnStack, Offset, Slots
  <2>2. OnStack(a) => n.reg_state = e.reg_state /\ n.stackState = [e.stackState EXCEPT ![o] = v.state]
    BY DEF Store, EmuState
  <2>3. ~OnStack(a) => n.reg_state = e.reg_state /\ n.stackState = e.stackState BY DEF Store, EmuState
  <2> QED BY <2>1, <2>2, <2>3
<1>2. e.stackState \in [Slots -> CaptureState] BY DEF EmuState
<1> HIDE DEF n, o
<1>3. OnStack(a) => StateStored(n, e, o, v.state) BY <1>1, <1>2 DEF StateStored
<1> QED BY <1>1, <1>3 DEF n, o

\* The end of most instructions: Assign, with the result stored by captured code as well
\* unless the emulator keeps track of it.
LEMMA AssignedComputed ==
  ASSUME NEW i, Ready(i), i.dst.kind \in {"Reg", "Ind"}, i.type = "LEA" => i.dst.kind = "Reg",
         i.type \notin {"CMP", "TEST", "PUSH", "CALL", "IDIV", "LEAVE"},
         NEW e1, Proper(e1), SameData(e1, es), NEW v, NEW x, Means(v, x), NEW out,
         NEW r, r = Assign(e1, i.dst, v, out), r.err = "none",
         NEW m2, m2 = Exec(orig, i), m2 \in Machine,
         m2.reg = Write(orig, i.dst, x).reg, m2.mem = Write(orig, i.dst, x).mem,
         NEW n, Loaded(n), NEW k2, k2 \in Machine, k2.vec = m2.vec,
         \/ /\ k2.reg = Write(n, applyStaticToInd(es, i.dst), x).reg
            /\ k2.mem = Write(n, applyStaticToInd(es, i.dst), x).mem
         \/ k2.reg = n.reg /\ k2.mem = n.mem /\ ~Unknown(v.state) /\ opStateIsTracked(es, i.dst)
  PROVE  /\ Computed(r.es, m2, k2, skew, NextAt(i, r.es, m2, k2))
         /\ InOrder(r.es, m2, skew, NextAt(i, r.es, m2, k2))
<1> DEFINE c == applyStaticToInd(es, i.dst)
<1>1. /\ es \in EmuState /\ e1 \in EmuState /\ orig \in Machine /\ n \in Machine /\ i.dst \in Operand
      /\ v.val \in Word /\ v.state \in CaptureState /\ x \in Word /\ i.dst # NoOp
  <2>1. i.dst # NoOp BY DEF NoOp
  <2> QED BY <2>1, ExecutableFacts DEF Ready, Loaded, Proper, Means
<1>2. c \in Operand /\ c.kind = i.dst.kind /\ (i.dst.kind # "Ind" => c = i.dst)
  BY <1>1, AppliedOperand
<1>3. /\ i.dst.kind = "Reg" => RegDiffers(m2, orig, i.dst.reg, x) /\ m2.mem = orig.mem
      /\ i.dst.kind = "Ind" => m2.reg = orig.reg /\ MemDiffers(m2, orig, AddrOf(orig, i.dst), x)
  <2> DEFINE w == Write(orig, i.dst, x)
  <2>1. /\ i.dst.kind = "Reg" => RegDiffers(w, orig, i.dst.reg, x) /\ w.mem = orig.mem
        /\ i.dst.kind = "Ind" => w.reg = orig.reg /\ MemDiffers(w, orig, AddrOf(orig, i.dst), x)
    BY <1>1, WriteFields
  <2> HIDE DEF w
  <2>2. m2.reg = w.reg /\ m2.mem = w.mem BY DEF w
  <2> QED BY <2>1, <2>2 DEF RegDiffers, MemDiffers
<1>4. ASSUME k2.reg = Write(n, c, x).reg, k2.mem = Write(n, c, x).mem
      PROVE  /\ c.kind = "Reg" => RegDiffers(k2, n, c.reg, x) /\ k2.mem = n.mem
             /\ c.kind = "Ind" => k2.reg = n.reg /\ MemDiffers(k2, n, AddrOf(n, c), x)
  <2> DEFINE w == Write(n, c, x)
  <2> HIDE DEF c
  <2>1. /\ c.kind = "Reg" => RegDiffers(w, n, c.reg, x) /\ w.mem = n.mem
        /\ c.kind = "Ind" => w.reg = n.reg /\ MemDiffers(w, n, AddrOf(n, c), x)
    BY <1>1, <1>2, WriteFields
  <2>2. k2.reg = w.reg /\ k2.mem = w.mem BY <1>4
  <2> HIDE DEF w
  <2> QED BY <2>1, <2>2 DEF RegDiffers, MemDiffers
<1>0. \/ k2.reg = Write(n, c, x).reg /\ k2.mem = Write(n, c, x).mem
      \/ k2.reg = n.reg /\ k2.mem = n.mem /\ ~Unknown(v.state) /\ opStateIsTracked(es, i.dst)
  OBVIOUS
<1>5. CASE i.dst.kind = "Reg"
  <2> DEFINE d == i.dst.reg
  <2>1. d \in Regs BY <1>1, <1>5, OperandFields
  <2>2. r.es = setReg(e1, d, v) BY <1>5 DEF Assign, Done
  <2> HIDE DEF c, d
  <2>3. r.es.stackState = e1.stackState /\ r.es.reg_state = [e1.reg_state EXCEPT ![d] = v.state]
    BY <1>1, <2>1, <2>2 DEF setReg, EmuState
  <2>4. e1.reg_state \in [Regs -> CaptureState] BY <1>1 DEF EmuState
  <2>5. /\ r.es.stackState = es.stackState /\ r.es.reg_state[d] = v.state
        /\ \A q \in Regs : q # d => r.es.reg_state[q] = es.reg_state[q]
    BY <2>1, <2>3, <2>4 DEF SameData
  <2>6. /\ k2.mem = n.mem /\ \A q \in Regs : q # d => k2.reg[q] = n.reg[q]
        /\ Unknown(v.state) => k2.reg[d] = x
    <3>1. c.kind = "Reg" /\ c.reg = d BY <1>2, <1>5 DEF d
    <3>2. CASE k2.reg = Write(n, c, x).reg /\ k2.mem = Write(n, c, x).mem
      <4>1. RegDiffers(k2, n, d, x) /\ k2.mem = n.mem BY <1>4, <3>1, <3>2
      <4> QED BY <4>1 DEF RegDiffers
    <3> QED BY <1>0, <3>2
  <2> DEFINE e2 == r.es
  <2>7. /\ e2.stackState = es.stackState
        /\ \A q \in Regs : q # i.dst.reg => e2.reg_state[q] = es.reg_state[q]
        /\ Unknown(e2.reg_state[i.dst.reg]) => k2.reg[i.dst.reg] = x
        /\ \A q \in Regs : q # i.dst.reg => k2.reg[q] = n.reg[q]
        /\ k2.mem = n.mem /\ RegDiffers(m2, orig, i.dst.reg, x) /\ m2.mem = orig.mem
    BY <1>3, <1>5, <2>5, <2>6 DEF d
  <2> HIDE DEF e2
  <2>8. /\ Computed(e2, m2, k2, skew, NextAt(i, e2, m2, k2))
        /\ InOrder(e2, m2, skew, NextAt(i, e2, m2, k2))
    BY <1>5, <2>7, RegComputed
  <2> QED BY <2>8 DEF e2
<1>6. CASE i.dst.kind = "Ind"
  <2> DEFINE a == getOpAddr(es, i.dst)
             y == AddrOf(orig, i.dst)
             s == Offset(a)
  <2>1. i.dst \in MemOps(i) /\ i.dst \in Operands(i) BY <1>1, <1>6 DEF MemOps, Operands
  <2>2. getOpAddr(e1, i.dst) = a BY SameOperands
  <2>3. CanStore(a) /\ r.es = Store(e1, a, v)
    <3>1. r = IF CanStore(a) THEN Done(Store(e1, a, v), out) ELSE Abort(e1)
      BY <1>6, <2>2 DEF Assign
    <3>2. Abort(e1).err = "abort" /\ Done(Store(e1, a, v), out).es = Store(e1, a, v)
      BY DEF Abort, Done
    <3> QED BY <3>1, <3>2
  <2>4. a.val \in Word BY <1>1, <1>6, AddrMeans, ExecutableFacts DEF Ready, Means
  <2>5. /\ y \in Word /\ (IsStackOp(i.dst) <=> y \in StackAddrs)
        /\ IsStackOp(i.dst) => s \in Slots /\ y = SlotAddr(s)
    <3>1. IsStackOp(i.dst) <=> y \in StackAddrs BY <2>1 DEF Ready, Executable, Accesses
    <3> QED BY <2>1, <3>1, MemOperand
  <2>6. AddrOf(n, c) = y BY <1>6, <2>1, AddrOperand
  <2> HIDE DEF c, a, y, s
  <2>7. /\ r.es.reg_state = e1.reg_state
        /\ OnStack(a) => s \in Slots /\ StateStored(r.es, e1, s, v.state)
        /\ ~OnStack(a) => r.es.stackState = e1.stackState
    <3> DEFINE n2 == Store(e1, a, v)
    <3>1. /\ n2.reg_state = e1.reg_state
          /\ OnStack(a) => Offset(a) \in Slots /\ StateStored(n2, e1, Offset(a), v.state)
          /\ ~OnStack(a) => n2.stackState = e1.stackState
      BY <1>1, <2>4, StoreStates
    <3> HIDE DEF n2
    <3> QED BY <2>3, <3>1 DEF n2, s
  <2>8. e1.stackState \in [Slots -> CaptureState] /\ e1.stackState = es.stackState
        /\ e1.reg_state = es.reg_state
    BY <1>1 DEF EmuState, SameData
  <2>9. OnStack(a) => IsStackOp(i.dst) BY <2>3 DEF CanStore, IsStackOp, a
  <2>10. \A o \in Slots : SlotAddr(o) # y => r.es.stackState[o] = es.stackState[o]
    <3>1. CASE OnStack(a)
      <4>1. y = SlotAddr(s) BY <2>5, <2>9, <3>1
      <4> QED BY <2>7, <2>8, <3>1, <4>1 DEF StateStored
    <3>2. CASE ~OnStack(a) BY <2>7, <2>8, <3>2
    <3> QED BY <3>1, <3>2
  <2>11. k2.reg = n.reg BY <1>0, <1>2, <1>4, <1>6
  <2>12. \/ MemDiffers(k2, n, y, x)
         \/ /\ k2.mem = n.mem /\ y \in StackAddrs
            /\ \A o \in Slots : y = SlotAddr(o) => ~Unknown(r.es.stackState[o])
    <3>1. CASE /\ k2.reg = Write(n, c, x).reg /\ k2.mem = Write(n, c, x).mem
      <4>1. MemDiffers(k2, n, AddrOf(n, c), x) BY <1>2, <1>4, <1>6, <3>1
      <4> QED BY <2>6, <4>1
    <3>2. CASE k2.reg = n.reg /\ k2.mem = n.mem /\ ~Unknown(v.state) /\ opStateIsTracked(es, i.dst)
      <4>1. OnStack(a) /\ IsStackOp(i.dst) BY <1>6, <3>2 DEF opStateIsTracked, IsStackOp, a
      <4>2. y \in StackAddrs /\ y = SlotAddr(s) /\ s \in Slots BY <2>5, <4>1
      <4>3. \A o \in Slots : y = SlotAddr(o) => o = s BY <4>2, StackFacts
      <4>4. r.es.stackState[s] = v.state BY <2>7, <4>1 DEF StateStored
      <4> QED BY <3>2, <4>2, <4>3, <4>4
    <3> QED BY <1>0, <3>1, <3>2
  <2>13. m2.reg = orig.reg /\ MemDiffers(m2, orig, y, x) BY <1>3, <1>6 DEF y
  <2>14. y = AddrOf(orig, i.dst) BY DEF y
  <2> DEFINE e2 == r.es
  <2>15. e2.reg_state = es.reg_state /\ \A o \in Slots : SlotAddr(o) # y => e2.stackState[o] = es.stackState[o]
    BY <2>7, <2>8, <2>10
  <2>16. \/ MemDiffers(k2, n, y, x)
         \/ /\ k2.mem = n.mem /\ y \in StackAddrs
            /\ \A o \in Slots : y = SlotAddr(o) => ~Unknown(e2.stackState[o])
    BY <2>12
  <2> HIDE DEF e2
  <2>17. /\ Computed(e2, m2, k2, skew, NextAt(i, e2, m2, k2))
         /\ InOrder(e2, m2, skew, NextAt(i, e2, m2, k2))
    BY <1>6, <2>11, <2>13, <2>14, <2>15, <2>16, MemComputed
  <2> QED BY <2>17 DEF e2
<1> QED BY <1>5, <1>6

----------------------------------------------------------------------------
(***************************************************************************)
(* The instructions captured for each instruction.                         *)
(***************************************************************************)
\* After instruction i with outcome r, the captured code has computed what is unknown.
Computes(i, r) ==
  r.err = "none" =>
    LET m2 == Exec(orig, i)
        k2 == ExecAll(new, r.out)
        a2 == NextAt(i, r.es, m2, k2)
        sk == skew + Missing(i, r.out)
    IN /\ k2 \in Machine
       /\ Computed(r.es, m2, k2, sk, a2) /\ InOrder(r.es, m2, sk, a2)
       /\ FlagsCaptured(r.es, m2, k2, LostBy(i, r.es, r.out))

\* Fields of captured instructions.
LEMMA CapturedFields ==
  /\ \A t, d, s : /\ Binary(t, d, s).type = t /\ Binary(t, d, s).dst = d
                  /\ Binary(t, d, s).src = s /\ Binary(t, d, s).src2 = NoOp
  /\ \A t, d, s, s2 : /\ Ternary(t, d, s, s2).type = t /\ Ternary(t, d, s, s2).dst = d
                      /\ Ternary(t, d, s, s2).src = s /\ Ternary(t, d, s, s2).src2 = s2
  /\ \A w : Imm(w).kind = "Imm" /\ Imm(w).val = w
  /\ NoOp.kind = "None"
  BY DEF Binary, Ternary, Imm, NoOp

\* An instruction as it is captured: each operand for itself.
LEMMA AppliedFields ==
  ASSUME NEW e, NEW t, NEW d, NEW s, NEW s2, NEW j, j = Applied(e, Ternary(t, d, s, s2))
  PROVE  /\ j.type = t /\ j.dst = applyStaticToInd(e, d)
         /\ j.src = applyStaticToInd(e, s) /\ j.src2 = applyStaticToInd(e, s2)
         /\ \A w : applyStaticToInd(e, Imm(w)) = Imm(w)
         /\ applyStaticToInd(e, NoOp) = NoOp
<1>1. \A w : applyStaticToInd(e, Imm(w)) = Imm(w)
  <2>1. \A w : Imm(w).kind # "Ind" BY DEF Imm, NoOp
  <2> QED BY <2>1 DEF applyStaticToInd
<1>2. applyStaticToInd(e, NoOp) = NoOp BY DEF applyStaticToInd, NoOp
<1>3. /\ j.type = t /\ j.dst = applyStaticToInd(e, d)
      /\ j.src = applyStaticToInd(e, s) /\ j.src2 = applyStaticToInd(e, s2)
  BY DEF Applied, Ternary
<1> QED BY <1>1, <1>2, <1>3

\* Moves that are captured.
LEMMA MoveExec ==
  ASSUME NEW e, NEW m, NEW d
  PROVE  /\ \A v : Exec(m, LoadImm(d, v)) = Write(m, d, v.val)
         /\ \A v : Exec(m, Applied(e, LoadImm(d, v))) = Write(m, applyStaticToInd(e, d), v.val)
         /\ \A s : Exec(m, Applied(e, Binary("MOV", d, s)))
                     = Write(m, applyStaticToInd(e, d), Value(m, applyStaticToInd(e, s)))
<1>1. ASSUME NEW v PROVE Exec(m, LoadImm(d, v)) = Write(m, d, v.val)
  <2> DEFINE j == LoadImm(d, v)
  <2>1. j.type = "MOV" /\ j.dst = d /\ j.src = Imm(v.val) BY DEF LoadImm, Binary, Ternary
  <2>2. Value(m, Imm(v.val)) = v.val BY DEF Value, Imm, NoOp
  <2> HIDE DEF j
  <2>3. Exec(m, j) = Write(m, j.dst, Value(m, j.src)) BY <2>1, ExecOf
  <2> QED BY <2>1, <2>2, <2>3 DEF j
<1>2. ASSUME NEW s
      PROVE  Exec(m, Applied(e, Binary("MOV", d, s)))
               = Write(m, applyStaticToInd(e, d), Value(m, applyStaticToInd(e, s)))
  <2> DEFINE j == Applied(e, Binary("MOV", d, s))
  <2>1. j = Applied(e, Ternary("MOV", d, s, NoOp)) BY DEF Binary
  <2> HIDE DEF j
  <2>2. j.type = "MOV" /\ j.dst = applyStaticToInd(e, d) /\ j.src = applyStaticToInd(e, s)
    BY <2>1, AppliedFields
  <2>3. Exec(m, j) = Write(m, j.dst, Value(m, j.src)) BY <2>2, ExecOf
  <2> QED BY <2>2, <2>3 DEF j
<1>3. ASSUME NEW v PROVE Exec(m, Applied(e, LoadImm(d, v))) = Write(m, applyStaticToInd(e, d), v.val)
  <2>1. LoadImm(d, v) = Binary("MOV", d, Imm(v.val)) BY DEF LoadImm
  <2>2. applyStaticToInd(e, Imm(v.val)) = Imm(v.val) BY DEF applyStaticToInd, Imm, NoOp
  <2>3. Value(m, Imm(v.val)) = v.val BY DEF Value, Imm, NoOp
  <2> QED BY <1>2, <2>1, <2>2, <2>3
<1> QED BY <1>1, <1>2, <1>3

\* Flags matter by what is known of them.
LEMMA SameFlagStates ==
  ASSUME NEW e, NEW e2, e.flag_state = e2.flag_state, NEW i, NEW out, NEW m, NEW k
  PROVE  /\ LostBy(i, e, out) = LostBy(i, e2, out)
         /\ \A L : FlagsCaptured(e, m, k, L) => FlagsCaptured(e2, m, k, L)
<1>1. LostBy(i, e, out) = LostBy(i, e2, out) BY DEF LostBy
<1>2. \A L : FlagsCaptured(e, m, k, L) => FlagsCaptured(e2, m, k, L)
  BY DEF FlagsCaptured, UnknownFlags
<1> QED BY <1>1, <1>2

\* The machine as it is after captured code has stored x, unless the emulator keeps track.
Stores(i, n, k, v, x) ==
  /\ k \in Machine /\ k.vec = n.vec
  /\ \/ /\ k.reg = Write(n, applyStaticToInd(es, i.dst), x).reg
        /\ k.mem = Write(n, applyStaticToInd(es, i.dst), x).mem
     \/ k.reg = n.reg /\ k.mem = n.mem /\ ~Unknown(v.state) /\ opStateIsTracked(es, i.dst)

\* After an instruction that does nothing else than write its destination, what is not
\* known is computed, if captured code writes it too, or it need not.
LEMMA AssignComputes ==
  ASSUME NEW i, Ready(i), i.dst.kind \in {"Reg", "Ind"}, i.type = "LEA" => i.dst.kind = "Reg",
         i.type \notin {"CMP", "TEST", "PUSH", "POP", "CALL", "RET", "IDIV", "LEAVE"},
         NEW e1, Proper(e1), SameData(e1, es), NEW v, NEW x, Means(v, x), NEW out,
         NEW m2, m2 = Exec(orig, i), m2 \in Machine, m2.vec = orig.vec,
         m2.reg = Write(orig, i.dst, x).reg, m2.mem = Write(orig, i.dst, x).mem,
         NEW n, Loaded(n), Stores(i, n, ExecAll(new, out), v, x),
         FlagsCaptured(e1, m2, ExecAll(new, out), LostBy(i, e1, out))
  PROVE  Computes(i, Assign(e1, i.dst, v, out))
<1> DEFINE r == Assign(e1, i.dst, v, out)
           k2 == ExecAll(new, out)
<1> SUFFICES ASSUME r.err = "none" PROVE Computes(i, r)
  BY DEF Computes
<1>1. r.out = out /\ r.es.flag_state = e1.flag_state
  <2>1. CASE i.dst.kind = "Reg"
    <3>1. r = Done(setReg(e1, i.dst.reg, v), out) BY <2>1 DEF Assign
    <3>2. setReg(e1, i.dst.reg, v).flag_state = e1.flag_state BY DEF setReg, Proper, EmuState
    <3> QED BY <3>1, <3>2 DEF Done
  <2>2. CASE i.dst.kind = "Ind"
    <3> DEFINE a == getOpAddr(e1, i.dst)
    <3>1. r = IF CanStore(a) THEN Done(Store(e1, a, v), out) ELSE Abort(e1) BY <2>2 DEF Assign
    <3>2. Abort(e1).err = "abort" BY DEF Abort
    <3>3. r = Done(Store(e1, a, v), out) BY <3>1, <3>2
    <3>4. Store(e1, a, v).flag_state = e1.flag_state BY DEF Store, Proper, EmuState
    <3> QED BY <3>3, <3>4 DEF Done
  <2> QED BY <2>1, <2>2
<1>2. skew \in Int /\ skew + Missing(i, out) = skew
  <2>1. Missing(i, out) = 0 BY DEF Missing
  <2>2. skew \in Int BY DEF Ready, Captured, InOrder
  <2> QED BY <2>1, <2>2
<1>3. k2 \in Machine /\ k2.vec = m2.vec
  <2>1. n.vec = new.vec /\ new.vec = orig.vec
    BY DEF Loaded, Ready, Captured, Computed, OthersComputed
  <2> QED BY <2>1 DEF Stores
<1>4. \/ /\ k2.reg = Write(n, applyStaticToInd(es, i.dst), x).reg
         /\ k2.mem = Write(n, applyStaticToInd(es, i.dst), x).mem
      \/ k2.reg = n.reg /\ k2.mem = n.mem /\ ~Unknown(v.state) /\ opStateIsTracked(es, i.dst)
  BY DEF Stores
<1> HIDE DEF r, k2
<1>5. /\ Computed(r.es, m2, k2, skew, NextAt(i, r.es, m2, k2))
      /\ InOrder(r.es, m2, skew, NextAt(i, r.es, m2, k2))
  <2>1. r = Assign(e1, i.dst, v, out) BY DEF r
  <2> QED BY <2>1, <1>3, <1>4, AssignedComputed
<1>6. FlagsCaptured(r.es, m2, k2, LostBy(i, r.es, r.out))
  <2>1. FlagsCaptured(e1, m2, k2, LostBy(i, e1, out)) BY DEF k2
  <2> QED BY <1>1, <2>1, SameFlagStates
<1>7. k2 = ExecAll(new, r.out) BY <1>1 DEF k2
<1> QED BY <1>1, <1>2, <1>3, <1>5, <1>6, <1>7 DEF Computes

\* Instructions that leave flags alone.
LEMMA FlagsLeft ==
  ASSUME Captured, NEW e, e.flag_state = es.flag_state, NEW m, m.flag = orig.flag,
         NEW k, k.flag = new.flag, NEW L, L = lost
  PROVE  FlagsCaptured(e, m, k, L)
  BY DEF Captured, FlagsCaptured, UnknownFlags

----------------------------------------------------------------------------
(***************************************************************************)
(* Instruction by instruction                                              *)
(***************************************************************************)
\* MOV (captureMov): what is known is loaded only where the emulator does not keep
\* track of it, and what is undefined is not moved.
LEMMA MovComputes ==
  ASSUME NEW i, Ready(i), i.type = "MOV"
  PROVE  Computes(i, emulateMov(es, i))
<1> DEFINE v == getOpValue(es, i.src)
           x == Value(orig, i.src)
           out == captureMov(es, i, v)
           k == ExecAll(new, out)
           m2 == Exec(orig, i)
           c == applyStaticToInd(es, i.dst)
<1>1. i.src.kind \in {"Reg", "Imm", "Ind"} /\ i.dst.kind \in {"Reg", "Ind"} /\ i = Binary("MOV", i.dst, i.src)
  BY DEF Ready, Executable, WellFormed, BinaryOps, CMovFlag, Binary
<1>2. i.src \in Operands(i) /\ i.src \in Reads(i) /\ i.src # NoOp
  BY <1>1 DEF Operands, NoOp, Reads
<1>3. Means(v, x) /\ i.dst \in Operand /\ orig \in Machine /\ es \in EmuState /\ Proper(es)
  BY <1>2, ExecutableFacts DEF Ready, Executable
<1>4. x \in Word /\ (IsStatic(v) => v.val = x) /\ v.state \in CaptureState
  BY <1>3 DEF Means, MeansValue, IsStatic
<1>5. Captured /\ Loaded(new) /\ new \in Machine BY NothingLoaded DEF Ready, Captured
<1>6. m2 = Write(orig, i.dst, x) BY ExecOf
<1>7. emulateMov(es, i) = Assign(es, i.dst, v, out) BY DEF emulateMov
<1>8. c \in Operand /\ c.kind = i.dst.kind BY <1>3, AppliedOperand
<1> HIDE DEF m2, c
<1>9. m2 \in Machine /\ m2.vec = orig.vec /\ m2.flag = orig.flag
  BY <1>1, <1>3, <1>4, <1>6, WriteFields
<1>10. Write(new, c, x) \in Machine /\ Write(new, c, x).vec = new.vec /\ Write(new, c, x).flag = new.flag
  BY <1>1, <1>4, <1>5, <1>8, WriteFields
<1>11. \/ k = Write(new, c, x)
       \/ k = new /\ ~Unknown(v.state) /\ opStateIsTracked(es, i.dst)
  <2>1. CASE v.state = "DEAD"
    <3>1. out = <<>> BY <2>1 DEF captureMov
    <3>2. Harmless(i) BY <1>2, <2>1 DEF Ready, Defined
    <3>3. i.dst.kind = "Reg" BY <3>2 DEF Harmless
    <3> HIDE DEF out, v
    <3>4. k = new BY <3>1, ExecAllOf
    <3> QED BY <2>1, <3>3, <3>4 DEF Unknown, opStateIsTracked
  <2>2. CASE v.state # "DEAD" /\ IsStatic(v) /\ opStateIsTracked(es, i.dst)
    <3>1. out = <<>> BY <2>2 DEF captureMov
    <3>2. ~Unknown(v.state) BY <2>2 DEF Unknown, IsStatic, csIsStatic
    <3> HIDE DEF out, v
    <3>3. k = new BY <3>1, ExecAllOf
    <3> QED BY <2>2, <3>2, <3>3
  <2>3. CASE v.state # "DEAD" /\ IsStatic(v) /\ ~opStateIsTracked(es, i.dst)
    <3>1. out = << Applied(es, LoadImm(i.dst, v)) >> BY <2>3 DEF captureMov
    <3> HIDE DEF out, v, x
    <3>2. k = Exec(new, Applied(es, LoadImm(i.dst, v))) BY <3>1, ExecAllOf
    <3>3. Exec(new, Applied(es, LoadImm(i.dst, v))) = Write(new, c, v.val) BY MoveExec DEF c
    <3> QED BY <1>4, <2>3, <3>2, <3>3
  <2>4. CASE v.state # "DEAD" /\ ~IsStatic(v)
    <3>1. out = << Applied(es, i) >> BY <2>4 DEF captureMov
    <3>2. Value(new, applyStaticToInd(es, i.src)) = x BY <1>2, <1>5, <2>4, ReadOperand
    <3> HIDE DEF out, v, x
    <3>3. k = Exec(new, Applied(es, i)) BY <3>1, ExecAllOf
    <3>4. Exec(new, Applied(es, Binary("MOV", i.dst, i.src))) = Write(new, c, Value(new, applyStaticToInd(es, i.src)))
      BY MoveExec DEF c
    <3> QED BY <1>1, <3>2, <3>3, <3>4
  <2> QED BY <2>1, <2>2, <2>3, <2>4
<1> HIDE DEF out, v, x, k
<1>12. k \in Machine /\ k.vec = new.vec /\ k.flag = new.flag BY <1>5, <1>10, <1>11
<1>13. Stores(i, new, k, v, x) BY <1>11, <1>12 DEF Stores, c
<1>14. LostBy(i, es, out) = lost BY LostOf
<1>15. FlagsCaptured(es, m2, k, LostBy(i, es, out)) BY <1>5, <1>9, <1>12, <1>14, FlagsLeft
<1>16. Computes(i, Assign(es, i.dst, v, out))
  <2>1. SameData(es, es) BY DEF SameData
  <2>2. i.type # "LEA" /\ i.type \notin {"CMP", "TEST", "PUSH", "POP", "CALL", "RET", "IDIV", "LEAVE"} OBVIOUS
  <2>3. m2.reg = Write(orig, i.dst, x).reg /\ m2.mem = Write(orig, i.dst, x).mem BY <1>6
  <2>4. m2 = Exec(orig, i) BY DEF m2
  <2>5. Stores(i, new, ExecAll(new, out), v, x) /\ FlagsCaptured(es, m2, ExecAll(new, out), LostBy(i, es, out))
    BY <1>13, <1>15 DEF k
  <2> QED BY <1>1, <1>3, <1>5, <1>9, <2>1, <2>2, <2>3, <2>4, <2>5, AssignComputes
<1> QED BY <1>7, <1>16 DEF v, out

\* LEA.
LEMMA LeaComputes ==
  ASSUME NEW i, Ready(i), i.type = "LEA", NEW force
  PROVE  Computes(i, emulateLea(es, i, force))
<1> DEFINE v == getOpAddr(es, i.src)
           f == Forced(v, force)
           x == AddrOf(orig, i.src)
           out == captureLea(es, i, v, force)
           k == ExecAll(new, out)
           m2 == Exec(orig, i)
           c == applyStaticToInd(es, i.dst)
<1>1. i.src.kind = "Ind" /\ i.dst.kind = "Reg" /\ i = Binary("LEA", i.dst, i.src)
  BY DEF Ready, Executable, WellFormed, BinaryOps, CMovFlag, Binary
<1>2. i.src \in Operands(i) BY <1>1 DEF Operands, NoOp
<1>3. i.dst \in Operand /\ orig \in Machine /\ es \in EmuState /\ Proper(es) /\ Means(v, x)
  BY <1>1, ExecutableFacts, AddrMeans DEF Ready, Executable
<1>4. x \in Word /\ (IsStatic(v) => v.val = x) /\ v.state \in CaptureState /\ Means(f, x)
  BY <1>3, ForcedMeans DEF Means, MeansValue, IsStatic
<1>5. Captured /\ Loaded(new) /\ new \in Machine BY NothingLoaded DEF Ready, Captured
<1>6. m2 = Write(orig, i.dst, x) BY ExecOf
<1>7. emulateLea(es, i, force) = Assign(es, i.dst, f, out) BY DEF emulateLea
<1>8. c = i.dst BY <1>1 DEF applyStaticToInd
<1> HIDE DEF m2, c
<1>9. m2 \in Machine /\ m2.vec = orig.vec /\ m2.flag = orig.flag
  BY <1>1, <1>3, <1>4, <1>6, WriteFields
<1>10. Write(new, i.dst, x) \in Machine /\ Write(new, i.dst, x).vec = new.vec /\ Write(new, i.dst, x).flag = new.flag
  BY <1>1, <1>3, <1>4, <1>5, WriteFields
<1>11. \/ k = Write(new, i.dst, x)
       \/ k = new /\ ~Unknown(f.state) /\ opStateIsTracked(es, i.dst)
  <2>1. CASE ~IsStatic(v)
    <3> DEFINE j == [i EXCEPT !.src = applyStaticToInd(es, @)]
    <3>1. out = << j >> BY <2>1 DEF captureLea
    <3>2. i = [ type |-> "LEA", dst |-> i.dst, src |-> i.src, src2 |-> NoOp ]
      BY <1>1 DEF Binary, Ternary
    <3>3. j.type = "LEA" /\ j.dst = i.dst /\ j.src = applyStaticToInd(es, i.src) BY <3>2
    <3> HIDE DEF j, out
    <3>4. k = Exec(new, j) BY <3>1, ExecAllOf
    <3>5. Exec(new, j) = Write(new, j.dst, AddrOf(new, j.src)) BY <3>3, ExecOf
    <3>6. AddrOf(new, j.src) = x BY <1>1, <1>2, <1>5, <3>3, AddrOperand
    <3> QED BY <3>3, <3>4, <3>5, <3>6
  <2>2. CASE IsStatic(v) /\ force
    <3>1. out = << LoadImm(i.dst, v) >> BY <2>2 DEF captureLea
    <3> HIDE DEF out, v, x
    <3>2. k = Exec(new, LoadImm(i.dst, v)) BY <3>1, ExecAllOf
    <3>3. Exec(new, LoadImm(i.dst, v)) = Write(new, i.dst, v.val) BY MoveExec
    <3> QED BY <1>4, <2>2, <3>2, <3>3
  <2>3. CASE IsStatic(v) /\ ~force
    <3>1. out = <<>> BY <2>3 DEF captureLea
    <3>2. f = v BY <2>3 DEF Forced
    <3>3. ~Unknown(f.state) BY <2>3, <3>2 DEF Unknown, IsStatic, csIsStatic
    <3> HIDE DEF out, v, f
    <3>4. k = new BY <3>1, ExecAllOf
    <3> QED BY <1>1, <3>3, <3>4 DEF opStateIsTracked
  <2> QED BY <2>1, <2>2, <2>3
<1> HIDE DEF out, v, f, x, k
<1>12. k \in Machine /\ k.vec = new.vec /\ k.flag = new.flag BY <1>5, <1>10, <1>11
<1>13. Stores(i, new, k, f, x) BY <1>8, <1>11, <1>12 DEF Stores, c
<1>14. LostBy(i, es, out) = lost BY LostOf
<1>15. FlagsCaptured(es, m2, k, LostBy(i, es, out)) BY <1>5, <1>9, <1>12, <1>14, FlagsLeft
<1>16. Computes(i, Assign(es, i.dst, f, out))
  <2>1. SameData(es, es) BY DEF SameData
  <2>2. i.type \notin {"CMP", "TEST", "PUSH", "POP", "CALL", "RET", "IDIV", "LEAVE"} OBVIOUS
  <2>3. m2.reg = Write(orig, i.dst, x).reg /\ m2.mem = Write(orig, i.dst, x).mem BY <1>6
  <2>4. m2 = Exec(orig, i) BY DEF m2
  <2>5. Stores(i, new, ExecAll(new, out), f, x) /\ FlagsCaptured(es, m2, ExecAll(new, out), LostBy(i, es, out))
    BY <1>13, <1>15 DEF k
  <2> QED BY <1>1, <1>3, <1>4, <1>5, <1>9, <2>1, <2>2, <2>3, <2>4, <2>5, AssignComputes
<1> QED BY <1>7, <1>16 DEF v, f, out

\* Words with the same bits.
LEMMA SameBits ==
  ASSUME NEW a \in Word, NEW b \in Word, \A k \in Bits : Bit(a, k) = Bit(b, k)
  PROVE  a = b
<1>1. a \in Int /\ 0 <= a /\ a < 2 ^ W /\ b \in Int /\ 0 <= b /\ b < 2 ^ W BY WordFacts
<1>2. CASE W = 2
  <2>1. 0 \in Bits /\ 1 \in Bits BY <1>2 DEF Bits
  <2>2. \A c : Bit(c, 0) = (c \div 1) % 2 /\ Bit(c, 1) = (c \div 2) % 2 BY PowersTo8 DEF Bit
  <2>3. (a \div 1) % 2 = (b \div 1) % 2 /\ (a \div 2) % 2 = (b \div 2) % 2 BY <2>1, <2>2
  <2>4. a < 4 /\ b < 4 BY <1>1, <1>2, Sizes
  <2>5. \A c \in 0 .. 3 : c = ((c \div 1) % 2) + 2 * ((c \div 2) % 2) OBVIOUS
  <2>6. a \in 0 .. 3 /\ b \in 0 .. 3 BY <1>1, <2>4
  <2> QED BY <2>3, <2>5, <2>6
<1>3. CASE W = 4
  <2>1. 0 \in Bits /\ 1 \in Bits /\ 2 \in Bits /\ 3 \in Bits BY <1>3 DEF Bits
  <2>2. \A c : /\ Bit(c, 0) = (c \div 1) % 2 /\ Bit(c, 1) = (c \div 2) % 2
               /\ Bit(c, 2) = (c \div 4) % 2 /\ Bit(c, 3) = (c \div 8) % 2
    BY PowersTo8 DEF Bit
  <2>3. /\ (a \div 1) % 2 = (b \div 1) % 2 /\ (a \div 2) % 2 = (b \div 2) % 2
        /\ (a \div 4) % 2 = (b \div 4) % 2 /\ (a \div 8) % 2 = (b \div 8) % 2
    BY <2>1, <2>2
  <2>4. a < 16 /\ b < 16 BY <1>1, <1>3, Sizes
  <2>5. \A c \in 0 .. 15 : c = ((c \div 1) % 2) + 2 * ((c \div 2) % 2) + 4 * ((c \div 4) % 2)
                                 + 8 * ((c \div 8) % 2)
    OBVIOUS
  <2>6. a \in 0 .. 15 /\ b \in 0 .. 15 BY <1>1, <2>4
  <2> QED BY <2>3, <2>5, <2>6
<1>4. CASE W = 8
  <2>1. /\ 0 \in Bits /\ 1 \in Bits /\ 2 \in Bits /\ 3 \in Bits
        /\ 4 \in Bits /\ 5 \in Bits /\ 6 \in Bits /\ 7 \in Bits
    BY <1>4 DEF Bits
  <2>2. \A c : /\ Bit(c, 0) = (c \div 1) % 2 /\ Bit(c, 1) = (c \div 2) % 2
               /\ Bit(c, 2) = (c \div 4) % 2 /\ Bit(c, 3) = (c \div 8) % 2
               /\ Bit(c, 4) = (c \div 16) % 2 /\ Bit(c, 5) = (c \div 32) % 2
               /\ Bit(c, 6) = (c \div 64) % 2 /\ Bit(c, 7) = (c \div 128) % 2
    BY PowersTo8 DEF Bit
  <2>3. /\ (a \div 1) % 2 = (b \div 1) % 2 /\ (a \div 2) % 2 = (b \div 2) % 2
        /\ (a \div 4) % 2 = (b \div 4) % 2 /\ (a \div 8) % 2 = (b \div 8) % 2
        /\ (a \div 16) % 2 = (b \div 16) % 2 /\ (a \div 32) % 2 = (b \div 32) % 2
        /\ (a \div 64) % 2 = (b \div 64) % 2 /\ (a \div 128) % 2 = (b \div 128) % 2
    BY <2>1, <2>2
  <2>4. a < 256 /\ b < 256 BY <1>1, <1>4, Sizes
  <2>5. \A c \in 0 .. 255 : c = ((c \div 1) % 2) + 2 * ((c \div 2) % 2) + 4 * ((c \div 4) % 2)
                                  + 8 * ((c \div 8) % 2) + 16 * ((c \div 16) % 2)
                                  + 32 * ((c \div 32) % 2) + 64 * ((c \div 64) % 2)
                                  + 128 * ((c \div 128) % 2)
    OBVIOUS
  <2>6. a \in 0 .. 255 /\ b \in 0 .. 255 BY <1>1, <2>4
  <2> QED BY <2>3, <2>5, <2>6
<1> QED BY <1>2, <1>3, <1>4, Sizes

\* The bits of the largest word.
LEMMA OnesBit == ASSUME NEW k \in Bits PROVE 2 ^ W - 1 \in Word /\ Bit(2 ^ W - 1, k) = 1
<1>1. 2 ^ W - 1 \in Word BY WordFacts
<1>2. k \in 0 .. 7 /\ k \in Int BY Sizes DEF Bits
<1>3. ASSUME NEW n, NEW p, n = 2 ^ W - 1, p = 2 ^ k, (n \div p) % 2 = 1 PROVE Bit(2 ^ W - 1, k) = 1
  BY <1>3 DEF Bit
<1>4. CASE W = 2
  <2>1. k \in {0, 1} BY <1>4 DEF Bits
  <2>2. 2 ^ W - 1 = 3 /\ 2 ^ k \in {1, 2}
    <3>1. 2 ^ W - 1 = 3 BY <1>4, Sizes
    <3>2. CASE k = 0 BY <3>1, <3>2, PowersTo8
    <3>3. CASE k = 1 BY <3>1, <3>3, PowersTo8
    <3> QED BY <2>1, <3>2, <3>3
  <2>3. (3 \div 1) % 2 = 1 /\ (3 \div 2) % 2 = 1 OBVIOUS
  <2> QED BY <1>1, <1>3, <2>2, <2>3
<1>5. CASE W = 4
  <2>1. k \in {0, 1, 2, 3} BY <1>5 DEF Bits
  <2>2. 2 ^ W - 1 = 15 /\ 2 ^ k \in {1, 2, 4, 8}
    <3>1. 2 ^ W - 1 = 15 BY <1>5, Sizes
    <3>2. CASE k = 0 BY <3>1, <3>2, PowersTo8
    <3>3. CASE k = 1 BY <3>1, <3>3, PowersTo8
    <3>4. CASE k = 2 BY <3>1, <3>4, PowersTo8
    <3>5. CASE k = 3 BY <3>1, <3>5, PowersTo8
    <3> QED BY <2>1, <3>2, <3>3, <3>4, <3>5
  <2>3. (15 \div 1) % 2 = 1 /\ (15 \div 2) % 2 = 1 /\ (15 \div 4) % 2 = 1 /\ (15 \div 8) % 2 = 1 OBVIOUS
  <2> QED BY <1>1, <1>3, <2>2, <2>3
<1>6. CASE W = 8
  <2>1. 2 ^ W - 1 = 255 BY <1>6, Sizes
  <2>2. 2 ^ k \in {1, 2, 4, 8, 16, 32, 64, 128} BY <1>2, PowerOf
  <2>3. \A p \in {1, 2, 4, 8, 16, 32, 64, 128} : (255 \div p) % 2 = 1 OBVIOUS
  <2> QED BY <1>1, <1>3, <2>1, <2>2, <2>3
<1> QED BY <1>4, <1>5, <1>6, Sizes

\* Operands that make an operation a move.
LEMMA NeutralOperand ==
  ASSUME NEW t \in BinaryOps, NEW a \in Word, NEW b \in Word
  PROVE  /\ b \in NeutralSrc(t) => Result(t, a, b) = a
         /\ a \in NeutralDst(t) => Result(t, a, b) = b
<1>1. /\ a \in Int /\ b \in Int /\ Signed(a) \in Int /\ Signed(b) \in Int /\ Mask(a) = a /\ Mask(b) = b
      /\ 0 \in Word /\ 1 \in Word
  <2>1. a \in Int /\ b \in Int /\ 0 \in Word /\ 1 \in Word BY WordFacts
  <2>2. Signed(a) \in Int /\ Signed(b) \in Int BY SignFacts
  <2>3. Mask(a) = a /\ Mask(b) = b BY MaskFacts
  <2> QED BY <2>1, <2>2, <2>3
<1>2. CASE t = "ADD"
  <2>1. Result(t, a, b) = Mask(a + b) /\ NeutralSrc(t) = {0} /\ NeutralDst(t) = {0}
    BY <1>2 DEF Result, NeutralSrc, NeutralDst
  <2>2. a + 0 = a /\ 0 + b = b BY <1>1
  <2> QED BY <1>1, <2>1, <2>2
<1>3. CASE t = "IMUL"
  <2>1. Result(t, a, b) = Mask(Signed(a) * Signed(b)) /\ NeutralSrc(t) = {1} /\ NeutralDst(t) = {1}
    BY <1>3 DEF Result, NeutralSrc, NeutralDst
  <2>2. Signed(1) = 1 BY <1>1, SignFacts, WordFacts
  <2>3. Signed(a) * 1 = Signed(a) /\ 1 * Signed(b) = Signed(b) BY <1>1
  <2>4. ASSUME NEW v \in Word PROVE Mask(Signed(v)) = v
    <3>1. v \in Int /\ Signed(v) = IF v >= Half THEN v - 2 ^ W ELSE v BY WordFacts, SignFacts
    <3>2. CASE v >= Half
      <4>1. 2 ^ W \in {4, 16, 256} /\ 0 <= v /\ v < 2 ^ W BY WordFacts
      <4>2. (v - 2 ^ W) % (2 ^ W) = v BY <3>1, <4>1
      <4> QED BY <3>1, <3>2, <4>2 DEF Mask
    <3>3. CASE ~(v >= Half) BY <3>1, <3>3, MaskFacts
    <3> QED BY <3>2, <3>3
  <2> QED BY <2>1, <2>2, <2>3, <2>4
<1>4. CASE t \in {"SHL", "SHR", "SAR"}
  <2>1. NeutralSrc(t) = {0} /\ NeutralDst(t) = {} BY <1>4 DEF NeutralSrc, NeutralDst
  <2>2. 0 % W = 0 /\ 2 ^ (0 % W) = 1
    <3>1. 0 % W = 0 BY Sizes
    <3> QED BY <3>1, PowersTo8
  <2>3. /\ Result("SHL", a, 0) = Mask(a * 1) /\ Result("SHR", a, 0) = a \div 1
        /\ Result("SAR", a, 0) = Mask(Signed(a) \div 1)
    BY <2>2 DEF Result, ShiftLeft, ShiftRight, ShiftSigned
  <2>4. a * 1 = a /\ a \div 1 = a /\ Signed(a) \div 1 = Signed(a) BY <1>1
  <2>5. Mask(Signed(a)) = a
    <3>1. Signed(a) = IF a >= Half THEN a - 2 ^ W ELSE a BY SignFacts
    <3>2. CASE a >= Half
      <4>1. 2 ^ W \in {4, 16, 256} /\ 0 <= a /\ a < 2 ^ W BY WordFacts
      <4>2. (a - 2 ^ W) % (2 ^ W) = a BY <1>1, <4>1
      <4> QED BY <3>1, <3>2, <4>2 DEF Mask
    <3>3. CASE ~(a >= Half) BY <1>1, <3>1, <3>3
    <3> QED BY <3>2, <3>3
  <2> QED BY <1>1, <1>4, <2>1, <2>3, <2>4, <2>5
<1>5. CASE t \in {"AND", "OR", "XOR", "SUB"}
  <2>1. NeutralDst(t) = {} BY <1>5 DEF NeutralDst
  <2>2. /\ t \in {"XOR", "SUB"} => NeutralSrc(t) = {}
        /\ t = "AND" => NeutralSrc(t) = {2 ^ W - 1}
        /\ t = "OR" => NeutralSrc(t) = {0}
    BY DEF NeutralSrc
  <2>3. \A k \in Bits : Bit(a, k) \in {0, 1} BY BitType, WordFacts
  <2>4. AndOf(a, 2 ^ W - 1) = a
    <3> DEFINE c == AndOf(a, 2 ^ W - 1)
    <3>1. 2 ^ W - 1 \in Word BY WordFacts
    <3>2. c \in Word /\ \A k \in Bits : Bit(c, k) = And(Bit(a, k), Bit(2 ^ W - 1, k))
      BY <3>1, BitwiseBits
    <3>3. ASSUME NEW k \in Bits PROVE Bit(c, k) = Bit(a, k)
      <4>1. Bit(2 ^ W - 1, k) = 1 BY OnesBit
      <4>2. Bit(c, k) = Bit(a, k) * 1 BY <3>2, <4>1 DEF And
      <4> QED BY <2>3, <4>2
    <3> HIDE DEF c
    <3>4. c = a BY <3>2, <3>3, SameBits
    <3> QED BY <3>4 DEF c
  <2>5. OrOf(a, 0) = a
    <3> DEFINE c == OrOf(a, 0)
    <3>2. c \in Word /\ \A k \in Bits : Bit(c, k) = Or(Bit(a, k), Bit(0, k))
      BY <1>1, BitwiseBits
    <3>3. ASSUME NEW k \in Bits PROVE Bit(c, k) = Bit(a, k)
      <4>1. Bit(0, k) = 0 BY ZeroBit
      <4>2. Bit(c, k) = Bit(a, k) + 0 - Bit(a, k) * 0 BY <3>2, <4>1 DEF Or
      <4> QED BY <2>3, <4>2
    <3> HIDE DEF c
    <3>4. c = a BY <3>2, <3>3, SameBits
    <3> QED BY <3>4 DEF c
  <2>6. Result("AND", a, b) = AndOf(a, b) /\ Result("OR", a, b) = OrOf(a, b) BY DEF Result
  <2> QED BY <1>5, <2>1, <2>2, <2>4, <2>5, <2>6
<1> QED BY <1>2, <1>3, <1>4, <1>5 DEF BinaryOps

\* What is live, and what is known, after an operation.
LEMMA CombinedLive ==
  ASSUME NEW s1 \in CaptureState, NEW s2 \in CaptureState, s1 # "DEAD", s2 # "DEAD"
  PROVE  /\ combineState(s1, s2, FALSE) # "DEAD" /\ combineState4Flags(s1, s2) # "DEAD"
         /\ csIsStatic(s1) /\ csIsStatic(s2) =>
              csIsStatic(combineState(s1, s2, FALSE)) /\ combineState4Flags(s1, s2) = "STATIC"
<1> DEFINE c == combineState(s1, s2, FALSE)
<1>1. c # "DEAD" BY DEF combineState, CaptureState
<1>2. csIsStatic(s1) /\ csIsStatic(s2) => csIsStatic(c)
  BY DEF combineState, CaptureState, csIsStatic
<1>3. combineState4Flags(s1, s2) =
        CASE c = "STACKRELATIVE" -> "DYNAMIC" [] c = "STATIC2" -> "STATIC" [] OTHER -> c
  BY DEF combineState4Flags
<1>4. c \in CaptureState BY CombinedState
<1> HIDE DEF c
<1>5. combineState4Flags(s1, s2) # "DEAD" BY <1>1, <1>3, <1>4 DEF CaptureState
<1>6. csIsStatic(c) => combineState4Flags(s1, s2) = "STATIC" BY <1>3 DEF csIsStatic
<1> QED BY <1>1, <1>2, <1>5, <1>6 DEF c

\* The result of an operation is known or computed from what is not dead.
LEMMA BinaryLive ==
  ASSUME NEW t \in BinaryOps, NEW v1, NEW v2, NEW same \in BOOLEAN,
         v1.state \in CaptureState, v2.state \in CaptureState,
         \/ t = "XOR" /\ same
         \/ v1.state # "DEAD" /\ v2.state # "DEAD"
  PROVE  /\ BinaryState(t, v1, v2, same) # "DEAD"
         /\ \/ csIsStatic(BinaryState(t, v1, v2, same))
            \/ /\ v1.state # "DEAD" /\ v2.state # "DEAD" /\ ~(IsStatic(v1) /\ IsStatic(v2))
<1> DEFINE s == BinaryState(t, v1, v2, same)
           c == combineState(v1.state, v2.state, FALSE)
           f == combineState4Flags(v1.state, v2.state)
<1>1. CASE t = "XOR" /\ same
  <2>1. s = "STATIC" BY <1>1 DEF BinaryState, BitState
  <2> QED BY <2>1 DEF csIsStatic
<1>2. CASE v1.state # "DEAD" /\ v2.state # "DEAD"
  <2>1. /\ c # "DEAD" /\ f # "DEAD"
        /\ IsStatic(v1) /\ IsStatic(v2) => csIsStatic(c) /\ f = "STATIC"
    BY <1>2, CombinedLive DEF IsStatic
  <2>2. s \in {"STATIC", c, f} /\ (s = c \/ s = f \/ s = "STATIC") BY DEF BinaryState, BitState
  <2>3. IsStatic(v1) /\ IsStatic(v2) => csIsStatic(s) BY <2>1, <2>2 DEF csIsStatic
  <2> HIDE DEF s, c, f
  <2>4. s # "DEAD" BY <2>1, <2>2
  <2> QED BY <1>2, <2>3, <2>4 DEF s
<1> QED BY <1>1, <1>2

\* Captured instructions do not depend on flags.
LEMMA SameCapture ==
  ASSUME NEW n, NEW e, SameData(n, e)
  PROVE  /\ \A o : applyStaticToInd(n, o) = applyStaticToInd(e, o)
         /\ \A o : opStateIsTracked(n, o) <=> opStateIsTracked(e, o)
         /\ \A j : Applied(n, j) = Applied(e, j)
<1>1. n.reg = e.reg /\ n.reg_state = e.reg_state BY DEF SameData
<1>2. \A o : applyStaticToInd(n, o) = applyStaticToInd(e, o) BY <1>1, Zenon DEF applyStaticToInd
<1>3. \A o : opStateIsTracked(n, o) <=> opStateIsTracked(e, o)
  <2> SUFFICES ASSUME NEW o PROVE opStateIsTracked(n, o) <=> opStateIsTracked(e, o)
    OBVIOUS
  <2>1. getOpAddr(n, o) = getOpAddr(e, o) BY SameOperands
  <2> QED BY <2>1, Zenon DEF opStateIsTracked
<1>4. \A j : Applied(n, j) = Applied(e, j)
  <2> SUFFICES ASSUME NEW j PROVE Applied(n, j) = Applied(e, j)
    OBVIOUS
  <2>1. /\ applyStaticToInd(n, j.dst) = applyStaticToInd(e, j.dst)
        /\ applyStaticToInd(n, j.src) = applyStaticToInd(e, j.src)
        /\ applyStaticToInd(n, j.src2) = applyStaticToInd(e, j.src2)
    BY <1>2
  <2> QED BY <2>1 DEF Applied
<1> QED BY <1>2, <1>3, <1>4

\* Writing what is there already.
LEMMA WriteSame ==
  ASSUME NEW m, m \in Machine, NEW o, o \in Operand, o.kind \in {"Reg", "Ind"}, NEW x, Value(m, o) = x
  PROVE  Write(m, o, x).reg = m.reg /\ Write(m, o, x).mem = m.mem
<1>1. CASE o.kind = "Reg"
  <2>1. o.reg \in Regs /\ m.reg[o.reg] = x BY <1>1, OperandFields DEF Value
  <2>2. Write(m, o, x) = [m EXCEPT !.reg[o.reg] = x] BY <1>1 DEF Write
  <2> QED BY <2>1, <2>2 DEF Machine
<1>2. CASE o.kind = "Ind"
  <2>1. m.mem[AddrOf(m, o)] = x BY <1>2 DEF Value
  <2>2. Write(m, o, x) = [m EXCEPT !.mem[AddrOf(m, o)] = x] BY <1>2 DEF Write
  <2> QED BY <2>1, <2>2 DEF Machine
<1> QED BY <1>1, <1>2

\* Flags are lost where the operation that sets them is not captured.
LEMMA FlagsGone ==
  ASSUME NEW i, NEW e, NEW out, NEW m, NEW k,
         \/ i.type \in {"NEG", "SHL", "SHR", "SAR", "IMUL", "IDIV"}
         \/ /\ i.type \in {"ADD", "SUB", "AND", "OR", "XOR", "CMP", "TEST"}
            /\ ~(out # <<>> /\ Last(out).type = i.type)
  PROVE  FlagsCaptured(e, m, k, LostBy(i, e, out))
<1> DEFINE L == LostBy(i, e, out)
           known == { f \in FlagType : e.flag_state[f] = "STATIC" }
<1>1. FlagType \ known \subseteq L
  <2>1. CASE i.type \in {"NEG", "SHL", "SHR", "SAR", "IMUL", "IDIV"}
    <3>1. FlagType \subseteq L BY <2>1, LostOf
    <3> HIDE DEF L, known
    <3> QED BY <3>1
  <2>2. CASE /\ i.type \in {"ADD", "SUB", "AND", "OR", "XOR", "CMP", "TEST"}
             /\ ~(out # <<>> /\ Last(out).type = i.type)
    BY <2>2 DEF LostBy
  <2> QED BY <2>1, <2>2
<1> HIDE DEF L
<1>2. UnknownFlags(e, L) = {} BY <1>1 DEF UnknownFlags
<1> QED BY <1>2 DEF FlagsCaptured, L

\* Flags that are the same.
LEMMA FlagsAlike ==
  ASSUME NEW e, NEW m, NEW k, m.flag = k.flag
  PROVE  \A L : FlagsCaptured(e, m, k, L)
  BY DEF FlagsCaptured

\* Operations, on the processor.
LEMMA OperateExec ==
  ASSUME NEW m, m \in Machine, NEW j, j.type \in BinaryOps, j.src2 = NoOp,
         j.dst \in Operand, j.dst.kind \in {"Reg", "Ind"},
         NEW a, a = Value(m, j.dst), a \in Word, NEW b, b = Value(m, j.src), b \in Word
  PROVE  LET x == Result(j.type, a, b)
             k == Exec(m, j)
         IN /\ k \in Machine /\ k.vec = m.vec /\ x \in Word
            /\ k.reg = Write(m, j.dst, x).reg /\ k.mem = Write(m, j.dst, x).mem
            /\ k.flag = FlagsAfter(j.type, a, b, m.flag)
<1> DEFINE x == Result(j.type, a, b)
           w == Write(m, j.dst, x)
           fl == FlagsAfter(j.type, a, b, m.flag)
<1>1. Exec(m, j) = Operate(m, j, a, b)
  <2>1. CASE j.type = "IMUL" BY <2>1, ExecOf
  <2>2. CASE j.type # "IMUL" BY <2>2, ExecOf
  <2> QED BY <2>1, <2>2
<1>2. Operate(m, j, a, b) = [w EXCEPT !.flag = fl] BY DEF Operate, BinaryOps
<1>3. x \in Word BY ResultFacts
<1>4. fl \in [FlagType -> BOOLEAN]
  <2>1. m.flag \in [FlagType -> BOOLEAN] BY DEF Machine
  <2> QED BY <2>1, FlagsAfterType
<1> HIDE DEF x, fl
<1>5. w \in Machine /\ w.vec = m.vec BY <1>3, WriteFields
<1> HIDE DEF w
<1>6. [w EXCEPT !.flag = fl].vec = w.vec BY <1>5 DEF Machine
<1>7. /\ [w EXCEPT !.flag = fl] \in Machine /\ [w EXCEPT !.flag = fl].flag = fl
      /\ [w EXCEPT !.flag = fl].reg = w.reg /\ [w EXCEPT !.flag = fl].mem = w.mem
  BY <1>4, <1>5 DEF Machine
<1> QED BY <1>1, <1>2, <1>3, <1>5, <1>6, <1>7 DEF x, fl, w

\* Captured instructions one after the other.
LEMMA Joined ==
  /\ \A a, b : << a >> \o << b >> = << a, b >>
  /\ \A a, b, c : << a, b >> \o << c >> = << a, b, c >>
  /\ \A a : <<>> \o << a >> = << a >>
<1>1. ASSUME NEW a, NEW b PROVE << a >> \o << b >> = << a, b >>
  <2> DEFINE s == << a >> \o << b >>
  <2>1. << a >> \in Seq({a, b}) /\ << b >> \in Seq({a, b}) OBVIOUS
  <2>2. s \in Seq({a, b}) /\ Len(s) = 2 /\ s[1] = a /\ s[2] = b BY <2>1
  <2> HIDE DEF s
  <2>3. s = [ n \in 1 .. 2 |-> s[n] ] BY <2>2
  <2>4. [ n \in 1 .. 2 |-> s[n] ] = << s[1], s[2] >> OBVIOUS
  <2>5. s = << a, b >> BY <2>2, <2>3, <2>4
  <2> QED BY <2>5 DEF s
<1>2. ASSUME NEW a, NEW b, NEW c PROVE << a, b >> \o << c >> = << a, b, c >>
  <2> DEFINE s == << a, b >> \o << c >>
  <2>1. << a, b >> \in Seq({a, b, c}) /\ << c >> \in Seq({a, b, c}) OBVIOUS
  <2>2. s \in Seq({a, b, c}) /\ Len(s) = 3 /\ s[1] = a /\ s[2] = b /\ s[3] = c BY <2>1
  <2> HIDE DEF s
  <2>3. s = [ n \in 1 .. 3 |-> s[n] ] BY <2>2
  <2>4. [ n \in 1 .. 3 |-> s[n] ] = << s[1], s[2], s[3] >> OBVIOUS
  <2>5. s = << a, b, c >> BY <2>2, <2>3, <2>4
  <2> QED BY <2>5 DEF s
<1>3. ASSUME NEW a PROVE <<>> \o << a >> = << a >>
  OBVIOUS
<1> QED BY <1>1, <1>2, <1>3

\* What captureBinaryOp captures.
LEMMA BinaryCapture ==
  ASSUME NEW e, NEW i, NEW v, NEW force, NEW d, d = getOpValue(e, i.dst), NEW s, s = getOpValue(e, i.src),
         NEW out, out = captureBinaryOp(e, i, v, force), v.state # "DEAD",
         NEW j, j = Applied(e, Binary(i.type, i.dst, IF IsStatic(s) THEN Imm(s.val) ELSE i.src))
  PROVE  /\ IsStatic(v) /\ ~force /\ opStateIsTracked(e, i.dst) => out = <<>>
         /\ IsStatic(v) /\ ~(~force /\ opStateIsTracked(e, i.dst)) => out = << Applied(e, LoadImm(i.dst, v)) >>
         /\ Unknown(v.state) /\ opStateIsTracked(e, i.dst) /\ IsStatic(d) =>
              IF d.val \in NeutralDst(i.type) THEN out = << Applied(e, Binary("MOV", i.dst, i.src)) >>
              ELSE ~IsStatic(s) => out = << LoadImm(i.dst, d), j >>
         /\ Unknown(v.state) /\ ~(opStateIsTracked(e, i.dst) /\ IsStatic(d)) =>
              IF IsStatic(s) /\ s.val \in NeutralSrc(i.type) THEN out = <<>> ELSE out = << j >>
<1>1. Unknown(v.state) => ~IsStatic(v) BY DEF Unknown, IsStatic, csIsStatic
<1>2. IsStatic(v) /\ ~force /\ opStateIsTracked(e, i.dst) => out = <<>>
  BY DEF captureBinaryOp, IsStatic, csIsStatic
<1>3. IsStatic(v) /\ ~(~force /\ opStateIsTracked(e, i.dst)) => out = << Applied(e, LoadImm(i.dst, v)) >>
  BY DEF captureBinaryOp, IsStatic, csIsStatic
<1>4. ASSUME Unknown(v.state), opStateIsTracked(e, i.dst), IsStatic(d)
      PROVE  IF d.val \in NeutralDst(i.type) THEN out = << Applied(e, Binary("MOV", i.dst, i.src)) >>
             ELSE ~IsStatic(s) => out = << LoadImm(i.dst, d), j >>
  <2>1. CASE d.val \in NeutralDst(i.type) BY <1>1, <1>4, <2>1 DEF captureBinaryOp, Unknown
  <2>2. CASE d.val \notin NeutralDst(i.type) /\ ~IsStatic(s)
    <3>1. out = << LoadImm(i.dst, d) >> \o << j >> BY <1>1, <1>4, <2>2 DEF captureBinaryOp, Unknown
    <3>2. << LoadImm(i.dst, d) >> \o << j >> = << LoadImm(i.dst, d), j >> BY Joined
    <3> QED BY <2>2, <3>1, <3>2
  <2> QED BY <2>1, <2>2
<1>5. ASSUME Unknown(v.state), ~(opStateIsTracked(e, i.dst) /\ IsStatic(d))
      PROVE  IF IsStatic(s) /\ s.val \in NeutralSrc(i.type) THEN out = <<>> ELSE out = << j >>
  <2>1. CASE IsStatic(s) /\ s.val \in NeutralSrc(i.type)
    BY <1>1, <1>5, <2>1 DEF captureBinaryOp, Unknown
  <2>2. CASE ~(IsStatic(s) /\ s.val \in NeutralSrc(i.type))
    <3>1. out = <<>> \o << j >> BY <1>1, <1>5, <2>2 DEF captureBinaryOp, Unknown
    <3>2. <<>> \o << j >> = << j >> OBVIOUS
    <3> QED BY <2>2, <3>1, <3>2
  <2> QED BY <2>1, <2>2
<1> QED BY <1>2, <1>3, <1>4, <1>5

\* The last of what is captured.
LEMMA LastOf ==
  /\ \A a : << a >> # <<>> /\ Last(<< a >>) = a
  /\ \A a, b : << a, b >> # <<>> /\ Last(<< a, b >>) = b
  /\ \A a, b, c : << a, b, c >> # <<>> /\ Last(<< a, b, c >>) = c
  BY DEF Last

\* How an instruction's captured code stores its result x (as v), after loading.
Captures(i, e1, v, x, m2, out) ==
  /\ \E n : Loaded(n) /\ Stores(i, n, ExecAll(new, out), v, x)
  /\ FlagsCaptured(e1, m2, ExecAll(new, out), LostBy(i, e1, out))

\* An operation, captured with a destination that holds what it should hold.
LEMMA OperationCaptured ==
  ASSUME NEW i, Ready(i), i.type \in BinaryOps, i.src2 = NoOp,
         NEW x1, x1 = Value(orig, i.dst), x1 \in Word, NEW x2, x2 = Value(orig, i.src), x2 \in Word,
         i.dst \in Operand, i.dst.kind \in {"Reg", "Ind"},
         NEW n, Loaded(n), NEW s, NEW j, j = Ternary(i.type, applyStaticToInd(es, i.dst), s, NoOp),
         Value(n, applyStaticToInd(es, i.dst)) = x1, Value(n, s) = x2,
         NEW v, NEW e1, NEW m2, m2.flag = FlagsAfter(i.type, x1, x2, orig.flag),
         NEW out, Exec(n, j) = ExecAll(new, out), out # <<>>, Last(out).type = i.type
  PROVE  Captures(i, e1, v, Result(i.type, x1, x2), m2, out)
<1> DEFINE c == applyStaticToInd(es, i.dst)
           k == ExecAll(new, out)
           x == Result(i.type, x1, x2)
           fl == FlagsAfter(i.type, x1, x2, n.flag)
<1>1. n \in Machine /\ es \in EmuState BY ExecutableFacts DEF Loaded, Ready
<1>2. c \in Operand /\ c.kind = i.dst.kind BY <1>1, AppliedOperand
<1> HIDE DEF c
<1>3. j.type = i.type /\ j.dst = c /\ j.src = s /\ j.src2 = NoOp BY DEF Ternary, c
<1>4. x1 = Value(n, c) /\ x2 = Value(n, s) BY DEF c
<1> HIDE DEF k, x, fl
<1>5. /\ k \in Machine /\ k.vec = n.vec /\ k.flag = fl
      /\ k.reg = Write(n, c, x).reg /\ k.mem = Write(n, c, x).mem
  <2>1. /\ Exec(n, j) \in Machine /\ Exec(n, j).vec = n.vec
        /\ Exec(n, j).reg = Write(n, j.dst, Result(j.type, x1, x2)).reg
        /\ Exec(n, j).mem = Write(n, j.dst, Result(j.type, x1, x2)).mem
        /\ Exec(n, j).flag = FlagsAfter(j.type, x1, x2, n.flag)
    <3>1. j.type \in BinaryOps /\ j.dst \in Operand /\ j.dst.kind \in {"Reg", "Ind"} BY <1>2, <1>3
    <3>2. x1 = Value(n, j.dst) /\ x2 = Value(n, j.src) BY <1>3, <1>4
    <3> QED BY <1>1, <1>3, <3>1, <3>2, OperateExec
  <2> QED BY <1>3, <2>1 DEF k, x, fl
<1>6. Stores(i, n, k, v, x) BY <1>5 DEF Stores, c
<1>7. FlagsCaptured(e1, m2, k, LostBy(i, e1, out))
  <2>1. CASE i.type \in {"ADD", "SUB", "AND", "OR", "XOR"}
    <3>1. fl = m2.flag BY <2>1 DEF FlagsAfter, fl
    <3> QED BY <1>5, <3>1, FlagsAlike
  <2>2. CASE i.type \in {"SHL", "SHR", "SAR", "IMUL"} BY <2>2, FlagsGone
  <2> QED BY <2>1, <2>2 DEF BinaryOps
<1> QED BY <1>6, <1>7 DEF Captures, k, x

\* Operations with two operands, with known registers resolved.
LEMMA AppliedBinary ==
  ASSUME NEW e, NEW t, NEW d, NEW o, NEW j, j = Applied(e, Binary(t, d, o))
  PROVE  j = Ternary(t, applyStaticToInd(e, d), applyStaticToInd(e, o), NoOp) /\ j.type = t
<1> DEFINE i == Binary(t, d, o)
<1>1. i = [ type |-> t, dst |-> d, src |-> o, src2 |-> NoOp ] BY DEF Binary, Ternary
<1> HIDE DEF i
<1>2. j = [i EXCEPT !.dst = applyStaticToInd(e, i.dst), !.src = applyStaticToInd(e, i.src),
                    !.src2 = applyStaticToInd(e, i.src2)]
  BY DEF Applied, i
<1>3. applyStaticToInd(e, NoOp) = NoOp BY DEF applyStaticToInd, NoOp
<1> QED BY <1>1, <1>2, <1>3 DEF Ternary

\* Operations with two operands (captureBinaryOp).  IMUL with three is captured wrong.
LEMMA BinaryComputes ==
  ASSUME NEW i, Ready(i), i.type \in BinaryOps, i.src2 = NoOp, NEW force
  PROVE  Computes(i, emulateBinary(es, i, force))
<1> DEFINE t    == i.type
           same == i.dst = i.src
           v1   == getOpValue(es, i.dst)
           v2   == getOpValue(es, i.src)
           x1   == Value(orig, i.dst)
           x2   == Value(orig, i.src)
           v    == EmuValue(BinaryResult(t, v1.val, v2.val), BinaryState(t, v1, v2, same))
           f    == Forced(v, force)
           e1   == BinaryFlags(es, t, v1, v2, same)
           x    == Result(t, x1, x2)
           fl   == FlagsAfter(t, x1, x2, orig.flag)
           out  == captureBinaryOp(e1, i, v, force)
           k    == ExecAll(new, out)
           m2   == Exec(orig, i)
           c    == applyStaticToInd(es, i.dst)
           tracked == opStateIsTracked(es, i.dst)
<1>1. i.dst.kind \in {"Reg", "Ind"} /\ i.src.kind \in {"Reg", "Imm", "Ind"}
  BY DEF Ready, Executable, WellFormed, BinaryOps, CMovFlag
<1>2. t \in BinaryOps /\ t \notin {"MOV", "LEA", "POP", "VSTORE", "VGET", "PUSH", "CMP", "TEST", "CALL",
                                    "RET", "IDIV", "LEAVE"}
  BY DEF BinaryOps
<1>3. /\ i.dst \in Operands(i) /\ i.src \in Operands(i) /\ i.dst \in Reads(i) /\ i.src \in Reads(i)
      /\ i.dst # NoOp /\ i.src # NoOp
  BY <1>1, <1>2 DEF Operands, NoOp, Reads, WriteOnly
<1>4. /\ i.dst \in Operand /\ orig \in Machine /\ es \in EmuState /\ Proper(es)
      /\ Means(v1, x1) /\ Means(v2, x2)
  BY <1>2, <1>3, ExecutableFacts DEF Ready, Executable
<1>5. /\ x1 \in Word /\ x2 \in Word /\ v1.state \in CaptureState /\ v2.state \in CaptureState
      /\ (IsStatic(v1) => v1.val = x1) /\ (IsStatic(v2) => v2.val = x2)
  BY <1>4 DEF Means, MeansValue, IsStatic
<1>6. same \in BOOLEAN /\ (t = "XOR" /\ same => v1 = v2 /\ x1 = x2) OBVIOUS
<1>7. /\ t \notin {"ADD", "AND", "OR", "XOR"} => v2.state # "STACKRELATIVE"
      /\ t \notin {"ADD", "SUB", "AND", "OR", "XOR"} => v1.state # "STACKRELATIVE"
  <2>1. /\ t \in BinaryOps \ {"ADD", "AND", "OR", "XOR"} =>
             ~(i.src # NoOp /\ getOpValue(es, i.src).state = "STACKRELATIVE")
        /\ t \in BinaryOps \ {"ADD", "SUB", "AND", "OR", "XOR"} =>
             ~(i.dst # NoOp /\ getOpValue(es, i.dst).state = "STACKRELATIVE")
    BY DEF Ready, Executable, WithinLimits, RelativeLimit
  <2> QED BY <1>2, <1>3, <2>1
<1>8. \/ t = "XOR" /\ same
      \/ v1.state # "DEAD" /\ v2.state # "DEAD"
  <2>1. Harmless(i) => t = "XOR" /\ same BY <1>2 DEF Harmless
  <2> QED BY <1>2, <1>3, <2>1 DEF Ready, Defined
<1>9. emulateBinary(es, i, force) = Assign(e1, i.dst, f, out) BY DEF emulateBinary
<1>10. Captured /\ Loaded(new) /\ new \in Machine BY NothingLoaded DEF Ready, Captured
<1> HIDE DEF v1, v2, x1, x2, same
<1>11. Means(v, x) /\ v.state = BinaryState(t, v1, v2, same)
  BY <1>2, <1>4, <1>6, <1>7, BinaryMeans DEF EmuValue
<1>12. /\ v.state # "DEAD" /\ v.state \in CaptureState
       /\ IsStatic(v) \/ (v1.state # "DEAD" /\ v2.state # "DEAD" /\ ~(IsStatic(v1) /\ IsStatic(v2)))
  BY <1>2, <1>5, <1>6, <1>8, <1>11, BinaryLive DEF IsStatic, Means
<1>13. Proper(e1) /\ SameData(e1, es)
  <2>1. KnownFlags(e1, es, FlagsComputed(t), fl) BY <1>2, <1>4, <1>6, BinaryFlagsSet
  <2> QED BY <2>1 DEF KnownFlags
<1>14. x \in Word /\ (IsStatic(v) => v.val = x) /\ Means(f, x)
  <2>1. Means(f, x) BY <1>11, ForcedMeans
  <2> QED BY <1>11, <2>1 DEF Means, MeansValue, IsStatic
<1>15. /\ m2 \in Machine /\ m2.vec = orig.vec /\ m2.flag = fl
       /\ m2.reg = Write(orig, i.dst, x).reg /\ m2.mem = Write(orig, i.dst, x).mem
  BY <1>1, <1>4, <1>5, OperateExec DEF x1, x2
<1>16. /\ \A o : getOpValue(e1, o) = getOpValue(es, o)
       /\ \A o : applyStaticToInd(e1, o) = applyStaticToInd(es, o)
       /\ \A o : opStateIsTracked(e1, o) <=> opStateIsTracked(es, o)
       /\ \A j : Applied(e1, j) = Applied(es, j)
  BY <1>13, SameCapture, SameOperands
<1>17. c \in Operand /\ c.kind = i.dst.kind BY <1>4, AppliedOperand
<1> DEFINE j == Applied(es, Binary(t, i.dst, IF IsStatic(v2) THEN Imm(v2.val) ELSE i.src))
<1>18. /\ IsStatic(v) /\ ~force /\ tracked => out = <<>>
       /\ IsStatic(v) /\ ~(~force /\ tracked) => out = << Applied(es, LoadImm(i.dst, v)) >>
       /\ Unknown(v.state) /\ tracked /\ IsStatic(v1) =>
            IF v1.val \in NeutralDst(t) THEN out = << Applied(es, Binary("MOV", i.dst, i.src)) >>
            ELSE ~IsStatic(v2) => out = << LoadImm(i.dst, v1), j >>
       /\ Unknown(v.state) /\ ~(tracked /\ IsStatic(v1)) =>
            IF IsStatic(v2) /\ v2.val \in NeutralSrc(t) THEN out = <<>> ELSE out = << j >>
  <2>1. v1 = getOpValue(e1, i.dst) /\ v2 = getOpValue(e1, i.src) BY <1>16 DEF v1, v2
  <2>2. j = Applied(e1, Binary(i.type, i.dst, IF IsStatic(v2) THEN Imm(v2.val) ELSE i.src)) BY <1>16
  <2>3. /\ Applied(e1, LoadImm(i.dst, v)) = Applied(es, LoadImm(i.dst, v))
        /\ Applied(e1, Binary("MOV", i.dst, i.src)) = Applied(es, Binary("MOV", i.dst, i.src))
        /\ opStateIsTracked(e1, i.dst) <=> tracked
    BY <1>16
  <2>4. out = captureBinaryOp(e1, i, v, force) OBVIOUS
  <2> HIDE DEF j, e1, v, out, tracked
  <2>5. /\ IsStatic(v) /\ ~force /\ opStateIsTracked(e1, i.dst) => out = <<>>
        /\ IsStatic(v) /\ ~(~force /\ opStateIsTracked(e1, i.dst)) => out = << Applied(e1, LoadImm(i.dst, v)) >>
        /\ Unknown(v.state) /\ opStateIsTracked(e1, i.dst) /\ IsStatic(v1) =>
              IF v1.val \in NeutralDst(i.type) THEN out = << Applied(e1, Binary("MOV", i.dst, i.src)) >>
              ELSE ~IsStatic(v2) => out = << LoadImm(i.dst, v1), j >>
        /\ Unknown(v.state) /\ ~(opStateIsTracked(e1, i.dst) /\ IsStatic(v1)) =>
              IF IsStatic(v2) /\ v2.val \in NeutralSrc(i.type) THEN out = <<>> ELSE out = << j >>
    BY <1>12, <2>1, <2>2, <2>4, BinaryCapture
  <2> QED BY <2>3, <2>5
<1>19. i.src.kind = "Imm" => IsStatic(v2)
  BY DEF v2, getOpValue, EmuValue, IsStatic, csIsStatic
<1>20. ASSUME NEW n, Loaded(n), ~IsStatic(v2), v2.state # "DEAD"
       PROVE  Value(n, applyStaticToInd(es, i.src)) = x2
  BY <1>2, <1>3, <1>20, ReadOperand DEF v2, x2
<1>21. ASSUME v1.state # "DEAD", tracked => ~IsStatic(v1) PROVE Value(new, c) = x1
  BY <1>2, <1>3, <1>10, <1>21, ReadOperand DEF v1, x1
<1>22. ASSUME NEW n, Loaded(n), v2.state # "DEAD"
       PROVE  Value(n, applyStaticToInd(es, IF IsStatic(v2) THEN Imm(v2.val) ELSE i.src)) = x2
  <2>1. CASE ~IsStatic(v2) BY <1>20, <1>22, <2>1
  <2>2. CASE IsStatic(v2)
    <3>1. applyStaticToInd(es, Imm(v2.val)) = Imm(v2.val) /\ Value(n, Imm(v2.val)) = v2.val
      BY DEF applyStaticToInd, Imm, NoOp, Value
    <3> QED BY <1>5, <2>2, <3>1
  <2> QED BY <2>1, <2>2
<1>23. j = Ternary(t, c, applyStaticToInd(es, IF IsStatic(v2) THEN Imm(v2.val) ELSE i.src), NoOp) /\ j.type = t
  <2> DEFINE o == IF IsStatic(v2) THEN Imm(v2.val) ELSE i.src
  <2>1. j = Applied(es, Binary(t, i.dst, o)) OBVIOUS
  <2> HIDE DEF o, j
  <2>2. j = Ternary(t, applyStaticToInd(es, i.dst), applyStaticToInd(es, o), NoOp) /\ j.type = t
    BY <2>1, AppliedBinary
  <2> QED BY <2>2 DEF o
<1> DEFINE s == applyStaticToInd(es, IF IsStatic(v2) THEN Imm(v2.val) ELSE i.src)
<1> HIDE DEF v, f, e1, x, fl, out, m2, c, tracked, j, s
<1>24. Captures(i, e1, f, x, m2, out)
  <2>1. CASE IsStatic(v) /\ ~force /\ tracked
    <3>1. out = <<>> BY <1>18, <2>1
    <3>2. f = v BY <2>1 DEF Forced, f
    <3>3. ~Unknown(f.state) BY <2>1, <3>2 DEF Unknown, IsStatic, csIsStatic
    <3>4. k = new BY <3>1, ExecAllOf
    <3>5. Stores(i, new, k, f, x) BY <1>10, <2>1, <3>3, <3>4 DEF Stores, tracked
    <3>6. FlagsCaptured(e1, m2, k, LostBy(i, e1, out)) BY <1>2, <3>1, FlagsGone DEF BinaryOps
    <3> QED BY <1>10, <3>5, <3>6 DEF Captures
  <2>2. CASE IsStatic(v) /\ ~(~force /\ tracked)
    <3> DEFINE l == Applied(es, LoadImm(i.dst, v))
    <3>1. out = << l >> BY <1>18, <2>2
    <3>2. Exec(new, l) = Write(new, c, v.val) BY MoveExec DEF c
    <3>3. l.type = "MOV" BY DEF Applied, LoadImm, Binary, Ternary
    <3> HIDE DEF l
    <3>4. k = Write(new, c, x) BY <1>14, <2>2, <3>1, <3>2, ExecAllOf
    <3>5. Write(new, c, x) \in Machine /\ Write(new, c, x).vec = new.vec
      BY <1>1, <1>10, <1>14, <1>17, WriteFields
    <3>6. Stores(i, new, k, f, x) BY <3>4, <3>5 DEF Stores, c
    <3>7. Last(out).type = "MOV" BY <3>1, <3>3, LastOf
    <3>8. FlagsCaptured(e1, m2, k, LostBy(i, e1, out)) BY <1>2, <3>7, FlagsGone DEF BinaryOps
    <3> QED BY <1>10, <3>6, <3>8 DEF Captures
  <2>3. CASE Unknown(v.state) /\ tracked /\ IsStatic(v1) /\ v1.val \in NeutralDst(t)
    <3> DEFINE l == Applied(es, Binary("MOV", i.dst, i.src))
    <3>0. ~IsStatic(v2) /\ v2.state # "DEAD" BY <1>12, <2>3 DEF Unknown, IsStatic, csIsStatic
    <3>1. out = << l >> BY <1>18, <2>3
    <3>2. Exec(new, l) = Write(new, c, Value(new, applyStaticToInd(es, i.src))) BY MoveExec DEF c
    <3>3. l.type = "MOV" BY DEF Applied, Binary, Ternary
    <3> HIDE DEF l
    <3>4. x = x2 BY <1>2, <1>5, <2>3, NeutralOperand DEF x
    <3>5. Value(new, applyStaticToInd(es, i.src)) = x BY <1>10, <1>20, <3>0, <3>4
    <3>6. k = Write(new, c, x) BY <3>1, <3>2, <3>5, ExecAllOf
    <3>7. Write(new, c, x) \in Machine /\ Write(new, c, x).vec = new.vec
      BY <1>1, <1>10, <1>14, <1>17, WriteFields
    <3>8. Stores(i, new, k, f, x) BY <3>6, <3>7 DEF Stores, c
    <3>9. Last(out).type = "MOV" BY <3>1, <3>3, LastOf
    <3>10. FlagsCaptured(e1, m2, k, LostBy(i, e1, out)) BY <1>2, <3>9, FlagsGone DEF BinaryOps
    <3> QED BY <1>10, <3>8, <3>10 DEF Captures
  <2>4. CASE Unknown(v.state) /\ tracked /\ IsStatic(v1) /\ v1.val \notin NeutralDst(t)
    <3>0. ~IsStatic(v2) /\ v2.state # "DEAD" BY <1>12, <2>4 DEF Unknown, IsStatic, csIsStatic
    <3> DEFINE l == LoadImm(i.dst, v1)
               n == Write(new, c, v1.val)
    <3>1. out = << l, j >> BY <1>18, <2>4, <3>0
    <3>2. c = i.dst
      <4>1. CASE i.dst.kind = "Reg" BY <4>1 DEF c, applyStaticToInd
      <4>2. CASE i.dst.kind = "Ind"
        <5>1. \A r \in {i.dst.reg, i.dst.ireg} \ {"None"} : ~csIsStatic(es.reg_state[r])
          BY <1>2, <2>4, <3>0, <4>2 DEF Ready, Executable, WithinLimits, LoadLimit, v1, v2
        <5> QED BY <1>4, <4>2, <5>1, AppliedOperand DEF c
      <4> QED BY <1>1, <4>1, <4>2
    <3>3. Exec(new, l) = n BY <3>2, MoveExec
    <3>4. Loaded(n) /\ Value(n, c) = x1
      BY <1>1, <1>2, <1>3, <1>10, <2>4, OperandLoaded DEF v1, x1, c
    <3> HIDE DEF l, n
    <3>5. ExecAll(new, out) = Exec(n, j) BY <3>1, <3>3, ExecAllOf
    <3>6. out # <<>> /\ Last(out).type = t BY <1>23, <3>1, LastOf
    <3>7. Value(n, s) = x2 BY <1>22, <3>0, <3>4 DEF s
    <3>8. j = Ternary(i.type, applyStaticToInd(es, i.dst), s, NoOp) BY <1>23 DEF s, c
    <3> QED BY <1>1, <1>2, <1>4, <1>5, <1>15, <3>4, <3>5, <3>6, <3>7, <3>8, OperationCaptured
        DEF x, fl, c, x1, x2
  <2>5. CASE Unknown(v.state) /\ ~(tracked /\ IsStatic(v1))
    <3>0. /\ ~(IsStatic(v1) /\ IsStatic(v2)) /\ v1.state # "DEAD" /\ v2.state # "DEAD"
      BY <1>12, <2>5 DEF Unknown, IsStatic, csIsStatic
    <3>1. Value(new, c) = x1 BY <1>21, <2>5, <3>0
    <3>2. CASE IsStatic(v2) /\ v2.val \in NeutralSrc(t)
      <4>1. out = <<>> BY <1>18, <2>5, <3>2
      <4>2. x = x1 BY <1>2, <1>5, <3>2, NeutralOperand DEF x
      <4>3. k = new BY <4>1, ExecAllOf
      <4>4. Write(new, c, x).reg = new.reg /\ Write(new, c, x).mem = new.mem
        BY <1>1, <1>10, <1>17, <3>1, <4>2, WriteSame
      <4>5. Stores(i, new, k, f, x) BY <1>10, <4>3, <4>4 DEF Stores, c
      <4>6. FlagsCaptured(e1, m2, k, LostBy(i, e1, out)) BY <1>2, <4>1, FlagsGone DEF BinaryOps
      <4> QED BY <1>10, <4>5, <4>6 DEF Captures
    <3>3. CASE ~(IsStatic(v2) /\ v2.val \in NeutralSrc(t))
      <4>1. out = << j >> BY <1>18, <2>5, <3>3
      <4>2. ExecAll(new, out) = Exec(new, j) BY <4>1, ExecAllOf
      <4>3. out # <<>> /\ Last(out).type = t BY <1>23, <4>1, LastOf
      <4>4. Value(new, s) = x2 BY <1>10, <1>22, <3>0 DEF s
      <4>5. j = Ternary(i.type, applyStaticToInd(es, i.dst), s, NoOp) BY <1>23 DEF s, c
      <4> QED BY <1>1, <1>2, <1>4, <1>5, <1>10, <1>15, <3>1, <4>2, <4>3, <4>4, <4>5, OperationCaptured
          DEF x, fl, c, x1, x2
    <3> QED BY <3>2, <3>3
  <2> QED BY <1>12, <2>1, <2>2, <2>3, <2>4, <2>5, UnknownStates DEF IsStatic
<1>25. PICK n : Loaded(n) /\ Stores(i, n, ExecAll(new, out), f, x) BY <1>24 DEF Captures
<1>26. FlagsCaptured(e1, m2, ExecAll(new, out), LostBy(i, e1, out)) BY <1>24 DEF Captures
<1>27. m2 = Exec(orig, i) BY DEF m2
<1>28. Computes(i, Assign(e1, i.dst, f, out))
  BY <1>1, <1>2, <1>13, <1>14, <1>15, <1>25, <1>26, <1>27, AssignComputes
<1> QED BY <1>9, <1>28 DEF f, out, e1, v, v1, v2, same

\* Registers that are the same as before.
LEMMA RegsStay ==
  ASSUME Captured, NEW e2, NEW m2, NEW n, Loaded(n), NEW k2,
         e2.reg_state = es.reg_state, m2.reg = orig.reg, k2.reg = n.reg
  PROVE  RegsComputed(e2, m2, k2, skew)
<1>1. RegsComputed(es, orig, new, skew) BY DEF Captured, Computed
<1>2. "SP" \in Regs BY MachineAssumption
<1>3. \A r \in Regs : Unknown(es.reg_state[r]) => k2.reg[r] = new.reg[r] BY DEF Loaded
<1> QED BY <1>1, <1>2, <1>3 DEF RegsComputed

\* Instructions that only set flags.
LEMMA FlagsComputes ==
  ASSUME NEW i, Ready(i), i.type \in {"CMP", "TEST"}, NEW e1, SameData(e1, es),
         NEW m2, m2 = Exec(orig, i), m2 \in Machine, m2.reg = orig.reg, m2.mem = orig.mem, m2.vec = orig.vec,
         NEW n, Loaded(n), NEW out, NEW k, k = ExecAll(new, out), k \in Machine,
         k.reg = n.reg, k.mem = n.mem, k.vec = n.vec,
         FlagsCaptured(e1, m2, k, LostBy(i, e1, out))
  PROVE  Computes(i, Done(e1, out))
<1> DEFINE r == Done(e1, out)
<1>1. r.es = e1 /\ r.out = out BY DEF Done
<1>2. Captured /\ e1.reg_state = es.reg_state /\ e1.stackState = es.stackState
  BY DEF Ready, SameData
<1>3. RegsComputed(e1, m2, k, skew) BY <1>2, RegsStay
<1>4. StoresTo(i) = {} BY DEF StoresTo
<1>5. k.vec = m2.vec BY <1>2 DEF Loaded, Captured, Computed, OthersComputed
<1>6. /\ Computed(e1, m2, k, skew, NextAt(i, e1, m2, k))
      /\ InOrder(e1, m2, skew, NextAt(i, e1, m2, k))
  BY <1>2, <1>3, <1>4, <1>5, PlainComputed
<1>7. skew + Missing(i, out) = skew
  <2>1. Missing(i, out) = 0 BY DEF Missing
  <2>2. skew \in Int BY <1>2 DEF Captured, InOrder
  <2> QED BY <2>1, <2>2
<1> HIDE DEF r
<1>8. Computes(i, r) BY <1>1, <1>6, <1>7 DEF Computes
<1> QED BY <1>8 DEF r

\* What captureCmp captures.
LEMMA CmpCapture ==
  ASSUME NEW e, NEW i, NEW cs, NEW d, d = getOpValue(e, i.dst), NEW s, s = getOpValue(e, i.src),
         NEW out, out = captureCmp(e, i, cs),
         NEW j, j = Applied(e, Binary("CMP", i.dst, IF IsStatic(s) THEN Imm(s.val) ELSE i.src))
  PROVE  /\ csIsStatic(cs) => out = <<>>
         /\ ~csIsStatic(cs) /\ IsStatic(d) => out = << LoadImm(i.dst, d), j >>
         /\ ~csIsStatic(cs) /\ ~IsStatic(d) => out = << j >>
<1>1. CASE csIsStatic(cs) BY <1>1 DEF captureCmp
<1>2. CASE ~csIsStatic(cs) /\ IsStatic(d)
  <2>1. out = << LoadImm(i.dst, d) >> \o << j >> BY <1>2 DEF captureCmp
  <2> QED BY <1>2, <2>1, Joined
<1>3. CASE ~csIsStatic(cs) /\ ~IsStatic(d)
  <2>1. out = <<>> \o << j >> BY <1>3 DEF captureCmp
  <2> QED BY <1>3, <2>1, Joined
<1> QED BY <1>1, <1>2, <1>3

\* Comparisons, on the processor.
LEMMA CompareExec ==
  ASSUME NEW m, m \in Machine, NEW j, j.type \in {"CMP", "TEST"}, NEW a, a = Value(m, j.dst),
         NEW b, b = Value(m, j.src)
  PROVE  LET k == Exec(m, j)
         IN /\ k \in Machine /\ k.reg = m.reg /\ k.mem = m.mem /\ k.vec = m.vec
            /\ k.flag = FlagsAfter(j.type, a, b, m.flag)
            /\ k.flag = FlagsAfter(j.type, a, b, orig.flag)
<1> DEFINE fl == FlagsAfter(j.type, a, b, m.flag)
<1>1. Exec(m, j) = Operate(m, j, a, b) BY ExecOf
<1>2. Operate(m, j, a, b) = [m EXCEPT !.flag = fl] BY DEF Operate
<1>3. fl \in [FlagType -> BOOLEAN]
  <2>1. m.flag \in [FlagType -> BOOLEAN] BY DEF Machine
  <2> QED BY <2>1, FlagsAfterType
<1>4. fl = FlagsAfter(j.type, a, b, orig.flag) BY DEF FlagsAfter
<1> HIDE DEF fl
<1>5. /\ [m EXCEPT !.flag = fl] \in Machine /\ [m EXCEPT !.flag = fl].flag = fl
      /\ [m EXCEPT !.flag = fl].reg = m.reg /\ [m EXCEPT !.flag = fl].mem = m.mem
      /\ [m EXCEPT !.flag = fl].vec = m.vec
  BY <1>3 DEF Machine
<1> QED BY <1>1, <1>2, <1>4, <1>5 DEF fl

\* What is known of flags after comparisons.
LEMMA SubStates ==
  ASSUME NEW e, e \in EmuState, NEW v1, NEW v2
  PROVE  \A f \in FlagType : setFlagsSub(e, v1, v2).flag_state[f] = combineState4Flags(v1.state, v2.state)
<1> DEFINE st == combineState4Flags(v1.state, v2.state)
           f0 == [g \in FlagType |-> IF g \in FlagType THEN st ELSE e.flag_state[g]]
           fl == FlagsOf(Mask(v1.val - v2.val), v1.val = v2.val, Chain(Mask(v1.val - v2.val), v1.val, v2.val))
<1>1. setFlagsSub(e, v1, v2) = [[e EXCEPT !.flag_state = f0] EXCEPT !.flag = fl]
  BY DEF setFlagsSub, setFlagsState
<1>2. \A f \in FlagType : f0[f] = st OBVIOUS
<1> HIDE DEF f0, fl
<1>3. [[e EXCEPT !.flag_state = f0] EXCEPT !.flag = fl].flag_state = f0 BY DEF EmuState
<1> QED BY <1>1, <1>2, <1>3

\* The states of flags after a logical operation (setFlagsBit).
LEMMA BitStates ==
  ASSUME NEW e, e \in EmuState, NEW v1, NEW v2, NEW t, NEW same
  PROVE  \A f \in FlagType : setFlagsBit(e, t, v1, v2, same).flag_state[f] =
           IF f \in {"Carry", "Overflow"} THEN "STATIC" ELSE BitState(t, v1, v2, same)
<1> DEFINE bt == BitState(t, v1, v2, same)
           f1 == [g \in FlagType |-> IF g \in {"Carry", "Overflow"} THEN "STATIC" ELSE e.flag_state[g]]
           f2 == [g \in FlagType |-> IF g \in {"Zero", "Sign", "Parity"} THEN bt ELSE f1[g]]
           fl == FlagsOf(BitOp(t, v1.val, v2.val), BitOp(t, v1.val, v2.val) = 0, 0)
<1>1. setFlagsState(e, {"Carry", "Overflow"}, "STATIC") = [e EXCEPT !.flag_state = f1]
  BY DEF setFlagsState
<1>2. setFlagsState([e EXCEPT !.flag_state = f1], {"Zero", "Sign", "Parity"}, bt)
        = [e EXCEPT !.flag_state = f2]
  <2> HIDE DEF f1, bt
  <2> QED BY DEF setFlagsState, EmuState
<1>3. setFlagsBit(e, t, v1, v2, same) = [[e EXCEPT !.flag_state = f2] EXCEPT !.flag = fl]
  BY <1>1, <1>2, Zenon DEF setFlagsBit
<1>4. \A f \in FlagType : f2[f] = IF f \in {"Carry", "Overflow"} THEN "STATIC" ELSE bt BY DEF FlagType
<1> HIDE DEF f2, fl
<1>5. [[e EXCEPT !.flag_state = f2] EXCEPT !.flag = fl].flag_state = f2 BY DEF EmuState
<1> QED BY <1>3, <1>4, <1>5

\* Where all flags are known, nothing is claimed of captured ones.
LEMMA FlagsKnown ==
  ASSUME NEW e, \A f \in FlagType : e.flag_state[f] # "DYNAMIC"
  PROVE  \A m, k, L : FlagsCaptured(e, m, k, L)
  BY DEF FlagsCaptured, UnknownFlags

\* CMP (captureCmp): a known first operand is loaded, a known second one becomes a constant.
LEMMA CmpComputes ==
  ASSUME NEW i, Ready(i), i.type = "CMP"
  PROVE  Computes(i, emulateCmp(es, i))
<1> DEFINE v1   == getOpValue(es, i.dst)
           v2   == getOpValue(es, i.src)
           x1   == Value(orig, i.dst)
           x2   == Value(orig, i.src)
           e1   == setFlagsSub(es, v1, v2)
           cs   == combineState4Flags(v1.state, v2.state)
           out  == captureCmp(e1, i, cs)
           k    == ExecAll(new, out)
           m2   == Exec(orig, i)
           c    == applyStaticToInd(es, i.dst)
           o    == IF IsStatic(v2) THEN Imm(v2.val) ELSE i.src
           s    == applyStaticToInd(es, o)
           j    == Applied(es, Binary("CMP", i.dst, o))
<1>1. i.dst.kind \in {"Reg", "Ind"} /\ i.src.kind \in {"Reg", "Imm", "Ind"}
  BY DEF Ready, Executable, WellFormed, BinaryOps, CMovFlag
<1>2. i.dst \in Operands(i) /\ i.src \in Operands(i) /\ i.dst \in Reads(i) /\ i.src \in Reads(i)
  BY <1>1 DEF Operands, NoOp, Reads, WriteOnly
<1>3. /\ orig \in Machine /\ es \in EmuState /\ Proper(es) /\ Means(v1, x1) /\ Means(v2, x2)
      /\ i.dst \in Operand
  BY <1>2, ExecutableFacts DEF Ready, Executable
<1>4. /\ v1.state \in CaptureState /\ v2.state \in CaptureState
      /\ (IsStatic(v1) => v1.val = x1) /\ (IsStatic(v2) => v2.val = x2)
  BY <1>3 DEF Means, MeansValue, IsStatic
<1>5. v1.state # "DEAD" /\ v2.state # "DEAD"
  <2>1. ~Harmless(i) /\ i.type # "LEA" BY DEF Harmless
  <2> QED BY <1>2, <2>1 DEF Ready, Defined
<1>6. emulateCmp(es, i) = Done(e1, out) BY DEF emulateCmp
<1>7. Captured /\ Loaded(new) /\ new \in Machine BY NothingLoaded DEF Ready, Captured
<1> HIDE DEF v1, v2, x1, x2
<1>8. SameData(e1, es)
  <2>1. KnownFlags(e1, es, FlagType, SubFlags(x1, x2)) BY <1>3, SubFlagsSet
  <2> QED BY <2>1 DEF KnownFlags
<1>9. \A f \in FlagType : e1.flag_state[f] = cs BY <1>3, SubStates
<1>10. cs \in {"DEAD", "DYNAMIC", "STATIC"} /\ (IsStatic(v1) /\ IsStatic(v2) => cs = "STATIC")
  BY <1>4, <1>5, CombinedForFlags, CombinedLive DEF IsStatic
<1>11. /\ csIsStatic(cs) => out = <<>>
       /\ ~csIsStatic(cs) /\ IsStatic(v1) => out = << LoadImm(i.dst, v1), j >>
       /\ ~csIsStatic(cs) /\ ~IsStatic(v1) => out = << j >>
  <2>1. v1 = getOpValue(e1, i.dst) /\ v2 = getOpValue(e1, i.src)
    BY <1>8, SameOperands DEF v1, v2
  <2>2. j = Applied(e1, Binary("CMP", i.dst, IF IsStatic(v2) THEN Imm(v2.val) ELSE i.src))
    BY <1>8, SameCapture
  <2>3. out = captureCmp(e1, i, cs) OBVIOUS
  <2> HIDE DEF j, e1, cs, out
  <2> QED BY <2>1, <2>2, <2>3, CmpCapture
<1>12. j.type = "CMP" /\ j.dst = c /\ j.src = s
  <2> HIDE DEF o
  <2>1. j = Ternary("CMP", c, s, NoOp) BY AppliedBinary
  <2> QED BY <2>1 DEF Ternary
<1>13. ASSUME NEW n, Loaded(n) PROVE Value(n, s) = x2
  <2>1. CASE ~IsStatic(v2)
    <3>1. Value(n, applyStaticToInd(es, i.src)) = x2
      BY <1>2, <1>5, <1>13, <2>1, ReadOperand DEF v2, x2
    <3> QED BY <2>1, <3>1
  <2>2. CASE IsStatic(v2)
    <3>1. applyStaticToInd(es, Imm(v2.val)) = Imm(v2.val) /\ Value(n, Imm(v2.val)) = v2.val
      BY DEF applyStaticToInd, Imm, NoOp, Value
    <3> QED BY <1>4, <2>2, <3>1
  <2> QED BY <2>1, <2>2
<1> DEFINE fl == FlagsAfter("CMP", x1, x2, orig.flag)
<1>14. m2 \in Machine /\ m2.reg = orig.reg /\ m2.mem = orig.mem /\ m2.vec = orig.vec /\ m2.flag = fl
  BY <1>3, CompareExec DEF x1, x2
<1> HIDE DEF e1, cs, out, m2, c, j, s, o, fl
<1>15. ASSUME NEW n, Loaded(n), Value(n, c) = x1
       PROVE  LET q == Exec(n, j)
              IN q \in Machine /\ q.reg = n.reg /\ q.mem = n.mem /\ q.vec = n.vec /\ q.flag = fl
  <2>1. Value(n, s) = x2 /\ n \in Machine BY <1>13, <1>15 DEF Loaded
  <2> QED BY <1>12, <1>15, <2>1, CompareExec DEF fl
<1>16. \E n : /\ Loaded(n) /\ k \in Machine /\ k.reg = n.reg /\ k.mem = n.mem /\ k.vec = n.vec
              /\ FlagsCaptured(e1, m2, k, LostBy(i, e1, out))
  <2>1. CASE csIsStatic(cs)
    <3>1. k = new BY <1>11, <2>1, ExecAllOf
    <3>2. cs = "STATIC" BY <1>10, <2>1 DEF csIsStatic
    <3>3. FlagsCaptured(e1, m2, k, LostBy(i, e1, out)) BY <1>9, <3>2, FlagsKnown
    <3> QED BY <1>7, <3>1, <3>3
  <2>2. CASE ~csIsStatic(cs) /\ IsStatic(v1)
    <3> DEFINE l == LoadImm(i.dst, v1)
               n == Write(new, c, v1.val)
    <3>1. ~IsStatic(v2) BY <1>10, <2>2 DEF csIsStatic
    <3>2. c = i.dst
      <4>1. CASE i.dst.kind = "Reg" BY <4>1 DEF c, applyStaticToInd
      <4>2. CASE i.dst.kind = "Ind"
        <5>1. \A r \in {i.dst.reg, i.dst.ireg} \ {"None"} : ~csIsStatic(es.reg_state[r])
          BY <2>2, <3>1, <4>2 DEF Ready, Executable, WithinLimits, LoadLimit, v1, v2
        <5> QED BY <1>3, <4>2, <5>1, AppliedOperand DEF c
      <4> QED BY <1>1, <4>1, <4>2
    <3>3. Exec(new, l) = n BY <3>2, MoveExec
    <3>4. Loaded(n) /\ Value(n, c) = x1
      BY <1>1, <1>2, <1>7, <2>2, OperandLoaded DEF v1, x1, c
    <3> HIDE DEF l, n
    <3>5. k = Exec(n, j)
      <4>1. out = << l, j >> BY <1>11, <2>2 DEF l
      <4> QED BY <3>3, <4>1, ExecAllOf
    <3>6. k \in Machine /\ k.reg = n.reg /\ k.mem = n.mem /\ k.vec = n.vec /\ k.flag = fl
      BY <1>15, <3>4, <3>5
    <3> HIDE DEF k
    <3>7. FlagsCaptured(e1, m2, k, LostBy(i, e1, out)) BY <1>14, <3>6, FlagsAlike
    <3> QED BY <3>4, <3>6, <3>7
  <2>3. CASE ~csIsStatic(cs) /\ ~IsStatic(v1)
    <3>1. Value(new, c) = x1 BY <1>2, <1>5, <1>7, <2>3, ReadOperand DEF v1, x1, c
    <3>2. k = Exec(new, j) BY <1>11, <2>3, ExecAllOf
    <3>3. k \in Machine /\ k.reg = new.reg /\ k.mem = new.mem /\ k.vec = new.vec /\ k.flag = fl
      BY <1>7, <1>15, <3>1, <3>2
    <3> HIDE DEF k
    <3>4. FlagsCaptured(e1, m2, k, LostBy(i, e1, out)) BY <1>14, <3>3, FlagsAlike
    <3> QED BY <1>7, <3>3, <3>4
  <2> QED BY <2>1, <2>2, <2>3
<1>17. PICK n : /\ Loaded(n) /\ k \in Machine /\ k.reg = n.reg /\ k.mem = n.mem /\ k.vec = n.vec
                /\ FlagsCaptured(e1, m2, k, LostBy(i, e1, out))
  BY <1>16
<1>18. m2 = Exec(orig, i) /\ k = ExecAll(new, out) BY DEF m2
<1> HIDE DEF k
<1>19. Computes(i, Done(e1, out)) BY <1>8, <1>14, <1>17, <1>18, FlagsComputes
<1> QED BY <1>6, <1>19

\* TEST (captureTest): operands are not loaded, so that flags are lost if one is known.
LEMMA TestComputes ==
  ASSUME NEW i, Ready(i), i.type = "TEST"
  PROVE  Computes(i, emulateTest(es, i))
<1> DEFINE v1   == getOpValue(es, i.dst)
           v2   == getOpValue(es, i.src)
           x1   == Value(orig, i.dst)
           x2   == Value(orig, i.src)
           e1   == setFlagsBit(es, "AND", v1, v2, FALSE)
           cs   == BitState("AND", v1, v2, FALSE)
           out  == captureTest(e1, i, cs)
           k    == ExecAll(new, out)
           m2   == Exec(orig, i)
           c    == applyStaticToInd(es, i.dst)
           s    == applyStaticToInd(es, i.src)
           j    == Applied(es, i)
           fl   == FlagsAfter("TEST", x1, x2, orig.flag)
<1>1. i.dst.kind \in {"Reg", "Ind"} /\ i.src.kind \in {"Reg", "Imm", "Ind"} /\ i = Binary("TEST", i.dst, i.src)
  BY DEF Ready, Executable, WellFormed, BinaryOps, CMovFlag, Binary
<1>2. /\ i.dst \in Operands(i) /\ i.src \in Operands(i) /\ i.dst \in Reads(i) /\ i.src \in Reads(i)
      /\ Reads(i) \subseteq {i.dst, i.src}
  BY <1>1 DEF Operands, NoOp, Reads, WriteOnly, Binary, Ternary
<1>3. /\ orig \in Machine /\ es \in EmuState /\ Proper(es) /\ Means(v1, x1) /\ Means(v2, x2)
  BY <1>2, ExecutableFacts DEF Ready, Executable
<1>5. v1.state # "DEAD" /\ v2.state # "DEAD"
  <2>1. ~Harmless(i) /\ i.type # "LEA" BY DEF Harmless
  <2> QED BY <1>2, <2>1 DEF Ready, Defined
<1>6. emulateTest(es, i) = Done(e1, out) BY DEF emulateTest
<1>7. Captured /\ Loaded(new) /\ new \in Machine BY NothingLoaded DEF Ready, Captured
<1> HIDE DEF v1, v2, x1, x2
<1>8. SameData(e1, es)
  <2>1. KnownFlags(e1, es, FlagType, BitFlags(BitOp("AND", x1, x2))) BY <1>3, BitFlagsSet
  <2> QED BY <2>1 DEF KnownFlags
<1>9. \A f \in FlagType : e1.flag_state[f] = IF f \in {"Carry", "Overflow"} THEN "STATIC" ELSE cs
  <2> DEFINE same == FALSE
             t    == "AND"
  <2> HIDE DEF same, t
  <2>1. \A f \in FlagType : setFlagsBit(es, t, v1, v2, same).flag_state[f] =
          IF f \in {"Carry", "Overflow"} THEN "STATIC" ELSE BitState(t, v1, v2, same)
    BY <1>3, BitStates
  <2> QED BY <2>1 DEF same, t
<1>11. out = IF csIsStatic(cs) THEN <<>> ELSE << j >>
  <2>1. Applied(e1, i) = j BY <1>8, SameCapture
  <2> HIDE DEF j
  <2> QED BY <2>1 DEF captureTest
<1>12. j.type = "TEST" /\ j.dst = c /\ j.src = s
  <2>1. j = Applied(es, Binary("TEST", i.dst, i.src)) BY <1>1
  <2> HIDE DEF j
  <2>2. j = Ternary("TEST", c, s, NoOp) BY <2>1, AppliedBinary
  <2> QED BY <2>2 DEF Ternary
<1>14. m2 \in Machine /\ m2.reg = orig.reg /\ m2.mem = orig.mem /\ m2.vec = orig.vec /\ m2.flag = fl
  BY <1>3, CompareExec DEF x1, x2
<1> HIDE DEF e1, cs, out, m2, c, j, s, fl
<1>15. Exec(new, j) \in Machine /\ Exec(new, j).reg = new.reg /\ Exec(new, j).mem = new.mem /\ Exec(new, j).vec = new.vec
  BY <1>7, <1>12, CompareExec
<1>16. /\ k \in Machine /\ k.reg = new.reg /\ k.mem = new.mem /\ k.vec = new.vec
       /\ FlagsCaptured(e1, m2, k, LostBy(i, e1, out))
  <2>1. CASE csIsStatic(cs)
    <3>1. k = new BY <1>11, <2>1, ExecAllOf
    <3>2. \A f \in FlagType : e1.flag_state[f] # "DYNAMIC" BY <1>9, <2>1 DEF csIsStatic
    <3>3. FlagsCaptured(e1, m2, k, LostBy(i, e1, out)) BY <3>2, FlagsKnown
    <3> QED BY <1>7, <3>1, <3>3
  <2>2. CASE ~csIsStatic(cs)
    <3>1. out = << j >> BY <1>11, <2>2
    <3>2. k = Exec(new, j) BY <3>1, ExecAllOf
    <3>3. FlagsCaptured(e1, m2, k, LostBy(i, e1, out))
      <4>1. CASE \E o \in Reads(i) : opStateIsTracked(es, o) /\ IsStatic(getOpValue(es, o))
        <5>1. FlagType \ { f \in FlagType : e1.flag_state[f] = "STATIC" } \subseteq LostBy(i, e1, out)
          BY <4>1 DEF LostBy
        <5> QED BY <5>1 DEF FlagsCaptured, UnknownFlags
      <4>2. CASE ~\E o \in Reads(i) : opStateIsTracked(es, o) /\ IsStatic(getOpValue(es, o))
        <5>1. Value(new, c) = x1 BY <1>2, <1>5, <1>7, <4>2, ReadOperand DEF v1, x1, c
        <5>2. Value(new, s) = x2 BY <1>2, <1>5, <1>7, <4>2, ReadOperand DEF v2, x2, s
        <5>3. Exec(new, j).flag = fl BY <1>7, <1>12, <5>1, <5>2, CompareExec DEF fl
        <5> HIDE DEF k
        <5> QED BY <1>14, <3>2, <5>3, FlagsAlike
      <4> QED BY <4>1, <4>2
    <3> QED BY <1>15, <3>2, <3>3
  <2> QED BY <2>1, <2>2
<1>18. m2 = Exec(orig, i) /\ k = ExecAll(new, out) BY DEF m2
<1> HIDE DEF k
<1>19. Computes(i, Done(e1, out)) BY <1>7, <1>8, <1>14, <1>16, <1>18, FlagsComputes
<1> QED BY <1>6, <1>19

\* Operations with one operand, on the processor.
LEMMA UnaryExec ==
  ASSUME NEW m, m \in Machine, NEW j, j.type \in {"INC", "DEC", "NEG"},
         j.dst \in Operand, j.dst.kind \in {"Reg", "Ind"}, NEW a, a = Value(m, j.dst), a \in Word
  PROVE  LET x == UnaryOf(j.type, a)
             k == Exec(m, j)
         IN /\ k \in Machine /\ k.vec = m.vec /\ x \in Word
            /\ k.reg = Write(m, j.dst, x).reg /\ k.mem = Write(m, j.dst, x).mem
            /\ j.type # "NEG" => k.flag["Carry"] = m.flag["Carry"]
<1> DEFINE x  == UnaryOf(j.type, a)
           w  == Write(m, j.dst, x)
           f0 == IF j.type = "INC" THEN AddFlags(a, 1) ELSE SubFlags(a, 1)
           fl == IF j.type = "NEG" THEN SubFlags(0, a) ELSE [f0 EXCEPT !["Carry"] = m.flag["Carry"]]
<1>1. Exec(m, j) = OneOperand(m, j) BY ExecOf
<1>2. OneOperand(m, j) = [w EXCEPT !.flag = fl]
  <2>1. CASE j.type = "INC" BY <2>1 DEF OneOperand, UnaryOf
  <2>2. CASE j.type = "DEC" BY <2>2 DEF OneOperand, UnaryOf
  <2>3. CASE j.type = "NEG" BY <2>3 DEF OneOperand, UnaryOf
  <2> QED BY <2>1, <2>2, <2>3
<1>3. x \in Word
  <2>1. a + 1 \in Int /\ a - 1 \in Int /\ 0 - a \in Int BY WordFacts
  <2> QED BY <2>1, MaskFacts DEF UnaryOf
<1>4. fl \in [FlagType -> BOOLEAN] /\ (j.type # "NEG" => fl["Carry"] = m.flag["Carry"])
  <2>1. f0 \in [FlagType -> BOOLEAN] /\ SubFlags(0, a) \in [FlagType -> BOOLEAN] BY SumFlagsType
  <2>2. m.flag["Carry"] \in BOOLEAN BY MachineFields DEF FlagType
  <2> HIDE DEF f0
  <2> QED BY <2>1, <2>2 DEF FlagType
<1> HIDE DEF x, fl
<1>5. w \in Machine /\ w.vec = m.vec BY <1>3, WriteFields
<1> HIDE DEF w
<1>6. [w EXCEPT !.flag = fl].vec = w.vec BY <1>5 DEF Machine
<1>7. /\ [w EXCEPT !.flag = fl] \in Machine /\ [w EXCEPT !.flag = fl].flag = fl
      /\ [w EXCEPT !.flag = fl].reg = w.reg /\ [w EXCEPT !.flag = fl].mem = w.mem
  BY <1>4, <1>5 DEF Machine
<1> QED BY <1>1, <1>2, <1>3, <1>4, <1>5, <1>6, <1>7 DEF x, w

\* What is known of memory is on the stack, except for data that never change.
LEMMA KnownTracked ==
  ASSUME NEW i, Ready(i), i.dst.kind \in {"Reg", "Ind"}, i.dst \in StoresTo(i) \/ i.dst.kind = "Reg",
         IsStatic(getOpValue(es, i.dst))
  PROVE  opStateIsTracked(es, i.dst)
<1>1. CASE i.dst.kind = "Reg" BY <1>1 DEF opStateIsTracked
<1>2. CASE i.dst.kind = "Ind"
  <2> DEFINE a == getOpAddr(es, i.dst)
  <2>1. i.dst \in StoresTo(i) /\ i.dst \in MemOps(i) BY <1>2 DEF StoresTo
  <2>2. a.state = "STATIC2" => a.val \in Data BY <2>1 DEF Ready, Executable, Accesses
  <2>3. a.val \notin Data BY <2>1 DEF Ready, Executable, Accesses
  <2>4. getOpValue(es, i.dst) = getMemValue(es, a) BY <1>2 DEF getOpValue
  <2> HIDE DEF a
  <2>5. OnStack(a) /\ KnownOffset(a)
    BY <2>2, <2>3, <2>4 DEF getMemValue, getStackState, EmuValue, IsStatic, csIsStatic
  <2> QED BY <2>5 DEF a, opStateIsTracked
<1> QED BY <1>1, <1>2

\* Flags after an operation that leaves carry alone only, or none.
LEMMA CarryLeft ==
  ASSUME NEW i, i.type \in {"INC", "DEC", "NEG"}, Captured, NEW e, e.flag_state = es.flag_state,
         NEW m, i.type # "NEG" => m.flag["Carry"] = orig.flag["Carry"],
         NEW k, i.type # "NEG" => k.flag["Carry"] = new.flag["Carry"], NEW out
  PROVE  FlagsCaptured(e, m, k, LostBy(i, e, out))
<1>1. CASE i.type = "NEG" BY <1>1, FlagsGone
<1>2. CASE i.type # "NEG"
  <2>1. LostBy(i, e, out) = lost \cup (FlagType \ {"Carry"}) BY <1>2, LostOf
  <2>2. FlagsCaptured(es, orig, new, lost) BY DEF Captured
  <2> QED BY <1>2, <2>1, <2>2 DEF FlagsCaptured, UnknownFlags
<1> QED BY <1>1, <1>2

\* INC, DEC and NEG (captureUnaryOp).
LEMMA UnaryComputes ==
  ASSUME NEW i, Ready(i), i.type \in {"INC", "DEC", "NEG"}, NEW force, force => TRUE \in ForceUnknown(es)
  PROVE  Computes(i, emulateUnary(es, i, force))
<1> DEFINE t   == i.type
           v1  == getOpValue(es, i.dst)
           x1  == Value(orig, i.dst)
           v   == [v1 EXCEPT !.val = UnaryResult[t][@]]
           f   == Forced(v, force)
           x   == UnaryOf(t, x1)
           out == captureUnaryOp(es, i, v, force)
           k   == ExecAll(new, out)
           m2  == Exec(orig, i)
           c   == applyStaticToInd(es, i.dst)
           j   == Applied(es, i)
<1>1. i.dst.kind \in {"Reg", "Ind"} /\ i = Ternary(t, i.dst, i.src, i.src2)
  BY DEF Ready, Executable, WellFormed, BinaryOps, CMovFlag
<1>2. i.dst \in Operands(i) /\ i.dst # NoOp /\ i.dst \in Reads(i) BY <1>1 DEF Operands, NoOp, Reads, WriteOnly
<1>3. t # "LEA" /\ t \notin {"CMP", "TEST", "PUSH", "POP", "CALL", "RET", "IDIV", "LEAVE"} OBVIOUS
<1>4. /\ orig \in Machine /\ es \in EmuState /\ Proper(es) /\ Means(v1, x1) /\ i.dst \in Operand
  BY <1>2, <1>3, ExecutableFacts DEF Ready, Executable
<1>5. t = "NEG" => v1.state # "STACKRELATIVE"
  BY <1>2 DEF Ready, Executable, WithinLimits, RelativeLimit
<1>6. v1.state # "DEAD"
  <2>1. ~Harmless(i) /\ i.type # "LEA" BY DEF Harmless
  <2> QED BY <1>2, <2>1 DEF Ready, Defined
<1>7. v = EmuValue(UnaryOf(t, v1.val), v1.state)
  <2>1. v1 = EmuValue(v1.val, v1.state) BY <1>1, ValueRecord
  <2>2. UnaryResult[t][v1.val] = UnaryOf(t, v1.val) BY <1>4, <1>5, UnaryMeans
  <2>3. \A a, s, b : [EmuValue(a, s) EXCEPT !.val = b] = EmuValue(b, s) BY DEF EmuValue
  <2> HIDE DEF v1
  <2>4. v = [v1 EXCEPT !.val = UnaryResult[t][v1.val]] OBVIOUS
  <2> QED BY <2>1, <2>2, <2>3, <2>4, Zenon
<1>8. emulateUnary(es, i, force) = Assign(es, i.dst, f, out) BY DEF emulateUnary
<1>9. Means(EmuValue(UnaryOf(t, v1.val), v1.state), x) BY <1>4, <1>5, UnaryMeans
<1>10. Captured /\ Loaded(new) /\ new \in Machine BY NothingLoaded DEF Ready, Captured
<1>11. /\ x1 \in Word /\ m2 \in Machine /\ m2.vec = orig.vec /\ x \in Word
       /\ m2.reg = Write(orig, i.dst, x).reg /\ m2.mem = Write(orig, i.dst, x).mem
       /\ t # "NEG" => m2.flag["Carry"] = orig.flag["Carry"]
  <2>1. x1 \in Word BY <1>4 DEF Means
  <2> QED BY <1>1, <1>4, <2>1, UnaryExec
<1> HIDE DEF v, x, f, out, m2, v1, x1, c, j
<1>12. Means(v, x) /\ v.state = v1.state BY <1>7, <1>9 DEF EmuValue
<1>13. /\ Means(f, x) /\ (IsStatic(v) => v.val = x) /\ (IsStatic(v) <=> IsStatic(v1))
  <2>1. Means(f, x) BY <1>12, ForcedMeans DEF f
  <2> QED BY <1>12, <2>1 DEF Means, MeansValue, IsStatic
<1>14. c \in Operand /\ c.kind = i.dst.kind BY <1>4, AppliedOperand DEF c
<1>15. /\ ~IsStatic(v) => out = << j >>
       /\ IsStatic(v) => out = IF force THEN << LoadImm(i.dst, v) >> ELSE <<>>
  BY DEF out, captureUnaryOp, j
<1>16. j.type = t /\ j.dst = c
  <2>1. j = Applied(es, Ternary(t, i.dst, i.src, i.src2)) BY <1>1 DEF j
  <2> QED BY <2>1, AppliedFields DEF c
<1>17. Stores(i, new, k, f, x) /\ (t # "NEG" => k.flag["Carry"] = new.flag["Carry"])
  <2>1. CASE ~IsStatic(v)
    <3>1. k = Exec(new, j) BY <1>15, <2>1, ExecAllOf
    <3>2. Value(new, c) = x1 BY <1>2, <1>3, <1>6, <1>10, <1>13, <2>1, ReadOperand DEF v1, x1, c
    <3> DEFINE q == Exec(new, j)
    <3>3. /\ q \in Machine /\ q.vec = new.vec /\ q.reg = Write(new, c, x).reg /\ q.mem = Write(new, c, x).mem
          /\ t # "NEG" => q.flag["Carry"] = new.flag["Carry"]
      BY <1>1, <1>10, <1>11, <1>14, <1>16, <3>2, UnaryExec DEF x
    <3> HIDE DEF q, k
    <3> QED BY <3>1, <3>3 DEF q, Stores, c
  <2>2. CASE IsStatic(v) /\ force
    <3> DEFINE l == LoadImm(i.dst, v)
    <3>1. out = << l >> BY <1>15, <2>2
    <3>2. c = i.dst
      <4>1. CASE i.dst.kind = "Reg" BY <4>1 DEF c, applyStaticToInd
      <4>2. CASE i.dst.kind = "Ind"
        <5>1. \A r \in {i.dst.reg, i.dst.ireg} \ {"None"} : ~csIsStatic(es.reg_state[r])
          BY <1>13, <2>2, <4>2 DEF Ready, Executable, WithinLimits, LoadLimit, v1
        <5> QED BY <1>4, <4>2, <5>1, AppliedOperand DEF c
      <4> QED BY <1>1, <4>1, <4>2
    <3>3. Exec(new, l) = Write(new, c, v.val) BY <3>2, MoveExec
    <3> HIDE DEF l
    <3>4. k = Write(new, c, x) BY <1>13, <2>2, <3>1, <3>3, ExecAllOf
    <3> HIDE DEF k
    <3>5. Write(new, c, x) \in Machine /\ Write(new, c, x).vec = new.vec /\ Write(new, c, x).flag = new.flag
      BY <1>1, <1>10, <1>11, <1>14, WriteFields
    <3> QED BY <3>4, <3>5 DEF Stores, c
  <2>3. CASE IsStatic(v) /\ ~force
    <3>1. k = new BY <1>15, <2>3, ExecAllOf
    <3>2. f = v BY <2>3 DEF Forced, f
    <3>3. ~Unknown(f.state) BY <2>3, <3>2 DEF Unknown, IsStatic, csIsStatic
    <3>4. i.dst \in StoresTo(i) \/ i.dst.kind = "Reg" BY <1>1, <1>2, <1>3 DEF StoresTo, MemOps
    <3>5. opStateIsTracked(es, i.dst) BY <1>1, <1>13, <2>3, <3>4, KnownTracked DEF v1
    <3> HIDE DEF k
    <3> QED BY <1>10, <3>1, <3>3, <3>5 DEF Stores
  <2> QED BY <2>1, <2>2, <2>3
<1>18. FlagsCaptured(es, m2, k, LostBy(i, es, out))
  <2>1. /\ i.type # "NEG" => m2.flag["Carry"] = orig.flag["Carry"]
        /\ i.type # "NEG" => k.flag["Carry"] = new.flag["Carry"]
    BY <1>11, <1>17
  <2> HIDE DEF k, t
  <2>2. es.flag_state = es.flag_state OBVIOUS
  <2> QED BY <1>10, <2>1, <2>2, CarryLeft
<1>19. Computes(i, Assign(es, i.dst, f, out))
  <2>1. SameData(es, es) BY DEF SameData
  <2>2. m2 = Exec(orig, i) BY DEF m2
  <2>3. Stores(i, new, ExecAll(new, out), f, x) /\ FlagsCaptured(es, m2, ExecAll(new, out), LostBy(i, es, out))
    BY <1>17, <1>18
  <2> QED BY <1>1, <1>3, <1>4, <1>10, <1>11, <1>13, <2>1, <2>2, <2>3, AssignComputes
<1> QED BY <1>8, <1>19

\* Instructions that set a register, and no flags.
LEMMA RegDone ==
  ASSUME NEW i, Ready(i), i.dst.kind = "Reg", i.type \in CMovTypes \cup {"VGET"},
         NEW e2, e2.stackState = es.stackState, e2.flag_state = es.flag_state,
         \A q \in Regs : q # i.dst.reg => e2.reg_state[q] = es.reg_state[q],
         NEW m2, m2 = Exec(orig, i), m2 \in Machine, m2.mem = orig.mem, m2.flag = orig.flag, m2.vec = orig.vec,
         \A q \in Regs : q # i.dst.reg => m2.reg[q] = orig.reg[q],
         NEW n, Loaded(n), NEW out, NEW k, k = ExecAll(new, out), k \in Machine,
         k.mem = n.mem, k.vec = n.vec, k.flag = n.flag,
         \A q \in Regs : q # i.dst.reg => k.reg[q] = n.reg[q],
         Unknown(e2.reg_state[i.dst.reg]) => k.reg[i.dst.reg] = m2.reg[i.dst.reg]
  PROVE  Computes(i, Done(e2, out))
<1> DEFINE r == Done(e2, out)
           x == m2.reg[i.dst.reg]
<1>1. r.es = e2 /\ r.out = out BY DEF Done
<1>2. Captured BY DEF Ready
<1>3. k.vec = m2.vec /\ k.flag = new.flag BY <1>2 DEF Loaded, Captured, Computed, OthersComputed
<1>4. RegDiffers(m2, orig, i.dst.reg, x) BY DEF RegDiffers
<1>5. i.type \notin {"PUSH", "CALL", "LEAVE"} BY DEF CMovTypes
<1>10. Unknown(e2.reg_state[i.dst.reg]) => k.reg[i.dst.reg] = x OBVIOUS
<1> HIDE DEF r, x
<1>11. /\ Ready(i) /\ i.dst.kind = "Reg" /\ i.type \notin {"PUSH", "CALL", "LEAVE"}
       /\ e2.stackState = es.stackState
       /\ \A q \in Regs : q # i.dst.reg => e2.reg_state[q] = es.reg_state[q]
       /\ m2 = Exec(orig, i) /\ m2 \in Machine /\ m2.mem = orig.mem
       /\ RegDiffers(m2, orig, i.dst.reg, x)
       /\ Loaded(n) /\ k \in Machine /\ k.mem = n.mem /\ k.vec = m2.vec
       /\ \A q \in Regs : q # i.dst.reg => k.reg[q] = n.reg[q]
       /\ Unknown(e2.reg_state[i.dst.reg]) => k.reg[i.dst.reg] = x
  BY <1>3, <1>4, <1>5, <1>10
<1>6. /\ Computed(e2, m2, k, skew, NextAt(i, e2, m2, k))
      /\ InOrder(e2, m2, skew, NextAt(i, e2, m2, k))
  BY ONLY <1>11, RegComputed
<1>7. skew + Missing(i, out) = skew
  <2>1. Missing(i, out) = 0 BY DEF Missing, CMovTypes
  <2>2. skew \in Int BY <1>2 DEF Captured, InOrder
  <2> QED BY <2>1, <2>2
<1>8. FlagsCaptured(e2, m2, k, LostBy(i, e2, out))
  <2>1. LostBy(i, e2, out) = lost BY LostOf
  <2> QED BY <1>2, <1>3, <2>1, FlagsLeft
<1>9. Computes(i, r) BY <1>1, <1>6, <1>7, <1>8 DEF Computes
<1> QED BY <1>9 DEF r

\* Instructions that are done with.
LEMMA SetRegStates ==
  ASSUME NEW r \in Regs, NEW v
  PROVE  /\ setReg(es, r, v).stackState = es.stackState /\ setReg(es, r, v).flag_state = es.flag_state
         /\ es \in EmuState => /\ setReg(es, r, v).reg_state[r] = v.state
                               /\ \A q \in Regs : q # r => setReg(es, r, v).reg_state[q] = es.reg_state[q]
  BY DEF setReg, EmuState

\* Whether a conditional move is taken depends on its flag.
LEMMA CMovSame ==
  ASSUME NEW t \in CMovTypes, NEW f1 \in [FlagType -> BOOLEAN], NEW f2 \in [FlagType -> BOOLEAN],
         f1[CMovFlag[t]] = f2[CMovFlag[t]]
  PROVE  Taken(CMovs[t], f1) <=> Taken(CMovs[t], f2)
  BY CMovTaken

\* What captureCMov captures on an unknown condition.
LEMMA CMovCapture ==
  ASSUME NEW i, NEW v, v.state # "DEAD", NEW cs, ~csIsStatic(cs), NEW cond, NEW out,
         out = captureCMov(es, i, v, cs, cond), NEW j, j = [i EXCEPT !.src = applyStaticToInd(es, i.src)]
  PROVE  out = IF IsStatic(v) THEN << LoadImm(i.src, v), j >> ELSE << j >>
<1>1. CASE IsStatic(v)
  <2>1. out = << LoadImm(i.src, v) >> \o << j >> BY <1>1 DEF captureCMov
  <2> QED BY <1>1, <2>1, Joined
<1>2. CASE ~IsStatic(v)
  <2>1. out = <<>> \o << j >> BY <1>2 DEF captureCMov
  <2> QED BY <1>2, <2>1, Joined
<1> QED BY <1>1, <1>2

\* What a captured conditional move does, with the source resolved.
LEMMA CMovExec ==
  ASSUME NEW n, n \in Machine, NEW i, i.type \in CMovTypes, i.dst \in Operand, i.dst.kind = "Reg",
         NEW c, NEW x \in Word, Value(n, c) = x, NEW j, j = [i EXCEPT !.src = c],
         WellFormed(i)
  PROVE  Exec(n, j) = IF Taken(CMovs[i.type], n.flag) THEN Write(n, i.dst, x) ELSE n
<1>1. i = Ternary(i.type, i.dst, i.src, i.src2) BY DEF WellFormed
<1>2. j.type = i.type /\ j.dst = i.dst /\ j.src = c BY <1>1 DEF Ternary
<1>3. j.type \in CMovTypes BY <1>2
<1> HIDE DEF CMovTypes
<1>4. Exec(n, j) = IF Taken(CMovs[j.type], n.flag) THEN Write(n, j.dst, Value(n, j.src)) ELSE n
  BY <1>3, ExecOf
<1> QED BY <1>2, <1>4

\* A machine with register d set to x, or left as it is.
LEMMA RegSetOrNot ==
  ASSUME NEW m, m \in Machine, NEW o, o \in Operand, o.kind = "Reg", NEW x \in Word, NEW b,
         NEW k, k = IF b THEN Write(m, o, x) ELSE m
  PROVE  /\ k \in Machine /\ k.mem = m.mem /\ k.flag = m.flag /\ k.vec = m.vec
         /\ \A q \in Regs : q # o.reg => k.reg[q] = m.reg[q]
         /\ b => k.reg[o.reg] = x
         /\ ~b => k.reg[o.reg] = m.reg[o.reg]
<1>1. CASE b
  <2>1. o.kind \in {"Reg", "Ind"} OBVIOUS
  <2>2. /\ Write(m, o, x) \in Machine /\ Write(m, o, x).flag = m.flag /\ Write(m, o, x).vec = m.vec
        /\ RegDiffers(Write(m, o, x), m, o.reg, x) /\ Write(m, o, x).mem = m.mem
    BY <2>1, WriteFields
  <2>3. k = Write(m, o, x) BY <1>1
  <2> QED BY <1>1, <2>2, <2>3 DEF RegDiffers
<1>2. CASE ~b BY <1>2
<1> QED BY <1>1, <1>2

\* Conditional moves (captureCMov): on a known condition a move or nothing, and on an
\* unknown one, within CMovLimit, a conditional move.
LEMMA CMovComputes ==
  ASSUME NEW i, Ready(i), i.type \in CMovTypes, FlagsDefined({CMovFlag[i.type]})
  PROVE  Computes(i, emulateCMov(es, i))
<1> DEFINE f    == CMovFlag[i.type]
           pos  == i.type \in {"CMOVO", "CMOVC", "CMOVZ", "CMOVS"}
           cond == es.flag[f] = pos
           v    == getOpValue(es, i.src)
           x    == Value(orig, i.src)
           d    == i.dst.reg
           c    == applyStaticToInd(es, i.src)
           out  == captureCMov(es, i, v, es.flag_state[f], cond)
           unknown == ~csIsStatic(es.flag_state[f])
           forced  == Forced(v, unknown)
           taken == Taken(CMovs[i.type], orig.flag)
           e2   == IF cond THEN setReg(es, d, forced) ELSE es
           m2   == Exec(orig, i)
           k    == ExecAll(new, out)
<1>1. i.dst.kind = "Reg" /\ i.src.kind \in {"Reg", "Ind"} /\ WellFormed(i)
  BY CMovNames DEF Ready, Executable, WellFormed, BinaryOps, CMovTypes
<1>2. i.src \in Operands(i) /\ i.dst \in Operands(i) /\ i.type # "LEA" BY <1>1 DEF Operands, NoOp, CMovTypes
<1>3. Executable(i) /\ Defined(i) /\ Captured BY DEF Ready
<1>4. Means(v, x) BY <1>2, <1>3, ExecutableFacts
<1>5. /\ Proper(es) /\ es \in EmuState /\ orig \in Machine /\ FlagsAgree(es, orig, lost) /\ new \in Machine
      /\ i.dst \in Operand /\ i.src \in Operand /\ d \in Regs
  <2>1. i.dst \in Operand /\ i.src \in Operand BY <1>3, ExecutableFacts
  <2> QED BY <1>1, <1>3, <2>1, OperandFields DEF Executable, Proper, Captured
<1>6. emulateCMov(es, i) = Done(e2, out)
  <2>1. Assign(es, i.dst, forced, out) = Done(setReg(es, d, forced), out) BY <1>1 DEF Assign
  <2> QED BY <2>1 DEF emulateCMov
<1>7. v.state # "DEAD" /\ es.reg_state[d] # "DEAD"
  <2>1. i.src \in Reads(i) /\ i.dst \in Reads(i) BY <1>1 DEF Reads, WriteOnly, CMovTypes, NoOp
  <2>2. ~Harmless(i) BY DEF Harmless, CMovTypes
  <2>3. \A o \in Reads(i) : getOpValue(es, o).state # "DEAD" BY <1>2, <1>3, <2>2 DEF Defined
  <2>4. getOpValue(es, i.dst).state = es.reg_state[d] BY <1>1 DEF getOpValue, RegValue, EmuValue
  <2> QED BY <2>1, <2>3, <2>4
<1>8. f \in FlagType /\ (taken <=> (orig.flag[f] = pos))
  <2>1. orig.flag \in [FlagType -> BOOLEAN] BY <1>5 DEF Machine
  <2> QED BY <2>1, CMovTaken
<1>9. es.flag_state[f] \in {"DYNAMIC", "STATIC"} /\ f \notin lost
  BY <1>5, <1>8 DEF FlagsDefined, Proper, Kept
<1>10. x \in Word BY <1>4 DEF Means
<1>11. m2 = IF taken THEN Write(orig, i.dst, x) ELSE orig BY ExecOf
<1> HIDE DEF v, x, c, f, pos, cond, taken, forced, d, e2, m2, out
<1>13. /\ m2 \in Machine /\ m2.mem = orig.mem /\ m2.flag = orig.flag /\ m2.vec = orig.vec
       /\ \A q \in Regs : q # d => m2.reg[q] = orig.reg[q]
       /\ taken => m2.reg[d] = x
       /\ ~taken => m2.reg[d] = orig.reg[d]
  BY <1>1, <1>5, <1>10, <1>11, RegSetOrNot DEF d
<1>14. /\ e2.stackState = es.stackState /\ e2.flag_state = es.flag_state
       /\ \A q \in Regs : q # d => e2.reg_state[q] = es.reg_state[q]
       /\ cond => e2.reg_state[d] = forced.state
       /\ ~cond => e2.reg_state[d] = es.reg_state[d]
  BY <1>5, SetRegStates DEF e2
<1>15. ~IsStatic(v) => Value(new, c) = x
  <2>1. Loaded(new) BY <1>3, NothingLoaded
  <2> QED BY <1>2, <1>3, <1>7, <2>1, ReadOperand DEF v, x, c
<1>16. \E n : /\ Loaded(n) /\ k \in Machine /\ k.mem = n.mem /\ k.vec = n.vec /\ k.flag = n.flag
              /\ \A q \in Regs : q # d => k.reg[q] = n.reg[q]
              /\ Unknown(e2.reg_state[d]) => k.reg[d] = m2.reg[d]
  <2>0. Loaded(new) BY <1>3, NothingLoaded
  <2>1. CASE es.flag_state[f] = "STATIC"
    <3>1. es.flag[f] = orig.flag[f] BY <1>5, <1>8, <1>9, <2>1 DEF FlagsAgree
    <3>2. cond <=> taken BY <1>8, <3>1 DEF cond
    <3>3. csIsStatic(es.flag_state[f]) BY <2>1 DEF csIsStatic
    <3>4. forced = v BY <3>3 DEF Forced, forced
    <3>5. CASE ~cond
      <4>1. out = <<>> BY <3>3, <3>5 DEF captureCMov, out
      <4>2. k = new BY <4>1, ExecAllOf
      <4>3. Unknown(es.reg_state[d]) => new.reg[d] = orig.reg[d]
        <5>1. Mentions(i, d) BY <1>1, <1>2 DEF Mentions, d
        <5> QED BY <1>5, <5>1, RegOperand
      <4> HIDE DEF k
      <4> QED BY <1>5, <1>13, <1>14, <2>0, <3>2, <3>5, <4>2, <4>3
    <3>6. CASE cond
      <4> DEFINE j == Binary("MOV", i.dst, i.src)
      <4>1. out = captureMov(es, j, v) BY <3>3, <3>6 DEF captureCMov, out
      <4>2. opStateIsTracked(es, i.dst) BY <1>1 DEF opStateIsTracked
      <4>3. j.dst = i.dst BY CapturedFields
      <4> HIDE DEF j
      <4>4. CASE IsStatic(v)
        <5>1. out = <<>> BY <4>1, <4>2, <4>3, <4>4 DEF captureMov
        <5>2. k = new BY <5>1, ExecAllOf
        <5>3. ~Unknown(e2.reg_state[d]) BY <1>14, <3>4, <3>6, <4>4 DEF Unknown, IsStatic, csIsStatic
        <5> HIDE DEF k
        <5> QED BY <1>5, <2>0, <5>2, <5>3
      <4>5. CASE ~IsStatic(v)
        <5>1. out = << Applied(es, j) >> BY <1>7, <4>1, <4>5 DEF captureMov
        <5>2. k = Exec(new, Applied(es, j)) BY <5>1, ExecAllOf
        <5>3. Exec(new, Applied(es, j)) = Write(new, applyStaticToInd(es, i.dst), Value(new, c))
          BY MoveExec DEF j, c
        <5>4. applyStaticToInd(es, i.dst) = i.dst BY <1>1 DEF applyStaticToInd
        <5> HIDE DEF k
        <5>5. k = IF TRUE THEN Write(new, i.dst, x) ELSE new BY <1>15, <4>5, <5>2, <5>3, <5>4
        <5>6. /\ k \in Machine /\ k.mem = new.mem /\ k.flag = new.flag /\ k.vec = new.vec
              /\ \A q \in Regs : q # d => k.reg[q] = new.reg[q]
              /\ k.reg[d] = x
          BY <1>1, <1>5, <1>10, <5>5, RegSetOrNot DEF d
        <5> QED BY <1>13, <2>0, <3>2, <3>6, <5>6
      <4> QED BY <4>4, <4>5
    <3> QED BY <3>5, <3>6
  <2>2. CASE es.flag_state[f] = "DYNAMIC"
    <3> DEFINE j == [i EXCEPT !.src = applyStaticToInd(es, i.src)]
               l == LoadImm(i.src, v)
               n == IF IsStatic(v) THEN Exec(new, l) ELSE new
    <3>1. ~csIsStatic(es.flag_state[f]) BY <2>2 DEF csIsStatic
    <3>2. out = IF IsStatic(v) THEN << l, j >> ELSE << j >> BY <1>7, <3>1, CMovCapture DEF out
    <3>3. j = [i EXCEPT !.src = c] BY DEF c
    <3> HIDE DEF j, l
    <3>4. k = Exec(n, j)
      <4>1. CASE IsStatic(v)
        <5>1. out = << l, j >> /\ n = Exec(new, l) BY <3>2, <4>1
        <5> HIDE DEF n
        <5> QED BY <5>1, ExecAllOf
      <4>2. CASE ~IsStatic(v)
        <5>1. out = << j >> /\ n = new BY <3>2, <4>2
        <5> HIDE DEF n
        <5> QED BY <5>1, ExecAllOf
      <4> QED BY <4>1, <4>2
    <3>5. Loaded(n) /\ Value(n, c) = x
      <4>1. CASE IsStatic(v)
        <5>1. c = i.src
          <6>1. CASE i.src.kind = "Reg" BY <6>1 DEF c, applyStaticToInd
          <6>2. CASE i.src.kind = "Ind"
            <7>1. \A q \in {i.src.reg, i.src.ireg} \ {"None"} : ~csIsStatic(es.reg_state[q])
              BY <1>3, <3>1, <4>1, <6>2, CMovNames DEF Executable, WithinLimits, LoadLimit, v, f
            <7> QED BY <1>5, <6>2, <7>1, AppliedOperand DEF c
          <6> QED BY <1>1, <6>1, <6>2
        <5>2. n = Write(new, c, v.val) BY <4>1, <5>1, MoveExec DEF l
        <5> HIDE DEF n
        <5>3. Loaded(Write(new, c, v.val)) /\ Value(Write(new, c, v.val), c) = x
          BY <1>1, <1>2, <2>0, <4>1, OperandLoaded DEF v, c, x
        <5> QED BY <5>2, <5>3
      <4>2. CASE ~IsStatic(v) BY <1>15, <2>0, <4>2
      <4> QED BY <4>1, <4>2
    <3> HIDE DEF n, k
    <3>6. n \in Machine BY <3>5 DEF Loaded
    <3>7. k = IF Taken(CMovs[i.type], n.flag) THEN Write(n, i.dst, x) ELSE n
      BY <1>1, <1>5, <1>10, <3>3, <3>4, <3>5, <3>6, CMovExec
    <3>8. Taken(CMovs[i.type], n.flag) <=> taken
      <4>1. f \in UnknownFlags(es, lost) BY <1>8, <1>9, <2>2 DEF UnknownFlags
      <4>2. new.flag[f] = orig.flag[f] BY <1>3, <1>8, <1>9, <2>2, <4>1 DEF Captured, FlagsCaptured
      <4>3. n.flag[f] = orig.flag[f] BY <3>5, <4>2 DEF Loaded
      <4>4. n.flag \in [FlagType -> BOOLEAN] /\ orig.flag \in [FlagType -> BOOLEAN]
        BY <1>5, <3>6 DEF Machine
      <4> QED BY <4>3, <4>4, CMovSame DEF f, taken
    <3>9. /\ k \in Machine /\ k.mem = n.mem /\ k.flag = n.flag /\ k.vec = n.vec
          /\ \A q \in Regs : q # d => k.reg[q] = n.reg[q]
          /\ taken => k.reg[d] = x
          /\ ~taken => k.reg[d] = n.reg[d]
      <4>1. k = IF taken THEN Write(n, i.dst, x) ELSE n BY <3>7, <3>8
      <4> QED BY <1>1, <1>5, <1>10, <3>6, <4>1, RegSetOrNot DEF d
    <3>10. Unknown(es.reg_state[d]) /\ n.reg[d] = orig.reg[d]
      <4>1. getOpValue(es, i.dst).state = "DYNAMIC"
        BY <1>3, <2>2, CMovNames DEF Executable, WithinLimits, CMovLimit, f
      <4>2. getOpValue(es, i.dst).state = es.reg_state[d] BY <1>1 DEF getOpValue, RegValue, EmuValue, d
      <4>3. Unknown(es.reg_state[d]) BY <4>1, <4>2 DEF Unknown
      <4>4. Mentions(i, d) BY <1>1, <1>2 DEF Mentions, d
      <4>5. new.reg[d] = orig.reg[d] BY <1>5, <4>3, <4>4, RegOperand
      <4> QED BY <1>5, <3>5, <4>3, <4>5 DEF Loaded
    <3> QED BY <1>13, <3>5, <3>9, <3>10
  <2> QED BY <1>9, <2>1, <2>2
<1>17. PICK n : /\ Loaded(n) /\ k \in Machine /\ k.mem = n.mem /\ k.vec = n.vec /\ k.flag = n.flag
                /\ \A q \in Regs : q # d => k.reg[q] = n.reg[q]
                /\ Unknown(e2.reg_state[d]) => k.reg[d] = m2.reg[d]
  BY <1>16
<1>18. k = ExecAll(new, out) /\ m2 = Exec(orig, i) BY DEF m2
<1> HIDE DEF k
<1>19. /\ Ready(i) /\ i.dst.kind = "Reg" /\ i.type \in CMovTypes \cup {"VGET"}
       /\ e2.stackState = es.stackState /\ e2.flag_state = es.flag_state
       /\ \A q \in Regs : q # i.dst.reg => e2.reg_state[q] = es.reg_state[q]
       /\ m2 = Exec(orig, i) /\ m2 \in Machine /\ m2.mem = orig.mem /\ m2.flag = orig.flag /\ m2.vec = orig.vec
       /\ \A q \in Regs : q # i.dst.reg => m2.reg[q] = orig.reg[q]
       /\ Loaded(n) /\ k = ExecAll(new, out) /\ k \in Machine
       /\ k.mem = n.mem /\ k.vec = n.vec /\ k.flag = n.flag
       /\ \A q \in Regs : q # i.dst.reg => k.reg[q] = n.reg[q]
       /\ Unknown(e2.reg_state[i.dst.reg]) => k.reg[i.dst.reg] = m2.reg[i.dst.reg]
  BY <1>1, <1>13, <1>14, <1>17, <1>18 DEF d
<1>20. Computes(i, Done(e2, out)) BY ONLY <1>19, RegDone
<1> QED BY <1>6, <1>20

\* Instructions that write no memory.
LEMMA PlainDone ==
  ASSUME NEW i, Ready(i), i.type \in {"CQTO", "IDIV", "VLOAD", "VADD"},
         NEW e2, e2.stackState = es.stackState,
         NEW m2, m2 = Exec(orig, i), m2 \in Machine, m2.mem = orig.mem, m2.reg["SP"] = orig.reg["SP"],
         NEW n, Loaded(n), NEW out, NEW k, k = ExecAll(new, out), k \in Machine,
         k.mem = n.mem, k.vec = m2.vec, RegsComputed(e2, m2, k, skew),
         FlagsCaptured(e2, m2, k, LostBy(i, e2, out))
  PROVE  Computes(i, Done(e2, out))
<1> DEFINE r == Done(e2, out)
<1>1. r.es = e2 /\ r.out = out BY DEF Done
<1>2. StoresTo(i) = {}
  <2>1. i.dst.kind # "Ind" \/ i.type = "IDIV"
    BY CMovNames DEF Ready, Executable, WellFormed, BinaryOps, CMovTypes
  <2> QED BY <2>1 DEF StoresTo, MemOps
<1>3. i.type \notin {"PUSH", "CALL"} OBVIOUS
<1> HIDE DEF r
<1>4. /\ Ready(i) /\ StoresTo(i) = {} /\ i.type \notin {"PUSH", "CALL"}
      /\ e2.stackState = es.stackState /\ m2 \in Machine /\ m2.mem = orig.mem
      /\ Loaded(n) /\ k \in Machine /\ k.mem = n.mem /\ k.vec = m2.vec /\ RegsComputed(e2, m2, k, skew)
      /\ m2.reg["SP"] = orig.reg["SP"]
  BY <1>2, <1>3
<1>5. /\ Computed(e2, m2, k, skew, NextAt(i, e2, m2, k))
      /\ InOrder(e2, m2, skew, NextAt(i, e2, m2, k))
  BY ONLY <1>4, PlainComputed
<1>6. skew + Missing(i, out) = skew
  <2>1. Missing(i, out) = 0 BY DEF Missing
  <2>2. skew \in Int BY DEF Ready, Captured, InOrder
  <2> QED BY <2>1, <2>2
<1>7. Computes(i, r) BY <1>1, <1>5, <1>6 DEF Computes
<1> QED BY <1>7 DEF r

\* Sign extension, on the processor.
LEMMA CqtoExec ==
  ASSUME NEW m, m \in Machine, NEW i, i.type = "CQTO"
  PROVE  LET k == Exec(m, i)
         IN /\ RegWrites(k, m, "D", IF Negative(m.reg["A"]) THEN 2 ^ W - 1 ELSE 0)
<1> DEFINE x == IF Negative(m.reg["A"]) THEN 2 ^ W - 1 ELSE 0
<1>1. Exec(m, i) = [m EXCEPT !.reg["D"] = x] BY ExecOf
<1>2. x \in Word BY WordFacts
<1>3. "D" \in Regs BY MachineAssumption
<1> HIDE DEF x
<1>4. RegWrites([m EXCEPT !.reg["D"] = x], m, "D", x) BY <1>2, <1>3, RegWriteFields
<1> QED BY <1>1, <1>4 DEF x

\* CQTO: captured unless A is known.
LEMMA CqtoComputes ==
  ASSUME NEW i, Ready(i), i.type = "CQTO"
  PROVE  Computes(i, emulateCqto(es, i))
<1> DEFINE s   == es.reg_state["A"]
           v   == EmuValue(IF Bit(es.reg["A"], W - 2) = 1 THEN 2 ^ W - 1 ELSE 0, s)
           e2  == setReg(es, "D", v)
           out == IF csIsStatic(s) THEN <<>> ELSE << i >>
           m2  == Exec(orig, i)
           k   == ExecAll(new, out)
           x   == IF Negative(orig.reg["A"]) THEN 2 ^ W - 1 ELSE 0
<1>1. /\ Captured /\ es \in EmuState /\ orig \in Machine /\ new \in Machine /\ s # "DEAD"
      /\ "A" \in Regs /\ "D" \in Regs /\ s \in CaptureState
  <2>1. "A" \in Regs /\ "D" \in Regs BY MachineAssumption
  <2>2. es \in EmuState BY DEF Ready, Executable, Proper
  <2> QED BY <2>1, <2>2, EmuFields DEF Ready, Executable, Captured, Defined
<1>2. emulateCqto(es, i) = Done(e2, out) BY DEF emulateCqto
<1>3. v.state = s BY DEF EmuValue
<1> HIDE DEF v, s
<1>4. /\ e2.stackState = es.stackState /\ e2.flag_state = es.flag_state /\ e2.reg_state["D"] = s
      /\ \A q \in Regs : q # "D" => e2.reg_state[q] = es.reg_state[q]
  BY <1>1, <1>3, SetRegStates
<1>5. RegWrites(m2, orig, "D", x) BY <1>1, CqtoExec
<1> HIDE DEF e2, m2, x
<1>6. RegsComputed(es, orig, new, skew) BY <1>1 DEF Captured, Computed
<1>7. /\ k \in Machine /\ k.mem = new.mem /\ k.vec = new.vec /\ k.flag = new.flag
      /\ \A q \in Regs : q # "D" => k.reg[q] = new.reg[q]
      /\ ~csIsStatic(s) => k.reg["D"] = x
  <2>1. CASE csIsStatic(s)
    <3>1. k = new BY <2>1, ExecAllOf
    <3> HIDE DEF k
    <3> QED BY <1>1, <2>1, <3>1
  <2>2. CASE ~csIsStatic(s)
    <3>1. k = Exec(new, i) BY <2>2, ExecAllOf
    <3>2. Unknown(s) BY <1>1, <2>2, UnknownStates
    <3>3. new.reg["A"] = orig.reg["A"] BY <1>1, <1>6, <3>2 DEF RegsComputed, s
    <3> HIDE DEF k
    <3>4. RegWrites(k, new, "D", x) BY <1>1, <3>1, <3>3, CqtoExec DEF x
    <3> QED BY <3>4 DEF RegWrites, RegDiffers
  <2> QED BY <2>1, <2>2
<1>8. /\ m2 \in Machine /\ m2.mem = orig.mem /\ m2.vec = orig.vec /\ m2.flag = orig.flag
      /\ m2.reg["D"] = x /\ \A q \in Regs : q # "D" => m2.reg[q] = orig.reg[q]
  BY <1>5 DEF RegWrites, RegDiffers
<1>9. m2 = Exec(orig, i) /\ k = ExecAll(new, out) BY DEF m2
<1> HIDE DEF k
<1>10. RegsComputed(e2, m2, k, skew)
  <2>1. ASSUME NEW q \in Regs \ {"SP"}, Unknown(e2.reg_state[q]) PROVE k.reg[q] = m2.reg[q]
    <3>1. CASE q = "D" BY <1>4, <1>7, <1>8, <2>1, <3>1 DEF Unknown, csIsStatic
    <3>2. CASE q # "D" BY <1>4, <1>6, <1>7, <1>8, <2>1, <3>2 DEF RegsComputed
    <3> QED BY <3>1, <3>2
  <2>2. Unknown(e2.reg_state["SP"]) => k.reg["SP"] = Mask(m2.reg["SP"] + skew)
    <3>1. "SP" \in Regs BY MachineAssumption
    <3> QED BY <1>4, <1>6, <1>7, <1>8, <3>1 DEF RegsComputed
  <2> QED BY <2>1, <2>2 DEF RegsComputed
<1>11. FlagsCaptured(e2, m2, k, LostBy(i, e2, out))
  <2>1. LostBy(i, e2, out) = lost BY LostOf
  <2> QED BY <1>1, <1>4, <1>7, <1>8, <2>1, FlagsLeft
<1>12. Loaded(new) /\ m2.reg["SP"] = orig.reg["SP"] /\ k.vec = m2.vec
  <2>1. "SP" \in Regs BY MachineAssumption
  <2>2. new.vec = orig.vec BY <1>1 DEF Captured, Computed, OthersComputed
  <2> QED BY <1>1, <1>7, <1>8, <2>1, <2>2, NothingLoaded
<1>13. i.type \in {"CQTO", "IDIV", "VLOAD", "VADD"} OBVIOUS
<1> HIDE DEF out
<1>14. Computes(i, Done(e2, out))
  BY <1>4, <1>7, <1>8, <1>9, <1>10, <1>11, <1>12, <1>13, PlainDone
<1> QED BY <1>2, <1>14

\* What captured vector instructions are.
LEMMA VectorApplied ==
  ASSUME NEW i, WellFormed(i), NEW e
  PROVE  LET j == Applied(e, i)
         IN j.type = i.type /\ j.dst = applyStaticToInd(e, i.dst) /\ j.src = applyStaticToInd(e, i.src)
<1>1. i = Ternary(i.type, i.dst, i.src, i.src2) BY DEF WellFormed
<1>2. Applied(e, i) = Applied(e, Ternary(i.type, i.dst, i.src, i.src2)) BY <1>1
<1> QED BY <1>2, AppliedFields

\* Vector instructions that read memory, on the processor.
LEMMA VectorExec ==
  ASSUME NEW m, m \in Machine, NEW j, j.type \in {"VLOAD", "VADD"}, NEW x, Value(m, j.src) = x, x \in Word
  PROVE  LET k == Exec(m, j)
         IN /\ k \in Machine /\ k.reg = m.reg /\ k.flag = m.flag /\ k.mem = m.mem
            /\ k.vec = IF j.type = "VLOAD" THEN x ELSE Mask(m.vec + x)
<1>1. m.vec \in Word BY MachineFields
<1>2. Mask(m.vec + x) \in Word
  <2>1. m.vec + x \in Int BY <1>1, WordFacts
  <2> QED BY <2>1, MaskFacts
<1>3. CASE j.type = "VLOAD"
  <2>1. Exec(m, j) = [m EXCEPT !.vec = x] BY <1>3, ExecOf
  <2>2. [m EXCEPT !.vec = x] \in Machine BY DEF Machine
  <2> QED BY <1>3, <2>1, <2>2 DEF Machine
<1>4. CASE j.type = "VADD"
  <2> DEFINE y == Mask(m.vec + x)
  <2>1. Exec(m, j) = [m EXCEPT !.vec = y] BY <1>4, ExecOf
  <2>2. y \in Word BY <1>2
  <2> HIDE DEF y
  <2>3. [m EXCEPT !.vec = y] \in Machine BY <2>2 DEF Machine
  <2>4. /\ Exec(m, j) \in Machine /\ Exec(m, j).reg = m.reg /\ Exec(m, j).flag = m.flag
        /\ Exec(m, j).mem = m.mem /\ Exec(m, j).vec = y
    BY <2>1, <2>3 DEF Machine
  <2> QED BY <1>4, <2>4 DEF y
<1> QED BY <1>3, <1>4

\* VLOAD and VADD: captured, with known registers of the address resolved.
LEMMA VectorReadComputes ==
  ASSUME NEW i, Ready(i), i.type \in {"VLOAD", "VADD"}
  PROVE  Computes(i, emulateVector(es, i))
<1> DEFINE j   == Applied(es, i)
           out == << j >>
           m2  == Exec(orig, i)
           k   == ExecAll(new, out)
           x   == Value(orig, i.src)
<1>1. /\ Captured /\ Executable(i) /\ es \in EmuState /\ orig \in Machine /\ new \in Machine /\ WellFormed(i)
      /\ Loaded(new) /\ Defined(i)
  <2>1. Captured BY DEF Ready
  <2> QED BY <2>1, NothingLoaded DEF Ready, Executable, Proper, Captured
<1>2. i.src.kind = "Ind" /\ i.src \in Operands(i)
  BY <1>1, CMovNames DEF WellFormed, BinaryOps, CMovTypes, Operands, NoOp
<1>3. emulateVector(es, i) = Done(es, out) BY DEF emulateVector
<1>4. j.type = i.type /\ j.src = applyStaticToInd(es, i.src) BY <1>1, VectorApplied
<1>5. i.src \in MemOps(i) BY <1>2 DEF MemOps
<1>6. Value(new, applyStaticToInd(es, i.src)) = x
  <2>1. getOpValue(es, i.src).state # "DEAD"
    <3>1. i.src \in Reads(i) BY <1>2 DEF Reads, NoOp
    <3>2. ~Harmless(i) BY DEF Harmless
    <3> QED BY <1>1, <3>1, <3>2 DEF Defined
  <2>2. opStateIsTracked(es, i.src) => ~IsStatic(getOpValue(es, i.src))
    <3>1. opStateIsTracked(es, i.src) => IsStackOp(i.src) BY <1>2 DEF opStateIsTracked, IsStackOp
    <3>2. IsStackOp(i.src) => getOpValue(es, i.src).state = "DYNAMIC"
      BY <1>1, <1>5 DEF Executable, WithinLimits, VectorLimit
    <3> QED BY <3>1, <3>2 DEF IsStatic, csIsStatic
  <2> QED BY <1>1, <1>2, <2>1, <2>2, ReadOperand
<1>7. x \in Word
  <2>1. Means(getOpValue(es, i.src), x) BY <1>1, <1>2, ExecutableFacts
  <2> QED BY <2>1 DEF Means
<1>8. k = Exec(new, j) BY ExecAllOf
<1> HIDE DEF j, x, m2, k
<1>9. /\ k \in Machine /\ k.reg = new.reg /\ k.flag = new.flag /\ k.mem = new.mem
      /\ k.vec = IF i.type = "VLOAD" THEN x ELSE Mask(new.vec + x)
  BY <1>1, <1>4, <1>6, <1>7, <1>8, VectorExec
<1>10. /\ m2 \in Machine /\ m2.reg = orig.reg /\ m2.flag = orig.flag /\ m2.mem = orig.mem
       /\ m2.vec = IF i.type = "VLOAD" THEN x ELSE Mask(orig.vec + x)
  BY <1>1, <1>7, VectorExec DEF x, m2
<1>11. new.vec = orig.vec BY <1>1 DEF Captured, Computed, OthersComputed
<1>12. RegsComputed(es, m2, k, skew) BY <1>1, <1>9, <1>10 DEF Captured, Computed, RegsComputed
<1>13. FlagsCaptured(es, m2, k, LostBy(i, es, out))
  <2>1. LostBy(i, es, out) = lost BY LostOf
  <2> QED BY <1>1, <1>9, <1>10, <2>1, FlagsLeft
<1>14. m2 = Exec(orig, i) /\ k = ExecAll(new, out) /\ k.vec = m2.vec /\ i.type \in {"CQTO", "IDIV", "VLOAD", "VADD"}
  BY <1>9, <1>10, <1>11 DEF m2, k
<1> HIDE DEF out
<1>15. Computes(i, Done(es, out))
  <2>1. es.stackState = es.stackState OBVIOUS
  <2>2. m2.reg["SP"] = orig.reg["SP"] BY <1>10
  <2> QED BY <1>1, <1>9, <1>10, <1>12, <1>13, <1>14, <2>1, <2>2, PlainDone
<1> QED BY <1>3, <1>15

\* VSTORE: what is stored on the stack stays unknown, within VectorLimit.
LEMMA VectorStoreComputes ==
  ASSUME NEW i, Ready(i), i.type = "VSTORE"
  PROVE  Computes(i, emulateVector(es, i))
<1> DEFINE j   == Applied(es, i)
           c   == applyStaticToInd(es, i.dst)
           out == << j >>
           m2  == Exec(orig, i)
           k   == ExecAll(new, out)
           x   == orig.vec
           y   == AddrOf(orig, i.dst)
           r   == Done(es, out)
<1>1. /\ Captured /\ Executable(i) /\ es \in EmuState /\ orig \in Machine /\ new \in Machine /\ WellFormed(i)
      /\ Loaded(new)
  <2>1. Captured BY DEF Ready
  <2> QED BY <2>1, NothingLoaded DEF Ready, Executable, Proper, Captured
<1>2. i.dst.kind = "Ind" /\ i.dst \in Operands(i) /\ i.dst \in Operand
  <2>1. i.dst \in Operand BY <1>1, ExecutableFacts
  <2> QED BY <1>1, <2>1, CMovNames DEF WellFormed, BinaryOps, CMovTypes, Operands, NoOp
<1>3. emulateVector(es, i) = r BY DEF emulateVector
<1>4. j.type = "VSTORE" /\ j.dst = c BY <1>1, VectorApplied
<1>5. c \in Operand /\ c.kind = "Ind" BY <1>1, <1>2, AppliedOperand
<1>6. AddrOf(new, c) = y BY <1>1, <1>2, AddrOperand
<1>7. new.vec = x /\ x \in Word
  <2>1. new.vec = x BY <1>1 DEF Captured, Computed, OthersComputed
  <2> QED BY <1>1, <2>1, MachineFields
<1>8. k = Exec(new, j) BY ExecAllOf
<1>9. r.es = es /\ r.out = out BY DEF Done
<1> HIDE DEF j, c, x, m2, k, y, r
<1>10. k = Write(new, c, x)
  <2>1. Exec(new, j) = Write(new, j.dst, new.vec) BY <1>4, ExecOf
  <2> QED BY <1>4, <1>7, <1>8, <2>1
<1>11. m2 = Write(orig, i.dst, x) BY ExecOf DEF m2, x
<1>12. k \in Machine /\ k.flag = new.flag /\ k.vec = new.vec /\ k.reg = new.reg /\ MemDiffers(k, new, y, x)
  <2>1. c.kind \in {"Reg", "Ind"} BY <1>5
  <2> QED BY <1>1, <1>5, <1>6, <1>7, <1>10, <2>1, WriteFields
<1>13. m2 \in Machine /\ m2.flag = orig.flag /\ m2.vec = orig.vec /\ m2.reg = orig.reg /\ MemDiffers(m2, orig, y, x)
  <2>1. i.dst.kind \in {"Reg", "Ind"} BY <1>2
  <2> QED BY <1>1, <1>2, <1>7, <1>11, <2>1, WriteFields DEF y
<1>14. /\ Computed(es, m2, k, skew, NextAt(i, es, m2, k))
       /\ InOrder(es, m2, skew, NextAt(i, es, m2, k))
  <2>1. /\ Ready(i) /\ i.dst.kind = "Ind" /\ i.type \notin {"LEA", "CMP", "TEST", "PUSH", "CALL", "IDIV"}
        /\ y = AddrOf(orig, i.dst) /\ es.reg_state = es.reg_state
        /\ \A o \in Slots : SlotAddr(o) # y => es.stackState[o] = es.stackState[o]
        /\ m2 \in Machine /\ MemDiffers(m2, orig, y, x) /\ m2.reg = orig.reg
        /\ Loaded(new) /\ k \in Machine /\ k.vec = m2.vec /\ k.reg = new.reg
        /\ MemDiffers(k, new, y, x)
    BY <1>1, <1>2, <1>7, <1>12, <1>13 DEF y, x
  <2> QED BY ONLY <2>1, MemComputed
<1>15. FlagsCaptured(es, m2, k, LostBy(i, es, out))
  <2>1. LostBy(i, es, out) = lost BY LostOf
  <2> QED BY <1>1, <1>12, <1>13, <2>1, FlagsLeft
<1>16. skew + Missing(i, out) = skew
  <2>1. Missing(i, out) = 0 BY DEF Missing
  <2>2. skew \in Int BY <1>1 DEF Captured, InOrder
  <2> QED BY <2>1, <2>2
<1>17. m2 = Exec(orig, i) /\ k = ExecAll(new, out) BY DEF m2, k
<1> HIDE DEF out
<1>18. Computes(i, r) BY <1>9, <1>12, <1>14, <1>15, <1>16, <1>17 DEF Computes
<1> QED BY <1>3, <1>18

\* VGET: the register it sets is unknown then.
LEMMA VectorGetComputes ==
  ASSUME NEW i, Ready(i), i.type = "VGET"
  PROVE  Computes(i, emulateVector(es, i))
<1> DEFINE d   == i.dst.reg
           e2  == [es EXCEPT !.reg_state[d] = "DYNAMIC"]
           j   == Applied(e2, i)
           out == << j >>
           m2  == Exec(orig, i)
           k   == ExecAll(new, out)
           x   == orig.vec
<1>1. /\ Captured /\ Executable(i) /\ es \in EmuState /\ orig \in Machine /\ new \in Machine /\ WellFormed(i)
      /\ Loaded(new)
  <2>1. Captured BY DEF Ready
  <2> QED BY <2>1, NothingLoaded DEF Ready, Executable, Proper, Captured
<1>2. i.dst.kind = "Reg" /\ i.dst \in Operand /\ d \in Regs
  <2>1. i.dst \in Operand BY <1>1, ExecutableFacts
  <2>2. i.dst.kind = "Reg" BY <1>1, CMovNames DEF WellFormed, BinaryOps, CMovTypes
  <2> QED BY <2>1, <2>2, OperandFields
<1>3. emulateVector(es, i) = Done(e2, out) BY DEF emulateVector
<1>4. /\ e2.stackState = es.stackState /\ e2.flag_state = es.flag_state
      /\ \A q \in Regs : q # d => e2.reg_state[q] = es.reg_state[q]
  BY <1>1, <1>2 DEF EmuState
<1> HIDE DEF e2
<1>5. j.type = "VGET" /\ j.dst = i.dst
  <2>1. j.type = i.type /\ j.dst = applyStaticToInd(e2, i.dst) BY <1>1, VectorApplied
  <2>2. applyStaticToInd(e2, i.dst) = i.dst BY <1>2 DEF applyStaticToInd
  <2> QED BY <2>1, <2>2
<1>6. new.vec = x /\ x \in Word
  <2>1. new.vec = x BY <1>1 DEF Captured, Computed, OthersComputed
  <2> QED BY <1>1, <2>1, MachineFields
<1>7. k = Exec(new, j) BY ExecAllOf
<1> HIDE DEF j, x, m2, k, d
<1>8. k = IF TRUE THEN Write(new, i.dst, x) ELSE new
  <2>1. Exec(new, j) = Write(new, j.dst, new.vec) BY <1>5, ExecOf
  <2> QED BY <1>5, <1>6, <1>7, <2>1
<1>9. m2 = IF TRUE THEN Write(orig, i.dst, x) ELSE orig BY ExecOf DEF m2, x
<1>10. /\ k \in Machine /\ k.mem = new.mem /\ k.flag = new.flag /\ k.vec = new.vec
       /\ \A q \in Regs : q # d => k.reg[q] = new.reg[q]
       /\ k.reg[d] = x
  BY <1>1, <1>2, <1>6, <1>8, RegSetOrNot DEF d
<1>11. /\ m2 \in Machine /\ m2.mem = orig.mem /\ m2.flag = orig.flag /\ m2.vec = orig.vec
       /\ \A q \in Regs : q # d => m2.reg[q] = orig.reg[q]
       /\ m2.reg[d] = x
  BY <1>1, <1>2, <1>6, <1>9, RegSetOrNot DEF d
<1>12. m2 = Exec(orig, i) /\ k = ExecAll(new, out) BY DEF m2, k
<1> HIDE DEF out
<1>13. /\ Ready(i) /\ i.dst.kind = "Reg" /\ i.type \in CMovTypes \cup {"VGET"}
       /\ e2.stackState = es.stackState /\ e2.flag_state = es.flag_state
       /\ \A q \in Regs : q # i.dst.reg => e2.reg_state[q] = es.reg_state[q]
       /\ m2 = Exec(orig, i) /\ m2 \in Machine /\ m2.mem = orig.mem /\ m2.flag = orig.flag /\ m2.vec = orig.vec
       /\ \A q \in Regs : q # i.dst.reg => m2.reg[q] = orig.reg[q]
       /\ Loaded(new) /\ k = ExecAll(new, out) /\ k \in Machine
       /\ k.mem = new.mem /\ k.vec = new.vec /\ k.flag = new.flag
       /\ \A q \in Regs : q # i.dst.reg => k.reg[q] = new.reg[q]
       /\ Unknown(e2.reg_state[i.dst.reg]) => k.reg[i.dst.reg] = m2.reg[i.dst.reg]
  BY <1>1, <1>2, <1>4, <1>10, <1>11, <1>12 DEF d
<1>14. Computes(i, Done(e2, out)) BY ONLY <1>13, RegDone
<1> QED BY <1>3, <1>14

\* Nothing added to sequences, and a fourth instruction.
LEMMA MoreJoined ==
  /\ <<>> \o <<>> = <<>>
  /\ \A a : << a >> \o <<>> = << a >>
  /\ \A a, b : << a, b >> \o <<>> = << a, b >>
  /\ \A a, b, c, d : << a, b, c >> \o << d >> = << a, b, c, d >>
<1>1. <<>> \o <<>> = <<>> OBVIOUS
<1>2. ASSUME NEW a PROVE << a >> \o <<>> = << a >> OBVIOUS
<1>3. ASSUME NEW a, NEW b PROVE << a, b >> \o <<>> = << a, b >>
  <2>1. << a, b >> \in Seq({a, b}) OBVIOUS
  <2> QED BY <2>1
<1>4. ASSUME NEW a, NEW b, NEW c, NEW d PROVE << a, b, c >> \o << d >> = << a, b, c, d >>
  <2> DEFINE s == << a, b, c >> \o << d >>
  <2>1. << a, b, c >> \in Seq({a, b, c, d}) /\ << d >> \in Seq({a, b, c, d}) OBVIOUS
  <2>2. s \in Seq({a, b, c, d}) /\ Len(s) = 4 /\ s[1] = a /\ s[2] = b /\ s[3] = c /\ s[4] = d BY <2>1
  <2> HIDE DEF s
  <2>3. s = [ n \in 1 .. 4 |-> s[n] ] BY <2>2
  <2>4. [ n \in 1 .. 4 |-> s[n] ] = << s[1], s[2], s[3], s[4] >> OBVIOUS
  <2>5. s = << a, b, c, d >> BY <2>2, <2>3, <2>4
  <2> QED BY <2>5 DEF s
<1> QED BY <1>1, <1>2, <1>3, <1>4

\* The same for each length.
LEMMA ExecTwo == ASSUME NEW m, NEW a, NEW b PROVE ExecAll(m, << a, b >>) = Exec(Exec(m, a), b)
<1> DEFINE s == << a, b >>
<1>1. Len(s) = 2 /\ s[1] = a /\ s[2] = b OBVIOUS
<1> HIDE DEF s
<1>2. ExecAll(m, s) = Exec(Exec(m, a), b) BY <1>1, ExecAllFour
<1> QED BY <1>2 DEF s

\* Three instructions, one after the other.
LEMMA ExecThree ==
  ASSUME NEW m, NEW a, NEW b, NEW c
  PROVE  ExecAll(m, << a, b, c >>) = Exec(Exec(Exec(m, a), b), c)
<1> DEFINE s == << a, b, c >>
<1>1. Len(s) = 3 /\ s[1] = a /\ s[2] = b /\ s[3] = c OBVIOUS
<1> HIDE DEF s
<1>2. ExecAll(m, s) = Exec(Exec(Exec(m, a), b), c) BY <1>1, ExecAllFour
<1> QED BY <1>2 DEF s

\* Four instructions.
LEMMA ExecFour ==
  ASSUME NEW m, NEW a, NEW b, NEW c, NEW d
  PROVE  ExecAll(m, << a, b, c, d >>) = Exec(Exec(Exec(Exec(m, a), b), c), d)
<1> DEFINE s == << a, b, c, d >>
<1>1. Len(s) = 4 /\ s[1] = a /\ s[2] = b /\ s[3] = c /\ s[4] = d OBVIOUS
<1> HIDE DEF s
<1>2. ExecAll(m, s) = Exec(Exec(Exec(Exec(m, a), b), c), d) BY <1>1, ExecAllFour
<1> QED BY <1>2 DEF s

\* At most one instruction s leads from m to n.
Runs(s, m, n) == (s = <<>> /\ n = m) \/ \E a : s = << a >> /\ n = Exec(m, a)

\* Instructions captured after up to three others that may be missing.
LEMMA LoadsExec ==
  ASSUME NEW m, NEW sa, NEW sb, NEW sc, NEW j, NEW n1, NEW n2, NEW n3,
         Runs(sa, m, n1), Runs(sb, n1, n2), Runs(sc, n2, n3)
  PROVE  ExecAll(m, sa \o sb \o sc \o << j >>) = Exec(n3, j)
<1> DEFINE s == sa \o sb \o sc \o << j >>
<1>3. s = sa \o sb \o sc \o << j >> OBVIOUS
<1> HIDE DEF s
<1>1. CASE sa # <<>>
  <2>0. PICK a : sa = << a >> /\ n1 = Exec(m, a) BY <1>1 DEF Runs
  <2>1. CASE sb # <<>> /\ sc # <<>>
    <3>1. PICK b : sb = << b >> /\ n2 = Exec(n1, b) BY <2>1 DEF Runs
    <3>2. PICK c : sc = << c >> /\ n3 = Exec(n2, c) BY <2>1 DEF Runs
    <3>3. sa = << a >> /\ sb = << b >> /\ sc = << c >> BY <2>0, <2>1, <3>1, <3>2
    <3>4. << a >> \o << b >> = << a, b >> BY ONLY Joined, MoreJoined
    <3>5. << a, b >> \o << c >> = << a, b, c >> BY ONLY Joined, MoreJoined
    <3>6. << a, b, c >> \o << j >> = << a, b, c, j >> BY ONLY Joined, MoreJoined
    <3>7. s = << a, b, c, j >> BY ONLY <1>3, <3>3, <3>4, <3>5, <3>6
    <3>8. ExecAll(m, << a, b, c, j >>) = Exec(Exec(Exec(Exec(m, a), b), c), j) BY ONLY ExecFour
    <3>9. n3 = Exec(Exec(Exec(m, a), b), c) BY <2>0, <3>1, <3>2
    <3> QED BY ONLY <3>7, <3>8, <3>9 DEF s
  <2>2. CASE sb # <<>> /\ sc = <<>>
    <3>1. PICK b : sb = << b >> /\ n2 = Exec(n1, b) BY <2>2 DEF Runs
    <3>2. n3 = n2 BY <2>2 DEF Runs
    <3>3. sa = << a >> /\ sb = << b >> /\ sc = <<>> BY <2>0, <2>2, <3>1, <3>2
    <3>4. << a >> \o << b >> = << a, b >> BY ONLY Joined, MoreJoined
    <3>5. << a, b >> \o <<>> = << a, b >> BY ONLY Joined, MoreJoined
    <3>6. << a, b >> \o << j >> = << a, b, j >> BY ONLY Joined, MoreJoined
    <3>7. s = << a, b, j >> BY ONLY <1>3, <3>3, <3>4, <3>5, <3>6
    <3>8. ExecAll(m, << a, b, j >>) = Exec(Exec(Exec(m, a), b), j) BY ONLY ExecThree
    <3>9. n3 = Exec(Exec(m, a), b) BY <2>0, <3>1, <3>2
    <3> QED BY ONLY <3>7, <3>8, <3>9 DEF s
  <2>3. CASE sb = <<>> /\ sc # <<>>
    <3>1. n2 = n1 BY <2>3 DEF Runs
    <3>2. PICK c : sc = << c >> /\ n3 = Exec(n2, c) BY <2>3 DEF Runs
    <3>3. sa = << a >> /\ sb = <<>> /\ sc = << c >> BY <2>0, <2>3, <3>1, <3>2
    <3>4. << a >> \o <<>> = << a >> BY ONLY Joined, MoreJoined
    <3>5. << a >> \o << c >> = << a, c >> BY ONLY Joined, MoreJoined
    <3>6. << a, c >> \o << j >> = << a, c, j >> BY ONLY Joined, MoreJoined
    <3>7. s = << a, c, j >> BY ONLY <1>3, <3>3, <3>4, <3>5, <3>6
    <3>8. ExecAll(m, << a, c, j >>) = Exec(Exec(Exec(m, a), c), j) BY ONLY ExecThree
    <3>9. n3 = Exec(Exec(m, a), c) BY <2>0, <3>1, <3>2
    <3> QED BY ONLY <3>7, <3>8, <3>9 DEF s
  <2>4. CASE sb = <<>> /\ sc = <<>>
    <3>1. n2 = n1 BY <2>4 DEF Runs
    <3>2. n3 = n2 BY <2>4 DEF Runs
    <3>3. sa = << a >> /\ sb = <<>> /\ sc = <<>> BY <2>0, <2>4, <3>1, <3>2
    <3>4. << a >> \o <<>> = << a >> BY ONLY Joined, MoreJoined
    <3>5. << a >> \o <<>> = << a >> BY ONLY Joined, MoreJoined
    <3>6. << a >> \o << j >> = << a, j >> BY ONLY Joined, MoreJoined
    <3>7. s = << a, j >> BY ONLY <1>3, <3>3, <3>4, <3>5, <3>6
    <3>8. ExecAll(m, << a, j >>) = Exec(Exec(m, a), j) BY ONLY ExecTwo
    <3>9. n3 = Exec(m, a) BY <2>0, <3>1, <3>2
    <3> QED BY ONLY <3>7, <3>8, <3>9 DEF s
  <2> QED BY <2>1, <2>2, <2>3, <2>4
<1>2. CASE sa = <<>>
  <2>0. n1 = m BY <1>2 DEF Runs
  <2>1. CASE sb # <<>> /\ sc # <<>>
    <3>1. PICK b : sb = << b >> /\ n2 = Exec(n1, b) BY <2>1 DEF Runs
    <3>2. PICK c : sc = << c >> /\ n3 = Exec(n2, c) BY <2>1 DEF Runs
    <3>3. sa = <<>> /\ sb = << b >> /\ sc = << c >> BY <1>2, <2>1, <3>1, <3>2
    <3>4. <<>> \o << b >> = << b >> BY ONLY Joined, MoreJoined
    <3>5. << b >> \o << c >> = << b, c >> BY ONLY Joined, MoreJoined
    <3>6. << b, c >> \o << j >> = << b, c, j >> BY ONLY Joined, MoreJoined
    <3>7. s = << b, c, j >> BY ONLY <1>3, <3>3, <3>4, <3>5, <3>6
    <3>8. ExecAll(m, << b, c, j >>) = Exec(Exec(Exec(m, b), c), j) BY ONLY ExecThree
    <3>9. n3 = Exec(Exec(m, b), c) BY <2>0, <3>1, <3>2
    <3> QED BY ONLY <3>7, <3>8, <3>9 DEF s
  <2>2. CASE sb # <<>> /\ sc = <<>>
    <3>1. PICK b : sb = << b >> /\ n2 = Exec(n1, b) BY <2>2 DEF Runs
    <3>2. n3 = n2 BY <2>2 DEF Runs
    <3>3. sa = <<>> /\ sb = << b >> /\ sc = <<>> BY <1>2, <2>2, <3>1, <3>2
    <3>4. <<>> \o << b >> = << b >> BY ONLY Joined, MoreJoined
    <3>5. << b >> \o <<>> = << b >> BY ONLY Joined, MoreJoined
    <3>6. << b >> \o << j >> = << b, j >> BY ONLY Joined, MoreJoined
    <3>7. s = << b, j >> BY ONLY <1>3, <3>3, <3>4, <3>5, <3>6
    <3>8. ExecAll(m, << b, j >>) = Exec(Exec(m, b), j) BY ONLY ExecTwo
    <3>9. n3 = Exec(m, b) BY <2>0, <3>1, <3>2
    <3> QED BY ONLY <3>7, <3>8, <3>9 DEF s
  <2>3. CASE sb = <<>> /\ sc # <<>>
    <3>1. n2 = n1 BY <2>3 DEF Runs
    <3>2. PICK c : sc = << c >> /\ n3 = Exec(n2, c) BY <2>3 DEF Runs
    <3>3. sa = <<>> /\ sb = <<>> /\ sc = << c >> BY <1>2, <2>3, <3>1, <3>2
    <3>4. <<>> \o <<>> = <<>> BY ONLY Joined, MoreJoined
    <3>5. <<>> \o << c >> = << c >> BY ONLY Joined, MoreJoined
    <3>6. << c >> \o << j >> = << c, j >> BY ONLY Joined, MoreJoined
    <3>7. s = << c, j >> BY ONLY <1>3, <3>3, <3>4, <3>5, <3>6
    <3>8. ExecAll(m, << c, j >>) = Exec(Exec(m, c), j) BY ONLY ExecTwo
    <3>9. n3 = Exec(m, c) BY <2>0, <3>1, <3>2
    <3> QED BY ONLY <3>7, <3>8, <3>9 DEF s
  <2>4. CASE sb = <<>> /\ sc = <<>>
    <3>1. n2 = n1 BY <2>4 DEF Runs
    <3>2. n3 = n2 BY <2>4 DEF Runs
    <3>3. sa = <<>> /\ sb = <<>> /\ sc = <<>> BY <1>2, <2>4, <3>1, <3>2
    <3>4. <<>> \o <<>> = <<>> BY ONLY Joined, MoreJoined
    <3>5. <<>> \o <<>> = <<>> BY ONLY Joined, MoreJoined
    <3>6. <<>> \o << j >> = << j >> BY ONLY Joined, MoreJoined
    <3>7. s = << j >> BY ONLY <1>3, <3>3, <3>4, <3>5, <3>6
    <3>8. ExecAll(m, << j >>) = Exec(m, j) BY ExecAllOf
    <3>9. n3 = m BY <2>0, <3>1, <3>2
    <3> QED BY ONLY <3>7, <3>8, <3>9 DEF s
  <2> QED BY <2>1, <2>2, <2>3, <2>4
<1> QED BY <1>1, <1>2

\* Division of small words, on the processor.
LEMMA DivideExec ==
  ASSUME NEW m, m \in Machine, NEW i, i.type = "IDIV", m.reg["D"] = 0,
         NEW x, x = m.reg["A"], NEW b \in Word, b = Value(m, i.dst), ~Negative(x), ~Negative(b), b # 0
  PROVE  LET k == Exec(m, i)
         IN /\ k \in Machine /\ k.mem = m.mem /\ k.flag = m.flag /\ k.vec = m.vec
            /\ k.reg["A"] = x \div b /\ k.reg["D"] = x % b
            /\ \A r \in Regs : r \notin {"A", "D"} => k.reg[r] = m.reg[r]
<1> DEFINE q == x \div b
           w == x % b
           k == Exec(m, i)
<1>1. "A" \in Regs /\ "D" \in Regs BY MachineAssumption
<1>2. x \in Word BY <1>1, MachineFields
<1>3. Signed(b) = b /\ Signed(x) = x /\ Signed(0) = 0
  <2>1. 0 \in Word /\ ~(0 >= Half) BY WordFacts
  <2> QED BY <1>2, <2>1, SignFacts
<1>4. Dividend(m) = x
  <2>1. 0 * 2 ^ W = 0 /\ 0 + x = x BY <1>2, WordFacts
  <2> QED BY <1>3, <2>1 DEF Dividend
<1>5. Exec(m, i) = Divide(m, i.dst) BY ExecOf
<1>6. Quotient(Dividend(m), Signed(b)) = q /\ Dividend(m) - q * Signed(b) = w
  BY <1>2, <1>3, <1>4, DivisionFacts
<1>7. q \in Word /\ w \in Word BY <1>2, DivisionFacts
<1>8. Mask(q) = q /\ Mask(w) = w BY <1>7, MaskFacts
<1> HIDE DEF q, w
<1>9. Divide(m, i.dst) = [m EXCEPT !.reg["A"] = q, !.reg["D"] = w]
  BY <1>6, <1>8, Zenon DEF Divide
<1>10. k = [m EXCEPT !.reg["A"] = q, !.reg["D"] = w] BY <1>5, <1>9
<1> HIDE DEF k
<1>11. /\ k \in Machine /\ k.mem = m.mem /\ k.flag = m.flag /\ k.vec = m.vec
       /\ k.reg["A"] = q /\ k.reg["D"] = w
       /\ \A r \in Regs : r \notin {"A", "D"} => k.reg[r] = m.reg[r]
  BY <1>1, <1>7, <1>10 DEF Machine
<1> QED BY <1>11 DEF k, q, w

\* Loading a register that is known, unless it is not.
LEMMA RegLoadedIfKnown ==
  ASSUME NEW i, Ready(i), NEW o \in Operands(i), i.type # "LEA", o.kind # "None",
         NEW n, Loaded(n), Value(n, applyStaticToInd(es, o)) = Value(orig, o),
         NEW r \in Regs, r # "SP", es.reg_state[r] # "DEAD",
         NEW k, k = IF csIsStatic(es.reg_state[r]) THEN Exec(n, LoadImm(RegOp(r), RegValue(es, r))) ELSE n
  PROVE  /\ Loaded(k) /\ Value(k, applyStaticToInd(es, o)) = Value(orig, o) /\ k.reg[r] = orig.reg[r]
         /\ \A q \in Regs : q # r => k.reg[q] = n.reg[q]
<1>1. /\ es \in EmuState /\ n \in Machine /\ Captured /\ orig \in Machine /\ RegsAgree(es, orig)
  BY DEF Ready, Executable, Proper, Loaded, Agrees
<1>2. es.reg_state[r] \in CaptureState /\ orig.reg[r] \in Word BY <1>1, EmuFields, MachineFields
<1>3. CASE csIsStatic(es.reg_state[r])
  <2> DEFINE x == es.reg[r]
  <2>1. x = orig.reg[r] BY <1>1, <1>3 DEF RegsAgree, MeansValue
  <2>2. k = Write(n, RegOp(r), x)
    <3>1. Exec(n, LoadImm(RegOp(r), RegValue(es, r))) = Write(n, RegOp(r), RegValue(es, r).val) BY MoveExec
    <3>2. RegValue(es, r).val = x BY DEF RegValue, EmuValue
    <3> QED BY <1>3, <3>1, <3>2
  <2> HIDE DEF x
  <2>3. RegOp(r).kind = "Reg" /\ RegOp(r).reg = r BY DEF RegOp, NoOp
  <2>4. k = [n EXCEPT !.reg[r] = x] BY <2>2, <2>3 DEF Write
  <2>5. RegWrites([n EXCEPT !.reg[r] = x], n, r, x) BY <1>1, <1>2, <2>1, RegWriteFields
  <2>6. RegWrites(k, n, r, x) BY <2>4, <2>5
  <2>7. RegWrites(k, n, r, orig.reg[r]) BY <2>1, <2>6
  <2>8. Loaded(k) /\ k.reg[r] = x /\ \A q \in Regs : q # r => k.reg[q] = n.reg[q]
    BY <1>1, <1>3, <2>6, RegLoaded
  <2>9. Value(k, applyStaticToInd(es, o)) = Value(orig, o) BY <1>3, <2>7, HoldsLoaded
  <2> QED BY <2>1, <2>8, <2>9
<1>4. CASE ~csIsStatic(es.reg_state[r])
  <2>1. k = n BY <1>4
  <2>2. Unknown(es.reg_state[r]) BY <1>2, <1>4, UnknownStates
  <2>3. n.reg[r] = new.reg[r] BY <2>2 DEF Loaded
  <2>4. new.reg[r] = orig.reg[r] BY <1>1, <2>2 DEF Captured, Computed, RegsComputed
  <2> QED BY <2>1, <2>3, <2>4
<1> QED BY <1>3, <1>4

\* Loading an operand that is known, unless it is not.
LEMMA OperandLoadedIfKnown ==
  ASSUME NEW i, Ready(i), NEW o \in Operands(i), i.type # "LEA", o.kind \in {"Reg", "Ind"},
         getOpValue(es, o).state # "DEAD",
         NEW k, k = IF IsStatic(getOpValue(es, o)) THEN Exec(new, Applied(es, LoadImm(o, getOpValue(es, o)))) ELSE new
  PROVE  Loaded(k) /\ Value(k, applyStaticToInd(es, o)) = Value(orig, o)
<1>1. Loaded(new) BY NothingLoaded DEF Ready
<1>2. CASE IsStatic(getOpValue(es, o))
  <2> DEFINE n == Write(new, applyStaticToInd(es, o), getOpValue(es, o).val)
  <2>1. k = n BY <1>2, MoveExec
  <2>2. Loaded(n) /\ Value(n, applyStaticToInd(es, o)) = Value(orig, o) BY <1>1, <1>2, OperandLoaded
  <2> HIDE DEF n
  <2> QED BY <2>1, <2>2
<1>3. CASE ~IsStatic(getOpValue(es, o))
  <2>1. Value(new, applyStaticToInd(es, o)) = Value(orig, o) BY <1>1, <1>3, ReadOperand
  <2> QED BY <1>1, <1>3, <2>1
<1> QED BY <1>2, <1>3

\* What captureIDiv captures, unless the result is known.
LEMMA DivideCapture ==
  ASSUME NEW i, NEW cs, ~csIsStatic(cs), NEW v, v = getOpValue(es, i.dst), ~(IsStatic(v) /\ v.val = 1),
         NEW n1, n1 = (IF IsStatic(v) THEN Exec(new, Applied(es, LoadImm(i.dst, v))) ELSE new),
         NEW n2, n2 = (IF csIsStatic(es.reg_state["A"]) THEN Exec(n1, LoadImm(RegOp("A"), RegValue(es, "A"))) ELSE n1),
         NEW n3, n3 = (IF csIsStatic(es.reg_state["D"]) THEN Exec(n2, LoadImm(RegOp("D"), RegValue(es, "D"))) ELSE n2)
  PROVE  ExecAll(new, captureIDiv(es, i, cs)) = Exec(n3, Applied(es, i))
<1> DEFINE p  == IsStatic(v)
           q  == csIsStatic(es.reg_state["A"])
           r  == csIsStatic(es.reg_state["D"])
           a  == Applied(es, LoadImm(i.dst, v))
           b  == LoadImm(RegOp("A"), RegValue(es, "A"))
           c  == LoadImm(RegOp("D"), RegValue(es, "D"))
           j  == Applied(es, i)
           sa == IF p THEN << a >> ELSE <<>>
           sb == IF q THEN << b >> ELSE <<>>
           sc == IF r THEN << c >> ELSE <<>>
           s  == sa \o sb \o sc \o << j >>
<1>1. captureIDiv(es, i, cs) = s BY DEF captureIDiv
<1>2. Runs(sa, new, n1) /\ Runs(sb, n1, n2) /\ Runs(sc, n2, n3)
  <2>1. Runs(sa, new, n1) BY DEF Runs
  <2>2. Runs(sb, n1, n2) BY DEF Runs
  <2>3. Runs(sc, n2, n3) BY DEF Runs
  <2> QED BY <2>1, <2>2, <2>3
<1> HIDE DEF p, q, r, a, b, c, j, sa, sb, sc
<1>5. ExecAll(new, s) = Exec(n3, j) BY ONLY <1>2, LoadsExec
<1> QED BY <1>1, <1>5 DEF j

\* IDIV (captureIDiv): what is known of dividend and divisor is loaded, within
\* DivisionLimit and RelativeLimit.
LEMMA IDivComputes ==
  ASSUME NEW i, Ready(i), i.type = "IDIV"
  PROVE  Computes(i, emulateIDiv(es, i))
<1> DEFINE v  == getOpValue(es, i.dst)
           b  == Value(orig, i.dst)
           c  == applyStaticToInd(es, i.dst)
           cs == combineState(combineState(es.reg_state["D"], es.reg_state["A"], TRUE), v.state, FALSE)
           a  == es.reg["A"]
           x  == orig.reg["A"]
           va == EmuValue(a \div v.val, cs)
           vd == EmuValue(a % v.val, cs)
           e1 == setReg(es, "A", va)
           e2 == setReg(e1, "D", vd)
           out == captureIDiv(es, i, cs)
           m2 == Exec(orig, i)
           k  == ExecAll(new, out)
           j  == Applied(es, i)
           n1 == IF IsStatic(v) THEN Exec(new, Applied(es, LoadImm(i.dst, v))) ELSE new
           n2 == IF csIsStatic(es.reg_state["A"]) THEN Exec(n1, LoadImm(RegOp("A"), RegValue(es, "A"))) ELSE n1
           n3 == IF csIsStatic(es.reg_state["D"]) THEN Exec(n2, LoadImm(RegOp("D"), RegValue(es, "D"))) ELSE n2
<1>1. "A" \in Regs /\ "D" \in Regs /\ "SP" \in Regs BY MachineAssumption
<1>2. /\ Captured /\ Executable(i) /\ Defined(i) /\ Proper(es) /\ es \in EmuState /\ orig \in Machine
      /\ new \in Machine /\ WellFormed(i)
  BY DEF Ready, Executable, Proper, Captured
<1>3. i.dst.kind \in {"Reg", "Ind"} /\ i.dst \in Operands(i)
  <2>1. i.dst.kind \in {"Reg", "Ind"} BY <1>2, CMovNames DEF WellFormed, BinaryOps, CMovTypes
  <2> QED BY <2>1 DEF Operands, NoOp
<1>4. b \in Word
  <2>1. Means(v, b) BY <1>2, <1>3, ExecutableFacts
  <2> QED BY <2>1 DEF Means
<1>5. /\ orig.reg["D"] = 0 /\ ~Negative(x) /\ ~Negative(b) /\ ~(IsStatic(v) /\ v.val = 1)
      /\ Divides(orig, i.dst)
  BY <1>2 DEF Executable, WithinLimits, DivisionLimit, Accesses
<1>6. b # 0
  <2>1. Signed(b) = b BY <1>4, <1>5, SignFacts
  <2> QED BY <1>5, <2>1 DEF Divides
<1>7. es.reg_state["A"] # "DEAD" /\ es.reg_state["D"] # "DEAD" /\ v.state # "DEAD"
  <2>1. i.dst \in Reads(i) BY <1>3 DEF Reads, WriteOnly, NoOp
  <2>2. ~Harmless(i) BY DEF Harmless
  <2> QED BY <1>2, <2>1, <2>2 DEF Defined
<1>8. emulateIDiv(es, i) = IF v.val = 0 THEN Abort(es) ELSE Done(e2, out)
  BY DEF emulateIDiv
<1>9. va.state = cs /\ vd.state = cs BY DEF EmuValue
<1>10. /\ e2.stackState = es.stackState
       /\ e2.reg_state["A"] = cs /\ e2.reg_state["D"] = cs
       /\ \A q \in Regs : q \notin {"A", "D"} => e2.reg_state[q] = es.reg_state[q]
  <2> HIDE DEF va, vd, cs
  <2>1. /\ e1.stackState = es.stackState /\ e1.reg_state = [es.reg_state EXCEPT !["A"] = cs]
        /\ e2.stackState = e1.stackState /\ e2.reg_state = [e1.reg_state EXCEPT !["D"] = cs]
    BY <1>2, <1>9 DEF setReg, EmuState
  <2> HIDE DEF e1, e2
  <2> QED BY <1>1, <1>2, <2>1 DEF EmuState
<1>11. Loaded(n1) /\ Value(n1, c) = b
  <2>1. n1 = IF IsStatic(getOpValue(es, i.dst)) THEN Exec(new, Applied(es, LoadImm(i.dst, getOpValue(es, i.dst)))) ELSE new
    OBVIOUS
  <2> HIDE DEF n1
  <2> QED BY <1>3, <1>7, <2>1, OperandLoadedIfKnown
<1> HIDE DEF n1, cs, v, e1, e2
<1>12. Loaded(n2) /\ Value(n2, c) = b /\ n2.reg["A"] = orig.reg["A"]
  <2>1. n2 = IF csIsStatic(es.reg_state["A"]) THEN Exec(n1, LoadImm(RegOp("A"), RegValue(es, "A"))) ELSE n1
    OBVIOUS
  <2>2. i.dst.kind # "None" BY <1>3
  <2> HIDE DEF n2
  <2> QED BY <1>1, <1>3, <1>7, <1>11, <2>1, <2>2, RegLoadedIfKnown
<1> HIDE DEF n2
<1>13. Loaded(n3) /\ Value(n3, c) = b /\ n3.reg["A"] = orig.reg["A"] /\ n3.reg["D"] = orig.reg["D"]
  <2>1. n3 = IF csIsStatic(es.reg_state["D"]) THEN Exec(n2, LoadImm(RegOp("D"), RegValue(es, "D"))) ELSE n2
    OBVIOUS
  <2>2. i.dst.kind # "None" BY <1>3
  <2> HIDE DEF n3
  <2>3. /\ Loaded(n3) /\ Value(n3, c) = b /\ n3.reg["D"] = orig.reg["D"]
        /\ \A q \in Regs : q # "D" => n3.reg[q] = n2.reg[q]
    BY <1>1, <1>3, <1>7, <1>12, <2>1, <2>2, RegLoadedIfKnown
  <2> QED BY <1>1, <1>12, <2>3
<1>14. ~csIsStatic(cs) => k = Exec(n3, j)
  <2>1. /\ v = getOpValue(es, i.dst)
        /\ n1 = (IF IsStatic(v) THEN Exec(new, Applied(es, LoadImm(i.dst, v))) ELSE new)
        /\ n2 = (IF csIsStatic(es.reg_state["A"]) THEN Exec(n1, LoadImm(RegOp("A"), RegValue(es, "A"))) ELSE n1)
        /\ n3 = (IF csIsStatic(es.reg_state["D"]) THEN Exec(n2, LoadImm(RegOp("D"), RegValue(es, "D"))) ELSE n2)
    BY DEF v, n1, n2, n3
  <2> HIDE DEF n3
  <2> QED BY <1>5, <2>1, DivideCapture
<1> HIDE DEF n3
<1>15. j.type = "IDIV" /\ j.dst = c BY <1>2, VectorApplied
<1>16. csIsStatic(cs) => k = new
  <2>1. csIsStatic(cs) => out = <<>> BY DEF captureIDiv
  <2> QED BY <2>1, ExecAllOf
<1>17. /\ m2 \in Machine /\ m2.mem = orig.mem /\ m2.flag = orig.flag /\ m2.vec = orig.vec
       /\ m2.reg["A"] = x \div b /\ m2.reg["D"] = x % b
       /\ \A r \in Regs : r \notin {"A", "D"} => m2.reg[r] = orig.reg[r]
  <2>1. b = Value(orig, i.dst) /\ x = orig.reg["A"] /\ m2 = Exec(orig, i) OBVIOUS
  <2> HIDE DEF b, x, m2
  <2> QED BY <1>2, <1>4, <1>5, <1>6, <2>1, DivideExec
<1>18. ~csIsStatic(cs) =>
         /\ k \in Machine /\ k.mem = n3.mem /\ k.flag = n3.flag /\ k.vec = n3.vec
         /\ k.reg["A"] = x \div b /\ k.reg["D"] = x % b
         /\ \A r \in Regs : r \notin {"A", "D"} => k.reg[r] = n3.reg[r]
  <2>1. n3 \in Machine BY <1>13 DEF Loaded
  <2>2. n3.reg["D"] = 0 /\ x = n3.reg["A"] /\ b = Value(n3, j.dst) BY <1>5, <1>13, <1>15
  <2> HIDE DEF b, x, j, k
  <2> DEFINE p == Exec(n3, j)
  <2>3. /\ p \in Machine /\ p.mem = n3.mem /\ p.flag = n3.flag /\ p.vec = n3.vec
        /\ p.reg["A"] = x \div b /\ p.reg["D"] = x % b
        /\ \A r \in Regs : r \notin {"A", "D"} => p.reg[r] = n3.reg[r]
    BY <1>4, <1>5, <1>6, <1>15, <2>1, <2>2, DivideExec
  <2> HIDE DEF p
  <2>4. ~csIsStatic(cs) => k = p BY <1>14 DEF p
  <2> QED BY <2>3, <2>4
<1> HIDE DEF m2, x, b, c, j, k
<1>19. Loaded(new) BY <1>2, NothingLoaded
<1> DEFINE n == IF csIsStatic(cs) THEN new ELSE n3
<1>20. /\ Loaded(n) /\ k \in Machine /\ k.mem = n.mem /\ k.vec = n.vec
       /\ \A r \in Regs : r \notin {"A", "D"} => k.reg[r] = n.reg[r]
       /\ ~csIsStatic(cs) => k.reg["A"] = m2.reg["A"] /\ k.reg["D"] = m2.reg["D"]
  <2>1. CASE csIsStatic(cs) BY <1>2, <1>16, <1>19, <2>1
  <2>2. CASE ~csIsStatic(cs)
    <3>1. n = n3 BY <2>2
    <3> HIDE DEF n
    <3> QED BY <1>13, <1>17, <1>18, <2>2, <3>1
  <2> QED BY <2>1, <2>2
<1> HIDE DEF n
<1>21. RegsComputed(e2, m2, k, skew)
  <2>1. RegsComputed(es, orig, new, skew) BY <1>2 DEF Captured, Computed
  <2>2. ASSUME NEW q \in Regs \ {"SP"}, Unknown(e2.reg_state[q]) PROVE k.reg[q] = m2.reg[q]
    <3>1. CASE q \in {"A", "D"}
      <4>1. ~csIsStatic(cs) BY <1>10, <2>2, <3>1 DEF Unknown, csIsStatic
      <4> QED BY <1>20, <3>1, <4>1
    <3>2. CASE q \notin {"A", "D"}
      <4>1. Unknown(es.reg_state[q]) BY <1>10, <2>2, <3>2
      <4>2. new.reg[q] = orig.reg[q] BY <2>1, <2>2, <4>1 DEF RegsComputed
      <4>3. n.reg[q] = new.reg[q] BY <1>20, <2>2, <4>1 DEF Loaded
      <4> QED BY <1>17, <1>20, <2>2, <3>2, <4>2, <4>3
    <3> QED BY <3>1, <3>2
  <2>3. ASSUME Unknown(e2.reg_state["SP"]) PROVE k.reg["SP"] = Mask(m2.reg["SP"] + skew)
    <3>1. Unknown(es.reg_state["SP"]) BY <1>1, <1>10, <2>3
    <3>2. n.reg["SP"] = new.reg["SP"] BY <1>1, <1>20, <3>1 DEF Loaded
    <3> QED BY <1>1, <1>17, <1>20, <2>1, <3>1, <3>2 DEF RegsComputed
  <2> QED BY <2>2, <2>3 DEF RegsComputed
<1>22. FlagsCaptured(e2, m2, k, LostBy(i, e2, out)) BY FlagsGone
<1>23. k.vec = m2.vec
  <2>1. new.vec = orig.vec BY <1>2 DEF Captured, Computed, OthersComputed
  <2>2. n.vec = new.vec BY <1>20 DEF Loaded
  <2> QED BY <1>17, <1>20, <2>1, <2>2
<1>24. k = ExecAll(new, out) /\ m2 = Exec(orig, i) /\ m2.reg["SP"] = orig.reg["SP"] BY <1>1, <1>17 DEF k, m2
<1> HIDE DEF out
<1>25. /\ Ready(i) /\ i.type \in {"CQTO", "IDIV", "VLOAD", "VADD"}
       /\ e2.stackState = es.stackState
       /\ m2 = Exec(orig, i) /\ m2 \in Machine /\ m2.mem = orig.mem /\ m2.reg["SP"] = orig.reg["SP"]
       /\ Loaded(n) /\ k = ExecAll(new, out) /\ k \in Machine
       /\ k.mem = n.mem /\ k.vec = m2.vec /\ RegsComputed(e2, m2, k, skew)
       /\ FlagsCaptured(e2, m2, k, LostBy(i, e2, out))
  BY <1>10, <1>17, <1>20, <1>21, <1>22, <1>23, <1>24
<1>26. Computes(i, Done(e2, out)) BY ONLY <1>25, PlainDone
<1>27. Computes(i, Abort(es)) BY DEF Abort, Computes
<1> QED BY <1>8, <1>26, <1>27

----------------------------------------------------------------------------
(***************************************************************************)
(* Pushing and popping.                                                    *)
(***************************************************************************)
\* A value is known or it is not.
LEMMA KnownInRange == ASSUME NEW e, NEW o PROVE KnownIn(e, o) \in {0, 1}
  BY DEF KnownIn

\* The next place for a value that is not known is on the stack, and not in use.
LEMMA FrameRoom ==
  ASSUME NEW e, NEW p \in Slots, NEW q \in Slots, NEW sk, NEW a, Frame(e, p, q, sk, a),
         NEW o0 \in Slots, p = o0 + 1
  PROVE  /\ sk \in Nat /\ o0 + sk \in Slots
         /\ \A o \in Slots : p <= o /\ Unknown(e.stackState[o]) => o + a[o] # o0 + sk
<1>1. StackSize \in Nat /\ p \in Nat /\ q \in Nat /\ o0 \in Nat /\ q < StackSize BY StackFacts DEF Slots
<1>2. KnownIn(e, p) \in {0, 1} /\ KnownIn(e, q) = 1 BY KnownInRange DEF Frame
<1>3. p <= q /\ a[q] = 0 /\ sk = a[p] + KnownIn(e, p) BY DEF Frame
<1>4. \A o \in p .. q : a[o] \in Nat BY DEF Frame
<1>5. \A o1, o2 \in p .. q : o1 < o2 => a[o1] - a[o2] <= (o2 - o1) - 1 + KnownIn(e, o2) BY DEF Frame
<1>6. p \in p .. q /\ q \in p .. q BY <1>1, <1>3
<1>7. a[p] \in Nat /\ a[p] <= q - p
  <2>1. CASE p = q BY <1>1, <1>3, <1>4, <1>6, <2>1
  <2>2. CASE p < q
    <3>1. a[p] - a[q] <= (q - p) - 1 + KnownIn(e, q) BY <1>5, <1>6, <2>2
    <3> QED BY <1>1, <1>2, <1>3, <1>4, <1>6, <3>1
  <2> QED BY <1>1, <1>3, <2>1, <2>2
<1>8. sk \in Nat /\ o0 + sk <= q BY <1>1, <1>2, <1>3, <1>7
<1>9. o0 + sk \in Slots BY <1>1, <1>8 DEF Slots
<1>10. ASSUME NEW o \in Slots, p <= o, Unknown(e.stackState[o]) PROVE o + a[o] # o0 + sk
  <2>1. KnownIn(e, o) = 0 BY <1>10 DEF KnownIn, Unknown, csIsStatic
  <2>2. o \in Nat BY <1>10, StackFacts DEF Slots
  <2>3. CASE q < o
    <3>1. a[o] = 0 BY <1>10, <2>3 DEF Frame
    <3> QED BY <1>1, <1>8, <2>2, <2>3, <3>1
  <2>4. CASE o = p BY <1>1, <1>3, <1>7, <2>1, <2>4
  <2>5. CASE p < o /\ o <= q
    <3>1. o \in p .. q BY <1>1, <2>2, <2>5
    <3>2. a[p] - a[o] <= (o - p) - 1 + KnownIn(e, o) BY <1>5, <1>6, <2>5, <3>1
    <3>3. a[o] \in Nat BY <1>4, <3>1
    <3> QED BY <1>1, <1>2, <1>3, <1>7, <2>1, <2>2, <3>2, <3>3
  <2> QED BY <1>1, <1>10, <2>2, <2>3, <2>4, <2>5
<1> QED BY <1>8, <1>9, <1>10

\* Places that are not changed by pushing into slot o0.
SameAbove(e, e2, o0, q, a, a2) ==
  \A o \in Slots : o0 < o => /\ KnownIn(e2, o) = KnownIn(e, o)
                             /\ Unknown(e2.stackState[o]) => Unknown(e.stackState[o])
                             /\ o <= q \/ Unknown(e2.stackState[o]) => a2[o] = a[o]

\* Pushing one more value.
LEMMA FramePushed ==
  ASSUME NEW e, NEW e2, NEW p \in Slots, NEW q \in Slots, NEW sk \in Nat \ {0}, NEW a, NEW a2, Frame(e, p, q, sk, a),
         NEW o0 \in Slots, p = o0 + 1, a2[o0] = sk, NEW sk2, sk2 = sk + KnownIn(e2, o0),
         SameAbove(e, e2, o0, q, a, a2)
  PROVE  Frame(e2, o0, q, sk2, a2)
<1>0. \A o \in Slots : o0 < o => /\ KnownIn(e2, o) = KnownIn(e, o)
                                 /\ Unknown(e2.stackState[o]) => Unknown(e.stackState[o])
                                 /\ o <= q \/ Unknown(e2.stackState[o]) => a2[o] = a[o]
  BY DEF SameAbove
<1>1. StackSize \in Nat /\ p \in Nat /\ q \in Nat /\ o0 \in Nat /\ q < StackSize BY StackFacts DEF Slots
<1>2. p <= q /\ a[q] = 0 /\ KnownIn(e, q) = 1 /\ sk = a[p] + KnownIn(e, p) BY DEF Frame
<1>3. \A o \in p .. q : a[o] \in Nat /\ (o < q => a[o] >= 1 /\ a[o] = a[o + 1] + KnownIn(e, o + 1)) BY DEF Frame
<1>4. \A o1, o2 \in p .. q : o1 < o2 =>
        a[o2] <= a[o1] /\ a[o1] - a[o2] <= (o2 - o1) - 1 + KnownIn(e, o2) BY DEF Frame
<1>5. \A o \in Slots : q < o /\ Unknown(e.stackState[o]) => a[o] = 0 BY DEF Frame
<1>6. \A o \in o0 .. q : o = o0 \/ (o \in p .. q /\ o \in Slots /\ o0 < o) BY <1>1 DEF Slots
<1>7. \A o \in p .. q : o \in Slots /\ o0 < o /\ a2[o] = a[o] /\ KnownIn(e2, o) = KnownIn(e, o)
  BY <1>0, <1>1 DEF Slots
<1>8. p \in p .. q /\ q \in p .. q BY <1>1, <1>2
<1>9. o0 <= q /\ a2[q] = 0 /\ KnownIn(e2, q) = 1 BY <1>1, <1>2, <1>7, <1>8
<1>10. KnownIn(e, p) \in {0, 1} /\ a[p] \in Nat BY <1>3, <1>8, KnownInRange
<1>11. ASSUME NEW o \in o0 .. q
       PROVE  a2[o] \in Nat /\ (o < q => a2[o] >= 1 /\ a2[o] = a2[o + 1] + KnownIn(e2, o + 1))
  <2>1. CASE o = o0
    <3>1. a2[o0 + 1] = a[p] /\ KnownIn(e2, o0 + 1) = KnownIn(e, p) BY <1>7, <1>8
    <3> QED BY <1>2, <2>1, <3>1
  <2>2. CASE o # o0
    <3>1. o \in p .. q BY <1>6, <2>2
    <3>2. a2[o] = a[o] BY <1>7, <3>1
    <3>3. o < q => o + 1 \in p .. q BY <1>1, <3>1
    <3>4. o < q => a2[o + 1] = a[o + 1] /\ KnownIn(e2, o + 1) = KnownIn(e, o + 1) BY <1>7, <3>3
    <3> QED BY <1>3, <3>1, <3>2, <3>4
  <2> QED BY <2>1, <2>2
<1>12. ASSUME NEW o1 \in o0 .. q, NEW o2 \in o0 .. q, o1 < o2
       PROVE  a2[o2] <= a2[o1] /\ a2[o1] - a2[o2] <= (o2 - o1) - 1 + KnownIn(e2, o2)
  <2>1. o2 \in p .. q BY <1>1, <1>6, <1>12
  <2>2. a2[o2] = a[o2] /\ KnownIn(e2, o2) = KnownIn(e, o2) /\ a[o2] \in Nat BY <1>3, <1>7, <2>1
  <2>3. CASE o1 = o0
    <3>1. CASE o2 = p BY <1>1, <1>2, <1>10, <2>2, <2>3, <3>1
    <3>2. CASE o2 # p
      <4>1. p < o2 BY <1>1, <2>1, <3>2
      <4>2. a[o2] <= a[p] /\ a[p] - a[o2] <= (o2 - p) - 1 + KnownIn(e, o2) BY <1>4, <1>8, <2>1, <4>1
      <4>3. KnownIn(e, o2) \in {0, 1} /\ o2 \in Nat BY <1>1, <2>1, KnownInRange
      <4> QED BY <1>1, <1>2, <1>10, <2>2, <2>3, <4>2, <4>3
    <3> QED BY <3>1, <3>2
  <2>4. CASE o1 # o0
    <3>1. o1 \in p .. q BY <1>6, <2>4
    <3>2. a2[o1] = a[o1] BY <1>7, <3>1
    <3> QED BY <1>4, <1>12, <2>1, <2>2, <3>1, <3>2
  <2> QED BY <2>3, <2>4
<1>13. ASSUME NEW o \in Slots, q < o, Unknown(e2.stackState[o]) PROVE a2[o] = 0
  <2>1. o0 < o BY <1>1, <1>2, <1>13 DEF Slots
  <2> QED BY <1>0, <1>5, <1>13, <2>1
<1> QED BY <1>9, <1>11, <1>12, <1>13 DEF Frame

\* Popping the last value pushed, if others are below it.
LEMMA FramePopped ==
  ASSUME NEW e, NEW e2, NEW p \in Slots, NEW q \in Slots, NEW sk, NEW a, Frame(e, p, q, sk, a), p < q,
         e2.stackState = e.stackState
  PROVE  p + 1 \in Slots /\ a[p] \in Nat \ {0} /\ Frame(e2, p + 1, q, a[p], a)
<1>1. StackSize \in Nat /\ p \in Nat /\ q \in Nat /\ q < StackSize BY StackFacts DEF Slots
<1>2. p + 1 \in Slots BY <1>1 DEF Slots
<1>3. \A o : KnownIn(e2, o) = KnownIn(e, o) BY DEF KnownIn
<1>4. a[q] = 0 /\ KnownIn(e, q) = 1 BY DEF Frame
<1>5. \A o \in p .. q : a[o] \in Nat /\ (o < q => a[o] >= 1 /\ a[o] = a[o + 1] + KnownIn(e, o + 1)) BY DEF Frame
<1>6. \A o1, o2 \in p .. q : o1 < o2 =>
        a[o2] <= a[o1] /\ a[o1] - a[o2] <= (o2 - o1) - 1 + KnownIn(e, o2) BY DEF Frame
<1>7. \A o \in Slots : q < o /\ Unknown(e.stackState[o]) => a[o] = 0 BY DEF Frame
<1>8. p \in p .. q /\ \A o \in (p + 1) .. q : o \in p .. q BY <1>1
<1>9. a[p] \in Nat \ {0} /\ a[p] = a[p + 1] + KnownIn(e, p + 1) BY <1>5, <1>8
<1> QED BY <1>1, <1>2, <1>3, <1>4, <1>5, <1>6, <1>7, <1>8, <1>9 DEF Frame

\* A place for what is pushed, where captured code pushes it.
LEMMA PushRoom ==
  ASSUME Captured, NEW o0 \in Slots, orig.reg["SP"] = SlotAddr(o0) + 1
  PROVE  /\ skew \in Nat /\ o0 + skew \in Slots /\ Mask(SlotAddr(o0) + skew) = SlotAddr(o0 + skew)
         /\ \A o \in Slots : o0 < o /\ Unknown(es.stackState[o]) => PlaceOf(at, o) # SlotAddr(o0 + skew)
         /\ skew = 0 => \A o \in Slots : o0 < o /\ Unknown(es.stackState[o]) => at[o] = 0
         /\ skew # 0 => o0 + 1 \in Slots /\ \E q \in Slots : Frame(es, o0 + 1, q, skew, at)
<1>1. StackSize \in Nat /\ o0 \in Nat /\ Base \in Int BY StackFacts, WordFacts DEF Slots
<1>2. \A o \in Slots : SlotAddr(o) = Base - StackSize + o /\ o \in Nat BY SlotPlaces
<1>3. InOrder(es, orig, skew, at) BY DEF Captured
<1>4. ASSUME skew # 0
      PROVE  /\ skew \in Nat /\ o0 + skew \in Slots /\ o0 + 1 \in Slots
             /\ \E q \in Slots : Frame(es, o0 + 1, q, skew, at)
             /\ \A o \in Slots : o0 < o /\ Unknown(es.stackState[o]) => o + at[o] # o0 + skew
  <2>1. PICK p \in Slots, q \in Slots : orig.reg["SP"] = SlotAddr(p) /\ Frame(es, p, q, skew, at)
    BY <1>3, <1>4 DEF InOrder
  <2>2. p = o0 + 1
    <3>1. SlotAddr(p) = Base - StackSize + p /\ p \in Nat /\ SlotAddr(o0) = Base - StackSize + o0 BY <1>2
    <3> QED BY <1>1, <2>1, <3>1
  <2>3. /\ skew \in Nat /\ o0 + skew \in Slots
        /\ \A o \in Slots : p <= o /\ Unknown(es.stackState[o]) => o + at[o] # o0 + skew
    <3>1. p \in Slots /\ q \in Slots /\ Frame(es, p, q, skew, at) /\ o0 \in Slots /\ p = o0 + 1 BY <2>1, <2>2
    <3> QED BY ONLY <3>1, FrameRoom
  <2>4. \A o \in Slots : o0 < o => p <= o BY <1>1, <1>2, <2>2
  <2> QED BY <2>1, <2>2, <2>3, <2>4
<1>5. skew = 0 => \A o \in Slots : o0 < o /\ Unknown(es.stackState[o]) => at[o] = 0
  <2>1. \A o \in Slots : o0 < o => SlotAddr(o) >= orig.reg["SP"] BY <1>1, <1>2
  <2> QED BY <1>3, <2>1 DEF InOrder, InPlace
<1>6. skew \in Nat /\ o0 + skew \in Slots BY <1>1, <1>4
<1>7. Mask(SlotAddr(o0) + skew) = SlotAddr(o0 + skew)
  <2>1. SlotAddr(o0) + skew = SlotAddr(o0 + skew) BY <1>1, <1>2, <1>6
  <2> QED BY <1>6, <2>1, StackFacts, MaskFacts
<1>8. ASSUME NEW o \in Slots, o0 < o, Unknown(es.stackState[o]) PROVE PlaceOf(at, o) # SlotAddr(o0 + skew)
  <2>1. SlotAddr(o) >= orig.reg["SP"] BY <1>1, <1>2, <1>8
  <2>2. o + at[o] \in Slots /\ PlaceOf(at, o) = SlotAddr(o + at[o]) BY <1>3, <1>8, <2>1, InOrderPlaces
  <2>3. o + at[o] # o0 + skew
    <3>1. CASE skew = 0 BY <1>1, <1>2, <1>5, <1>8, <3>1
    <3>2. CASE skew # 0 BY <1>4, <1>8, <3>2
    <3> QED BY <3>1, <3>2
  <2> QED BY <1>6, <2>2, <2>3, StackFacts
<1> QED BY <1>4, <1>5, <1>6, <1>7, <1>8

\* After pushing x, known or not, into slot o0: what is known is not pushed by captured code.
Pushes(s, x, o0, sk2, k2) ==
  \/ csIsStatic(s) /\ k2.mem = new.mem /\ sk2 = skew + 1
  \/ /\ ~csIsStatic(s) /\ sk2 = skew
     /\ \E z : MemDiffers(k2, new, SlotAddr(o0 + skew), z) /\ (Unknown(s) => z = x)

\* A push: a known value is not captured, another one goes to the next place in use.
LEMMA PushComputed ==
  ASSUME NEW i, Captured, i.type \in {"PUSH", "CALL"}, StoresTo(i) = {},
         NEW o0 \in Slots, orig.reg["SP"] = SlotAddr(o0) + 1,
         NEW e2, NEW s, StateStored(e2, es, o0, s),
         NEW x, NEW m2, m2.reg["SP"] = SlotAddr(o0), MemDiffers(m2, orig, SlotAddr(o0), x), m2.vec = orig.vec,
         NEW sk2, NEW k2, k2.vec = new.vec, Pushes(s, x, o0, sk2, k2), RegsComputed(e2, m2, k2, sk2)
  PROVE  /\ Computed(e2, m2, k2, sk2, NextAt(i, e2, m2, k2))
         /\ InOrder(e2, m2, sk2, NextAt(i, e2, m2, k2))
<1> DEFINE a2 == NextAt(i, e2, m2, k2)
<1>1. StackSize \in Nat /\ o0 \in Nat /\ Base \in Int BY StackFacts, WordFacts DEF Slots
<1>2. \A o \in Slots : SlotAddr(o) = Base - StackSize + o /\ o \in Nat BY SlotPlaces
<1>3. /\ skew \in Nat /\ o0 + skew \in Slots /\ Mask(SlotAddr(o0) + skew) = SlotAddr(o0 + skew)
      /\ \A o \in Slots : o0 < o /\ Unknown(es.stackState[o]) => PlaceOf(at, o) # SlotAddr(o0 + skew)
      /\ skew = 0 => \A o \in Slots : o0 < o /\ Unknown(es.stackState[o]) => at[o] = 0
      /\ skew # 0 => o0 + 1 \in Slots /\ \E q \in Slots : Frame(es, o0 + 1, q, skew, at)
  BY PushRoom
<1>4. Stored(i) = {} BY DEF Stored
<1>5. /\ a2[o0] = skew
      /\ \A o \in Slots : o # o0 =>
           a2[o] = IF Unknown(e2.stackState[o]) /\ k2.mem[PlaceOf(at, o)] # new.mem[PlaceOf(at, o)]
                   THEN Gone ELSE at[o]
  <2>1. \A o \in Slots : Place(o) = PlaceOf(at, o) BY DEF Place, PlaceOf
  <2>2. \A o \in Slots : SlotAddr(o) = m2.reg["SP"] <=> o = o0 BY StackFacts
  <2> QED BY <1>4, <2>1, <2>2 DEF NextAt
<1> HIDE DEF a2
<1>6. e2.stackState[o0] = s /\ \A o \in Slots : o # o0 => e2.stackState[o] = es.stackState[o]
  BY DEF StateStored
<1>7. \A v \in Word : v # SlotAddr(o0) => m2.mem[v] = orig.mem[v] BY DEF MemDiffers
<1>8. \A v \in Word : v # SlotAddr(o0 + skew) => k2.mem[v] = new.mem[v] BY DEF Pushes, MemDiffers
<1>9. \A o \in Slots : PlaceOf(at, o) \in Word
  <2>1. \A o \in Slots : at[o] \in Int BY DEF Captured
  <2>2. ASSUME NEW o \in Slots PROVE PlaceOf(at, o) \in Word
    <3>1. SlotAddr(o) + at[o] \in Int BY <1>1, <1>2, <2>1
    <3> QED BY <3>1, MaskFacts DEF PlaceOf
  <2> QED BY <2>2
<1>10. \A o \in Slots : o0 < o => a2[o] = at[o]
  <2> SUFFICES ASSUME NEW o \in Slots, o0 < o PROVE a2[o] = at[o] OBVIOUS
  <2>1. o # o0 BY <1>1
  <2>2. ASSUME Unknown(e2.stackState[o]) PROVE k2.mem[PlaceOf(at, o)] = new.mem[PlaceOf(at, o)]
    <3>1. Unknown(es.stackState[o]) BY <1>6, <2>1, <2>2
    <3>2. PlaceOf(at, o) # SlotAddr(o0 + skew) /\ PlaceOf(at, o) \in Word BY <1>3, <1>9, <3>1
    <3> QED BY <1>8, <3>2
  <2> QED BY <1>5, <2>1, <2>2
<1>11. StackComputed(e2, m2, k2, a2)
  <2> SUFFICES ASSUME NEW o \in Slots, Unknown(e2.stackState[o]), a2[o] # Gone
               PROVE  k2.mem[PlaceOf(a2, o)] = m2.mem[SlotAddr(o)]
    BY DEF StackComputed
  <2>1. CASE o = o0
    <3>1. PlaceOf(a2, o0) = SlotAddr(o0 + skew) BY <1>3, <1>5 DEF PlaceOf
    <3>2. Unknown(s) /\ ~csIsStatic(s) BY <1>6, <2>1 DEF Unknown, csIsStatic
    <3>3. k2.mem[SlotAddr(o0 + skew)] = x BY <3>2 DEF Pushes, MemDiffers
    <3>4. m2.mem[SlotAddr(o0)] = x BY DEF MemDiffers
    <3> QED BY <2>1, <3>1, <3>3, <3>4
  <2>2. CASE o # o0
    <3>1. a2[o] = at[o] /\ k2.mem[PlaceOf(at, o)] = new.mem[PlaceOf(at, o)] BY <1>5, <2>2
    <3>2. PlaceOf(a2, o) = PlaceOf(at, o) BY <3>1 DEF PlaceOf
    <3>3. Unknown(es.stackState[o]) BY <1>6, <2>2
    <3>4. m2.mem[SlotAddr(o)] = orig.mem[SlotAddr(o)] BY <1>7, <2>2, StackFacts
    <3>5. new.mem[PlaceOf(at, o)] = orig.mem[SlotAddr(o)]
      BY <3>1, <3>3 DEF Captured, Computed, StackComputed
    <3> QED BY <3>1, <3>2, <3>4, <3>5
  <2> QED BY <2>1, <2>2
<1>12. OthersComputed(m2, k2)
  <2>1. k2.vec = m2.vec BY DEF Captured, Computed, OthersComputed
  <2>2. ASSUME NEW v \in Heap \cup Data PROVE k2.mem[v] = m2.mem[v]
    <3>1. v \in Word /\ v # SlotAddr(o0) /\ v # SlotAddr(o0 + skew)
      BY <1>3, SpecialiseAssumption, StackFacts
    <3>2. new.mem[v] = orig.mem[v] BY DEF Captured, Computed, OthersComputed
    <3> QED BY <1>7, <1>8, <3>1, <3>2
  <2> QED BY <2>1, <2>2 DEF OthersComputed
<1>13. InOrder(e2, m2, sk2, a2)
  <2>1. \A o \in Slots : o0 < o => e2.stackState[o] = es.stackState[o] /\ KnownIn(e2, o) = KnownIn(es, o)
    <3>1. \A o \in Slots : o0 < o => e2.stackState[o] = es.stackState[o] BY <1>1, <1>2, <1>6
    <3> QED BY <3>1 DEF KnownIn
  <2>2. sk2 = skew + KnownIn(e2, o0)
    BY <1>3, <1>6 DEF Pushes, KnownIn
  <2>3. CASE skew = 0
    <3>1. \A o \in Slots : o0 < o /\ Unknown(e2.stackState[o]) => a2[o] = 0 BY <1>3, <1>10, <2>1, <2>3
    <3>2. a2[o0] = 0 BY <1>5, <2>3
    <3>3. CASE csIsStatic(s)
      <4>1. KnownIn(e2, o0) = 1 BY <1>6, <3>3 DEF KnownIn
      <4>2. sk2 = 1 BY <2>2, <2>3, <4>1
      <4>3. \A o \in o0 .. o0 : o = o0 BY <1>1
      <4>4. Frame(e2, o0, o0, sk2, a2) BY <1>1, <3>1, <3>2, <4>1, <4>2, <4>3 DEF Frame
      <4> QED BY <4>2, <4>4 DEF InOrder
    <3>4. CASE ~csIsStatic(s)
      <4>1. KnownIn(e2, o0) = 0 BY <1>6, <3>4 DEF KnownIn
      <4>2. sk2 = 0 BY <2>2, <2>3, <4>1
      <4>3. \A o \in Slots : SlotAddr(o) >= m2.reg["SP"] => o = o0 \/ o0 < o BY <1>1, <1>2
      <4>4. InPlace(e2, m2, a2) BY <3>1, <3>2, <4>3 DEF InPlace
      <4> QED BY <4>2, <4>4 DEF InOrder
    <3> QED BY <3>3, <3>4
  <2>4. CASE skew # 0
    <3>1. PICK q \in Slots : Frame(es, o0 + 1, q, skew, at) BY <1>3, <2>4
    <3>2. o0 + 1 \in Slots /\ skew \in Nat \ {0} /\ a2[o0] = skew BY <1>3, <1>5, <2>4
    <3>3. \A o \in Slots : o0 < o => /\ KnownIn(e2, o) = KnownIn(es, o)
                                     /\ Unknown(e2.stackState[o]) => Unknown(es.stackState[o])
                                     /\ o <= q \/ Unknown(e2.stackState[o]) => a2[o] = at[o]
      BY <1>10, <2>1
    <3>4. Frame(e2, o0, q, sk2, a2)
      <4> DEFINE p == o0 + 1
      <4>1. p = o0 + 1 OBVIOUS
      <4> HIDE DEF p
      <4>2. /\ p \in Slots /\ q \in Slots /\ skew \in Nat \ {0} /\ Frame(es, p, q, skew, at)
            /\ o0 \in Slots /\ p = o0 + 1 /\ a2[o0] = skew /\ sk2 = skew + KnownIn(e2, o0)
            /\ SameAbove(es, e2, o0, q, at, a2)
        BY <2>2, <3>1, <3>2, <3>3, <4>1 DEF SameAbove
      <4> QED BY ONLY <4>2, FramePushed
    <3>5. sk2 \in Nat \ {0} BY <2>2, <3>2, KnownInRange
    <3> QED BY <3>4, <3>5 DEF InOrder
  <2> QED BY <2>3, <2>4
<1>14. Computed(e2, m2, k2, sk2, a2) BY <1>11, <1>12 DEF Computed
<1> QED BY <1>13, <1>14 DEF a2

\* Pushing, on the processor.
LEMMA PushWordFields ==
  ASSUME NEW m, m \in Machine, NEW x \in Word, NEW sp, sp = Mask(m.reg["SP"] - 1), NEW k, k = PushWord(m, x)
  PROVE  /\ k \in Machine /\ k.reg["SP"] = sp /\ \A q \in Regs : q # "SP" => k.reg[q] = m.reg[q]
         /\ MemDiffers(k, m, sp, x) /\ k.vec = m.vec /\ k.flag = m.flag
<1>1. "SP" \in Regs BY MachineAssumption
<1>2. sp \in Word
  <2>1. m.reg["SP"] \in Int BY <1>1, MachineFields, WordFacts
  <2>2. m.reg["SP"] - 1 \in Int BY <2>1
  <2> QED BY <2>2, MaskFacts
<1>3. k = [m EXCEPT !.reg["SP"] = sp, !.mem[sp] = x] BY DEF PushWord
<1>4. k \in Machine
  <2> DEFINE m1 == [m EXCEPT !.reg["SP"] = sp]
  <2>1. m1 \in Machine BY <1>1, <1>2 DEF Machine
  <2>2. k = [m1 EXCEPT !.mem[sp] = x] BY <1>3 DEF Machine
  <2> HIDE DEF m1
  <2> QED BY <1>2, <2>1, <2>2 DEF Machine
<1>5. k.reg["SP"] = sp /\ \A q \in Regs : q # "SP" => k.reg[q] = m.reg[q] BY <1>1, <1>3 DEF Machine
<1>6. k.mem[sp] = x /\ \A a \in Word : a # sp => k.mem[a] = m.mem[a] BY <1>2, <1>3 DEF Machine
<1>7. k.vec = m.vec /\ k.flag = m.flag BY <1>3 DEF Machine
<1> QED BY <1>4, <1>5, <1>6, <1>7 DEF MemDiffers

\* What pushing v, which stands for x, into slot o0 does.
PushEffect(e2, m2, o0, v, x) ==
  /\ orig.reg["SP"] = SlotAddr(o0) + 1 /\ es.reg_state["SP"] = "STACKRELATIVE"
  /\ e2.reg_state = es.reg_state /\ e2.flag_state = es.flag_state
  /\ StateStored(e2, es, o0, v.state)
  /\ m2 \in Machine /\ m2.reg["SP"] = SlotAddr(o0) /\ \A q \in Regs : q # "SP" => m2.reg[q] = orig.reg[q]
  /\ MemDiffers(m2, orig, SlotAddr(o0), x) /\ m2.vec = orig.vec /\ m2.flag = orig.flag

\* A push in the emulator (emulatePush), beside one of the function.
LEMMA PushStep ==
  ASSUME Proper(es), orig \in Machine, Agrees(es, orig),
         NEW j, j.dst.kind \in {"Imm", "Reg"}, j.dst.kind = "Reg" => j.dst.reg # "SP", j.dst \in Operand,
         NEW v, v = getOpValue(es, j.dst), NEW x, Means(v, x),
         NEW r, r = emulatePush(es, j), r.err = "none"
  PROVE  /\ \E o0 \in Slots : PushEffect(r.es, PushWord(orig, x), o0, v, x)
         /\ r.out = IF IsStatic(v) THEN <<>> ELSE << j >>
<1> DEFINE vs == Mask(es.reg["SP"] - 1)
           xs == Mask(orig.reg["SP"] - 1)
           e1 == [es EXCEPT !.reg["SP"] = vs]
           m1 == [orig EXCEPT !.reg["SP"] = xs]
           a  == RegValue(e1, "SP")
           m2 == PushWord(orig, x)
           w  == getOpValue(e1, j.dst)
<1>1. "SP" \in Regs /\ es \in EmuState BY MachineAssumption DEF Proper
<1>2. es.reg["SP"] \in Int /\ orig.reg["SP"] \in Word /\ orig.reg["SP"] \in Int
  BY <1>1, EmuFields, MachineFields, WordFacts
<1>3. DataStep(es, orig, e1, m1) /\ vs \in Word /\ xs \in Word
  <2>1. es.reg["SP"] - 1 = es.reg["SP"] + (-1) /\ orig.reg["SP"] - 1 = orig.reg["SP"] + (-1) BY <1>2
  <2>2. vs = Mask(es.reg["SP"] + (-1)) /\ xs = Mask(orig.reg["SP"] + (-1)) BY <2>1
  <2> HIDE DEF vs, xs
  <2> QED BY <2>2, PointerMoved
<1>4. w = v
  <2>1. CASE j.dst.kind = "Imm" BY <2>1 DEF getOpValue
  <2>2. CASE j.dst.kind = "Reg"
    <3>1. j.dst.reg \in Regs /\ j.dst.reg # "SP" BY <2>2, OperandFields
    <3>2. e1.reg[j.dst.reg] = es.reg[j.dst.reg] /\ e1.reg_state = es.reg_state
      BY <1>1, <3>1 DEF EmuState
    <3> QED BY <2>2, <3>2 DEF getOpValue, RegValue
  <2> QED BY <2>1, <2>2
<1>5. r = IF OnStack(a) /\ CanStore(a) THEN Done(Store(e1, a, w), IF IsStatic(w) THEN <<>> ELSE << j >>) ELSE Abort(es)
  BY DEF emulatePush
<1>6. OnStack(a) /\ CanStore(a) /\ r.es = Store(e1, a, v) /\ r.out = IF IsStatic(v) THEN <<>> ELSE << j >>
  BY <1>4, <1>5 DEF Done, Abort
<1>7. e1 \in EmuState /\ m1 \in Machine /\ RegsAgree(e1, m1) BY <1>3 DEF DataStep, Proper, Agrees
<1>8. m1.reg["SP"] = xs BY <1>1 DEF Machine
<1>9. Means(a, xs) BY <1>1, <1>7, <1>8, RegMeans
<1>10. e1.reg_state = es.reg_state /\ e1.stackState = es.stackState /\ e1.flag_state = es.flag_state
  BY <1>1 DEF EmuState
<1>11. a.state = es.reg_state["SP"] BY <1>10 DEF RegValue, EmuValue
<1>12. m2 = PushWord(orig, x) OBVIOUS
<1>13. xs = Mask(orig.reg["SP"] - 1) OBVIOUS
<1> HIDE DEF vs, xs, e1, m1, a, m2, w
<1>14. a.val \in Word /\ a.state = "STACKRELATIVE" /\ MeansValue(a.state, a.val, xs)
  BY <1>6, <1>9 DEF Means, CanStore, KnownOffset
<1> DEFINE o0 == Offset(a)
<1>15. o0 \in Slots /\ xs = SlotAddr(o0) BY <1>3, <1>6, <1>14, SlotOf
<1>16. v.val \in Word /\ v.state \in CaptureState /\ x \in Word BY DEF Means
<1>17. /\ r.es.reg_state = e1.reg_state /\ StateStored(r.es, e1, o0, v.state) BY <1>6, <1>7, <1>14, <1>16, StoreStates
<1>18. r.es.flag_state = e1.flag_state
  <2>1. e1 \in EmuState /\ a.val \in Word /\ v.val \in Word /\ v.state \in CaptureState BY <1>7, <1>14, <1>16
  <2>2. Store(e1, a, v).flag_state = e1.flag_state BY <2>1 DEF Store, EmuState
  <2> QED BY <1>6, <2>2
<1>19. StateStored(r.es, es, o0, v.state) BY <1>10, <1>17 DEF StateStored
<1>20. /\ m2 \in Machine /\ m2.reg["SP"] = xs /\ \A q \in Regs : q # "SP" => m2.reg[q] = orig.reg[q]
       /\ MemDiffers(m2, orig, xs, x) /\ m2.vec = orig.vec /\ m2.flag = orig.flag
  BY <1>12, <1>13, <1>16, PushWordFields
<1>21. orig.reg["SP"] = SlotAddr(o0) + 1
  <2>1. Base \in Int /\ StackSize \in Nat /\ Base < 2 ^ W /\ o0 \in Nat /\ o0 < StackSize
        /\ SlotAddr(o0) = Base - StackSize + o0 /\ Base >= StackSize
    BY <1>15, SlotPlaces, StackFacts, WordFacts
  <2> DEFINE M == 2 ^ W
             y == orig.reg["SP"]
  <2>2. M \in {4, 16, 256} /\ y \in 0 .. (M - 1) BY <1>2, WordFacts
  <2>3. xs = (y - 1) % M BY <1>13 DEF Mask
  <2>4. SlotAddr(o0) + 1 \in 1 .. (M - 1)
    <3> HIDE DEF M, y
    <3>1. Base < M BY <2>1 DEF M
    <3> QED BY <2>1, <2>2, <3>1
  <2> HIDE DEF M, y
  <2>5. (y - 1) % M = IF y = 0 THEN M - 1 ELSE y - 1
    <3>1. CASE y = 0 BY <2>2, <3>1
    <3>2. CASE y # 0 BY <2>2, <3>2
    <3> QED BY <3>1, <3>2
  <2>6. SlotAddr(o0) < M - 1 BY <2>1, <2>2, <2>4
  <2>7. y = SlotAddr(o0) + 1 BY <1>15, <2>1, <2>2, <2>3, <2>5, <2>6
  <2> QED BY <2>7 DEF y
<1>22. es.reg_state["SP"] = "STACKRELATIVE" BY <1>11, <1>14
<1>23. PushEffect(r.es, m2, o0, v, x)
  BY <1>10, <1>15, <1>17, <1>18, <1>19, <1>20, <1>21, <1>22 DEF PushEffect
<1> QED BY <1>6, <1>12, <1>15, <1>23

\* Instructions that push.
LEMMA PushDone ==
  ASSUME NEW i, Captured, i.type \in {"PUSH", "CALL"}, StoresTo(i) = {}, NEW o0 \in Slots,
         NEW e1, NEW v, NEW x, NEW m2, m2 = Exec(orig, i), PushEffect(e1, m2, o0, v, x),
         NEW e2, e2.stackState = e1.stackState, e2.flag_state = e1.flag_state,
         NEW out, NEW k, k = ExecAll(new, out), k \in Machine, k.vec = new.vec, k.flag = new.flag,
         NEW sk2, sk2 = skew + Missing(i, out), Pushes(v.state, x, o0, sk2, k), RegsComputed(e2, m2, k, sk2)
  PROVE  Computes(i, Done(e2, out))
<1> DEFINE r  == Done(e2, out)
           a2 == NextAt(i, e2, m2, k)
           s  == v.state
<1>1. r.es = e2 /\ r.out = out BY DEF Done
<1>2. /\ orig.reg["SP"] = SlotAddr(o0) + 1 /\ StateStored(e2, es, o0, s)
      /\ m2.reg["SP"] = SlotAddr(o0) /\ MemDiffers(m2, orig, SlotAddr(o0), x) /\ m2.vec = orig.vec
      /\ e2.flag_state = es.flag_state /\ m2.flag = orig.flag
  BY DEF PushEffect, StateStored
<1>3. Pushes(s, x, o0, sk2, k) OBVIOUS
<1> HIDE DEF s, a2
<1>4. /\ Captured /\ i.type \in {"PUSH", "CALL"} /\ StoresTo(i) = {}
      /\ o0 \in Slots /\ orig.reg["SP"] = SlotAddr(o0) + 1 /\ StateStored(e2, es, o0, s)
      /\ m2.reg["SP"] = SlotAddr(o0) /\ MemDiffers(m2, orig, SlotAddr(o0), x) /\ m2.vec = orig.vec
      /\ k.vec = new.vec /\ Pushes(s, x, o0, sk2, k) /\ RegsComputed(e2, m2, k, sk2)
  BY <1>2, <1>3
<1>5. Computed(e2, m2, k, sk2, NextAt(i, e2, m2, k)) /\ InOrder(e2, m2, sk2, NextAt(i, e2, m2, k))
  BY ONLY <1>4, PushComputed
<1>6. LostBy(i, e2, out) = lost BY LostOf
<1>7. FlagsCaptured(e2, m2, k, LostBy(i, e2, out)) BY <1>2, <1>6, FlagsLeft
<1> HIDE DEF r
<1>8. Computes(i, r) BY <1>1, <1>5, <1>7 DEF Computes
<1> QED BY <1>8 DEF r

\* The stack pointer of captured code, after pushing.
LEMMA PushPointer ==
  ASSUME Captured, NEW o0 \in Slots, orig.reg["SP"] = SlotAddr(o0) + 1, es.reg_state["SP"] = "STACKRELATIVE"
  PROVE  /\ new.reg["SP"] = Mask(SlotAddr(o0) + (skew + 1))
         /\ Mask(new.reg["SP"] - 1) = SlotAddr(o0 + skew)
         /\ Mask(SlotAddr(o0) + skew) = SlotAddr(o0 + skew)
<1>1. skew \in Nat /\ Mask(SlotAddr(o0) + skew) = SlotAddr(o0 + skew) BY PushRoom
<1>2. SlotAddr(o0) \in Int BY StackFacts, WordFacts
<1>3. new.reg["SP"] = Mask(orig.reg["SP"] + skew)
  BY DEF Captured, Computed, RegsComputed, Unknown
<1>4. orig.reg["SP"] + skew = SlotAddr(o0) + (skew + 1) BY <1>1, <1>2
<1>5. new.reg["SP"] = Mask(SlotAddr(o0) + (skew + 1)) BY <1>3, <1>4
<1>6. Mask(new.reg["SP"] - 1) = Mask((SlotAddr(o0) + (skew + 1)) - 1)
  <2>1. SlotAddr(o0) + (skew + 1) \in Int /\ 1 \in Int BY <1>1, <1>2
  <2> DEFINE y == SlotAddr(o0) + (skew + 1)
  <2> HIDE DEF y
  <2>2. Mask(Mask(y) - 1) = Mask(y - 1) BY <2>1, MaskFacts DEF y
  <2> QED BY <1>5, <2>2 DEF y
<1>7. (SlotAddr(o0) + (skew + 1)) - 1 = SlotAddr(o0) + skew BY <1>1, <1>2
<1> QED BY <1>1, <1>5, <1>6, <1>7

\* PUSH: what is known is not captured (capturePush).
LEMMA PushComputes ==
  ASSUME NEW i, Ready(i), i.type = "PUSH"
  PROVE  Computes(i, emulatePush(es, i))
<1> DEFINE r   == emulatePush(es, i)
           v   == getOpValue(es, i.dst)
           x   == Value(orig, i.dst)
           z   == Value(new, i.dst)
           m2  == Exec(orig, i)
           k   == ExecAll(new, r.out)
           sk2 == skew + Missing(i, r.out)
<1>1. /\ Proper(es) /\ orig \in Machine /\ Agrees(es, orig) /\ i.dst \in Operand /\ Captured /\ new \in Machine
  BY ExecutableFacts DEF Ready, Executable, Captured
<1>2. i.dst.kind \in {"Reg", "Imm"} /\ ~Mentions(i, "SP")
  <2>1. i.dst.kind \in {"Reg", "Imm", "Ind"} BY DEF Ready, Executable, WellFormed, BinaryOps, CMovFlag
  <2>2. StackLimit(i) BY DEF Ready, Executable, WithinLimits
  <2> QED BY <2>1, <2>2 DEF StackLimit
<1>3. i.dst \in Operands(i) BY <1>2 DEF Operands, NoOp
<1>4. i.dst.kind = "Reg" => i.dst.reg \in Regs /\ i.dst.reg # "SP" BY <1>1, <1>2, <1>3, OperandFields DEF Mentions
<1>5. Means(v, x) BY <1>3, ExecutableFacts DEF Ready
<1>6. z \in Word /\ (Unknown(v.state) => z = x)
  <2>1. CASE i.dst.kind = "Imm"
    <3>1. v.state = "STATIC" /\ z = i.dst.val BY <2>1 DEF getOpValue, EmuValue, Value
    <3> QED BY <1>1, <2>1, <3>1, OperandFields DEF Unknown
  <2>2. CASE i.dst.kind = "Reg"
    <3>1. v.state = es.reg_state[i.dst.reg] /\ z = new.reg[i.dst.reg] /\ x = orig.reg[i.dst.reg]
      BY <2>2 DEF getOpValue, RegValue, EmuValue, Value
    <3>2. Unknown(v.state) => z = x
      BY <1>1, <1>4, <2>2, <3>1 DEF Captured, Computed, RegsComputed
    <3> QED BY <1>1, <1>4, <2>2, <3>1, <3>2, MachineFields
  <2> QED BY <1>2, <2>1, <2>2
<1>7. StoresTo(i) = {} BY DEF StoresTo
<1>8. m2 = PushWord(orig, x) BY ExecOf
<1>9. v = getOpValue(es, i.dst) /\ r = emulatePush(es, i) /\ k = ExecAll(new, r.out) /\ m2 = Exec(orig, i)
      /\ sk2 = skew + Missing(i, r.out)
  OBVIOUS
<1> SUFFICES ASSUME r.err = "none" PROVE Computes(i, r) BY DEF Computes
<1> HIDE DEF v, x, z, m2, r, k, sk2
<1>10. /\ \E o0 \in Slots : PushEffect(r.es, m2, o0, v, x)
       /\ r.out = IF IsStatic(v) THEN <<>> ELSE << i >>
  <2>1. /\ Proper(es) /\ orig \in Machine /\ Agrees(es, orig)
        /\ i.dst.kind \in {"Imm", "Reg"} /\ (i.dst.kind = "Reg" => i.dst.reg # "SP") /\ i.dst \in Operand
        /\ v = getOpValue(es, i.dst) /\ Means(v, x) /\ r = emulatePush(es, i) /\ r.err = "none"
    BY <1>1, <1>2, <1>4, <1>5, <1>9
  <2>2. /\ \E o0 \in Slots : PushEffect(r.es, PushWord(orig, x), o0, v, x)
        /\ r.out = IF IsStatic(v) THEN <<>> ELSE << i >>
    BY ONLY <2>1, PushStep
  <2> QED BY <1>8, <2>2
<1>11. PICK o0 \in Slots : PushEffect(r.es, m2, o0, v, x) BY <1>10
<1>12. /\ orig.reg["SP"] = SlotAddr(o0) + 1 /\ es.reg_state["SP"] = "STACKRELATIVE"
       /\ r.es.reg_state = es.reg_state /\ m2.reg["SP"] = SlotAddr(o0)
       /\ \A q \in Regs : q # "SP" => m2.reg[q] = orig.reg[q]
  BY <1>11 DEF PushEffect
<1>13. /\ new.reg["SP"] = Mask(SlotAddr(o0) + (skew + 1))
       /\ Mask(new.reg["SP"] - 1) = SlotAddr(o0 + skew)
       /\ Mask(SlotAddr(o0) + skew) = SlotAddr(o0 + skew)
  BY <1>1, <1>12, PushPointer
<1>14. \A q \in Regs \ {"SP"} : Unknown(es.reg_state[q]) => new.reg[q] = orig.reg[q]
  BY <1>1 DEF Captured, Computed, RegsComputed
<1>15. skew \in Int BY <1>1 DEF Captured, InOrder
<1>16. /\ k \in Machine /\ k.vec = new.vec /\ k.flag = new.flag
       /\ Pushes(v.state, x, o0, sk2, k) /\ RegsComputed(r.es, m2, k, sk2)
  <2>1. CASE IsStatic(v)
    <3>1. r.out = <<>> BY <1>10, <2>1
    <3>2. k = new BY <1>9, <3>1, ExecAllOf
    <3>3. sk2 = skew + 1 BY <1>9, <3>1 DEF Missing
    <3>4. RegsComputed(r.es, m2, new, skew + 1) BY <1>12, <1>13, <1>14 DEF RegsComputed
    <3>5. Pushes(v.state, x, o0, skew + 1, new) BY <2>1 DEF Pushes, IsStatic
    <3> QED BY <1>1, <3>2, <3>3, <3>4, <3>5
  <2>2. CASE ~IsStatic(v)
    <3>1. r.out = << i >> BY <1>10, <2>2
    <3>2. k = PushWord(new, z)
      <4>1. ExecAll(new, << i >>) = Exec(new, i) BY ExecAllOf
      <4>2. Exec(new, i) = PushWord(new, z) BY ExecOf DEF z
      <4> QED BY <1>9, <3>1, <4>1, <4>2
    <3>3. sk2 = skew
      <4>1. << i >> # <<>> BY LastOf
      <4>2. Missing(i, << i >>) = 0 BY <4>1 DEF Missing
      <4> QED BY <1>9, <1>15, <3>1, <4>2
    <3>4. /\ k \in Machine /\ k.reg["SP"] = SlotAddr(o0 + skew) /\ k.vec = new.vec /\ k.flag = new.flag
          /\ \A q \in Regs : q # "SP" => k.reg[q] = new.reg[q]
          /\ MemDiffers(k, new, SlotAddr(o0 + skew), z)
      BY <1>1, <1>6, <1>13, <3>2, PushWordFields
    <3>5. RegsComputed(r.es, m2, k, skew) BY <1>12, <1>13, <1>14, <3>4 DEF RegsComputed
    <3>6. Pushes(v.state, x, o0, skew, k) BY <1>6, <2>2, <3>4 DEF Pushes, IsStatic
    <3> QED BY <3>3, <3>4, <3>5, <3>6
  <2> QED BY <2>1, <2>2
<1>17. r = Done(r.es, r.out)
  <2>1. r = Done(r.es, r.out) \/ r.err = "abort" BY <1>9 DEF emulatePush, Done, Abort
  <2> QED BY <2>1
<1> DEFINE e1 == r.es
           o  == r.out
<1>18. /\ Captured /\ i.type \in {"PUSH", "CALL"} /\ StoresTo(i) = {} /\ o0 \in Slots
       /\ m2 = Exec(orig, i) /\ PushEffect(e1, m2, o0, v, x)
       /\ e1.stackState = e1.stackState /\ e1.flag_state = e1.flag_state
       /\ k = ExecAll(new, o) /\ k \in Machine /\ k.vec = new.vec /\ k.flag = new.flag
       /\ sk2 = skew + Missing(i, o) /\ Pushes(v.state, x, o0, sk2, k) /\ RegsComputed(e1, m2, k, sk2)
  BY <1>1, <1>7, <1>9, <1>11, <1>16
<1> HIDE DEF e1, o
<1>19. Computes(i, Done(e1, o)) BY ONLY <1>18, PushDone
<1> QED BY <1>17, <1>19 DEF e1, o

\* CALL: the return address is known and not pushed, and makeDynamic loads its parameter.
LEMMA CallComputes ==
  ASSUME NEW i, Ready(i), i.type = "CALL"
  PROVE  Computes(i, CallOutcome(i))
<1> DEFINE target == getOpValue(es, i.dst)
           j      == Unary("PUSH", i.src)
           x      == i.src.val
           v      == getOpValue(es, j.dst)
           push   == emulatePush(es, j)
           call   == emulateCall(es, i)
           known  == processKnownTargets(call.es, target.val)
           r      == CallOutcome(i)
           m2     == Exec(orig, i)
           e3     == [push.es EXCEPT !.ret_stack = Append(@, x)]
           k      == ExecAll(new, r.out)
           sk2    == skew + Missing(i, r.out)
<1>1. /\ Proper(es) /\ es \in EmuState /\ orig \in Machine /\ Agrees(es, orig) /\ RegsAgree(es, orig)
      /\ i.src \in Operand /\ Captured /\ new \in Machine
  BY ExecutableFacts DEF Ready, Executable, Captured
<1>2. i.src.kind = "Imm" /\ x \in Word
  <2>1. i.src.kind = "Imm" BY DEF Ready, Executable, WellFormed, BinaryOps, CMovFlag
  <2> QED BY <1>1, <2>1, OperandFields
<1>3. /\ j.dst = i.src /\ j.dst.kind \in {"Imm", "Reg"} /\ j.dst.kind # "Reg" /\ j.dst \in Operand
  BY <1>1, <1>2 DEF Unary, Ternary
<1>4. Means(v, x) /\ IsStatic(v)
  BY <1>2, <1>3 DEF getOpValue, EmuValue, Means, MeansValue, CaptureState, IsStatic, csIsStatic
<1>5. r = IF call.err = "none" THEN Done(known.es, call.out \o known.out) ELSE call
  BY DEF CallOutcome
<1>6. call = IF Depth(es) >= MAX_CALLDEPTH \/ ~IsStatic(target) THEN Error(es)
             ELSE IF push.err # "none" THEN push
             ELSE Done(e3, push.out)
  BY DEF emulateCall
<1>7. m2 = PushWord(orig, x) BY ExecOf
<1>8. known = processKnownTargets(call.es, target.val) /\ k = ExecAll(new, r.out) /\ m2 = Exec(orig, i)
      /\ sk2 = skew + Missing(i, r.out) /\ push = emulatePush(es, j) /\ v = getOpValue(es, j.dst)
      /\ e3 = [push.es EXCEPT !.ret_stack = Append(@, x)]
  OBVIOUS
<1>9. StoresTo(i) = {} BY DEF StoresTo
<1> SUFFICES ASSUME r.err = "none" PROVE Computes(i, r) BY DEF Computes
<1> HIDE DEF target, j, x, v, push, call, known, r, m2, e3, k, sk2
<1>10. call.err = "none" /\ r.es = known.es /\ r.out = call.out \o known.out /\ r = Done(r.es, r.out)
  BY <1>5 DEF Done
<1>11. push.err = "none" /\ call.es = e3 /\ call.out = push.out BY <1>6, <1>10 DEF Done, Error
<1>12. /\ \E o0 \in Slots : PushEffect(push.es, m2, o0, v, x)
       /\ push.out = <<>>
  <2>1. /\ Proper(es) /\ orig \in Machine /\ Agrees(es, orig)
        /\ j.dst.kind \in {"Imm", "Reg"} /\ (j.dst.kind = "Reg" => j.dst.reg # "SP") /\ j.dst \in Operand
        /\ v = getOpValue(es, j.dst) /\ Means(v, x) /\ push = emulatePush(es, j) /\ push.err = "none"
    BY <1>1, <1>3, <1>4, <1>8, <1>11
  <2>2. /\ \E o0 \in Slots : PushEffect(push.es, PushWord(orig, x), o0, v, x)
        /\ push.out = IF IsStatic(v) THEN <<>> ELSE << j >>
    BY ONLY <2>1, PushStep
  <2> QED BY <1>4, <1>7, <2>2
<1>13. PICK o0 \in Slots : PushEffect(push.es, m2, o0, v, x) BY <1>12
<1>14. push.es.reg["DI"] = es.reg["DI"] /\ "DI" \in Regs /\ push.es \in EmuState
  <2>1. push.es.reg["DI"] = es.reg["DI"] BY <1>1, <1>8, <1>11, PushKeepsParameter
  <2>2. DataStep(es, orig, push.es, PushWord(orig, x))
    <3>1. /\ Proper(es) /\ orig \in Machine /\ Agrees(es, orig)
          /\ j.dst.kind \in {"Imm", "Reg"} /\ (j.dst.kind = "Reg" => j.dst.reg # "SP") /\ j.dst \in Operand
          /\ Means(getOpValue(es, j.dst), x)
      BY <1>1, <1>3, <1>4, <1>8
    <3>2. emulatePush(es, j).err = "none" => DataStep(es, orig, emulatePush(es, j).es, PushWord(orig, x))
      BY ONLY <3>1, Pushed
    <3> QED BY <1>8, <1>11, <3>2
  <2> QED BY <2>1, <2>2, MachineAssumption DEF DataStep, Proper
<1>15. /\ e3.reg = push.es.reg /\ e3.reg_state = push.es.reg_state /\ e3.flag_state = push.es.flag_state
       /\ e3.stackState = push.es.stackState /\ DOMAIN e3.reg_state = Regs
  BY <1>8, <1>14 DEF EmuState
<1>16. e3.reg["DI"] = es.reg["DI"] /\ e3.reg_state = es.reg_state BY <1>13, <1>14, <1>15 DEF PushEffect
<1>17. csIsStatic(es.reg_state["DI"]) => es.reg["DI"] = orig.reg["DI"] /\ orig.reg["DI"] \in Word
  BY <1>1, <1>14, MachineFields DEF RegsAgree, MeansValue
<1>18. known = IF target.val = MakeDynamic /\ csIsStatic(e3.reg_state["DI"])
               THEN Done([e3 EXCEPT !.reg_state["DI"] = "DYNAMIC"], << LoadImm(RegOp("DI"), RegValue(e3, "DI")) >>)
               ELSE IF target.val = MakeStatic THEN Done([e3 EXCEPT !.reg_state["DI"] = "STATIC2"], <<>>)
               ELSE Done(e3, <<>>)
  BY <1>8, <1>11 DEF processKnownTargets
<1>19. sk2 = skew + 1
  <2>1. Missing(i, r.out) = 1 BY DEF Missing
  <2> QED BY <1>8, <2>1
<1>20. /\ orig.reg["SP"] = SlotAddr(o0) + 1 /\ es.reg_state["SP"] = "STACKRELATIVE"
       /\ m2.reg["SP"] = SlotAddr(o0)
       /\ \A q \in Regs : q # "SP" => m2.reg[q] = orig.reg[q]
  BY <1>13 DEF PushEffect
<1>21. /\ new.reg["SP"] = Mask(SlotAddr(o0) + (skew + 1))
  BY <1>1, <1>20, PushPointer
<1>22. \A q \in Regs \ {"SP"} : Unknown(es.reg_state[q]) => new.reg[q] = orig.reg[q]
  BY <1>1 DEF Captured, Computed, RegsComputed
<1>23. \A n : n.mem = new.mem => Pushes(v.state, x, o0, skew + 1, n) BY <1>4 DEF Pushes, IsStatic
<1>24. /\ r.es.stackState = push.es.stackState /\ r.es.flag_state = push.es.flag_state
       /\ k \in Machine /\ k.vec = new.vec /\ k.flag = new.flag /\ k.mem = new.mem
       /\ RegsComputed(r.es, m2, k, skew + 1)
  <2>1. CASE target.val = MakeDynamic /\ csIsStatic(e3.reg_state["DI"])
    <3> DEFINE l == LoadImm(RegOp("DI"), RegValue(e3, "DI"))
    <3>1. r.es = [e3 EXCEPT !.reg_state["DI"] = "DYNAMIC"] /\ r.out = <<>> \o << l >>
      BY <1>10, <1>11, <1>12, <1>18, <2>1 DEF Done
    <3>2. /\ r.es.stackState = e3.stackState /\ r.es.flag_state = e3.flag_state
          /\ \A q \in Regs : q # "DI" => r.es.reg_state[q] = es.reg_state[q]
      BY <1>14, <1>15, <1>16, <3>1
    <3>3. k = Exec(new, l)
      <4> HIDE DEF l
      <4>1. <<>> \o << l >> = << l >> BY Joined
      <4>2. ExecAll(new, << l >>) = Exec(new, l) BY ExecAllOf
      <4> QED BY <1>8, <3>1, <4>1, <4>2
    <3>4. k = [new EXCEPT !.reg["DI"] = orig.reg["DI"]]
      <4>1. Exec(new, l) = Write(new, RegOp("DI"), RegValue(e3, "DI").val) BY MoveExec
      <4>2. RegValue(e3, "DI").val = orig.reg["DI"] BY <1>16, <1>17, <2>1 DEF RegValue, EmuValue
      <4> QED BY <3>3, <4>1, <4>2 DEF Write, RegOp
    <3>5. RegWrites(k, new, "DI", orig.reg["DI"])
      <4>1. new \in Machine /\ "DI" \in Regs /\ orig.reg["DI"] \in Word BY <1>1, <1>14, <1>16, <1>17, <2>1
      <4> QED BY <3>4, <4>1, RegWriteFields
    <3>6. RegsComputed(r.es, m2, k, skew + 1)
      <4>1. ASSUME NEW q \in Regs \ {"SP"}, Unknown(r.es.reg_state[q]) PROVE k.reg[q] = m2.reg[q]
        <5>1. CASE q = "DI" BY <1>20, <3>5, <4>1, <5>1 DEF RegWrites, RegDiffers
        <5>2. CASE q # "DI" BY <1>20, <1>22, <3>2, <3>5, <4>1, <5>2 DEF RegWrites, RegDiffers
        <5> QED BY <5>1, <5>2
      <4>2. k.reg["SP"] = new.reg["SP"] BY <3>5, MachineAssumption DEF RegWrites, RegDiffers
      <4> QED BY <1>20, <1>21, <4>1, <4>2 DEF RegsComputed
    <3> QED BY <1>15, <3>2, <3>5, <3>6 DEF RegWrites
  <2>2. CASE ~(target.val = MakeDynamic /\ csIsStatic(e3.reg_state["DI"]))
    <3>1. /\ r.es = e3 \/ r.es = [e3 EXCEPT !.reg_state["DI"] = "STATIC2"]
          /\ r.out = <<>> \o <<>>
      BY <1>10, <1>11, <1>12, <1>18, <2>2 DEF Done
    <3>2. /\ r.es.stackState = e3.stackState /\ r.es.flag_state = e3.flag_state
          /\ \A q \in Regs : r.es.reg_state[q] = es.reg_state[q] \/ r.es.reg_state[q] = "STATIC2"
      <4>1. CASE r.es = e3 BY <1>16, <4>1
      <4>2. CASE r.es = [e3 EXCEPT !.reg_state["DI"] = "STATIC2"] BY <1>14, <1>15, <1>16, <4>2
      <4> QED BY <3>1, <4>1, <4>2
    <3>3. k = new
      <4>1. r.out = <<>> BY <3>1, MoreJoined
      <4> QED BY <1>8, <4>1, ExecAllOf
    <3>4. \A q \in Regs : Unknown(r.es.reg_state[q]) => Unknown(es.reg_state[q]) BY <3>2 DEF Unknown
    <3>5. RegsComputed(r.es, m2, new, skew + 1) BY <1>20, <1>21, <1>22, <3>4 DEF RegsComputed
    <3> QED BY <1>1, <1>15, <3>2, <3>3, <3>5
  <2> QED BY <2>1, <2>2
<1> DEFINE e1 == push.es
           e2 == r.es
           out == r.out
<1>25. /\ Captured /\ i.type \in {"PUSH", "CALL"} /\ StoresTo(i) = {} /\ o0 \in Slots
       /\ m2 = Exec(orig, i) /\ PushEffect(e1, m2, o0, v, x)
       /\ e2.stackState = e1.stackState /\ e2.flag_state = e1.flag_state
       /\ k = ExecAll(new, out) /\ k \in Machine /\ k.vec = new.vec /\ k.flag = new.flag
       /\ sk2 = skew + Missing(i, out) /\ Pushes(v.state, x, o0, sk2, k) /\ RegsComputed(e2, m2, k, sk2)
  BY <1>1, <1>8, <1>9, <1>13, <1>19, <1>23, <1>24
<1> HIDE DEF e1, e2, out
<1>26. Computes(i, Done(e2, out)) BY ONLY <1>25, PushDone
<1> QED BY <1>10, <1>26 DEF e2, out

\* Popping what is in slot p0; a known value was not pushed by captured code.
LEMMA PopComputed ==
  ASSUME NEW i, Captured, i.type \notin {"PUSH", "CALL"}, StoresTo(i) = {},
         NEW p0 \in Slots, orig.reg["SP"] = SlotAddr(p0),
         NEW e2, e2.stackState = es.stackState,
         NEW m2, m2.reg["SP"] = SlotAddr(p0) + 1, m2.mem = orig.mem, m2.vec = orig.vec,
         NEW sk2, sk2 = skew - KnownIn(es, p0), KnownIn(es, p0) = 1 => skew > 0,
         NEW k2, k2.mem = new.mem, k2.vec = new.vec, RegsComputed(e2, m2, k2, sk2)
  PROVE  /\ Computed(e2, m2, k2, sk2, NextAt(i, e2, m2, k2))
         /\ InOrder(e2, m2, sk2, NextAt(i, e2, m2, k2))
<1>1. StackSize \in Nat /\ p0 \in Nat /\ Base \in Int BY StackFacts, WordFacts DEF Slots
<1>2. \A o \in Slots : SlotAddr(o) = Base - StackSize + o /\ o \in Nat BY SlotPlaces
<1>3. NextAt(i, e2, m2, k2) = at
  <2>1. Stored(i) = {} BY DEF Stored
  <2>2. at = [o \in Slots |-> at[o]] BY DEF Captured
  <2>3. NextAt(i, e2, m2, k2) = [o \in Slots |-> at[o]] BY <2>1 DEF NextAt
  <2> QED BY <2>2, <2>3
<1>4. /\ StackComputed(es, orig, new, at) /\ OthersComputed(orig, new) /\ InOrder(es, orig, skew, at)
      /\ at \in [Slots -> Int]
  BY DEF Captured, Computed
<1>5. StackComputed(e2, m2, k2, at) /\ OthersComputed(m2, k2)
  BY <1>4 DEF StackComputed, OthersComputed
<1>6. KnownIn(es, p0) \in {0, 1} BY KnownInRange
<1>7. InOrder(e2, m2, sk2, at)
  <2>1. CASE skew = 0
    <3>1. sk2 = 0 BY <1>6, <2>1
    <3>2. \A o \in Slots : SlotAddr(o) >= m2.reg["SP"] => SlotAddr(o) >= orig.reg["SP"] BY <1>1, <1>2
    <3>3. InPlace(es, orig, at) BY <1>4, <2>1 DEF InOrder
    <3>4. InPlace(e2, m2, at) BY <3>2, <3>3 DEF InPlace
    <3> QED BY <3>1, <3>4 DEF InOrder
  <2>2. CASE skew # 0
    <3>1. PICK p \in Slots, q \in Slots : orig.reg["SP"] = SlotAddr(p) /\ Frame(es, p, q, skew, at)
      BY <1>4, <2>2 DEF InOrder
    <3>2. p = p0 BY <3>1, StackFacts
    <3>3. /\ p <= q /\ at[q] = 0 /\ KnownIn(es, q) = 1 /\ skew = at[p] + KnownIn(es, p)
          /\ \A o \in Slots : q < o /\ Unknown(es.stackState[o]) => at[o] = 0
      BY <3>1 DEF Frame
    <3>4. p \in Nat /\ q \in Nat /\ at[p] \in Int BY <1>2, <1>4
    <3>5. sk2 = at[p] BY <1>6, <3>2, <3>3, <3>4
    <3>6. CASE p < q
      <4>1. p + 1 \in Slots /\ at[p] \in Nat \ {0} /\ Frame(e2, p + 1, q, at[p], at)
        <5>1. /\ p \in Slots /\ q \in Slots /\ Frame(es, p, q, skew, at) /\ p < q
              /\ e2.stackState = es.stackState
          BY <3>1, <3>6
        <5> QED BY ONLY <5>1, FramePopped
      <4>2. m2.reg["SP"] = SlotAddr(p + 1) BY <1>1, <1>2, <3>2, <4>1
      <4> QED BY <3>5, <4>1, <4>2 DEF InOrder
    <3>7. CASE p = q
      <4>1. sk2 = 0 BY <3>3, <3>5, <3>7
      <4>2. \A o \in Slots : SlotAddr(o) >= m2.reg["SP"] => q < o BY <1>1, <1>2, <3>2, <3>7
      <4>3. InPlace(e2, m2, at) BY <3>3, <4>2 DEF InPlace
      <4> QED BY <4>1, <4>3 DEF InOrder
    <3> QED BY <3>3, <3>4, <3>6, <3>7
  <2> QED BY <2>1, <2>2
<1> QED BY <1>3, <1>5, <1>7 DEF Computed

\* A place on the stack that a register points to.
LEMMA TopOf ==
  ASSUME Proper(es), orig \in Machine, Agrees(es, orig), NEW r \in Regs, NEW a, a = RegValue(es, r),
         a.state = "STACKRELATIVE", OnStack(a), NEW o, o = Offset(a)
  PROVE  /\ o \in Slots /\ orig.reg[r] = SlotAddr(o)
         /\ getMemValue(es, a).state = es.stackState[o] /\ getStackState(es, a) = es.stackState[o]
<1>1. es \in EmuState /\ RegsAgree(es, orig) BY DEF Proper, Agrees
<1>2. Means(a, orig.reg[r]) BY <1>1, RegMeans
<1>3. a.val \in Word /\ MeansValue(a.state, a.val, orig.reg[r]) /\ orig.reg[r] \in Word BY <1>2 DEF Means
<1>4. Offset(a) \in Slots /\ orig.reg[r] = SlotAddr(Offset(a)) BY <1>3, SlotOf
<1>5. getStackState(es, a) = es.stackState[o]
  BY <1>4 DEF getStackState, KnownOffset, Proper, Kept
<1>6. getMemValue(es, a).state = getStackState(es, a) BY DEF getMemValue, EmuValue
<1> QED BY <1>4, <1>5, <1>6

\* Popping, on the processor.
LEMMA PopWordFields ==
  ASSUME NEW m, m \in Machine, NEW d \in Regs, d # "SP", NEW k, k = PopWord(m, d)
  PROVE  /\ k \in Machine /\ k.reg["SP"] = Mask(m.reg["SP"] + 1) /\ k.reg[d] = m.mem[m.reg["SP"]]
         /\ \A q \in Regs : q \notin {"SP", d} => k.reg[q] = m.reg[q]
         /\ k.mem = m.mem /\ k.vec = m.vec /\ k.flag = m.flag
<1> DEFINE sp == Mask(m.reg["SP"] + 1)
           x  == m.mem[m.reg["SP"]]
           rg == [[m.reg EXCEPT !["SP"] = sp] EXCEPT ![d] = x]
<1>1. "SP" \in Regs /\ m.reg["SP"] \in Word BY MachineAssumption, MachineFields
<1>2. sp \in Word
  <2>1. m.reg["SP"] \in Int BY <1>1, WordFacts
  <2>2. m.reg["SP"] + 1 \in Int BY <2>1
  <2> QED BY <2>2, MaskFacts
<1>3. x \in Word BY <1>1, MachineFields
<1>4. k = [m EXCEPT !.reg = rg] BY DEF PopWord
<1>5. sp = Mask(m.reg["SP"] + 1) /\ x = m.mem[m.reg["SP"]] OBVIOUS
<1> HIDE DEF sp, x
<1>6. m.reg \in [Regs -> Word] BY DEF Machine
<1>7. /\ rg \in [Regs -> Word] /\ rg["SP"] = sp /\ rg[d] = x
      /\ \A q \in Regs : q \notin {"SP", d} => rg[q] = m.reg[q]
  BY <1>1, <1>2, <1>3, <1>6
<1> HIDE DEF rg
<1>8. k \in Machine /\ k.reg = rg /\ k.mem = m.mem /\ k.vec = m.vec /\ k.flag = m.flag
  BY <1>4, <1>7 DEF Machine
<1> QED BY <1>5, <1>7, <1>8

\* What captured code finds where its stack pointer points to.
LEMMA PopPlace ==
  ASSUME Captured, NEW p0 \in Slots, orig.reg["SP"] = SlotAddr(p0), Unknown(es.reg_state["SP"])
  PROVE  /\ skew \in Nat /\ new.reg["SP"] = Mask(SlotAddr(p0) + skew)
         /\ Unknown(es.stackState[p0]) => new.mem[new.reg["SP"]] = orig.mem[SlotAddr(p0)]
         /\ Mask(new.reg["SP"] + 1) = Mask((SlotAddr(p0) + 1) + skew)
         /\ Mask(orig.reg["SP"] + 1) = SlotAddr(p0) + 1
         /\ new.reg["SP"] = Mask((SlotAddr(p0) + 1) + (skew - 1))
<1>1. /\ StackComputed(es, orig, new, at) /\ InOrder(es, orig, skew, at)
      /\ new.reg["SP"] = Mask(SlotAddr(p0) + skew)
  BY DEF Captured, Computed, RegsComputed
<1>2. skew \in Nat BY <1>1 DEF InOrder
<1>3. /\ SlotAddr(p0) \in Int /\ SlotAddr(p0) + 1 \in Word
  <2>1. /\ SlotAddr(p0) \in Word /\ SlotAddr(p0) = Base - StackSize + p0 /\ p0 \in Nat /\ p0 < StackSize
        /\ Base < 2 ^ W /\ Base \in Int /\ StackSize \in Nat /\ Base >= StackSize
    BY StackFacts, SlotPlaces, WordFacts
  <2> DEFINE M == 2 ^ W
  <2>2. M \in {4, 16, 256} BY WordFacts
  <2> HIDE DEF M
  <2>3. Base < M BY <2>1 DEF M
  <2>4. SlotAddr(p0) + 1 \in Int /\ 0 <= SlotAddr(p0) + 1 /\ SlotAddr(p0) + 1 < M BY <2>1, <2>2, <2>3
  <2>5. SlotAddr(p0) + 1 \in Word BY <2>4, WordFacts DEF M
  <2> QED BY <2>1, <2>5
<1>4. ASSUME Unknown(es.stackState[p0]) PROVE new.mem[new.reg["SP"]] = orig.mem[SlotAddr(p0)]
  <2>1. KnownIn(es, p0) = 0 BY <1>4 DEF KnownIn, Unknown, csIsStatic
  <2>2. SlotAddr(p0) >= orig.reg["SP"] BY <1>3
  <2>3. at[p0] # Gone /\ (skew = 0 => at[p0] = 0) /\ at[p0] \in Nat BY <1>1, <1>4, <2>2, InOrderPlaces
  <2>4. skew = at[p0]
    <3>1. CASE skew = 0 BY <2>3, <3>1
    <3>2. CASE skew # 0
      <4>1. PICK p \in Slots, q \in Slots : orig.reg["SP"] = SlotAddr(p) /\ Frame(es, p, q, skew, at)
        BY <1>1, <3>2 DEF InOrder
      <4>2. p = p0 BY <4>1, StackFacts
      <4>3. skew = at[p0] + KnownIn(es, p0) BY <4>1, <4>2 DEF Frame
      <4> QED BY <2>1, <2>3, <4>3
    <3> QED BY <3>1, <3>2
  <2>5. new.mem[PlaceOf(at, p0)] = orig.mem[SlotAddr(p0)] BY <1>1, <1>4, <2>3 DEF StackComputed
  <2> QED BY <1>1, <2>4, <2>5 DEF PlaceOf
<1>5. Mask(new.reg["SP"] + 1) = Mask((SlotAddr(p0) + 1) + skew)
  <2> DEFINE y == SlotAddr(p0) + skew
  <2>1. y \in Int /\ y + 1 = (SlotAddr(p0) + 1) + skew /\ 1 \in Int BY <1>2, <1>3
  <2> HIDE DEF y
  <2>2. Mask(Mask(y) + 1) = Mask(y + 1) BY <2>1, MaskFacts
  <2> QED BY <1>1, <2>1, <2>2 DEF y
<1>6. SlotAddr(p0) + skew = (SlotAddr(p0) + 1) + (skew - 1) BY <1>2, <1>3
<1>7. Mask(orig.reg["SP"] + 1) = SlotAddr(p0) + 1 BY <1>3, MaskFacts
<1> QED BY <1>1, <1>2, <1>4, <1>5, <1>6, <1>7

\* Instructions that pop.
LEMMA PopDone ==
  ASSUME NEW i, Captured, i.type \in {"POP", "RET"}, StoresTo(i) = {},
         NEW p0 \in Slots, orig.reg["SP"] = SlotAddr(p0),
         NEW e2, e2.stackState = es.stackState, e2.flag_state = es.flag_state,
         NEW m2, m2 = Exec(orig, i), m2.reg["SP"] = SlotAddr(p0) + 1, m2.mem = orig.mem, m2.vec = orig.vec,
         m2.flag = orig.flag,
         NEW out, NEW sk2, sk2 = skew + Missing(i, out), sk2 = skew - KnownIn(es, p0),
         KnownIn(es, p0) = 1 => skew > 0,
         NEW k2, k2 = ExecAll(new, out), k2 \in Machine, k2.mem = new.mem, k2.vec = new.vec, k2.flag = new.flag,
         RegsComputed(e2, m2, k2, sk2)
  PROVE  Computes(i, Done(e2, out))
<1> DEFINE r == Done(e2, out)
<1>1. r.es = e2 /\ r.out = out BY DEF Done
<1>2. Computed(e2, m2, k2, sk2, NextAt(i, e2, m2, k2)) /\ InOrder(e2, m2, sk2, NextAt(i, e2, m2, k2))
  <2>1. /\ Captured /\ i.type \notin {"PUSH", "CALL"} /\ StoresTo(i) = {} /\ p0 \in Slots
        /\ orig.reg["SP"] = SlotAddr(p0) /\ e2.stackState = es.stackState
        /\ m2.reg["SP"] = SlotAddr(p0) + 1 /\ m2.mem = orig.mem /\ m2.vec = orig.vec
        /\ sk2 = skew - KnownIn(es, p0) /\ (KnownIn(es, p0) = 1 => skew > 0)
        /\ k2.mem = new.mem /\ k2.vec = new.vec /\ RegsComputed(e2, m2, k2, sk2)
    OBVIOUS
  <2> QED BY ONLY <2>1, PopComputed
<1>3. LostBy(i, e2, out) = lost BY LostOf
<1>4. FlagsCaptured(e2, m2, k2, LostBy(i, e2, out)) BY <1>3, FlagsLeft
<1> HIDE DEF r
<1>5. Computes(i, r) BY <1>1, <1>2, <1>4 DEF Computes
<1> QED BY <1>5 DEF r

\* POP: what is known was not pushed by captured code, and is not popped.
LEMMA PopComputes ==
  ASSUME NEW i, Ready(i), i.type = "POP"
  PROVE  Computes(i, emulatePop(es, i))
<1> DEFINE r   == emulatePop(es, i)
           d   == i.dst.reg
           a   == RegValue(es, "SP")
           v   == getMemValue(es, a)
           e1  == setReg(es, d, v)
           e2  == [e1 EXCEPT !.reg["SP"] = Mask(e1.reg["SP"] + 1)]
           out == IF IsStatic(v) THEN <<>> ELSE << i >>
           p0  == Offset(a)
           m2  == Exec(orig, i)
           k   == ExecAll(new, out)
           sk2 == skew + Missing(i, out)
<1>1. /\ Proper(es) /\ es \in EmuState /\ orig \in Machine /\ Agrees(es, orig) /\ i.dst \in Operand
      /\ Captured /\ new \in Machine
  BY ExecutableFacts DEF Ready, Executable, Captured
<1>2. i.dst.kind = "Reg" BY DEF Ready, Executable, WellFormed, BinaryOps, CMovFlag
<1>3. d \in Regs /\ d # "SP" /\ "SP" \in Regs
  <2>1. i.dst \in Operands(i) /\ d \in Regs BY <1>1, <1>2, OperandFields DEF Operands, NoOp
  <2>2. StackLimit(i) BY DEF Ready, Executable, WithinLimits
  <2> QED BY <2>1, <2>2, MachineAssumption DEF StackLimit, Mentions
<1>4. r = IF OnStack(a) THEN Done(e2, out) ELSE Abort(es) BY DEF emulatePop
<1>5. StoresTo(i) = {} BY <1>2 DEF StoresTo, MemOps
<1>6. m2 = PopWord(orig, d) BY ExecOf
<1>7. a.state = "STACKRELATIVE" /\ es.reg_state["SP"] = "STACKRELATIVE"
  <2>1. es.reg_state["SP"] = "STACKRELATIVE" BY DEF Ready, Executable, Accesses
  <2> QED BY <2>1 DEF RegValue, EmuValue
<1>8. csIsStatic(getStackState(es, a)) /\ OnStack(a) => skew > 0
  <2>1. StackLimit(i) BY DEF Ready, Executable, WithinLimits
  <2> QED BY <2>1 DEF StackLimit
<1>9. /\ e2.stackState = es.stackState /\ e2.flag_state = es.flag_state
      /\ e2.reg_state[d] = v.state /\ \A q \in Regs : q # d => e2.reg_state[q] = es.reg_state[q]
  <2>1. e2.reg_state = e1.reg_state /\ e2.stackState = e1.stackState /\ e2.flag_state = e1.flag_state
    BY <1>1 DEF setReg, EmuState
  <2> HIDE DEF v, d
  <2>2. /\ e1.stackState = es.stackState /\ e1.flag_state = es.flag_state
        /\ e1.reg_state[d] = v.state /\ \A q \in Regs : q # d => e1.reg_state[q] = es.reg_state[q]
    BY <1>1, <1>3, SetRegStates
  <2> HIDE DEF e2, e1
  <2> QED BY <2>1, <2>2
<1>10. /\ a = RegValue(es, "SP") /\ p0 = Offset(a) /\ m2 = Exec(orig, i) /\ k = ExecAll(new, out)
       /\ sk2 = skew + Missing(i, out) /\ v = getMemValue(es, a)
  OBVIOUS
<1> SUFFICES ASSUME r.err = "none" PROVE Computes(i, r) BY DEF Computes
<1>11. OnStack(a) /\ r = Done(e2, out) BY <1>4 DEF Abort
<1>12. out = IF IsStatic(v) THEN <<>> ELSE << i >> OBVIOUS
<1> HIDE DEF r, d, a, v, e1, e2, out, p0, m2, k, sk2
<1>13. /\ p0 \in Slots /\ orig.reg["SP"] = SlotAddr(p0)
       /\ v.state = es.stackState[p0] /\ getStackState(es, a) = es.stackState[p0]
  BY <1>1, <1>3, <1>7, <1>10, <1>11, TopOf
<1>14. Unknown(es.reg_state["SP"]) BY <1>7 DEF Unknown
<1>15. /\ skew \in Nat /\ new.reg["SP"] = Mask(SlotAddr(p0) + skew)
       /\ Unknown(es.stackState[p0]) => new.mem[new.reg["SP"]] = orig.mem[SlotAddr(p0)]
       /\ Mask(new.reg["SP"] + 1) = Mask((SlotAddr(p0) + 1) + skew)
       /\ Mask(orig.reg["SP"] + 1) = SlotAddr(p0) + 1
       /\ new.reg["SP"] = Mask((SlotAddr(p0) + 1) + (skew - 1))
  BY <1>1, <1>13, <1>14, PopPlace
<1>16. /\ m2 \in Machine /\ m2.reg["SP"] = SlotAddr(p0) + 1 /\ m2.reg[d] = orig.mem[SlotAddr(p0)]
       /\ \A q \in Regs : q \notin {"SP", d} => m2.reg[q] = orig.reg[q]
       /\ m2.mem = orig.mem /\ m2.vec = orig.vec /\ m2.flag = orig.flag
  BY <1>1, <1>3, <1>6, <1>13, <1>15, PopWordFields
<1>17. \A q \in Regs \ {"SP"} : Unknown(es.reg_state[q]) => new.reg[q] = orig.reg[q]
  BY <1>1 DEF Captured, Computed, RegsComputed
<1>18. /\ k \in Machine /\ k.mem = new.mem /\ k.vec = new.vec /\ k.flag = new.flag
       /\ sk2 = skew - KnownIn(es, p0) /\ (KnownIn(es, p0) = 1 => skew > 0)
       /\ RegsComputed(e2, m2, k, sk2)
  <2>1. CASE IsStatic(v)
    <3>1. KnownIn(es, p0) = 1 BY <1>13, <2>1 DEF KnownIn, IsStatic
    <3>2. out = <<>> BY <1>12, <2>1
    <3>3. k = new BY <1>10, <3>2, ExecAllOf
    <3>4. sk2 = skew - 1
      <4>1. Missing(i, out) = -1 BY <3>2 DEF Missing
      <4> QED BY <1>10, <1>15, <4>1
    <3>5. skew > 0 BY <1>8, <1>11, <1>13, <2>1 DEF IsStatic
    <3>6. ~Unknown(e2.reg_state[d]) BY <1>9, <2>1 DEF Unknown, IsStatic, csIsStatic
    <3>7. RegsComputed(e2, m2, new, skew - 1)
      BY <1>9, <1>15, <1>16, <1>17, <3>6 DEF RegsComputed
    <3> QED BY <1>1, <3>1, <3>3, <3>4, <3>5, <3>7
  <2>2. CASE ~IsStatic(v)
    <3>1. KnownIn(es, p0) = 0 BY <1>13, <2>2 DEF KnownIn, IsStatic
    <3>2. out = << i >> BY <1>12, <2>2
    <3>3. k = PopWord(new, d)
      <4>1. ExecAll(new, << i >>) = Exec(new, i) BY ExecAllOf
      <4>2. Exec(new, i) = PopWord(new, d) BY ExecOf DEF d
      <4> QED BY <1>10, <3>2, <4>1, <4>2
    <3>4. sk2 = skew
      <4>1. << i >> # <<>> BY LastOf
      <4>2. Missing(i, out) = 0 BY <3>2, <4>1 DEF Missing
      <4> QED BY <1>10, <1>15, <4>2
    <3>5. /\ k \in Machine /\ k.reg["SP"] = Mask((SlotAddr(p0) + 1) + skew) /\ k.reg[d] = new.mem[new.reg["SP"]]
          /\ \A q \in Regs : q \notin {"SP", d} => k.reg[q] = new.reg[q]
          /\ k.mem = new.mem /\ k.vec = new.vec /\ k.flag = new.flag
      BY <1>1, <1>3, <1>15, <3>3, PopWordFields
    <3>6. Unknown(e2.reg_state[d]) => k.reg[d] = m2.reg[d] BY <1>9, <1>13, <1>15, <1>16, <3>5
    <3>7. RegsComputed(e2, m2, k, skew)
      BY <1>9, <1>16, <1>17, <3>5, <3>6 DEF RegsComputed
    <3> QED BY <1>15, <3>1, <3>4, <3>5, <3>7
  <2> QED BY <2>1, <2>2
<1>19. /\ Captured /\ i.type \in {"POP", "RET"} /\ StoresTo(i) = {}
       /\ p0 \in Slots /\ orig.reg["SP"] = SlotAddr(p0)
       /\ e2.stackState = es.stackState /\ e2.flag_state = es.flag_state
       /\ m2 = Exec(orig, i) /\ m2.reg["SP"] = SlotAddr(p0) + 1 /\ m2.mem = orig.mem /\ m2.vec = orig.vec
       /\ m2.flag = orig.flag
       /\ sk2 = skew + Missing(i, out) /\ sk2 = skew - KnownIn(es, p0)
       /\ (KnownIn(es, p0) = 1 => skew > 0)
       /\ k = ExecAll(new, out) /\ k \in Machine /\ k.mem = new.mem /\ k.vec = new.vec /\ k.flag = new.flag
       /\ RegsComputed(e2, m2, k, sk2)
  BY <1>1, <1>5, <1>9, <1>10, <1>13, <1>16, <1>18
<1>20. Computes(i, Done(e2, out)) BY ONLY <1>19, PopDone
<1> QED BY <1>11, <1>20

\* Returning, on the processor.
LEMMA ReturnExec ==
  ASSUME NEW m, m \in Machine, NEW i, i.type = "RET"
  PROVE  LET k == Exec(m, i)
         IN /\ k \in Machine /\ k.reg["SP"] = Mask(m.reg["SP"] + 1)
            /\ \A q \in Regs : q # "SP" => k.reg[q] = m.reg[q]
            /\ k.mem = m.mem /\ k.vec = m.vec /\ k.flag = m.flag
<1> DEFINE sp == Mask(m.reg["SP"] + 1)
           k  == [m EXCEPT !.reg["SP"] = sp]
<1>1. "SP" \in Regs /\ m.reg["SP"] \in Int BY MachineAssumption, MachineFields, WordFacts
<1>2. Exec(m, i) = k BY ExecOf
<1>3. sp \in Word
  <2>1. m.reg["SP"] + 1 \in Int BY <1>1
  <2> QED BY <2>1, MaskFacts
<1>4. sp = Mask(m.reg["SP"] + 1) OBVIOUS
<1> HIDE DEF sp
<1>5. /\ k \in Machine /\ k.reg["SP"] = sp /\ \A q \in Regs : q # "SP" => k.reg[q] = m.reg[q]
      /\ k.mem = m.mem /\ k.vec = m.vec /\ k.flag = m.flag
  BY <1>1, <1>3 DEF Machine
<1> QED BY <1>2, <1>4, <1>5

\* RET of an inlined call: the return address was not pushed by captured code.
LEMMA RetComputes ==
  ASSUME NEW i, Ready(i), i.type = "RET", ReturnsProperly(i), Depth(es) # 0
  PROVE  Computes(i, emulateRet(es))
<1> DEFINE r   == emulateRet(es)
           a   == RegValue(es, "SP")
           q1  == [q \in Regs |-> IF q \in CallerSaved THEN "DEAD" ELSE es.reg_state[q]]
           e1  == [es EXCEPT !.reg_state = q1]
           e2  == [e1 EXCEPT !.reg["SP"] = Mask(@ + 1), !.ret_stack = SubSeq(@, 1, Depth(es) - 1)]
           out == <<>>
           p0  == Offset(a)
           m2  == Exec(orig, i)
           sk2 == skew + Missing(i, out)
<1>1. /\ Proper(es) /\ es \in EmuState /\ orig \in Machine /\ Agrees(es, orig) /\ Captured /\ new \in Machine
  BY ExecutableFacts DEF Ready, Executable, Captured
<1>2. i.dst.kind = "None" /\ i.src.kind = "None" /\ i.src2 = NoOp
  BY CMovNames DEF Ready, Executable, WellFormed, BinaryOps, CMovTypes
<1>3. StoresTo(i) = {}
  <2>1. NoOp.kind = "None" BY DEF NoOp
  <2> QED BY <1>2, <2>1 DEF StoresTo, MemOps, Operands
<1>4. r = IF ~OnStack(a) THEN Abort(es)
          ELSE IF getMemValue(es, a).val # es.ret_stack[Depth(es)] THEN Error(es)
          ELSE Done(e2, <<>>)
  BY DEF emulateRet
<1>5. a.state = "STACKRELATIVE" /\ es.reg_state["SP"] = "STACKRELATIVE" /\ Unknown(es.reg_state["SP"])
  <2>1. es.reg_state["SP"] = "STACKRELATIVE" BY DEF Ready, Executable, Accesses
  <2> QED BY <2>1 DEF RegValue, EmuValue, Unknown
<1>6. Depth(es) \in Nat /\ Depth(es) > 0 BY <1>1 DEF Depth, EmuState
<1>7. IsStatic(getMemValue(es, a)) BY <1>6 DEF ReturnsProperly
<1>8. skew > 0
  <2>1. StackLimit(i) BY DEF Ready, Executable, WithinLimits
  <2> QED BY <1>6, <2>1 DEF StackLimit
<1>9. /\ e2.stackState = es.stackState /\ e2.flag_state = es.flag_state
      /\ \A q \in Regs : e2.reg_state[q] = es.reg_state[q] \/ e2.reg_state[q] = "DEAD"
  <2>1. e2.reg_state = e1.reg_state /\ e2.stackState = e1.stackState /\ e2.flag_state = e1.flag_state
    BY <1>1 DEF EmuState
  <2> HIDE DEF e2
  <2>2. e1.reg_state = q1 /\ e1.stackState = es.stackState /\ e1.flag_state = es.flag_state
    BY <1>1 DEF EmuState
  <2> HIDE DEF e1
  <2> QED BY <2>1, <2>2
<1>10. a = RegValue(es, "SP") /\ p0 = Offset(a) /\ m2 = Exec(orig, i) /\ out = <<>> /\ sk2 = skew + Missing(i, out)
  OBVIOUS
<1> SUFFICES ASSUME r.err = "none" PROVE Computes(i, r) BY DEF Computes
<1>11. OnStack(a) /\ r = Done(e2, out) BY <1>4 DEF Abort, Error
<1> HIDE DEF r, a, e1, e2, out, p0, m2, sk2
<1>12. /\ p0 \in Slots /\ orig.reg["SP"] = SlotAddr(p0) /\ getMemValue(es, a).state = es.stackState[p0]
  BY <1>1, <1>5, <1>10, <1>11, MachineAssumption, TopOf
<1>13. KnownIn(es, p0) = 1 BY <1>7, <1>12 DEF KnownIn, IsStatic
<1>14. /\ skew \in Nat /\ Mask(orig.reg["SP"] + 1) = SlotAddr(p0) + 1
       /\ new.reg["SP"] = Mask((SlotAddr(p0) + 1) + (skew - 1))
  BY <1>1, <1>5, <1>12, PopPlace
<1>15. /\ m2.reg["SP"] = SlotAddr(p0) + 1 /\ \A q \in Regs : q # "SP" => m2.reg[q] = orig.reg[q]
       /\ m2.mem = orig.mem /\ m2.vec = orig.vec /\ m2.flag = orig.flag
  BY <1>1, <1>10, <1>14, ReturnExec
<1>16. sk2 = skew - 1
  <2>1. Missing(i, out) = -1 BY <1>6 DEF Missing
  <2> QED BY <1>10, <1>14, <2>1
<1>17. \A q \in Regs \ {"SP"} : Unknown(es.reg_state[q]) => new.reg[q] = orig.reg[q]
  BY <1>1 DEF Captured, Computed, RegsComputed
<1>18. RegsComputed(e2, m2, new, skew - 1)
  <2>1. \A q \in Regs : Unknown(e2.reg_state[q]) => Unknown(es.reg_state[q]) BY <1>9 DEF Unknown
  <2> QED BY <1>14, <1>15, <1>17, <2>1 DEF RegsComputed
<1> DEFINE k == new
<1>19. k = ExecAll(new, out) BY <1>10, ExecAllOf
<1>20. /\ k \in Machine /\ k.mem = new.mem /\ k.vec = new.vec /\ k.flag = new.flag
       /\ sk2 = skew - KnownIn(es, p0) /\ (KnownIn(es, p0) = 1 => skew > 0)
       /\ RegsComputed(e2, m2, k, sk2)
  BY <1>1, <1>8, <1>13, <1>16, <1>18
<1> HIDE DEF k
<1>21. /\ Captured /\ i.type \in {"POP", "RET"} /\ StoresTo(i) = {}
       /\ p0 \in Slots /\ orig.reg["SP"] = SlotAddr(p0)
       /\ e2.stackState = es.stackState /\ e2.flag_state = es.flag_state
       /\ m2 = Exec(orig, i) /\ m2.reg["SP"] = SlotAddr(p0) + 1 /\ m2.mem = orig.mem /\ m2.vec = orig.vec
       /\ m2.flag = orig.flag
       /\ sk2 = skew + Missing(i, out) /\ sk2 = skew - KnownIn(es, p0)
       /\ (KnownIn(es, p0) = 1 => skew > 0)
       /\ k = ExecAll(new, out) /\ k \in Machine /\ k.mem = new.mem /\ k.vec = new.vec /\ k.flag = new.flag
       /\ RegsComputed(e2, m2, k, sk2)
  BY <1>1, <1>3, <1>9, <1>10, <1>12, <1>15, <1>19, <1>20
<1>22. Computes(i, Done(e2, out)) BY ONLY <1>21, PopDone
<1> QED BY <1>11, <1>22

\* What captured code has to agree on with the function when it returns.
Returned(e, m, k) ==
  /\ (~hasReturnFP /\ e.reg_state["A"] # "DEAD") => k.reg["A"] = m.reg["A"]
  /\ k.vec = m.vec
  /\ k.reg["SP"] = m.reg["SP"]
  /\ e.reg_state["BP"] = "DYNAMIC" => k.reg["BP"] = m.reg["BP"]

\* Returning from the function: a known result is loaded (captureRet).
LEMMA RetReturns ==
  ASSUME NEW i, Ready(i), i.type = "RET", Depth(es) = 0, NEW r, r = emulateRet(es)
  PROVE  /\ Exec(orig, i) \in Machine /\ ExecAll(new, r.out) \in Machine
         /\ Returned(r.es, Exec(orig, i), ExecAll(new, r.out))
<1> DEFINE q1 == [q \in Regs |-> IF q \in CallerSaved THEN "DEAD" ELSE es.reg_state[q]]
           e1 == [es EXCEPT !.reg_state = q1]
           s  == Simple("RET")
           b  == ~hasReturnFP /\ csIsStatic(e1.reg_state["A"])
           l  == LoadImm(RegOp("A"), RegValue(e1, "A"))
           n  == IF b THEN Exec(new, l) ELSE new
           k  == Exec(n, s)
           m2 == Exec(orig, i)
<1>1. /\ es \in EmuState /\ orig \in Machine /\ RegsAgree(es, orig) /\ Captured /\ new \in Machine
  BY ExecutableFacts DEF Ready, Executable, Captured
<1>2. {"A", "SP", "BP"} \subseteq Regs \ CallerSaved BY MachineAssumption
<1>3. r.es = e1 /\ r.out = (IF b THEN << l >> ELSE <<>>) \o << s >>
  BY DEF emulateRet, captureRet, Done
<1>4. \A q \in {"A", "SP", "BP"} : e1.reg_state[q] = es.reg_state[q] /\ e1.reg[q] = es.reg[q]
  <2>1. e1.reg_state = q1 /\ e1.reg = es.reg BY <1>1 DEF EmuState
  <2> HIDE DEF e1
  <2> QED BY <1>2, <2>1
<1>5. s.type = "RET" BY DEF Simple, Ternary
<1> HIDE DEF e1, s, l
<1>6. ExecAll(new, r.out) = k
  <2>1. CASE b
    <3>1. << l >> \o << s >> = << l, s >> BY Joined
    <3>2. ExecAll(new, << l, s >>) = Exec(Exec(new, l), s) BY ExecTwo
    <3> QED BY <1>3, <2>1, <3>1, <3>2
  <2>2. CASE ~b
    <3>1. <<>> \o << s >> = << s >> BY Joined
    <3>2. ExecAll(new, << s >>) = Exec(new, s) BY ExecAllOf
    <3> QED BY <1>3, <2>2, <3>1, <3>2
  <2> QED BY <2>1, <2>2
<1>7. /\ n \in Machine /\ n.vec = new.vec /\ \A q \in Regs : q # "A" => n.reg[q] = new.reg[q]
      /\ ~hasReturnFP /\ e1.reg_state["A"] # "DEAD" => n.reg["A"] = orig.reg["A"]
  <2>1. CASE b
    <3>1. csIsStatic(es.reg_state["A"]) BY <1>4, <2>1
    <3>2. RegValue(e1, "A").val = orig.reg["A"] /\ orig.reg["A"] \in Word
      BY <1>1, <1>2, <1>4, <3>1, MachineFields DEF RegValue, EmuValue, RegsAgree, MeansValue
    <3>3. n = [new EXCEPT !.reg["A"] = orig.reg["A"]]
      <4>1. Exec(new, l) = Write(new, RegOp("A"), RegValue(e1, "A").val) BY MoveExec DEF l
      <4> QED BY <2>1, <3>2, <4>1 DEF Write, RegOp
    <3>4. new \in Machine /\ "A" \in Regs /\ orig.reg["A"] \in Word BY <1>1, <1>2, <3>2
    <3> HIDE DEF n
    <3>5. RegWrites(n, new, "A", orig.reg["A"]) BY <3>3, <3>4, RegWriteFields
    <3> QED BY <3>5 DEF RegWrites, RegDiffers
  <2>2. CASE ~b
    <3>1. n = new BY <2>2
    <3>2. ASSUME ~hasReturnFP, e1.reg_state["A"] # "DEAD" PROVE new.reg["A"] = orig.reg["A"]
      <4>1. es.reg_state["A"] # "DEAD" /\ ~csIsStatic(es.reg_state["A"]) BY <1>4, <2>2, <3>2
      <4>2. es.reg_state["A"] \in CaptureState BY <1>1, <1>2, EmuFields
      <4>3. Unknown(es.reg_state["A"]) BY <4>1, <4>2, UnknownStates
      <4>4. "A" \in Regs \ {"SP"} BY <1>2
      <4> QED BY <1>1, <4>3, <4>4 DEF Captured, Computed, RegsComputed
    <3> QED BY <1>1, <3>1, <3>2
  <2> QED BY <2>1, <2>2
<1>8. skew = 0
  <2>1. StackLimit(i) BY DEF Ready, Executable, WithinLimits
  <2> QED BY <2>1 DEF StackLimit
<1>9. new.reg["SP"] = orig.reg["SP"]
  <2>1. Unknown(es.reg_state["SP"]) BY DEF Ready, Executable, Accesses, Unknown
  <2>2. new.reg["SP"] = Mask(orig.reg["SP"] + 0) BY <1>1, <1>8, <2>1 DEF Captured, Computed, RegsComputed
  <2>3. orig.reg["SP"] \in Word BY <1>1, <1>2, MachineFields
  <2>4. orig.reg["SP"] + 0 = orig.reg["SP"] BY <2>3, WordFacts
  <2> QED BY <2>2, <2>3, <2>4, MaskFacts
<1> HIDE DEF n, k, m2, b
<1>10. /\ m2 \in Machine /\ m2.reg["SP"] = Mask(orig.reg["SP"] + 1)
       /\ \A q \in Regs : q # "SP" => m2.reg[q] = orig.reg[q]
       /\ m2.vec = orig.vec
  BY <1>1, ReturnExec DEF m2
<1>11. /\ k \in Machine /\ k.reg["SP"] = Mask(n.reg["SP"] + 1)
       /\ \A q \in Regs : q # "SP" => k.reg[q] = n.reg[q]
       /\ k.vec = n.vec
  BY <1>5, <1>7, ReturnExec DEF k
<1>12. k.reg["SP"] = m2.reg["SP"] BY <1>2, <1>7, <1>9, <1>10, <1>11
<1>13. k.vec = m2.vec BY <1>1, <1>7, <1>10, <1>11 DEF Captured, Computed, OthersComputed
<1>14. ~hasReturnFP /\ r.es.reg_state["A"] # "DEAD" => k.reg["A"] = m2.reg["A"]
  BY <1>2, <1>3, <1>7, <1>10, <1>11
<1>15. ASSUME r.es.reg_state["BP"] = "DYNAMIC" PROVE k.reg["BP"] = m2.reg["BP"]
  <2>1. Unknown(es.reg_state["BP"]) /\ "BP" \in Regs \ {"SP"} BY <1>2, <1>3, <1>4, <1>15 DEF Unknown
  <2>2. new.reg["BP"] = orig.reg["BP"] BY <1>1, <2>1 DEF Captured, Computed, RegsComputed
  <2> QED BY <1>2, <1>7, <1>10, <1>11, <2>2
<1>16. Returned(r.es, m2, k) BY <1>12, <1>13, <1>14, <1>15 DEF Returned
<1> QED BY <1>6, <1>10, <1>11, <1>16 DEF m2

\* Setting the stack pointer to the frame pointer, and popping that.
LEMMA LeaveExec ==
  ASSUME NEW m, m \in Machine, NEW k, k = PopWord([m EXCEPT !.reg["SP"] = m.reg["BP"]], "BP")
  PROVE  /\ k \in Machine /\ k.reg["SP"] = Mask(m.reg["BP"] + 1) /\ k.reg["BP"] = m.mem[m.reg["BP"]]
         /\ \A q \in Regs : q \notin {"SP", "BP"} => k.reg[q] = m.reg[q]
         /\ k.mem = m.mem /\ k.vec = m.vec /\ k.flag = m.flag
<1> DEFINE x == m.reg["BP"]
           n == [m EXCEPT !.reg["SP"] = x]
<1>1. "SP" \in Regs /\ "BP" \in Regs /\ "BP" # "SP" /\ x \in Word BY MachineAssumption, MachineFields
<1>2. x = m.reg["BP"] OBVIOUS
<1> HIDE DEF x
<1>3. RegWrites(n, m, "SP", x) BY <1>1, RegWriteFields
<1> HIDE DEF n
<1>4. k = PopWord(n, "BP") BY <1>2 DEF n
<1>5. /\ n \in Machine /\ n.flag = m.flag /\ n.vec = m.vec /\ n.mem = m.mem /\ n.reg["SP"] = x
      /\ \A q \in Regs : q # "SP" => n.reg[q] = m.reg[q]
  BY <1>3 DEF RegWrites, RegDiffers
<1>6. /\ k \in Machine /\ k.reg["SP"] = Mask(n.reg["SP"] + 1) /\ k.reg["BP"] = n.mem[n.reg["SP"]]
      /\ \A q \in Regs : q \notin {"SP", "BP"} => k.reg[q] = n.reg[q]
      /\ k.mem = n.mem /\ k.vec = n.vec /\ k.flag = n.flag
  BY <1>1, <1>4, <1>5, PopWordFields
<1> QED BY <1>2, <1>5, <1>6

\* LEAVE, in the emulator: a move and a pop.
LEMMA LeaveOutcome ==
  ASSUME es \in EmuState, NEW b, b = RegValue(es, "BP"), b.state = "STACKRELATIVE",
         NEW r, r = emulateLeave(es), r.err = "none",
         OnStack(b) => ~csIsStatic(getStackState(es, b))
  PROVE  /\ OnStack(b)
         /\ r.out = << Applied(es, Binary("MOV", RegOp("SP"), RegOp("BP"))), Unary("POP", RegOp("BP")) >>
         /\ r.es.stackState = es.stackState /\ r.es.flag_state = es.flag_state
         /\ r.es.reg_state["SP"] = "STACKRELATIVE" /\ r.es.reg_state["BP"] = getStackState(es, b)
         /\ \A q \in Regs : q \notin {"SP", "BP"} => r.es.reg_state[q] = es.reg_state[q]
<1> DEFINE j   == Binary("MOV", RegOp("SP"), RegOp("BP"))
           p   == Unary("POP", RegOp("BP"))
           mov == emulateMov(es, j)
           e1  == setReg(es, "SP", b)
           a   == RegValue(e1, "SP")
           v   == getMemValue(e1, a)
           n   == setReg(e1, "BP", v)
           e2  == [n EXCEPT !.reg["SP"] = Mask(@ + 1)]
           po  == IF IsStatic(v) THEN <<>> ELSE << p >>
           pop == emulatePop(e1, p)
<1>1. "SP" \in Regs /\ "BP" \in Regs BY MachineAssumption
<1>2. mov.es = e1 /\ mov.out = << Applied(es, j) >>
  <2>1. /\ j.dst.kind = "Reg" /\ j.dst.reg = "SP" /\ j.src.kind = "Reg" /\ j.src.reg = "BP"
    BY DEF Binary, Ternary, RegOp, NoOp
  <2> HIDE DEF j
  <2>2. getOpValue(es, j.src) = b BY <2>1 DEF getOpValue
  <2>3. mov = Done(e1, captureMov(es, j, b)) BY <2>1, <2>2 DEF emulateMov, Assign
  <2>4. captureMov(es, j, b) = << Applied(es, j) >> BY DEF captureMov, IsStatic, csIsStatic
  <2> QED BY <2>3, <2>4 DEF Done
<1>3. /\ e1.stackState = es.stackState /\ e1.flag_state = es.flag_state /\ e1.stackAccessed = es.stackAccessed
      /\ e1.reg["SP"] = b.val /\ e1.reg_state["SP"] = b.state
      /\ \A q \in Regs : q # "SP" => e1.reg_state[q] = es.reg_state[q]
      /\ e1 \in EmuState
  <2>1. b.val \in Word /\ b.state \in CaptureState BY <1>1, EmuFields DEF RegValue, EmuValue
  <2>2. /\ e1 \in EmuState /\ e1.reg = [es.reg EXCEPT !["SP"] = b.val]
        /\ e1.reg_state = [es.reg_state EXCEPT !["SP"] = b.state]
        /\ e1.flag_state = es.flag_state /\ e1.stackState = es.stackState
        /\ e1.stackAccessed = es.stackAccessed
    BY <1>1, <2>1, SetRegFields
  <2> HIDE DEF e1
  <2>3. es.reg \in [Regs -> Word] /\ es.reg_state \in [Regs -> CaptureState] BY DEF EmuState
  <2> QED BY <1>1, <2>2, <2>3
<1>4. a = b BY <1>3 DEF RegValue, EmuValue
<1>5. getStackState(e1, b) = getStackState(es, b) BY <1>3 DEF getStackState
<1>6. OnStack(b) => v.state = getStackState(es, b) BY <1>4, <1>5 DEF getMemValue, EmuValue
<1>7. pop = IF OnStack(a) THEN Done(e2, po) ELSE Abort(e1)
  <2>1. p.dst.reg = "BP" BY DEF Unary, Ternary, RegOp, NoOp
  <2> HIDE DEF p, e1
  <2> QED BY <2>1 DEF emulatePop
<1>8. r = IF pop.err = "none" THEN Done(pop.es, mov.out \o pop.out) ELSE pop
  BY <1>2 DEF emulateLeave
<1>9. /\ e2.stackState = n.stackState /\ e2.flag_state = n.flag_state /\ e2.reg_state = n.reg_state
      /\ n.stackState = e1.stackState /\ n.flag_state = e1.flag_state
      /\ n.reg_state["BP"] = v.state
      /\ \A q \in Regs : q # "BP" => n.reg_state[q] = e1.reg_state[q]
  <2>1. /\ n.stackState = e1.stackState /\ n.flag_state = e1.flag_state
        /\ n.reg_state = [e1.reg_state EXCEPT !["BP"] = v.state]
    <3> HIDE DEF v, e1
    <3> QED BY <1>3 DEF setReg, EmuState
  <2>2. /\ e2.stackState = n.stackState /\ e2.flag_state = n.flag_state /\ e2.reg_state = n.reg_state
    <3> HIDE DEF v, e1
    <3> QED BY <1>3 DEF setReg, EmuState
  <2>3. e1.reg_state \in [Regs -> CaptureState] BY <1>3 DEF EmuState
  <2> HIDE DEF n, e2, v, e1
  <2> QED BY <1>1, <2>1, <2>2, <2>3
<1>10. po = IF IsStatic(v) THEN <<>> ELSE << p >> OBVIOUS
<1>11. "SP" # "BP" OBVIOUS
<1> HIDE DEF mov, e1, a, v, n, e2, po, pop, j, p
<1>12. OnStack(b) /\ pop = Done(e2, po) BY <1>4, <1>7, <1>8 DEF Abort, Done
<1>13. po = << p >> BY <1>6, <1>10, <1>12 DEF IsStatic
<1>14. r.es = e2 /\ r.out = << Applied(es, j) >> \o << p >> BY <1>2, <1>8, <1>12, <1>13 DEF Done
<1>15. r.out = << Applied(es, j), p >> BY <1>14, Joined
<1> QED BY <1>1, <1>3, <1>6, <1>9, <1>11, <1>12, <1>14, <1>15 DEF j, p

\* A POP is the popping of a word.
LEMMA PopExec ==
  ASSUME NEW m, NEW i, i.type = "POP"
  PROVE  Exec(m, i) = PopWord(m, i.dst.reg)
  BY ExecOf

\* LEAVE: not when known values have been pushed, or for a known frame pointer.
LEMMA LeaveComputes ==
  ASSUME NEW i, Ready(i), i.type = "LEAVE"
  PROVE  Computes(i, emulateLeave(es))
<1> DEFINE r   == emulateLeave(es)
           b   == RegValue(es, "BP")
           j   == Applied(es, Binary("MOV", RegOp("SP"), RegOp("BP")))
           p   == Unary("POP", RegOp("BP"))
           p0  == Offset(b)
           m2  == Exec(orig, i)
           k2  == ExecAll(new, r.out)
           sk2 == skew + Missing(i, r.out)
           e2  == r.es
<1>1. /\ Proper(es) /\ es \in EmuState /\ orig \in Machine /\ Agrees(es, orig)
      /\ Captured /\ new \in Machine
  BY ExecutableFacts DEF Ready, Executable, Captured
<1>2. "SP" \in Regs /\ "BP" \in Regs /\ "SP" # "BP" BY MachineAssumption
<1>3. b.state = "STACKRELATIVE" /\ es.reg_state["BP"] = "STACKRELATIVE" /\ Unknown(es.reg_state["BP"])
  <2>1. es.reg_state["BP"] = "STACKRELATIVE" BY DEF Ready, Executable, Accesses
  <2> QED BY <2>1 DEF RegValue, EmuValue, Unknown
<1>4. StackLimit(i) BY DEF Ready, Executable, WithinLimits
<1>5. skew = 0 BY <1>4 DEF StackLimit
<1>6. StoresTo(i) = {}
  <2>1. i.dst.kind = "None" /\ i.src.kind = "None" /\ i.src2 = NoOp
    BY CMovNames DEF Ready, Executable, WellFormed, BinaryOps, CMovTypes
  <2>2. NoOp.kind = "None" BY DEF NoOp
  <2> QED BY <2>1, <2>2 DEF StoresTo, MemOps, Operands
<1> SUFFICES ASSUME r.err = "none" PROVE Computes(i, r) BY DEF Computes
<1>7. r = emulateLeave(es) /\ b = RegValue(es, "BP") /\ p0 = Offset(b) /\ m2 = Exec(orig, i)
      /\ k2 = ExecAll(new, r.out) /\ sk2 = skew + Missing(i, r.out) /\ e2 = r.es
  OBVIOUS
<1>8. OnStack(b) => ~csIsStatic(getStackState(es, b))
  <2>1. OnStack(b) /\ csIsStatic(getStackState(es, b)) => skew > 0 BY <1>4 DEF StackLimit
  <2> QED BY <1>5, <2>1
<1> HIDE DEF r, b, p0, m2, k2, sk2, e2
<1>9. /\ OnStack(b) /\ r.out = << j, p >>
      /\ e2.stackState = es.stackState /\ e2.flag_state = es.flag_state
      /\ e2.reg_state["SP"] = "STACKRELATIVE" /\ e2.reg_state["BP"] = getStackState(es, b)
      /\ \A q \in Regs : q \notin {"SP", "BP"} => e2.reg_state[q] = es.reg_state[q]
  BY <1>1, <1>3, <1>7, <1>8, LeaveOutcome
<1>10. /\ p0 \in Slots /\ orig.reg["BP"] = SlotAddr(p0) /\ getStackState(es, b) = es.stackState[p0]
  BY <1>1, <1>2, <1>3, <1>7, <1>9, TopOf
<1>11. at[p0] = 0
  <2>1. OnStack(RegValue(es, "BP")) => at[Offset(RegValue(es, "BP"))] = 0 BY <1>4 DEF StackLimit
  <2> QED BY <1>7, <1>9, <2>1
<1>12. /\ m2 \in Machine /\ m2.reg["SP"] = Mask(orig.reg["BP"] + 1) /\ m2.reg["BP"] = orig.mem[orig.reg["BP"]]
       /\ \A q \in Regs : q \notin {"SP", "BP"} => m2.reg[q] = orig.reg[q]
       /\ m2.mem = orig.mem /\ m2.vec = orig.vec /\ m2.flag = orig.flag
  <2>1. m2 = PopWord([orig EXCEPT !.reg["SP"] = orig.reg["BP"]], "BP") BY <1>7, ExecOf
  <2> QED BY <1>1, <2>1, LeaveExec
<1>13. /\ k2 \in Machine /\ k2.reg["SP"] = Mask(new.reg["BP"] + 1) /\ k2.reg["BP"] = new.mem[new.reg["BP"]]
       /\ \A q \in Regs : q \notin {"SP", "BP"} => k2.reg[q] = new.reg[q]
       /\ k2.mem = new.mem /\ k2.vec = new.vec /\ k2.flag = new.flag
  <2>1. applyStaticToInd(es, RegOp("SP")) = RegOp("SP") /\ applyStaticToInd(es, RegOp("BP")) = RegOp("BP")
    <3>1. RegOp("SP") \in Operand /\ RegOp("BP") \in Operand BY <1>2 DEF Operand
    <3>2. RegOp("SP").kind = "Reg" /\ RegOp("BP").kind = "Reg" BY DEF RegOp, NoOp
    <3>3. "Reg" # "Ind" OBVIOUS
    <3> QED BY <1>1, <3>1, <3>2, <3>3, AppliedOperand
  <2>2. Exec(new, j) = Write(new, RegOp("SP"), Value(new, RegOp("BP"))) BY <2>1, MoveExec
  <2>3. Exec(new, j) = [new EXCEPT !.reg["SP"] = new.reg["BP"]] BY <2>2 DEF Write, Value, RegOp, NoOp
  <2>4. p.type = "POP" /\ p.dst.reg = "BP" BY DEF Unary, Ternary, RegOp, NoOp
  <2> HIDE DEF j, p
  <2>5. k2 = Exec(Exec(new, j), p) BY <1>7, <1>9, ExecTwo
  <2> DEFINE n == Exec(new, j)
  <2> HIDE DEF n
  <2>6. k2 = PopWord(n, "BP")
    <3>1. Exec(n, p) = PopWord(n, p.dst.reg) BY <2>4, PopExec
    <3> QED BY <2>4, <2>5, <3>1 DEF n
  <2>7. k2 = PopWord([new EXCEPT !.reg["SP"] = new.reg["BP"]], "BP") BY <2>3, <2>6 DEF n
  <2> QED BY <1>1, <2>7, LeaveExec
<1>14. \A q \in Regs \ {"SP"} : Unknown(es.reg_state[q]) => new.reg[q] = orig.reg[q]
  BY <1>1 DEF Captured, Computed, RegsComputed
<1>15. new.reg["BP"] = orig.reg["BP"] BY <1>2, <1>3, <1>14
<1>16. Unknown(es.stackState[p0]) => new.mem[SlotAddr(p0)] = orig.mem[SlotAddr(p0)]
  <2>1. StackComputed(es, orig, new, at) BY <1>1 DEF Captured, Computed
  <2>2. Gone \in {4, 16, 256} BY WordFacts DEF Gone
  <2>3. at[p0] # Gone BY <1>11, <2>2
  <2>4. PlaceOf(at, p0) = SlotAddr(p0) BY <1>10, <1>11, SlotPlaces DEF PlaceOf
  <2> QED BY <1>10, <2>1, <2>3, <2>4 DEF StackComputed
<1>17. RegsComputed(e2, m2, k2, skew)
  <2>1. k2.reg["SP"] = Mask(m2.reg["SP"] + skew)
    <3>1. m2.reg["SP"] \in Word BY <1>2, <1>12, MachineFields
    <3>2. m2.reg["SP"] + skew = m2.reg["SP"] BY <1>5, <3>1, WordFacts
    <3> QED BY <1>12, <1>13, <1>15, <3>1, <3>2, MaskFacts
  <2>2. Unknown(e2.reg_state["BP"]) => k2.reg["BP"] = m2.reg["BP"]
    BY <1>9, <1>10, <1>12, <1>13, <1>15, <1>16
  <2>3. \A q \in Regs \ {"SP", "BP"} : Unknown(e2.reg_state[q]) => k2.reg[q] = m2.reg[q]
    BY <1>9, <1>12, <1>13, <1>14
  <2> QED BY <2>1, <2>2, <2>3 DEF RegsComputed
<1>18. InPlace(es, m2, at)
  <2>1. \A o \in Slots : Live(o) /\ Unknown(es.stackState[o]) /\ SlotAddr(o) >= m2.reg["SP"] => at[o] = 0
    BY <1>4, <1>7 DEF StackLimit
  <2>2. \A o \in Slots : Unknown(es.stackState[o]) => Live(o)
    <3>1. es.stackAccessed \in Int BY <1>1, EmuFields
    <3>2. \A o \in Slots : o \in Int BY SlotPlaces
    <3>3. \A o \in Slots : o < es.stackAccessed => es.stackState[o] = "DEAD" BY <1>1 DEF Proper, Kept
    <3> QED BY <3>1, <3>2, <3>3 DEF Unknown, Live
  <2> QED BY <2>1, <2>2 DEF InPlace
<1>19. OthersComputed(m2, k2) BY <1>1, <1>12, <1>13 DEF Captured, Computed, OthersComputed
<1>20. sk2 = skew
  <2>1. p.type = "POP" BY DEF Unary, Ternary
  <2> HIDE DEF j, p
  <2>2. << j, p >> # <<>> /\ Last(<< j, p >>) = p BY LastOf
  <2>3. Missing(i, r.out) = 0 BY <1>9, <2>1, <2>2 DEF Missing
  <2> QED BY <1>5, <1>7, <2>3
<1>21. Computed(e2, m2, k2, skew, NextAt(i, e2, m2, k2)) /\ InOrder(e2, m2, skew, NextAt(i, e2, m2, k2))
  <2>1. Stored(i) = {} BY <1>6 DEF Stored
  <2>2. /\ Captured /\ orig \in Machine /\ i.type \notin {"PUSH", "CALL"} /\ m2 \in Machine /\ k2 \in Machine
        /\ RegsComputed(e2, m2, k2, skew) /\ OthersComputed(m2, k2)
        /\ \A o \in Slots : SlotAddr(o) \notin Stored(i) =>
             e2.stackState[o] = es.stackState[o] /\ m2.mem[SlotAddr(o)] = orig.mem[SlotAddr(o)]
        /\ \A o \in Slots : SlotAddr(o) \in Stored(i) =>
             skew = 0 /\ (Unknown(e2.stackState[o]) => k2.mem[SlotAddr(o)] = m2.mem[SlotAddr(o)])
        /\ \A o \in Slots : k2.mem[SlotAddr(o)] # new.mem[SlotAddr(o)] =>
             skew = 0 /\ (SlotAddr(o) \in Stored(i) \/ ~Unknown(e2.stackState[o]))
        /\ (m2.reg["SP"] = orig.reg["SP"] \/ (skew = 0 /\ InPlace(es, m2, at)))
    BY <1>1, <1>5, <1>9, <1>12, <1>13, <1>17, <1>18, <1>19, <2>1
  <2> QED BY ONLY <2>2, EffectComputed
<1>22. LostBy(i, e2, r.out) = lost BY LostOf
<1>23. FlagsCaptured(e2, m2, k2, LostBy(i, e2, r.out)) BY <1>1, <1>9, <1>12, <1>13, <1>22, FlagsLeft
<1> QED BY <1>7, <1>13, <1>20, <1>21, <1>23 DEF Computes

----------------------------------------------------------------------------
(***************************************************************************)
(* The steps, with captured code.                                          *)
(***************************************************************************)
\* Every instruction but calls and returns, and products of three operands.
LEMMA InstructionComputes ==
  ASSUME NEW i, Ready(i), i.type \notin {"CALL", "RET"}, i.type = "IMUL" => i.src2 = NoOp,
         i.type \in DOMAIN CMovFlag => FlagsDefined({CMovFlag[i.type]}),
         NEW force, force => TRUE \in ForceUnknown(es)
  PROVE  Computes(i, processInstr(es, i, force))
<1>1. /\ i.type \in BinaryOps \cup {"CMP", "TEST", "INC", "DEC", "NEG", "MOV", "LEA", "IDIV", "CQTO",
                                    "PUSH", "POP", "LEAVE", "VLOAD", "VADD", "VSTORE", "VGET"}
                    \cup CMovTypes
      /\ i.type \in BinaryOps => i.src2 = NoOp
  <2>1. \/ i.type \in BinaryOps \cup {"MOV", "CMP", "TEST"} /\ i.src2 = NoOp
        \/ i.type = "IMUL" \/ i.type = "LEA" \/ i.type \in CMovTypes
        \/ i.type \in {"INC", "DEC", "NEG", "IDIV"}
        \/ i.type = "PUSH" \/ i.type \in {"POP", "VGET"}
        \/ i.type \in {"CQTO", "LEAVE", "RET"} \/ i.type = "CALL"
        \/ i.type \in {"VLOAD", "VADD"} \/ i.type = "VSTORE"
    BY CMovNames, Zenon DEF Ready, Executable, WellFormed
  <2> QED BY <2>1 DEF BinaryOps, CMovTypes
<1>2. CASE i.type \in BinaryOps BY <1>1, <1>2, EmulationOf, BinaryComputes
<1>3. CASE i.type = "CMP" BY <1>3, EmulationOf, CmpComputes
<1>4. CASE i.type = "TEST" BY <1>4, EmulationOf, TestComputes
<1>5. CASE i.type \in {"INC", "DEC", "NEG"}
  <2>1. Computes(i, emulateUnary(es, i, force)) BY <1>5, UnaryComputes, Zenon
  <2> QED BY <1>5, <2>1, EmulationOf
<1>6. CASE i.type = "MOV" BY <1>6, EmulationOf, MovComputes
<1>7. CASE i.type = "LEA" BY <1>7, EmulationOf, LeaComputes
<1>8. CASE i.type \in CMovTypes BY <1>8, CMovNames, EmulationOf, CMovComputes
<1>9. CASE i.type = "IDIV" BY <1>9, EmulationOf, IDivComputes
<1>10. CASE i.type = "CQTO" BY <1>10, EmulationOf, CqtoComputes
<1>11. CASE i.type = "PUSH" BY <1>11, EmulationOf, PushComputes
<1>12. CASE i.type = "POP" BY <1>12, EmulationOf, PopComputes
<1>13. CASE i.type = "LEAVE" BY <1>13, EmulationOf, LeaveComputes
<1>14. CASE i.type \in {"VLOAD", "VADD"} BY <1>14, EmulationOf, VectorReadComputes
<1>15. CASE i.type = "VSTORE" BY <1>15, EmulationOf, VectorStoreComputes
<1>16. CASE i.type = "VGET" BY <1>16, EmulationOf, VectorGetComputes
<1> QED BY <1>1, <1>2, <1>3, <1>4, <1>5, <1>6, <1>7, <1>8, <1>9, <1>10, <1>11, <1>12, <1>13, <1>14, <1>15, <1>16

\* Flags that are lost are flags.
LEMMA LostType ==
  ASSUME lost \subseteq FlagType, NEW i, NEW e, NEW out
  PROVE  LostBy(i, e, out) \subseteq FlagType
<1> DEFINE known   == { f \in FlagType : e.flag_state[f] = "STATIC" }
           emitted == out # <<>> /\ Last(out).type = i.type
           a == IF emitted THEN {} ELSE FlagType \ known
           b == IF i.type = "ADD" THEN known \cap {"Carry", "Overflow"} ELSE {}
           c == IF i.type = "TEST" /\ \E o \in Reads(i) : opStateIsTracked(es, o) /\ IsStatic(getOpValue(es, o))
                THEN FlagType \ known ELSE {}
<1>1. known \subseteq FlagType OBVIOUS
<1>2. a \subseteq FlagType /\ b \subseteq FlagType /\ c \subseteq FlagType
  <2> HIDE DEF known, emitted
  <2> QED BY <1>1
<1>3. LostBy(i, e, out) = CASE i.type \in {"NEG", "SHL", "SHR", "SAR", "IMUL", "IDIV"} -> lost \cup FlagType
       [] i.type \in {"INC", "DEC"} -> lost \cup (FlagType \ {"Carry"})
       [] i.type \in {"ADD", "SUB", "AND", "OR", "XOR", "CMP", "TEST"} -> a \cup b \cup c
       [] OTHER -> lost
  BY DEF LostBy
<1> HIDE DEF a, b, c
<1> DEFINE t1 == i.type \in {"NEG", "SHL", "SHR", "SAR", "IMUL", "IDIV"}
           t2 == i.type \in {"INC", "DEC"}
           t3 == i.type \in {"ADD", "SUB", "AND", "OR", "XOR", "CMP", "TEST"}
<1>4. CASE t1 BY <1>3, <1>4
<1>5. CASE t2 BY <1>3, <1>5
<1>6. CASE t3 BY <1>2, <1>3, <1>6
<1>7. CASE ~t1 /\ ~t2 /\ ~t3 BY <1>3, <1>7
<1> QED BY <1>4, <1>5, <1>6, <1>7

\* Before the function returns, captured code has computed what is not known; when it
\* has returned, the code captured returns the same.
ComputedInv ==
  /\ KnownInv
  /\ new \in Machine /\ at \in [Slots -> Int] /\ lost \subseteq FlagType /\ skew \in Int
  /\ status \in {"running", "returned", "failed"}
  /\ steps \in 0 .. Functions[kind].steps
  /\ status = "running" => Captured
  /\ status = "returned" => Returned(es, orig, new)

\* What has to be shown of an instruction with outcome r.
Preserves(i, r) ==
  IF i.type = "RET" /\ Depth(es) = 0
  THEN /\ r.err = "none" /\ ExecAll(new, r.out) \in Machine
       /\ Returned(r.es, Exec(orig, i), ExecAll(new, r.out))
  ELSE Computes(i, r)

\* A step with an instruction that preserves what is computed keeps the invariant.
LEMMA ExecuteComputes ==
  ASSUME ComputedInv, KnownInv', NEW i, NEW r, Preserves(i, r), Execute(i, r),
         status = "running", steps < Functions[kind].steps
  PROVE  ComputedInv'
<1> DEFINE m2 == Exec(orig, i)
           k2 == ExecAll(new, r.out)
           a2 == NextAt(i, r.es, m2, k2)
           sk == skew + Missing(i, r.out)
           L2 == LostBy(i, r.es, r.out)
           b  == i.type = "RET" /\ Depth(es) = 0
<1>1. /\ kind \in DOMAIN Functions /\ new \in Machine /\ at \in [Slots -> Int] /\ lost \subseteq FlagType
      /\ skew \in Int /\ steps \in 0 .. Functions[kind].steps
  BY DEF ComputedInv, KnownInv
<1>2. /\ es' = r.es /\ kind' = kind /\ steps' = steps + 1
      /\ status' = CASE r.err # "none" -> "failed" [] b -> "returned" [] OTHER -> "running"
      /\ r.err # "none" => new' = new /\ lost' = lost /\ skew' = skew /\ at' = at
      /\ r.err = "none" => orig' = m2 /\ new' = k2 /\ lost' = L2 /\ skew' = sk
  BY DEF Execute
<1>3. r.err = "none" => at' = a2
  <2>1. ASSUME r.err = "none"
        PROVE  at' = [o \in Slots |->
                        IF \/ SlotAddr(o) \in { AddrOf(orig, p) : p \in StoresTo(i) }
                           \/ i.type \in {"PUSH", "CALL"} /\ SlotAddr(o) = orig'.reg["SP"]
                        THEN skew
                        ELSE IF Unknown(r.es.stackState[o]) /\ new'.mem[Place(o)] # new.mem[Place(o)]
                        THEN Gone ELSE at[o]]
    BY <2>1 DEF Execute
  <2> QED BY <1>2, <2>1 DEF NextAt, Stored
<1>4. steps' \in 0 .. Functions[kind'].steps
  <2>1. Functions[kind].steps \in Nat BY <1>1, SpecialiseAssumption
  <2> QED BY <1>1, <1>2, <2>1
<1>5. status' \in {"running", "returned", "failed"} BY <1>2
<1>6. L2 \subseteq FlagType BY <1>1, LostType
<1>7. sk \in Int
  <2>1. Missing(i, r.out) \in {1, -1, 0} BY DEF Missing
  <2> QED BY <1>1, <2>1
<1>8. a2 \in [Slots -> Int]
  <2>1. Gone \in Int BY WordFacts DEF Gone
  <2> HIDE DEF m2, k2
  <2> QED BY <1>1, <2>1 DEF NextAt
<1>9. r.err = "none" => k2 \in Machine BY DEF Preserves, Computes
<1>10. r.err = "none" /\ ~b =>
         Computed(r.es, m2, k2, sk, a2) /\ InOrder(r.es, m2, sk, a2) /\ FlagsCaptured(r.es, m2, k2, L2)
  BY DEF Preserves, Computes
<1>0. b \in BOOLEAN OBVIOUS
<1>11. b => r.err = "none" /\ Returned(r.es, m2, k2) BY DEF Preserves
<1> HIDE DEF m2, k2, a2, sk, L2, b
<1>12. new' \in Machine /\ at' \in [Slots -> Int] /\ lost' \subseteq FlagType /\ skew' \in Int
  BY <1>1, <1>2, <1>3, <1>6, <1>7, <1>8, <1>9
<1>13. ASSUME status' = "running" PROVE Captured'
  <2>1. r.err = "none" /\ ~b BY <1>2, <1>13
  <2>2. /\ es' = r.es /\ orig' = m2 /\ new' = k2 /\ lost' = L2 /\ skew' = sk /\ at' = a2
    BY <1>2, <1>3, <2>1
  <2> QED BY <1>6, <1>8, <1>9, <1>10, <2>1, <2>2 DEF Captured
<1>14. ASSUME status' = "returned" PROVE Returned(es', orig', new')
  <2>1. r.err = "none"
    <3>1. CASE r.err # "none" BY <1>2, <1>11, <1>14, <3>1
    <3> QED BY <3>1
  <2>3. b
    <3>1. CASE ~b BY <1>2, <1>14, <2>1, <3>1
    <3> QED BY <3>1
  <2>2. es' = r.es /\ orig' = m2 /\ new' = k2 BY <1>2, <2>1
  <2> QED BY <1>11, <2>1, <2>2, <2>3
<1> QED BY <1>4, <1>5, <1>12, <1>13, <1>14 DEF ComputedInv

\* States that are as good as equal are known, or unknown, alike.
LEMMA EqualStates ==
  ASSUME NEW s1, NEW v1, NEW s2, NEW v2, NEW same, csIsEqual(s1, v1, s2, v2, same)
  PROVE  /\ csIsStatic(s1) <=> csIsStatic(s2)
         /\ Unknown(s1) <=> Unknown(s2)
         /\ s1 = "DEAD" <=> s2 = "DEAD"
         /\ s1 = "DYNAMIC" <=> s2 = "DYNAMIC"
BY DEF csIsEqual, csIsStatic, Unknown

\* A state that knows the same of everything that is not dead.
Alike(e, n) ==
  /\ \A r \in Regs : Unknown(n.reg_state[r]) => Unknown(e.reg_state[r])
  /\ \A f \in FlagType : /\ n.flag_state[f] = "DEAD" <=> e.flag_state[f] = "DEAD"
                         /\ n.flag_state[f] = "DYNAMIC" <=> e.flag_state[f] = "DYNAMIC"
  /\ \A o \in Slots : /\ Unknown(n.stackState[o]) => Unknown(e.stackState[o])
                      /\ csIsStatic(n.stackState[o]) <=> csIsStatic(e.stackState[o])

\* Going on with such a state.
LEMMA AlikeComputed ==
  ASSUME Captured, NEW n, Alike(es, n)
  PROVE  /\ Computed(n, orig, new, skew, at) /\ InOrder(n, orig, skew, at)
         /\ FlagsCaptured(n, orig, new, lost)
<1>1. /\ Computed(es, orig, new, skew, at) /\ InOrder(es, orig, skew, at)
      /\ FlagsCaptured(es, orig, new, lost)
  BY DEF Captured
<1>2. Computed(n, orig, new, skew, at)
  <2>1. "SP" \in Regs BY MachineAssumption
  <2> QED BY <1>1, <2>1 DEF Computed, RegsComputed, StackComputed, Alike
<1>3. FlagsCaptured(n, orig, new, lost)
  <2>1. UnknownFlags(n, lost) = UnknownFlags(es, lost) BY DEF UnknownFlags, Alike
  <2> QED BY <1>1, <2>1 DEF FlagsCaptured, Alike
<1>4. InOrder(n, orig, skew, at)
  <2>1. CASE skew = 0 /\ InPlace(es, orig, at) BY <2>1 DEF InOrder, InPlace, Alike
  <2>2. CASE skew \in Nat \ {0} /\ \E p, q \in Slots : orig.reg["SP"] = SlotAddr(p) /\ Frame(es, p, q, skew, at)
    <3>1. PICK p \in Slots, q \in Slots : orig.reg["SP"] = SlotAddr(p) /\ Frame(es, p, q, skew, at)
      BY <2>2
    <3>2. \A o \in Slots : /\ KnownIn(n, o) = KnownIn(es, o)
                           /\ Unknown(n.stackState[o]) => Unknown(es.stackState[o])
                           /\ p <= o /\ (o <= q \/ Unknown(n.stackState[o])) => at[o] = at[o]
      BY DEF Alike, KnownIn
    <3>3. Frame(n, p, q, skew, at) BY <3>1, <3>2, FrameSame
    <3> QED BY <2>2, <3>1, <3>3 DEF InOrder
  <2> QED BY <1>1, <2>1, <2>2 DEF InOrder
<1> QED BY <1>2, <1>3, <1>4

\* A saved state that is equal knows the same.
LEMMA EqualAlike ==
  ASSUME NEW e, NEW s, Proper(e), Proper(s), esIsEqual(e, s)
  PROVE  Alike(e, copyEmuState(e, s))
<1> DEFINE n == copyEmuState(e, s)
           eq(s1, v1, s2, v2) == csIsEqual(s1, v1, s2, v2, e.parent = s.parent)
<1>1. /\ \A r \in Regs : eq(e.reg_state[r], e.reg[r], s.reg_state[r], s.reg[r])
      /\ \A f \in FlagType : eq(e.flag_state[f], e.flag[f], s.flag_state[f], s.flag[f])
      /\ \A o \in Slots :
           IF o < s.stackAccessed THEN ~csIsStatic(e.stackState[o])
           ELSE eq(e.stackState[o], e.stack[o], s.stackState[o], s.stack[o])
  BY Zenon DEF esIsEqual
<1>2. n.reg_state = s.reg_state /\ n.flag_state = s.flag_state /\ n.stackState = s.stackState
  BY DEF copyEmuState, Proper, EmuState
<1> HIDE DEF n
<1>3. \A r \in Regs : Unknown(n.reg_state[r]) => Unknown(e.reg_state[r])
  BY <1>1, <1>2, EqualStates
<1>4. ASSUME NEW f \in FlagType
      PROVE  /\ n.flag_state[f] = "DEAD" <=> e.flag_state[f] = "DEAD"
             /\ n.flag_state[f] = "DYNAMIC" <=> e.flag_state[f] = "DYNAMIC"
  <2>1. eq(e.flag_state[f], e.flag[f], s.flag_state[f], s.flag[f]) BY <1>1
  <2> QED BY <1>2, <2>1, EqualStates
<1>5. ASSUME NEW o \in Slots
      PROVE  /\ Unknown(n.stackState[o]) => Unknown(e.stackState[o])
             /\ csIsStatic(n.stackState[o]) <=> csIsStatic(e.stackState[o])
  <2>1. CASE o < s.stackAccessed
    <3>1. n.stackState[o] = "DEAD" BY <1>2, <2>1 DEF Proper, Kept
    <3>2. ~csIsStatic(e.stackState[o]) BY <1>1, <2>1
    <3> QED BY <3>1, <3>2 DEF Unknown, csIsStatic
  <2>2. CASE ~(o < s.stackAccessed)
    <3>1. eq(e.stackState[o], e.stack[o], s.stackState[o], s.stack[o]) BY <1>1, <2>2
    <3> QED BY <1>2, <3>1, EqualStates
  <2> QED BY <2>1, <2>2
<1>6. Alike(e, n) BY <1>3, <1>4, <1>5 DEF Alike
<1> QED BY <1>6 DEF n

\* So does a copy of the state.
LEMMA CopyAlike ==
  ASSUME NEW e, Proper(e)
  PROVE  Alike(e, copyEmuState(e, cloneEmuState(e)))
<1> DEFINE st == [o \in Slots |-> IF o < e.stackAccessed THEN 0 ELSE e.stack[o]]
           ss == [o \in Slots |-> IF o < e.stackAccessed THEN "DEAD" ELSE e.stackState[o]]
           s  == [e EXCEPT !.parent = "Rewriter", !.stack = st, !.stackState = ss]
           n  == [s EXCEPT !.mem = e.mem]
<1>1. e \in EmuState BY DEF Proper
<1>2. s = cloneEmuState(e) BY DEF cloneEmuState
<1>3. n = copyEmuState(e, s) BY DEF copyEmuState
<1>4. \A o \in Slots : ss[o] = e.stackState[o] BY DEF Proper, Kept
<1> HIDE DEF st, ss
<1>5. s.reg_state = e.reg_state /\ s.flag_state = e.flag_state /\ s.stackState = ss /\ "mem" \in DOMAIN s
  BY <1>1 DEF EmuState
<1> HIDE DEF s
<1>6. n.reg_state = e.reg_state /\ n.flag_state = e.flag_state /\ n.stackState = ss BY <1>5
<1> HIDE DEF n
<1>7. Alike(e, n) BY <1>4, <1>6 DEF Alike
<1> QED BY <1>2, <1>3, <1>7

\* A jump on unknown data executes nothing; its state is as good as the current one.
LEMMA BranchComputes ==
  ASSUME ComputedInv, KnownInv', Branch
  PROVE  ComputedInv'
<1>1. /\ status = "running"
      /\ kind' = kind /\ orig' = orig /\ new' = new /\ status' = status /\ steps' = steps
      /\ lost' = lost /\ skew' = skew /\ at' = at
      /\ \/ \E s \in savedState : esIsEqual(es, s) /\ es' = copyEmuState(es, s)
         \/ es' = copyEmuState(es, cloneEmuState(es))
  BY DEF Branch
<1>2. /\ Proper(es) /\ (\A s \in savedState : Proper(s)) /\ Captured
  BY <1>1 DEF ComputedInv, KnownInv
<1>3. Alike(es, es')
  <2>1. CASE \E s \in savedState : esIsEqual(es, s) /\ es' = copyEmuState(es, s)
    BY <1>2, <2>1, EqualAlike
  <2>2. CASE es' = copyEmuState(es, cloneEmuState(es)) BY <1>2, <2>2, CopyAlike
  <2> QED BY <1>1, <2>1, <2>2
<1>4. /\ Computed(es', orig, new, skew, at) /\ InOrder(es', orig, skew, at)
      /\ FlagsCaptured(es', orig, new, lost)
  BY <1>2, <1>3, AlikeComputed
<1>5. Captured' BY <1>1, <1>2, <1>4 DEF Captured
<1>6. /\ new \in Machine /\ at \in [Slots -> Int] /\ lost \subseteq FlagType /\ skew \in Int
      /\ steps \in 0 .. Functions[kind].steps
  BY DEF ComputedInv
<1> QED BY <1>1, <1>5, <1>6 DEF ComputedInv

\* At the start both machines are the same.
LEMMA InitComputes == Init => ComputedInv
<1> SUFFICES ASSUME Init PROVE ComputedInv
  OBVIOUS
<1>0. PICK k \in DOMAIN Functions :
        \E par, di \in Functions[k].values, state \in Functions[k].states, x \in Others :
          /\ kind = k
          /\ state # "DYNAMIC" => di = par
          /\ es = withParameters(resetEmuState(StartMemory(0)),
                                 [r \in {"DI"} |-> par], [r \in {"DI"} |-> state])
          /\ orig = [ reg |-> StartRegs(di, x), flag |-> [f \in FlagType |-> FALSE],
                      mem |-> StartMemory(x), vec |-> x ]
          /\ new = orig
          /\ savedState = {}
          /\ status = "running"
          /\ steps = 0
          /\ lost = {} /\ skew = 0
          /\ at = [o \in Slots |-> 0]
  BY Zenon DEF Init
<1>1. /\ new = orig /\ status = "running" /\ steps = 0 /\ lost = {} /\ skew = 0
      /\ at = [o \in Slots |-> 0] /\ kind \in DOMAIN Functions
  BY <1>0, Zenon
<1>2. KnownInv BY InitKeeps
<1>3. orig \in Machine BY <1>2 DEF KnownInv
<1>4. Computed(es, orig, new, skew, at)
  <2>1. orig.reg["SP"] \in Word BY <1>3, MachineAssumption, MachineFields
  <2>2. orig.reg["SP"] + 0 = orig.reg["SP"] BY <2>1, WordFacts
  <2>3. Mask(orig.reg["SP"] + skew) = orig.reg["SP"] BY <1>1, <2>1, <2>2, MaskFacts
  <2>4. \A o \in Slots : PlaceOf(at, o) = SlotAddr(o) BY <1>1, SlotPlaces DEF PlaceOf
  <2> QED BY <1>1, <2>3, <2>4 DEF Computed, RegsComputed, StackComputed, OthersComputed
<1>5. InOrder(es, orig, skew, at) BY <1>1 DEF InOrder, InPlace
<1>6. FlagsCaptured(es, orig, new, lost) BY <1>1 DEF FlagsCaptured
<1>7. at \in [Slots -> Int] BY <1>1
<1>8. Captured BY <1>1, <1>3, <1>4, <1>5, <1>6, <1>7 DEF Captured
<1>9. steps \in 0 .. Functions[kind].steps BY <1>1, SpecialiseAssumption
<1> QED BY <1>1, <1>2, <1>3, <1>7, <1>8, <1>9 DEF ComputedInv

----------------------------------------------------------------------------
(***************************************************************************)
(* The theorems, about captured code                                       *)
(***************************************************************************)
\* Functions without a product of three operands, which is captured with two.
TwoOperands ==
  \A k \in DOMAIN Functions : \A i \in Functions[k].palette : i.type = "IMUL" => i.src2 = NoOp

\* Every step but one with a product of three operands keeps the invariant.
LEMMA NextComputes ==
  ASSUME TwoOperands
  PROVE  ComputedInv /\ [Next]_vars => ComputedInv'
<1> SUFFICES ASSUME ComputedInv, [Next]_vars PROVE ComputedInv'
  OBVIOUS
<1>1. KnownInv /\ kind \in DOMAIN Functions BY DEF ComputedInv, KnownInv
<1>2. KnownInv' BY <1>1, NextKeeps
<1>3. ASSUME NEW i \in Functions[kind].palette, Running(i)
      PROVE  /\ Ready(i) /\ status = "running" /\ steps < Functions[kind].steps /\ ReturnsProperly(i)
             /\ i.type = "IMUL" => i.src2 = NoOp
  <2>1. Executable(i) BY <1>1, <1>3, RunningExecutable
  <2>2. /\ status = "running" /\ steps < Functions[kind].steps /\ Defined(i) /\ ReturnsProperly(i)
    BY <1>3 DEF Running
  <2>3. Captured BY <2>2 DEF ComputedInv
  <2>4. Ready(i) BY <2>1, <2>2, <2>3 DEF Ready
  <2>5. i.type = "IMUL" => i.src2 = NoOp BY <1>1, <1>3 DEF TwoOperands
  <2> QED BY <2>2, <2>4, <2>5
<1>4. CASE Instruction
  <2>1. PICK i \in Functions[kind].palette, force \in ForceUnknown(es) :
          /\ i.type \notin {"CALL", "RET"}
          /\ Running(i)
          /\ i.type \in DOMAIN CMovFlag => FlagsDefined({CMovFlag[i.type]})
          /\ Execute(i, processInstr(es, i, force))
    BY <1>4, Zenon DEF Instruction
  <2>2. /\ Ready(i) /\ status = "running" /\ steps < Functions[kind].steps
        /\ i.type = "IMUL" => i.src2 = NoOp
    BY <1>3, <2>1
  <2>3. force => TRUE \in ForceUnknown(es)
    <3>0. (Depth(es) \in force_unknown) \in BOOLEAN OBVIOUS
    <3>1. ForceUnknown(es) \subseteq BOOLEAN BY <3>0, Zenon DEF ForceUnknown
    <3>2. force \in BOOLEAN /\ force \in ForceUnknown(es) BY <2>1, <3>1
    <3> QED BY <3>2
  <2>4. Computes(i, processInstr(es, i, force)) BY <2>1, <2>2, <2>3, InstructionComputes, Zenon
  <2>5. Preserves(i, processInstr(es, i, force)) BY <2>1, <2>4 DEF Preserves
  <2> QED BY <1>2, <2>1, <2>2, <2>5, ExecuteComputes
<1>5. CASE Call
  <2>1. PICK i \in Functions[kind].palette :
          /\ i.type = "CALL"
          /\ Running(i)
          /\ getOpValue(es, i.dst).val = MakeStatic => orig.reg["DI"] = es.reg["DI"]
          /\ Execute(i, LET call  == processInstr(es, i, FALSE)
                            known == processKnownTargets(call.es, getOpValue(es, i.dst).val)
                        IN IF call.err = "none" THEN Done(known.es, call.out \o known.out) ELSE call)
    BY <1>5, Zenon DEF Call
  <2>2. Ready(i) /\ status = "running" /\ steps < Functions[kind].steps BY <1>3, <2>1
  <2>3. processInstr(es, i, FALSE) = emulateCall(es, i) BY <2>1, EmulationOf
  <2>4. Execute(i, CallOutcome(i)) BY <2>1, <2>3, Zenon DEF CallOutcome
  <2>5. Computes(i, CallOutcome(i)) BY <2>1, <2>2, CallComputes
  <2>6. Preserves(i, CallOutcome(i)) BY <2>1, <2>5 DEF Preserves
  <2> QED BY <1>2, <2>2, <2>4, <2>6, ExecuteComputes
<1>6. CASE Return
  <2>1. PICK i \in Functions[kind].palette :
          i.type = "RET" /\ Running(i) /\ Execute(i, processInstr(es, i, FALSE))
    BY <1>6, Zenon DEF Return
  <2>2. Ready(i) /\ status = "running" /\ steps < Functions[kind].steps /\ ReturnsProperly(i)
    BY <1>3, <2>1
  <2>3. processInstr(es, i, FALSE) = emulateRet(es) BY <2>1, EmulationOf
  <2>4. Preserves(i, emulateRet(es))
    <3>1. CASE Depth(es) = 0
      <4>1. emulateRet(es).err = "none" BY <3>1 DEF emulateRet, Done
      <4>2. /\ ExecAll(new, emulateRet(es).out) \in Machine
            /\ Returned(emulateRet(es).es, Exec(orig, i), ExecAll(new, emulateRet(es).out))
        BY <2>1, <2>2, <3>1, RetReturns
      <4> QED BY <2>1, <3>1, <4>1, <4>2 DEF Preserves
    <3>2. CASE Depth(es) # 0
      <4>1. Computes(i, emulateRet(es)) BY <2>1, <2>2, <3>2, RetComputes
      <4> QED BY <3>2, <4>1 DEF Preserves
    <3> QED BY <3>1, <3>2
  <2> QED BY <1>2, <2>1, <2>2, <2>3, <2>4, ExecuteComputes
<1>7. CASE Branch BY <1>2, <1>7, BranchComputes
<1>8. CASE UNCHANGED vars
  BY <1>2, <1>8 DEF vars, ComputedInv, Captured
<1> QED BY <1>4, <1>5, <1>6, <1>7, <1>8 DEF Next

\* Whatever a function does, whatever is known of its parameter and whatever data the
\* captured code runs on: what the emulator does not know has been computed.
THEOREM ComputedInvHolds ==
  ASSUME TwoOperands
  PROVE  Spec => []ComputedInv
<1> QED BY InitComputes, NextComputes, PTL DEF Spec

\* What the emulator does not know, captured code (the capture functions) computes.
THEOREM UnknownIsRight ==
  ASSUME TwoOperands
  PROVE  Spec => []UnknownAgrees
<1>1. ComputedInv => UnknownAgrees
  <2> SUFFICES ASSUME ComputedInv, status = "running" PROVE UnknownAgrees
    BY DEF UnknownAgrees
  <2>1. /\ Computed(es, orig, new, skew, at) /\ InOrder(es, orig, skew, at)
        /\ FlagsCaptured(es, orig, new, lost) /\ orig \in Machine
    BY DEF ComputedInv, KnownInv, Captured
  <2>2. \A f \in FlagType \ lost : es.flag_state[f] = "DYNAMIC" => new.flag[f] = orig.flag[f]
    BY <2>1 DEF FlagsCaptured, UnknownFlags
  <2>3. ASSUME NEW o \in Slots, Unknown(es.stackState[o])
        PROVE  IF at[o] = Gone THEN SlotAddr(o) < orig.reg["SP"]
               ELSE new.mem[Place(o)] = orig.mem[SlotAddr(o)]
    <3>1. CASE at[o] = Gone
      <4>1. SlotAddr(o) \in Int /\ orig.reg["SP"] \in Int
        BY <2>1, StackFacts, WordFacts, MachineAssumption, MachineFields
      <4>2. ~(SlotAddr(o) >= orig.reg["SP"]) BY <2>1, <2>3, <3>1, InOrderPlaces
      <4> QED BY <3>1, <4>1, <4>2
    <3>2. CASE at[o] # Gone BY <2>1, <2>3, <3>2 DEF Computed, StackComputed, PlaceOf, Place
    <3> QED BY <3>1, <3>2
  <2> QED BY <2>1, <2>2, <2>3 DEF UnknownAgrees, Computed, RegsComputed, OthersComputed
<1> QED BY <1>1, ComputedInvHolds, PTL

\* What has been captured when the function returns can be called in its place
\* (captureRet, emulateRet).
THEOREM ReturnIsRight ==
  ASSUME TwoOperands
  PROVE  Spec => []ReturnAgrees
<1>1. ComputedInv => ReturnAgrees BY DEF ComputedInv, Returned, ReturnAgrees
<1> QED BY <1>1, ComputedInvHolds, PTL

\* States stay states of the emulator and of the two machines.
THEOREM TypesAreRight ==
  ASSUME TwoOperands
  PROVE  Spec => []TypeOK
<1>1. ComputedInv => TypeOK BY DEF ComputedInv, KnownInv, Proper, TypeOK
<1> QED BY <1>1, ComputedInvHolds, PTL

\* Jumps whose flags the emulator gets right: not those on two flags that are captured
\* as other ones (captureJcc), and not those of which it misses a flag.
RightJumps == JumpTypes \ {"JBE", "JA"}

\* Every such jump goes the function's way, followed while rewriting or captured.
THEOREM BranchesAreRight ==
  ASSUME TwoOperands, Branches \subseteq RightJumps
  PROVE  Spec => []BranchesAgree
<1>1. ASSUME ComputedInv, status = "running", NEW t \in RightJumps,
             FlagsDefined(FlagsOfJcc(t)), JccUnknown(es, t)
      PROVE  Taken(t, orig.flag) = Taken(JccCaptured(t), new.flag)
  <2>1. FlagsCaptured(es, orig, new, lost) BY <1>1 DEF ComputedInv, Captured
  <2>2. FlagsOfJcc(t) = JccFlags(t) /\ JccFlags(t) \subseteq FlagType /\ JccCaptured(t) = t
    BY DEF FlagsOfJcc, RightJumps, JumpTypes, JccFlags, FlagType, JccCaptured
  <2>3. \A f \in JccFlags(t) : new.flag[f] = orig.flag[f]
    <3>1. \A f \in JccFlags(t) : es.flag_state[f] # "DEAD" /\ f \in FlagType \ lost
      BY <1>1, <2>2 DEF FlagsDefined
    <3>2. PICK f \in JccFlags(t) : es.flag_state[f] = "DYNAMIC" BY <1>1 DEF JccUnknown
    <3>3. UnknownFlags(es, lost) # {} BY <3>1, <3>2 DEF UnknownFlags
    <3> QED BY <2>1, <3>1, <3>3 DEF FlagsCaptured
  <2>4. CASE t \in {"JO", "JC", "JZ", "JS", "JP"} BY <2>2, <2>3, <2>4 DEF Taken, JccFlags
  <2>5. CASE t \in {"JNO", "JNC", "JNZ", "JNS", "JNP"} BY <2>2, <2>3, <2>5 DEF Taken, JccFlags
  <2>6. CASE t \in {"JL", "JGE"} BY <2>2, <2>3, <2>6 DEF Taken, JccFlags
  <2> QED BY <2>4, <2>5, <2>6 DEF RightJumps, JumpTypes
<1>2. ASSUME JumpsAgree, status = "running", orig \in Machine, NEW t \in RightJumps,
             FlagsDefined(FlagsOfJcc(t)), ~JccUnknown(es, t)
      PROVE  Taken(t, orig.flag) = JccTaken(es, t)
  <2>1. Taken(t, orig.flag) <=> JccTaken(es, t) BY <1>2 DEF JumpsAgree, RightJumps
  <2>2. \A f \in FlagType : orig.flag[f] \in BOOLEAN BY <1>2, MachineFields
  <2>3. JccFlags(t) \subseteq FlagType BY DEF RightJumps, JumpTypes, JccFlags, FlagType
  <2>4. Taken(t, orig.flag) \in BOOLEAN /\ JccTaken(es, t) \in BOOLEAN
    <3>1. CASE t \in {"JO", "JC", "JZ", "JS", "JP"} BY <2>2, <2>3, <3>1 DEF Taken, JccTaken, JccFlags
    <3>2. CASE t \in {"JNO", "JNC", "JNZ", "JNS", "JNP"} BY <2>2, <2>3, <3>2 DEF Taken, JccTaken, JccFlags
    <3>3. CASE t \in {"JL", "JGE"} BY <2>2, <2>3, <3>3 DEF Taken, JccTaken, JccFlags
    <3> QED BY <3>1, <3>2, <3>3 DEF RightJumps, JumpTypes
  <2> QED BY <2>1, <2>4
<1>3. ComputedInv /\ JumpsAgree => BranchesAgree
  <2> SUFFICES ASSUME ComputedInv, JumpsAgree PROVE BranchesAgree
    OBVIOUS
  <2>1. orig \in Machine BY DEF ComputedInv, KnownInv
  <2> HIDE DEF ComputedInv, JumpsAgree
  <2> QED BY <1>1, <1>2, <2>1 DEF BranchesAgree
<1> QED BY <1>3, ComputedInvHolds, KnownJumpsAreRight, PTL
=============================================================================
