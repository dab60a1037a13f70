-------------------------------- MODULE X86 --------------------------------
(***************************************************************************)
(* The processor, as far as the emulator of dbrew deals with it: what      *)
(* instructions do to registers, flags and memory.  This is not code of    *)
(* the repository, but what its emulator and generator are written for.    *)
(*                                                                         *)
(* There is one width of values, W bits, and memory holds one value at     *)
(* each address: pushing moves the stack pointer by one.                   *)
(***************************************************************************)
EXTENDS Integers, SequencesExt

CONSTANTS
  W,     \* bits in a word, a power of two
  Regs,  \* general purpose registers
  CallerSaved  \* registers a function may leave with any value

Word     == 0 .. (2 ^ W - 1)
FlagType == {"Zero", "Carry", "Sign", "Overflow", "Parity"}

ASSUME MachineAssumption ==
  /\ W \in {2, 4, 8}
  /\ {"A", "D", "DI", "SP", "BP"} \subseteq Regs /\ "None" \notin Regs
  /\ CallerSaved \subseteq Regs \ {"A", "SP", "BP"}

Machine == [ reg  : [Regs -> Word],
             flag : [FlagType -> BOOLEAN],
             mem  : [Word -> Word],
             vec  : Word ]             \* stands for the vector registers

----------------------------------------------------------------------------
(***************************************************************************)
(* Words                                                                   *)
(***************************************************************************)
Mask(v)     == v % (2 ^ W)
Bit(v, k)   == (v \div (2 ^ k)) % 2
Negative(v) == Bit(v, W - 1) = 1
Signed(v)   == IF Negative(v) THEN v - 2 ^ W ELSE v
NotOf(v)    == 2 ^ W - 1 - v

\* Bitwise operations, as tables over all pairs of words.
BitTable(Op(_, _)) ==
  [ p \in Word \X Word |->
      CHOOSE c \in Word :
        \A k \in 0 .. (W - 1) : Bit(c, k) = Op(Bit(p[1], k), Bit(p[2], k)) ]

And(x, y) == x * y
Or(x, y)  == x + y - x * y
Xor(x, y) == (x + y) % 2

AndTable == BitTable(And)
OrTable  == BitTable(Or)
XorTable == BitTable(Xor)

AndOf(a, b) == AndTable[<< a, b >>]
OrOf(a, b)  == OrTable[<< a, b >>]
XorOf(a, b) == XorTable[<< a, b >>]

EvenParity == { v \in Word : Cardinality({ k \in 0 .. (W - 1) : Bit(v, k) = 1 }) % 2 = 0 }

\* Shifting by n, right with copies of the sign.
ShiftLeft(v, n)   == Mask(v * 2 ^ (n % W))
ShiftRight(v, n)  == v \div 2 ^ (n % W)
ShiftSigned(v, n) == Mask(Signed(v) \div 2 ^ (n % W))

----------------------------------------------------------------------------
(***************************************************************************)
(* Instructions and operands                                               *)
(***************************************************************************)
NoOp           == [ kind |-> "None", val |-> 0, reg |-> "None", ireg |-> "None" ]
Imm(v)         == [ NoOp EXCEPT !.kind = "Imm", !.val = v ]
RegOp(r)       == [ NoOp EXCEPT !.kind = "Reg", !.reg = r ]
Ind(v, r, x)   == [ kind |-> "Ind", val |-> v, reg |-> r, ireg |-> x ]

Ternary(t, d, s, s2) == [ type |-> t, dst |-> d, src |-> s, src2 |-> s2 ]
Binary(t, d, s)      == Ternary(t, d, s, NoOp)
Unary(t, d)          == Ternary(t, d, NoOp, NoOp)
Simple(t)            == Ternary(t, NoOp, NoOp, NoOp)

\* Whether the jump of type t is taken with flags f.
Taken(t, f) ==
  CASE t = "JO"  -> f["Overflow"]  [] t = "JNO" -> ~f["Overflow"]
    [] t = "JC"  -> f["Carry"]     [] t = "JNC" -> ~f["Carry"]
    [] t = "JZ"  -> f["Zero"]      [] t = "JNZ" -> ~f["Zero"]
    [] t = "JS"  -> f["Sign"]      [] t = "JNS" -> ~f["Sign"]
    [] t = "JP"  -> f["Parity"]    [] t = "JNP" -> ~f["Parity"]
    [] t = "JBE" -> f["Carry"] \/ f["Zero"]
    [] t = "JA"  -> ~f["Carry"] /\ ~f["Zero"]
    [] t = "JL"  -> f["Sign"] # f["Overflow"]
    [] t = "JGE" -> f["Sign"] = f["Overflow"]
    [] t = "JLE" -> f["Zero"] \/ f["Sign"] # f["Overflow"]
    [] t = "JG"  -> ~f["Zero"] /\ f["Sign"] = f["Overflow"]

\* Conditional moves, with the jumps that test the same condition.
CMovs == [ CMOVO |-> "JO", CMOVNO |-> "JNO", CMOVC |-> "JC", CMOVNC |-> "JNC",
           CMOVZ |-> "JZ", CMOVNZ |-> "JNZ", CMOVS |-> "JS", CMOVNS |-> "JNS" ]

----------------------------------------------------------------------------
(***************************************************************************)
(* Execution                                                               *)
(***************************************************************************)
RegOr0(regs, r) == IF r = "None" THEN 0 ELSE regs[r]

AddrOf(m, o)  == Mask(o.val + RegOr0(m.reg, o.reg) + RegOr0(m.reg, o.ireg))

Value(m, o) ==
  CASE o.kind = "Imm" -> o.val
    [] o.kind = "Reg" -> m.reg[o.reg]
    [] o.kind = "Ind" -> m.mem[AddrOf(m, o)]

Write(m, o, v) ==
  IF o.kind = "Reg" THEN [m EXCEPT !.reg[o.reg] = v]
  ELSE [m EXCEPT !.mem[AddrOf(m, o)] = v]

\* Flags for result r.
Flags(r, carry, overflow) ==
  [ Zero |-> r = 0, Sign |-> Negative(r), Parity |-> r \in EvenParity,
    Carry |-> carry, Overflow |-> overflow ]

AddFlags(a, b) ==
  LET r == Mask(a + b)
  IN Flags(r, a + b # r, Signed(a) + Signed(b) # Signed(r))

SubFlags(a, b) ==
  LET r == Mask(a - b)
  IN Flags(r, a < b, Signed(a) - Signed(b) # Signed(r))

BitFlags(r) == Flags(r, FALSE, FALSE)

\* Results of operations with two operands, and the flags they set from flags
\* f.  Flags the processor leaves undefined are left as they are.
Result(t, a, b) ==
  CASE t = "ADD"  -> Mask(a + b)
    [] t \in {"SUB", "CMP"}  -> Mask(a - b)
    [] t = "IMUL" -> Mask(Signed(a) * Signed(b))
    [] t \in {"AND", "TEST"} -> AndOf(a, b)
    [] t = "OR"   -> OrOf(a, b)
    [] t = "XOR"  -> XorOf(a, b)
    [] t = "SHL"  -> ShiftLeft(a, b)
    [] t = "SHR"  -> ShiftRight(a, b)
    [] t = "SAR"  -> ShiftSigned(a, b)

FlagsAfter(t, a, b, f) ==
  LET r == Result(t, a, b)
  IN CASE t = "ADD"             -> AddFlags(a, b)
       [] t \in {"SUB", "CMP"}  -> SubFlags(a, b)
       [] t \in {"AND", "TEST", "OR", "XOR"} -> BitFlags(r)
       [] t = "IMUL" -> LET over == Signed(a) * Signed(b) # Signed(r)
                        IN [f EXCEPT !["Carry"] = over, !["Overflow"] = over]
       [] t \in {"SHL", "SHR", "SAR"} ->
            IF b % W = 0 THEN f
            ELSE Flags(r, f["Carry"], f["Overflow"])

Operate(m, i, a, b) ==
  LET n == IF i.type \in {"CMP", "TEST"} THEN m
           ELSE Write(m, i.dst, Result(i.type, a, b))
  IN [n EXCEPT !.flag = FlagsAfter(i.type, a, b, m.flag)]

\* One operand.
OneOperand(m, i) ==
  LET a == Value(m, i.dst)
      keepCarry(f) == [f EXCEPT !["Carry"] = m.flag["Carry"]]
  IN CASE i.type = "INC" -> [Write(m, i.dst, Mask(a + 1)) EXCEPT !.flag = keepCarry(AddFlags(a, 1))]
       [] i.type = "DEC" -> [Write(m, i.dst, Mask(a - 1)) EXCEPT !.flag = keepCarry(SubFlags(a, 1))]
       [] i.type = "NEG" -> [Write(m, i.dst, Mask(0 - a)) EXCEPT !.flag = SubFlags(0, a)]

\* Dividing D:A, both signed; quotient and remainder truncate towards 0.
Dividend(m) == Signed(m.reg["D"]) * 2 ^ W + m.reg["A"]

Quotient(a, b) ==
  LET abs(x) == IF x < 0 THEN 0 - x ELSE x
      q      == abs(a) \div abs(b)
  IN IF (a < 0) = (b < 0) THEN q ELSE 0 - q

Divides(m, o) ==
  LET b == Signed(Value(m, o))
  IN /\ b # 0
     /\ LET q == Quotient(Dividend(m), b) IN - (2 ^ (W - 1)) <= q /\ q < 2 ^ (W - 1)

Divide(m, o) ==
  LET b == Signed(Value(m, o))
      q == Quotient(Dividend(m), b)
  IN [m EXCEPT !.reg["A"] = Mask(q), !.reg["D"] = Mask(Dividend(m) - q * b)]

PushWord(m, v) ==
  LET sp == Mask(m.reg["SP"] - 1) IN [m EXCEPT !.reg["SP"] = sp, !.mem[sp] = v]

PopWord(m, r) ==
  LET sp == m.reg["SP"]
  IN [m EXCEPT !.reg = [[m.reg EXCEPT !["SP"] = Mask(sp + 1)] EXCEPT ![r] = m.mem[sp]]]

\* What machine m is after executing instruction i.
Exec(m, i) ==
  CASE i.type = "MOV"      -> Write(m, i.dst, Value(m, i.src))
    [] i.type = "LEA"      -> Write(m, i.dst, AddrOf(m, i.src))
    [] i.type \in DOMAIN CMovs ->
         IF Taken(CMovs[i.type], m.flag) THEN Write(m, i.dst, Value(m, i.src)) ELSE m
    [] i.type \in {"ADD", "SUB", "CMP", "AND", "TEST", "OR", "XOR", "SHL", "SHR", "SAR"} ->
         Operate(m, i, Value(m, i.dst), Value(m, i.src))
    [] i.type = "IMUL"     ->
         IF i.src2 = NoOp THEN Operate(m, i, Value(m, i.dst), Value(m, i.src))
         ELSE Operate(m, i, Value(m, i.src), Value(m, i.src2))
    [] i.type \in {"INC", "DEC", "NEG"} -> OneOperand(m, i)
    [] i.type = "IDIV"     -> Divide(m, i.dst)
    [] i.type = "CQTO"     ->
         [m EXCEPT !.reg["D"] = IF Negative(m.reg["A"]) THEN 2 ^ W - 1 ELSE 0]
    [] i.type = "PUSH"     -> PushWord(m, Value(m, i.dst))
    [] i.type = "POP"      -> PopWord(m, i.dst.reg)
    [] i.type = "LEAVE"    ->
         PopWord([m EXCEPT !.reg["SP"] = m.reg["BP"]], "BP")
    [] i.type = "CALL"     -> PushWord(m, i.src.val)   \* src: the return address
    [] i.type = "RET"      -> [m EXCEPT !.reg["SP"] = Mask(@ + 1)]
    [] i.type = "VLOAD"    -> [m EXCEPT !.vec = Value(m, i.src)]
    [] i.type = "VADD"     -> [m EXCEPT !.vec = Mask(@ + Value(m, i.src))]
    [] i.type = "VSTORE"   -> Write(m, i.dst, m.vec)
    [] i.type = "VGET"     -> Write(m, i.dst, m.vec)

\* What it is after executing a sequence of instructions.
ExecAll(m, instrs) ==
  LET after[k \in 0 .. Len(instrs)] == IF k = 0 THEN m ELSE Exec(after[k - 1], instrs[k])
  IN after[Len(instrs)]

\* The addresses instruction i accesses, apart from a return address.
Accessed(m, i) ==
  { AddrOf(m, o) : o \in { p \in {i.dst, i.src, i.src2} : p.kind = "Ind" /\ i.type # "LEA" } }
  \cup (IF i.type \in {"PUSH", "CALL"} THEN {Mask(m.reg["SP"] - 1)} ELSE {})
  \cup (IF i.type = "POP" THEN {m.reg["SP"]} ELSE {})
  \cup (IF i.type = "LEAVE" THEN {m.reg["BP"]} ELSE {})
=============================================================================
