--------------------------- MODULE DecodeContext ---------------------------
(***************************************************************************)
(* decode.c, first part: the decode context and what the handlers of       *)
(* opcodes are built from.                                                 *)
(*                                                                         *)
(* The decode context cxt is handed from handler to handler, as in the     *)
(* code.  "abort" in it stands for a failed assertion or the use of a null *)
(* pointer, which end the process.                                         *)
(***************************************************************************)
EXTENDS Instr

CONSTANTS
  decInstrCapacity,  \* instructions that can be decoded
  decBBCapacity,     \* blocks that can be decoded
  MaxPrefixes        \* bound on the prefix bytes of one instruction

ASSUME DecoderAssumption ==
  decInstrCapacity \in Nat /\ decBBCapacity \in Nat /\ MaxPrefixes \in Nat

VARIABLES
  mem,       \* the code in memory: bytes by address
  decInstr,  \* r->decInstr
  decBB,     \* r->decBB
  cxt,       \* the decode context, between instructions of a block
  status     \* "ready", "decoding" or "aborted"

decoderVars == << mem, decInstr, decBB, cxt, status >>

NoInstr == Instruction("None", "VT_None", << >>)

Context ==
  [ f |-> 0, off |-> 0, iaddr |-> 0, rex |-> {}, hasRex |-> FALSE, segOv |-> "OSO_None",
    ps |-> {}, vex |-> "VEX_No", vvvv |-> -1, vt |-> "VT_None", opc |-> << >>, digit |-> 0,
    it |-> "None", o1 |-> NoOperand, o2 |-> NoOperand, o3 |-> NoOperand, oe |-> "OE_None",
    ii |-> NoInstr, exit |-> FALSE, error |-> "none", abort |-> FALSE ]

\* Memory nothing is known of holds RET.
Byte(c, k)    == LET a == c.f + c.off + k IN IF a \in DOMAIN mem THEN mem[a] ELSE \hC3
Read(c, n)    == [k \in 1 .. n |-> Byte(c, k - 1)]
Skip(c, n)    == [c EXCEPT !.off = @ + n]
Require(c, p) == IF p THEN c ELSE [c EXCEPT !.abort = TRUE]
Wide(c)       == "W" \in c.rex
If8(p)        == IF p THEN 8 ELSE 0

----------------------------------------------------------------------------
(***************************************************************************)
(* Adding instructions                                                     *)
(***************************************************************************)

\* Mutant: one instruction too many is stored.
addInstrOffByOne(c, it, vt, ops) ==
  LET i == [Instruction(it, vt, ops) EXCEPT !.addr = c.iaddr, !.len = c.f + c.off - c.iaddr]
  IN IF Len(decInstr) > decInstrCapacity
     THEN [c EXCEPT !.error = "BufferOverflow", !.ii = NoInstr]
     ELSE Require([c EXCEPT !.ii = copyInstr(i)], CanCopyInstr(i))

\* nextInstr, and what the add functions fill in: nothing if the buffer is full.
addInstr(c, it, vt, ops) ==
  LET i == [Instruction(it, vt, ops) EXCEPT !.addr = c.iaddr, !.len = c.f + c.off - c.iaddr]
  IN IF Len(decInstr) >= decInstrCapacity
     THEN [c EXCEPT !.error = "BufferOverflow", !.ii = NoInstr]
     ELSE Require([c EXCEPT !.ii = copyInstr(i)], CanCopyInstr(i))

addSimple(c, it, vt)   == addInstr(c, it, vt, << >>)
addUnaryOp(c, it, o)   == addInstr(c, it, "VT_None", << o >>)

\* An explicit value type must be that of the destination.
addOps(c, it, vt, ops) ==
  Require(addInstr(c, it, vt, ops), vt \notin {"VT_None", "VT_Implicit"} => vt = ops[1].vt)

addBinaryOp(c, it, vt)  == addOps(c, it, vt, << c.o1, c.o2 >>)
addTernaryOp(c, it, vt) == addOps(c, it, vt, << c.o1, c.o2, c.o3 >>)

\* Setting the type of the instruction just added uses a null pointer if there is none.
setVType(c, vt) ==
  IF c.ii = NoInstr THEN Require(c, FALSE) ELSE [c EXCEPT !.ii.vtype = vt]

attach(c, vex, ps, enc, sc) ==
  IF c.ii = NoInstr THEN c
  ELSE [c EXCEPT !.ii = attachPassthrough(c.ii, vex, ps, enc, sc, c.opc)]

markDecodeError(c, et) == [addSimple(c, "Invalid", "VT_None") EXCEPT !.error = et]

----------------------------------------------------------------------------
(***************************************************************************)
(* Operands                                                                *)
(***************************************************************************)

\* Register types of operands 1 and 2: "G" for general purpose ones.
GG == << "G", "G" >>
XX == << "RT_XMM", "RT_XMM" >>
YY == << "RT_YMM", "RT_YMM" >>

\* Register i of class rt, as operand of type vt.
registerOp(c, vt, rt, i) ==
  LET gp == IF c.hasRex THEN GPRegTypes ELSE LegGPRegTypes
      t  == IF rt = "G" THEN gp[vt] ELSE rt
  IN RegOp(vt, Reg(t, i))

\* The operand in memory with ModRM mode mod and register rm, and its length.
memoryOp(c, vt, mod, rm) ==
  LET hasSib == rm = 4
      sib    == Byte(c, 1)
      base   == IF hasSib THEN sib % 8 ELSE rm
      idx    == ((sib \div 8) % 8) + If8("X" \in c.rex)
      noBase == mod = 0 /\ base = 5
      scaled == hasSib /\ idx # 4
      at     == IF hasSib THEN 2 ELSE 1
      n      == IF mod = 1 THEN 1 ELSE IF mod = 2 \/ noBase THEN 4 ELSE 0
      disp   == IF n = 0 THEN Zero ELSE SignExtend(Read(Skip(c, at), n))
      reg    == IF ~noBase THEN Reg("RT_GP64", base + If8("B" \in c.rex))
                ELSE IF hasSib THEN NoReg ELSE Reg("RT_IP", 0)
  IN [ len |-> at + n,
       op  |-> IndOp(vt, disp, reg,
                     IF scaled THEN Reg("RT_GP64", idx) ELSE NoReg,
                     IF scaled THEN << 1, 2, 4, 8 >>[(sib \div 64) + 1] ELSE 0, c.segOv) ]

\* Operand o, read from the bytes at c, is field m of the context.
withOperand(c, m, o) == Skip([c EXCEPT ![m] = o.op], o.len)

\* Parses ModRM: field m gets the operand that is a register or in memory,
\* field r the other one ("none": it is a digit).
parseModRM(c, vt0, rts, m, r) ==
  LET vt  == IF vt0 = "VT_None" THEN (IF Wide(c) THEN "VT_64" ELSE "VT_32") ELSE vt0
      mod == Byte(c, 0) \div 64
      reg == (Byte(c, 0) \div 8) % 8
      rm  == Byte(c, 0) % 8
      vec == vt \in {"VT_128", "VT_256"}
      i2  == reg + If8("R" \in c.rex)
      i1  == rm + If8("B" \in c.rex)
      op2 == registerOp(c, vt, rts[2], i2)
      op1 == registerOp(c, vt, rts[1], i1)
      d   == [c EXCEPT !.digit = reg]
      e   == IF r = "none" THEN d ELSE [d EXCEPT ![r] = op2]
      bad == \/ vec /\ rts[2] = "G"
             \/ vec /\ rts[1] = "G" /\ mod # 3
             \/ r # "none" /\ ~IsReg(op2.reg.rt, i2)
             \/ mod = 3 /\ ~IsReg(op1.reg.rt, i1)
  IN IF bad THEN Require(c, FALSE)
     ELSE withOperand(e, m, IF mod = 3 THEN [ op |-> op1, len |-> 1 ]
                            ELSE memoryOp(c, vt, mod, rm))

\* A 64 bit immediate is sign-extended from 32 bits, but with realImm64.
parseImm(c, vt, o, realImm64) ==
  LET n == IF vt = "VT_64" /\ ~realImm64 THEN 4 ELSE ImmBytes[vt]
      v == IF vt = "VT_64" THEN SignExtend(Read(c, n)) ELSE ZeroExtend(Read(c, n))
  IN Skip([c EXCEPT ![o] = ImmOp(vt, v)], n)

parseRM(c) == parseModRM(c, c.vt, GG, "o2", "o1")
parseMR(c) == parseModRM(c, c.vt, GG, "o1", "o2")
parseM(c)  == parseModRM(c, c.vt, GG, "o1", "none")
parseI2(c) == parseImm(c, c.vt, "o2", FALSE)
parseI3(c) == parseImm(c, c.vt, "o3", FALSE)
parseMI(c) == parseI2(parseM(c))

\* An 8 bit immediate, sign-extended to all 64 bits.
parseI3_8se(c) ==
  LET d == parseImm(c, "VT_8", "o3", FALSE)
  IN [d EXCEPT !.o3 = ImmOp(c.vt, SignExtend(Low(@.val, 1)))]

\* An 8 bit immediate, sign-extended to the bits of the type.
parseMI_8se(c) ==
  [parseImm(parseM(c), "VT_8", "o2", FALSE) EXCEPT
     !.o2 = ImmOp(c.vt, ZeroExtend(Low(SignExtend(Low(@.val, 1)), ImmBytes[c.vt])))]

setO1RegA(c) == [c EXCEPT !.o1 = setRegOp(c.vt, 0)]

\* Scalars are parsed as operands in registers of 128 bits.
vectorType(vt) == IF vt \in {"VT_32", "VT_64"} THEN "VT_128" ELSE vt

parseVV(c, m, r, oe) ==
  LET vt == vectorType(c.vt)
  IN [parseModRM(c, vt, IF vt = "VT_128" THEN XX ELSE YY, m, r) EXCEPT !.oe = oe]

parseRMVV(c) == parseVV(c, "o2", "o1", "OE_RM")
parseMRVV(c) == parseVV(c, "o1", "o2", "OE_MR")
parseRVM(c)  ==
  LET vt == vectorType(c.vt)
      d  == [c EXCEPT !.o2 = RegOp(vt, Reg(VRegTypes[vt], c.vvvv))]
  IN parseVV(d, "o3", "o1", "OE_RVM")

----------------------------------------------------------------------------
(***************************************************************************)
(* Prefixes                                                                *)
(***************************************************************************)
RexBits(b) == { x \in {"W", "R", "X", "B"} :
                  (b \div [W |-> 8, R |-> 4, X |-> 2, B |-> 1][x]) % 2 = 1 }

PrefixSets == Tables(<< At(\hF2, "F2"), At(\hF3, "F3"), At(\h66, "66"), At(\h2E, "2E") >>)
SegPrefix  == Tables(<< At(\h64, "OSO_UseFS"), At(\h65, "OSO_UseGS") >>)
PrefixByte(b) == b \in (\h40 .. \h4F) \cup DOMAIN PrefixSets \cup DOMAIN SegPrefix

\* Prefix bytes bs in front of an instruction: of REX prefixes, and of segments,
\* the last one counts.
addPrefixes(c, bs) ==
  LET among(S) == { k \in DOMAIN bs : bs[k] \in S }
      rex      == among(\h40 .. \h4F)
      seg      == among(DOMAIN SegPrefix)
  IN [c EXCEPT !.rex    = IF rex = {} THEN @ ELSE RexBits(bs[Max(rex)]),
               !.hasRex = rex # {},
               !.ps     = { PrefixSets[bs[k]] : k \in among(DOMAIN PrefixSets) },
               !.segOv  = IF seg = {} THEN @ ELSE SegPrefix[bs[Max(seg)]]]

\* Bits of a VEX prefix: b has vvvv, L and pp, the inverted bits set rex.
vexBits(c, b, rex) ==
  [c EXCEPT !.vex    = IF (b \div 4) % 2 = 1 THEN "VEX_256" ELSE "VEX_128",
            !.ps     = @ \cup << {}, {"66"}, {"F3"}, {"F2"} >>[(b % 4) + 1],
            !.vvvv   = 15 - ((b \div 8) % 16),
            !.rex    = @ \cup rex,
            !.hasRex = TRUE]

decodeVex2(c) ==
  LET b == Byte(c, 1)
  IN Skip(vexBits(c, b, IF b < 128 THEN {"R"} ELSE {}), 2)

decodeVex3(c) ==
  LET b1 == Byte(c, 1)   b2 == Byte(c, 2)
      rex == { x \in {"R", "X", "B"} : (b1 \div [R |-> 128, X |-> 64, B |-> 32][x]) % 2 = 0 }
             \cup (IF b2 < 128 THEN {"W"} ELSE {})
  IN Skip(Require(vexBits(c, b2, rex), b1 % 32 = 1), 3)

\* There are n prefix bytes at c.
Prefixed(c, n) == ~PrefixByte(Byte(c, n)) /\ \A k \in 0 .. (n - 1) : PrefixByte(Byte(c, k))
FewPrefixes(c) == \E n \in 0 .. MaxPrefixes : Prefixed(c, n)

\* Starts a new instruction.
decodePrefixes(c) ==
  LET start == [Context EXCEPT !.f = c.f, !.off = c.off, !.iaddr = c.f + c.off]
      n     == CHOOSE n \in 0 .. MaxPrefixes : Prefixed(c, n)
      d     == Skip(addPrefixes(start, Read(c, n)), n)
  IN CASE Byte(d, 0) = \hC5 -> decodeVex2(d)
       [] Byte(d, 0) = \hC4 -> decodeVex3(d)
       [] OTHER -> d

=============================================================================
