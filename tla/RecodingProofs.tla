--------------------------- MODULE RecodingProofs ---------------------------
(***************************************************************************)
(* Proofs about Recoding, for all bytes, programs, capacities and code     *)
(* storages.                                                               *)
(*                                                                         *)
(* First the operators of Decoder and Generator: whatever the bytes are,   *)
(* decodeInstr gives exactly one instruction, of known length, and         *)
(* whatever the instruction is, genOne gives bytes or one of its errors.   *)
(* The decoder is a loop over tables of handlers: handlers are shown to    *)
(* keep a context typed and to add one instruction, tables are shown to    *)
(* hold entries whose handlers may run on their opcodes.                   *)
(*                                                                         *)
(* Then the steps: the blocks decoded are chains of instructions, the      *)
(* code storage in use is what was generated, and all variables keep their *)
(* types.  The invariant says of every block decoded that it is closed, of *)
(* the block being decoded that it is a chain open at its end, and of the  *)
(* storage that it is accounted for.                                       *)
(***************************************************************************)
EXTENDS Recoding, SequenceTheorems, WellFoundedInduction, TLAPS

(***************************************************************************)
(* Instructions                                                            *)
(***************************************************************************)
ByteValues == 0 .. 255
Values     == [1 .. 8 -> ByteValues]

Widths   == {"VT_8", "VT_16", "VT_32", "VT_64"}
ValTypes == Widths \cup {"VT_None", "VT_Def", "VT_Implicit", "VT_128", "VT_256"}
RegTypes == {"RT_None", "RT_IP", "RT_GP8Leg", "RT_GP8", "RT_GP16", "RT_GP32", "RT_GP64",
             "RT_MMX", "RT_XMM", "RT_YMM"}
Segments == {"OSO_None", "OSO_UseFS", "OSO_UseGS"}
Registers == [rt : RegTypes, ri : 0 .. 15]
Operands  ==
  [kind : {"None", "Imm", "Reg", "Ind"}, vt : ValTypes, val : Values, reg : Registers,
   ireg : Registers, scale : {0, 1, 2, 4, 8}, seg : Segments]

PrefixNames     == {"66", "F2", "F3", "2E", "REXW"}
VexTypes     == {"VEX_No", "VEX_128", "VEX_256"}
Encodings    == {"OE_None", "OE_MR", "OE_RM", "OE_RVM"}
PassThroughs ==
  [opc : Seq(ByteValues), ps : SUBSET PrefixNames, vex : VexTypes, enc : Encodings,
   sc : {"SC_None", "SC_dstDyn"}]

OperandLists == { s \in Seq(Operands) : Len(s) <= 3 }

\* Instructions behind which a block goes on, and those that end it.
PlainTypes ==
  { "ADC", "ADD", "ADDPD", "ADDPS", "ADDSD", "ADDSS", "ADDSUBPD", "ADDSUBPS", "AND",
    "ANDNPD", "ANDNPS", "ANDPD", "ANDPS", "BSF", "CLTQ", "CMOVA", "CMOVBE", "CMOVC",
    "CMOVG", "CMOVGE", "CMOVL", "CMOVLE", "CMOVNC", "CMOVNO", "CMOVNP", "CMOVNS",
    "CMOVNZ", "CMOVO", "CMOVP", "CMOVS", "CMOVZ", "CMP", "CQTO", "CWTL", "DEC", "DIV",
    "DIVPD", "DIVPS", "DIVSD", "DIVSS", "HADDPD", "HADDPS", "HSUBPD",
    "HSUBPS", "IDIV1", "IMUL", "INC", "LEA", "LEAVE", "MAXPD", "MAXPS", "MAXSD",
    "MAXSS", "MINPD", "MINPS", "MINSD", "MINSS", "MOV", "MOVAPD", "MOVAPS", "MOVD",
    "MOVDQA", "MOVDQU", "MOVHPD", "MOVHPS", "MOVLPD", "MOVLPS", "MOVQ", "MOVSD",
    "MOVSS", "MOVSX", "MOVUPD", "MOVUPS", "MOVZX", "MUL", "MULPD", "MULPS", "MULSD",
    "MULSS", "NEG", "NOP", "NOT", "OR", "ORPD", "ORPS", "PADDQ", "PCMPEQB", "PMINUB",
    "PMOVMSKB", "POP", "POPF", "POPFQ", "PUSH", "PUSHF", "PUSHFQ", "PXOR", "RCPPS",
    "RCPSS", "RSQRTPS", "RSQRTSS", "SAR", "SBB", "SHL", "SHR", "SQRTPD", "SQRTPS",
    "SQRTSD", "SQRTSS", "SUB", "SUBPD", "SUBPS", "SUBSD", "SUBSS", "TEST", "UCOMISD",
    "UNPCKHPD", "UNPCKHPS", "UNPCKLPD", "UNPCKLPS", "VADDPD", "VADDPS", "VADDSD",
    "VADDSS", "VMOVAPD", "VMOVAPS", "VMOVDQA", "VMOVDQU", "VMOVNTDQ", "VMOVSD",
    "VMOVSS", "VMOVUPD", "VMOVUPS", "VMULPD", "VMULPS", "VMULSD", "VMULSS", "VXORPD",
    "VXORPS", "VZEROALL", "VZEROUPPER", "XOR", "XORPD", "XORPS" }
JccNames   == {"JO", "JNO", "JC", "JNC", "JZ", "JNZ", "JBE", "JA", "JS", "JNS", "JP", "JNP", "JL",
               "JGE", "JLE", "JG"}
EndTypes   == JccNames \cup {"RET", "JMP", "JMPI", "CALL", "Invalid"}
Instrs     ==
  [type : PlainTypes \cup EndTypes \cup {"None"}, vtype : ValTypes, ops : OperandLists,
   pt : PassThroughs, addr : Nat, len : Nat]

\* Extending bytes to a 64 bit value gives such a value.
LEMMA ValueTypes ==
  /\ Zero \in Values
  /\ \A s \in Seq(ByteValues) : ZeroExtend(s) \in Values
  /\ \A s \in Seq(ByteValues) : s # << >> => SignExtend(s) \in Values
<1>1. \A s \in Seq(ByteValues), x \in ByteValues : Value8(s, x) \in Values
  <2> SUFFICES ASSUME NEW s \in Seq(ByteValues), NEW x \in ByteValues,
                      NEW k \in 1 .. 8
               PROVE  (IF k <= Len(s) THEN s[k] ELSE x) \in ByteValues
    BY DEF Value8, Values
  <2> QED BY LenProperties
<1>2. << >> \in Seq(ByteValues) OBVIOUS
<1>3. 0 \in ByteValues /\ 255 \in ByteValues BY DEF ByteValues
<1> QED BY <1>1, <1>2, <1>3 DEF Zero, ZeroExtend, SignExtend

\* The low bytes of a value are bytes.
LEMMA LowTypes ==
  ASSUME NEW v \in Values, NEW n \in 0 .. 8
  PROVE  /\ Low(v, n) \in Seq(ByteValues)
         /\ n > 0 => Low(v, n) # << >>
<1>1. \A k \in 1 .. n : v[k] \in ByteValues BY DEF Values
<1>2. Low(v, n) \in Seq(ByteValues) /\ Len(Low(v, n)) = IF 1 <= n THEN n - 1 + 1 ELSE 0
  BY <1>1, SubSeqProperties DEF Low
<1> QED BY <1>2

\* So a value cut to its low bytes and extended again is a value.
LEMMA ExtendedTypes ==
  \A v \in Values, n \in 1 .. 8 :
    SignExtend(Low(v, n)) \in Values /\ ZeroExtend(Low(v, n)) \in Values
<1> SUFFICES ASSUME NEW v \in Values, NEW n \in 1 .. 8
             PROVE  SignExtend(Low(v, n)) \in Values /\ ZeroExtend(Low(v, n)) \in Values
  OBVIOUS
<1>1. n \in 0 .. 8 /\ n > 0 OBVIOUS
<1>2. Low(v, n) \in Seq(ByteValues) /\ Low(v, n) # << >> BY <1>1, LowTypes
<1> QED BY <1>2, ValueTypes

\* What the constructors of operands build are operands.
LEMMA OperandTypes ==
  /\ NoReg \in Registers /\ NoOperand \in Operands
  /\ \A vt \in ValTypes, v \in Values : ImmOp(vt, v) \in Operands
  /\ \A vt \in ValTypes, r \in Registers : RegOp(vt, r) \in Operands
  /\ \A vt \in ValTypes, v \in Values, r \in Registers, x \in Registers,
        s \in {0, 1, 2, 4, 8}, seg \in Segments : IndOp(vt, v, r, x, s, seg) \in Operands
<1>1. NoReg \in Registers BY DEF NoReg, Reg, Registers, RegTypes
<1>2. \A kind \in {"None", "Imm", "Reg", "Ind"}, vt \in ValTypes : Operand(kind, vt) \in Operands
  BY <1>1, ValueTypes DEF Operand, Operands, Segments
<1>3. NoOperand \in Operands BY <1>2 DEF NoOperand, ValTypes
<1>4. \A vt \in ValTypes, v \in Values : ImmOp(vt, v) \in Operands
  BY <1>2 DEF ImmOp, Operands
<1>5. \A vt \in ValTypes, r \in Registers : RegOp(vt, r) \in Operands
  BY <1>2 DEF RegOp, Operands
<1>6. ASSUME NEW vt \in ValTypes, NEW v \in Values, NEW r \in Registers, NEW x \in Registers,
             NEW s \in {0, 1, 2, 4, 8}, NEW seg \in Segments
      PROVE  IndOp(vt, v, r, x, s, seg) \in Operands
  <2>1. Operand("Ind", vt) \in Operands BY <1>2
  <2> QED BY <2>1 DEF IndOp, Operands
<1> QED BY <1>1, <1>3, <1>4, <1>5, <1>6

\* The operands of an instruction, given or not.
LEMMA OperandsOf ==
  ASSUME NEW i \in Instrs
  PROVE  Dst(i) \in Operands /\ Src(i) \in Operands /\ Src2(i) \in Operands
<1>1. i.ops \in Seq(Operands) BY DEF Instrs, OperandLists
<1>2. \A k \in 1 .. 3 : Len(i.ops) >= k => i.ops[k] \in Operands BY <1>1, ElementOfSeq, LenProperties
<1> QED BY <1>2, OperandTypes DEF Dst, Src, Src2

----------------------------------------------------------------------------
(***************************************************************************)
(* The generator                                                           *)
(***************************************************************************)
RexBitNames == {"W", "R", "X", "B", "E"}
GContexts ==
  [vp : VexTypes, vvvv : 0 .. 15, ps : SUBSET PrefixNames, rex : SUBSET RexBitNames, so : Segments,
   opc : Seq(ByteValues), b : Seq(ByteValues), abort : BOOLEAN]
Results == [res : {"ok", "operands", "instr", "abort"}, code : Seq(ByteValues)]

\* Sequences of up to three elements.
LEMMA ShortSequences ==
  ASSUME NEW S
  PROVE  /\ << >> \in Seq(S)
         /\ \A a \in S : << a >> \in Seq(S) /\ Len(<< a >>) = 1
         /\ \A a, b \in S : << a, b >> \in Seq(S)
         /\ \A a, b, c \in S : << a, b, c >> \in Seq(S)
OBVIOUS

\* Bytes behind bytes are bytes.
LEMMA Concatenations ==
  \A s, t \in Seq(ByteValues) : s \o t \in Seq(ByteValues)
BY ConcatProperties

\* ModRM, SIB and displacement of an operand are bytes.
LEMMA MemoryBytes ==
  ASSUME NEW o \in Operands, NEW digit \in 0 .. 7
  PROVE  memoryBytes(o, digit) \in Seq(ByteValues)
<1> DEFINE absolute == o.reg.rt = "RT_None"
           rb   == o.reg.ri % 8
           sib  == absolute \/ o.scale > 0 \/ rb = 4
           ss   == CASE o.scale = 8 -> 3 [] o.scale = 4 -> 2 [] o.scale = 2 -> 1 [] OTHER -> 0
           ix   == IF o.scale = 0 THEN 4 ELSE o.ireg.ri % 8
           n    == CASE absolute -> 4
                     [] ~absolute /\ o.val = Zero -> IF rb = 5 THEN 1 ELSE 0
                     [] OTHER -> IF FitsSigned(o.val, 1) THEN 1 ELSE 4
           mod  == IF absolute \/ n = 0 THEN 0 ELSE IF n = 1 THEN 1 ELSE 2
           base == IF absolute THEN 5 ELSE rb
<1>1. rb \in 0 .. 7 /\ ix \in 0 .. 7 BY DEF Operands, Registers
<1>2. ss \in 0 .. 3 OBVIOUS
<1>3. n \in {0, 1, 4} /\ mod \in 0 .. 2 OBVIOUS
<1>4. base \in 0 .. 7 BY <1>1
<1>5. Low(o.val, n) \in Seq(ByteValues) BY <1>3, LowTypes DEF Operands
<1> HIDE DEF absolute, rb, sib, ss, ix, n, mod, base
<1>6. (mod * 64 + digit * 8 + (IF sib THEN 4 ELSE rb)) \in ByteValues BY <1>1, <1>3 DEF ByteValues
<1>7. (ss * 64 + ix * 8 + base) \in ByteValues BY <1>1, <1>2, <1>4 DEF ByteValues
<1>8. << mod * 64 + digit * 8 + (IF sib THEN 4 ELSE rb) >>
       \o (IF sib THEN << ss * 64 + ix * 8 + base >> ELSE << >>) \o Low(o.val, n)
       \in Seq(ByteValues)
  BY <1>5, <1>6, <1>7, ShortSequences, Concatenations
<1> QED BY <1>8 DEF memoryBytes, absolute, rb, sib, ss, ix, n, mod, base

\* An operand with a digit extends a context to a context.
LEMMA ModRMTypes ==
  ASSUME NEW g \in GContexts, NEW o \in Operands, NEW digit \in 0 .. 7, NEW w \in BOOLEAN
  PROVE  calcModRMDigit(g, o, digit, w) \in GContexts
<1>1. \A p \in BOOLEAN, l \in RexBitNames : IfIn(p, {l}) \in SUBSET RexBitNames BY DEF IfIn, RexBitNames
<1>2. CASE o.kind = "Reg"
  <2>1. (192 + digit * 8 + (o.reg.ri % 8)) \in ByteValues BY DEF Operands, Registers, ByteValues
  <2>2. << 192 + digit * 8 + (o.reg.ri % 8) >> \in Seq(ByteValues) BY <2>1, ShortSequences
  <2>3. RegRex(o.reg, "B") \in SUBSET RexBitNames BY DEF RegRex, IfIn, RexBitNames
  <2>4. IfIn(o.vt = "VT_64" /\ ~w, {"W"}) \in SUBSET RexBitNames BY DEF IfIn, RexBitNames
  <2> QED BY <1>2, <2>2, <2>3, <2>4 DEF calcModRMDigit, GContexts
<1>3. CASE o.kind = "Ind" /\ Addressable(o)
  <2>1. memoryBytes(o, digit) \in Seq(ByteValues) BY MemoryBytes
  <2>2. IfIn(o.vt = "VT_64" /\ ~w, {"W"}) \in SUBSET RexBitNames BY DEF IfIn, RexBitNames
  <2>3. IfIn(o.reg.ri >= 8, {"B"}) \in SUBSET RexBitNames BY DEF IfIn, RexBitNames
  <2>4. IfIn(o.scale > 0 /\ o.ireg.ri >= 8, {"X"}) \in SUBSET RexBitNames BY DEF IfIn, RexBitNames
  <2>5. o.seg \in Segments BY DEF Operands
  <2> QED BY <1>3, <2>1, <2>2, <2>3, <2>4, <2>5 DEF calcModRMDigit, GContexts
<1>4. CASE ~(o.kind = "Reg") /\ ~(o.kind = "Ind" /\ Addressable(o))
  BY <1>4 DEF calcModRMDigit, GContexts
<1> QED BY <1>2, <1>3, <1>4

\* And so do two operands.
LEMMA ModRMsTypes ==
  ASSUME NEW g \in GContexts, NEW o1 \in Operands, NEW o2 \in Operands
  PROVE  calcModRM(g, o1, o2) \in GContexts
<1> DEFINE d == [g EXCEPT !.rex = @ \cup RegRex(o2.reg, "R")]
<1>1. RegRex(o2.reg, "R") \in SUBSET RexBitNames BY DEF RegRex, IfIn, RexBitNames
<1>2. d \in GContexts BY <1>1 DEF GContexts
<1>3. o2.reg.ri % 8 \in 0 .. 7 BY DEF Operands, Registers
<1>4. calcModRMDigit(d, o1, o2.reg.ri % 8, FALSE) \in GContexts BY <1>2, <1>3, ModRMTypes
<1>5. [g EXCEPT !.abort = TRUE] \in GContexts BY DEF GContexts
<1> QED BY <1>4, <1>5 DEF calcModRM


SmallTable(t) == \A x \in DOMAIN t : t[x] \in 0 .. 3

\* Tables of numbers 0 .. 3, built from such tables.
LEMMA SmallTables ==
  /\ \A x : \A y \in 0 .. 3 : SmallTable(At(x, y))
  /\ \A ts : (\A k \in DOMAIN ts : SmallTable(ts[k])) => SmallTable(Tables(ts))
<1>1. \A x : \A y \in 0 .. 3 : SmallTable(At(x, y)) BY DEF SmallTable, At
<1>2. \A ts : (\A k \in DOMAIN ts : SmallTable(ts[k])) => SmallTable(Tables(ts))
  <2> SUFFICES ASSUME NEW ts, \A k \in DOMAIN ts : SmallTable(ts[k]),
                      NEW x \in DOMAIN Tables(ts)
               PROVE  Tables(ts)[x] \in 0 .. 3
    BY DEF SmallTable
  <2>1. PICK k \in DOMAIN ts : x \in DOMAIN ts[k] BY DEF Tables
  <2> QED BY <2>1 DEF Tables, SmallTable
<1> QED BY <1>1, <1>2

\* A VEX prefix consists of bytes when its legacy prefix is one VEX can stand for.
LEMMA VexPrefix ==
  ASSUME NEW g \in GContexts, NEW rex \in SUBSET RexBitNames, g.ps \ {"REXW"} \in DOMAIN VexPs
  PROVE  vexPrefix(g, rex) \in Seq(ByteValues)
<1> DEFINE b == (15 - g.vvvv) * 8 + (IF g.vp = "VEX_128" THEN 0 ELSE 4) + VexPs[g.ps \ {"REXW"}]
           off(l, w) == IF l \in rex THEN 0 ELSE w
<1>1. \A x \in DOMAIN VexPs : VexPs[x] \in 0 .. 3
  <2> DEFINE ts == << At({}, 0), At({"66"}, 1), At({"F3"}, 2), At({"F2"}, 3) >>
  <2>2. \A k \in DOMAIN ts : SmallTable(ts[k])
    <3>1. DOMAIN ts = 1 .. 4 OBVIOUS
    <3>2. SmallTable(ts[1]) /\ SmallTable(ts[2]) /\ SmallTable(ts[3]) /\ SmallTable(ts[4])
      BY SmallTables
    <3> QED BY <3>1, <3>2
  <2>1. SmallTable(VexPs) BY <2>2, SmallTables DEF VexPs
  <2> QED BY <2>1 DEF SmallTable
<1>2. \A k \in 0 .. 3 : ((15 - g.vvvv) * 8 + (IF g.vp = "VEX_128" THEN 0 ELSE 4) + k) \in 0 .. 127
  <2>1. g.vvvv \in 0 .. 15 BY DEF GContexts
  <2> QED BY <2>1
<1>0. b \in 0 .. 127 BY <1>1, <1>2
<1>3. (b + off("R", 128)) \in ByteValues /\ (b + off("W", 128)) \in ByteValues BY <1>0 DEF ByteValues
<1>4. (1 + off("R", 128) + off("X", 64) + off("B", 32)) \in ByteValues BY DEF ByteValues
<1>5. 196 \in ByteValues /\ 197 \in ByteValues BY DEF ByteValues
<1> HIDE DEF b, off
<1>6. /\ << 197, b + off("R", 128) >> \in Seq(ByteValues)
      /\ << 196, 1 + off("R", 128) + off("X", 64) + off("B", 32), b + off("W", 128) >> \in Seq(ByteValues)
  BY <1>3, <1>4, <1>5, ShortSequences
<1> QED BY <1>6 DEF vexPrefix, b, off

\* A byte that is there or not.
LEMMA SingleBytes == \A p, b : b \in ByteValues => If1(p, b) \in Seq(ByteValues)
BY ShortSequences DEF If1

\* The prefixes generated are bytes.
LEMMA PrefixTypes ==
  ASSUME NEW g \in GContexts, VexOK(g)
  PROVE  genPrefix(g) \in Seq(ByteValues)
<1> DEFINE rex == g.rex \cup IfIn("REXW" \in g.ps, {"W"})
<1>1. rex \in SUBSET RexBitNames BY DEF IfIn, RexBitNames, GContexts
<1>2. Weight(rex) \in 0 .. 15 BY DEF Weight
<1>3. g.vp # "VEX_No" => vexPrefix(g, rex) \in Seq(ByteValues)
  BY <1>1, VexPrefix DEF VexOK
<1> HIDE DEF rex
<1>4. (64 + Weight(rex)) \in ByteValues /\ {100, 101, 102, 242, 243} \subseteq ByteValues BY <1>2 DEF ByteValues
<1>5. /\ If1(g.so = "OSO_UseFS", 100) \in Seq(ByteValues) /\ If1(g.so = "OSO_UseGS", 101) \in Seq(ByteValues)
      /\ If1("66" \in g.ps, 102) \in Seq(ByteValues) /\ If1("F2" \in g.ps, 242) \in Seq(ByteValues)
      /\ If1("F3" \in g.ps, 243) \in Seq(ByteValues) /\ If1(rex # {}, 64 + Weight(rex)) \in Seq(ByteValues)
  BY <1>4, SingleBytes
<1>6. If1("66" \in g.ps, 102) \o If1("F2" \in g.ps, 242) \o If1("F3" \in g.ps, 243)
        \o If1(rex # {}, 64 + Weight(rex)) \in Seq(ByteValues)
  BY <1>5, Concatenations
<1>7. If1(g.so = "OSO_UseFS", 100) \o If1(g.so = "OSO_UseGS", 101) \in Seq(ByteValues)
  BY <1>5, Concatenations
<1> QED BY <1>3, <1>6, <1>7, Concatenations DEF genPrefix, rex

\* The results generating can have.
LEMMA CodeTypes ==
  /\ \A code \in Seq(ByteValues) : Code(code) \in Results
  /\ UnsupportedOperands \in Results /\ \A res \in {"abort", "instr"} : Result(res, << >>) \in Results
BY ShortSequences DEF Code, Result, Results, UnsupportedOperands

\* Prefixes, opcode, operands and immediate together.
LEMMA AppendedTypes ==
  ASSUME NEW g \in GContexts, NEW imm \in Seq(ByteValues)
  PROVE  appendOO(g, imm) \in Results
<1>1. CASE g.abort \/ ~VexOK(g) BY <1>1, CodeTypes DEF appendOO
<1>2. CASE ~g.abort /\ VexOK(g)
  <2>1. genPrefix(g) \in Seq(ByteValues) BY <1>2, PrefixTypes
  <2>2. g.opc \in Seq(ByteValues) /\ g.b \in Seq(ByteValues) BY DEF GContexts
  <2>3. g.vp # "VEX_No" => Tail(g.opc) \in Seq(ByteValues)
    <3>1. g.vp # "VEX_No" => g.opc # << >> BY <1>2 DEF VexOK
    <3> QED BY <3>1, <2>2, HeadTailProperties
  <2> DEFINE opc == IF g.vp = "VEX_No" THEN g.opc ELSE Tail(g.opc)
  <2>4. opc \in Seq(ByteValues) BY <2>2, <2>3
  <2> HIDE DEF opc
  <2>5. genPrefix(g) \o opc \o g.b \o imm \in Seq(ByteValues) BY <2>1, <2>2, <2>4, Concatenations
  <2> QED BY <1>2, <2>5, CodeTypes DEF appendOO, opc
<1> QED BY <1>1, <1>2

\* An immediate of integer type is appended as bytes.
LEMMA ImmediateTypes ==
  ASSUME NEW o \in Operands, o.vt \in Widths
  PROVE  appendI(o) \in Seq(ByteValues)
<1>1. ImmBytes[o.vt] \in 0 .. 8 BY DEF ImmBytes, Widths
<1> QED BY <1>1, LowTypes DEF appendI, Operands

\* The operand size prefix changes nothing else of a context.
LEMMA WithPrefix ==
  ASSUME NEW g \in GContexts, NEW o
  PROVE  With66(g, o) \in GContexts
BY DEF With66, GContexts, PrefixNames

\* The context generating starts with, and with an opcode.
LEMMA GContextTypes ==
  /\ GContext \in GContexts
  /\ \A g \in GContexts, opc \in Seq(ByteValues) : [g EXCEPT !.opc = opc] \in GContexts
<1>1. GContext \in GContexts BY ShortSequences DEF GContext, GContexts, PrefixNames, RexBitNames, Segments, VexTypes
<1> QED BY <1>1 DEF GContexts

\* Generating an instruction with two operands.
LEMMA GenModRM ==
  ASSUME NEW g \in GContexts, NEW opc \in Seq(ByteValues), NEW o1 \in Operands,
         NEW o2 \in Operands, NEW vt
  PROVE  genModRM(g, opc, o1, o2, vt) \in Results
<1> DEFINE c == calcModRM([g EXCEPT !.opc = opc], o1, o2)
           implied == IF vt = "VT_Implicit" THEN {"W"} ELSE {}
           d == [c EXCEPT !.rex = @ \ implied]
<1>1. c \in GContexts BY GContextTypes, ModRMsTypes
<1>2. d \in GContexts BY <1>1 DEF GContexts
<1>3. With66(d, o1) \in GContexts BY <1>2, WithPrefix
<1>4. appendOO(With66(d, o1), << >>) \in Results BY <1>3, AppendedTypes, ShortSequences
<1> QED BY <1>4 DEF genModRM

\* Generating an instruction with a digit, with and without an immediate.
LEMMA GenWithDigit ==
  ASSUME NEW opc \in Seq(ByteValues), NEW o \in Operands, NEW digit \in 0 .. 7
  PROVE  /\ \A w \in BOOLEAN : genDigitRM(opc, digit, o, w) \in Results
         /\ \A imm \in Operands : imm.vt \in Widths => genDigitMI(opc, digit, o, imm) \in Results
<1>1. [GContext EXCEPT !.opc = opc] \in GContexts BY GContextTypes
<1>2. \A w \in BOOLEAN :
        With66(calcModRMDigit([GContext EXCEPT !.opc = opc], o, digit, w), o) \in GContexts
  BY <1>1, ModRMTypes, WithPrefix
<1>3. \A w \in BOOLEAN : genDigitRM(opc, digit, o, w) \in Results
  BY <1>2, AppendedTypes, ShortSequences DEF genDigitRM
<1>4. \A imm \in Operands : imm.vt \in Widths => genDigitMI(opc, digit, o, imm) \in Results
  BY <1>2, AppendedTypes, ImmediateTypes DEF genDigitMI
<1> QED BY <1>3, <1>4

\* Generating an instruction with an immediate operand.
LEMMA GenImmediates ==
  ASSUME NEW o \in Operands, NEW imm \in Operands, imm.vt \in Widths
  PROVE  /\ \A opc \in Seq(ByteValues) : genModRMI(opc, o, o, imm) \in Results
         /\ genOI(184, o, imm) \in Results
<1>1. appendI(imm) \in Seq(ByteValues) BY ImmediateTypes
<1>2. ASSUME NEW opc \in Seq(ByteValues)
      PROVE  genModRMI(opc, o, o, imm) \in Results
  <2>1. [GContext EXCEPT !.opc = opc] \in GContexts BY GContextTypes
  <2>2. With66(calcModRM([GContext EXCEPT !.opc = opc], o, o), o) \in GContexts
    BY <2>1, ModRMsTypes, WithPrefix
  <2> QED BY <2>2, <1>1, AppendedTypes DEF genModRMI
<1> DEFINE g == [GContext EXCEPT !.opc = << 184 + (o.reg.ri % 8) >>,
                            !.rex = IfIn(o.reg.ri >= 8, {"B"}) \cup IfIn(o.vt = "VT_64", {"W"})]
<1>3. (184 + (o.reg.ri % 8)) \in ByteValues BY DEF ByteValues, Operands, Registers
<1>4. << 184 + (o.reg.ri % 8) >> \in Seq(ByteValues) BY <1>3, ShortSequences
<1>5. IfIn(o.reg.ri >= 8, {"B"}) \cup IfIn(o.vt = "VT_64", {"W"}) \in SUBSET RexBitNames
  BY DEF IfIn, RexBitNames
<1>6. g \in GContexts BY <1>4, <1>5, GContextTypes DEF GContexts
<1>7. appendOO(With66(g, o), appendI(imm)) \in Results BY <1>1, <1>6, WithPrefix, AppendedTypes
<1> QED BY <1>2, <1>7 DEF genOI

\* Reducing the width of an immediate gives an operand.
LEMMA ReducedTypes ==
  ASSUME NEW s \in Operands
  PROVE  reduceImm16to8(Reduced(s)) \in Operands /\ Reduced(s) \in Operands
         /\ reduceImm64to32(s) \in Operands
<1>1. ASSUME NEW o \in Operands, NEW from \in Widths, NEW to \in Widths
      PROVE  reduceImm(o, from, to) \in Operands
  <2> DEFINE n == ImmBytes[to]
             v == SignExtend(Low(o.val, ImmBytes[from]))
  <2>1. n \in 1 .. 8 BY DEF ImmBytes, Widths
  <2>2. CASE o.kind = "Imm" /\ o.vt = from /\ FitsSigned(v, n) /\ Low(v, n) # Lowest(n)
    <3>1. ImmBytes[from] \in 1 .. 8 BY DEF ImmBytes, Widths
    <3>2. v \in Values BY <3>1, ExtendedTypes DEF Operands
    <3>3. ZeroExtend(Low(v, n)) \in Values BY <3>2, <2>1, ExtendedTypes
    <3>4. to \in ValTypes BY DEF ValTypes
    <3> QED BY <3>3, <3>4, <2>2, OperandTypes DEF reduceImm
  <2>3. CASE ~(o.kind = "Imm" /\ o.vt = from /\ FitsSigned(v, n) /\ Low(v, n) # Lowest(n))
    BY <2>3 DEF reduceImm
  <2> QED BY <2>2, <2>3
<1>2. {"VT_8", "VT_16", "VT_32", "VT_64"} \subseteq Widths BY DEF Widths
<1> QED BY <1>1, <1>2 DEF reduceImm16to8, Reduced, reduceImm32to8, reduceImm64to32

\* Opcodes built from a base and the width stay below 256.
LEMMA OpcodeTypes ==
  /\ \A base \in 0 .. 240 : \A vt : << base + Size8(vt) >> \in Seq(ByteValues)
                               /\ << base + 2 + Size8(vt) >> \in Seq(ByteValues)
                               /\ << base + 4 + Size8(vt) >> \in Seq(ByteValues)
  /\ \A b \in ByteValues : << b >> \in Seq(ByteValues) /\ << 15, b >> \in Seq(ByteValues)
<1>1. \A vt : Size8(vt) \in {0, 1} BY DEF Size8
<1>2. ASSUME NEW base \in 0 .. 240, NEW vt
      PROVE  (base + Size8(vt)) \in ByteValues /\ (base + 2 + Size8(vt)) \in ByteValues
             /\ (base + 4 + Size8(vt)) \in ByteValues
  BY <1>1 DEF ByteValues
<1>3. 15 \in ByteValues BY DEF ByteValues
<1> QED BY <1>2, <1>3, ShortSequences

\* The forms without ModRM byte.
LEMMA ShortForm ==
  ASSUME NEW d, NEW opc \in Seq(ByteValues), NEW imm \in Seq(ByteValues)
  PROVE  Code(If1(d.vt = "VT_16", 102) \o If1(d.vt = "VT_64", 72) \o opc \o imm) \in Results
<1>1. 102 \in ByteValues /\ 72 \in ByteValues BY DEF ByteValues
<1>2. If1(d.vt = "VT_16", 102) \in Seq(ByteValues) /\ If1(d.vt = "VT_64", 72) \in Seq(ByteValues)
  BY <1>1, SingleBytes
<1>3. If1(d.vt = "VT_16", 102) \o If1(d.vt = "VT_64", 72) \o opc \o imm \in Seq(ByteValues)
  BY <1>2, Concatenations
<1> QED BY <1>3, CodeTypes

\* Generating ADD, SUB, CMP and the like.
LEMMA ArithmeticTypes ==
  ASSUME NEW d \in Operands, NEW s \in Operands, NEW base \in 0 .. 64, NEW digit \in 0 .. 7,
         NEW widths \in {AllWidths, Wide32}, NEW accu \in BOOLEAN
  PROVE  arithmetic(d, s, base, digit, widths, accu) \in Results
<1> USE DEF AllWidths, Wide32
<1>0. widths \subseteq Widths BY DEF Widths
<1>1. base \in 0 .. 240 /\ 131 \in ByteValues /\ 128 \in 0 .. 240 BY DEF ByteValues
<1>2. /\ << base + Size8(d.vt) >> \in Seq(ByteValues)
      /\ << base + 2 + Size8(d.vt) >> \in Seq(ByteValues)
      /\ << base + 4 + Size8(d.vt) >> \in Seq(ByteValues)
      /\ << 131 >> \in Seq(ByteValues)
      /\ << 128 + Size8(d.vt) >> \in Seq(ByteValues)
  BY <1>1, OpcodeTypes
<1>3. /\ genModRM(NoG, << base + Size8(d.vt) >>, d, s, "VT_None") \in Results
      /\ genModRM(NoG, << base + 2 + Size8(d.vt) >>, s, d, "VT_None") \in Results
  BY <1>2, GenModRM, GContextTypes DEF NoG
<1>4. s.vt \in Widths => /\ genDigitMI(<< 131 >>, digit, d, s) \in Results
                         /\ genDigitMI(<< 128 + Size8(d.vt) >>, digit, d, s) \in Results
  BY <1>2, GenWithDigit
<1>5. ASSUME s.vt \in Widths
      PROVE  Code(If1(d.vt = "VT_16", 102) \o If1(d.vt = "VT_64", 72)
                  \o << base + 4 + Size8(d.vt) >> \o appendI(s)) \in Results
  <2>1. appendI(s) \in Seq(ByteValues) BY <1>5, ImmediateTypes
  <2> QED BY <2>1, <1>2, ShortForm
<1>6. UnsupportedOperands \in Results BY CodeTypes
<1>7. CASE d.vt \notin widths BY <1>7, <1>6 DEF arithmetic
<1>8. CASE d.vt \in widths /\ s.vt \notin Widths
  <2>1. s.vt # d.vt /\ s.vt \notin {"VT_8", "VT_16", "VT_32"} BY <1>8, <1>0 DEF Widths
  <2> QED BY <1>8, <2>1, <1>6 DEF arithmetic
<1>9. CASE d.vt \in widths /\ s.vt \in Widths
  BY <1>9, <1>3, <1>4, <1>5, <1>6 DEF arithmetic
<1> QED BY <1>7, <1>8, <1>9

\* Generating TEST.
LEMMA TestTypes ==
  ASSUME NEW d \in Operands, NEW s \in Operands
  PROVE  test(d, s) \in Results
<1>1. /\ << 132 + Size8(d.vt) >> \in Seq(ByteValues) /\ << 168 + Size8(d.vt) >> \in Seq(ByteValues)
      /\ << 246 + Size8(d.vt) >> \in Seq(ByteValues)
  <2>1. (246 + Size8(d.vt)) \in ByteValues BY DEF Size8, ByteValues
  <2> QED BY <2>1, OpcodeTypes
<1>2. genModRM(NoG, << 132 + Size8(d.vt) >>, d, s, "VT_None") \in Results
  BY <1>1, GenModRM, GContextTypes DEF NoG
<1>3. ASSUME s.vt \in Widths
      PROVE  Code(If1(d.vt = "VT_16", 102) \o If1(d.vt = "VT_64", 72)
                  \o << 168 + Size8(d.vt) >> \o appendI(s)) \in Results
  <2>1. appendI(s) \in Seq(ByteValues) BY <1>3, ImmediateTypes
  <2> QED BY <2>1, <1>1, ShortForm, ZenonT(40)
<1>4. s.vt \in Widths => genDigitMI(<< 246 + Size8(d.vt) >>, 0, d, s) \in Results
  <2>1. 0 \in 0 .. 7 OBVIOUS
  <2> QED BY <2>1, <1>1, GenWithDigit
<1>5. UnsupportedOperands \in Results BY CodeTypes
<1>6. CASE d.vt \notin AllWidths BY <1>5, <1>6 DEF test
<1>7. CASE d.vt \in AllWidths /\ s.vt \notin Widths
  <2>1. s.vt # d.vt /\ s.vt # "VT_32" BY <1>7 DEF Widths, AllWidths, Wide32
  <2> QED BY <1>7, <2>1, <1>5 DEF test
<1>8. CASE d.vt \in AllWidths /\ s.vt \in Widths
  BY <1>8, <1>2, <1>3, <1>4, <1>5 DEF test
<1> QED BY <1>6, <1>7, <1>8

\* Generating MOV.
LEMMA MoveTypes ==
  ASSUME NEW d \in Operands, NEW s \in Operands
  PROVE  move(d, s) \in Results
<1>1. \A b \in {49, 99, 137, 139, 199} : << b >> \in Seq(ByteValues)
  <2>1. {49, 99, 137, 139, 199} \subseteq ByteValues BY DEF ByteValues
  <2> QED BY <2>1, OpcodeTypes
<1>2. [s EXCEPT !.vt = "VT_64"] \in Operands BY DEF Operands, ValTypes, Widths
<1>3. /\ genModRM(NoG, << 99 >>, [s EXCEPT !.vt = "VT_64"], d, "VT_None") \in Results
      /\ genModRM(NoG, << 137 >>, d, s, "VT_None") \in Results
      /\ genModRM(NoG, << 139 >>, s, d, "VT_None") \in Results
      /\ genModRM(NoG, << 49 >>, d, d, "VT_None") \in Results
  BY <1>1, <1>2, GenModRM, GContextTypes DEF NoG
<1>4. s.vt \in Wide32 => genDigitMI(<< 199 >>, 0, d, s) \in Results /\ genOI(184, d, s) \in Results
  <2>1. 0 \in 0 .. 7 /\ Wide32 \subseteq Widths BY DEF Wide32, Widths
  <2> QED BY <2>1, <1>1, GenWithDigit, GenImmediates
<1>5. UnsupportedOperands \in Results /\ Code(<< >>) \in Results BY CodeTypes, ShortSequences
<1> QED BY <1>3, <1>4, <1>5 DEF move

\* Generating IMUL with two operands.
LEMMA ProductTypes ==
  ASSUME NEW d \in Operands, NEW s \in Operands
  PROVE  product(d, s) \in Results
<1>1. /\ << 15, 175 >> \in Seq(ByteValues) /\ << 107 >> \in Seq(ByteValues)
      /\ << 105 >> \in Seq(ByteValues)
  <2>1. {175, 107, 105} \subseteq ByteValues BY DEF ByteValues
  <2> QED BY <2>1, OpcodeTypes
<1>2. genModRM(NoG, << 15, 175 >>, s, d, "VT_None") \in Results
  BY <1>1, GenModRM, GContextTypes DEF NoG
<1>3. s.vt \in Widths => /\ genModRMI(<< 107 >>, d, d, s) \in Results
                         /\ genModRMI(<< 105 >>, d, d, s) \in Results
  BY <1>1, GenImmediates
<1>4. UnsupportedOperands \in Results BY CodeTypes
<1> QED BY <1>2, <1>3, <1>4 DEF product, SameWide, Widths

\* Generating instructions with one operand, and shifts.
LEMMA UnaryTypes ==
  ASSUME NEW i \in Instrs
  PROVE  /\ \A opc \in ByteValues, digit \in 0 .. 7 : \A widths : unary(i, opc, digit, widths) \in Results
         /\ \A digit \in 0 .. 7 : shift(i, digit) \in Results
<1>1. Dst(i) \in Operands /\ Src(i) \in Operands BY OperandsOf
<1>2. UnsupportedOperands \in Results BY CodeTypes
<1>3. ASSUME NEW opc \in ByteValues, NEW digit \in 0 .. 7, NEW widths
      PROVE  unary(i, opc, digit, widths) \in Results
  <2>1. << opc >> \in Seq(ByteValues) BY OpcodeTypes
  <2>2. genDigitRM(<< opc >>, digit, Dst(i), FALSE) \in Results BY <1>1, <2>1, GenWithDigit
  <2> QED BY <2>2, <1>2 DEF unary
<1>4. ASSUME NEW digit \in 0 .. 7
      PROVE  shift(i, digit) \in Results
  <2>1. 193 \in ByteValues BY DEF ByteValues
  <2>2. << 193 >> \in Seq(ByteValues) BY <2>1, OpcodeTypes
  <2>3. Src(i).vt = "VT_8" => Src(i).vt \in Widths BY DEF Widths
  <2>4. Src(i).vt = "VT_8" => genDigitMI(<< 193 >>, digit, Dst(i), Src(i)) \in Results
    BY <1>1, <2>2, <2>3, GenWithDigit
  <2> QED BY <2>4, <1>2 DEF shift
<1> QED BY <1>3, <1>4

\* Generating PUSH and POP.
LEMMA StackTypes ==
  ASSUME NEW i \in Instrs
  PROVE  genPush(i) \in Results /\ genPop(i) \in Results
<1>1. Dst(i) \in Operands BY OperandsOf
<1>2. ASSUME NEW opc \in {80, 88}
      PROVE  pushPopReg(Dst(i), opc) \in Results
  <2>1. 65 \in ByteValues /\ (opc + (Dst(i).reg.ri % 8)) \in ByteValues
    BY <1>1 DEF ByteValues, Operands, Registers
  <2>2. If1(Dst(i).reg.ri >= 8, 65) \o << opc + (Dst(i).reg.ri % 8) >> \in Seq(ByteValues)
    BY <2>1, SingleBytes, ShortSequences, Concatenations
  <2> QED BY <2>2, CodeTypes DEF pushPopReg
<1>3. genDigitRM(<< 255 >>, 6, Dst(i), TRUE) \in Results
  <2>1. 255 \in ByteValues /\ 6 \in 0 .. 7 BY DEF ByteValues
  <2>2. << 255 >> \in Seq(ByteValues) BY <2>1, OpcodeTypes
  <2> QED BY <2>1, <2>2, <1>1, GenWithDigit
<1>4. UnsupportedOperands \in Results BY CodeTypes
<1> QED BY <1>2, <1>3, <1>4 DEF genPush, genPop

\* Generating vector instructions, known or passed through.
LEMMA VectorTypes ==
  ASSUME NEW i \in Instrs
  PROVE  /\ i.type \in DOMAIN VecPs => genVec(i) \in Results
         /\ genPassThrough(i) \in Results
<1>1. Dst(i) \in Operands /\ Src(i) \in Operands /\ Src2(i) \in Operands BY OperandsOf
<1>2. ASSUME i.type \in DOMAIN VecPs
      PROVE  genVec(i) \in Results
  <2>1. VecPs[i.type] \in SUBSET PrefixNames BY <1>2 DEF VecPs, PrefixNames
  <2>2. [GContext EXCEPT !.ps = VecPs[i.type]] \in GContexts
    BY <2>1, GContextTypes DEF GContexts
  <2>3. 88 \in ByteValues BY DEF ByteValues
  <2>4. << 15, 88 >> \in Seq(ByteValues) BY <2>3, OpcodeTypes
  <2> QED BY <1>1, <2>2, <2>4, GenModRM DEF genVec
<1> DEFINE g == [GContext EXCEPT !.ps = i.pt.ps, !.vp = i.pt.vex]
<1>3. /\ i.pt.ps \in SUBSET PrefixNames /\ i.pt.vex \in VexTypes
      /\ i.pt.opc \in Seq(ByteValues) /\ i.pt.enc \in Encodings
  BY DEF Instrs, PassThroughs
<1>4. g \in GContexts BY <1>3, GContextTypes DEF GContexts
<1>5. Src(i).reg.ri \in 0 .. 15 BY <1>1 DEF Operands, Registers
<1>6. [g EXCEPT !.vvvv = Src(i).reg.ri] \in GContexts BY <1>4, <1>5 DEF GContexts
<1> HIDE DEF g
<1>7. appendOO([g EXCEPT !.opc = i.pt.opc], << >>) \in Results
  BY <1>3, <1>4, GContextTypes, AppendedTypes, ShortSequences
<1>8. /\ genModRM(g, i.pt.opc, Dst(i), Src(i), i.vtype) \in Results
      /\ genModRM(g, i.pt.opc, Src(i), Dst(i), i.vtype) \in Results
      /\ genModRM([g EXCEPT !.vvvv = Src(i).reg.ri], i.pt.opc, Src2(i), Dst(i), i.vtype) \in Results
  BY <1>1, <1>3, <1>4, <1>6, GenModRM
<1>9. genPassThrough(i) \in Results BY <1>3, <1>7, <1>8 DEF genPassThrough, Encodings, g
<1> QED BY <1>2, <1>9

\* Whatever instruction is generated, the result is bytes or one of the errors.
LEMMA GeneratedTypes ==
  ASSUME NEW i \in Instrs
  PROVE  genOne(i) \in Results
<1>1. Dst(i) \in Operands /\ Src(i) \in Operands BY OperandsOf
<1>2. /\ reduceImm16to8(Reduced(Src(i))) \in Operands /\ Reduced(Src(i)) \in Operands
      /\ reduceImm64to32(Src(i)) \in Operands
  BY <1>1, ReducedTypes
<1>3. /\ genAdd(i) \in Results /\ genAnd(i) \in Results /\ genOr(i) \in Results
      /\ genSub(i) \in Results /\ genXor(i) \in Results /\ genCmp(i) \in Results
  <2>1. /\ {0, 32, 8, 40, 48, 56} \subseteq 0 .. 64 /\ {0, 4, 1, 5, 6, 7} \subseteq 0 .. 7
    OBVIOUS
  <2> QED BY <1>1, <1>2, <2>1, ArithmeticTypes DEF genAdd, genAnd, genOr, genSub, genXor, genCmp
<1>4. /\ genTest(i) \in Results /\ genMov(i) \in Results /\ genIMul(i) \in Results
  BY <1>1, <1>2, TestTypes, MoveTypes, ProductTypes DEF genTest, genMov, genIMul
<1>5. i.type \in Range(CMovTypes) => genCMov(i) \in Results
  <2> SUFFICES ASSUME i.type \in Range(CMovTypes) PROVE genCMov(i) \in Results
    OBVIOUS
  <2> DEFINE k == CHOOSE k \in 1 .. 16 : i.type = CMovTypes[k]
  <2>1. k \in 1 .. 16 BY DEF Range, CMovTypes
  <2> HIDE DEF k
  <2>2. (64 + k - 1) \in ByteValues BY <2>1 DEF ByteValues
  <2>3. << 64 + k - 1 >> \in Seq(ByteValues) BY <2>2, OpcodeTypes
  <2>4. genModRM(NoG, << 64 + k - 1 >>, Src(i), Dst(i), "VT_None") \in Results
    BY <1>1, <2>3, GenModRM, GContextTypes DEF NoG
  <2> QED BY <2>4, CodeTypes DEF genCMov, k
<1>6. /\ genIDiv1(i) \in Results /\ genInc(i) \in Results /\ genDec(i) \in Results
      /\ genNeg(i) \in Results
  <2>1. {0, 1, 3, 7} \subseteq 0 .. 7 /\ {247, 255} \subseteq ByteValues BY DEF ByteValues
  <2>2. (246 + Size8(Dst(i).vt)) \in ByteValues BY DEF ByteValues, Size8
  <2> QED BY <2>1, <2>2, UnaryTypes DEF genIDiv1, genInc, genDec, genNeg
<1>7. genShl(i) \in Results /\ genShr(i) \in Results /\ genSar(i) \in Results
  <2>1. {4, 5, 7} \subseteq 0 .. 7 OBVIOUS
  <2> QED BY <2>1, UnaryTypes DEF genShl, genShr, genSar
<1>8. genLea(i) \in Results
  <2>1. 141 \in ByteValues BY DEF ByteValues
  <2>2. << 141 >> \in Seq(ByteValues) BY <2>1, OpcodeTypes
  <2>3. genModRM(NoG, << 141 >>, Src(i), Dst(i), "VT_None") \in Results
    BY <1>1, <2>2, GenModRM, GContextTypes DEF NoG
  <2> QED BY <2>3, CodeTypes DEF genLea
<1>9. /\ genCltq \in Results /\ genCwtl \in Results /\ genRet \in Results
      /\ genCqto(i) \in Results
  <2>1. {72, 152, 195, 153} \subseteq ByteValues BY DEF ByteValues
  <2>2. /\ << 72, 152 >> \in Seq(ByteValues) /\ << 152 >> \in Seq(ByteValues)
        /\ << 195 >> \in Seq(ByteValues) /\ << 153 >> \in Seq(ByteValues)
        /\ << 72, 153 >> \in Seq(ByteValues)
    BY <2>1, ShortSequences
  <2> QED BY <2>2, CodeTypes DEF genCltq, genCwtl, genRet, genCqto
<1>10. i.type \in DOMAIN VecPs => genVec(i) \in Results BY VectorTypes
<1>11. genPush(i) \in Results /\ genPop(i) \in Results BY StackTypes
<1>12. Code(<< >>) \in Results /\ Result("instr", << >>) \in Results BY CodeTypes, ShortSequences
<1>13. genType(i) \in Results
  BY <1>3, <1>4, <1>5, <1>6, <1>7, <1>8, <1>9, <1>10, <1>11, <1>12 DEF genType
<1>14. genPassThrough(i) \in Results BY VectorTypes
<1> QED BY <1>13, <1>14 DEF genOne

----------------------------------------------------------------------------
(***************************************************************************)
(* Contexts of the decoder                                                 *)
(***************************************************************************)
InstrTypes == PlainTypes \cup EndTypes \cup {"None"}
Errors     == {"none", "BufferOverflow", "BadOpcode", "BadPrefix", "BadOperands"}
Contexts ==
  [f : Nat, off : Nat, iaddr : Nat, rex : SUBSET RexBitNames, hasRex : BOOLEAN, segOv : Segments,
   ps : SUBSET PrefixNames, vex : VexTypes, vvvv : -1 .. 15, vt : ValTypes, opc : Seq(ByteValues),
   digit : 0 .. 7, it : InstrTypes, o1 : Operands, o2 : Operands, o3 : Operands, oe : Encodings,
   ii : Instrs, exit : BOOLEAN, error : Errors, abort : BOOLEAN]

MemoryTyped == \A a \in DOMAIN mem : mem[a] \in ByteValues

\* A context of an instruction that is not yet added.
Ready(c) ==
  /\ c \in Contexts
  /\ c.ii = NoInstr /\ c.error = "none" /\ c.exit = FALSE
  /\ c.iaddr < c.f + c.off

\* d is about the same instruction as c.
SameAs(c, d) == d.f = c.f /\ d.iaddr = c.iaddr

\* d is c with more of the instruction parsed.
Parsed(c, d) == Ready(d) /\ SameAs(c, d) /\ d.vt = c.vt /\ d.it = c.it /\ d.vvvv = c.vvvv

Full == Len(decInstr) >= decInstrCapacity

\* The instruction is added, with type it, if the buffer is not full.
Added(c, d, it) ==
  /\ d \in Contexts /\ SameAs(c, d) /\ d.exit = FALSE
  /\ d.iaddr < d.f + d.off
  /\ IF Full THEN d.ii = NoInstr /\ d.error # "none"
     ELSE /\ d.ii.type = it /\ d.ii.addr = d.iaddr /\ d.ii.len = d.f + d.off - d.iaddr
          /\ d.error = "none"

\* What the decoding of an instruction ends with: the instruction, which ends
\* the block or not, or no instruction if the buffer is full.
Ends(d) == d.exit \/ d.error # "none"
Placed(d) ==
  /\ d.iaddr < d.f + d.off
  /\ IF Full THEN d.ii = NoInstr /\ d.error # "none"
     ELSE /\ d.ii.type # "None" /\ d.ii.addr = d.iaddr /\ d.ii.len = d.f + d.off - d.iaddr
          /\ Ends(d) <=> d.ii.type \in EndTypes
Done(c, d) == d \in Contexts /\ SameAs(c, d) /\ (d.abort \/ Placed(d))

\* The two kinds of instructions differ, and conditions give the kind expected.
LEMMA Types ==
  /\ \A it \in PlainTypes : it \notin EndTypes /\ it # "None"
  /\ \A it \in EndTypes : it # "None"
  /\ \A k \in 1 .. 16 : JccTypes[k] \in EndTypes /\ CMovTypes[k] \in PlainTypes
<1>1. \A it \in PlainTypes : it \notin EndTypes /\ it # "None"
  BY DEF PlainTypes, EndTypes, JccNames
<1>2. \A it \in EndTypes : it # "None" BY DEF EndTypes, JccNames
<1>3. \A k \in 1 .. 16 : JccTypes[k] \in EndTypes BY DEF EndTypes, JccNames, JccTypes
<1>4. \A k \in 1 .. 16 : CMovTypes[k] \in PlainTypes BY DEF PlainTypes, CMovTypes
<1> QED BY <1>1, <1>2, <1>3, <1>4

\* Copies of operands are operands.
LEMMA Copies == \A o \in Operands : copyOperand(o) \in Operands
BY OperandTypes DEF copyOperand, Operands

\* New instructions are instructions.
LEMMA NewInstr ==
  /\ NoPassThrough \in PassThroughs
  /\ NoInstr \in Instrs /\ NoInstr.type = "None"
  /\ \A it \in InstrTypes, vt \in ValTypes, ops \in OperandLists :
       Instruction(it, vt, ops) \in Instrs
<1>1. NoPassThrough \in PassThroughs
  BY ShortSequences DEF NoPassThrough, PassThroughs, VexTypes, Encodings
<1>2. ASSUME NEW it \in InstrTypes, NEW vt \in ValTypes, NEW ops \in OperandLists
      PROVE  Instruction(it, vt, ops) \in Instrs
  BY <1>1 DEF Instruction, Instrs, InstrTypes
<1>3. << >> \in OperandLists BY ShortSequences DEF OperandLists
<1>4. "None" \in InstrTypes /\ "VT_None" \in ValTypes BY DEF InstrTypes, ValTypes
<1>5. NoInstr \in Instrs BY <1>2, <1>3, <1>4 DEF NoInstr
<1> QED BY <1>1, <1>2, <1>5 DEF NoInstr, Instruction

\* Up to three operands.
LEMMA Lists ==
  /\ << >> \in OperandLists
  /\ \A o \in Operands : << o >> \in OperandLists
  /\ \A o, p \in Operands : << o, p >> \in OperandLists
  /\ \A o, p, q \in Operands : << o, p, q >> \in OperandLists
BY ShortSequences DEF OperandLists

\* A copy of an instruction has its type, address and length.
LEMMA CopiedInstr ==
  ASSUME NEW i \in Instrs
  PROVE  /\ copyInstr(i) \in Instrs
         /\ copyInstr(i).type = i.type /\ copyInstr(i).addr = i.addr
         /\ copyInstr(i).len = i.len
<1> DEFINE ops == [k \in DOMAIN i.ops |-> copyOperand(i.ops[k])]
<1>1. i.ops \in Seq(Operands) /\ Len(i.ops) <= 3 BY DEF Instrs, OperandLists
<1>2. ops \in Seq(Operands) /\ Len(ops) = Len(i.ops)
  <2>1. DOMAIN i.ops = 1 .. Len(i.ops) /\ Len(i.ops) \in Nat BY <1>1, LenProperties
  <2>2. \A k \in 1 .. Len(i.ops) : copyOperand(i.ops[k]) \in Operands
    BY <1>1, Copies, ElementOfSeq
  <2> HIDE DEF ops
  <2>3. ops = [k \in 1 .. Len(i.ops) |-> copyOperand(i.ops[k])] BY <2>1 DEF ops
  <2> QED BY <2>1, <2>2, <2>3, IsASeq, LenProperties
<1>3. ops \in OperandLists BY <1>1, <1>2 DEF OperandLists
<1> HIDE DEF ops
<1>4. copyInstr(i) = [i EXCEPT !.ops = ops] BY DEF copyInstr, ops
<1> QED BY <1>3, <1>4 DEF Instrs

\* addInstr appends one instruction, with the bytes parsed so far.
LEMMA AddInstr ==
  ASSUME NEW c, Ready(c), NEW it \in InstrTypes, NEW vt \in ValTypes, NEW ops \in OperandLists
  PROVE  Added(c, addInstr(c, it, vt, ops), it)
<1> DEFINE i == [Instruction(it, vt, ops) EXCEPT !.addr = c.iaddr, !.len = c.f + c.off - c.iaddr]
           d == [c EXCEPT !.ii = copyInstr(i)]
<1>1. /\ c \in Contexts /\ c.f \in Nat /\ c.off \in Nat /\ c.iaddr \in Nat
      /\ c.iaddr < c.f + c.off /\ c.error = "none" /\ c.exit = FALSE
  BY DEF Ready, Contexts
<1>2. Instruction(it, vt, ops) \in Instrs BY NewInstr
<1>3. i \in Instrs /\ i.type = it /\ i.addr = c.iaddr /\ i.len = c.f + c.off - c.iaddr
  <2>1. c.f + c.off - c.iaddr \in Nat BY <1>1
  <2>2. Instruction(it, vt, ops).type = it BY DEF Instruction
  <2> QED BY <1>1, <1>2, <2>1, <2>2 DEF Instrs
<1> HIDE DEF i
<1>4. /\ copyInstr(i) \in Instrs /\ copyInstr(i).type = it /\ copyInstr(i).addr = c.iaddr
      /\ copyInstr(i).len = c.f + c.off - c.iaddr
  BY <1>3, CopiedInstr
<1>5. CASE Full
  <2>1. addInstr(c, it, vt, ops) = [c EXCEPT !.error = "BufferOverflow", !.ii = NoInstr]
    BY <1>5 DEF addInstr, Full
  <2> QED BY <1>1, <1>5, <2>1, NewInstr DEF Added, SameAs, Contexts, Errors
<1>6. CASE ~Full
  <2>1. addInstr(c, it, vt, ops) = Require(d, CanCopyInstr(i))
    BY <1>6 DEF addInstr, Full, i
  <2>2. Added(c, d, it) BY <1>1, <1>4, <1>6 DEF Added, SameAs, Contexts
  <2>3. Added(c, [d EXCEPT !.abort = TRUE], it)
    BY <1>1, <1>4, <1>6 DEF Added, SameAs, Contexts
  <2> HIDE DEF d
  <2> QED BY <2>1, <2>2, <2>3 DEF Require
<1> QED BY <1>5, <1>6

\* A failing assertion keeps what was added.
LEMMA Required ==
  ASSUME NEW c, NEW d, NEW it, NEW p, Added(c, d, it)
  PROVE  Added(c, Require(d, p), it)
BY DEF Added, Require, SameAs, Contexts

\* All ways to add an instruction.
LEMMA AddTypes ==
  ASSUME NEW c, Ready(c), NEW it \in InstrTypes
  PROVE  /\ \A vt \in ValTypes : /\ Added(c, addSimple(c, it, vt), it)
                                 /\ Added(c, addBinaryOp(c, it, vt), it)
                                 /\ Added(c, addTernaryOp(c, it, vt), it)
         /\ \A o \in Operands : Added(c, addUnaryOp(c, it, o), it)
<1>1. c.o1 \in Operands /\ c.o2 \in Operands /\ c.o3 \in Operands BY DEF Ready, Contexts
<1>2. /\ << >> \in OperandLists /\ << c.o1, c.o2 >> \in OperandLists
      /\ << c.o1, c.o2, c.o3 >> \in OperandLists
      /\ \A o \in Operands : << o >> \in OperandLists
  BY <1>1, Lists
<1>3. "VT_None" \in ValTypes BY DEF ValTypes
<1>4. \A vt \in ValTypes, ops \in OperandLists : Added(c, addInstr(c, it, vt, ops), it) BY AddInstr
<1>5. \A vt \in ValTypes, ops \in OperandLists : Added(c, addOps(c, it, vt, ops), it)
  <2> SUFFICES ASSUME NEW vt \in ValTypes, NEW ops \in OperandLists
               PROVE  Added(c, addOps(c, it, vt, ops), it)
    OBVIOUS
  <2> DEFINE d == addInstr(c, it, vt, ops)
  <2>1. Added(c, d, it) BY <1>4
  <2> HIDE DEF d
  <2>2. addOps(c, it, vt, ops) = Require(d, vt \notin {"VT_None", "VT_Implicit"} => vt = ops[1].vt)
    BY DEF addOps, d
  <2> QED BY <2>1, <2>2, Required DEF Require
<1> QED BY <1>2, <1>3, <1>4, <1>5 DEF addSimple, addBinaryOp, addTernaryOp, addUnaryOp

\* What may be changed of an instruction that was added.
LEMMA ChangedTypes ==
  ASSUME NEW c, NEW d, NEW it, it # "None", Added(c, d, it)
  PROVE  /\ \A vt \in ValTypes : Added(c, setVType(d, vt), it)
         /\ \A vex \in VexTypes, ps \in SUBSET PrefixNames, enc \in Encodings,
               sc \in {"SC_None", "SC_dstDyn"} : Added(c, attach(d, vex, ps, enc, sc), it)
<1>1. d \in Contexts /\ d.ii \in Instrs /\ d.opc \in Seq(ByteValues) BY DEF Added, Contexts
<1>2. ASSUME NEW vt \in ValTypes
      PROVE  Added(c, setVType(d, vt), it)
  <2>1. CASE d.ii = NoInstr
    BY <2>1, Required DEF setVType
  <2>2. CASE d.ii # NoInstr
    <3> DEFINE i == [d.ii EXCEPT !.vtype = vt]
    <3>1. setVType(d, vt) = [d EXCEPT !.ii = i] BY <2>2 DEF setVType
    <3>2. ~Full BY <2>2 DEF Added
    <3>3. i \in Instrs /\ i.type = d.ii.type /\ i.addr = d.ii.addr /\ i.len = d.ii.len
      BY <1>1 DEF Instrs
    <3> HIDE DEF i
    <3> QED BY <1>1, <3>1, <3>2, <3>3 DEF Added, SameAs, Contexts
  <2> QED BY <2>1, <2>2
<1>3. ASSUME NEW vex \in VexTypes, NEW ps \in SUBSET PrefixNames, NEW enc \in Encodings,
             NEW sc \in {"SC_None", "SC_dstDyn"}
      PROVE  Added(c, attach(d, vex, ps, enc, sc), it)
  <2>1. CASE d.ii = NoInstr BY <2>1 DEF attach
  <2>2. CASE d.ii # NoInstr
    <3> DEFINE i == attachPassthrough(d.ii, vex, ps, enc, sc, d.opc)
    <3>1. attach(d, vex, ps, enc, sc) = [d EXCEPT !.ii = i] BY <2>2 DEF attach
    <3>2. ~Full BY <2>2 DEF Added
    <3>3. i \in Instrs /\ i.type = d.ii.type /\ i.addr = d.ii.addr /\ i.len = d.ii.len
      BY <1>1 DEF attachPassthrough, Instrs, PassThroughs
    <3> HIDE DEF i
    <3> QED BY <1>1, <3>1, <3>2, <3>3 DEF Added, SameAs, Contexts
  <2> QED BY <2>1, <2>2
<1> QED BY <1>2, <1>3

\* A handler is done when it has added an instruction that does not end a block.
LEMMA PlainInstr ==
  ASSUME NEW c, NEW d, NEW it \in PlainTypes, Added(c, d, it)
  PROVE  Done(c, d)
BY Types DEF Added, Done, Placed, Ends

\* It is done when it has added one that does, and requests to stop.
LEMMA EndInstr ==
  ASSUME NEW c, NEW d, NEW it \in EndTypes, Added(c, d, it)
  PROVE  Done(c, [d EXCEPT !.exit = TRUE])
BY Types DEF Added, Done, Placed, Ends, SameAs, Contexts

\* A decode error adds the instruction Invalid, which ends the block.
LEMMA DecodeErrors ==
  ASSUME NEW c, Ready(c), NEW et \in {"BadOpcode", "BadPrefix", "BadOperands"}
  PROVE  Done(c, markDecodeError(c, et))
<1>1. "Invalid" \in EndTypes /\ "Invalid" \in InstrTypes /\ "VT_None" \in ValTypes
  BY DEF EndTypes, InstrTypes, ValTypes
<1> DEFINE d == addSimple(c, "Invalid", "VT_None")
<1>2. Added(c, d, "Invalid") BY <1>1, AddTypes
<1> HIDE DEF d
<1>3. markDecodeError(c, et) = [d EXCEPT !.error = et] BY DEF markDecodeError, d
<1>4. et \in Errors /\ et # "none" BY DEF Errors
<1> QED BY <1>1, <1>2, <1>3, <1>4, Types DEF Added, Done, Placed, Ends, SameAs, Contexts

\* What was parsed before does not matter for being done.
LEMMA DoneOf ==
  ASSUME NEW c, NEW d, NEW e, SameAs(c, d), Done(d, e)
  PROVE  Done(c, e)
BY DEF SameAs, Done

\* Nor does a failing assertion.
LEMMA DoneRequired ==
  ASSUME NEW c, NEW d, NEW p, Done(c, d)
  PROVE  Done(c, Require(d, p))
BY DEF Done, Require, SameAs, Placed, Ends, Contexts

----------------------------------------------------------------------------
(***************************************************************************)
(* Parsing operands                                                        *)
(***************************************************************************)
\* Reading memory gives bytes.
LEMMA BytesRead ==
  ASSUME MemoryTyped
  PROVE  /\ \A c, k : Byte(c, k) \in ByteValues
         /\ \A c : \A n \in Nat : Read(c, n) \in Seq(ByteValues) /\ Len(Read(c, n)) = n
<1>1. 195 \in ByteValues BY DEF ByteValues
<1>2. \A c, k : Byte(c, k) \in ByteValues BY <1>1 DEF Byte, MemoryTyped
<1>3. ASSUME NEW c, NEW n \in Nat
      PROVE  Read(c, n) \in Seq(ByteValues) /\ Len(Read(c, n)) = n
  <2>1. \A k \in 1 .. n : Byte(c, k - 1) \in ByteValues BY <1>2
  <2>2. Read(c, n) = [k \in 1 .. n |-> Byte(c, k - 1)] BY DEF Read
  <2> QED BY <2>1, <2>2, IsASeq, LenProperties
<1> QED BY <1>2, <1>3

\* Values of up to 8 bytes read from memory.
LEMMA ReadValues ==
  ASSUME MemoryTyped, NEW c, NEW n \in 1 .. 8
  PROVE  SignExtend(Read(c, n)) \in Values /\ ZeroExtend(Read(c, n)) \in Values
<1>1. Read(c, n) \in Seq(ByteValues) /\ Len(Read(c, n)) = n BY BytesRead
<1>2. Read(c, n) # << >> BY <1>1
<1> QED BY <1>1, <1>2, ValueTypes

\* Parsing in steps.
LEMMA ParsedAll ==
  /\ \A c : Ready(c) => Parsed(c, c)
  /\ \A c, d, e : Parsed(c, d) /\ Parsed(d, e) => Parsed(c, e)
BY DEF Parsed, SameAs

\* The single changes parsing makes.
LEMMA ParsedParts ==
  ASSUME NEW c, Ready(c)
  PROVE  /\ \A n \in Nat : Parsed(c, Skip(c, n))
         /\ \A m \in {"o1", "o2", "o3"}, o \in Operands : Parsed(c, [c EXCEPT ![m] = o])
         /\ \A n \in 0 .. 7 : Parsed(c, [c EXCEPT !.digit = n])
         /\ \A oe \in Encodings : Parsed(c, [c EXCEPT !.oe = oe])
         /\ Parsed(c, [c EXCEPT !.abort = TRUE])
<1>1. ASSUME NEW n \in Nat
      PROVE  Parsed(c, Skip(c, n))
  <2>1. c \in Contexts /\ c.f \in Nat /\ c.off \in Nat /\ c.iaddr \in Nat /\ c.iaddr < c.f + c.off
    BY DEF Ready, Contexts
  <2>2. c.off + n \in Nat /\ c.iaddr < c.f + (c.off + n) BY <2>1
  <2>3. Skip(c, n) = [c EXCEPT !.off = c.off + n] BY DEF Skip
  <2> QED BY <2>1, <2>2, <2>3 DEF Ready, Parsed, SameAs, Contexts
<1>2. ASSUME NEW m \in {"o1", "o2", "o3"}, NEW o \in Operands
      PROVE  Parsed(c, [c EXCEPT ![m] = o])
  BY <1>2 DEF Ready, Parsed, SameAs, Contexts
<1>3. \A n \in 0 .. 7 : Parsed(c, [c EXCEPT !.digit = n]) BY DEF Ready, Parsed, SameAs, Contexts
<1>4. \A oe \in Encodings : Parsed(c, [c EXCEPT !.oe = oe])
  BY DEF Ready, Parsed, SameAs, Contexts
<1>5. Parsed(c, [c EXCEPT !.abort = TRUE]) BY DEF Ready, Parsed, SameAs, Contexts
<1> QED BY <1>1, <1>2, <1>3, <1>4, <1>5

\* Fields of a ModRM byte, extended by a bit of the REX prefix.
LEMMA RegisterIndex ==
  /\ \A b \in ByteValues : /\ b % 8 \in 0 .. 7 /\ (b \div 8) % 8 \in 0 .. 7
                           /\ b \div 64 \in 0 .. 3
  /\ \A i \in 0 .. 7 : \A p : i + If8(p) \in 0 .. 15
<1>1. \A p : If8(p) \in {0, 8} BY DEF If8
<1> QED BY <1>1 DEF ByteValues

\* Classes of registers.
Classes == {"G", "RT_MMX", "RT_XMM", "RT_YMM"}

\* A register operand of any class.
LEMMA RegisterTypes ==
  ASSUME NEW c, NEW vt \in ValTypes, NEW rt \in Classes, rt = "G" => vt \in Widths,
         NEW i \in 0 .. 15
  PROVE  registerOp(c, vt, rt, i) \in Operands
<1> DEFINE gp == IF c.hasRex THEN GPRegTypes ELSE LegGPRegTypes
           t  == IF rt = "G" THEN gp[vt] ELSE rt
<1>1. \A w \in Widths : GPRegTypes[w] \in RegTypes /\ LegGPRegTypes[w] \in RegTypes
  BY DEF GPRegTypes, LegGPRegTypes, Widths, RegTypes
<1>2. t \in RegTypes BY <1>1 DEF Classes, RegTypes
<1> HIDE DEF t
<1>3. Reg(t, i) \in Registers BY <1>2 DEF Reg, Registers
<1>4. RegOp(vt, Reg(t, i)) \in Operands BY <1>3, OperandTypes
<1> QED BY <1>4 DEF registerOp, t

\* A memory operand, and how many bytes it takes.
LEMMA MemoryOps ==
  ASSUME MemoryTyped, NEW c \in Contexts, NEW vt \in ValTypes, NEW mod \in 0 .. 3, NEW rm \in 0 .. 7
  PROVE  /\ memoryOp(c, vt, mod, rm).len \in Nat
         /\ memoryOp(c, vt, mod, rm).op \in Operands
<1> DEFINE hasSib == rm = 4
           sib    == Byte(c, 1)
           base   == IF hasSib THEN sib % 8 ELSE rm
           idx    == ((sib \div 8) % 8) + If8("X" \in c.rex)
           noBase == mod = 0 /\ base = 5
           scaled == hasSib /\ idx # 4
           at     == IF hasSib THEN 2 ELSE 1
           n      == IF mod = 1 THEN 1 ELSE IF mod = 2 \/ noBase THEN 4 ELSE 0
           disp   == IF n = 0 THEN Zero ELSE SignExtend(Read(Skip(c, at), n))
           reg    == IF ~noBase THEN Reg("RT_GP64", base + If8("B" \in c.rex))
                     ELSE IF hasSib THEN NoReg ELSE Reg("RT_IP", 0)
           ireg   == IF scaled THEN Reg("RT_GP64", idx) ELSE NoReg
           scale  == IF scaled THEN << 1, 2, 4, 8 >>[(sib \div 64) + 1] ELSE 0
<1>1. sib \in ByteValues BY BytesRead
<1>2. sib % 8 \in 0 .. 7 /\ (sib \div 8) % 8 \in 0 .. 7 /\ sib \div 64 \in 0 .. 3
  BY <1>1, RegisterIndex
<1> HIDE DEF sib
<1>3. base \in 0 .. 7 BY <1>2
<1>4. idx \in 0 .. 15 BY <1>2, RegisterIndex
<1>5. n \in {0, 1, 4} /\ at \in {1, 2} OBVIOUS
<1> HIDE DEF base, idx, n, at
<1>6. disp \in Values
  <2>1. n # 0 => n \in 1 .. 8 BY <1>5
  <2> QED BY <2>1, ReadValues, ValueTypes
<1>7. base + If8("B" \in c.rex) \in 0 .. 15 BY <1>3, RegisterIndex
<1>8. reg \in Registers
  BY <1>7, OperandTypes DEF Reg, Registers, RegTypes
<1>9. ireg \in Registers BY <1>4, OperandTypes DEF Reg, Registers, RegTypes
<1>10. scale \in {0, 1, 2, 4, 8} BY <1>2
<1>11. c.segOv \in Segments BY DEF Contexts
<1> HIDE DEF disp, reg, ireg, scale
<1>12. IndOp(vt, disp, reg, ireg, scale, c.segOv) \in Operands
  BY <1>6, <1>8, <1>9, <1>10, <1>11, OperandTypes
<1>13. at + n \in Nat BY <1>5
<1>14. memoryOp(c, vt, mod, rm) = [ len |-> at + n, op |-> IndOp(vt, disp, reg, ireg, scale, c.segOv) ]
  BY DEF memoryOp, sib, base, idx, at, n, disp, reg, ireg, scale
<1> QED BY <1>12, <1>13, <1>14

\* Parsing ModRM, SIB and displacement.
LEMMA ModRM ==
  ASSUME MemoryTyped, NEW c, Ready(c), NEW vt0 \in Widths \cup {"VT_None", "VT_128", "VT_256"},
         NEW rts, rts[1] \in Classes, rts[2] \in Classes,
         rts[1] = "G" => vt0 \in Widths \cup {"VT_None"},
         NEW m \in {"o1", "o2", "o3"}, NEW r \in {"o1", "o2", "o3", "none"}
  PROVE  Parsed(c, parseModRM(c, vt0, rts, m, r))
<1> DEFINE vt  == IF vt0 = "VT_None" THEN (IF Wide(c) THEN "VT_64" ELSE "VT_32") ELSE vt0
           mod == Byte(c, 0) \div 64
           reg == (Byte(c, 0) \div 8) % 8
           rm  == Byte(c, 0) % 8
           vec == vt \in {"VT_128", "VT_256"}
           i2  == reg + If8("R" \in c.rex)
           i1  == rm + If8("B" \in c.rex)
           op2 == registerOp(c, vt, rts[2], i2)
           op1 == registerOp(c, vt, rts[1], i1)
           d   == [c EXCEPT !.digit = reg]
           e   == IF r = "none" THEN d ELSE [d EXCEPT ![r] = op2]
           bad == \/ vec /\ rts[2] = "G"
                  \/ vec /\ rts[1] = "G" /\ mod # 3
                  \/ r # "none" /\ ~IsReg(op2.reg.rt, i2)
                  \/ mod = 3 /\ ~IsReg(op1.reg.rt, i1)
           o   == IF mod = 3 THEN [ op |-> op1, len |-> 1 ] ELSE memoryOp(c, vt, mod, rm)
<1>1. vt \in Widths \cup {"VT_128", "VT_256"} /\ vt \in ValTypes BY DEF Widths, ValTypes
<1>2. c \in Contexts BY DEF Ready
<1>3. mod \in 0 .. 3 /\ reg \in 0 .. 7 /\ rm \in 0 .. 7 BY BytesRead, RegisterIndex
<1>4. i1 \in 0 .. 15 /\ i2 \in 0 .. 15 BY <1>3, RegisterIndex
<1> HIDE DEF vt, mod, reg, rm, i1, i2
<1>5. parseModRM(c, vt0, rts, m, r) = IF bad THEN Require(c, FALSE) ELSE withOperand(e, m, o)
  BY DEF parseModRM, vt, mod, reg, rm, i1, i2
<1>6. CASE bad
  <2>1. Require(c, FALSE) = [c EXCEPT !.abort = TRUE] BY DEF Require
  <2> QED BY <1>5, <1>6, <2>1, ParsedParts
<1>7. CASE ~bad
  <2>1. ~(vec /\ rts[2] = "G") BY <1>7
  <2>2. op2 \in Operands BY <1>1, <1>4, <2>1, RegisterTypes
  <2>3. op1 \in Operands
    <3>1. rts[1] = "G" => vt \in Widths BY DEF vt, Widths
    <3> QED BY <1>1, <1>4, <3>1, RegisterTypes
  <2>4. Parsed(c, e)
    <3>1. Parsed(c, d) BY <1>3, ParsedParts
    <3>2. Ready(d) BY <3>1 DEF Parsed
    <3> HIDE DEF d, op2
    <3>3. r # "none" => Parsed(d, [d EXCEPT ![r] = op2]) BY <2>2, <3>2, ParsedParts
    <3> QED BY <3>1, <3>3, ParsedAll
  <2> HIDE DEF op1
  <2>5. o.op \in Operands /\ o.len \in Nat BY <1>1, <1>2, <1>3, <2>3, MemoryOps
  <2> HIDE DEF e, o, bad
  <2> DEFINE x == [e EXCEPT ![m] = o.op]
  <2>6. Parsed(e, x) BY <2>4, <2>5, ParsedParts DEF Parsed
  <2> HIDE DEF x
  <2>7. Parsed(x, Skip(x, o.len)) BY <2>5, <2>6, ParsedParts DEF Parsed
  <2>8. Parsed(c, Skip(x, o.len)) BY <2>4, <2>6, <2>7, ParsedAll
  <2>9. withOperand(e, m, o) = Skip(x, o.len) BY DEF withOperand, x
  <2> QED BY <1>5, <1>7, <2>8, <2>9
<1> QED BY <1>6, <1>7

\* Parsing an immediate.
LEMMA Immediates ==
  ASSUME MemoryTyped, NEW c, Ready(c), NEW vt \in Widths, NEW o \in {"o1", "o2", "o3"}, NEW real
  PROVE  Parsed(c, parseImm(c, vt, o, real))
<1> DEFINE n == IF vt = "VT_64" /\ ~real THEN 4 ELSE ImmBytes[vt]
           v == IF vt = "VT_64" THEN SignExtend(Read(c, n)) ELSE ZeroExtend(Read(c, n))
           d == [c EXCEPT ![o] = ImmOp(vt, v)]
<1>1. n \in 1 .. 8 BY DEF ImmBytes, Widths
<1> HIDE DEF n
<1>0. n \in Nat BY <1>1
<1>2. v \in Values BY <1>1, ReadValues
<1> HIDE DEF v
<1>3. vt \in ValTypes BY DEF ValTypes
<1>4. ImmOp(vt, v) \in Operands BY <1>2, <1>3, OperandTypes
<1>5. Parsed(c, d) BY <1>4, ParsedParts
<1> HIDE DEF d
<1>6. Parsed(d, Skip(d, n)) BY <1>0, <1>5, ParsedParts DEF Parsed
<1>7. parseImm(c, vt, o, real) = Skip(d, n) BY DEF parseImm, n, v, d
<1> QED BY <1>5, <1>6, <1>7, ParsedAll

\* Parsing of operands whose type is that of the instruction.
LEMMA GeneralOperands ==
  ASSUME MemoryTyped, NEW c, Ready(c), c.vt \in Widths
  PROVE  /\ Parsed(c, parseRM(c)) /\ Parsed(c, parseMR(c)) /\ Parsed(c, parseM(c))
         /\ Parsed(c, parseI2(c)) /\ Parsed(c, parseI3(c)) /\ Parsed(c, parseMI(c))
<1>1. GG[1] \in Classes /\ GG[2] \in Classes BY DEF GG, Classes
<1>2. Parsed(c, parseRM(c)) /\ Parsed(c, parseMR(c)) /\ Parsed(c, parseM(c))
  BY <1>1, ModRM DEF parseRM, parseMR, parseM
<1>3. \A d : Ready(d) /\ d.vt \in Widths => Parsed(d, parseI2(d)) /\ Parsed(d, parseI3(d))
  BY Immediates DEF parseI2, parseI3
<1>4. Parsed(c, parseMI(c))
  <2> DEFINE d == parseM(c)
  <2>1. Parsed(c, d) BY <1>2
  <2> HIDE DEF d
  <2>2. Parsed(d, parseI2(d)) BY <2>1, <1>3 DEF Parsed
  <2> QED BY <2>1, <2>2, ParsedAll DEF parseMI, d
<1> QED BY <1>2, <1>3, <1>4

\* Parsing of immediates that are extended to the type of the instruction.
LEMMA ExtendedOperands ==
  ASSUME MemoryTyped, NEW c, Ready(c), c.vt \in Widths
  PROVE  Parsed(c, parseI3_8se(c)) /\ Parsed(c, parseMI_8se(c)) /\ Parsed(c, setO1RegA(c))
<1>1. c.vt \in ValTypes /\ "VT_8" \in Widths BY DEF Widths, ValTypes
<1>2. ASSUME NEW d, Ready(d), NEW o \in {"o2", "o3"}
      PROVE  /\ Parsed(d, parseImm(d, "VT_8", o, FALSE))
             /\ parseImm(d, "VT_8", o, FALSE)[o].val \in Values
  <2>1. Parsed(d, parseImm(d, "VT_8", o, FALSE)) BY <1>1, <1>2, Immediates
  <2>2. parseImm(d, "VT_8", o, FALSE)[o] \in Operands BY <2>1 DEF Parsed, Ready, Contexts
  <2> QED BY <2>1, <2>2 DEF Operands
<1>3. Parsed(c, parseI3_8se(c))
  <2> DEFINE d == parseImm(c, "VT_8", "o3", FALSE)
             v == SignExtend(Low(d["o3"].val, 1))
  <2>1. Parsed(c, d) /\ d["o3"].val \in Values BY <1>2
  <2> HIDE DEF d
  <2>2. v \in Values BY <2>1, ExtendedTypes
  <2> HIDE DEF v
  <2>3. ImmOp(c.vt, v) \in Operands BY <1>1, <2>2, OperandTypes
  <2>4. Parsed(d, [d EXCEPT !["o3"] = ImmOp(c.vt, v)]) BY <2>1, <2>3, ParsedParts DEF Parsed
  <2>5. parseI3_8se(c) = [d EXCEPT !["o3"] = ImmOp(c.vt, v)] BY DEF parseI3_8se, d, v
  <2> QED BY <2>1, <2>4, <2>5, ParsedAll
<1>4. Parsed(c, parseMI_8se(c))
  <2> DEFINE m == parseM(c)
             d == parseImm(m, "VT_8", "o2", FALSE)
             v == ZeroExtend(Low(SignExtend(Low(d["o2"].val, 1)), ImmBytes[c.vt]))
  <2>1. Parsed(c, m) BY GeneralOperands
  <2> HIDE DEF m
  <2>2. Parsed(m, d) /\ d["o2"].val \in Values BY <1>2, <2>1 DEF Parsed
  <2>3. ImmBytes[c.vt] \in 1 .. 8 BY DEF ImmBytes, Widths
  <2> HIDE DEF d
  <2>4. SignExtend(Low(d["o2"].val, 1)) \in Values BY <2>2, ExtendedTypes
  <2>5. v \in Values BY <2>3, <2>4, ExtendedTypes
  <2> HIDE DEF v
  <2>6. ImmOp(c.vt, v) \in Operands BY <1>1, <2>5, OperandTypes
  <2>7. Parsed(d, [d EXCEPT !["o2"] = ImmOp(c.vt, v)]) BY <2>2, <2>6, ParsedParts DEF Parsed
  <2>8. parseMI_8se(c) = [d EXCEPT !["o2"] = ImmOp(c.vt, v)] BY DEF parseMI_8se, d, m, v
  <2> QED BY <2>1, <2>2, <2>7, <2>8, ParsedAll
<1>5. Parsed(c, setO1RegA(c))
  <2>1. GPRegTypes[c.vt] \in RegTypes BY DEF GPRegTypes, Widths, RegTypes
  <2>2. Reg(GPRegTypes[c.vt], 0) \in Registers BY <2>1 DEF Reg, Registers
  <2>3. setRegOp(c.vt, 0) \in Operands BY <1>1, <2>2, OperandTypes DEF setRegOp
  <2>4. Parsed(c, [c EXCEPT !["o1"] = setRegOp(c.vt, 0)]) BY <2>3, ParsedParts
  <2> QED BY <2>4 DEF setO1RegA
<1> QED BY <1>3, <1>4, <1>5

\* Parsing of vector registers.
LEMMA VectorOperands ==
  ASSUME MemoryTyped, NEW c, Ready(c), c.vt \in {"VT_32", "VT_64", "VT_128", "VT_256"}
  PROVE  /\ Parsed(c, parseRMVV(c)) /\ Parsed(c, parseMRVV(c))
         /\ c.vvvv \in 0 .. 15 => Parsed(c, parseRVM(c))
<1>1. vectorType(c.vt) \in {"VT_128", "VT_256"} BY DEF vectorType
<1>2. ASSUME NEW d, Ready(d), d.vt = c.vt, NEW m \in {"o1", "o2", "o3"},
             NEW r \in {"o1", "o2", "o3"}, NEW oe \in Encodings
      PROVE  Parsed(d, parseVV(d, m, r, oe))
  <2> DEFINE vt == vectorType(d.vt)
             rts == IF vt = "VT_128" THEN XX ELSE YY
             e  == parseModRM(d, vt, rts, m, r)
  <2>1. rts[1] \in {"RT_XMM", "RT_YMM"} /\ rts[2] \in {"RT_XMM", "RT_YMM"} BY DEF XX, YY
  <2>2. vt \in {"VT_128", "VT_256"} BY <1>1, <1>2
  <2> HIDE DEF vt, rts
  <2>3. Parsed(d, e) BY <1>2, <2>1, <2>2, ModRM DEF Classes
  <2> HIDE DEF e
  <2>4. Parsed(e, [e EXCEPT !.oe = oe]) BY <2>3, ParsedParts DEF Parsed
  <2> QED BY <2>3, <2>4, ParsedAll DEF parseVV, e, rts, vt
<1>3. {"OE_RM", "OE_MR", "OE_RVM"} \subseteq Encodings BY DEF Encodings
<1>4. Parsed(c, parseRMVV(c)) /\ Parsed(c, parseMRVV(c)) BY <1>2, <1>3 DEF parseRMVV, parseMRVV
<1>5. ASSUME c.vvvv \in 0 .. 15
      PROVE  Parsed(c, parseRVM(c))
  <2> DEFINE vt == vectorType(c.vt)
             o  == RegOp(vt, Reg(VRegTypes[vt], c.vvvv))
             d  == [c EXCEPT !["o2"] = o]
  <2>1. vt \in ValTypes /\ VRegTypes[vt] \in RegTypes BY <1>1 DEF ValTypes, VRegTypes, RegTypes
  <2>2. Reg(VRegTypes[vt], c.vvvv) \in Registers BY <1>5, <2>1 DEF Reg, Registers
  <2>3. o \in Operands BY <2>1, <2>2, OperandTypes
  <2> HIDE DEF o
  <2>4. Parsed(c, d) BY <2>3, ParsedParts
  <2>5. Parsed(d, parseVV(d, "o3", "o1", "OE_RVM")) BY <1>2, <1>3, <2>4 DEF Parsed
  <2>6. parseRVM(c) = parseVV(d, "o3", "o1", "OE_RVM") BY DEF parseRVM, o
  <2> QED BY <2>4, <2>5, <2>6, ParsedAll
<1> QED BY <1>4, <1>5

----------------------------------------------------------------------------
(***************************************************************************)
(* Handlers                                                                *)
(***************************************************************************)
\* After parsing, adding an instruction that does not end a block is all to do.
LEMMA PlainAdds ==
  ASSUME NEW c, NEW d, Parsed(c, d), NEW it \in PlainTypes
  PROVE  /\ \A vt \in ValTypes : /\ Done(c, addSimple(d, it, vt))
                                 /\ Done(c, addBinaryOp(d, it, vt))
                                 /\ Done(c, addTernaryOp(d, it, vt))
         /\ \A o \in Operands : Done(c, addUnaryOp(d, it, o))
         /\ \A o \in Operands, vt \in ValTypes : Done(c, setVType(addUnaryOp(d, it, o), vt))
         /\ \A vt \in ValTypes, vex \in VexTypes, ps \in SUBSET PrefixNames, enc \in Encodings,
               sc \in {"SC_None", "SC_dstDyn"} :
              Done(c, attach(addBinaryOp(d, it, vt), vex, ps, enc, sc))
<1>1. Ready(d) /\ SameAs(c, d) BY DEF Parsed
<1>2. it \in InstrTypes /\ it # "None" BY Types DEF InstrTypes
<1>3. /\ \A vt \in ValTypes : /\ Added(d, addSimple(d, it, vt), it)
                              /\ Added(d, addBinaryOp(d, it, vt), it)
                              /\ Added(d, addTernaryOp(d, it, vt), it)
      /\ \A o \in Operands : Added(d, addUnaryOp(d, it, o), it)
  BY <1>1, <1>2, AddTypes
<1>4. \A e : Added(d, e, it) => Done(c, e) BY <1>1, PlainInstr, DoneOf
<1>5. \A o \in Operands, vt \in ValTypes : Added(d, setVType(addUnaryOp(d, it, o), vt), it)
  BY <1>2, <1>3, ChangedTypes
<1>6. \A vt \in ValTypes, vex \in VexTypes, ps \in SUBSET PrefixNames, enc \in Encodings,
         sc \in {"SC_None", "SC_dstDyn"} :
        Added(d, attach(addBinaryOp(d, it, vt), vex, ps, enc, sc), it)
  BY <1>2, <1>3, ChangedTypes
<1> QED BY <1>3, <1>4, <1>5, <1>6

\* Adding one that does includes the request to stop.
LEMMA EndAdds ==
  ASSUME NEW c, NEW d, Parsed(c, d), NEW it \in EndTypes, NEW o \in Operands
  PROVE  Done(c, [addUnaryOp(d, it, o) EXCEPT !.exit = TRUE])
<1>1. Ready(d) /\ SameAs(c, d) BY DEF Parsed
<1>2. it \in InstrTypes BY DEF InstrTypes
<1>3. Added(d, addUnaryOp(d, it, o), it) BY <1>1, <1>2, AddTypes
<1>4. Done(d, [addUnaryOp(d, it, o) EXCEPT !.exit = TRUE]) BY <1>3, EndInstr
<1> QED BY <1>1, <1>4, DoneOf

\* The same, with a type set afterwards.
LEMMA EndAddsTyped ==
  ASSUME NEW c, NEW d, Parsed(c, d), NEW it \in EndTypes, NEW o \in Operands, NEW vt \in ValTypes
  PROVE  Done(c, [setVType(addUnaryOp(d, it, o), vt) EXCEPT !.exit = TRUE])
<1>1. Ready(d) /\ SameAs(c, d) BY DEF Parsed
<1>2. it \in InstrTypes /\ it # "None" BY Types DEF InstrTypes
<1>3. Added(d, addUnaryOp(d, it, o), it) BY <1>1, <1>2, AddTypes
<1> DEFINE e == setVType(addUnaryOp(d, it, o), vt)
<1>4. Added(d, e, it) BY <1>2, <1>3, ChangedTypes
<1> HIDE DEF e
<1>5. Done(d, [e EXCEPT !.exit = TRUE]) BY <1>4, EndInstr
<1> QED BY <1>1, <1>5, DoneOf DEF e

\* And so does a decode error.
LEMMA ErrorAdds ==
  ASSUME NEW c, NEW d, Parsed(c, d), NEW et \in {"BadOpcode", "BadPrefix", "BadOperands"}
  PROVE  Done(c, markDecodeError(d, et))
BY DecodeErrors, DoneOf DEF Parsed

----------------------------------------------------------------------------
NameTable(t) == \A x \in DOMAIN t : t[x] \in PlainTypes

\* Tables of instructions that do not end a block.
LEMMA NameTables ==
  /\ \A x : \A y \in PlainTypes : NameTable(At(x, y))
  /\ \A ts : (\A k \in DOMAIN ts : NameTable(ts[k])) => NameTable(Tables(ts))
<1>1. \A x : \A y \in PlainTypes : NameTable(At(x, y)) BY DEF NameTable, At
<1>2. \A ts : (\A k \in DOMAIN ts : NameTable(ts[k])) => NameTable(Tables(ts))
  <2> SUFFICES ASSUME NEW ts, \A k \in DOMAIN ts : NameTable(ts[k]),
                      NEW x \in DOMAIN Tables(ts)
               PROVE  Tables(ts)[x] \in PlainTypes
    BY DEF NameTable
  <2>1. PICK k \in DOMAIN ts : x \in DOMAIN ts[k] BY DEF Tables
  <2> QED BY <2>1 DEF Tables, NameTable
<1> QED BY <1>1, <1>2

\* Such a table with two entries.
LEMMA TwoNames ==
  \A x, y : \A a, b \in PlainTypes : NameTable(Tables(<< At(x, a), At(y, b) >>))
<1> TAKE x, y
<1> TAKE a, b \in PlainTypes
<1> DEFINE ts == << At(x, a), At(y, b) >>
<1>1. \A k \in DOMAIN ts : NameTable(ts[k])
  <2>1. DOMAIN ts = 1 .. 2 OBVIOUS
  <2>2. NameTable(ts[1]) /\ NameTable(ts[2]) BY NameTables
  <2> QED BY <2>1, <2>2
<1> QED BY <1>1, NameTables

\* Handlers that decode a vector instruction to be passed through.
LEMMA PassedThrough ==
  ASSUME MemoryTyped, NEW c, Ready(c), NEW it \in PlainTypes, NEW vt \in {"VT_32", "VT_64", "VT_128"},
         NEW rts, rts[1] \in Classes, rts[2] \in Classes, rts[1] = "G" => vt \in Widths,
         NEW enc \in {"OE_RM", "OE_MR"}, NEW ps \in SUBSET PrefixNames,
         NEW sc \in {"SC_None", "SC_dstDyn"}
  PROVE  Done(c, passThrough(c, it, vt, rts, enc, ps, sc))
<1> DEFINE m == IF enc = "OE_RM" THEN "o2" ELSE "o1"
           r == IF enc = "OE_RM" THEN "o1" ELSE "o2"
           d == parseModRM(c, vt, rts, m, r)
<1>1. vt \in Widths \cup {"VT_None", "VT_128", "VT_256"} BY DEF Widths
<1>2. m \in {"o1", "o2", "o3"} /\ r \in {"o1", "o2", "o3", "none"} OBVIOUS
<1> HIDE DEF m, r
<1>3. Parsed(c, d) BY <1>1, <1>2, ModRM
<1>4. "VT_Implicit" \in ValTypes /\ "VEX_No" \in VexTypes /\ enc \in Encodings
  BY DEF ValTypes, VexTypes, Encodings
<1> HIDE DEF d
<1>5. Done(c, attach(addBinaryOp(d, it, "VT_Implicit"), "VEX_No", ps, enc, sc))
  BY <1>3, <1>4, PlainAdds
<1> QED BY <1>5 DEF passThrough, d, m, r

\* Those that select it by its prefix.
LEMMA PassedThroughBy ==
  ASSUME MemoryTyped, NEW c, Ready(c), NEW its, NameTable(its), NEW vt \in {"VT_64", "VT_128"},
         NEW enc \in {"OE_RM", "OE_MR"}
  PROVE  Done(c, passThroughBy(c, its, vt, enc))
<1>1. XX[1] \in Classes /\ XX[2] \in Classes /\ XX[1] # "G" BY DEF XX, Classes
<1>2. c.ps \in SUBSET PrefixNames BY DEF Ready, Contexts
<1>3. c.ps \in DOMAIN its => its[c.ps] \in PlainTypes BY DEF NameTable
<1>4. c.ps \in DOMAIN its => Done(c, passThrough(c, its[c.ps], vt, XX, enc, c.ps, "SC_None"))
  BY <1>1, <1>2, <1>3, PassedThrough
<1>5. Done(c, markDecodeError(c, "BadPrefix")) BY ParsedAll, ErrorAdds
<1> QED BY <1>4, <1>5 DEF passThroughBy

\* Handlers of vector moves.
LEMMA VectorMoves ==
  ASSUME MemoryTyped, NEW c, Ready(c)
  PROVE  /\ Done(c, decode0F_12(c)) /\ Done(c, decode0F_13(c)) /\ Done(c, decode0F_14(c))
         /\ Done(c, decode0F_15(c)) /\ Done(c, decode0F_16(c)) /\ Done(c, decode0F_17(c))
         /\ Done(c, decode0F_28(c)) /\ Done(c, decode0F_29(c)) /\ Done(c, decode0F_7F(c))
<1>1. {"MOVLPS", "MOVLPD", "UNPCKLPS", "UNPCKLPD", "UNPCKHPS", "UNPCKHPD", "MOVHPS", "MOVHPD",
       "MOVAPS", "MOVAPD", "MOVDQU", "MOVDQA"} \subseteq PlainTypes
  BY DEF PlainTypes
<1>2. \A a, b \in PlainTypes : NameTable(PsPd(a, b)) BY TwoNames DEF PsPd
<1>3. NameTable(Tables(<< At({"F3"}, "MOVDQU"), At({"66"}, "MOVDQA") >>)) BY <1>1, TwoNames
<1> QED BY <1>1, <1>2, <1>3, PassedThroughBy
        DEF decode0F_12, decode0F_13, decode0F_14, decode0F_15, decode0F_16, decode0F_17,
            decode0F_28, decode0F_29, decode0F_7F

\* Handlers of vector integer instructions.
LEMMA VectorIntegers ==
  ASSUME MemoryTyped, NEW c, Ready(c)
  PROVE  /\ Done(c, decode0F_74(c)) /\ Done(c, decode0F_D4(c)) /\ Done(c, decode0F_DA(c))
         /\ Done(c, decode0F_EF(c)) /\ Done(c, decode0F_2E(c)) /\ Done(c, decode0F_D6(c))
<1>1. XX[1] \in Classes /\ XX[2] \in Classes /\ XX[1] # "G" BY DEF XX, Classes
<1>2. /\ c.ps \in SUBSET PrefixNames /\ c.ps \cap {"66"} \in SUBSET PrefixNames
      /\ {"66"} \in SUBSET PrefixNames
  BY DEF Ready, Contexts, PrefixNames
<1>3. By66(c) \in {"VT_64", "VT_128"} BY DEF By66
<1>4. {"PCMPEQB", "PADDQ", "PMINUB", "PXOR", "UCOMISD", "MOVQ"} \subseteq PlainTypes BY DEF PlainTypes
<1>5. /\ Done(c, passThrough(c, "PCMPEQB", By66(c), XX, "OE_RM", c.ps, "SC_None"))
      /\ Done(c, passThrough(c, "PADDQ", By66(c), XX, "OE_RM", c.ps, "SC_None"))
      /\ Done(c, passThrough(c, "PMINUB", By66(c), XX, "OE_RM", c.ps \cap {"66"}, "SC_None"))
      /\ Done(c, passThrough(c, "UCOMISD", "VT_64", XX, "OE_RM", {"66"}, "SC_None"))
      /\ Done(c, passThrough(c, "MOVQ", "VT_64", XX, "OE_MR", c.ps, "SC_None"))
  BY <1>1, <1>2, <1>3, <1>4, PassedThrough
<1>6. Done(c, decode0F_EF(c))
  <2> DEFINE rts == IF "66" \in c.ps THEN XX ELSE << "RT_MMX", "RT_MMX" >>
  <2>1. rts[1] \in Classes /\ rts[2] \in Classes /\ rts[1] # "G" BY <1>1 DEF Classes
  <2> HIDE DEF rts
  <2>2. Done(c, passThrough(c, "PXOR", By66(c), rts, "OE_RM", c.ps \cap {"66"}, "SC_None"))
    BY <1>2, <1>3, <1>4, <2>1, PassedThrough
  <2> QED BY <2>2 DEF decode0F_EF, rts
<1>7. Done(c, markDecodeError(c, "BadPrefix")) BY ParsedAll, ErrorAdds
<1> QED BY <1>5, <1>6, <1>7, DoneRequired
        DEF decode0F_74, decode0F_D4, decode0F_DA, decode0F_2E, decode0F_D6

\* An operand with another type.
LEMMA Overwritten ==
  ASSUME NEW o \in Operands, NEW vt \in Widths
  PROVE  opOverwriteType(o, vt) \in Operands
<1>1. vt \in ValTypes /\ GPRegTypes[vt] \in RegTypes /\ "RT_MMX" \in RegTypes
  BY DEF Widths, ValTypes, GPRegTypes, RegTypes
<1>2. /\ [o EXCEPT !.vt = vt] \in Operands
      /\ \A t \in RegTypes : [o.reg EXCEPT !.rt = t] \in Registers
  BY <1>1 DEF Operands, Registers
<1>3. \A r \in Registers : [o EXCEPT !.vt = vt, !.reg = r] \in Operands BY <1>1 DEF Operands
<1>4. \A t \in RegTypes : [o EXCEPT !.vt = vt, !.reg.rt = t] = [o EXCEPT !.vt = vt, !.reg = [o.reg EXCEPT !.rt = t]]
  BY DEF Operands, Registers
<1> QED BY <1>1, <1>2, <1>3, <1>4 DEF opOverwriteType

\* What is known of operands that were parsed.
LEMMA OperandFields ==
  ASSUME NEW c, NEW d, Parsed(c, d)
  PROVE  /\ d.o1 \in Operands /\ d.o2 \in Operands /\ d.o3 \in Operands /\ d.digit \in 0 .. 7
         /\ \A vt \in Widths, m \in {"o1", "o2"} :
              Parsed(c, [d EXCEPT ![m] = opOverwriteType(d[m], vt)])
<1>1. /\ d.o1 \in Operands /\ d.o2 \in Operands /\ d.o3 \in Operands /\ d.digit \in 0 .. 7
  BY DEF Parsed, Ready, Contexts
<1>2. ASSUME NEW vt \in Widths, NEW m \in {"o1", "o2"}
      PROVE  Parsed(c, [d EXCEPT ![m] = opOverwriteType(d[m], vt)])
  <2>1. d[m] \in Operands BY <1>1
  <2>2. opOverwriteType(d[m], vt) \in Operands BY <2>1, Overwritten
  <2>3. Ready(d) /\ m \in {"o1", "o2", "o3"} BY DEF Parsed
  <2>4. Parsed(d, [d EXCEPT ![m] = opOverwriteType(d[m], vt)]) BY <2>2, <2>3, ParsedParts
  <2> QED BY <2>4, ParsedAll
<1> QED BY <1>1, <1>2

\* Handlers that move between vector and general registers.
LEMMA VectorGeneral ==
  ASSUME MemoryTyped, NEW c, Ready(c)
  PROVE  Done(c, decode0F_6E_P66(c)) /\ Done(c, decode0F_7E(c)) /\ Done(c, decode0F_D7(c))
<1>1. c.ps \in SUBSET PrefixNames /\ "REXW" \in PrefixNames /\ "F3" \in PrefixNames
  BY DEF Ready, Contexts, PrefixNames
<1>2. {"MOVD", "MOVQ", "PMOVMSKB"} \subseteq PlainTypes BY DEF PlainTypes
<1>3. ASSUME NEW enc \in {"OE_RM", "OE_MR"}
      PROVE  Done(c, moveDQ(c, enc))
  <2> DEFINE ps  == IF Wide(c) THEN c.ps \cup {"REXW"} ELSE c.ps
             it  == IF Wide(c) THEN "MOVQ" ELSE "MOVD"
             vt  == IF Wide(c) THEN "VT_64" ELSE "VT_32"
             rts == << "G", "RT_XMM" >>
  <2>1. /\ ps \in SUBSET PrefixNames /\ it \in PlainTypes
        /\ vt \in {"VT_32", "VT_64", "VT_128"} /\ vt \in Widths
        /\ rts[1] \in Classes /\ rts[2] \in Classes
    BY <1>1, <1>2 DEF Widths, Classes
  <2> HIDE DEF ps, it, vt, rts
  <2>2. Done(c, passThrough(c, it, vt, rts, enc, ps, "SC_dstDyn")) BY <2>1, PassedThrough
  <2> QED BY <2>2 DEF moveDQ, ps, it, vt, rts
<1>4. Done(c, decode0F_6E_P66(c)) BY <1>3 DEF decode0F_6E_P66
<1>5. Done(c, decode0F_7E(c))
  <2> DEFINE ps == IF Wide(c) THEN {"F3", "REXW"} ELSE {"F3"}
  <2>1. ps \in SUBSET PrefixNames BY <1>1
  <2>2. XX[1] \in Classes /\ XX[2] \in Classes /\ XX[1] # "G" BY DEF XX, Classes
  <2> HIDE DEF ps
  <2>3. Done(c, passThrough(c, "MOVQ", "VT_64", XX, "OE_RM", ps, "SC_dstDyn"))
    BY <1>2, <2>1, <2>2, PassedThrough
  <2>4. Done(c, markDecodeError(c, "BadPrefix")) BY ParsedAll, ErrorAdds
  <2> QED BY <1>3, <2>3, <2>4 DEF decode0F_7E, ps
<1>6. Done(c, decode0F_D7(c))
  <2> DEFINE rts == << "RT_XMM", "G" >>
             d   == parseModRM(c, By66(c), rts, "o2", "o1")
             e   == [d EXCEPT !["o1"] = opOverwriteType(d["o1"], "VT_32")]
  <2>1. By66(c) \in Widths \cup {"VT_None", "VT_128", "VT_256"} BY DEF By66, Widths
  <2>2. rts[1] \in Classes /\ rts[2] \in Classes /\ rts[1] # "G" BY DEF Classes
  <2> HIDE DEF rts
  <2>3. Parsed(c, d) BY <2>1, <2>2, ModRM
  <2> HIDE DEF d
  <2>4. Parsed(c, e) BY <2>3, OperandFields DEF Widths
  <2>5. /\ c.ps \cap {"66"} \in SUBSET PrefixNames /\ "VT_32" \in ValTypes
        /\ "VEX_No" \in VexTypes /\ "OE_RM" \in Encodings
    BY <1>1 DEF ValTypes, Widths, VexTypes, Encodings
  <2> HIDE DEF e
  <2>6. Done(c, attach(addBinaryOp(e, "PMOVMSKB", "VT_32"), "VEX_No", c.ps \cap {"66"}, "OE_RM",
                       "SC_dstDyn"))
    BY <1>2, <2>4, <2>5, PlainAdds
  <2> QED BY <2>6 DEF decode0F_D7, d, e, rts
<1> QED BY <1>4, <1>5, <1>6

----------------------------------------------------------------------------
\* Values as numbers.
LEMMA Numbers ==
  /\ \A s \in Seq(ByteValues) : s # << >> => Number(s) \in Int
  /\ \A n \in Int : Bytes(n) \in Values
<1>1. ASSUME NEW s \in Seq(ByteValues), s # << >>
      PROVE  Number(s) \in Int
  <2> DEFINE v == SignExtend(s)
  <2>1. v \in Values BY <1>1, ValueTypes
  <2> HIDE DEF v
  <2>2. v[1] \in ByteValues /\ v[2] \in ByteValues /\ v[3] \in ByteValues /\ v[4] \in ByteValues
    BY <2>1 DEF Values
  <2> DEFINE N(w, x, y, z) ==
               w + 256 * x + 65536 * y + 16777216 * (IF z >= 128 THEN z - 256 ELSE z)
  <2>3. \A w, x, y, z \in ByteValues : N(w, x, y, z) \in Int BY DEF ByteValues
  <2> HIDE DEF N
  <2>4. N(v[1], v[2], v[3], v[4]) \in Int BY <2>2, <2>3
  <2> QED BY <2>4 DEF Number, v, N
<1>2. ASSUME NEW n \in Int
      PROVE  Bytes(n) \in Values
  <2> DEFINE s == << n % 256, (n \div 256) % 256, (n \div 65536) % 256, (n \div 16777216) % 256 >>
  <2>1. /\ n % 256 \in ByteValues /\ (n \div 256) % 256 \in ByteValues
        /\ (n \div 65536) % 256 \in ByteValues /\ (n \div 16777216) % 256 \in ByteValues
    BY DEF ByteValues
  <2>2. s \in Seq(ByteValues) /\ s # << >> BY <2>1
  <2> HIDE DEF s
  <2>3. SignExtend(s) \in Values BY <2>2, ValueTypes
  <2> QED BY <2>3 DEF Bytes, s
<1> QED BY <1>1, <1>2

\* Operands of branches: relative to the address behind the instruction.
LEMMA Targets ==
  ASSUME MemoryTyped, NEW c, Ready(c), NEW n \in {1, 4}
  PROVE  Parsed(c, relativeTarget(c, n))
<1> DEFINE to == c.f + c.off + n + Number(Read(c, n))
           d  == [c EXCEPT !["o1"] = ImmOp("VT_64", Bytes(to))]
<1>1. Read(c, n) \in Seq(ByteValues) /\ Read(c, n) # << >>
  <2>1. n \in Nat /\ n > 0 OBVIOUS
  <2>2. Read(c, n) \in Seq(ByteValues) /\ Len(Read(c, n)) = n BY <2>1, BytesRead
  <2> QED BY <2>1, <2>2
<1>2. to \in Int
  <2>1. Number(Read(c, n)) \in Int BY <1>1, Numbers
  <2>2. c.f \in Int /\ c.off \in Int BY DEF Ready, Contexts
  <2> QED BY <2>1, <2>2
<1> HIDE DEF to
<1>3. ImmOp("VT_64", Bytes(to)) \in Operands BY <1>2, Numbers, OperandTypes DEF ValTypes, Widths
<1>4. Parsed(c, d) BY <1>3, ParsedParts
<1>5. relativeTarget(c, n) = Skip(d, n) BY DEF relativeTarget, to
<1> HIDE DEF d
<1>6. Ready(d) /\ n \in Nat BY <1>4 DEF Parsed
<1>7. Parsed(d, Skip(d, n)) BY <1>6, ParsedParts
<1> QED BY <1>4, <1>5, <1>7, ParsedAll

\* Handlers of branches and calls.
LEMMA Branches ==
  ASSUME MemoryTyped, NEW c, Ready(c)
  PROVE  /\ Op1(c) \in 128 .. 143 => Done(c, decode0F_80(c))
         /\ Op1(c) \in 112 .. 127 => Done(c, decode_70(c))
         /\ Done(c, decode_E8(c)) /\ Done(c, decode_E9(c)) /\ Done(c, decode_EB(c))
<1>1. ASSUME NEW n \in {1, 4}, NEW opc \in {112, 128}, Op1(c) \in opc .. (opc + 15)
      PROVE  Done(c, jcc(c, n, opc))
  <2> DEFINE d == relativeTarget(c, n)
  <2>1. Parsed(c, d) BY Targets
  <2> HIDE DEF d
  <2>2. d.o1 \in Operands BY <2>1, OperandFields
  <2>3. Op1(c) - opc + 1 \in 1 .. 16 BY <1>1
  <2>4. JccTypes[Op1(c) - opc + 1] \in EndTypes BY <2>3, Types
  <2>5. "VT_Implicit" \in ValTypes BY DEF ValTypes
  <2> DEFINE it == JccTypes[Op1(c) - opc + 1]
  <2>6. it \in EndTypes BY <2>4
  <2> HIDE DEF it
  <2>7. Done(c, [setVType(addUnaryOp(d, it, d.o1), "VT_Implicit") EXCEPT !.exit = TRUE])
    BY <2>1, <2>2, <2>5, <2>6, EndAddsTyped
  <2> QED BY <2>7 DEF jcc, d, it
<1>2. ASSUME NEW n \in {1, 4}, NEW it \in {"CALL", "JMP"}
      PROVE  Done(c, goTo(c, it, n))
  <2> DEFINE d == relativeTarget(c, n)
  <2>1. Parsed(c, d) BY Targets
  <2> HIDE DEF d
  <2>2. d.o1 \in Operands /\ it \in EndTypes BY <2>1, OperandFields DEF EndTypes
  <2> QED BY <2>1, <2>2, EndAdds DEF goTo, d
<1> QED BY <1>1, <1>2 DEF decode0F_80, decode_70, decode_E8, decode_E9, decode_EB

\* Setting the type of the instruction.
LEMMA Retyped ==
  ASSUME NEW c, Ready(c), NEW vt \in ValTypes
  PROVE  LET d == [c EXCEPT !.vt = vt] IN Ready(d) /\ SameAs(c, d) /\ d.vt = vt
BY DEF Ready, SameAs, Contexts

\* The type of handlers for opcodes with a byte and a wider form.
LEMMA ByteTyped ==
  ASSUME NEW c, Ready(c)
  PROVE  Ready(Bytewise(c)) /\ SameAs(c, Bytewise(c)) /\ Bytewise(c).vt \in Widths
BY Retyped DEF Bytewise, ValTypes, Widths

\* Handlers of moves, with and without extension.
LEMMA GeneralMoves ==
  ASSUME MemoryTyped, NEW c, Ready(c), c.vt \in Widths
  PROVE  /\ Op1(c) \in 64 .. 79 => Done(c, decode0F_40(c))
         /\ Done(c, decode0F_1F(c)) /\ Done(c, decode_8D(c))
         /\ Done(c, decode0F_B6(c)) /\ Done(c, decode0F_B7(c))
         /\ Done(c, decode0F_BE(c)) /\ Done(c, decode0F_BF(c)) /\ Done(c, decode_63(c))
<1>0. c.vt \in ValTypes BY DEF ValTypes
<1>1. {"NOP", "LEA", "MOVZX", "MOVSX"} \subseteq PlainTypes BY DEF PlainTypes
<1>2. Parsed(c, parseRM(c)) /\ Parsed(c, parseM(c)) BY GeneralOperands
<1>3. ASSUME Op1(c) \in 64 .. 79
      PROVE  Done(c, decode0F_40(c))
  <2>1. Op1(c) - 64 + 1 \in 1 .. 16 BY <1>3
  <2>2. CMovTypes[Op1(c) - 64 + 1] \in PlainTypes BY <2>1, Types
  <2> QED BY <1>0, <1>2, <2>2, PlainAdds DEF decode0F_40
<1>4. Done(c, decode0F_1F(c))
  <2> DEFINE d == parseM(c)
  <2>1. Parsed(c, d) BY <1>2
  <2> HIDE DEF d
  <2>2. d.o1 \in Operands BY <2>1, OperandFields
  <2>3. /\ Done(c, markDecodeError(d, "BadOpcode")) /\ Done(c, markDecodeError(d, "BadOperands"))
        /\ Done(c, addUnaryOp(d, "NOP", d.o1))
    BY <1>1, <2>1, <2>2, ErrorAdds, PlainAdds
  <2>4. Done(c, addNop(d)) BY <2>3 DEF addNop
  <2> QED BY <2>4 DEF decode0F_1F, d
<1>5. Done(c, decode_8D(c))
  <2> DEFINE d == parseRM(c)
  <2>1. Parsed(c, d) /\ d.vt \in ValTypes BY <1>0, <1>2 DEF Parsed
  <2> HIDE DEF d
  <2>2. Done(c, addBinaryOp(d, "LEA", d.vt)) BY <1>1, <2>1, PlainAdds
  <2>3. Done(c, addLea(d)) BY <2>2, DoneRequired DEF addLea
  <2> QED BY <2>3 DEF decode_8D, d
<1>6. ASSUME NEW it \in {"MOVZX", "MOVSX"}, NEW vt \in Widths
      PROVE  Done(c, extend(c, it, vt))
  <2> DEFINE d == parseRM(c)
             e == [d EXCEPT !["o2"] = opOverwriteType(d["o2"], vt)]
  <2>1. Parsed(c, d) BY <1>2
  <2> HIDE DEF d
  <2>2. Parsed(c, e) BY <2>1, OperandFields
  <2>3. extend(c, it, vt) = addBinaryOp(e, it, c.vt) BY DEF extend, d
  <2> HIDE DEF e
  <2> QED BY <1>0, <1>1, <2>2, <2>3, PlainAdds
<1>7. /\ Done(c, decode0F_B6(c)) /\ Done(c, decode0F_B7(c))
      /\ Done(c, decode0F_BE(c)) /\ Done(c, decode0F_BF(c))
  BY <1>6, DoneRequired DEF decode0F_B6, decode0F_B7, decode0F_BE, decode0F_BF, Widths
<1>8. Done(c, decode_63(c))
  <2> DEFINE d == parseModRM(c, "VT_None", GG, "o2", "o1")
             e == [d EXCEPT !["o2"] = opOverwriteType(d["o2"], "VT_32")]
  <2>1. GG[1] \in Classes /\ GG[2] \in Classes BY DEF GG, Classes
  <2>2. Parsed(c, d) BY <2>1, ModRM
  <2> HIDE DEF d
  <2>3. Parsed(c, e) BY <2>2, OperandFields DEF Widths
  <2>4. decode_63(c) = Require(addBinaryOp(e, "MOVSX", "VT_None"), Wide(c)) BY DEF decode_63, d
  <2> HIDE DEF e
  <2>5. Done(c, addBinaryOp(e, "MOVSX", "VT_None")) BY <1>1, <2>3, PlainAdds DEF ValTypes
  <2> QED BY <2>4, <2>5, DoneRequired DEF Require
<1> QED BY <1>3, <1>4, <1>5, <1>7, <1>8

\* Handlers of stack instructions.
LEMMA StackOps ==
  ASSUME MemoryTyped, NEW c, Ready(c), c.vt \in Widths
  PROVE  /\ Op1(c) \in 80 .. 87 => Done(c, decode_50(c))
         /\ Op1(c) \in 88 .. 95 => Done(c, decode_58(c))
         /\ Done(c, decode_68(c)) /\ Done(c, decode_6A(c)) /\ Done(c, decode_8F_0(c))
<1>1. "PUSH" \in PlainTypes /\ "POP" \in PlainTypes BY DEF PlainTypes
<1>2. ASSUME NEW it \in {"PUSH", "POP"}, NEW opc \in {80, 88}, Op1(c) \in opc .. (opc + 7)
      PROVE  Done(c, pushPop(c, it, opc))
  <2> DEFINE vt == IF "66" \in c.ps THEN "VT_16" ELSE "VT_64"
             d  == [c EXCEPT !.vt = vt]
             i  == Op1(c) - opc + If8("B" \in c.rex)
  <2>1. vt \in ValTypes /\ GPRegTypes[vt] \in RegTypes
    BY DEF ValTypes, Widths, GPRegTypes, RegTypes
  <2> HIDE DEF vt
  <2>2. i \in 0 .. 15
    <3>1. Op1(c) - opc \in 0 .. 7 BY <1>2
    <3> QED BY <3>1, RegisterIndex
  <2> HIDE DEF i
  <2>3. Reg(GPRegTypes[vt], i) \in Registers BY <2>1, <2>2 DEF Reg, Registers
  <2>4. setRegOp(vt, i) \in Operands BY <2>1, <2>3, OperandTypes DEF setRegOp
  <2>5. Ready(d) /\ SameAs(c, d) BY <2>1, Retyped
  <2> HIDE DEF d
  <2>6. Done(d, addUnaryOp(d, it, setRegOp(vt, i))) BY <1>1, <2>4, <2>5, ParsedAll, PlainAdds
  <2> QED BY <2>5, <2>6, DoneOf DEF pushPop, vt, d, i
<1>3. ASSUME NEW vt \in Widths
      PROVE  Done(c, addPushImm(c, vt))
  <2> DEFINE d == parseImm(c, vt, "o1", FALSE)
             w == IF c.vt = "VT_32" THEN "VT_64" ELSE c.vt
  <2>1. Parsed(c, d) BY Immediates
  <2>2. w \in ValTypes BY DEF ValTypes, Widths
  <2> HIDE DEF d, w
  <2>3. d.o1 \in Operands BY <2>1, OperandFields
  <2> QED BY <1>1, <2>1, <2>2, <2>3, PlainAdds DEF addPushImm, d, w
<1>4. Done(c, decode_68(c)) /\ Done(c, decode_6A(c))
  <2>1. Require(c, FALSE) = [c EXCEPT !.abort = TRUE] BY DEF Require
  <2>2. Done(c, [c EXCEPT !.abort = TRUE]) BY DEF Done, SameAs, Ready, Contexts
  <2> QED BY <1>3, <2>1, <2>2 DEF decode_68, decode_6A, Widths
<1>5. Done(c, decode_8F_0(c))
  <2> DEFINE d == parseM(c)
             o == IF d.vt = "VT_32" THEN opOverwriteType(d.o1, "VT_64") ELSE d.o1
  <2>1. Parsed(c, d) BY GeneralOperands
  <2> HIDE DEF d
  <2>2. d.o1 \in Operands BY <2>1, OperandFields
  <2>3. o \in Operands BY <2>2, Overwritten DEF Widths
  <2> HIDE DEF o
  <2>4. Done(c, addUnaryOp(d, "POP", o)) BY <1>1, <2>1, <2>3, PlainAdds
  <2>5. Done(c, Require(addUnaryOp(d, "POP", o), d.vt # "VT_64")) BY <2>4, DoneRequired DEF Require
  <2> QED BY <2>5 DEF decode_8F_0, stackOp, d, o
<1> QED BY <1>1, <1>2, <1>4, <1>5 DEF decode_50, decode_58

\* Handlers of instructions without operands.
LEMMA SimpleOps ==
  ASSUME NEW c, Ready(c)
  PROVE  /\ Done(c, decode_98(c)) /\ Done(c, decode_99(c))
         /\ Done(c, decode_9C(c)) /\ Done(c, decode_9D(c))
<1>1. {"CLTQ", "CWTL", "CQTO", "PUSHF", "PUSHFQ", "POPF", "POPFQ"} \subseteq PlainTypes
  BY DEF PlainTypes
<1>2. {"VT_None", "VT_128", "VT_64", "VT_Implicit"} \subseteq ValTypes BY DEF ValTypes, Widths
<1>3. \A it \in PlainTypes, vt \in ValTypes : Done(c, addSimple(c, it, vt))
  BY ParsedAll, PlainAdds
<1> QED BY <1>1, <1>2, <1>3 DEF decode_98, decode_99, decode_9C, decode_9D

\* The handler of a move of an immediate.
LEMMA ImmediateMove ==
  ASSUME MemoryTyped, NEW c, Ready(c), c.vt \in Widths, Op1(c) \in ByteValues
  PROVE  Done(c, decode_B0(c))
<1> DEFINE vt == IF Op1(c) < 184 THEN "VT_8" ELSE c.vt
           i  == (Op1(c) % 8) + If8("B" \in c.rex)
           o  == registerOp(c, vt, "G", i)
           d0 == [c EXCEPT !.vt = vt]
           d  == [d0 EXCEPT !["o1"] = o]
           e  == parseImm(d, vt, "o2", TRUE)
<1>1. vt \in Widths /\ vt \in ValTypes BY DEF Widths, ValTypes
<1>2. i \in 0 .. 15
  <2>1. Op1(c) % 8 \in 0 .. 7 BY RegisterIndex
  <2> QED BY <2>1, RegisterIndex
<1> HIDE DEF vt, i
<1>3. o \in Operands BY <1>1, <1>2, RegisterTypes DEF Classes
<1>4. Ready(d0) /\ SameAs(c, d0) BY <1>1, Retyped
<1>5. [c EXCEPT !.vt = vt, !.o1 = o] = d OBVIOUS
<1> HIDE DEF o, d0
<1>6. Parsed(d0, d) BY <1>3, <1>4, ParsedParts
<1> HIDE DEF d
<1>7. Parsed(d, e) BY <1>1, <1>6, Immediates DEF Parsed
<1>8. Parsed(d0, e) BY <1>6, <1>7, ParsedAll
<1> HIDE DEF e
<1>9. Done(d0, addBinaryOp(e, "MOV", vt)) BY <1>1, <1>8, PlainAdds DEF PlainTypes
<1>10. decode_B0(c) = addBinaryOp(e, "MOV", vt) BY <1>5 DEF decode_B0, vt, i, o, e
<1> QED BY <1>4, <1>9, <1>10, DoneOf

\* Groups of operations, selected by a digit.
LEMMA ShiftTable == NameTable(Shifts) /\ NameTable(UnaryOps)
<1>1. {"SHL", "SHR", "SAR", "NOT", "NEG", "MUL", "IMUL", "DIV", "IDIV1"} \subseteq PlainTypes
  BY DEF PlainTypes
<1>2. NameTable(Shifts)
  <2> DEFINE ts == << At(4, "SHL"), At(5, "SHR"), At(7, "SAR") >>
  <2>1. DOMAIN ts = 1 .. 3 OBVIOUS
  <2>2. NameTable(ts[1]) /\ NameTable(ts[2]) /\ NameTable(ts[3]) BY <1>1, NameTables
  <2>3. \A k \in DOMAIN ts : NameTable(ts[k]) BY <2>1, <2>2
  <2> QED BY <2>3, NameTables DEF Shifts
<1>3. NameTable(UnaryOps)
  <2> DEFINE ts == << At(2, "NOT"), At(3, "NEG"), At(4, "MUL"), At(5, "IMUL"), At(6, "DIV"),
                      At(7, "IDIV1") >>
  <2>1. DOMAIN ts = 1 .. 6 OBVIOUS
  <2>2. NameTable(ts[1]) /\ NameTable(ts[2]) /\ NameTable(ts[3]) /\ NameTable(ts[4])
        /\ NameTable(ts[5]) /\ NameTable(ts[6])
    BY <1>1, NameTables
  <2>3. \A k \in DOMAIN ts : NameTable(ts[k]) BY <2>1, <2>2
  <2> QED BY <2>3, NameTables DEF UnaryOps
<1> QED BY <1>2, <1>3

\* Adding the shift that the digit selects.
LEMMA Shifted ==
  ASSUME NEW c, NEW d, Parsed(c, d), NEW binary \in BOOLEAN
  PROVE  Done(c, shiftBy(d, binary))
<1>1. Done(c, markDecodeError(d, "BadOpcode")) BY ErrorAdds
<1>2. d.vt \in ValTypes /\ d.o1 \in Operands BY DEF Parsed, Ready, Contexts
<1>3. ASSUME d.digit \in DOMAIN Shifts
      PROVE  /\ Done(c, addBinaryOp(d, Shifts[d.digit], d.vt))
             /\ Done(c, addUnaryOp(d, Shifts[d.digit], d.o1))
  <2>1. Shifts[d.digit] \in PlainTypes BY <1>3, ShiftTable DEF NameTable
  <2> QED BY <1>2, <2>1, PlainAdds
<1> QED BY <1>1, <1>3 DEF shiftBy

\* Handlers of shifts.
LEMMA ShiftOps ==
  ASSUME MemoryTyped, NEW c, Ready(c), c.vt \in Widths
  PROVE  Done(c, decode_C1(c)) /\ Done(c, decode_D1(c)) /\ Done(c, decode_D3(c))
<1> DEFINE d == parseM(c)
<1>1. Parsed(c, d) BY GeneralOperands
<1> HIDE DEF d
<1>2. Parsed(c, parseImm(d, "VT_8", "o2", FALSE))
  <2>1. Ready(d) /\ "VT_8" \in Widths BY <1>1 DEF Parsed, Widths
  <2>2. Parsed(d, parseImm(d, "VT_8", "o2", FALSE)) BY <2>1, Immediates
  <2> QED BY <1>1, <2>2, ParsedAll
<1>3. Parsed(c, [d EXCEPT !["o2"] = setRegOp("VT_8", 1)])
  <2>1. GPRegTypes["VT_8"] \in RegTypes BY DEF GPRegTypes, RegTypes
  <2>2. Reg(GPRegTypes["VT_8"], 1) \in Registers BY <2>1 DEF Reg, Registers
  <2>3. setRegOp("VT_8", 1) \in Operands BY <2>2, OperandTypes DEF setRegOp, ValTypes, Widths
  <2>4. Parsed(d, [d EXCEPT !["o2"] = setRegOp("VT_8", 1)])
    BY <1>1, <2>3, ParsedParts DEF Parsed
  <2> QED BY <1>1, <2>4, ParsedAll
<1> QED BY <1>1, <1>2, <1>3, Shifted DEF decode_C1, decode_D1, decode_D3, d

\* Handlers of groups.
LEMMA GroupOps ==
  ASSUME MemoryTyped, NEW c, Ready(c), c.vt \in Widths
  PROVE  Done(c, decode_C7(c)) /\ Done(c, decode_F7(c)) /\ Done(c, decode_FF(c))
<1> DEFINE d == parseM(c)
<1>0. {"MOV", "TEST", "INC", "DEC", "PUSH"} \subseteq PlainTypes /\ {"CALL", "JMPI"} \subseteq EndTypes
  BY DEF PlainTypes, EndTypes
<1>1. Parsed(c, d) /\ d.vt \in Widths /\ d.vt \in ValTypes
  BY GeneralOperands DEF Parsed, ValTypes
<1> HIDE DEF d
<1>2. d.o1 \in Operands BY <1>1, OperandFields
<1>3. Parsed(c, parseI2(d)) BY <1>1, GeneralOperands, ParsedAll DEF Parsed
<1>4. /\ Done(c, markDecodeError(d, "BadOpcode"))
      /\ Done(c, addBinaryOp(parseI2(d), "MOV", d.vt)) /\ Done(c, addBinaryOp(parseI2(d), "TEST", d.vt))
  BY <1>0, <1>1, <1>3, ErrorAdds, PlainAdds
<1>5. Done(c, addMovImm(d)) BY <1>4 DEF addMovImm
<1>6. Done(c, addGroup3(d))
  <2>1. d.digit \in DOMAIN UnaryOps => UnaryOps[d.digit] \in PlainTypes
    BY ShiftTable DEF NameTable
  <2>2. d.digit \in DOMAIN UnaryOps => Done(c, addUnaryOp(d, UnaryOps[d.digit], d.o1))
    BY <1>1, <1>2, <2>1, PlainAdds
  <2>3. 0 \notin DOMAIN UnaryOps
    <3>1. DOMAIN UnaryOps \subseteq 2 .. 7
      <4> DEFINE ts == << At(2, "NOT"), At(3, "NEG"), At(4, "MUL"), At(5, "IMUL"), At(6, "DIV"),
                          At(7, "IDIV1") >>
      <4>1. DOMAIN ts = 1 .. 6 OBVIOUS
      <4>2. /\ DOMAIN ts[1] = {2} /\ DOMAIN ts[2] = {3} /\ DOMAIN ts[3] = {4}
            /\ DOMAIN ts[4] = {5} /\ DOMAIN ts[5] = {6} /\ DOMAIN ts[6] = {7}
        BY DEF At
      <4>3. \A k \in DOMAIN ts : DOMAIN ts[k] \subseteq 2 .. 7 BY <4>1, <4>2
      <4>4. DOMAIN Tables(ts) = UNION { DOMAIN ts[k] : k \in DOMAIN ts } BY DEF Tables
      <4> HIDE DEF ts
      <4>5. DOMAIN Tables(ts) \subseteq 2 .. 7 BY <4>3, <4>4
      <4> QED BY <4>5 DEF UnaryOps, ts
    <3> QED BY <3>1
  <2> QED BY <1>4, <2>2, <2>3 DEF addGroup3
<1>7. Done(c, IncDec(d)) BY <1>0, <1>1, <1>2, PlainAdds DEF IncDec
<1>8. ASSUME NEW it \in {"CALL", "JMPI"}
      PROVE  Done(c, indirect(d, it))
  <2>1. opOverwriteType(d.o1, "VT_64") \in Operands BY <1>2, Overwritten DEF Widths
  <2> QED BY <1>0, <1>1, <2>1, EndAdds DEF indirect
<1>9. Done(c, stackOp(d, "PUSH"))
  <2> DEFINE o == IF d.vt = "VT_32" THEN opOverwriteType(d.o1, "VT_64") ELSE d.o1
  <2>1. o \in Operands BY <1>2, Overwritten DEF Widths
  <2> HIDE DEF o
  <2>2. Done(c, addUnaryOp(d, "PUSH", o)) BY <1>0, <1>1, <2>1, PlainAdds
  <2>3. Done(c, Require(addUnaryOp(d, "PUSH", o), d.vt # "VT_64")) BY <2>2, DoneRequired DEF Require
  <2> QED BY <2>3 DEF stackOp, o
<1>10. Done(c, addGroup5(d)) BY <1>4, <1>7, <1>8, <1>9 DEF addGroup5
<1> QED BY <1>5, <1>6, <1>10 DEF decode_C7, decode_F7, decode_FF, d

\* Those for operands of a byte.
LEMMA ByteOps ==
  ASSUME MemoryTyped, NEW c, Ready(c)
  PROVE  /\ Done(c, decode_C0(c)) /\ Done(c, decode_D0(c)) /\ Done(c, decode_D2(c))
         /\ Done(c, decode_C6(c)) /\ Done(c, decode_F6(c)) /\ Done(c, decode_FE(c))
<1> DEFINE b == Bytewise(c)
<1>1. Ready(b) /\ SameAs(c, b) /\ b.vt \in Widths BY ByteTyped
<1> HIDE DEF b
<1>2. /\ Done(b, decode_C1(b)) /\ Done(b, decode_D1(b)) /\ Done(b, decode_D3(b))
      /\ Done(b, decode_C7(b)) /\ Done(b, decode_F7(b))
  BY <1>1, ShiftOps, GroupOps
<1>3. Done(b, addGroup4(parseM(b)))
  <2> DEFINE d == parseM(b)
  <2>1. Parsed(b, d) BY <1>1, GeneralOperands
  <2> HIDE DEF d
  <2>2. d.o1 \in Operands BY <2>1, OperandFields
  <2>3. Done(b, IncDec(d)) BY <2>1, <2>2, PlainAdds DEF IncDec, PlainTypes
  <2>4. Done(b, markDecodeError(d, "BadOpcode")) BY <2>1, ErrorAdds
  <2> QED BY <2>3, <2>4 DEF addGroup4, d
<1> QED BY <1>1, <1>2, <1>3, DoneOf
        DEF decode_C0, decode_D0, decode_D2, decode_C6, decode_F6, decode_FE, b

----------------------------------------------------------------------------
(***************************************************************************)
(* Handlers by name                                                        *)
(***************************************************************************)
\* Handlers that do everything for an instruction: of any opcode, and of some.
OfAnyOpcode ==
  {"63", "68", "6A", "8D", "8F_0", "98", "99", "9C", "9D", "B0", "C0", "C1", "C6", "C7", "D0", "D1",
   "D2", "D3", "E8", "E9", "EB", "F6", "F7", "FE", "FF", "0F_12", "0F_13", "0F_14", "0F_15",
   "0F_16", "0F_17", "0F_1F", "0F_28", "0F_29", "0F_2E", "0F_6E_P66", "0F_74", "0F_7E", "0F_7F",
   "0F_B6", "0F_B7", "0F_BE", "0F_BF", "0F_D4", "0F_D6", "0F_D7", "0F_DA", "0F_EF"}
OfSome == {"50", "58", "70", "0F_40", "0F_80"}
Opcodes(h) ==
  CASE h = "50" -> 80 .. 87 [] h = "58" -> 88 .. 95 [] h = "70" -> 112 .. 127
    [] h = "0F_40" -> 64 .. 79 [] h = "0F_80" -> 128 .. 143

\* The handler a name stands for.
LEMMA Dispatch ==
  ASSUME NEW c
  PROVE
  /\ Handler("50", c) = decode_50(c) /\ Handler("58", c) = decode_58(c)
  /\ Handler("63", c) = decode_63(c) /\ Handler("68", c) = decode_68(c)
  /\ Handler("6A", c) = decode_6A(c) /\ Handler("70", c) = decode_70(c)
  /\ Handler("8D", c) = decode_8D(c) /\ Handler("8F_0", c) = decode_8F_0(c)
  /\ Handler("98", c) = decode_98(c) /\ Handler("99", c) = decode_99(c)
  /\ Handler("9C", c) = decode_9C(c) /\ Handler("9D", c) = decode_9D(c)
  /\ Handler("B0", c) = decode_B0(c) /\ Handler("C0", c) = decode_C0(c)
  /\ Handler("C1", c) = decode_C1(c) /\ Handler("C6", c) = decode_C6(c)
  /\ Handler("C7", c) = decode_C7(c) /\ Handler("D0", c) = decode_D0(c)
  /\ Handler("D1", c) = decode_D1(c) /\ Handler("D2", c) = decode_D2(c)
  /\ Handler("D3", c) = decode_D3(c) /\ Handler("E8", c) = decode_E8(c)
  /\ Handler("E9", c) = decode_E9(c) /\ Handler("EB", c) = decode_EB(c)
  /\ Handler("F6", c) = decode_F6(c) /\ Handler("F7", c) = decode_F7(c)
  /\ Handler("FE", c) = decode_FE(c) /\ Handler("FF", c) = decode_FF(c)
  /\ Handler("0F_12", c) = decode0F_12(c) /\ Handler("0F_13", c) = decode0F_13(c)
  /\ Handler("0F_14", c) = decode0F_14(c) /\ Handler("0F_15", c) = decode0F_15(c)
  /\ Handler("0F_16", c) = decode0F_16(c) /\ Handler("0F_17", c) = decode0F_17(c)
  /\ Handler("0F_1F", c) = decode0F_1F(c) /\ Handler("0F_28", c) = decode0F_28(c)
  /\ Handler("0F_29", c) = decode0F_29(c) /\ Handler("0F_2E", c) = decode0F_2E(c)
  /\ Handler("0F_40", c) = decode0F_40(c) /\ Handler("0F_6E_P66", c) = decode0F_6E_P66(c)
  /\ Handler("0F_74", c) = decode0F_74(c) /\ Handler("0F_7E", c) = decode0F_7E(c)
  /\ Handler("0F_7F", c) = decode0F_7F(c) /\ Handler("0F_80", c) = decode0F_80(c)
  /\ Handler("0F_B6", c) = decode0F_B6(c) /\ Handler("0F_B7", c) = decode0F_B7(c)
  /\ Handler("0F_BE", c) = decode0F_BE(c) /\ Handler("0F_BF", c) = decode0F_BF(c)
  /\ Handler("0F_D4", c) = decode0F_D4(c) /\ Handler("0F_D6", c) = decode0F_D6(c)
  /\ Handler("0F_D7", c) = decode0F_D7(c) /\ Handler("0F_DA", c) = decode0F_DA(c)
  /\ Handler("0F_EF", c) = decode0F_EF(c)
<1>1.
  /\ Handler("50", c) = decode_50(c) /\ Handler("58", c) = decode_58(c)
  /\ Handler("63", c) = decode_63(c) /\ Handler("68", c) = decode_68(c)
  /\ Handler("6A", c) = decode_6A(c) /\ Handler("70", c) = decode_70(c)
  BY DEF Handler
<1>2.
  /\ Handler("8D", c) = decode_8D(c) /\ Handler("8F_0", c) = decode_8F_0(c)
  /\ Handler("98", c) = decode_98(c) /\ Handler("99", c) = decode_99(c)
  /\ Handler("9C", c) = decode_9C(c) /\ Handler("9D", c) = decode_9D(c)
  BY DEF Handler
<1>3.
  /\ Handler("B0", c) = decode_B0(c) /\ Handler("C0", c) = decode_C0(c)
  /\ Handler("C1", c) = decode_C1(c) /\ Handler("C6", c) = decode_C6(c)
  /\ Handler("C7", c) = decode_C7(c) /\ Handler("D0", c) = decode_D0(c)
  BY DEF Handler
<1>4.
  /\ Handler("D1", c) = decode_D1(c) /\ Handler("D2", c) = decode_D2(c)
  /\ Handler("D3", c) = decode_D3(c) /\ Handler("E8", c) = decode_E8(c)
  /\ Handler("E9", c) = decode_E9(c) /\ Handler("EB", c) = decode_EB(c)
  BY DEF Handler
<1>5.
  /\ Handler("F6", c) = decode_F6(c) /\ Handler("F7", c) = decode_F7(c)
  /\ Handler("FE", c) = decode_FE(c) /\ Handler("FF", c) = decode_FF(c)
  /\ Handler("0F_12", c) = decode0F_12(c) /\ Handler("0F_13", c) = decode0F_13(c)
  BY DEF Handler
<1>6.
  /\ Handler("0F_14", c) = decode0F_14(c) /\ Handler("0F_15", c) = decode0F_15(c)
  /\ Handler("0F_16", c) = decode0F_16(c) /\ Handler("0F_17", c) = decode0F_17(c)
  /\ Handler("0F_1F", c) = decode0F_1F(c) /\ Handler("0F_28", c) = decode0F_28(c)
  BY DEF Handler
<1>7.
  /\ Handler("0F_29", c) = decode0F_29(c) /\ Handler("0F_2E", c) = decode0F_2E(c)
  /\ Handler("0F_40", c) = decode0F_40(c) /\ Handler("0F_6E_P66", c) = decode0F_6E_P66(c)
  /\ Handler("0F_74", c) = decode0F_74(c) /\ Handler("0F_7E", c) = decode0F_7E(c)
  BY DEF Handler
<1>8.
  /\ Handler("0F_7F", c) = decode0F_7F(c) /\ Handler("0F_80", c) = decode0F_80(c)
  /\ Handler("0F_B6", c) = decode0F_B6(c) /\ Handler("0F_B7", c) = decode0F_B7(c)
  /\ Handler("0F_BE", c) = decode0F_BE(c) /\ Handler("0F_BF", c) = decode0F_BF(c)
  BY DEF Handler
<1>9.
  /\ Handler("0F_D4", c) = decode0F_D4(c) /\ Handler("0F_D6", c) = decode0F_D6(c)
  /\ Handler("0F_D7", c) = decode0F_D7(c) /\ Handler("0F_DA", c) = decode0F_DA(c)
  /\ Handler("0F_EF", c) = decode0F_EF(c)
  BY DEF Handler
<1> QED BY <1>1, <1>2, <1>3, <1>4, <1>5, <1>6, <1>7, <1>8, <1>9

\* All handlers that decode the rest of an instruction.
LEMMA WholeHandlers ==
  ASSUME MemoryTyped, NEW c, Ready(c), c.vt \in Widths, Op1(c) \in ByteValues
  PROVE  /\ \A h \in OfAnyOpcode : Done(c, Handler(h, c))
         /\ \A h \in OfSome : Op1(c) \in Opcodes(h) => Done(c, Handler(h, c))
<1>1.
  /\ Done(c, decode_63(c)) /\ Done(c, decode_68(c)) /\ Done(c, decode_6A(c))
  /\ Done(c, decode_8D(c)) /\ Done(c, decode_8F_0(c)) /\ Done(c, decode_98(c))
  /\ Done(c, decode_99(c)) /\ Done(c, decode_9C(c)) /\ Done(c, decode_9D(c))
  /\ Done(c, decode_B0(c)) /\ Done(c, decode_C0(c)) /\ Done(c, decode_C1(c))
  /\ Done(c, decode_C6(c)) /\ Done(c, decode_C7(c)) /\ Done(c, decode_D0(c))
  /\ Done(c, decode_D1(c)) /\ Done(c, decode_D2(c)) /\ Done(c, decode_D3(c))
  /\ Done(c, decode_E8(c)) /\ Done(c, decode_E9(c)) /\ Done(c, decode_EB(c))
  /\ Done(c, decode_F6(c)) /\ Done(c, decode_F7(c)) /\ Done(c, decode_FE(c))
  /\ Done(c, decode_FF(c)) /\ Done(c, decode0F_12(c)) /\ Done(c, decode0F_13(c))
  /\ Done(c, decode0F_14(c)) /\ Done(c, decode0F_15(c)) /\ Done(c, decode0F_16(c))
  /\ Done(c, decode0F_17(c)) /\ Done(c, decode0F_1F(c)) /\ Done(c, decode0F_28(c))
  /\ Done(c, decode0F_29(c)) /\ Done(c, decode0F_2E(c)) /\ Done(c, decode0F_6E_P66(c))
  /\ Done(c, decode0F_74(c)) /\ Done(c, decode0F_7E(c)) /\ Done(c, decode0F_7F(c))
  /\ Done(c, decode0F_B6(c)) /\ Done(c, decode0F_B7(c)) /\ Done(c, decode0F_BE(c))
  /\ Done(c, decode0F_BF(c)) /\ Done(c, decode0F_D4(c)) /\ Done(c, decode0F_D6(c))
  /\ Done(c, decode0F_D7(c)) /\ Done(c, decode0F_DA(c)) /\ Done(c, decode0F_EF(c))
  BY VectorMoves, VectorIntegers, VectorGeneral, Branches, GeneralMoves, StackOps, SimpleOps,
     ImmediateMove, ShiftOps, GroupOps, ByteOps
<1>2.
  /\ Done(c, Handler("63", c)) /\ Done(c, Handler("68", c)) /\ Done(c, Handler("6A", c))
  /\ Done(c, Handler("8D", c)) /\ Done(c, Handler("8F_0", c)) /\ Done(c, Handler("98", c))
  /\ Done(c, Handler("99", c)) /\ Done(c, Handler("9C", c)) /\ Done(c, Handler("9D", c))
  /\ Done(c, Handler("B0", c)) /\ Done(c, Handler("C0", c)) /\ Done(c, Handler("C1", c))
  /\ Done(c, Handler("C6", c)) /\ Done(c, Handler("C7", c)) /\ Done(c, Handler("D0", c))
  /\ Done(c, Handler("D1", c)) /\ Done(c, Handler("D2", c)) /\ Done(c, Handler("D3", c))
  /\ Done(c, Handler("E8", c)) /\ Done(c, Handler("E9", c)) /\ Done(c, Handler("EB", c))
  /\ Done(c, Handler("F6", c)) /\ Done(c, Handler("F7", c)) /\ Done(c, Handler("FE", c))
  /\ Done(c, Handler("FF", c)) /\ Done(c, Handler("0F_12", c)) /\ Done(c, Handler("0F_13", c))
  /\ Done(c, Handler("0F_14", c)) /\ Done(c, Handler("0F_15", c)) /\ Done(c, Handler("0F_16", c))
  /\ Done(c, Handler("0F_17", c)) /\ Done(c, Handler("0F_1F", c)) /\ Done(c, Handler("0F_28", c))
  /\ Done(c, Handler("0F_29", c)) /\ Done(c, Handler("0F_2E", c))
  /\ Done(c, Handler("0F_6E_P66", c)) /\ Done(c, Handler("0F_74", c))
  /\ Done(c, Handler("0F_7E", c)) /\ Done(c, Handler("0F_7F", c)) /\ Done(c, Handler("0F_B6", c))
  /\ Done(c, Handler("0F_B7", c)) /\ Done(c, Handler("0F_BE", c)) /\ Done(c, Handler("0F_BF", c))
  /\ Done(c, Handler("0F_D4", c)) /\ Done(c, Handler("0F_D6", c)) /\ Done(c, Handler("0F_D7", c))
  /\ Done(c, Handler("0F_DA", c)) /\ Done(c, Handler("0F_EF", c))
  BY <1>1, Dispatch
<1>3. \A h \in OfAnyOpcode : Done(c, Handler(h, c)) BY <1>2 DEF OfAnyOpcode
<1>4.
  /\ Op1(c) \in 80 .. 87 => Done(c, decode_50(c))
  /\ Op1(c) \in 88 .. 95 => Done(c, decode_58(c))
  /\ Op1(c) \in 112 .. 127 => Done(c, decode_70(c))
  /\ Op1(c) \in 64 .. 79 => Done(c, decode0F_40(c))
  /\ Op1(c) \in 128 .. 143 => Done(c, decode0F_80(c))
  BY Branches, GeneralMoves, StackOps
<1>5.
  /\ Op1(c) \in Opcodes("50") => Done(c, Handler("50", c))
  /\ Op1(c) \in Opcodes("58") => Done(c, Handler("58", c))
  /\ Op1(c) \in Opcodes("70") => Done(c, Handler("70", c))
  /\ Op1(c) \in Opcodes("0F_40") => Done(c, Handler("0F_40", c))
  /\ Op1(c) \in Opcodes("0F_80") => Done(c, Handler("0F_80", c))
  BY <1>4, Dispatch DEF Opcodes
<1>6. \A h \in OfSome : Op1(c) \in Opcodes(h) => Done(c, Handler(h, c)) BY <1>5 DEF OfSome
<1> QED BY <1>3, <1>6

Parses       == {"parseRM", "parseMR", "parseMI", "parseMI_8se", "parseI2", "parseI3",
                 "parseI3_8se", "setO1RegA"}
VectorParses == {"parseRMVV", "parseMRVV"}
VexParses    == VectorParses \cup {"parseRVM"}
Adds         == {"addBInstr", "addTInstr", "addBInsImp", "addTInsImp"}
VectorWidths == {"VT_32", "VT_64", "VT_128", "VT_256"}

\* All handlers that parse operands.
LEMMA ParseHandlers ==
  ASSUME MemoryTyped, NEW c, Ready(c)
  PROVE  /\ c.vt \in Widths => \A h \in Parses : Parsed(c, Handler(h, c))
         /\ c.vt \in VectorWidths =>
              /\ \A h \in VectorParses : Parsed(c, Handler(h, c))
              /\ c.vvvv \in 0 .. 15 => Parsed(c, Handler("parseRVM", c))
<1>1. /\ Handler("parseRM", c) = parseRM(c) /\ Handler("parseMR", c) = parseMR(c)
      /\ Handler("parseMI", c) = parseMI(c) /\ Handler("parseMI_8se", c) = parseMI_8se(c)
      /\ Handler("parseI2", c) = parseI2(c) /\ Handler("parseI3", c) = parseI3(c)
  BY DEF Handler
<1>2. /\ Handler("parseI3_8se", c) = parseI3_8se(c) /\ Handler("setO1RegA", c) = setO1RegA(c)
      /\ Handler("parseRMVV", c) = parseRMVV(c) /\ Handler("parseMRVV", c) = parseMRVV(c)
      /\ Handler("parseRVM", c) = parseRVM(c)
  BY DEF Handler
<1>3. ASSUME c.vt \in Widths PROVE \A h \in Parses : Parsed(c, Handler(h, c))
  <2>1. /\ Parsed(c, parseRM(c)) /\ Parsed(c, parseMR(c)) /\ Parsed(c, parseI2(c))
        /\ Parsed(c, parseI3(c)) /\ Parsed(c, parseMI(c))
    BY <1>3, GeneralOperands
  <2>2. Parsed(c, parseI3_8se(c)) /\ Parsed(c, parseMI_8se(c)) /\ Parsed(c, setO1RegA(c))
    BY <1>3, ExtendedOperands
  <2> QED BY <1>1, <1>2, <2>1, <2>2 DEF Parses
<1>4. ASSUME c.vt \in VectorWidths
      PROVE  /\ \A h \in VectorParses : Parsed(c, Handler(h, c))
             /\ c.vvvv \in 0 .. 15 => Parsed(c, Handler("parseRVM", c))
  <2>1. /\ Parsed(c, parseRMVV(c)) /\ Parsed(c, parseMRVV(c))
        /\ c.vvvv \in 0 .. 15 => Parsed(c, parseRVM(c))
    BY <1>4, VectorOperands DEF VectorWidths
  <2> QED BY <1>2, <2>1 DEF VectorParses
<1> QED BY <1>3, <1>4

\* All handlers that add an instruction.
LEMMA AddHandlers ==
  ASSUME NEW c, NEW d, Parsed(c, d), d.it \in PlainTypes
  PROVE  \A h \in Adds \cup {"addSInstr"} : Done(c, Handler(h, d))
<1>1. /\ Handler("addSInstr", d) = addSimple(d, d.it, d.vt)
      /\ Handler("addBInstr", d) = addBinaryOp(d, d.it, d.vt)
      /\ Handler("addBInsImp", d) = addBinaryOp(d, d.it, "VT_Implicit")
      /\ Handler("addTInstr", d) = addTernaryOp(d, d.it, d.vt)
      /\ Handler("addTInsImp", d) = addTernaryOp(d, d.it, "VT_Implicit")
  BY DEF Handler
<1>2. d.vt \in ValTypes /\ "VT_Implicit" \in ValTypes
  BY DEF Parsed, Ready, Contexts, ValTypes
<1>3. /\ Done(c, addSimple(d, d.it, d.vt)) /\ Done(c, addBinaryOp(d, d.it, d.vt))
      /\ Done(c, addTernaryOp(d, d.it, d.vt))
      /\ Done(c, addBinaryOp(d, d.it, "VT_Implicit"))
      /\ Done(c, addTernaryOp(d, d.it, "VT_Implicit"))
  BY <1>2, PlainAdds
<1> QED BY <1>1, <1>3 DEF Adds

\* What follows after the instruction is added.
LEMMA Attached ==
  ASSUME NEW c, NEW d, Done(c, d)
  PROVE  Done(c, Then(d, "attach"))
<1> DEFINE i == attachPassthrough(d.ii, d.vex, d.ps, d.oe, "SC_None", d.opc)
<1>1. d \in Contexts BY DEF Done
<1>2. Handler("attach", d) = IF d.ii = NoInstr THEN d ELSE [d EXCEPT !.ii = i]
  BY DEF Handler, attach
<1>3. i \in Instrs /\ i.type = d.ii.type /\ i.addr = d.ii.addr /\ i.len = d.ii.len
  BY <1>1 DEF attachPassthrough, Instrs, PassThroughs, Contexts
<1> HIDE DEF i
<1>4. d.ii # NoInstr => Done(c, [d EXCEPT !.ii = i])
  BY <1>1, <1>3 DEF Done, SameAs, Placed, Ends, Contexts
<1> QED BY <1>2, <1>4 DEF Then

\* RET is added and requests to stop.
LEMMA Returned ==
  ASSUME NEW c, Ready(c), c.it = "RET"
  PROVE  Done(c, Then(Handler("addSInstr", c), "reqExit"))
<1>1. "RET" \in EndTypes /\ "RET" \in InstrTypes BY DEF EndTypes, InstrTypes
<1>2. c.vt \in ValTypes BY DEF Ready, Contexts
<1> DEFINE d == addSimple(c, "RET", c.vt)
<1>3. Handler("addSInstr", c) = d BY DEF Handler
<1>4. Added(c, d, "RET") BY <1>1, <1>2, AddTypes
<1> HIDE DEF d
<1>5. Done(c, [d EXCEPT !.exit = TRUE]) BY <1>1, <1>4, EndInstr
<1>6. d.abort \/ d.error # "none" => Done(c, d)
  BY <1>4 DEF Added, Done, Placed, Ends
<1>7. Handler("reqExit", d) = [d EXCEPT !.exit = TRUE] BY DEF Handler
<1> QED BY <1>3, <1>5, <1>6, <1>7 DEF Then

\* A handler runs on what was parsed, unless the process has ended.
LEMMA ThenParsed ==
  ASSUME NEW c, NEW d, Parsed(c, d), NEW h
  PROVE  /\ Parsed(c, Handler(h, d)) => Parsed(c, Then(d, h))
         /\ Done(c, Handler(h, d)) => Done(c, Then(d, h))
<1>1. d.error = "none" BY DEF Parsed, Ready
<1>2. d.abort => Done(c, d) BY DEF Parsed, Ready, Done
<1> QED BY <1>1, <1>2 DEF Then

----------------------------------------------------------------------------
(***************************************************************************)
(* Entries and tables                                                      *)
(***************************************************************************)
\* Entries of the tables: a handler for everything, operands and an instruction
\* of general or vector registers, an instruction without operands, failures.
WholeEntry(o, e) ==
  /\ e.it = "None" /\ e.vt = "VT_Def"
  /\ \E h \in OfAnyOpcode \cup OfSome : e.hs = << h >> /\ (h \in OfSome => o \in Opcodes(h))
GeneralEntry(e) ==
  /\ e.it \in PlainTypes /\ e.vt \in {"VT_8", "VT_Def"}
  /\ \E a \in Adds : \/ \E p \in Parses : e.hs = << p, a >>
                     \/ \E p, q \in Parses : e.hs = << p, q, a >>
VectorEntry(e, vps) ==
  /\ e.it \in PlainTypes /\ e.vt \in VectorWidths
  /\ \E a \in Adds, p \in vps : e.hs = << p, a >> \/ e.hs = << p, a, "attach" >>
SimpleEntry(e) ==
  /\ e.vt = "VT_None"
  /\ \/ e.it \in PlainTypes /\ e.hs \in { << "addSInstr" >>, << "addSInstr", "attach" >> }
     \/ e.it = "RET" /\ e.hs = << "addSInstr", "reqExit" >>
FailingEntry(e) == \E h \in {"BadOpcode", "BadPrefix", "assert"} : e = Failing(h)

EntryOK(o, e, vps) ==
  \/ WholeEntry(o, e) \/ GeneralEntry(e) \/ VectorEntry(e, vps) \/ SimpleEntry(e) \/ FailingEntry(e)

\* Running the handlers of an entry.
Run(c, e) == followedBy(followedBy(Handler(e.hs[1], c), e.hs, 2), e.hs, 3)

\* Running one, two or three handlers.
LEMMA Runs ==
  ASSUME NEW c, NEW e
  PROVE  /\ \A h : e.hs = << h >> => Run(c, e) = Handler(h, c)
         /\ \A h, i : e.hs = << h, i >> => Run(c, e) = Then(Handler(h, c), i)
         /\ \A h, i, j : e.hs = << h, i, j >> => Run(c, e) = Then(Then(Handler(h, c), i), j)
<1>1. ASSUME NEW h, e.hs = << h >> PROVE Run(c, e) = Handler(h, c)
  <2>1. Len(e.hs) = 1 /\ e.hs[1] = h BY <1>1
  <2> QED BY <2>1 DEF Run, followedBy
<1>2. ASSUME NEW h, NEW i, e.hs = << h, i >> PROVE Run(c, e) = Then(Handler(h, c), i)
  <2>1. Len(e.hs) = 2 /\ e.hs[1] = h /\ e.hs[2] = i BY <1>2
  <2> QED BY <2>1 DEF Run, followedBy
<1>3. ASSUME NEW h, NEW i, NEW j, e.hs = << h, i, j >>
      PROVE  Run(c, e) = Then(Then(Handler(h, c), i), j)
  <2>1. Len(e.hs) = 3 /\ e.hs[1] = h /\ e.hs[2] = i /\ e.hs[3] = j BY <1>3
  <2> QED BY <2>1 DEF Run, followedBy
<1> QED BY <1>1, <1>2, <1>3

\* The handlers of an entry that is right add one instruction.
LEMMA RunTyped ==
  ASSUME MemoryTyped, NEW c, Ready(c), NEW o \in ByteValues, Op1(c) = o,
         NEW vps \in SUBSET VexParses, "parseRVM" \in vps => c.vvvv \in 0 .. 15,
         NEW e, EntryOK(o, e, vps), c.it = e.it,
         e.vt \in {"VT_8", "VT_Def"} => c.vt \in Widths,
         e.vt \in VectorWidths => c.vt = e.vt
  PROVE  Done(c, Run(c, e))
<1>0. Parsed(c, c) BY ParsedAll
<1>1. CASE WholeEntry(o, e)
  <2>1. PICK h \in OfAnyOpcode \cup OfSome : e.hs = << h >> /\ (h \in OfSome => o \in Opcodes(h))
    BY <1>1 DEF WholeEntry
  <2>2. c.vt \in Widths BY <1>1 DEF WholeEntry
  <2>3. Done(c, Handler(h, c)) BY <2>1, <2>2, WholeHandlers
  <2> QED BY <2>1, <2>3, Runs
<1>2. CASE GeneralEntry(e)
  <2>1. c.it \in PlainTypes /\ c.vt \in Widths BY <1>2 DEF GeneralEntry
  <2>2. PICK a \in Adds : \/ \E p \in Parses : e.hs = << p, a >>
                          \/ \E p, q \in Parses : e.hs = << p, q, a >>
    BY <1>2 DEF GeneralEntry
  <2>3. ASSUME NEW p \in Parses, e.hs = << p, a >> PROVE Done(c, Run(c, e))
    <3> DEFINE d == Handler(p, c)
    <3>1. Parsed(c, d) BY <2>1, ParseHandlers
    <3> HIDE DEF d
    <3>2. d.it \in PlainTypes BY <2>1, <3>1 DEF Parsed
    <3>3. Done(c, Handler(a, d)) BY <3>1, <3>2, AddHandlers
    <3>4. Done(c, Then(d, a)) BY <3>1, <3>3, ThenParsed
    <3> QED BY <2>3, <3>4, Runs DEF d
  <2>4. ASSUME NEW p \in Parses, NEW q \in Parses, e.hs = << p, q, a >> PROVE Done(c, Run(c, e))
    <3> DEFINE d == Handler(p, c)
               f == Then(d, q)
    <3>1. Parsed(c, d) BY <2>1, ParseHandlers
    <3> HIDE DEF d
    <3>2. Ready(d) /\ d.vt \in Widths BY <2>1, <3>1 DEF Parsed
    <3>3. Parsed(d, Handler(q, d)) BY <3>2, ParseHandlers
    <3>4. Parsed(c, Handler(q, d)) BY <3>1, <3>3, ParsedAll
    <3>5. Parsed(c, f) BY <3>1, <3>4, ThenParsed
    <3> HIDE DEF f
    <3>6. f.it \in PlainTypes BY <2>1, <3>5 DEF Parsed
    <3>7. Done(c, Handler(a, f)) BY <3>5, <3>6, AddHandlers
    <3>8. Done(c, Then(f, a)) BY <3>5, <3>7, ThenParsed
    <3> QED BY <2>4, <3>8, Runs DEF d, f
  <2> QED BY <2>2, <2>3, <2>4
<1>3. CASE VectorEntry(e, vps)
  <2>1. c.it \in PlainTypes /\ c.vt \in VectorWidths BY <1>3 DEF VectorEntry
  <2>2. PICK a \in Adds, p \in vps : e.hs = << p, a >> \/ e.hs = << p, a, "attach" >>
    BY <1>3 DEF VectorEntry
  <2> DEFINE d == Handler(p, c)
  <2>3. Parsed(c, d) BY <2>1, <2>2, ParseHandlers DEF VexParses
  <2> HIDE DEF d
  <2>4. d.it \in PlainTypes BY <2>1, <2>3 DEF Parsed
  <2>5. Done(c, Handler(a, d)) BY <2>3, <2>4, AddHandlers
  <2>6. Done(c, Then(d, a)) BY <2>3, <2>5, ThenParsed
  <2>7. Done(c, Then(Then(d, a), "attach")) BY <2>6, Attached
  <2> QED BY <2>2, <2>6, <2>7, Runs DEF d
<1>4. CASE SimpleEntry(e)
  <2>1. ASSUME e.it \in PlainTypes PROVE Done(c, Handler("addSInstr", c))
    BY <1>0, <2>1, AddHandlers
  <2>2. ASSUME e.it \in PlainTypes PROVE Done(c, Then(Handler("addSInstr", c), "attach"))
    BY <2>1, <2>2, Attached
  <2>3. ASSUME e.it = "RET" PROVE Done(c, Then(Handler("addSInstr", c), "reqExit"))
    BY <2>3, Returned
  <2> QED BY <1>4, <2>1, <2>2, <2>3, Runs DEF SimpleEntry
<1>5. CASE FailingEntry(e)
  <2>1. PICK h \in {"BadOpcode", "BadPrefix", "assert"} : e = Failing(h)
    BY <1>5 DEF FailingEntry
  <2>2. e.hs = << h >> BY <2>1 DEF Failing
  <2>3. Done(c, markDecodeError(c, "BadOpcode")) /\ Done(c, markDecodeError(c, "BadPrefix"))
    BY DecodeErrors
  <2>4. Done(c, [c EXCEPT !.abort = TRUE]) BY DEF Ready, Done, SameAs, Contexts
  <2>5. /\ Handler("BadOpcode", c) = markDecodeError(c, "BadOpcode")
        /\ Handler("BadPrefix", c) = markDecodeError(c, "BadPrefix")
        /\ Handler("assert", c) = [c EXCEPT !.abort = TRUE]
    BY DEF Handler, Require
  <2>6. Done(c, Handler(h, c)) BY <2>1, <2>3, <2>4, <2>5
  <2>7. Run(c, e) = Handler(h, c) BY <2>2, Runs
  <2> QED BY <2>6, <2>7
<1> QED BY <1>1, <1>2, <1>3, <1>4, <1>5 DEF EntryOK

\* The tables.
InfoOK(o, oi, vps) ==
  /\ oi.t = "OT_Single" => 1 \in DOMAIN oi.e
  /\ \A x \in DOMAIN oi.e : EntryOK(o, oi.e[x], vps)
TableOK(t, vps) == \A o \in DOMAIN t : InfoOK(o, t[o], vps)

\* The instruction and operand type an entry sets.
LEMMA EntryTypes ==
  ASSUME NEW o, NEW e, NEW vps, EntryOK(o, e, vps)
  PROVE  e.it \in InstrTypes /\ e.vt \in ValTypes
<1>1. "None" \in InstrTypes /\ "RET" \in InstrTypes /\ \A it \in PlainTypes : it \in InstrTypes
  BY DEF InstrTypes, EndTypes
<1> QED BY <1>1 DEF EntryOK, WholeEntry, GeneralEntry, VectorEntry, SimpleEntry, FailingEntry,
            Failing, ValTypes, VectorWidths, Widths

\* The entry selected for an opcode is right, or there is none.
LEMMA EntriesOf ==
  ASSUME NEW c, NEW t, NEW vps, TableOK(t, vps), NEW o
  PROVE  EntryOK(o, entryOf(c, t, o), vps)
<1>1. /\ EntryOK(o, Failing("BadOpcode"), vps) /\ EntryOK(o, Failing("BadPrefix"), vps)
      /\ EntryOK(o, Failing("assert"), vps)
  BY DEF EntryOK, FailingEntry
<1>2. CASE o \notin DOMAIN t BY <1>1, <1>2 DEF entryOf
<1>3. CASE o \in DOMAIN t
  <2> DEFINE oi == t[o]
  <2>1. /\ oi.t = "OT_Single" => EntryOK(o, oi.e[1], vps)
        /\ \A x \in DOMAIN oi.e : EntryOK(o, oi.e[x], vps)
    BY <1>3 DEF TableOK, InfoOK
  <2> QED BY <1>1, <1>3, <2>1 DEF entryOf
<1> QED BY <1>2, <1>3

\* Processing an opcode by a table that is right adds one instruction.
LEMMA Processed ==
  ASSUME MemoryTyped, NEW c, Ready(c), NEW o \in ByteValues, Op1(c) = o,
         NEW vps \in SUBSET VexParses, "parseRVM" \in vps => c.vvvv \in 0 .. 15, NEW t, TableOK(t, vps)
  PROVE  Done(c, processOpc(c, t, o))
<1> DEFINE e == entryOf(c, t, o)
           vt == OperandType(c, e.vt)
           d == [c EXCEPT !.it = e.it, !.vt = vt]
<1>1. EntryOK(o, e, vps) BY EntriesOf
<1>2. e.it \in InstrTypes /\ e.vt \in ValTypes BY <1>1, EntryTypes
<1>3. processOpc(c, t, o) = Run(d, e) BY DEF processOpc, Run
<1> HIDE DEF e
<1>4. /\ vt \in ValTypes
      /\ e.vt \in {"VT_8", "VT_Def"} => vt \in Widths
      /\ e.vt \in VectorWidths => vt = e.vt
  BY <1>2 DEF OperandType, ValTypes, Widths, VectorWidths
<1> HIDE DEF vt
<1>5. Ready(d) /\ SameAs(c, d) /\ d.it = e.it /\ d.vt = vt /\ d.vvvv = c.vvvv /\ d.opc = c.opc
  BY <1>2, <1>4 DEF Ready, SameAs, Contexts
<1> HIDE DEF d
<1>6. Op1(d) = o BY <1>5 DEF Op1
<1>7. Done(d, Run(d, e)) BY <1>1, <1>4, <1>5, <1>6, RunTyped
<1> QED BY <1>3, <1>5, <1>7, DoneOf

\* Tables of tables.
LEMMA Joined ==
  ASSUME NEW vps
  PROVE  /\ \A o, oi : InfoOK(o, oi, vps) => TableOK(At(o, oi), vps)
         /\ \A S, oi : (\A o \in S : InfoOK(o, oi, vps)) => TableOK(AllOf(S, oi), vps)
         /\ \A ts : (\A k \in DOMAIN ts : TableOK(ts[k], vps)) => TableOK(Tables(ts), vps)
<1>1. \A o, oi : InfoOK(o, oi, vps) => TableOK(At(o, oi), vps) BY DEF TableOK, At
<1>2. \A S, oi : (\A o \in S : InfoOK(o, oi, vps)) => TableOK(AllOf(S, oi), vps)
  BY DEF TableOK, AllOf
<1>3. ASSUME NEW ts, \A k \in DOMAIN ts : TableOK(ts[k], vps)
      PROVE  TableOK(Tables(ts), vps)
  <2> SUFFICES ASSUME NEW x \in DOMAIN Tables(ts)
               PROVE  InfoOK(x, Tables(ts)[x], vps)
    BY DEF TableOK
  <2> DEFINE k == CHOOSE k \in DOMAIN ts : x \in DOMAIN ts[k]
  <2>1. \E j \in DOMAIN ts : x \in DOMAIN ts[j] BY DEF Tables
  <2>2. k \in DOMAIN ts /\ x \in DOMAIN ts[k] BY <2>1
  <2>3. Tables(ts)[x] = ts[k][x] BY DEF Tables
  <2> HIDE DEF k
  <2> QED BY <1>3, <2>2, <2>3 DEF TableOK
<1> QED BY <1>1, <1>2, <1>3

\* Up to four of them.
LEMMA JoinedFew ==
  ASSUME NEW vps, NEW a, NEW b, TableOK(a, vps), TableOK(b, vps)
  PROVE  /\ TableOK(Tables(<< a, b >>), vps)
         /\ \A c : TableOK(c, vps) =>
              /\ TableOK(Tables(<< a, b, c >>), vps)
              /\ \A d : TableOK(d, vps) => TableOK(Tables(<< a, b, c, d >>), vps)
<1>1. TableOK(Tables(<< a, b >>), vps)
  <2>1. \A k \in DOMAIN << a, b >> : TableOK(<< a, b >>[k], vps) OBVIOUS
  <2> QED BY <2>1, Joined
<1>2. ASSUME NEW c, TableOK(c, vps) PROVE TableOK(Tables(<< a, b, c >>), vps)
  <2>1. \A k \in DOMAIN << a, b, c >> : TableOK(<< a, b, c >>[k], vps) BY <1>2
  <2> QED BY <2>1, Joined
<1>3. ASSUME NEW c, TableOK(c, vps), NEW d, TableOK(d, vps)
      PROVE  TableOK(Tables(<< a, b, c, d >>), vps)
  <2>1. \A k \in DOMAIN << a, b, c, d >> : TableOK(<< a, b, c, d >>[k], vps) BY <1>3
  <2> QED BY <2>1, Joined
<1> QED BY <1>1, <1>2, <1>3

\* Entries of single opcodes.
LEMMA SingleInfo ==
  \A o, it, vt, hs, vps :
    EntryOK(o, Entry(it, vt, hs), vps) => InfoOK(o, Single(it, vt, hs), vps)
<1> SUFFICES ASSUME NEW o, NEW it, NEW vt, NEW hs, NEW vps, EntryOK(o, Entry(it, vt, hs), vps)
             PROVE  InfoOK(o, Single(it, vt, hs), vps)
  OBVIOUS
<1> DEFINE e == Entry(it, vt, hs)
<1> HIDE DEF e
<1>1. Single(it, vt, hs) = [t |-> "OT_Single", e |-> << e >>] BY DEF Single, e
<1>2. EntryOK(o, e, vps) BY DEF e
<1> QED BY <1>1, <1>2 DEF InfoOK

\* Entries with one handler.
LEMMA WholeInfo ==
  ASSUME NEW o, NEW vps
  PROVE  /\ \A h \in OfAnyOpcode : EntryOK(o, Entry("None", "VT_Def", << h >>), vps)
         /\ \A h \in OfAnyOpcode : InfoOK(o, setOpcH(h), vps)
         /\ \A h \in OfSome : o \in Opcodes(h) => InfoOK(o, setOpcH(h), vps)
         /\ \A h \in OfAnyOpcode, t \in {"OT_Group", "OT_Four"} : \A x :
              InfoOK(o, [ t |-> t, e |-> At(x, Entry("None", "VT_Def", << h >>)) ], vps)
<1>1. \A h \in OfAnyOpcode : h \notin OfSome BY DEF OfAnyOpcode, OfSome
<1>2. ASSUME NEW h \in OfAnyOpcode \cup OfSome, h \in OfSome => o \in Opcodes(h)
      PROVE  EntryOK(o, Entry("None", "VT_Def", << h >>), vps)
  BY <1>2 DEF EntryOK, WholeEntry, Entry
<1>3. ASSUME NEW h \in OfAnyOpcode \cup OfSome, h \in OfSome => o \in Opcodes(h)
      PROVE  InfoOK(o, setOpcH(h), vps)
  BY <1>2, <1>3, SingleInfo DEF setOpcH
<1>4. ASSUME NEW e, EntryOK(o, e, vps), NEW t \in {"OT_Group", "OT_Four"}, NEW x
      PROVE  InfoOK(o, [ t |-> t, e |-> At(x, e) ], vps)
  BY <1>4 DEF InfoOK, At
<1> QED BY <1>1, <1>2, <1>3, <1>4

\* Entries that parse operands and add an instruction.
LEMMA GeneralInfo ==
  ASSUME NEW o, NEW vps, NEW it \in PlainTypes, NEW vt \in {"VT_8", "VT_Def"},
         NEW p \in Parses, NEW a \in Adds
  PROVE  /\ EntryOK(o, Entry(it, vt, << p, a >>), vps)
         /\ InfoOK(o, Single(it, vt, << p, a >>), vps)
         /\ \A q \in Parses : InfoOK(o, Single(it, vt, << p, q, a >>), vps)
<1>1. EntryOK(o, Entry(it, vt, << p, a >>), vps) BY DEF EntryOK, GeneralEntry, Entry
<1>2. \A q \in Parses : EntryOK(o, Entry(it, vt, << p, q, a >>), vps)
  BY DEF EntryOK, GeneralEntry, Entry
<1> QED BY <1>1, <1>2, SingleInfo

\* Entries that only add an instruction.
LEMMA SimpleInfo ==
  ASSUME NEW o, NEW vps
  PROVE  /\ \A it \in PlainTypes :
              /\ InfoOK(o, Single(it, "VT_None", << "addSInstr" >>), vps)
              /\ EntryOK(o, Entry(it, "VT_None", << "addSInstr", "attach" >>), vps)
         /\ InfoOK(o, Single("RET", "VT_None", << "addSInstr", "reqExit" >>), vps)
<1>1. \A it \in PlainTypes : /\ EntryOK(o, Entry(it, "VT_None", << "addSInstr" >>), vps)
                             /\ EntryOK(o, Entry(it, "VT_None", << "addSInstr", "attach" >>), vps)
  BY DEF EntryOK, SimpleEntry, Entry
<1>2. EntryOK(o, Entry("RET", "VT_None", << "addSInstr", "reqExit" >>), vps)
  BY DEF EntryOK, SimpleEntry, Entry
<1> QED BY <1>1, <1>2, SingleInfo

\* The operations of the first opcodes.
LEMMA AluTypes == /\ \A k \in 1 .. 8 : AluOps[k] \in PlainTypes
                  /\ \A n : ByteOrDef(n) \in {"VT_8", "VT_Def"}
BY DEF AluOps, PlainTypes, ByteOrDef

\* Entries of opcodes that are shared.
LEMMA GroupInfo ==
  ASSUME NEW o, NEW vps, NEW vt \in {"VT_8", "VT_Def"}, NEW p \in Parses
  PROVE  InfoOK(o, setOpcG(vt, AluOps, << p, "addBInstr" >>), vps)
<1>1. "addBInstr" \in Adds BY DEF Adds
<1>2. ASSUME NEW d \in 0 .. 7
      PROVE  EntryOK(o, Entry(AluOps[d + 1], vt, << p, "addBInstr" >>), vps)
  <2>1. d + 1 \in 1 .. 8 OBVIOUS
  <2>2. AluOps[d + 1] \in PlainTypes BY <2>1, AluTypes
  <2> QED BY <1>1, <2>2, GeneralInfo
<1> QED BY <1>2 DEF InfoOK, setOpcG

\* The four prefixes by which vector instructions are selected differ.
LEMMA PrefixesDiffer == \A m, n \in 1 .. 4 : PrefixOrder[m] = PrefixOrder[n] => m = n
<1>1. "66" # "F3" /\ "66" # "F2" /\ "F3" # "F2" OBVIOUS
<1>2. \A x, y : x # y => {x} # {y} OBVIOUS
<1>3. \A x : {} # {x} OBVIOUS
<1>4. /\ {"66"} # {"F3"} /\ {"66"} # {"F2"} /\ {"F3"} # {"F2"}
      /\ {} # {"66"} /\ {} # {"F3"} /\ {} # {"F2"}
  BY <1>1, <1>2, <1>3
<1>5. /\ PrefixOrder[1] = {} /\ PrefixOrder[2] = {"66"} /\ PrefixOrder[3] = {"F3"}
      /\ PrefixOrder[4] = {"F2"}
  BY DEF PrefixOrder
<1>6. \A n \in 1 .. 4 : n = 1 \/ n = 2 \/ n = 3 \/ n = 4 OBVIOUS
<1> QED BY <1>4, <1>5, <1>6

\* Their numbers.
LEMMA UpToFour == \A n \in 1 .. 4 : n = 1 \/ n = 2 \/ n = 3 \/ n = 4
OBVIOUS

\* Entries of opcodes that are selected by prefix.
LEMMA FourInfo ==
  ASSUME NEW o, NEW vps, NEW vts, NEW its, NEW hs,
         its[1] # "" => EntryOK(o, Entry(its[1], vts[1], hs), vps),
         its[2] # "" => EntryOK(o, Entry(its[2], vts[2], hs), vps),
         its[3] # "" => EntryOK(o, Entry(its[3], vts[3], hs), vps),
         its[4] # "" => EntryOK(o, Entry(its[4], vts[4], hs), vps)
  PROVE  InfoOK(o, setOpcP(vts, its, hs), vps)
<1> DEFINE oi == setOpcP(vts, its, hs)
<1>1. oi.t = "OT_Four" BY DEF setOpcP
<1>2. ASSUME NEW ps \in DOMAIN oi.e PROVE EntryOK(o, oi.e[ps], vps)
  <2> DEFINE k == CHOOSE n \in 1 .. 4 : PrefixOrder[n] = ps
  <2>1. PICK j \in 1 .. 4 : its[j] # "" /\ PrefixOrder[j] = ps BY DEF setOpcP
  <2>2. k \in 1 .. 4 /\ PrefixOrder[k] = ps BY <2>1
  <2>3. oi.e[ps] = Entry(its[k], vts[k], hs) BY DEF setOpcP
  <2> HIDE DEF k
  <2>4. k = j BY <2>1, <2>2, PrefixesDiffer
  <2> HIDE DEF oi
  <2>5. j = 1 \/ j = 2 \/ j = 3 \/ j = 4 BY UpToFour
  <2>6. its[j] # "" => EntryOK(o, Entry(its[j], vts[j], hs), vps) BY <2>5
  <2> QED BY <2>1, <2>3, <2>4, <2>6
<1> QED BY <1>1, <1>2 DEF InfoOK

\* Types, names and operands of entries for vector registers.
OptionalTypes   == PlainTypes \cup {""}
NamesOK(its)    == /\ its[1] \in OptionalTypes /\ its[2] \in OptionalTypes
                   /\ its[3] \in OptionalTypes /\ its[4] \in OptionalTypes
WideTypes(vts)  == /\ vts[1] \in VectorWidths /\ vts[2] \in VectorWidths
                   /\ vts[3] \in VectorWidths /\ vts[4] \in VectorWidths
FormOK(hs, vps) == \E p \in vps, a \in Adds : hs = << p, a >> \/ hs = << p, a, "attach" >>

\* Entries that parse vector registers.
LEMMA VectorEntries ==
  ASSUME NEW vps, NEW hs, FormOK(hs, vps), NEW it \in PlainTypes, NEW vt \in VectorWidths, NEW o
  PROVE  EntryOK(o, Entry(it, vt, hs), vps)
BY DEF EntryOK, VectorEntry, Entry, FormOK

\* Opcodes with such entries.
LEMMA VectorInfo ==
  ASSUME NEW vps
  PROVE  \A o, vts, its, hs : WideTypes(vts) /\ NamesOK(its) /\ FormOK(hs, vps) =>
           TableOK(At(o, setOpcP(vts, its, hs)), vps)
<1> SUFFICES ASSUME NEW o, NEW vts, WideTypes(vts), NEW hs, FormOK(hs, vps),
                    NEW its, NamesOK(its)
             PROVE  InfoOK(o, setOpcP(vts, its, hs), vps)
  BY Joined
<1>1. \A it \in PlainTypes, vt \in VectorWidths : EntryOK(o, Entry(it, vt, hs), vps)
  BY VectorEntries
<1>2. /\ its[1] # "" => EntryOK(o, Entry(its[1], vts[1], hs), vps)
      /\ its[2] # "" => EntryOK(o, Entry(its[2], vts[2], hs), vps)
      /\ its[3] # "" => EntryOK(o, Entry(its[3], vts[3], hs), vps)
      /\ its[4] # "" => EntryOK(o, Entry(its[4], vts[4], hs), vps)
  BY <1>1 DEF OptionalTypes, WideTypes, NamesOK
<1> QED BY <1>2, FourInfo

\* The operand types of vector instructions.
LEMMA AllWide == WideTypes(ScalarTypes) /\ WideTypes(Of128) /\ WideTypes(Of256)
BY DEF WideTypes, ScalarTypes, Of128, Of256, VectorWidths

\* Those with VEX prefix.
LEMMA VexWide == \A s \in {"VT_32", "VT_64"} : WideTypes(VexScalarTypes(s))
BY DEF WideTypes, VexScalarTypes, VectorWidths

\* The handlers of vector instructions.
LEMMA VectorForms ==
  ASSUME NEW vps, VectorParses \subseteq vps
  PROVE  /\ FormOK(RM, vps) /\ FormOK(MR, vps) /\ FormOK(<< "parseRMVV", "addBInsImp" >>, vps)
         /\ "parseRVM" \in vps => FormOK(RVM, vps)
<1>1. "addBInsImp" \in Adds /\ "addTInsImp" \in Adds BY DEF Adds
<1>2. "parseRMVV" \in vps /\ "parseMRVV" \in vps BY DEF VectorParses
<1>3. \A p \in vps, a \in Adds : FormOK(<< p, a >>, vps) /\ FormOK(<< p, a, "attach" >>, vps)
  BY DEF FormOK
<1> QED BY <1>1, <1>2, <1>3 DEF RM, MR, RVM

\* The names in the table of one-byte opcodes.
LEMMA TableNames ==
  /\ {"TEST", "MOV", "NOP", "LEAVE", "IMUL", "BSF"} \subseteq PlainTypes
  /\ {"parseRM", "parseMR", "parseMI", "parseMI_8se", "parseI2", "parseI3", "parseI3_8se",
      "setO1RegA"} \subseteq Parses
  /\ {"addBInstr", "addTInstr"} \subseteq Adds
BY DEF PlainTypes, Parses, Adds

\* Arithmetic opcodes.
LEMMA AluEntries == TableOK(AluTable, VectorParses)
<1> SUFFICES ASSUME NEW o \in DOMAIN AluTable
             PROVE  InfoOK(o, AluTable[o], VectorParses)
  BY DEF TableOK
<1>1. PICK k \in 0 .. 7, n \in 0 .. 5 : o = 8 * k + n BY DEF AluTable
<1>2. o \div 8 = k /\ o % 8 = n BY <1>1
<1>3. AluOps[(o \div 8) + 1] \in PlainTypes BY <1>2, AluTypes
<1> DEFINE it == AluOps[(o \div 8) + 1]
           vt == ByteOrDef(o)
<1>4. it \in PlainTypes /\ vt \in {"VT_8", "VT_Def"} BY <1>3, AluTypes
<1> HIDE DEF it, vt
<1>5. /\ InfoOK(o, Single(it, vt, << "parseMR", "addBInstr" >>), VectorParses)
      /\ InfoOK(o, Single(it, vt, << "parseRM", "addBInstr" >>), VectorParses)
      /\ InfoOK(o, Single(it, vt, << "setO1RegA", "parseI2", "addBInstr" >>), VectorParses)
  BY <1>4, TableNames, GeneralInfo
<1>6. n \in {0, 1} \/ n \in {2, 3} \/ n \in {4, 5} OBVIOUS
<1>7. \/ AluTable[o] = Single(it, vt, << "parseMR", "addBInstr" >>)
      \/ AluTable[o] = Single(it, vt, << "parseRM", "addBInstr" >>)
      \/ AluTable[o] = Single(it, vt, << "setO1RegA", "parseI2", "addBInstr" >>)
  BY <1>2, <1>6 DEF AluTable, it, vt
<1> QED BY <1>5, <1>7

\* Stack, multiplication and branch opcodes.
LEMMA StackEntries == TableOK(Tables(StackTables), VectorParses)
<1>1. {"63", "68", "6A"}
        \subseteq OfAnyOpcode
  BY DEF OfAnyOpcode
<1>2. {"50", "58", "70"} \subseteq OfSome
  BY DEF OfSome
<1>3. /\ (\A o \in \h50 .. \h57 : o \in Opcodes("50"))
      /\ (\A o \in \h58 .. \h5F : o \in Opcodes("58"))
      /\ (\A o \in \h70 .. \h7F : o \in Opcodes("70"))
  BY DEF Opcodes
<1>4. TableOK(StackTables[1], VectorParses)
  BY <1>2, <1>3, WholeInfo, Joined DEF StackTables
<1>5. TableOK(StackTables[2], VectorParses)
  BY <1>2, <1>3, WholeInfo, Joined DEF StackTables
<1>6. TableOK(StackTables[8], VectorParses)
  BY <1>2, <1>3, WholeInfo, Joined DEF StackTables
<1>7. /\ TableOK(StackTables[3], VectorParses) /\ TableOK(StackTables[4], VectorParses)
      /\ TableOK(StackTables[5], VectorParses)
  BY <1>1, WholeInfo, Joined DEF StackTables
<1>8. TableOK(StackTables[6], VectorParses) /\ TableOK(StackTables[7], VectorParses)
  BY TableNames, GeneralInfo, Joined DEF StackTables
<1>9. DOMAIN StackTables = 1 .. 8
  BY DEF StackTables
<1>10. \A k \in DOMAIN StackTables : TableOK(StackTables[k], VectorParses)
  BY <1>4, <1>5, <1>6, <1>7, <1>8, <1>9
<1> QED BY <1>10, Joined

\* Opcodes with an arithmetic operation selected by digit.
LEMMA GroupEntries == TableOK(Tables(GroupTables), VectorParses)
<1>1. /\ TableOK(GroupTables[1], VectorParses) /\ TableOK(GroupTables[2], VectorParses)
      /\ TableOK(GroupTables[3], VectorParses)
  BY TableNames, GroupInfo, Joined DEF GroupTables
<1>2. DOMAIN GroupTables = 1 .. 3
  BY DEF GroupTables
<1>3. \A k \in DOMAIN GroupTables : TableOK(GroupTables[k], VectorParses)
  BY <1>1, <1>2
<1> QED BY <1>3, Joined

\* All other opcodes of one byte.
LEMMA MoveEntries == TableOK(Tables(MoveTables), VectorParses)
<1>1. {"8D", "98", "99", "9C", "9D", "B0", "C0", "C1", "C6", "C7", "D0", "D1", "D2", "D3",
       "E8", "E9", "EB", "F6", "F7", "FE", "FF", "8F_0"}
        \subseteq OfAnyOpcode
  BY DEF OfAnyOpcode
<1>2. /\ TableOK(MoveTables[5], VectorParses) /\ TableOK(MoveTables[8], VectorParses)
      /\ TableOK(MoveTables[9], VectorParses) /\ TableOK(MoveTables[10], VectorParses)
  BY <1>1, WholeInfo, Joined DEF MoveTables
<1>3. /\ TableOK(MoveTables[11], VectorParses) /\ TableOK(MoveTables[12], VectorParses)
      /\ TableOK(MoveTables[13], VectorParses) /\ TableOK(MoveTables[14], VectorParses)
  BY <1>1, WholeInfo, Joined DEF MoveTables
<1>4. /\ TableOK(MoveTables[16], VectorParses) /\ TableOK(MoveTables[17], VectorParses)
      /\ TableOK(MoveTables[19], VectorParses) /\ TableOK(MoveTables[20], VectorParses)
  BY <1>1, WholeInfo, Joined DEF MoveTables
<1>5. /\ TableOK(MoveTables[21], VectorParses) /\ TableOK(MoveTables[22], VectorParses)
      /\ TableOK(MoveTables[23], VectorParses) /\ TableOK(MoveTables[24], VectorParses)
  BY <1>1, WholeInfo, Joined DEF MoveTables
<1>6. /\ TableOK(MoveTables[25], VectorParses) /\ TableOK(MoveTables[26], VectorParses)
      /\ TableOK(MoveTables[27], VectorParses) /\ TableOK(MoveTables[28], VectorParses)
  BY <1>1, WholeInfo, Joined, ZenonT(40) DEF MoveTables
<1>7. TableOK(MoveTables[29], VectorParses)
  BY <1>1, WholeInfo, Joined DEF MoveTables
<1>8. /\ TableOK(MoveTables[7], VectorParses) /\ TableOK(MoveTables[15], VectorParses)
      /\ TableOK(MoveTables[18], VectorParses)
  BY TableNames, SimpleInfo, Joined DEF MoveTables
<1>9. TableOK(MoveTables[1], VectorParses)
  BY TableNames, AluTypes, GeneralInfo DEF MoveTables, TableOK
<1>10. TableOK(MoveTables[2], VectorParses)
  BY TableNames, AluTypes, GeneralInfo DEF MoveTables, TableOK
<1>11. TableOK(MoveTables[3], VectorParses)
  BY TableNames, AluTypes, GeneralInfo DEF MoveTables, TableOK
<1>12. TableOK(MoveTables[4], VectorParses)
  BY TableNames, AluTypes, GeneralInfo DEF MoveTables, TableOK
<1>13. TableOK(MoveTables[6], VectorParses)
  BY <1>1, WholeInfo, Joined DEF MoveTables
<1>14. DOMAIN MoveTables = 1 .. 29
  BY DEF MoveTables
<1>15. \A k \in DOMAIN MoveTables : TableOK(MoveTables[k], VectorParses)
  BY <1>2, <1>3, <1>4, <1>5, <1>6, <1>7, <1>8, <1>9, <1>10, <1>11, <1>12, <1>13, <1>14
<1> QED BY <1>15, Joined

\* Vector moves.
LEMMA VectorMoveEntries == TableOK(Tables(Moves0F), VectorParses)
<1>1. {"0F_12", "0F_13", "0F_14", "0F_15", "0F_16", "0F_17", "0F_1F", "0F_28", "0F_29",
       "0F_2E"}
        \subseteq OfAnyOpcode
  BY DEF OfAnyOpcode
<1>2. /\ TableOK(Moves0F[3], VectorParses) /\ TableOK(Moves0F[4], VectorParses)
      /\ TableOK(Moves0F[5], VectorParses) /\ TableOK(Moves0F[6], VectorParses)
  BY <1>1, WholeInfo, Joined DEF Moves0F
<1>3. /\ TableOK(Moves0F[7], VectorParses) /\ TableOK(Moves0F[8], VectorParses)
      /\ TableOK(Moves0F[9], VectorParses) /\ TableOK(Moves0F[10], VectorParses)
  BY <1>1, WholeInfo, Joined DEF Moves0F
<1>4. TableOK(Moves0F[11], VectorParses) /\ TableOK(Moves0F[12], VectorParses)
  BY <1>1, WholeInfo, Joined DEF Moves0F
<1>5. /\ FormOK(RM, VectorParses) /\ FormOK(MR, VectorParses)
      /\ FormOK(<< "parseRMVV", "addBInsImp" >>, VectorParses)
  BY VectorForms
<1>6. NamesOK(<< "MOVUPS", "MOVUPD", "MOVSS", "MOVSD" >>)
  BY DEF NamesOK, OptionalTypes, PlainTypes
<1>7. TableOK(Moves0F[1], VectorParses) /\ TableOK(Moves0F[2], VectorParses)
  BY <1>5, <1>6, VectorInfo, AllWide DEF Moves0F
<1>8. DOMAIN Moves0F = 1 .. 12
  BY DEF Moves0F
<1>9. \A k \in DOMAIN Moves0F : TableOK(Moves0F[k], VectorParses)
  BY <1>2, <1>3, <1>4, <1>7, <1>8
<1> QED BY <1>9, Joined

\* Vector arithmetic.
LEMMA ArithmeticEntries == TableOK(Tables(Arithmetic0F), VectorParses)
<1>1. /\ FormOK(RM, VectorParses) /\ FormOK(MR, VectorParses)
      /\ FormOK(<< "parseRMVV", "addBInsImp" >>, VectorParses)
  BY VectorForms
<1>2. /\ NamesOK(<< "SQRTPS", "SQRTPD", "SQRTSS", "SQRTSD" >>)
      /\ NamesOK(<< "RSQRTPS", "", "RSQRTSS", "" >>) /\ NamesOK(<< "RCPPS", "", "RCPSS", "" >>)
      /\ NamesOK(<< "ANDPS", "ANDPD", "", "" >>)
  BY DEF NamesOK, OptionalTypes, PlainTypes
<1>3. /\ NamesOK(<< "ANDNPS", "ANDNPD", "", "" >>) /\ NamesOK(<< "ORPS", "ORPD", "", "" >>)
      /\ NamesOK(<< "XORPS", "XORPD", "", "" >>) /\ NamesOK(ADDs)
  BY DEF NamesOK, OptionalTypes, PlainTypes, ADDs
<1>4. /\ NamesOK(<< "MULPS", "MULPD", "MULSS", "MULSD" >>)
      /\ NamesOK(<< "SUBPS", "SUBPD", "SUBSS", "SUBSD" >>)
      /\ NamesOK(<< "MINPS", "MINPD", "MINSS", "MINSD" >>)
      /\ NamesOK(<< "DIVPS", "DIVPD", "DIVSS", "DIVSD" >>)
  BY DEF NamesOK, OptionalTypes, PlainTypes
<1>5. NamesOK(<< "MAXPS", "MAXPD", "MAXSS", "MAXSD" >>)
  BY DEF NamesOK, OptionalTypes, PlainTypes
<1>6. /\ TableOK(Arithmetic0F[1], VectorParses) /\ TableOK(Arithmetic0F[2], VectorParses)
      /\ TableOK(Arithmetic0F[3], VectorParses) /\ TableOK(Arithmetic0F[4], VectorParses)
  BY <1>1, <1>2, <1>3, <1>4, <1>5, VectorInfo, AllWide DEF Arithmetic0F
<1>7. /\ TableOK(Arithmetic0F[5], VectorParses) /\ TableOK(Arithmetic0F[6], VectorParses)
      /\ TableOK(Arithmetic0F[7], VectorParses) /\ TableOK(Arithmetic0F[8], VectorParses)
  BY <1>1, <1>2, <1>3, <1>4, <1>5, VectorInfo, AllWide DEF Arithmetic0F
<1>8. /\ TableOK(Arithmetic0F[9], VectorParses) /\ TableOK(Arithmetic0F[10], VectorParses)
      /\ TableOK(Arithmetic0F[11], VectorParses) /\ TableOK(Arithmetic0F[12], VectorParses)
  BY <1>1, <1>2, <1>3, <1>4, <1>5, VectorInfo, AllWide DEF Arithmetic0F
<1>9. TableOK(Arithmetic0F[13], VectorParses)
  BY <1>1, <1>2, <1>3, <1>4, <1>5, VectorInfo, AllWide DEF Arithmetic0F
<1>10. DOMAIN Arithmetic0F = 1 .. 13
  BY DEF Arithmetic0F
<1>11. \A k \in DOMAIN Arithmetic0F : TableOK(Arithmetic0F[k], VectorParses)
  BY <1>6, <1>7, <1>8, <1>9, <1>10
<1> QED BY <1>11, Joined

\* Vector integers and horizontal arithmetic.
LEMMA IntegerEntries == TableOK(Tables(Integer0F), VectorParses)
<1>1. {"0F_74", "0F_7E", "0F_7F", "0F_D4", "0F_D6", "0F_D7", "0F_DA", "0F_EF", "0F_6E_P66"}
        \subseteq OfAnyOpcode
  BY DEF OfAnyOpcode
<1>2. /\ TableOK(Integer0F[3], VectorParses) /\ TableOK(Integer0F[6], VectorParses)
      /\ TableOK(Integer0F[7], VectorParses) /\ TableOK(Integer0F[9], VectorParses)
  BY <1>1, WholeInfo, Joined DEF Integer0F
<1>3. /\ TableOK(Integer0F[10], VectorParses) /\ TableOK(Integer0F[11], VectorParses)
      /\ TableOK(Integer0F[12], VectorParses) /\ TableOK(Integer0F[13], VectorParses)
  BY <1>1, WholeInfo, Joined DEF Integer0F
<1>4. TableOK(Integer0F[1], VectorParses)
  BY <1>1, WholeInfo, Joined DEF Integer0F
<1>5. /\ FormOK(RM, VectorParses) /\ FormOK(MR, VectorParses)
      /\ FormOK(<< "parseRMVV", "addBInsImp" >>, VectorParses)
  BY VectorForms
<1>6. /\ NamesOK(<< "MOVQ", "MOVDQA", "MOVDQU", "" >>)
      /\ NamesOK(<< "", "HADDPD", "", "HADDPS" >>) /\ NamesOK(<< "", "HSUBPD", "", "HSUBPS" >>)
      /\ NamesOK(<< "", "ADDSUBPD", "", "ADDSUBPS" >>)
  BY DEF NamesOK, OptionalTypes, PlainTypes
<1>7. TableOK(Integer0F[2], VectorParses)
  <2> DEFINE vts == << "VT_64", "VT_128", "VT_128", "" >>
             its == << "MOVQ", "MOVDQA", "MOVDQU", "" >>
  <2>1. /\ its[1] \in PlainTypes /\ its[2] \in PlainTypes /\ its[3] \in PlainTypes
        /\ its[4] = ""
    BY DEF PlainTypes
  <2>2. vts[1] \in VectorWidths /\ vts[2] \in VectorWidths /\ vts[3] \in VectorWidths
    BY DEF VectorWidths
  <2> HIDE DEF vts, its
  <2>3. InfoOK(\h6F, setOpcP(vts, its, RM), VectorParses)
    BY <1>5, <2>1, <2>2, VectorEntries, FourInfo
  <2> QED BY <2>3, Joined DEF Integer0F, vts, its
<1>8. /\ TableOK(Integer0F[4], VectorParses) /\ TableOK(Integer0F[5], VectorParses)
      /\ TableOK(Integer0F[8], VectorParses)
  BY <1>5, <1>6, VectorInfo, AllWide DEF Integer0F
<1>9. DOMAIN Integer0F = 1 .. 13
  BY DEF Integer0F
<1>10. \A k \in DOMAIN Integer0F : TableOK(Integer0F[k], VectorParses)
  BY <1>2, <1>3, <1>4, <1>7, <1>8, <1>9
<1> QED BY <1>10, Joined

\* Opcodes of two bytes for general registers.
LEMMA GeneralEntries == TableOK(Tables(General0F), VectorParses)
<1>1. {"0F_B6", "0F_B7", "0F_BE", "0F_BF"}
        \subseteq OfAnyOpcode
  BY DEF OfAnyOpcode
<1>2. {"0F_40", "0F_80"} \subseteq OfSome
  BY DEF OfSome
<1>3. /\ (\A o \in \h40 .. \h4F : o \in Opcodes("0F_40"))
      /\ (\A o \in \h80 .. \h8F : o \in Opcodes("0F_80"))
  BY DEF Opcodes
<1>4. TableOK(General0F[1], VectorParses)
  BY <1>2, <1>3, WholeInfo, Joined DEF General0F
<1>5. TableOK(General0F[2], VectorParses)
  BY <1>2, <1>3, WholeInfo, Joined DEF General0F
<1>6. /\ TableOK(General0F[5], VectorParses) /\ TableOK(General0F[6], VectorParses)
      /\ TableOK(General0F[7], VectorParses) /\ TableOK(General0F[8], VectorParses)
  BY <1>1, WholeInfo, Joined DEF General0F
<1>7. TableOK(General0F[3], VectorParses) /\ TableOK(General0F[4], VectorParses)
  BY TableNames, GeneralInfo, Joined DEF General0F
<1>8. DOMAIN General0F = 1 .. 8
  BY DEF General0F
<1>9. \A k \in DOMAIN General0F : TableOK(General0F[k], VectorParses)
  BY <1>4, <1>5, <1>6, <1>7, <1>8
<1> QED BY <1>9, Joined

\* The tables without VEX prefix are right.
LEMMA GeneralTables == TableOK(opcTable, VectorParses) /\ TableOK(opcTable0F, VectorParses)
<1>1. TableOK(opcTable, VectorParses)
  BY AluEntries, StackEntries, GroupEntries, MoveEntries, JoinedFew DEF opcTable
<1>2. TableOK(opcTable0F, VectorParses)
  BY VectorMoveEntries, ArithmeticEntries, IntegerEntries, GeneralEntries, JoinedFew
  DEF opcTable0F
<1> QED BY <1>1, <1>2

\* The names in the tables with VEX prefix.
LEMMA VexNames ==
  /\ NamesOK(<< "VMOVUPS", "VMOVUPD", "VMOVSS", "VMOVSD" >>)
  /\ NamesOK(<< "VMOVUPS", "VMOVUPD", "", "" >>) /\ NamesOK(<< "VMOVAPS", "VMOVAPD", "", "" >>)
  /\ NamesOK(<< "", "VMOVDQA", "VMOVDQU", "" >>) /\ NamesOK(<< "", "VMOVNTDQ", "", "" >>)
  /\ NamesOK(<< "VXORPS", "VXORPD", "", "" >>)
  /\ NamesOK(<< "VADDPS", "VADDPD", "VADDSS", "VADDSD" >>)
  /\ NamesOK(<< "VMULPS", "VMULPD", "VMULSS", "VMULSD" >>)
  /\ NamesOK(<< "VADDPS", "VADDPD", "", "" >>) /\ NamesOK(<< "VMULPS", "VMULPD", "", "" >>)
<1>1. /\ NamesOK(<< "VMOVUPS", "VMOVUPD", "VMOVSS", "VMOVSD" >>)
      /\ NamesOK(<< "VMOVUPS", "VMOVUPD", "", "" >>)
      /\ NamesOK(<< "VMOVAPS", "VMOVAPD", "", "" >>)
      /\ NamesOK(<< "", "VMOVDQA", "VMOVDQU", "" >>)
  BY DEF NamesOK, OptionalTypes, PlainTypes
<1>2. /\ NamesOK(<< "", "VMOVNTDQ", "", "" >>) /\ NamesOK(<< "VXORPS", "VXORPD", "", "" >>)
      /\ NamesOK(<< "VADDPS", "VADDPD", "VADDSS", "VADDSD" >>)
  BY DEF NamesOK, OptionalTypes, PlainTypes
<1>3. /\ NamesOK(<< "VMULPS", "VMULPD", "VMULSS", "VMULSD" >>)
      /\ NamesOK(<< "VADDPS", "VADDPD", "", "" >>)
      /\ NamesOK(<< "VMULPS", "VMULPD", "", "" >>)
  BY DEF NamesOK, OptionalTypes, PlainTypes
<1> QED BY <1>1, <1>2, <1>3

\* Their handlers.
LEMMA VexFormsOK ==
  FormOK(RM, VexParses) /\ FormOK(MR, VexParses) /\ FormOK(RVM, VexParses)
<1>1. VectorParses \subseteq VexParses /\ "parseRVM" \in VexParses BY DEF VexParses
<1> QED BY <1>1, VectorForms

\* What both of these tables have.
LEMMA VexCommon ==
  ASSUME NEW vts, WideTypes(vts), NEW zero \in {"VZEROUPPER", "VZEROALL"}
  PROVE  TableOK(VexTable(vts, zero), VexParses)
<1>1. TableOK(VexAligned(vts), VexParses)
  BY VexNames, VexFormsOK, VectorInfo, JoinedFew DEF VexAligned
<1>2. TableOK(VexInteger(vts, zero), VexParses)
  <2> DEFINE hs == << "addSInstr", "attach" >>
             ts == [k \in 1 .. 4 |-> "VT_None"]
             its == << zero, "", "", "" >>
  <2>1. zero \in PlainTypes BY DEF PlainTypes
  <2>2. \A o : EntryOK(o, Entry(zero, "VT_None", hs), VexParses) BY <2>1, SimpleInfo
  <2>3. ts[1] = "VT_None" /\ its[1] = zero /\ its[2] = "" /\ its[3] = "" /\ its[4] = ""
    OBVIOUS
  <2> HIDE DEF ts, its
  <2>4. InfoOK(\h77, setOpcP(ts, its, hs), VexParses) BY <2>2, <2>3, FourInfo
  <2>5. TableOK(At(\h77, setOpcP(ts, its, hs)), VexParses) BY <2>4, Joined
  <2>6. \A o : /\ TableOK(At(o, setOpcP(vts, << "", "VMOVDQA", "VMOVDQU", "" >>, RM)), VexParses)
               /\ TableOK(At(o, setOpcP(vts, << "", "VMOVDQA", "VMOVDQU", "" >>, MR)), VexParses)
    BY VexNames, VexFormsOK, VectorInfo
  <2> QED BY <2>5, <2>6, JoinedFew DEF VexInteger, ts, its
<1>3. TableOK(VexNonTemporal(vts), VexParses)
  BY VexNames, VexFormsOK, VectorInfo DEF VexNonTemporal
<1>4. TableOK(VexXor(vts), VexParses) BY VexNames, VexFormsOK, VectorInfo DEF VexXor
<1> QED BY <1>1, <1>2, <1>3, <1>4, JoinedFew DEF VexTable

\* The tables with VEX prefix are right.
LEMMA VexTables == TableOK(opcTable0F_V128, VexParses) /\ TableOK(opcTable0F_V256, VexParses)
<1>1. WideTypes(VexScalarTypes("VT_32")) /\ WideTypes(VexScalarTypes("VT_64")) BY VexWide
<1>2. TableOK(VexMoves128, VexParses)
  BY <1>1, VexNames, VexFormsOK, VectorInfo, JoinedFew DEF VexMoves128
<1>3. TableOK(VexMoves256, VexParses)
  BY AllWide, VexNames, VexFormsOK, VectorInfo, JoinedFew DEF VexMoves256
<1>4. TableOK(VexArith128, VexParses)
  BY <1>1, VexNames, VexFormsOK, VectorInfo, JoinedFew DEF VexArith128
<1>5. TableOK(VexArith256, VexParses)
  BY AllWide, VexNames, VexFormsOK, VectorInfo, JoinedFew DEF VexArith256
<1>6. TableOK(VexTable(Of128, "VZEROUPPER"), VexParses)
  BY AllWide, VexCommon
<1>7. TableOK(VexTable(Of256, "VZEROALL"), VexParses)
  BY AllWide, VexCommon
<1> QED BY <1>2, <1>3, <1>4, <1>5, <1>6, <1>7, JoinedFew DEF opcTable0F_V128, opcTable0F_V256

----------------------------------------------------------------------------
(***************************************************************************)
(* Decoding an instruction                                                 *)
(***************************************************************************)
\* The greatest element of a set of positions is one of them.
LEMMA LastPosition ==
  ASSUME NEW n \in Nat, NEW S \in SUBSET (1 .. n), S # {}
  PROVE  Max(S) \in S
<1> DEFINE R == OpToRel(<, Nat)
           T == { n - k : k \in S }
<1>1. IsWellFoundedOn(R, Nat) BY NatLessThanWellFounded
<1>2. \A y, x \in Nat : y < x => << y, x >> \in R BY DEF OpToRel
<1> HIDE DEF R
<1>3. T \subseteq Nat /\ T # {}
  <2>1. PICK k \in S : TRUE OBVIOUS
  <2>2. n - k \in T BY <2>1
  <2>3. \A j \in S : n - j \in Nat OBVIOUS
  <2> QED BY <2>2, <2>3
<1>4. PICK x \in T : \A y \in T : ~(<< y, x >> \in R) BY <1>1, <1>3, WFMin
<1>5. \A y \in T : ~(y < x) BY <1>2, <1>3, <1>4
<1>6. PICK k \in S : x = n - k BY <1>4
<1>7. \A j \in S : k >= j
  <2> SUFFICES ASSUME NEW j \in S PROVE k >= j OBVIOUS
  <2>1. n - j \in T OBVIOUS
  <2>2. ~(n - j < n - k) BY <1>5, <1>6, <2>1
  <2> QED BY <2>2
<1> QED BY <1>6, <1>7 DEF Max

\* What the legacy prefixes stand for.
LEMMA PrefixTables ==
  /\ \A b \in DOMAIN PrefixSets : PrefixSets[b] \in PrefixNames
  /\ \A b \in DOMAIN SegPrefix : SegPrefix[b] \in Segments
<1>1. \A S, x : \A y \in S : \A b \in DOMAIN At(x, y) : At(x, y)[b] \in S BY DEF At
<1>2. ASSUME NEW S, NEW ts, \A k \in DOMAIN ts : \A b \in DOMAIN ts[k] : ts[k][b] \in S
      PROVE  \A b \in DOMAIN Tables(ts) : Tables(ts)[b] \in S
  <2> SUFFICES ASSUME NEW b \in DOMAIN Tables(ts) PROVE Tables(ts)[b] \in S OBVIOUS
  <2> DEFINE k == CHOOSE k \in DOMAIN ts : b \in DOMAIN ts[k]
  <2>1. \E j \in DOMAIN ts : b \in DOMAIN ts[j] BY DEF Tables
  <2>2. k \in DOMAIN ts /\ b \in DOMAIN ts[k] BY <2>1
  <2>3. Tables(ts)[b] = ts[k][b] BY DEF Tables
  <2> HIDE DEF k
  <2> QED BY <1>2, <2>2, <2>3
<1> DEFINE ps == << At(\hF2, "F2"), At(\hF3, "F3"), At(\h66, "66"), At(\h2E, "2E") >>
           ss == << At(\h64, "OSO_UseFS"), At(\h65, "OSO_UseGS") >>
<1>3. \A k \in DOMAIN ps : \A b \in DOMAIN ps[k] : ps[k][b] \in PrefixNames
  <2>1. /\ "F2" \in PrefixNames /\ "F3" \in PrefixNames /\ "66" \in PrefixNames
        /\ "2E" \in PrefixNames
    BY DEF PrefixNames
  <2>2. \A k \in 1 .. 4 : \E x : \E y \in PrefixNames : ps[k] = At(x, y) BY <2>1
  <2>3. DOMAIN ps = 1 .. 4 OBVIOUS
  <2> HIDE DEF ps
  <2> QED BY <1>1, <2>2, <2>3
<1>4. \A k \in DOMAIN ss : \A b \in DOMAIN ss[k] : ss[k][b] \in Segments
  <2>1. "OSO_UseFS" \in Segments /\ "OSO_UseGS" \in Segments BY DEF Segments
  <2>2. \A k \in 1 .. 2 : \E x : \E y \in Segments : ss[k] = At(x, y) BY <2>1
  <2>3. DOMAIN ss = 1 .. 2 OBVIOUS
  <2> HIDE DEF ss
  <2> QED BY <1>1, <2>2, <2>3
<1> HIDE DEF ps, ss
<1>5. PrefixSets = Tables(ps) /\ SegPrefix = Tables(ss) BY DEF PrefixSets, SegPrefix, ps, ss
<1> QED BY <1>2, <1>3, <1>4, <1>5

\* A context of an instruction of which nothing but prefixes is decoded.
Started(c, d) ==
  /\ d \in Contexts /\ d.f = c.f /\ d.iaddr = c.f + c.off /\ d.off >= c.off
  /\ d.ii = NoInstr /\ d.error = "none" /\ d.exit = FALSE
  /\ d.vex # "VEX_No" => d.vvvv \in 0 .. 15 /\ d.off > c.off

\* The context decoding starts with.
LEMMA ContextTyped == Context \in Contexts
<1>1. NoInstr \in Instrs /\ NoOperand \in Operands BY NewInstr, OperandTypes
<1>2. << >> \in Seq(ByteValues) OBVIOUS
<1> QED BY <1>1, <1>2 DEF Context, Contexts, Segments, VexTypes, ValTypes, InstrTypes, Encodings, Errors

\* Legacy prefixes change only prefixes and segment of a context.
LEMMA PrefixesAdded ==
  ASSUME NEW c, c.f \in Nat, c.off \in Nat, NEW bs \in Seq(ByteValues)
  PROVE  LET start == [Context EXCEPT !.f = c.f, !.off = c.off, !.iaddr = c.f + c.off]
         IN addPrefixes(start, bs) \in Contexts
            /\ Started(c, addPrefixes(start, bs)) /\ addPrefixes(start, bs).vex = "VEX_No"
            /\ addPrefixes(start, bs).abort = FALSE
<1> DEFINE start == [Context EXCEPT !.f = c.f, !.off = c.off, !.iaddr = c.f + c.off]
<1>1. start \in Contexts /\ start.f = c.f /\ start.off = c.off /\ start.iaddr = c.f + c.off
  <2>1. c.f + c.off \in Nat OBVIOUS
  <2> QED BY <2>1, ContextTyped DEF Contexts
<1>2. /\ start.ii = NoInstr /\ start.error = "none" /\ start.exit = FALSE
      /\ start.vex = "VEX_No" /\ start.abort = FALSE
  BY DEF Context
<1> DEFINE rex == { k \in DOMAIN bs : bs[k] \in \h40 .. \h4F }
           pre == { k \in DOMAIN bs : bs[k] \in DOMAIN PrefixSets }
           seg == { k \in DOMAIN bs : bs[k] \in DOMAIN SegPrefix }
           r == IF rex = {} THEN start.rex ELSE RexBits(bs[Max(rex)])
           p == { PrefixSets[bs[k]] : k \in pre }
           s == IF seg = {} THEN start.segOv ELSE SegPrefix[bs[Max(seg)]]
           h == rex # {}
<1>3. addPrefixes(start, bs) = [start EXCEPT !.rex = r, !.hasRex = h, !.ps = p, !.segOv = s]
  BY DEF addPrefixes
<1> HIDE DEF start
<1>4. r \in SUBSET RexBitNames
  <2>1. \A b : RexBits(b) \in SUBSET RexBitNames BY DEF RexBits, RexBitNames
  <2>2. start.rex \in SUBSET RexBitNames BY <1>1 DEF Contexts
  <2> QED BY <2>1, <2>2
<1>5. p \in SUBSET PrefixNames BY PrefixTables
<1>6. s \in Segments
  <2>1. CASE seg = {} BY <1>1, <2>1 DEF Contexts
  <2>2. CASE seg # {}
    <3>1. seg \in SUBSET (1 .. Len(bs)) /\ Len(bs) \in Nat BY LenProperties
    <3>2. Max(seg) \in seg BY <2>2, <3>1, LastPosition
    <3> QED BY <2>2, <3>2, PrefixTables
  <2> QED BY <2>1, <2>2
<1>7. h \in BOOLEAN OBVIOUS
<1> HIDE DEF r, p, s, h
<1> DEFINE d == [start EXCEPT !.rex = r, !.hasRex = h, !.ps = p, !.segOv = s]
<1>8. d \in Contexts BY <1>1, <1>4, <1>5, <1>6, <1>7 DEF Contexts
<1>9. /\ d.f = start.f /\ d.off = start.off /\ d.iaddr = start.iaddr /\ d.ii = start.ii
      /\ d.error = start.error /\ d.exit = start.exit /\ d.vex = start.vex /\ d.abort = start.abort
  BY <1>1 DEF Contexts
<1> HIDE DEF d
<1>10. Started(c, d) BY <1>1, <1>2, <1>8, <1>9 DEF Started
<1>11. addPrefixes(start, bs) = d BY <1>3 DEF d
<1>12. d.vex = "VEX_No" /\ d.abort = FALSE BY <1>2, <1>9
<1> QED BY <1>8, <1>10, <1>11, <1>12 DEF start

\* Bytes may be skipped before the opcode.
LEMMA SkippedStart ==
  ASSUME NEW c, c.off \in Nat, NEW d, Started(c, d), NEW n \in Nat
  PROVE  Started(c, Skip(d, n))
<1>1. d \in Contexts /\ d.off \in Nat /\ d.off + n \in Nat BY DEF Started, Contexts
<1>2. d.off + n >= c.off /\ (d.off > c.off => d.off + n > c.off) BY <1>1 DEF Started
<1> DEFINE e == Skip(d, n)
<1>3. e \in Contexts /\ e = [d EXCEPT !.off = d.off + n] BY <1>1 DEF Skip, Contexts
<1>4. /\ e.f = d.f /\ e.off = d.off + n /\ e.iaddr = d.iaddr /\ e.ii = d.ii /\ e.error = d.error
      /\ e.exit = d.exit /\ e.vex = d.vex /\ e.vvvv = d.vvvv
  BY <1>1, <1>3 DEF Contexts
<1> HIDE DEF e
<1> QED BY <1>2, <1>3, <1>4 DEF Started, e

\* What a VEX prefix changes.
LEMMA VexStart ==
  ASSUME MemoryTyped, NEW c, c.off \in Nat, NEW d, Started(c, d), NEW b \in ByteValues,
         NEW rex \in SUBSET RexBitNames, NEW n \in Nat \ {0}
  PROVE  /\ Started(c, Skip(vexBits(d, b, rex), n))
         /\ \A p : Started(c, Skip(Require(vexBits(d, b, rex), p), n))
<1> DEFINE v == IF (b \div 4) % 2 = 1 THEN "VEX_256" ELSE "VEX_128"
           p == d.ps \cup << {}, {"66"}, {"F3"}, {"F2"} >>[(b % 4) + 1]
           r == d.rex \cup rex
           m == 15 - ((b \div 8) % 16)
<1>1. /\ d \in Contexts /\ d.off \in Nat /\ d.off + n \in Nat /\ d.off >= c.off
      /\ d.ps \in SUBSET PrefixNames /\ d.rex \in SUBSET RexBitNames
  BY DEF Started, Contexts
<1>2. v \in VexTypes /\ v # "VEX_No" BY DEF VexTypes
<1>3. p \in SUBSET PrefixNames
  <2>1. b % 4 \in 0 .. 3 BY DEF ByteValues
  <2>2. (b % 4) + 1 \in 1 .. 4 BY <2>1
  <2>3. \A k \in 1 .. 4 : << {}, {"66"}, {"F3"}, {"F2"} >>[k] \in SUBSET PrefixNames
    BY DEF PrefixNames
  <2> QED BY <1>1, <2>2, <2>3
<1>4. r \in SUBSET RexBitNames BY <1>1
<1>5. m \in 0 .. 15 BY DEF ByteValues
<1>6. vexBits(d, b, rex)
        = [d EXCEPT !.vex = v, !.ps = p, !.vvvv = m, !.rex = r, !.hasRex = TRUE]
  BY DEF vexBits
<1> HIDE DEF v, p, r, m
<1> DEFINE e == [d EXCEPT !.vex = v, !.ps = p, !.vvvv = m, !.rex = r, !.hasRex = TRUE]
<1>7. e \in Contexts
  <2>1. m \in -1 .. 15 BY <1>5
  <2> QED BY <1>1, <1>2, <1>3, <1>4, <2>1 DEF Contexts
<1>8. /\ e.f = d.f /\ e.off = d.off /\ e.iaddr = d.iaddr /\ e.ii = d.ii /\ e.vvvv = m
      /\ e.error = d.error /\ e.exit = d.exit
  BY <1>1 DEF Contexts
<1> HIDE DEF e
<1> DEFINE s == Skip(e, n)
<1>10. /\ s \in Contexts /\ s.off = d.off + n /\ s.f = d.f /\ s.iaddr = d.iaddr /\ s.ii = d.ii
       /\ s.vvvv = m /\ s.error = d.error /\ s.exit = d.exit
  BY <1>1, <1>7, <1>8 DEF Skip, Contexts
<1> HIDE DEF s
<1>11. Started(c, s)
  <2>1. d.off + n > c.off BY <1>1
  <2>2. d.off + n >= c.off BY <1>1
  <2> QED BY <1>5, <1>10, <2>1, <2>2 DEF Started
<1>12. Started(c, [s EXCEPT !.abort = TRUE]) BY <1>11 DEF Started, Contexts
<1>13. [s EXCEPT !.abort = TRUE] = Skip([e EXCEPT !.abort = TRUE], n)
  BY <1>7 DEF s, Skip, Contexts
<1> QED BY <1>6, <1>11, <1>12, <1>13 DEF e, s, Require

\* Decoding prefixes leaves a context ready for the opcode.
LEMMA PrefixesDecoded ==
  ASSUME MemoryTyped, NEW c, c.f \in Nat, c.off \in Nat, FewPrefixes(c)
  PROVE  Started(c, decodePrefixes(c))
<1> DEFINE start == [Context EXCEPT !.f = c.f, !.off = c.off, !.iaddr = c.f + c.off]
           n     == CHOOSE n \in 0 .. MaxPrefixes : Prefixed(c, n)
           d     == Skip(addPrefixes(start, Read(c, n)), n)
<1>1. n \in 0 .. MaxPrefixes BY DEF FewPrefixes
<1>2. n \in Nat BY <1>1, DecoderAssumption
<1> HIDE DEF n
<1>3. Read(c, n) \in Seq(ByteValues) BY <1>2, BytesRead
<1>4. Started(c, addPrefixes(start, Read(c, n))) BY <1>3, PrefixesAdded
<1>5. Started(c, d) BY <1>2, <1>4, SkippedStart
<1>6. decodePrefixes(c) = CASE Byte(d, 0) = \hC5 -> decodeVex2(d)
                            [] Byte(d, 0) = \hC4 -> decodeVex3(d)
                            [] OTHER -> d
  BY DEF decodePrefixes, n
<1> HIDE DEF d
<1>7. Started(c, decodeVex2(d))
  <2>1. (IF Byte(d, 1) < 128 THEN {"R"} ELSE {}) \in SUBSET RexBitNames BY DEF RexBitNames
  <2>2. Byte(d, 1) \in ByteValues BY BytesRead
  <2> QED BY <1>5, <2>1, <2>2, VexStart DEF decodeVex2
<1>8. Started(c, decodeVex3(d))
  <2> DEFINE b1  == Byte(d, 1)
             b2  == Byte(d, 2)
             rex == { x \in {"R", "X", "B"} : (b1 \div [R |-> 128, X |-> 64, B |-> 32][x]) % 2 = 0 }
                    \cup (IF b2 < 128 THEN {"W"} ELSE {})
  <2>1. rex \in SUBSET RexBitNames BY DEF RexBitNames
  <2>2. b2 \in ByteValues BY BytesRead
  <2>3. decodeVex3(d) = Skip(Require(vexBits(d, b2, rex), b1 % 32 = 1), 3) BY DEF decodeVex3
  <2> HIDE DEF b1, b2, rex
  <2>4. \A p : Started(c, Skip(Require(vexBits(d, b2, rex), p), 3))
    BY <1>5, <2>1, <2>2, VexStart
  <2> QED BY <2>3, <2>4 DEF Require
<1>9. Byte(d, 0) = \hC5 => Byte(d, 0) # \hC4 OBVIOUS
<1> QED BY <1>5, <1>6, <1>7, <1>8, <1>9

\* What decoding one instruction gives: the process ends, or the instruction,
\* placed where the last one ended.
Decoded1(c, d) ==
  /\ d \in Contexts
  /\ d.abort \/ (d.f = c.f /\ d.iaddr = c.f + c.off /\ Placed(d))

\* decodeInstr adds exactly one instruction, whatever the bytes are, unless the
\* process ends or the buffer of instructions is full: it starts at the address
\* decoded and ends where decoding goes on.  Decoding stops behind it just when
\* it is an instruction that ends a block.
LEMMA DecodedInstr ==
  ASSUME MemoryTyped, NEW c, c.f \in Nat, c.off \in Nat, FewPrefixes(c)
  PROVE  Decoded1(c, decodeInstr(c))
<1> DEFINE a     == decodePrefixes(c)
           vex   == a.vex # "VEX_No"
           opc1  == IF vex THEN \h0F ELSE Byte(a, 0)
           n     == IF vex THEN 0 ELSE 1
           d     == Skip([a EXCEPT !.opc = << opc1 >>], n)
           opc2  == Byte(d, 0)
           e     == Skip([d EXCEPT !.opc = << opc1, opc2 >>], 1)
           table == CASE a.vex = "VEX_128" -> opcTable0F_V128
                      [] a.vex = "VEX_256" -> opcTable0F_V256
                      [] ~vex /\ opc1 = \h0F -> opcTable0F
                      [] OTHER -> opcTable
           p     == IF opc1 = \h0F THEN processOpc(e, table, opc2) ELSE processOpc(d, table, opc1)
<1>1. Started(c, a) BY PrefixesDecoded
<1>2. decodeInstr(c) = IF a.abort THEN a ELSE p BY DEF decodeInstr
<1> HIDE DEF a
<1>3. a.abort => Decoded1(c, a) BY <1>1 DEF Decoded1, Started
<1>4. /\ a \in Contexts /\ a.f = c.f /\ a.iaddr = c.f + c.off /\ a.off >= c.off /\ a.off \in Nat
      /\ a.ii = NoInstr /\ a.error = "none" /\ a.exit = FALSE
      /\ vex => a.vvvv \in 0 .. 15 /\ a.off > c.off
      /\ a.vex \in VexTypes
  BY <1>1 DEF Started, Contexts
<1>5. opc1 \in ByteValues
  <2>1. Byte(a, 0) \in ByteValues BY BytesRead
  <2>2. \h0F \in ByteValues BY DEF ByteValues
  <2> QED BY <2>1, <2>2
<1>6. n \in Nat /\ a.off + n \in Nat /\ a.off + n > c.off BY <1>4
<1>7. vex => opc1 = \h0F OBVIOUS
<1>8. table = IF a.vex = "VEX_128" THEN opcTable0F_V128
              ELSE IF a.vex = "VEX_256" THEN opcTable0F_V256
              ELSE IF opc1 = \h0F THEN opcTable0F ELSE opcTable
  BY <1>4 DEF VexTypes
<1> HIDE DEF opc1, n, table
<1>9. << opc1 >> \in Seq(ByteValues) /\ << opc1 >>[Len(<< opc1 >>)] = opc1 BY <1>5
<1>10. Ready(d) /\ d.f = c.f /\ d.iaddr = c.f + c.off /\ Op1(d) = opc1 /\ d.vvvv = a.vvvv
  <2>1. d \in Contexts BY <1>4, <1>6, <1>9 DEF Skip, Contexts
  <2>2. /\ d.f = a.f /\ d.off = a.off + n /\ d.iaddr = a.iaddr /\ d.ii = a.ii /\ d.error = a.error
        /\ d.exit = a.exit /\ d.vvvv = a.vvvv /\ d.opc = << opc1 >>
    BY <1>4 DEF Skip, Contexts
  <2> HIDE DEF d
  <2>3. d.iaddr < d.f + d.off BY <1>4, <1>6, <2>2
  <2> QED BY <1>4, <1>9, <2>1, <2>2, <2>3 DEF Ready, Op1
<1> HIDE DEF d
<1>11. opc2 \in ByteValues BY BytesRead
<1> HIDE DEF opc2
<1>12. << opc1, opc2 >> \in Seq(ByteValues) /\ << opc1, opc2 >>[Len(<< opc1, opc2 >>)] = opc2
  BY <1>5, <1>11
<1>13. Ready(e) /\ e.f = d.f /\ e.iaddr = d.iaddr /\ Op1(e) = opc2 /\ e.vvvv = a.vvvv
  <2>1. d.off + 1 \in Nat /\ d.iaddr < d.f + (d.off + 1) BY <1>10 DEF Ready, Contexts
  <2> QED BY <1>10, <1>12, <2>1 DEF Skip, Ready, Contexts, Op1
<1> HIDE DEF e
<1>14. CASE opc1 # \h0F
  <2>1. ~vex /\ table = opcTable BY <1>4, <1>7, <1>8, <1>14 DEF VexTypes
  <2>2. VectorParses \in SUBSET VexParses /\ "parseRVM" \notin VectorParses
    BY DEF VectorParses, VexParses
  <2>3. Done(d, processOpc(d, table, opc1))
    BY <1>5, <1>10, <2>1, <2>2, GeneralTables, Processed
  <2> QED BY <1>2, <1>3, <1>10, <1>14, <2>3 DEF Done, SameAs, Decoded1
<1>15. CASE opc1 = \h0F
  <2>1. Done(e, processOpc(e, table, opc2))
    <3>1. CASE vex
      <4>1. TableOK(table, VexParses) BY <1>4, <1>8, <3>1, VexTables DEF VexTypes
      <4>2. e.vvvv \in 0 .. 15 BY <1>4, <1>13, <3>1
      <4> QED BY <1>11, <1>13, <4>1, <4>2, Processed
    <3>2. CASE ~vex
      <4>1. table = opcTable0F BY <1>8, <1>15, <3>2
      <4>2. VectorParses \in SUBSET VexParses /\ "parseRVM" \notin VectorParses
        BY DEF VectorParses, VexParses
      <4> QED BY <1>11, <1>13, <4>1, <4>2, GeneralTables, Processed
    <3> QED BY <3>1, <3>2
  <2> QED BY <1>2, <1>3, <1>10, <1>13, <1>15, <2>1 DEF Done, SameAs, Decoded1
<1> QED BY <1>14, <1>15

----------------------------------------------------------------------------
(***************************************************************************)
(* The inductive invariant                                                 *)
(***************************************************************************)
Blocks == [addr : Nat, instr : Nat \ {0}, count : Nat, size : Nat]
CBBs   == [instr : Seq(Instrs), addr1 : Nat, size : Int, done : Nat]

\* Where the first n instructions of block b among is end.
ChainEnd(is, b, n) ==
  IF n = 0 THEN b.addr ELSE is[b.instr + n - 1].addr + is[b.instr + n - 1].len
\* They follow each other; none ends a block.
Chain(is, b, n) ==
  /\ b.instr + n - 1 <= Len(is)
  /\ \A k \in 1 .. n : is[b.instr + k - 1].addr = ChainEnd(is, b, k - 1)
PlainChain(is, b, n) == \A k \in 1 .. n : is[b.instr + k - 1].type \in PlainTypes

\* A block whose decoding has ended, and the one that is decoded.
Closed(is, b) ==
  /\ Chain(is, b, b.count) /\ PlainChain(is, b, b.count - 1)
  /\ b.count > 0 /\ ~Truncated(b) =>
       /\ b.size = ChainEnd(is, b, b.count) - b.addr
       /\ is[b.instr + b.count - 1].type \in EndTypes
OpenLength(is, b) == Len(is) - b.instr + 1
Open(is, b, c) ==
  /\ OpenLength(is, b) >= 0
  /\ Chain(is, b, OpenLength(is, b)) /\ PlainChain(is, b, OpenLength(is, b))
  /\ c.f = b.addr /\ c.off \in Nat
  /\ ChainEnd(is, b, OpenLength(is, b)) = b.addr + c.off

MemoryOK == DOMAIN mem \subseteq Nat /\ MemoryTyped
DecodedOK ==
  /\ decInstr \in Seq(Instrs) /\ Len(decInstr) <= decInstrCapacity
  /\ decBB \in Seq(Blocks) /\ Len(decBB) <= decBBCapacity
  /\ status \in {"ready", "decoding", "aborted"}
BlocksOK ==
  /\ status = "ready" => \A k \in 1 .. Len(decBB) : Closed(decInstr, decBB[k])
  /\ status = "decoding" =>
       /\ decBB # << >>
       /\ \A k \in 1 .. Len(decBB) - 1 : Closed(decInstr, decBB[k])
       /\ Open(decInstr, decBB[Len(decBB)], cxt)
StorageOK ==
  /\ phase \in {"idle", "decode", "generate", "redecode", "done"}
  /\ func \in Seq(ByteValues)
  /\ cbb \in CBBs /\ cbb.done <= Len(cbb.instr)
  /\ used \in 0 .. fullsize
  /\ genError \in {"none", "UnsupportedInstr", "UnsupportedOperands"}
  /\ phase \in {"idle", "decode"} => cbb = NoCBB /\ used = 0
  /\ phase # "done" => genError = "none"
  /\ StorageAccounted

IInv == MemoryOK /\ DecodedOK /\ BlocksOK /\ StorageOK

----------------------------------------------------------------------------
\* An instruction added behind a chain does not change it.
LEMMA ChainKept ==
  ASSUME NEW is \in Seq(Instrs), NEW i \in Instrs, NEW b \in Blocks
  PROVE  LET js == Append(is, i) IN
         /\ \A n \in Nat : b.instr + n - 1 <= Len(is) => ChainEnd(js, b, n) = ChainEnd(is, b, n)
         /\ \A n \in Nat : Chain(is, b, n) => Chain(js, b, n)
         /\ \A n \in Int : b.instr + n - 1 <= Len(is) /\ PlainChain(is, b, n) =>
              PlainChain(js, b, n)
<1> DEFINE js == Append(is, i)
<1>1. /\ Len(js) = Len(is) + 1 /\ Len(is) \in Nat /\ b.instr \in Nat \ {0}
      /\ \A k \in 1 .. Len(is) : js[k] = is[k]
  BY AppendProperties DEF Blocks
<1> HIDE DEF js
<1>2. ASSUME NEW n \in Nat, b.instr + n - 1 <= Len(is)
      PROVE  ChainEnd(js, b, n) = ChainEnd(is, b, n)
  <2>1. CASE n = 0 BY <2>1 DEF ChainEnd
  <2>2. CASE n # 0
    <3>1. b.instr + n - 1 \in 1 .. Len(is) BY <1>1, <1>2, <2>2
    <3> QED BY <1>1, <2>2, <3>1 DEF ChainEnd
  <2> QED BY <2>1, <2>2
<1>3. ASSUME NEW n \in Nat, Chain(is, b, n)
      PROVE  Chain(js, b, n)
  <2>1. b.instr + n - 1 <= Len(is) BY <1>3 DEF Chain
  <2>2. ASSUME NEW k \in 1 .. n
        PROVE  js[b.instr + k - 1].addr = ChainEnd(js, b, k - 1)
    <3>1. /\ b.instr + k - 1 \in 1 .. Len(is) /\ k - 1 \in Nat
          /\ b.instr + (k - 1) - 1 <= Len(is)
      BY <1>1, <2>1
    <3>2. is[b.instr + k - 1].addr = ChainEnd(is, b, k - 1) BY <1>3 DEF Chain
    <3>3. ChainEnd(js, b, k - 1) = ChainEnd(is, b, k - 1) BY <1>2, <3>1
    <3> QED BY <1>1, <3>1, <3>2, <3>3
  <2>3. b.instr + n - 1 <= Len(js) BY <1>1, <2>1
  <2> QED BY <2>2, <2>3 DEF Chain
<1>4. ASSUME NEW n \in Int, b.instr + n - 1 <= Len(is), PlainChain(is, b, n)
      PROVE  PlainChain(js, b, n)
  <2> SUFFICES ASSUME NEW k \in 1 .. n PROVE js[b.instr + k - 1].type \in PlainTypes
    BY DEF PlainChain
  <2>1. b.instr + k - 1 \in 1 .. Len(is) BY <1>1, <1>4
  <2> QED BY <1>1, <1>4, <2>1 DEF PlainChain
<1> QED BY <1>2, <1>3, <1>4 DEF js

\* Nor does it change a block that was ended.
LEMMA ClosedKept ==
  ASSUME NEW is \in Seq(Instrs), NEW i \in Instrs, NEW b \in Blocks, Closed(is, b)
  PROVE  Closed(Append(is, i), b)
<1> DEFINE js == Append(is, i)
<1>1. /\ Len(js) = Len(is) + 1 /\ Len(is) \in Nat /\ b.instr \in Nat \ {0} /\ b.count \in Nat
      /\ \A k \in 1 .. Len(is) : js[k] = is[k]
  BY AppendProperties DEF Blocks
<1>2. /\ \A n \in Nat : b.instr + n - 1 <= Len(is) => ChainEnd(js, b, n) = ChainEnd(is, b, n)
      /\ \A n \in Nat : Chain(is, b, n) => Chain(js, b, n)
      /\ \A n \in Int : b.instr + n - 1 <= Len(is) /\ PlainChain(is, b, n) =>
           PlainChain(js, b, n)
  BY ChainKept
<1> HIDE DEF js
<1>3. Chain(is, b, b.count) /\ b.instr + b.count - 1 <= Len(is) BY DEF Closed, Chain
<1>4. Chain(js, b, b.count) /\ ChainEnd(js, b, b.count) = ChainEnd(is, b, b.count)
  BY <1>1, <1>2, <1>3
<1>5. PlainChain(js, b, b.count - 1)
  <2>1. b.count - 1 \in Int /\ b.instr + (b.count - 1) - 1 <= Len(is) BY <1>1, <1>3
  <2>2. PlainChain(is, b, b.count - 1) BY DEF Closed
  <2> QED BY <1>2, <2>1, <2>2
<1>6. b.count > 0 => js[b.instr + b.count - 1] = is[b.instr + b.count - 1] BY <1>1, <1>3
<1>7. Closed(js, b) BY <1>4, <1>5, <1>6 DEF Closed
<1> QED BY <1>7 DEF js

\* An instruction is added to the open block.
LEMMA ChainGrows ==
  ASSUME NEW is \in Seq(Instrs), NEW i \in Instrs, NEW b \in Blocks, NEW c, Open(is, b, c),
         i.addr = c.f + c.off
  PROVE  LET js == Append(is, i)
             n  == OpenLength(is, b)
         IN /\ OpenLength(js, b) = n + 1 /\ n \in Nat
            /\ Chain(js, b, n + 1) /\ PlainChain(js, b, n)
            /\ ChainEnd(js, b, n + 1) = i.addr + i.len /\ js[b.instr + n] = i
<1> DEFINE js == Append(is, i)
           n  == OpenLength(is, b)
<1>1. /\ Len(js) = Len(is) + 1 /\ Len(is) \in Nat /\ b.instr \in Nat \ {0}
      /\ \A k \in 1 .. Len(is) : js[k] = is[k] /\ js[Len(is) + 1] = i
  BY AppendProperties DEF Blocks
<1>2. n \in Nat /\ b.instr + n = Len(is) + 1 /\ OpenLength(js, b) = n + 1
  BY <1>1 DEF Open, OpenLength
<1>3. js[b.instr + n] = i BY <1>2, AppendProperties
<1>4. /\ \A m \in Nat : b.instr + m - 1 <= Len(is) => ChainEnd(js, b, m) = ChainEnd(is, b, m)
      /\ \A m \in Nat : Chain(is, b, m) => Chain(js, b, m)
      /\ \A m \in Int : b.instr + m - 1 <= Len(is) /\ PlainChain(is, b, m) =>
           PlainChain(js, b, m)
  BY ChainKept
<1>5. /\ Chain(is, b, n) /\ PlainChain(is, b, n) /\ ChainEnd(is, b, n) = b.addr + c.off
      /\ c.f = b.addr
  BY DEF Open
<1> HIDE DEF js, n
<1>6. n \in Int /\ b.instr + n - 1 <= Len(is) BY <1>1, <1>2
<1>7. PlainChain(js, b, n) /\ Chain(js, b, n) /\ ChainEnd(js, b, n) = i.addr
  BY <1>2, <1>4, <1>5, <1>6
<1>8. ChainEnd(js, b, n + 1) = i.addr + i.len
  <2>1. n + 1 # 0 /\ b.instr + (n + 1) - 1 = b.instr + n BY <1>1, <1>2
  <2> QED BY <1>3, <2>1 DEF ChainEnd
<1>9. Chain(js, b, n + 1)
  <2>1. b.instr + (n + 1) - 1 <= Len(js) BY <1>1, <1>2
  <2>2. ASSUME NEW k \in 1 .. n + 1
        PROVE  js[b.instr + k - 1].addr = ChainEnd(js, b, k - 1)
    <3>1. CASE k \in 1 .. n BY <1>7, <3>1 DEF Chain
    <3>2. CASE k = n + 1
      <4>1. b.instr + k - 1 = b.instr + n /\ k - 1 = n BY <1>1, <1>2, <3>2
      <4> QED BY <1>3, <1>7, <4>1
    <3> QED BY <1>2, <3>1, <3>2
  <2> QED BY <2>1, <2>2 DEF Chain
<1> QED BY <1>2, <1>3, <1>7, <1>8, <1>9 DEF js, n

----------------------------------------------------------------------------
(***************************************************************************)
(* The steps of the decoder                                                *)
(***************************************************************************)
\* Loading bytes keeps memory typed.
LEMMA LoadedMemory ==
  ASSUME NEW m, DOMAIN m \subseteq Nat, \A x \in DOMAIN m : m[x] \in ByteValues,
         NEW a \in Nat, NEW bytes \in Seq(ByteValues)
  PROVE  /\ DOMAIN Load(m, a, bytes) \subseteq Nat
         /\ \A x \in DOMAIN Load(m, a, bytes) : Load(m, a, bytes)[x] \in ByteValues
<1> DEFINE D == a .. (a + Len(bytes) - 1)
<1>1. Len(bytes) \in Nat BY LenProperties
<1>2. /\ DOMAIN Load(m, a, bytes) = DOMAIN m \cup D
      /\ \A x \in DOMAIN m \cup D :
           Load(m, a, bytes)[x] = IF x \in D THEN bytes[x - a + 1] ELSE m[x]
  BY DEF Load
<1>3. D \subseteq Nat BY <1>1
<1>4. ASSUME NEW x \in D PROVE bytes[x - a + 1] \in ByteValues
  <2>1. x - a + 1 \in 1 .. Len(bytes) BY <1>1
  <2> QED BY <2>1, ElementOfSeq
<1> HIDE DEF D
<1> QED BY <1>2, <1>3, <1>4


\* The block when there is none.
LEMMA NoCBBTyped == NoCBB \in CBBs /\ NoCBB.done = 0 /\ NoCBB.size = -1 /\ NoCBB.instr = << >>
<1>1. << >> \in Seq(Instrs) OBVIOUS
<1> QED BY <1>1 DEF NoCBB, CBBs

\* The invariant holds at the start.
LEMMA InitOK == Init => IInv
<1> SUFFICES ASSUME Init PROVE IInv OBVIOUS
<1>1. /\ mem = << >> /\ decInstr = << >> /\ decBB = << >> /\ cxt = Context /\ status = "ready"
      /\ phase = "idle" /\ func = << >> /\ cbb = NoCBB /\ used = 0 /\ genError = "none"
  BY DEF Init, DecoderInit
<1>2. MemoryOK
  <2>1. DOMAIN mem = {} BY <1>1
  <2> QED BY <2>1 DEF MemoryOK, MemoryTyped
<1>3. DecodedOK BY <1>1, DecoderAssumption DEF DecodedOK
<1>4. BlocksOK
  <2>1. Len(decBB) = 0 BY <1>1
  <2> QED BY <1>1, <2>1 DEF BlocksOK
<1>5. StorageOK
  <2>1. /\ func \in Seq(ByteValues) /\ used \in 0 .. fullsize /\ used <= fullsize
    BY <1>1, RecodingAssumption
  <2>2. Len(cbb.instr) = 0 BY <1>1, NoCBBTyped
  <2>3. GeneratedEnd(0) = buf BY DEF GeneratedEnd
  <2>4. StorageAccounted
    BY <1>1, <2>1, <2>3, NoCBBTyped, RecodingAssumption DEF StorageAccounted
  <2> QED BY <1>1, <2>1, <2>2, <2>4, NoCBBTyped DEF StorageOK
<1> QED BY <1>2, <1>3, <1>4, <1>5 DEF IInv

\* Giving the rewriter another function keeps it.
LEMMA SetFunctionOK == IInv /\ SetFunction => IInv'
<1> SUFFICES ASSUME IInv, SetFunction PROVE IInv' OBVIOUS
<1>1. /\ status = "ready" /\ status' = status /\ decInstr' = << >> /\ decBB' = << >>
      /\ phase' = "decode" /\ cbb' = NoCBB /\ used' = 0 /\ genError' = "none"
  BY DEF SetFunction, ResetDecoder
<1>2. PICK p : /\ p \in Programs \cup Again /\ func' = p
               /\ mem' = Load([a \in DOMAIN mem \ FuncAddr .. (buf - 1) |-> mem[a]], FuncAddr, p)
  BY DEF SetFunction, IfSet
<1>3. p \in Seq(ByteValues) BY <1>2, RecodingAssumption DEF ByteValues
<1>4. MemoryOK'
  <2> DEFINE m == [a \in DOMAIN mem \ FuncAddr .. (buf - 1) |-> mem[a]]
  <2>1. DOMAIN m \subseteq Nat /\ \A x \in DOMAIN m : m[x] \in ByteValues
    BY DEF IInv, MemoryOK, MemoryTyped
  <2> HIDE DEF m
  <2>2. FuncAddr \in Nat BY RecodingAssumption
  <2>3. mem' = Load(m, FuncAddr, p) BY <1>2 DEF m
  <2> QED BY <1>3, <2>1, <2>2, <2>3, LoadedMemory DEF MemoryOK, MemoryTyped
<1>5. DecodedOK' BY <1>1, DecoderAssumption DEF DecodedOK
<1>6. BlocksOK'
  <2>1. Len(decBB') = 0 BY <1>1
  <2> QED BY <1>1, <2>1 DEF BlocksOK
<1>7. StorageOK'
  <2>1. /\ func' \in Seq(ByteValues) /\ used' \in 0 .. fullsize /\ used' <= fullsize
    BY <1>1, <1>2, <1>3, RecodingAssumption
  <2>2. Len(cbb'.instr) = 0 BY <1>1, NoCBBTyped
  <2>3. GeneratedEnd(0)' = buf BY DEF GeneratedEnd
  <2>4. StorageAccounted'
    BY <1>1, <2>1, <2>3, NoCBBTyped, RecodingAssumption DEF StorageAccounted
  <2> QED BY <1>1, <2>1, <2>2, <2>4, NoCBBTyped DEF StorageOK
<1> QED BY <1>4, <1>5, <1>6, <1>7 DEF IInv

\* Starting to decode a block.
LEMMA StartOK ==
  ASSUME DecodedOK, BlocksOK, NEW f \in Nat, StartDecode(f)
  PROVE  DecodedOK' /\ BlocksOK'
<1>1. /\ status = "ready" /\ decInstr' = decInstr /\ decInstr \in Seq(Instrs)
      /\ Len(decInstr) \in Nat /\ Len(decInstr) <= decInstrCapacity
      /\ decBB \in Seq(Blocks) /\ Len(decBB) \in Nat /\ decBBCapacity \in Nat
  BY DecoderAssumption, LenProperties DEF StartDecode, DecodedOK
<1>2. CASE Len(decBB) < decBBCapacity
  <2> DEFINE b == [ addr |-> f, instr |-> Len(decInstr) + 1, count |-> 0, size |-> 0 ]
  <2>1. /\ decBB' = Append(decBB, b) /\ cxt' = [Context EXCEPT !.f = f] /\ status' = "decoding"
    BY <1>2 DEF StartDecode
  <2>2. b \in Blocks BY <1>1 DEF Blocks
  <2>3. b.addr = f /\ b.instr = Len(decInstr) + 1 OBVIOUS
  <2> HIDE DEF b
  <2>4. /\ decBB' \in Seq(Blocks) /\ Len(decBB') = Len(decBB) + 1
        /\ decBB'[Len(decBB) + 1] = b
        /\ \A k \in 1 .. Len(decBB) : decBB'[k] = decBB[k]
    BY <1>1, <2>1, <2>2, AppendProperties
  <2>5. DecodedOK' BY <1>1, <1>2, <2>1, <2>4 DEF DecodedOK
  <2>6. cxt'.f = f /\ cxt'.off = 0 BY <2>1 DEF Context
  <2>7. Open(decInstr, b, cxt')
    <3>1. OpenLength(decInstr, b) = 0 BY <1>1, <2>3 DEF OpenLength
    <3>2. ChainEnd(decInstr, b, 0) = f BY <2>3 DEF ChainEnd
    <3>3. Chain(decInstr, b, 0) BY <1>1, <2>3 DEF Chain
    <3>4. PlainChain(decInstr, b, 0) BY DEF PlainChain
    <3> QED BY <2>3, <2>6, <3>1, <3>2, <3>3, <3>4 DEF Open
  <2>8. \A k \in 1 .. Len(decBB') - 1 : Closed(decInstr', decBB'[k])
    <3>1. Len(decBB') - 1 = Len(decBB) BY <1>1, <2>4
    <3>2. \A k \in 1 .. Len(decBB) : Closed(decInstr, decBB[k]) BY <1>1 DEF BlocksOK
    <3> QED BY <1>1, <2>4, <3>1, <3>2
  <2>9. Open(decInstr', decBB'[Len(decBB')], cxt') BY <1>1, <2>4, <2>7
  <2>10. decBB' # << >> BY <1>1, <2>4
  <2>11. BlocksOK' BY <2>1, <2>8, <2>9, <2>10 DEF BlocksOK
  <2> QED BY <2>5, <2>11
<1>3. CASE ~(Len(decBB) < decBBCapacity)
  <2>1. status' = "aborted" /\ decBB' = decBB BY <1>3 DEF StartDecode
  <2> QED BY <1>1, <2>1 DEF DecodedOK, BlocksOK
<1> QED BY <1>2, <1>3

\* The block with its instructions, when it ends.
Ended(b, n, size) == [b EXCEPT !.count = n, !.size = size]

\* Ending a block keeps its instructions.
LEMMA EndedBlock ==
  ASSUME NEW b \in Blocks, NEW n \in Nat, NEW size \in Nat
  PROVE  /\ Ended(b, n, size) \in Blocks
         /\ Ended(b, n, size).addr = b.addr /\ Ended(b, n, size).instr = b.instr
         /\ Ended(b, n, size).count = n /\ Ended(b, n, size).size = size
         /\ \A is, k : /\ ChainEnd(is, Ended(b, n, size), k) = ChainEnd(is, b, k)
                       /\ Chain(is, b, k) => Chain(is, Ended(b, n, size), k)
                       /\ PlainChain(is, b, k) => PlainChain(is, Ended(b, n, size), k)
<1> DEFINE e == Ended(b, n, size)
<1>1. e \in Blocks BY DEF Ended, Blocks
<1>2. e.addr = b.addr /\ e.instr = b.instr /\ e.count = n /\ e.size = size
  BY DEF Ended, Blocks
<1> HIDE DEF e
<1>3. \A is, k : ChainEnd(is, e, k) = ChainEnd(is, b, k) BY <1>2 DEF ChainEnd
<1>4. \A is, k : Chain(is, b, k) => Chain(is, e, k) BY <1>2, <1>3 DEF Chain
<1>5. \A is, k : PlainChain(is, b, k) => PlainChain(is, e, k) BY <1>2 DEF PlainChain
<1> QED BY <1>1, <1>2, <1>3, <1>4, <1>5 DEF e

\* The block ends because the buffer of instructions is full.
LEMMA EndsFull ==
  ASSUME DecodedOK, NEW b \in Blocks, NEW c, Open(decInstr, b, c), Full, NEW size \in Nat
  PROVE  /\ OpenLength(decInstr, b) \in Nat
         /\ Closed(decInstr, Ended(b, OpenLength(decInstr, b), size))
<1> DEFINE n == OpenLength(decInstr, b)
           e == Ended(b, n, size)
<1>1. /\ b.instr \in Nat \ {0} /\ Len(decInstr) \in Nat /\ decInstrCapacity \in Nat
      /\ Len(decInstr) >= decInstrCapacity
  BY DecoderAssumption, LenProperties DEF Blocks, DecodedOK, Full
<1>2. n \in Nat /\ b.instr + n > decInstrCapacity BY <1>1 DEF Open, OpenLength
<1>3. Chain(decInstr, b, n) /\ PlainChain(decInstr, b, n) BY DEF Open
<1> HIDE DEF n
<1>4. PlainChain(decInstr, b, n - 1) BY <1>2, <1>3 DEF PlainChain
<1>5. /\ e.instr = b.instr /\ e.count = n /\ Chain(decInstr, e, n)
      /\ PlainChain(decInstr, e, n - 1)
  BY <1>2, <1>3, <1>4, EndedBlock
<1> HIDE DEF e
<1>6. Closed(decInstr, e) BY <1>2, <1>5 DEF Closed, Truncated
<1> QED BY <1>2, <1>6 DEF e, n

\* The block ends with an instruction that ends it.
LEMMA EndsPlaced ==
  ASSUME DecodedOK, NEW b \in Blocks, NEW c, Open(decInstr, b, c), NEW i \in Instrs,
         i.addr = c.f + c.off, i.type \in EndTypes, NEW size \in Nat, i.addr + i.len = c.f + size
  PROVE  /\ OpenLength(Append(decInstr, i), b) \in Nat
         /\ Closed(Append(decInstr, i), Ended(b, OpenLength(Append(decInstr, i), b), size))
<1> DEFINE js == Append(decInstr, i)
           m  == OpenLength(decInstr, b)
           n  == OpenLength(js, b)
           e  == Ended(b, n, size)
<1>1. decInstr \in Seq(Instrs) /\ b.addr \in Nat /\ c.f = b.addr /\ b.instr \in Nat
  BY DEF DecodedOK, Open, Blocks
<1>2. /\ n = m + 1 /\ m \in Nat /\ Chain(js, b, m + 1) /\ PlainChain(js, b, m)
      /\ ChainEnd(js, b, m + 1) = i.addr + i.len /\ js[b.instr + m] = i
  BY <1>1, ChainGrows
<1> HIDE DEF js, n, m
<1>3. n \in Nat /\ n - 1 = m /\ b.instr + n - 1 = b.instr + m BY <1>1, <1>2
<1>4. /\ e.instr = b.instr /\ e.count = n /\ e.size = size /\ e.addr = b.addr
      /\ Chain(js, e, n) /\ PlainChain(js, e, n - 1) /\ ChainEnd(js, e, n) = c.f + size
  BY <1>2, <1>3, EndedBlock
<1> HIDE DEF e
<1>5. e.size = ChainEnd(js, e, n) - e.addr BY <1>1, <1>4
<1>6. js[e.instr + e.count - 1].type \in EndTypes BY <1>2, <1>3, <1>4
<1>7. Closed(js, e) BY <1>4, <1>5, <1>6 DEF Closed
<1> QED BY <1>3, <1>7 DEF e, n, js

\* Decoding one instruction keeps the invariant.
LEMMA DecodeStepOK ==
  ASSUME MemoryOK, DecodedOK, BlocksOK, DecodeStep
  PROVE  DecodedOK' /\ BlocksOK' /\ mem' = mem
<1> DEFINE c  == decodeInstr(cxt)
           L  == Len(decBB)
           b  == decBB[L]
           is == IF c.ii = NoInstr THEN decInstr ELSE Append(decInstr, c.ii)
           n  == OpenLength(is, b)
<1>1. status = "decoding" /\ FewPrefixes(cxt) /\ round(c) BY DEF DecodeStep
<1>2. /\ decBB # << >> /\ Open(decInstr, b, cxt)
      /\ \A k \in 1 .. L - 1 : Closed(decInstr, decBB[k])
  BY <1>1 DEF BlocksOK
<1>3. /\ decInstr \in Seq(Instrs) /\ Len(decInstr) \in Nat /\ Len(decInstr) <= decInstrCapacity
      /\ decBB \in Seq(Blocks) /\ L \in Nat /\ L > 0 /\ decInstrCapacity \in Nat
  BY <1>2, DecoderAssumption, LenProperties, EmptySeq DEF DecodedOK
<1>4. b \in Blocks BY <1>3, ElementOfSeq
<1>5. cxt.f \in Nat /\ cxt.off \in Nat /\ cxt.f = b.addr BY <1>2, <1>4 DEF Open, Blocks
<1>6. Decoded1(cxt, c) BY <1>1, <1>5, DecodedInstr DEF MemoryOK
<1> HIDE DEF c
<1>7. mem' = mem BY <1>1 DEF round
<1>8. Last(decBB) = b BY DEF Last
<1>9. CASE c.abort
  <2>1. status' = "aborted" /\ decInstr' = decInstr /\ decBB' = decBB
    BY <1>1, <1>9 DEF round
  <2> QED BY <1>7, <2>1 DEF DecodedOK, BlocksOK
<1>10. CASE ~c.abort
  <2>1. /\ c \in Contexts /\ c.f = cxt.f /\ c.iaddr = cxt.f + cxt.off /\ Placed(c)
        /\ c.ii \in Instrs /\ c.off \in Nat
    BY <1>6, <1>10 DEF Decoded1, Contexts
  <2>2. /\ Full => c.ii = NoInstr /\ Ends(c)
        /\ ~Full => /\ c.ii # NoInstr /\ c.ii.addr = cxt.f + cxt.off
                    /\ c.ii.addr + c.ii.len = c.f + c.off
                    /\ Ends(c) <=> c.ii.type \in EndTypes
                    /\ ~Ends(c) => c.ii.type \in PlainTypes
    <3>1. Full => c.ii = NoInstr /\ Ends(c) BY <2>1 DEF Placed, Ends
    <3>2. ASSUME ~Full
          PROVE  /\ c.ii # NoInstr /\ c.ii.addr = cxt.f + cxt.off
                 /\ c.ii.addr + c.ii.len = c.f + c.off
                 /\ Ends(c) <=> c.ii.type \in EndTypes
                 /\ ~Ends(c) => c.ii.type \in PlainTypes
      <4>1. /\ c.ii.type # "None" /\ c.ii.addr = c.iaddr
            /\ c.ii.len = c.f + c.off - c.iaddr /\ (Ends(c) <=> c.ii.type \in EndTypes)
        BY <2>1, <3>2 DEF Placed
      <4>2. c.ii.type \in PlainTypes \cup EndTypes \cup {"None"} BY <2>1 DEF Instrs
      <4>3. c.ii.addr + c.ii.len = c.f + c.off BY <1>5, <2>1, <4>1
      <4> QED BY <2>1, <4>1, <4>2, <4>3, NewInstr
    <3> QED BY <3>1, <3>2
  <2>3. /\ is \in Seq(Instrs) /\ Len(is) <= decInstrCapacity /\ Len(is) \in Nat
        /\ \A k \in 1 .. L - 1 : Closed(is, decBB[k])
    <3>1. CASE Full BY <1>2, <1>3, <2>2, <3>1
    <3>2. CASE ~Full
      <4>1. is = Append(decInstr, c.ii) /\ Len(decInstr) < decInstrCapacity
        BY <1>3, <2>2, <3>2 DEF Full
      <4>2. is \in Seq(Instrs) /\ Len(is) = Len(decInstr) + 1
        BY <1>3, <2>1, <4>1, AppendProperties
      <4>3. \A k \in 1 .. L - 1 : Closed(is, decBB[k])
        <5> SUFFICES ASSUME NEW k \in 1 .. L - 1 PROVE Closed(is, decBB[k]) OBVIOUS
        <5>1. decBB[k] \in Blocks BY <1>3, ElementOfSeq
        <5> QED BY <1>2, <1>3, <2>1, <4>1, <5>1, ClosedKept
      <4> QED BY <1>3, <4>1, <4>2, <4>3
    <3> QED BY <3>1, <3>2
  <2>4. decInstr' = is BY <1>1, <1>10 DEF round
  <2>5. CASE Ends(c)
    <3> DEFINE e == Ended(b, n, c.off)
    <3>1. n \in Nat /\ Closed(is, e)
      <4>1. CASE Full BY <1>2, <1>4, <2>1, <2>2, <4>1, EndsFull
      <4>2. CASE ~Full
        <5>1. is = Append(decInstr, c.ii) BY <2>2, <4>2
        <5>2. c.ii.type \in EndTypes BY <2>2, <2>5, <4>2
        <5>3. c.ii.addr + c.ii.len = cxt.f + c.off BY <2>1, <2>2, <4>2
        <5> HIDE DEF is
        <5> QED BY <1>2, <1>4, <2>1, <2>2, <4>2, <5>1, <5>2, <5>3, EndsPlaced
      <4> QED BY <4>1, <4>2
    <3>2. e \in Blocks BY <1>4, <2>1, <3>1, EndedBlock
    <3>3. decBB' = [decBB EXCEPT ![L] = e]
      <4>1. decBB' = [decBB EXCEPT ![L].count = n, ![L].size = c.off]
        BY <1>1, <1>8, <1>10, <2>5 DEF round, Ends, OpenLength
      <4> QED BY <1>3, <1>4, <4>1 DEF Ended, Blocks
    <3>4. status' \in {"ready", "aborted"} BY <1>1, <1>8, <1>10, <2>5 DEF round, Ends
    <3> HIDE DEF e, is, n
    <3>5. /\ decBB' \in Seq(Blocks) /\ Len(decBB') = L /\ decBB'[L] = e
          /\ \A k \in 1 .. L - 1 : decBB'[k] = decBB[k]
      BY <1>3, <3>2, <3>3, ExceptSeq
    <3>6. \A k \in 1 .. Len(decBB') : Closed(decInstr', decBB'[k])
      <4> SUFFICES ASSUME NEW k \in 1 .. L PROVE Closed(is, decBB'[k]) BY <2>4, <3>5
      <4>1. CASE k = L BY <3>1, <3>5, <4>1
      <4>2. CASE k \in 1 .. L - 1 BY <2>3, <3>5, <4>2
      <4> QED BY <1>3, <4>1, <4>2
    <3>7. DecodedOK' BY <2>3, <2>4, <3>4, <3>5 DEF DecodedOK
    <3>8. BlocksOK' BY <3>4, <3>6 DEF BlocksOK
    <3> QED BY <1>7, <3>7, <3>8
  <2>6. CASE ~Ends(c)
    <3>1. /\ ~Full /\ is = Append(decInstr, c.ii) /\ c.ii.type \in PlainTypes
      BY <2>2, <2>6
    <3>2. /\ cxt' = [Context EXCEPT !.f = c.f, !.off = c.off]
          /\ decBB' = decBB /\ status' = status
      BY <1>1, <1>10, <2>6 DEF round, Ends
    <3>3. cxt'.f = c.f /\ cxt'.off = c.off BY <3>2 DEF Context
    <3> DEFINE m == OpenLength(decInstr, b)
    <3>4. /\ n = m + 1 /\ m \in Nat /\ Chain(is, b, m + 1) /\ PlainChain(is, b, m)
          /\ ChainEnd(is, b, m + 1) = c.ii.addr + c.ii.len /\ is[b.instr + m] = c.ii
      BY <1>2, <1>3, <1>4, <2>1, <2>2, <3>1, ChainGrows
    <3> HIDE DEF is, n, m
    <3>5. PlainChain(is, b, n)
      <4> SUFFICES ASSUME NEW k \in 1 .. m + 1 PROVE is[b.instr + k - 1].type \in PlainTypes
        BY <3>4 DEF PlainChain
      <4>1. CASE k \in 1 .. m BY <3>4, <4>1 DEF PlainChain
      <4>2. CASE k = m + 1
        <5>1. b.instr + k - 1 = b.instr + m BY <1>4, <3>4, <4>2 DEF Blocks
        <5> QED BY <3>1, <3>4, <5>1
      <4> QED BY <3>4, <4>1, <4>2
    <3>6. Open(is, b, cxt')
      <4>1. n >= 0 BY <3>4
      <4>2. ChainEnd(is, b, n) = b.addr + cxt'.off BY <1>5, <2>1, <2>2, <3>1, <3>3, <3>4
      <4> QED BY <1>5, <2>1, <3>3, <3>4, <3>5, <4>1, <4>2 DEF Open, n
    <3>7. DecodedOK' BY <2>3, <2>4, <3>2 DEF DecodedOK
    <3>8. BlocksOK' BY <1>1, <1>2, <2>3, <2>4, <3>2, <3>6 DEF BlocksOK
    <3> QED BY <1>7, <3>7, <3>8
  <2> QED BY <2>5, <2>6
<1> QED BY <1>9, <1>10

----------------------------------------------------------------------------
(***************************************************************************)
(* The steps of the rewriter, and the theorems                             *)
(***************************************************************************)
\* Steps that do not touch what the decoder keeps.
LEMMA DecoderKept ==
  ASSUME DecodedOK, BlocksOK, UNCHANGED << decInstr, decBB, cxt, status >>
  PROVE  DecodedOK' /\ BlocksOK'
BY DEF DecodedOK, BlocksOK

\* Steps that do not touch the code storage.
LEMMA StorageKept ==
  ASSUME StorageOK, UNCHANGED << phase, func, cbb, used, genError >>
  PROVE  StorageOK'
BY DEF StorageOK, StorageAccounted, GeneratedEnd

\* Steps that do not touch memory.
LEMMA MemoryKept == MemoryOK /\ mem' = mem => MemoryOK'
BY DEF MemoryOK, MemoryTyped

\* Starting to decode a function keeps the invariant.
LEMMA DecodeFunctionOK == IInv /\ DecodeFunction => IInv'
<1> SUFFICES ASSUME IInv, DecodeFunction PROVE IInv' OBVIOUS
<1>1. PICK f : f \in DOMAIN mem /\ StartDecode(f) BY DEF DecodeFunction
<1>2. f \in Nat /\ mem' = mem BY <1>1 DEF IInv, MemoryOK, StartDecode
<1>3. UNCHANGED << phase, func, cbb, used, genError >> BY DEF DecodeFunction
<1> QED BY <1>1, <1>2, <1>3, StartOK, StorageKept, MemoryKept DEF IInv

\* And so does decoding an instruction of it.
LEMMA DecodeOK == IInv /\ Decode => IInv'
<1> SUFFICES ASSUME IInv, Decode PROVE IInv' OBVIOUS
<1>1. DecodeStep /\ UNCHANGED << phase, func, cbb, used, genError >> BY DEF Decode
<1>2. MemoryOK /\ DecodedOK /\ BlocksOK /\ StorageOK BY DEF IInv
<1>3. DecodedOK' /\ BlocksOK' /\ mem' = mem BY <1>1, <1>2, DecodeStepOK
<1> QED BY <1>1, <1>2, <1>3, StorageKept, MemoryKept DEF IInv

\* And starting to decode what was generated.
LEMMA DecodeGeneratedOK == IInv /\ DecodeGenerated => IInv'
<1> SUFFICES ASSUME IInv, DecodeGenerated PROVE IInv' OBVIOUS
<1>1. StartDecode(cbb.addr1) /\ UNCHANGED << phase, func, cbb, used, genError >>
  BY DEF DecodeGenerated
<1>2. cbb.addr1 \in Nat BY DEF IInv, StorageOK, CBBs
<1>3. mem' = mem BY <1>1 DEF StartDecode
<1> QED BY <1>1, <1>2, <1>3, StartOK, StorageKept, MemoryKept DEF IInv

\* The instructions of a block that was decoded.
LEMMA CapturedInstrs ==
  ASSUME DecodedOK, BlocksOK, status = "ready", NEW f, Cached(f)
  PROVE  InstrsOf(Block(f)) \in Seq(Instrs)
<1> DEFINE k == CHOOSE k \in DOMAIN decBB : decBB[k].addr = f
           b == decBB[k]
<1>1. decBB \in Seq(Blocks) /\ DOMAIN decBB = 1 .. Len(decBB) BY LenProperties DEF DecodedOK
<1>2. k \in 1 .. Len(decBB) BY <1>1 DEF Cached
<1>3. Block(f) = b BY DEF Block
<1> HIDE DEF k
<1>4. b \in Blocks /\ Closed(decInstr, b) BY <1>1, <1>2, ElementOfSeq DEF BlocksOK
<1> HIDE DEF b
<1>5. /\ b.instr \in Nat \ {0} /\ b.count \in Nat /\ b.instr + b.count - 1 <= Len(decInstr)
      /\ decInstr \in Seq(Instrs) /\ Len(decInstr) \in Nat
  BY <1>4, LenProperties DEF Blocks, Closed, Chain, DecodedOK
<1>6. \A j \in b.instr .. b.instr + b.count - 1 : decInstr[j] \in Instrs
  BY <1>5, ElementOfSeq
<1>7. b.instr \in Int /\ b.instr + b.count - 1 \in Int BY <1>5
<1> QED BY <1>3, <1>6, <1>7, SubSeqProperties DEF InstrsOf

\* Capturing the block decoded keeps the invariant.
LEMMA CreateCBBOK == IInv /\ CreateCBB => IInv'
<1> SUFFICES ASSUME IInv, CreateCBB PROVE IInv' OBVIOUS
<1> DEFINE is == InstrsOf(Block(FuncAddr))
           n  == IF Len(is) < capInstrCapacity THEN Len(is) ELSE capInstrCapacity
           js == SubSeq(is, 1, n)
<1>1. /\ phase = "decode" /\ status = "ready" /\ Cached(FuncAddr)
      /\ cbb' = [NoCBB EXCEPT !.instr = js] /\ phase' = "generate"
      /\ UNCHANGED << mem, decInstr, decBB, cxt, status, func, used, genError >>
  BY DEF CreateCBB
<1>2. is \in Seq(Instrs) BY <1>1, CapturedInstrs DEF IInv
<1> HIDE DEF is
<1>3. n \in Nat /\ n <= Len(is) BY <1>2, RecodingAssumption, LenProperties
<1> HIDE DEF n
<1>4. js \in Seq(Instrs)
  <2>1. \A j \in 1 .. n : is[j] \in Instrs BY <1>2, <1>3, ElementOfSeq, LenProperties
  <2> QED BY <1>3, <2>1, SubSeqProperties
<1> HIDE DEF js
<1>5. cbb' \in CBBs /\ cbb'.instr = js /\ cbb'.done = 0
  BY <1>1, <1>4, NoCBBTyped DEF CBBs
<1>6. DecodedOK' /\ BlocksOK' /\ MemoryOK' BY <1>1, DecoderKept, MemoryKept DEF IInv
<1>7. used = 0 /\ genError = "none" /\ func \in Seq(ByteValues)
  BY <1>1 DEF IInv, StorageOK
<1>8. StorageAccounted'
  <2>1. GeneratedEnd(0)' = buf BY DEF GeneratedEnd
  <2> QED BY <1>1, <1>5, <1>7, <2>1, RecodingAssumption DEF StorageAccounted
<1>9. StorageOK'
  <2>1. Len(cbb'.instr) \in Nat BY <1>4, <1>5, LenProperties
  <2> QED BY <1>1, <1>5, <1>7, <1>8, <2>1, RecodingAssumption DEF StorageOK
<1> QED BY <1>6, <1>9 DEF IInv

----------------------------------------------------------------------------
\* Storing the bytes of an instruction keeps the invariant.
LEMMA StoreOK ==
  ASSUME IInv, Generating, Room, NEW code \in Seq(ByteValues), Len(code) < 15, store(code)
  PROVE  IInv'
<1>0. PICK d : d = cbb.done OBVIOUS
<1> DEFINE i == cbb.instr[d + 1]
           j == [i EXCEPT !.addr = buf + used, !.len = Len(code)]
<1>1. /\ mem' = Load(mem, buf + used, code) /\ used' = used + Len(code)
      /\ UNCHANGED << decInstr, decBB, cxt, status, phase, func, genError >>
  BY DEF store
<1>2. /\ phase = "generate" /\ genError = "none" /\ used \in Nat /\ func \in Seq(ByteValues)
      /\ cbb \in CBBs /\ cbb.instr \in Seq(Instrs) /\ d \in Nat /\ d < Len(cbb.instr)
      /\ Len(cbb.instr) \in Nat /\ buf \in Nat /\ fullsize \in Nat
  BY <1>0, RecodingAssumption, LenProperties DEF IInv, StorageOK, CBBs, Generating
<1>3. Len(code) \in Nat /\ used + Len(code) \in 0 .. fullsize
  BY <1>2, LenProperties DEF Room
<1>4. i \in Instrs BY <1>2, ElementOfSeq
<1>5. j \in Instrs /\ j.addr = buf + used /\ j.len = Len(code)
  <2>1. buf + used \in Nat BY <1>2
  <2> QED BY <1>3, <1>4, <2>1 DEF Instrs
<1> DEFINE js == [cbb.instr EXCEPT ![d + 1] = j]
<1>6. cbb' = [cbb EXCEPT !.instr = js, !.done = d + 1]
  <2>1. cbb' = [cbb EXCEPT !.instr[d + 1].addr = buf + used,
                          !.instr[d + 1].len = Len(code), !.done = d + 1]
    BY <1>0 DEF store
  <2> QED BY <1>2, <1>4, <2>1, ZenonT(40) DEF CBBs, Instrs
<1> HIDE DEF i, j
<1>7. /\ js \in Seq(Instrs) /\ Len(js) = Len(cbb.instr) /\ js[d + 1] = j
      /\ \A k \in 1 .. d : js[k] = cbb.instr[k]
  <2>1. d + 1 \in 1 .. Len(cbb.instr) BY <1>2
  <2> QED BY <1>2, <1>5, <2>1, ExceptSeq
<1> HIDE DEF js
<1>8. cbb' \in CBBs /\ cbb'.instr = js /\ cbb'.done = d + 1
  <2>1. d + 1 \in Nat BY <1>2
  <2> QED BY <1>2, <1>6, <1>7, <2>1 DEF CBBs
<1>9. DecodedOK' /\ BlocksOK' BY <1>1, DecoderKept DEF IInv
<1>10. MemoryOK'
  <2>1. buf + used \in Nat BY <1>2
  <2> QED BY <1>1, <2>1, LoadedMemory DEF IInv, MemoryOK, MemoryTyped
<1>11. /\ \A k \in 1 .. d : cbb.instr[k].addr = GeneratedEnd(k - 1)
       /\ buf + used = GeneratedEnd(d)
  BY <1>0, <1>2 DEF IInv, StorageOK, StorageAccounted
<1>12. \A k \in 0 .. d : GeneratedEnd(k)' = GeneratedEnd(k)
  BY <1>2, <1>7, <1>8 DEF GeneratedEnd
<1>13. GeneratedEnd(d + 1)' = buf + used + Len(code)
  <2>1. d + 1 # 0 BY <1>2
  <2> QED BY <1>5, <1>7, <1>8, <2>1 DEF GeneratedEnd
<1>14. \A k \in 1 .. d + 1 : cbb'.instr[k].addr = GeneratedEnd(k - 1)'
  <2> SUFFICES ASSUME NEW k \in 1 .. d + 1 PROVE js[k].addr = GeneratedEnd(k - 1)' BY <1>8
  <2>1. CASE k \in 1 .. d
    <3>1. k - 1 \in 0 .. d BY <1>2, <2>1
    <3> QED BY <1>7, <1>11, <1>12, <2>1, <3>1
  <2>2. CASE k = d + 1
    <3>1. k - 1 = d /\ d \in 0 .. d BY <1>2, <2>2
    <3> QED BY <1>5, <1>7, <1>11, <1>12, <2>2, <3>1
  <2> QED BY <1>2, <2>1, <2>2
<1>15. StorageAccounted'
  <2>1. buf + used' = GeneratedEnd(d + 1)' BY <1>1, <1>2, <1>3, <1>13
  <2>2. used' <= fullsize BY <1>1, <1>2, <1>3
  <2>3. genError' = "none" /\ phase' = "generate" BY <1>1, <1>2
  <2> QED BY <1>8, <1>14, <2>1, <2>2, <2>3 DEF StorageAccounted
<1>16. StorageOK' BY <1>1, <1>2, <1>3, <1>7, <1>8, <1>15 DEF StorageOK
<1> QED BY <1>9, <1>10, <1>16 DEF IInv

\* Failing to generate keeps the invariant.
LEMMA FailOK ==
  ASSUME IInv, Generating, NEW res, fail(res)
  PROVE  IInv'
<1>1. /\ genError' \in {"UnsupportedInstr", "UnsupportedOperands"} /\ used' = 0
      /\ phase' = "done" /\ cbb' = [cbb EXCEPT !.size = -1]
      /\ UNCHANGED << mem, decInstr, decBB, cxt, status, func >>
  BY DEF fail
<1>2. cbb \in CBBs /\ cbb.done <= Len(cbb.instr) /\ func \in Seq(ByteValues)
  BY DEF IInv, StorageOK
<1>3. cbb' \in CBBs /\ cbb'.size = -1 /\ cbb'.instr = cbb.instr /\ cbb'.done = cbb.done
  BY <1>1, <1>2 DEF CBBs
<1>4. DecodedOK' /\ BlocksOK' /\ MemoryOK' BY <1>1, DecoderKept, MemoryKept DEF IInv
<1>5. genError' # "none" BY <1>1
<1>6. StorageAccounted' BY <1>1, <1>3, <1>5, RecodingAssumption DEF StorageAccounted
<1>7. StorageOK' BY <1>1, <1>2, <1>3, <1>6, RecodingAssumption DEF StorageOK
<1> QED BY <1>4, <1>7 DEF IInv

\* Generating an instruction keeps the invariant.
LEMMA GenerateInstrOK == IInv /\ GenerateInstr => IInv'
<1> SUFFICES ASSUME IInv, GenerateInstr PROVE IInv' OBVIOUS
<1> DEFINE i == cbb.instr[cbb.done + 1]
           r == genOne(i)
<1>1. /\ Generating
      /\ \/ Room /\ r.res = "ok" /\ Len(r.code) < 15 /\ store(r.code)
         \/ Room /\ r.res \in {"instr", "operands"} /\ fail(r.res)
         \/ abort
  BY DEF GenerateInstr
<1>2. i \in Instrs
  <2>1. cbb.instr \in Seq(Instrs) /\ cbb.done + 1 \in 1 .. Len(cbb.instr)
    BY <1>1, LenProperties DEF IInv, StorageOK, CBBs, Generating
  <2> QED BY <2>1, ElementOfSeq
<1> HIDE DEF i
<1>3. r.code \in Seq(ByteValues) BY <1>2, GeneratedTypes DEF Results
<1> HIDE DEF r
<1>4. CASE Room /\ r.res = "ok" /\ Len(r.code) < 15 /\ store(r.code)
  BY <1>1, <1>3, <1>4, StoreOK
<1>5. CASE Room /\ r.res \in {"instr", "operands"} /\ fail(r.res)
  BY <1>1, <1>5, FailOK
<1>6. CASE abort
  <2>1. /\ status' = "aborted"
        /\ UNCHANGED << mem, decInstr, decBB, cxt, phase, func, cbb, used, genError >>
    BY <1>6 DEF abort
  <2>2. DecodedOK' /\ BlocksOK' BY <2>1 DEF IInv, DecodedOK, BlocksOK
  <2> QED BY <2>1, <2>2, StorageKept, MemoryKept DEF IInv
<1> QED BY <1>1, <1>4, <1>5, <1>6

\* Ending to generate keeps the invariant.
LEMMA GenerateEndsOK == IInv /\ GenerateEnds => IInv'
<1> SUFFICES ASSUME IInv, GenerateEnds PROVE IInv' OBVIOUS
<1> DEFINE a == IF cbb.instr = << >> THEN buf ELSE cbb.instr[1].addr
<1>1. /\ phase = "generate" /\ cbb.done = Len(cbb.instr)
      /\ cbb' = [cbb EXCEPT !.size = used, !.addr1 = a] /\ phase' = "redecode"
      /\ UNCHANGED << mem, decInstr, decBB, cxt, status, func, used, genError >>
  BY DEF GenerateEnds
<1>2. /\ cbb \in CBBs /\ cbb.instr \in Seq(Instrs) /\ Len(cbb.instr) \in Nat
      /\ genError = "none" /\ used \in 0 .. fullsize /\ used \in Int /\ func \in Seq(ByteValues)
      /\ StorageAccounted /\ buf \in Nat
  BY <1>1, RecodingAssumption, LenProperties DEF IInv, StorageOK, CBBs
<1>3. /\ \A k \in 1 .. Len(cbb.instr) : cbb.instr[k].addr = GeneratedEnd(k - 1)
      /\ buf + used = GeneratedEnd(Len(cbb.instr)) /\ used <= fullsize
  BY <1>1, <1>2 DEF StorageAccounted
<1>4. a = buf
  <2>1. CASE cbb.instr = << >> BY <2>1
  <2>2. CASE cbb.instr # << >>
    <3>1. 1 \in 1 .. Len(cbb.instr) BY <1>2, <2>2, EmptySeq
    <3>2. GeneratedEnd(1 - 1) = buf BY DEF GeneratedEnd
    <3> QED BY <1>3, <2>2, <3>1, <3>2
  <2> QED BY <2>1, <2>2
<1> HIDE DEF a
<1>5. /\ cbb' \in CBBs /\ cbb'.instr = cbb.instr /\ cbb'.done = cbb.done /\ cbb'.size = used
      /\ cbb'.addr1 = buf
  BY <1>1, <1>2, <1>4 DEF CBBs
<1>6. \A k : GeneratedEnd(k)' = GeneratedEnd(k) BY <1>5 DEF GeneratedEnd
<1>7. StorageAccounted' BY <1>1, <1>2, <1>3, <1>5, <1>6 DEF StorageAccounted
<1>8. StorageOK' BY <1>1, <1>2, <1>5, <1>7 DEF StorageOK
<1>9. DecodedOK' /\ BlocksOK' /\ MemoryOK' BY <1>1, DecoderKept, MemoryKept DEF IInv
<1> QED BY <1>8, <1>9 DEF IInv

\* Ending the rewrite keeps the invariant.
LEMMA FinishOK == IInv /\ Finish => IInv'
<1> SUFFICES ASSUME IInv, Finish PROVE IInv' OBVIOUS
<1>1. /\ phase = "redecode" /\ phase' = "done"
      /\ UNCHANGED << mem, decInstr, decBB, cxt, status, func, cbb, used, genError >>
  BY DEF Finish
<1>2. DecodedOK' /\ BlocksOK' /\ MemoryOK' BY <1>1, DecoderKept, MemoryKept DEF IInv
<1>3. StorageOK /\ StorageAccounted BY DEF IInv, StorageOK
<1>4. StorageAccounted' BY <1>1, <1>3 DEF StorageAccounted, GeneratedEnd
<1>5. StorageOK' BY <1>1, <1>3, <1>4 DEF StorageOK
<1> QED BY <1>2, <1>5 DEF IInv

\* The instructions and blocks decoded, the block captured and the code storage
\* are right at all times.
THEOREM InvariantHolds == Spec => []IInv
<1>1. Init => IInv BY InitOK
<1>2. IInv /\ [Next]_vars => IInv'
  <2> SUFFICES ASSUME IInv, [Next]_vars PROVE IInv' OBVIOUS
  <2>1. CASE UNCHANGED vars
    BY <2>1, DecoderKept, StorageKept, MemoryKept DEF IInv, vars
  <2>2. CASE Next
    BY <2>2, SetFunctionOK, DecodeFunctionOK, DecodeOK, CreateCBBOK, GenerateInstrOK,
       GenerateEndsOK, DecodeGeneratedOK, FinishOK DEF Next
  <2> QED BY <2>1, <2>2
<1> QED BY <1>1, <1>2, PTL DEF Spec

\* All variables keep their types.
THEOREM TypeOKHolds == Spec => []TypeOK
<1>1. IInv => TypeOK
  <2> SUFFICES ASSUME IInv PROVE TypeOK OBVIOUS
  <2>1. \A k \in DOMAIN decInstr : /\ Len(decInstr[k].ops) <= 3
                                   /\ decInstr[k].addr \in Nat /\ decInstr[k].len \in Nat
    <3>1. \A k \in DOMAIN decInstr : decInstr[k] \in Instrs
      BY ElementOfSeq, LenProperties DEF IInv, DecodedOK
    <3> QED BY <3>1 DEF Instrs, OperandLists
  <2> QED BY <2>1 DEF IInv, MemoryOK, MemoryTyped, DecodedOK, StorageOK, TypeOK, ByteValues
<1> QED BY <1>1, InvariantHolds, PTL

\* What was generated for the instructions of a block lies one behind the
\* other from the start of the code storage, within its size, and the size
\* remembered of the block is the sum.
THEOREM StorageAccountedHolds == Spec => []StorageAccounted
<1>1. IInv => StorageAccounted BY DEF IInv, StorageOK
<1> QED BY <1>1, InvariantHolds, PTL

\* The two kinds of instructions are those that end a block and the others.
LEMMA BlockEnds ==
  /\ \A i : i.type \in PlainTypes => ~EndsBlock(i) /\ i.type # "Invalid"
  /\ \A i : i.type \in EndTypes => EndsBlock(i) \/ i.type = "Invalid"
<1>1. Range(JccTypes) = JccNames
  <2>1. Range(JccTypes) = { JccTypes[k] : k \in 1 .. 16 } BY DEF Range, JccTypes
  <2> QED BY <2>1 DEF JccTypes, JccNames
<1>2. \A it \in PlainTypes : it \notin EndTypes BY Types
<1> QED BY <1>1, <1>2 DEF EndsBlock, IsJcc, EndTypes

\* Every block that was decoded is a chain of instructions, each starting where
\* the one before ends, of the size remembered, and only the last one ends it.
THEOREM WellFormedBlocksHolds == Spec => []WellFormedBlocks
<1>1. IInv => WellFormedBlocks
  <2> SUFFICES ASSUME IInv, NEW b \in Decoded, b.count > 0
               PROVE  LET is == InstrsOf(b) IN
                      /\ is[1].addr = b.addr
                      /\ \A k \in 2 .. b.count : is[k].addr = is[k - 1].addr + is[k - 1].len
                      /\ \A k \in 1 .. (b.count - 1) :
                           ~EndsBlock(is[k]) /\ is[k].type # "Invalid"
                      /\ ~Truncated(b) =>
                           /\ b.size = is[b.count].addr + is[b.count].len - b.addr
                           /\ EndsBlock(is[b.count]) \/ is[b.count].type = "Invalid"
    BY DEF WellFormedBlocks
  <2> DEFINE is == InstrsOf(b)
  <2>1. b \in Blocks /\ Closed(decInstr, b)
    <3>1. decBB \in Seq(Blocks) /\ DOMAIN decBB = 1 .. Len(decBB)
      BY LenProperties DEF IInv, DecodedOK
    <3>2. PICK k \in 1 .. Len(decBB) : status = "ready" /\ b = decBB[k] BY <3>1 DEF Decoded
    <3> QED BY <3>1, <3>2, ElementOfSeq DEF IInv, BlocksOK
  <2>2. /\ b.instr \in Nat \ {0} /\ b.count \in Nat /\ b.instr + b.count - 1 <= Len(decInstr)
        /\ decInstr \in Seq(Instrs) /\ Len(decInstr) \in Nat
        /\ Chain(decInstr, b, b.count) /\ PlainChain(decInstr, b, b.count - 1)
    BY <2>1, LenProperties DEF IInv, Blocks, Closed, Chain, DecodedOK
  <2>3. \A k \in 1 .. b.count : is[k] = decInstr[b.instr + k - 1]
    <3>1. \A j \in b.instr .. b.instr + b.count - 1 : decInstr[j] \in Instrs
      BY <2>2, ElementOfSeq
    <3> SUFFICES ASSUME NEW k \in 1 .. b.count PROVE is[k] = decInstr[b.instr + k - 1] OBVIOUS
    <3>2. b.instr \in Int /\ b.instr + b.count - 1 \in Int BY <2>2
    <3>3. /\ k \in 1 .. ((b.instr + b.count - 1) - b.instr + 1)
          /\ b.instr + k - 1 = b.instr + (k - 1)
      BY <2>2
    <3> QED BY <2>2, <3>1, <3>2, <3>3, SubSeqProperties, SMTT(30) DEF InstrsOf
  <2> HIDE DEF is
  <2>4. is[1].addr = b.addr
    <3>1. 1 \in 1 .. b.count /\ b.instr + 1 - 1 = b.instr BY <2>2
    <3>2. ChainEnd(decInstr, b, 1 - 1) = b.addr BY DEF ChainEnd
    <3> QED BY <2>2, <2>3, <3>1, <3>2 DEF Chain
  <2>5. ASSUME NEW k \in 2 .. b.count
        PROVE  is[k].addr = is[k - 1].addr + is[k - 1].len
    <3>1. k \in 1 .. b.count /\ k - 1 \in 1 .. b.count /\ k - 1 # 0 BY <2>2
    <3>2. decInstr[b.instr + k - 1].addr = ChainEnd(decInstr, b, k - 1)
      BY <2>2, <3>1 DEF Chain
    <3> QED BY <2>3, <3>1, <3>2 DEF ChainEnd
  <2>6. ASSUME NEW k \in 1 .. (b.count - 1)
        PROVE  ~EndsBlock(is[k]) /\ is[k].type # "Invalid"
    <3>1. k \in 1 .. b.count BY <2>2
    <3>2. is[k].type \in PlainTypes BY <2>2, <2>3, <3>1 DEF PlainChain
    <3> QED BY <3>2, BlockEnds
  <2>7. ASSUME ~Truncated(b)
        PROVE  /\ b.size = is[b.count].addr + is[b.count].len - b.addr
               /\ EndsBlock(is[b.count]) \/ is[b.count].type = "Invalid"
    <3>1. b.count \in 1 .. b.count /\ b.count # 0 BY <2>2
    <3>2. /\ b.size = ChainEnd(decInstr, b, b.count) - b.addr
          /\ decInstr[b.instr + b.count - 1].type \in EndTypes
      BY <2>1, <2>7 DEF Closed
    <3>3. is[b.count] = decInstr[b.instr + b.count - 1] BY <2>3, <3>1
    <3>4. EndsBlock(is[b.count]) \/ is[b.count].type = "Invalid" BY <3>2, <3>3, BlockEnds
    <3>5. ChainEnd(decInstr, b, b.count) = is[b.count].addr + is[b.count].len
      BY <3>1, <3>3 DEF ChainEnd
    <3>6. is[b.count].addr \in Nat /\ is[b.count].len \in Nat /\ b.addr \in Nat
      <4>1. b.instr + b.count - 1 \in 1 .. Len(decInstr) BY <2>2, <3>1
      <4>2. is[b.count] \in Instrs BY <2>2, <3>3, <4>1, ElementOfSeq
      <4> QED BY <2>1, <4>2 DEF Instrs, Blocks
    <3> QED BY <3>2, <3>4, <3>5, <3>6
  <2> QED BY <2>4, <2>5, <2>6, <2>7 DEF is
<1> QED BY <1>1, InvariantHolds, PTL
=============================================================================
