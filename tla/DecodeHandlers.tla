--------------------------- MODULE DecodeHandlers ---------------------------
(***************************************************************************)
(* decode.c, second part: the handlers of single opcodes.                  *)
(***************************************************************************)
EXTENDS DecodeContext

Op1(c) == c.opc[Len(c.opc)]     \* the last opcode byte

----------------------------------------------------------------------------
(***************************************************************************)
(* Opcodes after 0F, vector registers                                      *)
(***************************************************************************)

\* Parses operands, adds the instruction and what to pass through.
passThrough(c, it, vt, rts, enc, ps, sc) ==
  LET rm == enc = "OE_RM"
      d  == parseModRM(c, vt, rts, IF rm THEN "o2" ELSE "o1", IF rm THEN "o1" ELSE "o2")
  IN attach(addBinaryOp(d, it, "VT_Implicit"), "VEX_No", ps, enc, sc)

\* The same, with the instruction given by the prefixes.
passThroughBy(c, its, vt, enc) ==
  IF c.ps \in DOMAIN its
  THEN passThrough(c, its[c.ps], vt, XX, enc, c.ps, "SC_None")
  ELSE markDecodeError(c, "BadPrefix")

\* Names with suffix: no prefix and 66.
PsPd(ps, pd) == Tables(<< At({}, ps), At({"66"}, pd) >>)

decode0F_12(c) == passThroughBy(c, PsPd("MOVLPS", "MOVLPD"), "VT_64", "OE_RM")
decode0F_13(c) == passThroughBy(c, PsPd("MOVLPS", "MOVLPD"), "VT_64", "OE_MR")
decode0F_14(c) == passThroughBy(c, PsPd("UNPCKLPS", "UNPCKLPD"), "VT_128", "OE_RM")
decode0F_15(c) == passThroughBy(c, PsPd("UNPCKHPS", "UNPCKHPD"), "VT_128", "OE_RM")
decode0F_16(c) == passThroughBy(c, PsPd("MOVHPS", "MOVHPD"), "VT_128", "OE_RM")
decode0F_17(c) == passThroughBy(c, PsPd("MOVHPS", "MOVHPD"), "VT_128", "OE_MR")
decode0F_28(c) == passThroughBy(c, PsPd("MOVAPS", "MOVAPD"), "VT_128", "OE_RM")
decode0F_29(c) == passThroughBy(c, PsPd("MOVAPS", "MOVAPD"), "VT_128", "OE_MR")
decode0F_7F(c) ==
  passThroughBy(c, Tables(<< At({"F3"}, "MOVDQU"), At({"66"}, "MOVDQA") >>), "VT_128", "OE_MR")

\* 128 bits with prefix 66, otherwise 64.
By66(c) == IF "66" \in c.ps THEN "VT_128" ELSE "VT_64"

decode0F_74(c) ==
  IF c.ps \subseteq {"66"} THEN passThrough(c, "PCMPEQB", By66(c), XX, "OE_RM", c.ps, "SC_None")
  ELSE markDecodeError(c, "BadPrefix")
decode0F_D4(c) == passThrough(c, "PADDQ", By66(c), XX, "OE_RM", c.ps, "SC_None")
decode0F_DA(c) == passThrough(c, "PMINUB", By66(c), XX, "OE_RM", c.ps \cap {"66"}, "SC_None")
decode0F_EF(c) ==
  passThrough(c, "PXOR", By66(c), IF "66" \in c.ps THEN XX ELSE << "RT_MMX", "RT_MMX" >>,
              "OE_RM", c.ps \cap {"66"}, "SC_None")

decode0F_2E(c) ==
  Require(passThrough(c, "UCOMISD", "VT_64", XX, "OE_RM", {"66"}, "SC_None"), "66" \in c.ps)
decode0F_D6(c) ==
  Require(passThrough(c, "MOVQ", "VT_64", XX, "OE_MR", c.ps, "SC_None"), c.ps = {"66"})

\* Moves between general purpose and vector registers, of 64 bits with REX.W,
\* which is remembered for passing through.
moveDQ(c, enc) ==
  LET w  == Wide(c)
      ps == IF w THEN c.ps \cup {"REXW"} ELSE c.ps
  IN passThrough(c, IF w THEN "MOVQ" ELSE "MOVD", IF w THEN "VT_64" ELSE "VT_32",
                 << "G", "RT_XMM" >>, enc, ps, "SC_dstDyn")

decode0F_6E_P66(c) == moveDQ(c, "OE_RM")
decode0F_7E(c) ==
  CASE c.ps = {"66"} -> moveDQ(c, "OE_MR")
    [] c.ps = {"F3"} ->
         passThrough(c, "MOVQ", "VT_64", XX, "OE_RM",
                     IF Wide(c) THEN {"F3", "REXW"} ELSE {"F3"}, "SC_dstDyn")
    [] OTHER -> markDecodeError(c, "BadPrefix")

\* The result always has 32 bits.
decode0F_D7(c) ==
  LET d == parseModRM(c, By66(c), << "RT_XMM", "G" >>, "o2", "o1")
  IN attach(addBinaryOp([d EXCEPT !.o1 = opOverwriteType(@, "VT_32")], "PMOVMSKB", "VT_32"),
            "VEX_No", c.ps \cap {"66"}, "OE_RM", "SC_dstDyn")

----------------------------------------------------------------------------
(***************************************************************************)
(* Other opcodes after 0F                                                  *)
(***************************************************************************)
addNop(d) ==
  CASE d.digit # 0 -> markDecodeError(d, "BadOpcode")
    [] d.digit = 0 /\ d.vt = "VT_64" -> markDecodeError(d, "BadOperands")
    [] OTHER -> addUnaryOp(d, "NOP", d.o1)

decode0F_1F(c) == addNop(parseM(c))

decode0F_40(c) ==
  addBinaryOp(parseRM(c), CMovTypes[Op1(c) - \h40 + 1], c.vt)

\* A jump over a displacement of n bytes.
relativeTarget(c, n) ==
  LET to == c.f + c.off + n + Number(Read(c, n))
  IN Skip([c EXCEPT !.o1 = ImmOp("VT_64", Bytes(to))], n)

\* Mutant: decoding goes on behind the jump.
jccNoExit(c, n, opc) ==
  LET d == relativeTarget(c, n)
  IN setVType(addUnaryOp(d, JccTypes[Op1(c) - opc + 1], d.o1), "VT_Implicit")

\* A jump on condition.
jcc(c, n, opc) ==
  LET d == relativeTarget(c, n)
  IN [setVType(addUnaryOp(d, JccTypes[Op1(c) - opc + 1], d.o1), "VT_Implicit")
       EXCEPT !.exit = TRUE]

decode0F_80(c) == jcc(c, 4, \h80)
decode_70(c)   == jcc(c, 1, \h70)

\* Extending moves from a source of type vt.
extend(c, it, vt) ==
  LET d == parseRM(c)
  IN addBinaryOp([d EXCEPT !.o2 = opOverwriteType(@, vt)], it, c.vt)

decode0F_B6(c) == extend(c, "MOVZX", "VT_8")
decode0F_BE(c) == extend(c, "MOVSX", "VT_8")
decode0F_B7(c) == Require(extend(c, "MOVZX", "VT_16"), c.vt \in {"VT_32", "VT_64"})
decode0F_BF(c) == Require(extend(c, "MOVSX", "VT_16"), c.vt \in {"VT_32", "VT_64"})

decode_63(c) ==
  LET d == parseModRM(c, "VT_None", GG, "o2", "o1")
  IN Require(addBinaryOp([d EXCEPT !.o2 = opOverwriteType(@, "VT_32")], "MOVSX", "VT_None"),
             Wide(c))

----------------------------------------------------------------------------
(***************************************************************************)
(* Opcodes of one byte                                                     *)
(***************************************************************************)

\* PUSH and POP of the register in the opcode: of 64 bits, or 16 with 66.
pushPop(c, it, opc) ==
  LET vt == IF "66" \in c.ps THEN "VT_16" ELSE "VT_64"
  IN addUnaryOp([c EXCEPT !.vt = vt], it, setRegOp(vt, Op1(c) - opc + If8("B" \in c.rex)))

decode_50(c) == pushPop(c, "PUSH", \h50)
decode_58(c) == pushPop(c, "POP", \h58)

\* PUSH of an immediate of type imm_vt: the type of the instruction is what is pushed.
addPushImm(c, imm_vt) ==
  LET d == parseImm(c, imm_vt, "o1", FALSE)
  IN setVType(addUnaryOp(d, "PUSH", d.o1), IF c.vt = "VT_32" THEN "VT_64" ELSE c.vt)

decode_68(c) == IF c.vt = "VT_64" THEN Require(c, FALSE) ELSE addPushImm(c, c.vt)
decode_6A(c) == IF c.vt = "VT_64" THEN Require(c, FALSE) ELSE addPushImm(c, "VT_8")

addLea(d)    == Require(addBinaryOp(d, "LEA", d.vt), d.o2.kind = "Ind")
decode_8D(c) == addLea(parseRM(c))

\* Operands of PUSH and POP have 64 bits where 32 are the default.
stackOp(c, it) ==
  LET o == IF c.vt = "VT_32" THEN opOverwriteType(c.o1, "VT_64") ELSE c.o1
  IN Require(addUnaryOp(c, it, o), c.vt # "VT_64")

decode_8F_0(c) == stackOp(parseM(c), "POP")

decode_98(c) == addSimple(c, IF Wide(c) THEN "CLTQ" ELSE "CWTL", "VT_None")
decode_99(c) == addSimple(c, "CQTO", IF Wide(c) THEN "VT_128" ELSE "VT_64")
decode_9C(c) == addSimple(c, IF "66" \in c.ps THEN "PUSHF" ELSE "PUSHFQ", "VT_Implicit")
decode_9D(c) == addSimple(c, IF "66" \in c.ps THEN "POPF" ELSE "POPFQ", "VT_Implicit")

decode_B0(c) ==
  LET vt == IF Op1(c) < \hB8 THEN "VT_8" ELSE c.vt
      d  == [c EXCEPT !.vt = vt,
                      !.o1 = registerOp(c, vt, "G", (Op1(c) % 8) + If8("B" \in c.rex))]
  IN addBinaryOp(parseImm(d, vt, "o2", TRUE), "MOV", vt)

\* Groups, where a digit selects the operation.
Shifts == Tables(<< At(4, "SHL"), At(5, "SHR"), At(7, "SAR") >>)

shiftBy(c, binary) ==
  IF c.digit \notin DOMAIN Shifts THEN markDecodeError(c, "BadOpcode")
  ELSE IF binary THEN addBinaryOp(c, Shifts[c.digit], c.vt)
  ELSE addUnaryOp(c, Shifts[c.digit], c.o1)

Bytewise(c)  == [c EXCEPT !.vt = "VT_8"]
decode_C1(c) == shiftBy(parseImm(parseM(c), "VT_8", "o2", FALSE), TRUE)
decode_D1(c) == shiftBy(parseM(c), FALSE)
decode_D3(c) == shiftBy([parseM(c) EXCEPT !.o2 = setRegOp("VT_8", 1)], TRUE)
decode_C0(c) == decode_C1(Bytewise(c))
decode_D0(c) == decode_D1(Bytewise(c))
decode_D2(c) == decode_D3(Bytewise(c))

addMovImm(d) ==
  IF d.digit = 0 THEN addBinaryOp(parseI2(d), "MOV", d.vt) ELSE markDecodeError(d, "BadOpcode")

decode_C7(c) == addMovImm(parseM(c))
decode_C6(c) == decode_C7(Bytewise(c))

UnaryOps ==
  Tables(<< At(2, "NOT"), At(3, "NEG"), At(4, "MUL"), At(5, "IMUL"), At(6, "DIV"),
            At(7, "IDIV1") >>)

addGroup3(d) ==
  CASE d.digit = 0 -> addBinaryOp(parseI2(d), "TEST", d.vt)
    [] d.digit \in DOMAIN UnaryOps -> addUnaryOp(d, UnaryOps[d.digit], d.o1)
    [] OTHER -> markDecodeError(d, "BadOpcode")

decode_F7(c) == addGroup3(parseM(c))
decode_F6(c) == decode_F7(Bytewise(c))

IncDec(d) == addUnaryOp(d, IF d.digit = 0 THEN "INC" ELSE "DEC", d.o1)

addGroup4(d) == IF d.digit \in {0, 1} THEN IncDec(d) ELSE markDecodeError(d, "BadOpcode")
decode_FE(c) == addGroup4(parseM(Bytewise(c)))

\* Targets of indirect calls and jumps have 64 bits.
indirect(d, it) == [addUnaryOp(d, it, opOverwriteType(d.o1, "VT_64")) EXCEPT !.exit = TRUE]

addGroup5(d) ==
  CASE d.digit \in {0, 1} -> IncDec(d)
    [] d.digit = 2 -> indirect(d, "CALL")
    [] d.digit = 4 -> indirect(d, "JMPI")
    [] d.digit = 6 -> stackOp(d, "PUSH")
    [] OTHER       -> markDecodeError(d, "BadOpcode")

decode_FF(c) == addGroup5(parseM(c))

\* Direct calls and jumps.
goTo(c, it, n) ==
  LET d == relativeTarget(c, n) IN [addUnaryOp(d, it, d.o1) EXCEPT !.exit = TRUE]

decode_E8(c) == goTo(c, "CALL", 4)
decode_E9(c) == goTo(c, "JMP", 4)
decode_EB(c) == goTo(c, "JMP", 1)
=============================================================================
