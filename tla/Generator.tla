------------------------------ MODULE Generator ------------------------------
(***************************************************************************)
(* The machine code generator, generate.c: the bytes of one instruction.   *)
(*                                                                         *)
(* Of GContext, g has what is passed on: prefixes, the REX bits ("E" asks  *)
(* for an empty REX prefix), opcode, and the bytes of operands.  A result  *)
(* is "ok" with the code, "operands" (the code returns -1), "instr" (there *)
(* is no generator), or "abort" for a failed assertion.                    *)
(***************************************************************************)
EXTENDS Instr

GContext ==
  [ vp |-> "VEX_No", vvvv |-> 0, ps |-> {}, rex |-> {}, so |-> "OSO_None",
    opc |-> << >>, b |-> << >>, abort |-> FALSE ]

Result(res, code)   == [ res |-> res, code |-> code ]
Code(code)          == Result("ok", code)
UnsupportedOperands == Result("operands", << >>)

----------------------------------------------------------------------------
(***************************************************************************)
(* Operands                                                                *)
(***************************************************************************)
IfIn(x, S)    == IF x THEN S ELSE {}
NeedsRex(r)   == r.rt = "RT_GP8" /\ r.ri \in 4 .. 7   \* otherwise AH, CH, DH, BH
RegRex(r, l)  == IfIn(r.ri >= 8, {l}) \cup IfIn(NeedsRex(r), {"E"})
Known(r)      == regTypeIsGP(r.rt) \/ regTypeIsV(r.rt)

\* Mutant: no displacement if it is 0, also for RBP and R13.
memoryBytesNoDisp(o, digit) ==
  LET absolute == o.reg.rt = "RT_None"
      rb   == o.reg.ri % 8
      sib  == absolute \/ o.scale > 0 \/ rb = 4
      ss   == CASE o.scale = 8 -> 3 [] o.scale = 4 -> 2 [] o.scale = 2 -> 1 [] OTHER -> 0
      ix   == IF o.scale = 0 THEN 4 ELSE o.ireg.ri % 8
      n    == IF absolute THEN 4 ELSE IF o.val = Zero THEN 0
              ELSE IF FitsSigned(o.val, 1) THEN 1 ELSE 4
      mod  == IF absolute \/ n = 0 THEN 0 ELSE IF n = 1 THEN 1 ELSE 2
      base == IF absolute THEN 5 ELSE rb
  IN << mod * 64 + digit * 8 + (IF sib THEN 4 ELSE rb) >>
     \o (IF sib THEN << ss * 64 + ix * 8 + base >> ELSE << >>) \o Low(o.val, n)

\* ModRM and what follows it for an operand in memory.  RBP and R13 (5) need a
\* displacement, RSP and R12 (4) a SIB byte.
memoryBytes(o, digit) ==
  LET absolute == o.reg.rt = "RT_None"
      rb   == o.reg.ri % 8
      sib  == absolute \/ o.scale > 0 \/ rb = 4
      ss   == CASE o.scale = 8 -> 3 [] o.scale = 4 -> 2 [] o.scale = 2 -> 1 [] OTHER -> 0
      ix   == IF o.scale = 0 THEN 4 ELSE o.ireg.ri % 8
      n    == CASE absolute -> 4
                [] ~absolute /\ o.val = Zero -> IF rb = 5 THEN 1 ELSE 0
                [] OTHER -> IF FitsSigned(o.val, 1) THEN 1 ELSE 4
      mod  == IF absolute \/ n = 0 THEN 0 ELSE IF n = 1 THEN 1 ELSE 2
      base == IF absolute THEN 5 ELSE rb
  IN << mod * 64 + digit * 8 + (IF sib THEN 4 ELSE rb) >>
     \o (IF sib THEN << ss * 64 + ix * 8 + base >> ELSE << >>) \o Low(o.val, n)

\* Addresses relative to RIP are not generated, and RSP is no index.
Addressable(o) ==
  /\ o.val = Zero \/ FitsSigned(o.val, 4)
  /\ o.reg.rt \in {"RT_None", "RT_GP64"}
  /\ o.scale > 0 => o.ireg.rt = "RT_GP64" /\ o.ireg.ri # 4

\* defVT64: 64 bits are the default, no REX.W is needed for them.
calcModRMDigit(g, o, digit, defVT64) ==
  LET w == IfIn(o.vt = "VT_64" /\ ~defVT64, {"W"})
  IN CASE o.kind = "Reg" ->
            [g EXCEPT !.rex = @ \cup w \cup RegRex(o.reg, "B"),
                      !.b = << 192 + digit * 8 + (o.reg.ri % 8) >>,
                      !.abort = @ \/ ~Known(o.reg)]
       [] o.kind = "Ind" /\ Addressable(o) ->
            [g EXCEPT !.rex = @ \cup w \cup IfIn(o.reg.ri >= 8, {"B"})
                                \cup IfIn(o.scale > 0 /\ o.ireg.ri >= 8, {"X"}),
                      !.so = o.seg,
                      !.b = memoryBytes(o, digit)]
       [] OTHER -> [g EXCEPT !.abort = TRUE]

\* Operand o1 is a register or in memory, o2 a register.
calcModRM(g, o1, o2) ==
  LET d == [g EXCEPT !.rex = @ \cup RegRex(o2.reg, "R")]
  IN IF o1.vt # o2.vt \/ o2.kind # "Reg" \/ ~Known(o2.reg) THEN [g EXCEPT !.abort = TRUE]
     ELSE calcModRMDigit(d, o1, o2.reg.ri % 8, FALSE)

----------------------------------------------------------------------------
(***************************************************************************)
(* Prefixes, and putting the parts together                                *)
(***************************************************************************)
Weight(rex) == (IF "W" \in rex THEN 8 ELSE 0) + (IF "R" \in rex THEN 4 ELSE 0)
               + (IF "X" \in rex THEN 2 ELSE 0) + (IF "B" \in rex THEN 1 ELSE 0)
If1(p, b)   == IF p THEN << b >> ELSE << >>

VexPs == Tables(<< At({}, 0), At({"66"}, 1), At({"F3"}, 2), At({"F2"}, 3) >>)

vexPrefix(g, rex) ==
  LET b   == (15 - g.vvvv) * 8 + (IF g.vp = "VEX_128" THEN 0 ELSE 4) + VexPs[g.ps \ {"REXW"}]
      off(l, w) == IF l \in rex THEN 0 ELSE w     \* bits are inverted
  IN IF rex \cap {"X", "B", "W"} = {} THEN << \hC5, b + off("R", 128) >>
     ELSE << \hC4, 1 + off("R", 128) + off("X", 64) + off("B", 32), b + off("W", 128) >>

genPrefix(g) ==
  LET rex == g.rex \cup IfIn("REXW" \in g.ps, {"W"})
  IN If1(g.so = "OSO_UseFS", \h64) \o If1(g.so = "OSO_UseGS", \h65)
     \o IF g.vp # "VEX_No" THEN vexPrefix(g, rex)
        ELSE If1("66" \in g.ps, \h66) \o If1("F2" \in g.ps, \hF2) \o If1("F3" \in g.ps, \hF3)
             \o If1(rex # {}, \h40 + Weight(rex))

\* With a VEX prefix, the leading 0F of the opcode is part of that.
VexOK(g) == g.vp # "VEX_No" =>
  g.opc[1] = \h0F /\ Len(g.opc) = 2 /\ g.ps \ {"REXW"} \in DOMAIN VexPs

appendOO(g, imm) ==
  IF g.abort \/ ~VexOK(g) THEN Result("abort", << >>)
  ELSE Code(genPrefix(g) \o (IF g.vp = "VEX_No" THEN g.opc ELSE Tail(g.opc)) \o g.b \o imm)

appendI(o) == Low(o.val, ImmBytes[o.vt])

\* Operands of 16 bits need prefix 66.
With66(g, o) == IF o.vt = "VT_16" THEN [g EXCEPT !.ps = @ \cup {"66"}] ELSE g

\* Vector instructions imply the operand size, REX.W only if asked for.
genModRM(g, opc, o1, o2, vt) ==
  LET implied == IF vt = "VT_Implicit" THEN {"W"} ELSE {}
      c       == calcModRM([g EXCEPT !.opc = opc], o1, o2)
  IN appendOO(With66([c EXCEPT !.rex = @ \ implied], o1), << >>)

genModRMI(opc, o1, o2, imm) ==
  appendOO(With66(calcModRM([GContext EXCEPT !.opc = opc], o1, o2), o1), appendI(imm))

genDigitRM(opc, digit, o, defVT64) ==
  appendOO(With66(calcModRMDigit([GContext EXCEPT !.opc = opc], o, digit, defVT64), o), << >>)

genDigitMI(opc, digit, o, imm) ==
  appendOO(With66(calcModRMDigit([GContext EXCEPT !.opc = opc], o, digit, FALSE), o), appendI(imm))

\* The register is part of the opcode.
genOI(opc, o, imm) ==
  LET g == [GContext EXCEPT !.opc = << opc + (o.reg.ri % 8) >>,
                            !.rex = IfIn(o.reg.ri >= 8, {"B"}) \cup IfIn(o.vt = "VT_64", {"W"})]
  IN appendOO(With66(g, o), appendI(imm))

----------------------------------------------------------------------------
(***************************************************************************)
(* Shorter immediates, if the value allows: not for the lowest one         *)
(***************************************************************************)
Lowest(n) == [k \in 1 .. n |-> IF k = n THEN 128 ELSE 0]

reduceImm(o, from, to) ==
  LET n == ImmBytes[to]
      v == SignExtend(Low(o.val, ImmBytes[from]))
  IN IF o.kind = "Imm" /\ o.vt = from /\ FitsSigned(v, n) /\ Low(v, n) # Lowest(n)
     THEN ImmOp(to, ZeroExtend(Low(v, n)))
     ELSE o

reduceImm64to32(o) == reduceImm(o, "VT_64", "VT_32")
reduceImm32to8(o)  == reduceImm(o, "VT_32", "VT_8")
reduceImm16to8(o)  == reduceImm(o, "VT_16", "VT_8")

----------------------------------------------------------------------------
(***************************************************************************)
(* Generators                                                              *)
(***************************************************************************)
Wide32     == {"VT_32", "VT_64"}
AllWidths  == {"VT_8", "VT_16"} \cup Wide32
IsRM(o)    == o.kind \in {"Reg", "Ind"}
Size8(vt)  == IF vt = "VT_8" THEN 0 ELSE 1
NoG        == GContext

\* Operation with base opcode and digit for immediates, on operands of widths.
\* accu: there are short forms for AL/AX/EAX/RAX.
arithmetic(d, s, base, digit, widths, accu) ==
  LET fitting == s.vt = d.vt \/ << s.vt, d.vt >> = << "VT_32", "VT_64" >>
      short   == accu /\ d.kind = "Reg" /\ d.reg.ri = 0 /\ fitting /\ s.vt # "VT_64"
      shorter == s.vt = "VT_8" /\ d.vt # "VT_8"
  IN IF d.vt \notin widths THEN UnsupportedOperands
     ELSE CASE s.kind = "Reg" /\ s.vt = d.vt /\ IsRM(d) ->
                 genModRM(NoG, << base + Size8(d.vt) >>, d, s, "VT_None")
            [] s.kind = "Ind" /\ s.vt = d.vt /\ d.kind = "Reg" ->
                 genModRM(NoG, << base + 2 + Size8(d.vt) >>, s, d, "VT_None")
            [] s.kind = "Imm" /\ shorter /\ IsRM(d) -> genDigitMI(<< \h83 >>, digit, d, s)
            [] s.kind = "Imm" /\ short ->
                 Code(If1(d.vt = "VT_16", \h66) \o If1(d.vt = "VT_64", \h48)
                      \o << base + 4 + Size8(d.vt) >> \o appendI(s))
            [] s.kind = "Imm" /\ ~short /\ fitting /\ s.vt # "VT_64" /\ IsRM(d) ->
                 genDigitMI(<< \h80 + Size8(d.vt) >>, digit, d, s)
            [] OTHER -> UnsupportedOperands

Reduced(s) == reduceImm32to8(reduceImm64to32(s))

genAdd(i) == arithmetic(Dst(i), reduceImm16to8(Reduced(Src(i))), \h00, 0, AllWidths, TRUE)
genAnd(i) == arithmetic(Dst(i), reduceImm16to8(Reduced(Src(i))), \h20, 4, AllWidths, TRUE)
genOr(i)  == arithmetic(Dst(i), Reduced(Src(i)), \h08, 1, Wide32, FALSE)
genSub(i) == arithmetic(Dst(i), Reduced(Src(i)), \h28, 5, Wide32, FALSE)
genXor(i) == arithmetic(Dst(i), Reduced(Src(i)), \h30, 6, Wide32, FALSE)
genCmp(i) == arithmetic(Dst(i), Reduced(Src(i)), \h38, 7, Wide32, FALSE)

test(d, s) ==
  LET fitting == (s.vt = d.vt /\ s.vt # "VT_64") \/ << s.vt, d.vt >> = << "VT_32", "VT_64" >>
  IN IF d.vt \notin AllWidths THEN UnsupportedOperands
     ELSE CASE s.kind = "Reg" /\ s.vt = d.vt /\ IsRM(d) ->
                 genModRM(NoG, << \h84 + Size8(d.vt) >>, d, s, "VT_None")
            [] s.kind = "Imm" /\ fitting /\ d.kind = "Reg" /\ d.reg.ri = 0 ->
                 Code(If1(d.vt = "VT_16", \h66) \o If1(d.vt = "VT_64", \h48)
                      \o << \hA8 + Size8(d.vt) >> \o appendI(s))
            [] s.kind = "Imm" /\ fitting /\ IsRM(d) /\ ~(d.kind = "Reg" /\ d.reg.ri = 0) ->
                 genDigitMI(<< \hF6 + Size8(d.vt) >>, 0, d, s)
            [] OTHER -> UnsupportedOperands

genTest(i) == test(Dst(i), reduceImm64to32(Src(i)))

\* A register is set to 0 by XOR; moves may extend 32 to 64 bits.
move(d, s) ==
  IF ~IsRM(d) \/ ~({d.vt, s.vt} \subseteq Wide32) THEN UnsupportedOperands
  ELSE CASE IsRM(s) /\ d.kind = "Reg" /\ s.vt = "VT_32" /\ d.vt = "VT_64" ->
              genModRM(NoG, << \h63 >>, [s EXCEPT !.vt = "VT_64"], d, "VT_None")
         [] s.kind = "Reg" /\ s.vt = d.vt -> genModRM(NoG, << \h89 >>, d, s, "VT_None")
         [] s.kind = "Ind" /\ d.kind = "Reg" /\ s.vt = d.vt ->
              genModRM(NoG, << \h8B >>, s, d, "VT_None")
         [] s.kind = "Ind" /\ d.kind = "Reg" /\ s.vt = "VT_64" /\ d.vt = "VT_32" -> Code(<< >>)
         [] s.kind = "Imm" /\ d.kind = "Reg" /\ s.val = Zero ->
              genModRM(NoG, << \h31 >>, d, d, "VT_None")
         [] s.kind = "Imm" /\ s.vt = "VT_32" /\ (d.kind = "Ind" \/ s.val # Zero) ->
              genDigitMI(<< \hC7 >>, 0, d, s)
         [] s.kind = "Imm" /\ s.vt = "VT_64" /\ d.kind = "Reg" /\ s.val # Zero ->
              genOI(\hB8, d, s)
         [] OTHER -> UnsupportedOperands

genMov(i) == move(Dst(i), reduceImm64to32(Src(i)))

\* To a register of 32 or 64 bits, from operand s of the same type.
SameWide(d, s) == d.kind = "Reg" /\ IsRM(s) /\ s.vt = d.vt /\ d.vt \in Wide32

\* The opcode has no leading 0F.
genCMov(i) ==
  LET k == CHOOSE k \in 1 .. 16 : i.type = CMovTypes[k]
  IN IF SameWide(Dst(i), Src(i))
     THEN genModRM(NoG, << \h40 + k - 1 >>, Src(i), Dst(i), "VT_None")
     ELSE UnsupportedOperands

product(d, s) ==
  CASE SameWide(d, s) -> genModRM(NoG, << \h0F, \hAF >>, s, d, "VT_None")
    [] s.kind = "Imm" /\ s.vt = "VT_8" /\ d.kind = "Reg" /\ d.vt \in Wide32 ->
         genModRMI(<< \h6B >>, d, d, s)
    [] s.kind = "Imm" /\ s.vt = "VT_32" /\ d.kind = "Reg" /\ d.vt = "VT_32" ->
         genModRMI(<< \h69 >>, d, d, s)
    [] OTHER -> UnsupportedOperands

genIMul(i) == product(Dst(i), Reduced(Src(i)))

\* Operations with one operand of widths.
unary(i, opc, digit, widths) ==
  IF IsRM(Dst(i)) /\ Dst(i).vt \in widths
  THEN genDigitRM(<< opc >>, digit, Dst(i), FALSE) ELSE UnsupportedOperands

genIDiv1(i) == unary(i, \hF7, 7, Wide32)
genInc(i)   == unary(i, \hFF, 0, Wide32)
genDec(i)   == unary(i, \hFF, 1, Wide32)
genNeg(i)   == unary(i, \hF6 + Size8(Dst(i).vt), 3, AllWidths)

shift(i, digit) ==
  IF Src(i).kind = "Imm" /\ Src(i).vt = "VT_8" /\ IsRM(Dst(i)) /\ Dst(i).vt \in Wide32
  THEN genDigitMI(<< \hC1 >>, digit, Dst(i), Src(i)) ELSE UnsupportedOperands

genShl(i) == shift(i, 4)
genShr(i) == shift(i, 5)
genSar(i) == shift(i, 7)

genLea(i) ==
  IF Src(i).kind = "Ind" /\ Dst(i).kind = "Reg" /\ Dst(i).vt \in Wide32
  THEN genModRM(NoG, << \h8D >>, Src(i), Dst(i), "VT_None") ELSE UnsupportedOperands

\* PUSH and POP of a register: part of the opcode, no REX.W.
pushPopReg(o, opc) == Code(If1(o.reg.ri >= 8, \h41) \o << opc + (o.reg.ri % 8) >>)

genPush(i) ==
  CASE Dst(i).kind = "Reg" /\ Dst(i).vt = "VT_64" -> pushPopReg(Dst(i), \h50)
    [] Dst(i).kind = "Ind" /\ Dst(i).vt = "VT_64" -> genDigitRM(<< \hFF >>, 6, Dst(i), TRUE)
    [] OTHER -> UnsupportedOperands
genPop(i) ==
  IF Dst(i).kind = "Reg" /\ Dst(i).vt = "VT_64" THEN pushPopReg(Dst(i), \h58)
  ELSE UnsupportedOperands

genCltq == Code(<< \h48, \h98 >>)
genCwtl == Code(<< \h98 >>)
genRet  == Code(<< \hC3 >>)
genCqto(i) ==
  CASE i.vtype = "VT_64"  -> Code(<< \h99 >>)
    [] i.vtype = "VT_128" -> Code(<< \h48, \h99 >>)
    [] OTHER -> UnsupportedOperands

VecPs == [ ADDSS |-> {"F3"}, ADDSD |-> {"F2"}, ADDPS |-> {}, ADDPD |-> {"66"} ]
genVec(i) ==
  genModRM([GContext EXCEPT !.ps = VecPs[i.type]], << \h0F, \h58 >>, Src(i), Dst(i), "VT_Implicit")

\* What the decoder remembered of the encoding.
genPassThrough(i) ==
  LET g == [GContext EXCEPT !.ps = i.pt.ps, !.vp = i.pt.vex]
  IN CASE i.pt.enc = "OE_None" -> appendOO([g EXCEPT !.opc = i.pt.opc], << >>)
       [] i.pt.enc = "OE_MR"   -> genModRM(g, i.pt.opc, Dst(i), Src(i), i.vtype)
       [] i.pt.enc = "OE_RM"   -> genModRM(g, i.pt.opc, Src(i), Dst(i), i.vtype)
       [] i.pt.enc = "OE_RVM"  ->
            genModRM([g EXCEPT !.vvvv = Src(i).reg.ri], i.pt.opc, Src2(i), Dst(i), i.vtype)

----------------------------------------------------------------------------
\* The generator for a type of instruction.  Hints for the inliner need no code.
genType(i) ==
  CASE i.type = "ADD"   -> genAdd(i)
    [] i.type = "AND"   -> genAnd(i)
    [] i.type = "OR"    -> genOr(i)
    [] i.type = "SUB"   -> genSub(i)
    [] i.type = "XOR"   -> genXor(i)
    [] i.type = "CMP"   -> genCmp(i)
    [] i.type = "TEST"  -> genTest(i)
    [] i.type \in {"MOV", "MOVSX"} -> genMov(i)
    [] i.type \in Range(CMovTypes) -> genCMov(i)
    [] i.type = "IMUL"  -> genIMul(i)
    [] i.type = "IDIV1" -> genIDiv1(i)
    [] i.type = "INC"   -> genInc(i)
    [] i.type = "DEC"   -> genDec(i)
    [] i.type = "NEG"   -> genNeg(i)
    [] i.type = "SHL"   -> genShl(i)
    [] i.type = "SHR"   -> genShr(i)
    [] i.type = "SAR"   -> genSar(i)
    [] i.type = "LEA"   -> genLea(i)
    [] i.type = "PUSH"  -> genPush(i)
    [] i.type = "POP"   -> genPop(i)
    [] i.type = "CLTQ"  -> genCltq
    [] i.type = "CWTL"  -> genCwtl
    [] i.type = "CQTO"  -> genCqto(i)
    [] i.type = "RET"   -> genRet
    [] i.type \in DOMAIN VecPs -> genVec(i)
    [] i.type \in {"HINT_CALL", "HINT_RET"} -> Code(<< >>)
    [] OTHER -> Result("instr", << >>)

genOne(i) == IF i.pt.opc # << >> THEN genPassThrough(i) ELSE genType(i)
=============================================================================
