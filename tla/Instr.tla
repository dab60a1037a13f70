------------------------------- MODULE Instr -------------------------------
(***************************************************************************)
(* Instructions as decoder, capturing and generator exchange them: their   *)
(* registers, operands and how they are copied.                            *)
(*                                                                         *)
(* Immediates and displacements are 64 bit values, here their 8 bytes, the *)
(* lowest first.  An operand type (OT_Reg32) is a kind and a value type.   *)
(***************************************************************************)
EXTENDS Integers, SequencesExt

Value8(s, fill) == [k \in 1 .. 8 |-> IF k <= Len(s) THEN s[k] ELSE fill]
ZeroExtend(s)   == Value8(s, 0)
SignExtend(s)   == Value8(s, IF Last(s) >= 128 THEN 255 ELSE 0)
Zero            == ZeroExtend(<< >>)
Low(v, n)       == SubSeq(v, 1, n)
Fits(v, n)      == v = ZeroExtend(Low(v, n))   \* as unsigned value of n bytes
FitsSigned(v, n) == v = SignExtend(Low(v, n))

\* The signed number with bytes s (at most 4), and the 64 bit value of n.
Number(s)  == LET v == SignExtend(s)
              IN v[1] + 256 * v[2] + 65536 * v[3]
                 + 16777216 * (IF v[4] >= 128 THEN v[4] - 256 ELSE v[4])
Bytes(n)   == SignExtend(<< n % 256, (n \div 256) % 256, (n \div 65536) % 256,
                            (n \div 16777216) % 256 >>)

\* Tables: one entry, and those of several tables.
At(x, y)   == [z \in {x} |-> y]
Tables(ts) == [x \in UNION { DOMAIN ts[k] : k \in DOMAIN ts } |->
                 ts[CHOOSE k \in DOMAIN ts : x \in DOMAIN ts[k]][x]]

----------------------------------------------------------------------------
(***************************************************************************)
(* Registers                                                               *)
(***************************************************************************)
Reg(t, i) == [ rt |-> t, ri |-> i ]
NoReg     == Reg("RT_None", 0)

\* getGPRegType, getLegGPRegType, getVRegType
GPRegTypes    == [ VT_8  |-> "RT_GP8",  VT_16 |-> "RT_GP16",
                   VT_32 |-> "RT_GP32", VT_64 |-> "RT_GP64" ]
LegGPRegTypes == [ GPRegTypes EXCEPT !.VT_8 = "RT_GP8Leg" ]
VRegTypes     == [ VT_64 |-> "RT_MMX", VT_128 |-> "RT_XMM", VT_256 |-> "RT_YMM" ]

regTypeIsGP(t) == t \in {"RT_GP8Leg", "RT_GP8", "RT_GP16", "RT_GP32", "RT_GP64"}
regTypeIsV(t)  == t \in {"RT_MMX", "RT_XMM", "RT_YMM", "RT_ZMM"}

\* getReg asserts that there is a register i of type t.
IsReg(t, i) ==
  CASE t \in {"RT_None", "RT_IP"}      -> i = 0
    [] t \in {"RT_GP8Leg", "RT_MMX"}   -> i \in 0 .. 7
    [] OTHER                           -> i \in 0 .. 15

----------------------------------------------------------------------------
(***************************************************************************)
(* Operands                                                                *)
(***************************************************************************)
Operand(kind, vt) ==
  [ kind |-> kind, vt |-> vt, val |-> Zero, reg |-> NoReg, ireg |-> NoReg,
    scale |-> 0, seg |-> "OSO_None" ]
NoOperand         == Operand("None", "VT_None")
ImmOp(vt, v)      == [Operand("Imm", vt) EXCEPT !.val = v]
RegOp(vt, r)      == [Operand("Reg", vt) EXCEPT !.reg = r]
IndOp(vt, v, r, x, s, seg) ==
  [Operand("Ind", vt) EXCEPT !.val = v, !.reg = r, !.ireg = x, !.scale = s, !.seg = seg]

setRegOp(vt, i)   == RegOp(vt, Reg(GPRegTypes[vt], i))

ImmBytes == [ VT_8 |-> 1, VT_16 |-> 2, VT_32 |-> 4, VT_64 |-> 8 ]

\* What copyOperand asserts of its source.
CanCopy(o) ==
  /\ o.kind = "Imm" => Fits(o.val, ImmBytes[o.vt])
  /\ o.kind = "Reg" => o.vt # "VT_512"
  /\ o.kind = "Ind" => /\ o.reg.rt \in {"RT_None", "RT_IP", "RT_GP64"}
                       /\ o.scale > 0 => o.ireg.rt = "RT_GP64"
  /\ o.kind # "None"

\* The operand as copied: an index register only with a scale.
copyOperand(o) == IF o.scale = 0 THEN [o EXCEPT !.ireg = NoReg] ELSE o

opOverwriteType(o, vt) ==
  CASE o.kind # "Reg" -> [o EXCEPT !.vt = vt]
    [] o.kind = "Reg" /\ vt = "VT_64" /\ regTypeIsV(o.reg.rt) ->
         [o EXCEPT !.vt = vt, !.reg.rt = "RT_MMX"]
    [] OTHER -> [o EXCEPT !.vt = vt, !.reg.rt = GPRegTypes[vt]]

----------------------------------------------------------------------------
(***************************************************************************)
(* Instructions                                                            *)
(***************************************************************************)
NoPassThrough == [ opc |-> << >>, ps |-> {}, vex |-> "VEX_No", enc |-> "OE_None", sc |-> "SC_None" ]

\* An instruction with operands ops: none, dst, dst and src, dst, src and src2.
Instruction(it, vt, ops) ==
  [ type |-> it, vtype |-> vt, ops |-> ops, pt |-> NoPassThrough, addr |-> 0, len |-> 0 ]

Dst(i)  == IF Len(i.ops) >= 1 THEN i.ops[1] ELSE NoOperand
Src(i)  == IF Len(i.ops) >= 2 THEN i.ops[2] ELSE NoOperand
Src2(i) == IF Len(i.ops) >= 3 THEN i.ops[3] ELSE NoOperand

CanCopyInstr(i) == \A k \in DOMAIN i.ops : CanCopy(i.ops[k])
copyInstr(i)    == [i EXCEPT !.ops = [k \in DOMAIN i.ops |-> copyOperand(i.ops[k])]]

attachPassthrough(i, vex, ps, enc, sc, opc) ==
  [i EXCEPT !.pt = [ opc |-> opc, ps |-> ps, vex |-> vex, enc |-> enc, sc |-> sc ]]

\* Types for the 16 conditions, in their order.
JccTypes  == << "JO", "JNO", "JC", "JNC", "JZ", "JNZ", "JBE", "JA",
                "JS", "JNS", "JP", "JNP", "JL", "JGE", "JLE", "JG" >>
CMovTypes == << "CMOVO", "CMOVNO", "CMOVC", "CMOVNC", "CMOVZ", "CMOVNZ", "CMOVBE", "CMOVA",
                "CMOVS", "CMOVNS", "CMOVP", "CMOVNP", "CMOVL", "CMOVGE", "CMOVLE", "CMOVG" >>
=============================================================================
